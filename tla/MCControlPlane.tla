---------------------------- MODULE MCControlPlane ----------------------------
(***************************************************************************)
(* The operators' side of the Gateway on small instances.  The four parts  *)
(* share nothing; one run explores them one after the other: "part" says   *)
(* which one moves.                                                        *)
(***************************************************************************)
EXTENDS WebhookCenter, GroupTransport, OperationalAlerts, Automations

CONSTANT Quiet   \* a webhook that is left alone, to tell its evidence from the other's

VARIABLE part

mcVars == <<part, whVars, gtVars, alVars, auVars>>

Calm ==
    [state |-> "connected", lifecycle |-> "active", health |-> "healthy", heartbeat |-> "fresh",
     webhookError |-> FALSE, reconnects |-> 0, session |-> "open", token |-> "valid", backlog |-> "none"]

\* A Gateway that sees a connection down and a provider that says why.
MCSituations == {Calm, [Calm EXCEPT !.state = "disconnected", !.session = "closed", !.token = "expired"]}

\* A failing action after one without an executor; one whose audit record is
\* an event that starts it again.
MCRecipes ==
    {[trigger |-> "timed", actions |-> <<"unsupported", "reconnect">>, attempts |-> 2],
     [trigger |-> "event_received", actions |-> <<"audit">>, attempts |-> 1]}

\* While deliveries are made: a process dies, a write raises, a file is lost or the
\* configuration is written; no operator touches the quiet webhook.  While they are
\* made again: the same, or two raising writes, and the death that may follow them,
\* with one webhook and what an earlier process delivered: a test, a long text that was
\* shortened, or one that was cut.
WhBound ==
    LET disturbed == spent.writes + spent.crashes + spent.losses IN
    /\ \A r \in WhRoutes : routes[r].pc = "target" /\ routes[r].request.what \in {"repeat", "redeliver"} =>
         routes[r].request.source <= seen.last
    /\ part = "webhooks" =>
         /\ disturbed + spent.faults <= 1
         /\ Exists(Quiet) /\ hooks[Quiet].enabled /\ hooks[Quiet].secret # NoSecret /\ hooks[Quiet].auth = "BEARER"
         /\ \A r \in WhRoutes : routes[r].pc = "target" =>
              routes[r].hook # Quiet /\ routes[r].request.what \notin {"repeat", "redeliver"}
    /\ part = "redeliveries" =>
         /\ disturbed = 0 \/ (disturbed = 1 /\ (spent.faults = 0 \/ ~Up))
         /\ ~Exists(Quiet)
         /\ \A r \in WhRoutes :
              /\ routes[r].pc = "target" => routes[r].request.what \in {"repeat", "redeliver"}
              /\ routes[r].pc = "posting" => routes[r].action # 0

\* An operator acts on an alert that was made, or on the next one.
AlBound ==
    \A k \in AlCalls : inquiries[k].pc = "asking" /\ inquiries[k].ask.do \in {"acknowledge", "resolve", "delete"} =>
        inquiries[k].ask.id <= made.alerts + 1

MCInit ==
    /\ part \in {"webhooks", "redeliveries", "groups", "alerts", "automations"}
    /\ WhInit /\ GtInit /\ AlInit /\ AuInit
    /\ part = "webhooks" => Exists(Quiet) /\ deliveries = {}
    /\ part = "redeliveries" =>
         ~Exists(Quiet) /\ deliveries # {} /\ \A d \in deliveries : Exists(d.hook) /\ (d.text = "whole" <=> d.test)
    /\ part \notin {"webhooks", "redeliveries"} => deliveries = {} /\ \A h \in Hooks : hooks[h] = NoHook
    /\ part # "alerts" => \A c \in AlConns : situation[c] = Calm
    /\ part # "automations" => \A a \in Autos : definitions[a].recipe.trigger = "timed"

MCNext ==
    \/ part \in {"webhooks", "redeliveries"} /\ WhNext /\ UNCHANGED <<part, gtVars, alVars, auVars>> /\ WhBound'
    \/ part = "groups" /\ GtNext /\ UNCHANGED <<part, whVars, alVars, auVars>>
    \/ part = "alerts" /\ AlNext /\ AlBound' /\ UNCHANGED <<part, whVars, gtVars, auVars>>
    \/ part = "automations" /\ AuNext /\ UNCHANGED <<part, whVars, gtVars, alVars>>

MCSpec == MCInit /\ [][MCNext]_mcVars

Symmetry == Permutations(WhRoutes) \cup Permutations(WhKeys) \cup Permutations(Calls) \cup Permutations(AlCalls)

\* Every record of the four parts has the form the code gives it.
TypesOK == WhTypeOK /\ GtTypeOK /\ AlTypeOK /\ AuTypeOK
=============================================================================
