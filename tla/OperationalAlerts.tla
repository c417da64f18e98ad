-------------------------- MODULE OperationalAlerts --------------------------
(***************************************************************************)
(* The alerts of connections.  Every request first looks for incidents and *)
(* reconciles the stored alerts with them, then does what the operator     *)
(* asked.  The incidents are looked for in two parts, at different times:  *)
(* what the list of connections says, then what the providers say.         *)
(* services/alerts.py, services/alert_signals.py, routers/alerts.py.       *)
(***************************************************************************)
EXTENDS Naturals, FiniteSets, TLC

CONSTANTS
    AlConns,        \* connections
    Evolution,      \* those whose session the Evolution server holds
    AlCalls,        \* requests in progress at once
    Situations,     \* what can be the case for a connection
    AlertLimit,     \* bound: alerts ever made
    Turns           \* bound: changes of situation

VARIABLES
    situation,   \* what is the case for each connection
    alerts,      \* the alerts of the store; identifiers grow with time
    dismissed,   \* the fingerprints that an operator deleted
    inquiries,   \* the coroutines
    made         \* history: alerts made, situations changed

alVars == <<situation, alerts, dismissed, inquiries, made>>

Situation ==
    [state : {"connected", "pending", "disconnected"}, lifecycle : {"active", "auth"},
     health : {"healthy", "degraded"}, heartbeat : {"none", "fresh", "expired"}, webhookError : BOOLEAN, reconnects : 0 .. 3,
     session : {"open", "closed", "absent"}, token : {"none", "valid", "expiring", "expired", "missing"},
     backlog : {"none", "stalled", "discarded"}]

ASSUME AlAssumption ==
    /\ IsFiniteSet(AlConns) /\ Evolution \subseteq AlConns
    /\ Situations \subseteq Situation
    /\ AlertLimit \in Nat /\ Turns \in Nat

Resting == [pc |-> "resting"]

AlInit ==
    /\ situation \in [AlConns -> Situations]
    /\ alerts = {} /\ dismissed = {}
    /\ inquiries = [k \in AlCalls |-> Resting]
    /\ made = [alerts |-> 0, turns |-> 0]

Turn(c) ==
    /\ made.turns < Turns
    /\ made' = [made EXCEPT !.turns = @ + 1]
    /\ \E s \in Situations : s # situation[c] /\ situation' = [situation EXCEPT ![c] = s]
    /\ UNCHANGED <<alerts, dismissed, inquiries>>

-------------------------------------------------------------------------------
(* The incidents.  A fingerprint is a cause and a connection.              *)

ReconnectThreshold == 3

\* What the stored status of a connection says.  An Evolution session is
\* judged by its live state instead of by a pending state or a heartbeat.
Stored(c) ==
    LET s == situation[c] IN
    {cause \in {"connection_disconnected", "authentication_error", "embedded_signup_pending",
                "provider_degraded", "heartbeat_expired", "webhook_errors", "repeated_reconnects"} :
        CASE cause = "connection_disconnected" -> s.state = "disconnected"
          [] cause = "authentication_error" -> s.lifecycle = "auth"
          [] cause = "embedded_signup_pending" -> s.state = "pending" /\ c \notin Evolution
          [] cause = "provider_degraded" -> s.health = "degraded"
          [] cause = "heartbeat_expired" -> s.heartbeat = "expired" /\ c \notin Evolution
          [] cause = "webhook_errors" -> s.webhookError
          [] cause = "repeated_reconnects" -> s.reconnects >= ReconnectThreshold}

\* An Evolution server that does not answer has no sessions to report.
SessionDown(c, reachable) == c \in Evolution /\ reachable /\ situation[c].session = "closed"

TokenCause(c) ==
    IF c \in Evolution THEN {}
    ELSE CASE situation[c].token \in {"expired", "missing"} -> {"instagram_token_expired"}
           [] situation[c].token = "expiring" -> {"instagram_token_expiring"}
           [] OTHER -> {}

\* What waits hides what was discarded.
BacklogCause(c) ==
    CASE situation[c].backlog = "stalled" -> {"core_delivery_stalled"}
      [] situation[c].backlog = "discarded" -> {"core_delivery_failed"}
      [] OTHER -> {}

Live(c, reachable) ==
    (IF SessionDown(c, reachable) THEN {"whatsapp_session_down"} ELSE {}) \cup TokenCause(c) \cup BacklogCause(c)

Specific == {"whatsapp_session_down", "instagram_token_expired"}
Generic == {"connection_disconnected", "provider_degraded", "authentication_error", "heartbeat_expired"}

\* A live diagnosis replaces the generic ones of its connection.
WithoutSuperseded(found) ==
    {f \in found : f[1] \in Generic => ~\E g \in found : g[2] = f[2] /\ g[1] \in Specific}

-------------------------------------------------------------------------------
(* The store.                                                              *)

IsOpen(a) == a.status \in {"new", "acknowledged"}
ByOperator(a) == a.status = "resolved" /\ a.source = "manual"

\* What no new alert is made for.
Suppressed_New(found) ==
    {a.of : a \in {b \in alerts : b.status = "new" \/ ByOperator(b)}} \cup (dismissed \cap found)
Suppressed(found) ==
    {a.of : a \in {b \in alerts : IsOpen(b) \/ ByOperator(b)}} \cup (dismissed \cap found)

Settled(a, found) ==
    IF IsOpen(a) /\ a.of \notin found THEN [a EXCEPT !.status = "resolved", !.source = "automatic"] ELSE a

\* The candidates come one after the other; new alerts take the next identifiers.
Numbered(new) ==
    CHOOSE f \in [new -> made.alerts + 1 .. made.alerts + Cardinality(new)] : \A x, y \in new : f[x] = f[y] => x = y

Synced(found) ==
    LET new == found \ Suppressed(found) IN
    {Settled(a, found) : a \in alerts}
        \cup {[id |-> Numbered(new)[f], of |-> f, status |-> "new", source |-> "none"] : f \in new}

Fresh(found) == Cardinality(found \ Suppressed(found))

\* One that is resolved stays so.
Moved(a, status) ==
    IF a.status = "resolved" THEN a
    ELSE [a EXCEPT !.status = status, !.source = IF status = "resolved" THEN "manual" ELSE @]

-------------------------------------------------------------------------------
(* A request: list, acknowledge, resolve, delete, delete what is resolved. *)

Asks == [do : {"list", "delete_resolved"}] \cup [do : {"acknowledge", "resolve", "delete"}, id : 1 .. AlertLimit]

\* The connections have been listed, and their stored status looked at.
Look(k, ask) ==
    /\ inquiries[k] = Resting
    /\ inquiries' = [inquiries EXCEPT ![k] =
          [pc |-> "asking", ask |-> ask, found |-> UNION {Stored(c) \X {c} : c \in AlConns}]]
    /\ UNCHANGED <<situation, alerts, dismissed, made>>

\* The Evolution server has answered, or not; the rest runs to the end.
Answered(k, reachable) ==
    LET ask == inquiries[k].ask
        found == WithoutSuperseded(inquiries[k].found \cup UNION {Live(c, reachable) \X {c} : c \in AlConns})
        synced == Synced(found)
        kept == dismissed \cap found
        gone == CASE ask.do = "delete" -> {a \in synced : a.id = ask.id}
                  [] ask.do = "delete_resolved" -> {a \in synced : a.status = "resolved"}
                  [] OTHER -> {}
    IN  /\ inquiries[k].pc = "asking"
        /\ made.alerts + Fresh(found) <= AlertLimit
        /\ made' = [made EXCEPT !.alerts = @ + Fresh(found)]
        /\ alerts' = IF ask.do \in {"acknowledge", "resolve"}
                     THEN {IF a.id = ask.id THEN Moved(a, IF ask.do = "resolve" THEN "resolved" ELSE "acknowledged")
                           ELSE a : a \in synced}
                     ELSE synced \ gone
        /\ dismissed' = kept \cup {a.of : a \in gone}
        /\ inquiries' = [inquiries EXCEPT ![k] = Resting]
        /\ UNCHANGED situation

\* A process dies: the requests go, the store stays.
AlCrash ==
    /\ inquiries' = [k \in AlCalls |-> Resting]
    /\ UNCHANGED <<situation, alerts, dismissed, made>>

AlNext ==
    \/ \E c \in AlConns : Turn(c)
    \/ \E k \in AlCalls, ask \in Asks : Look(k, ask)
    \/ \E k \in AlCalls, reachable \in BOOLEAN : Answered(k, reachable)
    \/ AlCrash

AlSpec == AlInit /\ [][AlNext]_alVars

-------------------------------------------------------------------------------
(* Properties.                                                             *)

\* Every record has the form the code gives it.
AlTypeOK ==
    /\ situation \in [AlConns -> Situation]
    /\ \A a \in alerts : a.id \in 1 .. made.alerts /\ a.status \in {"new", "acknowledged", "resolved"}
    /\ \A f \in dismissed : f[2] \in AlConns

\* Whatever the requests that reconcile at once found, an incident has one open
\* alert at most, and none where an operator's resolution is on record.
OneAlertPerIncident ==
    \A a, b \in alerts : a.of = b.of /\ a # b /\ IsOpen(a) => ~IsOpen(b) /\ ~ByOperator(b)
=============================================================================
