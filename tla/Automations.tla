----------------------------- MODULE Automations -----------------------------
(***************************************************************************)
(* The automations of operators: the scheduler, the events of the Gateway  *)
(* and the operators start executions, which overlap; each carries out the *)
(* actions of one automation, with retries, and leaves its verdict in the  *)
(* history and in the definition.  services/automations.py,                *)
(* routers/automations.py; normalization.save_pipeline_event, audit.py.    *)
(*                                                                         *)
(* An action awaits; the store is read and written in one step.  A batch   *)
(* is one coroutine: a tick of the scheduler, the dispatch of one event or *)
(* the request of an operator.  It decides what to run once, and runs it   *)
(* one after the other.                                                    *)
(***************************************************************************)
EXTENDS Naturals, Sequences

CONSTANTS
    Autos,        \* automations
    Recipes,      \* what an automation may be: trigger, actions, attempts
    Ticker,       \* the batch of the scheduler; there is one loop
    Dispatchers,  \* batches of events and of operators
    Executions,   \* bound: executions ever started
    Occurrences,  \* bound: events from outside
    Commands      \* bound: changes by operators, and process deaths

Kinds == {"reconnect", "audit", "event", "alert", "close_alert", "unsupported"}
Recipe == [trigger : {"timed", "event_received", "error_detected", "manual"},
           actions : UNION {[1 .. n -> Kinds] : n \in 1 .. 2}, attempts : {1, 2, 4}]

ASSUME AuAssumption ==
    /\ Ticker \notin Dispatchers /\ Recipes \subseteq Recipe
    /\ Executions \in Nat /\ Occurrences \in Nat /\ Commands \in Nat

VARIABLES
    definitions,  \* the automations of the store
    executions,   \* the history of the store
    batches,      \* the coroutines
    events,       \* the events whose dispatch has been scheduled, by kind
    count,        \* the bounds used up
    truth         \* history: what each execution met, the last that ended, deaths

auVars == <<definitions, executions, batches, events, count, truth>>

Batches == {Ticker} \cup Dispatchers
Waiting == [pc |-> "waiting"]

AuInit ==
    /\ definitions \in [Autos -> {[status |-> "active", due |-> FALSE, result |-> "none", recipe |-> r] : r \in Recipes}]
    /\ executions = <<>>
    /\ batches = [b \in Batches |-> Waiting]
    /\ events = [error_detected |-> 0, event_received |-> 0]
    /\ count = [executions |-> 0, occurrences |-> 0, commands |-> 0]
    /\ truth = [met |-> <<>>, last |-> [a \in Autos |-> "none"], stopped |-> [a \in Autos |-> FALSE], deaths |-> 0]

Use(what, limit) == count[what] < limit /\ count' = [count EXCEPT ![what] = @ + 1]
Verdicts == {"succeeded", "skipped", "failed"}
RecipeOf(a) == definitions[a].recipe

-------------------------------------------------------------------------------
(* What starts executions.                                                 *)

TimePasses(a) ==
    /\ RecipeOf(a).trigger = "timed" /\ ~definitions[a].due
    /\ definitions' = [definitions EXCEPT ![a].due = TRUE]
    /\ UNCHANGED <<executions, batches, events, count, truth>>

Occurs(kind) ==
    /\ Use("occurrences", Occurrences)
    /\ events' = [events EXCEPT ![kind] = @ + 1]
    /\ UNCHANGED <<definitions, executions, batches, truth>>

Active == {a \in Autos : definitions[a].status = "active"}
Due == {a \in Active : RecipeOf(a).trigger = "timed" /\ definitions[a].due}
Triggered(kind) == {a \in Active : RecipeOf(a).trigger = kind}

\* What is to run is decided here, from the definitions as they are now.
Decide(b, chosen) ==
    batches' = [batches EXCEPT ![b] = [pc |-> "next", rest |-> chosen]]

Tick ==
    /\ batches[Ticker] = Waiting /\ Due # {}
    /\ Decide(Ticker, Due)
    /\ UNCHANGED <<definitions, executions, events, count, truth>>

Dispatch(b, kind) ==
    /\ batches[b] = Waiting /\ events[kind] > 0
    /\ events' = [events EXCEPT ![kind] = @ - 1]
    /\ Decide(b, Triggered(kind))
    /\ UNCHANGED <<definitions, executions, count, truth>>

Execute(b, a) ==
    /\ batches[b] = Waiting
    /\ Decide(b, {a})
    /\ UNCHANGED <<definitions, executions, events, count, truth>>

\* An operator's change; a new trigger would be an automation of its own here.
Set(a, status) ==
    /\ Use("commands", Commands)
    /\ definitions' = [definitions EXCEPT ![a].status = status]
    /\ truth' = [truth EXCEPT !.stopped[a] = FALSE]
    /\ UNCHANGED <<executions, batches, events>>

-------------------------------------------------------------------------------
(* An execution.                                                           *)

\* The conditions may leave out some of the targets, or all of them.
Steps(a, targets) ==
    CASE targets = 0 -> <<>>
      [] targets = 1 -> RecipeOf(a).actions
      [] targets = 2 -> RecipeOf(a).actions \o RecipeOf(a).actions

Begun(b, a, targets) ==
    [pc |-> "acting", rest |-> batches[b].rest \ {a}, id |-> count.executions + 1, of |-> RecipeOf(a),
     left |-> Steps(a, targets), tries |-> RecipeOf(a).attempts, success |-> FALSE, skipped |-> TRUE]

BeginExecution(b, a, targets) ==
    /\ batches[b].pc = "next" /\ a \in batches[b].rest
    /\ Use("executions", Executions)
    /\ executions' = Append(executions, [of |-> a, status |-> "running"])
    /\ batches' = [batches EXCEPT ![b] = Begun(b, a, targets)]
    /\ truth' = [truth EXCEPT !.met = Append(@, {})]
    /\ UNCHANGED <<definitions, events>>

\* What an action can come to.  The alert that is asked for is not made: the
\* call is a stub, and the action succeeds.
ActionResults(kind) ==
    CASE kind \in {"reconnect", "close_alert"} -> {"succeeded", "failed"}
      [] kind = "unsupported" -> {"skipped"}
      [] OTHER -> {"succeeded"}

\* An audit record is an event as well, and may start automations; the event
\* that an automation registers is marked, and starts none.
Emitted(kind, result) ==
    IF result = "succeeded" /\ kind \in {"audit", "reconnect"}
    THEN [events EXCEPT !.event_received = @ + 1] ELSE events

Met(b, result) == [truth EXCEPT !.met[batches[b].id] = @ \cup {result}]

Act(b, result) ==
    LET run == batches[b] IN
    /\ run.pc = "acting" /\ run.left # <<>>
    /\ result \in ActionResults(Head(run.left))
    /\ result # "failed" \/ run.tries > 1
    /\ IF result = "failed"
       THEN /\ batches' = [batches EXCEPT ![b].tries = @ - 1]
            /\ truth' = truth
       ELSE /\ batches' = [batches EXCEPT ![b] = [run EXCEPT
                 !.left = Tail(@), !.tries = run.of.attempts,
                 !.success = @ \/ result = "succeeded", !.skipped = @ /\ result = "skipped"]]
            /\ truth' = Met(b, result)
    /\ events' = Emitted(Head(run.left), result)
    /\ count.occurrences + events'.event_received <= Occurrences + 1
    /\ UNCHANGED <<definitions, executions, count>>

Verdict_AnySuccess(run) == IF run.success THEN "succeeded" ELSE IF run.skipped THEN "skipped" ELSE "failed"
Verdict(run) == IF run.left # <<>> THEN "failed" ELSE IF run.skipped /\ ~run.success THEN "skipped" ELSE "succeeded"

Status(a, verdict) == IF verdict = "failed" THEN "error" ELSE definitions[a].status

\* All steps are done, or the last attempt of one has failed: the others are
\* left out.
EndExecution(b) ==
    LET run == batches[b]  a == executions[run.id].of IN
    /\ run.pc = "acting"
    /\ run.left # <<>> => "failed" \in ActionResults(Head(run.left)) /\ run.tries = 1
    /\ executions' = [executions EXCEPT ![run.id].status = Verdict(run)]
    /\ definitions' = [definitions EXCEPT ![a] =
         [@ EXCEPT !.due = FALSE, !.result = Verdict(run), !.status = Status(a, Verdict(run))]]
    /\ truth' = [truth EXCEPT !.met[run.id] = IF run.left # <<>> THEN @ \cup {"failed"} ELSE @,
                              !.last[a] = Verdict(run),
                              !.stopped[a] = @ \/ run.left # <<>>]
    /\ batches' = [batches EXCEPT ![b] = [pc |-> "next", rest |-> run.rest]]
    /\ UNCHANGED <<events, count>>

EndBatch(b) ==
    /\ batches[b].pc = "next" /\ batches[b].rest = {}
    /\ batches' = [batches EXCEPT ![b] = Waiting]
    /\ UNCHANGED <<definitions, executions, events, count, truth>>

\* A process dies: its coroutines go, the executions they were in stay running.
AuCrash ==
    /\ Use("commands", Commands)
    /\ batches' = [b \in Batches |-> Waiting]
    /\ events' = [kind \in DOMAIN events |-> 0]
    /\ truth' = [truth EXCEPT !.deaths = @ + 1]
    /\ UNCHANGED <<definitions, executions>>

AuNext ==
    \/ \E a \in Autos : TimePasses(a)
    \/ \E a \in Autos, s \in {"active", "paused", "error"} : Set(a, s)
    \/ \E kind \in DOMAIN events : Occurs(kind)
    \/ Tick
    \/ \E b \in Dispatchers, kind \in DOMAIN events : Dispatch(b, kind)
    \/ \E b \in Dispatchers, a \in Autos : Execute(b, a)
    \/ \E b \in Batches, a \in Autos, targets \in 0 .. 2 : BeginExecution(b, a, targets)
    \/ \E b \in Batches, result \in Verdicts : Act(b, result)
    \/ \E b \in Batches : EndExecution(b) \/ EndBatch(b)
    \/ AuCrash

AuSpec == AuInit /\ [][AuNext]_auVars

-------------------------------------------------------------------------------
(* Properties.                                                             *)

\* Every record has the form the code gives it.
AuTypeOK ==
    /\ definitions \in [Autos -> [status : {"active", "paused", "error"}, due : BOOLEAN,
                                  result : {"none"} \cup Verdicts, recipe : Recipe]]
    /\ \A i \in DOMAIN executions : i <= count.executions /\ executions[i].status \in {"running"} \cup Verdicts
    /\ \A kind \in DOMAIN events : events[kind] \in Nat

Running(i) == \E b \in Batches : batches[b].pc = "acting" /\ batches[b].id = i

\* The history and the definition say what happened, however executions
\* overlap: an execution is failed exactly if an action failed for good,
\* succeeded exactly if one was carried out and none failed; one that says it
\* runs does so, or died with its process; and an automation that failed stays
\* in error until an operator says otherwise.
AutomationsTell ==
    /\ \A i \in DOMAIN executions :
         CASE executions[i].status = "running" -> Running(i) \/ truth.deaths > 0
           [] executions[i].status = "failed" -> "failed" \in truth.met[i]
           [] executions[i].status = "succeeded" -> "succeeded" \in truth.met[i] /\ "failed" \notin truth.met[i]
           [] executions[i].status = "skipped" -> truth.met[i] \subseteq {"skipped"}
    /\ \A a \in Autos : definitions[a].result = truth.last[a]
    /\ \A a \in Autos : truth.stopped[a] => definitions[a].status = "error"
=============================================================================
