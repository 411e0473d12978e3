-------------------------- MODULE SessionLifecycle --------------------------
(***************************************************************************)
(* The lifecycle half of session.Manager (src/internal/session/manager.go, *)
(* "the algebra"): one record per session with its generation and public   *)
(* state, at most one STOP, RESTART or EVICT intent in progress, callers   *)
(* that join and leave an intent, and a bounded history of finished        *)
(* intents.  Every operation runs under the manager's mutex and is one     *)
(* action.  Calls that only report (STATUS, a stale generation, a          *)
(* conflict, a no-op, a replay) leave this state alone and are not         *)
(* actions; the conditions under which they are given are the guards and   *)
(* the operators Replayable and StopIsNoop.  The ledger of decisions is    *)
(* left out.                                                               *)
(***************************************************************************)
EXTENDS SessionStates, Integers, Sequences, FiniteSets

CONSTANTS
    Sessions,       \* session ids
    Callers,        \* caller ids of lifecycle requests
    MaxCallers,     \* defaultMaxIntentCallers
    MaxHistory,     \* defaultMaxIntentHistory
    MaxIntents,     \* bound: intents created
    Registrations,  \* [generation, state, reaped] with which sessions register
    ChildRisks,     \* values of LifecycleRequest.ChildRisk
    Works,          \* values of LifecycleRequest.HasWork
    DetachFailures, \* why callers leave: REQUEST_CANCELLED, REQUEST_TIMEOUT
    None            \* nil

Kind == {"STOP", "RESTART", "EVICT"}
Failure == {"", "SESSION_POISONED", "SESSION_REAP_INCOMPLETE", "INITIALIZATION_FAILED",
            "REQUEST_CANCELLED", "REQUEST_TIMEOUT"}
Result == [state : State, generation : Nat, failure : Failure]
Intents == 1..MaxIntents

ASSUME LifecycleConstants ==
    /\ MaxCallers \in Nat \ {0}
    /\ MaxHistory \in Nat \ {0}
    /\ MaxIntents \in Nat
    /\ Registrations \subseteq [generation : Nat \ {0}, state : State, reaped : BOOLEAN]
    /\ ChildRisks \subseteq BOOLEAN /\ Works \subseteq BOOLEAN
    /\ DetachFailures \subseteq {"REQUEST_CANCELLED", "REQUEST_TIMEOUT"}
    /\ None \notin Intents /\ None \notin Result /\ None \notin Kind

VARIABLES
    registered,     \* the sessions with a managedLifecycle
    generation,     \* lifecycle.generation
    state,          \* lifecycle.state
    reaped,         \* lifecycle.reaped
    hasWork,        \* lifecycle.hasWork
    incumbent,      \* lifecycle.incumbent: an intent id or None
    history,        \* lifecycle.history: ids of finished intents, oldest first
    nextIntent,     \* m.nextIntent
    kind,           \* per intent: its kind, None before it is created
    target,         \* per intent: targetGeneration
    outcome,        \* per intent: its result once terminal, else None
    attached,       \* per intent: the callers with attached = true
    detached,       \* per intent: the callers that left
    answer,         \* per intent and caller: lifecycleCaller.result or None
    bound           \* per intent and caller: boundGeneration (0: not bound)

sessionVars == <<registered, generation, state, reaped, hasWork, incumbent, history>>
intentVars == <<nextIntent, kind, target, outcome, attached, detached, answer, bound>>
lifecycleVars == <<sessionVars, intentVars>>

LifecycleTypeOK ==
    /\ registered \subseteq Sessions
    /\ generation \in [Sessions -> Nat]
    /\ state \in [Sessions -> State]
    /\ reaped \in [Sessions -> BOOLEAN]
    /\ hasWork \in [Sessions -> BOOLEAN]
    /\ incumbent \in [Sessions -> Intents \cup {None}]
    /\ history \in [Sessions -> Seq(Intents)]
    /\ nextIntent \in 0..MaxIntents
    /\ kind \in [Intents -> Kind \cup {None}]
    /\ target \in [Intents -> Nat]
    /\ outcome \in [Intents -> Result \cup {None}]
    /\ attached \in [Intents -> SUBSET Callers]
    /\ detached \in [Intents -> SUBSET Callers]
    /\ answer \in [Intents -> [Callers -> Result \cup {None}]]
    /\ bound \in [Intents -> [Callers -> Nat]]

LifecycleInit ==
    /\ registered = {}
    /\ generation = [s \in Sessions |-> 0]
    /\ state = [s \in Sessions |-> Stopped]
    /\ reaped = [s \in Sessions |-> FALSE]
    /\ hasWork = [s \in Sessions |-> FALSE]
    /\ incumbent = [s \in Sessions |-> None]
    /\ history = [s \in Sessions |-> <<>>]
    /\ nextIntent = 0
    /\ kind = [i \in Intents |-> None]
    /\ target = [i \in Intents |-> 0]
    /\ outcome = [i \in Intents |-> None]
    /\ attached = [i \in Intents |-> {}]
    /\ detached = [i \in Intents |-> {}]
    /\ answer = [i \in Intents |-> [c \in Callers |-> None]]
    /\ bound = [i \in Intents |-> [c \in Callers |-> 0]]

-----------------------------------------------------------------------------
\* RegisterLifecycle: does nothing for a session that already has a record.
Registered(s, g, st, rp) ==
    /\ registered' = registered \cup {s}
    /\ generation' = [generation EXCEPT ![s] = g]
    /\ state' = [state EXCEPT ![s] = st]
    /\ reaped' = [reaped EXCEPT ![s] = rp]
    /\ hasWork' = [hasWork EXCEPT ![s] = FALSE]
    /\ incumbent' = [incumbent EXCEPT ![s] = None]
    /\ history' = [history EXCEPT ![s] = <<>>]

RegisterLifecycle(s, g, st, rp) ==
    /\ s \notin registered
    /\ Registered(s, g, st, rp)
    /\ UNCHANGED intentVars

-----------------------------------------------------------------------------
\* Lifecycle(STOP | RESTART).

\* compatibleTerminalReplay: positions in the history that answer a repeated STOP.
ReplayPositions(s) ==
    {j \in DOMAIN history[s] : /\ kind[history[s][j]] = "STOP"
                               /\ target[history[s][j]] = generation[s]}
Replayable_AnyState(s, k) == k = "STOP" /\ ReplayPositions(s) # {}
Replayable(s, k) == k = "STOP" /\ state[s] = Stopped /\ ReplayPositions(s) # {}

Confirmed(s) == state[s] \in {Crashed, Poisoned} /\ reaped[s]
StopIsNoop(s) == state[s] = Stopped \/ Confirmed(s)
ReapIncomplete(s) == state[s] \in {Crashed, Poisoned} /\ ~reaped[s]

\* A caller joins the intent in progress.
Join(s, c, k) ==
    LET i == incumbent[s] IN
    /\ s \in registered
    /\ i # None
    /\ target[i] = generation[s]
    /\ kind[i] = k
    /\ c \notin attached[i] \cup detached[i]
    /\ Cardinality(attached[i] \cup detached[i]) < MaxCallers
    /\ attached' = [attached EXCEPT ![i] = @ \cup {c}]
    /\ UNCHANGED <<sessionVars, nextIntent, kind, target, outcome, detached, answer, bound>>

\* The record of a new intent of session s with the given callers.
NewIntent(s, k, cs) ==
    LET i == nextIntent + 1 IN
    /\ nextIntent < MaxIntents
    /\ nextIntent' = i
    /\ kind' = [kind EXCEPT ![i] = k]
    /\ target' = [target EXCEPT ![i] = generation[s]]
    /\ attached' = [attached EXCEPT ![i] = cs]
    /\ incumbent' = [incumbent EXCEPT ![s] = i]
    /\ UNCHANGED <<outcome, detached, answer, bound>>

\* What Lifecycle requires before it creates an intent.
Insertable(s, k) ==
    /\ s \in registered
    /\ incumbent[s] = None
    /\ ~Replayable(s, k)
    /\ k = "STOP" => ~StopIsNoop(s)
    /\ k = "RESTART" => ~ReapIncomplete(s)
    /\ state[s] \notin {Draining, Stopping}

Insert(s, c, k, childRisk, work) ==
    /\ Insertable(s, k)
    /\ NewIntent(s, k, {c})
    /\ hasWork' = [hasWork EXCEPT ![s] = work]
    /\ state' = [state EXCEPT ![s] = lifecycleIntentState(@, childRisk, work)]
    /\ UNCHANGED <<registered, generation, reaped, history>>

\* DRAINING or STOPPING without an intent is an invariant failure of the record.
InvariantFailure(s) ==
    /\ s \in registered
    /\ incumbent[s] = None
    /\ state[s] \in {Draining, Stopping}
    /\ state' = [state EXCEPT ![s] = Poisoned]
    /\ UNCHANGED <<registered, generation, reaped, hasWork, incumbent, history, intentVars>>

-----------------------------------------------------------------------------
\* CompleteLifecycleObserved.

\* The teardown evidence, by the first stage that is missing ("none": all of
\* it was observed), and what firstTeardownFailure makes of it.
TeardownGap == {"shutdown", "unsafe-io", "terminate", "death", "survivors", "stderr-drain",
                "reap", "none"}
firstTeardownFailure(gap) ==
    CASE gap \in {"shutdown", "unsafe-io", "stderr-drain"} -> "SESSION_POISONED"
      [] gap \in {"terminate", "death", "survivors", "reap"} -> "SESSION_REAP_INCOMPLETE"
      [] gap = "none" -> ""

\* The parts of terminalizeLifecycle: the callers that get the result, the
\* history without its overflow, the sessions' intents once s has none.
Answered_Everyone(i) == attached[i] \cup detached[i]
Answered(i) == attached[i]

Trimmed(h) == IF Len(h) > MaxHistory THEN Tail(h) ELSE h

Vacated_Kept(s) == incumbent
Vacated(s) == [incumbent EXCEPT ![s] = None]

\* terminalizeLifecycle: intent i of session s ends with the given result;
\* callers in readyFor are bound to the result's generation.
Terminalize(s, i, result, readyFor) ==
    /\ state' = [state EXCEPT ![s] = result.state]
    /\ outcome' = [outcome EXCEPT ![i] = result]
    /\ answer' = [answer EXCEPT ![i] =
                     [c \in Callers |-> IF c \in Answered(i) THEN result ELSE answer[i][c]]]
    /\ bound' = [bound EXCEPT ![i] =
                     [c \in Callers |-> IF c \in readyFor THEN result.generation ELSE bound[i][c]]]
    /\ history' = [history EXCEPT ![s] = Trimmed(Append(history[s], i))]
    /\ incumbent' = Vacated(s)
    /\ UNCHANGED <<registered, hasWork, nextIntent, kind, target, attached, detached>>

\* The result of an intent whose teardown failed.
FailedResult_KeepsState(s, failure) ==
    [state |-> state[s], generation |-> generation[s], failure |-> failure]
FailedResult(s, failure) ==
    [state |-> Poisoned, generation |-> generation[s], failure |-> failure]

\* The callers bound to the successor of a RESTART that is READY.
BoundCallers_Everyone(i) == attached[i] \cup detached[i]
BoundCallers(i) == attached[i]

\* initialization: what is known of the successor of a RESTART.
Initialization == {"pending", "complete", "failed"}

CompleteLifecycleObserved(s, i, gap, initialization) ==
    LET failure == firstTeardownFailure(gap)
        g == IF kind[i] = "RESTART" THEN generation[s] + 1 ELSE generation[s]
        st == IF kind[i] # "RESTART" THEN Stopped
              ELSE CASE initialization = "pending" -> Initializing
                     [] initialization = "complete" -> Ready
                     [] initialization = "failed" -> Poisoned
        initFailed == kind[i] = "RESTART" /\ initialization = "failed"
    IN
    /\ s \in registered
    /\ i # None /\ incumbent[s] = i
    /\ \/ /\ failure # ""
          /\ Terminalize(s, i, FailedResult(s, failure), {})
          /\ UNCHANGED <<generation, reaped>>
       \/ /\ failure = ""
          /\ reaped' = [reaped EXCEPT ![s] = TRUE]
          /\ generation' = [generation EXCEPT ![s] = g]
          /\ Terminalize(s, i,
                [state |-> st, generation |-> g,
                 failure |-> IF initFailed THEN "INITIALIZATION_FAILED" ELSE ""],
                IF kind[i] = "RESTART" /\ st = Ready THEN BoundCallers(i) ELSE {})

\* DetachLifecycleCaller: a caller gives up waiting; the intent goes on.
DetachLifecycleCaller(s, c, failure) ==
    LET i == incumbent[s] IN
    /\ s \in registered
    /\ i # None
    /\ c \in attached[i]
    /\ attached' = [attached EXCEPT ![i] = @ \ {c}]
    /\ detached' = [detached EXCEPT ![i] = @ \cup {c}]
    /\ answer' = [answer EXCEPT ![i] = [d \in Callers |->
                     IF d = c THEN [state |-> state[s], generation |-> generation[s],
                                    failure |-> failure]
                     ELSE answer[i][d]]]
    /\ UNCHANGED <<sessionVars, nextIntent, kind, target, outcome, bound>>

\* ObserveInitialization: the handshake of the current generation ended.  It is
\* discarded while an intent is in progress and refused in any other state.
ObserveInitialization_IgnoresIntent(s, complete) ==
    /\ s \in registered
    /\ state' = [state EXCEPT ![s] = IF complete THEN Ready ELSE Poisoned]
    /\ UNCHANGED <<registered, generation, reaped, hasWork, incumbent, history, intentVars>>
ObserveInitialization(s, complete) ==
    /\ s \in registered
    /\ incumbent[s] = None
    /\ state[s] = Initializing
    /\ state' = [state EXCEPT ![s] = IF complete THEN Ready ELSE Poisoned]
    /\ UNCHANGED <<registered, generation, reaped, hasWork, incumbent, history, intentVars>>

\* ObservePoison of the current generation, in any state, intent or not.
ObservePoison(s) ==
    /\ s \in registered
    /\ state' = [state EXCEPT ![s] = Poisoned]
    /\ UNCHANGED <<registered, generation, reaped, hasWork, incumbent, history, intentVars>>

-----------------------------------------------------------------------------
LifecycleStep ==
    \/ \E s \in Sessions, r \in Registrations : RegisterLifecycle(s, r.generation, r.state, r.reaped)
    \/ \E s \in Sessions, c \in Callers, k \in {"STOP", "RESTART"} : Join(s, c, k)
    \/ \E s \in Sessions, c \in Callers, k \in {"STOP", "RESTART"},
          childRisk \in ChildRisks, work \in Works : Insert(s, c, k, childRisk, work)
    \/ \E s \in Sessions, gap \in TeardownGap, init \in Initialization :
          CompleteLifecycleObserved(s, incumbent[s], gap, init)
    \/ \E s \in Sessions, c \in Callers, f \in DetachFailures :
          DetachLifecycleCaller(s, c, f)
    \/ \E s \in Sessions, complete \in BOOLEAN : ObserveInitialization(s, complete)
    \/ \E s \in Sessions : ObservePoison(s)

LifecycleNext == LifecycleStep \/ \E s \in Sessions : InvariantFailure(s)

LifecycleSpec == LifecycleInit /\ [][LifecycleNext]_lifecycleVars

-----------------------------------------------------------------------------
\* The closed state machine that lifecycle.go states (allowedTransitions) and no
\* other code consults.  Rows are (from, event, to); the guards of the rows and
\* FIRST_START, which starts from no state, are left out.
allowedTransitions ==
    {<<Starting, "PIPES_ESTABLISHED", Initializing>>, <<Starting, "SPAWN_FAILED", Stopped>>,
     <<Starting, "SETUP_FAILED", Stopping>>, <<Initializing, "INITIALIZED", Ready>>,
     <<Initializing, "INIT_FAILED", Poisoned>>, <<Ready, "GRACEFUL_INTENT", Draining>>,
     <<Ready, "GRACEFUL_INTENT", Stopping>>, <<Draining, "WORK_DRAINED", Stopping>>,
     <<Stopping, "REAPED", Stopped>>, <<Crashed, "REAPED", Crashed>>,
     <<Poisoned, "REAPED", Poisoned>>}
    \cup {<<from, "INTENT_ACCEPTED", to>> : from \in {Starting, Initializing}, to \in {Stopped, Stopping}}
    \cup {<<from, "UNEXPECTED_DEATH", Crashed>> : from \in {Starting, Initializing, Ready, Draining}}
    \cup {<<from, "POISON", Poisoned>> : from \in {Starting, Initializing, Ready, Draining, Stopping}}
    \cup {<<from, "RESTART_ACCEPTED", Starting>> : from \in {Stopped, Crashed, Poisoned}}

Row(from, to) == \E t \in allowedTransitions : t[1] = from /\ t[3] = to /\ t[2] # "RESTART_ACCEPTED"

\* The states that rows of the table reach from each state without a restart.
Reach == [from \in State |->
            {to \in State : \A S \in SUBSET State :
                (from \in S /\ \A a \in S, b \in State : Row(a, b) => b \in S) => to \in S}]

\* A step of session s along the table: within its generation, or to the next
\* one, whose predecessor must be reaped.
TableStep(s) ==
    \/ generation'[s] = generation[s] /\ state'[s] \in Reach[state[s]]
    \/ generation'[s] = generation[s] + 1 /\ reaped'[s] /\ state'[s] \in Reach[Starting]

-----------------------------------------------------------------------------
\* Properties.

Created == 1..nextIntent
Terminal(i) == outcome[i] # None

\* Intents and sessions agree: the intent a session has in progress is not
\* finished and is for the session's current generation, no two sessions share
\* one, and every unfinished intent is some session's.  What Join, Complete and
\* Detach compare (incumbent, target, generation) can then never disagree.
IncumbentIsCurrent ==
    /\ \A s \in Sessions : incumbent[s] # None =>
          /\ s \in registered
          /\ incumbent[s] \in Created
          /\ ~Terminal(incumbent[s])
          /\ target[incumbent[s]] = generation[s]
          /\ \A t \in Sessions : incumbent[t] = incumbent[s] => t = s
    /\ \A i \in Created : ~Terminal(i) => \E s \in Sessions : incumbent[s] = i

\* Every caller of a finished intent that stayed has that intent's one result,
\* every caller that left keeps its own cancellation or timeout, and only the
\* callers that stayed for a RESTART that reached READY are bound, to the
\* successor of the generation they asked to restart.
CallersAgree ==
    \A i \in Created :
       /\ attached[i] \cap detached[i] = {}
       /\ \A c \in attached[i] : answer[i][c] = outcome[i]
       /\ \A c \in detached[i] : /\ answer[i][c] # None
                                 /\ answer[i][c].failure \in {"REQUEST_CANCELLED", "REQUEST_TIMEOUT"}
       /\ \A c \in Callers : bound[i][c] # 0 =>
             /\ c \in attached[i] /\ kind[i] = "RESTART"
             /\ Terminal(i) /\ outcome[i].state = Ready
             /\ bound[i][c] = target[i] + 1

\* Only an intent in progress explains DRAINING and STOPPING: no step leaves a
\* session in one of them without an intent, so Lifecycle's invariant-failure
\* branch is taken only for a session that was registered that way.
DrainingHasIntent ==
    [][\A s \in registered :
          state'[s] \in {Draining, Stopping} /\ incumbent'[s] = None =>
             state'[s] = state[s] /\ incumbent[s] = None]_lifecycleVars

\* A repeated STOP is answered from the newest STOP of this generation in the
\* history; what it replays is a success.
ReplayIsSuccess ==
    \A s \in registered :
       (incumbent[s] = None /\ Replayable(s, "STOP")) =>
          LET newest == CHOOSE j \in ReplayPositions(s) : \A k \in ReplayPositions(s) : k <= j
          IN outcome[history[s][newest]] = [state |-> Stopped, generation |-> generation[s],
                                            failure |-> ""]

\* The history tells the succession of generations: it is bounded, its intents
\* are finished, in the order of their ids, and after a RESTART that allocated a
\* successor every later intent is for a later generation (one successor each).
HistoryIsSuccession ==
    \A s \in registered :
       /\ Len(history[s]) <= MaxHistory
       /\ \A j \in DOMAIN history[s] :
             /\ Terminal(history[s][j])
             /\ outcome[history[s][j]].generation <= generation[s]
             /\ \A k \in DOMAIN history[s] : j < k =>
                   /\ history[s][j] < history[s][k]
                   /\ outcome[history[s][j]].generation <= target[history[s][k]]

\* The finished intents a session remembers are a true and ordered account, and
\* what is answered from them (a repeated STOP) is what happened.
HistoryIsTrue == LifecycleTypeOK /\ ReplayIsSuccess /\ HistoryIsSuccession

\* What a caller was once told is never changed: no later step alters a result
\* that an intent or a caller already has.
AnswersAreFinal ==
    [][\A i \in Intents :
          /\ Terminal(i) => outcome'[i] = outcome[i]
          /\ \A c \in Callers : answer[i][c] # None => answer'[i][c] = answer[i][c]]_lifecycleVars

\* Sessions move along the closed table of lifecycle.go, one call perhaps along
\* several rows; in particular READY is not regained once an intent is accepted,
\* and the next generation needs a reaped predecessor.  Two departures are allowed:
\* a finished STOP takes CRASHED or POISONED to STOPPED, and a poison report is
\* honoured in every state, STOPPED and CRASHED included.
TabledTransitions ==
    [][\A s \in registered :
          \/ TableStep(s)
          \/ /\ generation'[s] = generation[s]
             /\ \/ state'[s] = Poisoned
                \/ /\ state[s] \in {Crashed, Poisoned} /\ state'[s] = Stopped
                   /\ reaped'[s] /\ incumbent[s] # None /\ incumbent'[s] = None]_lifecycleVars

\* The table's last row as it is written: CRASHED and POISONED survive the reap
\* of their process ("CRASHED, POISONED | process death and reap confirmed | same
\* state"), until a restart.
DiagnosisRetained ==
    [][\A s \in registered :
          (state[s] \in {Crashed, Poisoned} /\ generation'[s] = generation[s])
             => TableStep(s)]_lifecycleVars

-----------------------------------------------------------------------------
=============================================================================
