---------------------------- MODULE SessionProofs ----------------------------
(***************************************************************************)
(* Proofs about the lifecycle algebra for any number of sessions, callers  *)
(* and intents, and every bound on callers and history.                    *)
(*                                                                         *)
(* IncumbentIsCurrent and CallersAgree are not inductive by themselves: a  *)
(* new intent must find its slot of the tables untouched (Untouched), and  *)
(* a caller that joins must not have an answer yet (AnswersOwned).  The    *)
(* closed table needs to know in which states an intent can find its       *)
(* session (IntentState).                                                  *)
(*                                                                         *)
(* Proofs about the runtime, for any number of sessions, clients, intents  *)
(* and children and every limit: each property the run of SessionRuntime   *)
(* checks holds of every behaviour.                                        *)
(*                                                                         *)
(* Shutdown is never stranded.  NotStranded is not inductive by itself:    *)
(* nothing in it keeps the count from stepping over zero.  With "no worker *)
(* is left" read as workers <= 0 it is: an ending worker always leaves a   *)
(* token, a starting one takes none, Shutdown waits only while it sees a   *)
(* worker, and the one step that takes a token makes Shutdown look again.  *)
(*                                                                         *)
(* The algebra's admitted sessions are the runtime's and within the limit: *)
(* LiveAreSessions is inductive once the set of sessions is known to be    *)
(* finite.  Start checks the limit twice; the proof uses the second check  *)
(* only, the one made with the mutex the admission still holds.            *)
(*                                                                         *)
(* Exclusion, accounting and delivery rest on one invariant, RuntimeInv.   *)
(* The properties are about children, goroutines and operations; what is   *)
(* inductive is, per session (At), who has the lease and what the holder   *)
(* knows: an exchange and a handshake work on the session's own child and  *)
(* generation, a task that tears down works for the algebra's incumbent,   *)
(* and between teardown and installation every child but the successor is  *)
(* reaped.  A step is argued for the session it works on; the others are   *)
(* Undisturbed by it, which is one lemma (UndisturbedKeeps).               *)
(***************************************************************************)
EXTENDS SessionRuntime, FiniteSetTheorems, SequenceTheorems, WellFoundedInduction, TLAPS

-----------------------------------------------------------------------------
(* The lifecycle algebra *)

CoreType ==
    /\ registered \subseteq Sessions
    /\ generation \in [Sessions -> Nat]
    /\ state \in [Sessions -> State]
    /\ incumbent \in [Sessions -> Intents \cup {None}]
    /\ nextIntent \in 0..MaxIntents
    /\ kind \in [Intents -> Kind \cup {None}]
    /\ target \in [Intents -> Nat]
    /\ outcome \in [Intents -> Result \cup {None}]
    /\ attached \in [Intents -> SUBSET Callers]
    /\ detached \in [Intents -> SUBSET Callers]
    /\ answer \in [Intents -> [Callers -> Result \cup {None}]]
    /\ bound \in [Intents -> [Callers -> Nat]]

Untouched ==
    \A i \in Intents : i > nextIntent =>
       /\ outcome[i] = None
       /\ attached[i] = {}
       /\ detached[i] = {}

AnswersOwned ==
    \A i \in Intents, c \in Callers :
       /\ answer[i][c] # None => c \in attached[i] \cup detached[i]
       /\ bound[i][c] # 0 => c \in attached[i]

IntentState ==
    \A s \in Sessions : incumbent[s] # None => state[s] \notin {Starting, Initializing, Ready}

LifecycleInv ==
    /\ CoreType
    /\ Untouched
    /\ AnswersOwned
    /\ IncumbentIsCurrent
    /\ CallersAgree
    /\ IntentState

\* The empty manager satisfies the invariant.
LEMMA InitLifecycleInv == LifecycleInit => LifecycleInv
<1> SUFFICES ASSUME LifecycleInit PROVE LifecycleInv
  OBVIOUS
<1> USE LifecycleConstants DEF LifecycleInit, Intents
<1>1. CoreType
  BY DEF CoreType, State, Stopped
<1>2. Untouched /\ AnswersOwned /\ IntentState
  BY DEF Untouched, AnswersOwned, IntentState
<1>3. IncumbentIsCurrent /\ CallersAgree
  BY DEF IncumbentIsCurrent, CallersAgree, Created
<1>4. QED
  BY <1>1, <1>2, <1>3 DEF LifecycleInv

\* Registering a session leaves the intents alone and gives it none.
LEMMA RegisterKeepsInv ==
    ASSUME LifecycleInv, NEW s \in Sessions, NEW r \in Registrations,
           RegisterLifecycle(s, r.generation, r.state, r.reaped)
    PROVE  LifecycleInv'
<1> USE LifecycleConstants DEF RegisterLifecycle, Registered, intentVars
<1>1. CoreType'
  BY DEF LifecycleInv, CoreType
<1>2. Untouched' /\ AnswersOwned' /\ CallersAgree'
  BY DEF LifecycleInv, Untouched, AnswersOwned, CallersAgree, Created, Terminal
<1>3. IntentState'
  BY DEF LifecycleInv, IntentState, CoreType
<1>4. IncumbentIsCurrent'
  <2>1. incumbent[s] = None
    BY DEF LifecycleInv, IncumbentIsCurrent
  <2>2. incumbent' = incumbent
    BY <2>1 DEF LifecycleInv, CoreType
  <2>3. \A t \in Sessions : t # s => generation'[t] = generation[t]
    BY DEF LifecycleInv, CoreType
  <2>4. QED
    BY <2>1, <2>2, <2>3 DEF LifecycleInv, IncumbentIsCurrent, Created, Terminal
<1>5. QED
  BY <1>1, <1>2, <1>3, <1>4 DEF LifecycleInv

\* A caller that joins has no answer yet, and the intent it joins has none.
LEMMA JoinKeepsInv ==
    ASSUME LifecycleInv, NEW s \in Sessions, NEW c \in Callers, NEW k, Join(s, c, k)
    PROVE  LifecycleInv'
<1> DEFINE i == incumbent[s]
<1>1. i \in Intents /\ i \in Created /\ outcome[i] = None /\ c \notin attached[i] \cup detached[i]
  BY DEF Join, LifecycleInv, CoreType, IncumbentIsCurrent, Terminal
<1>2. /\ attached' = [attached EXCEPT ![i] = @ \cup {c}]
      /\ UNCHANGED <<sessionVars, nextIntent, kind, target, outcome, detached, answer, bound>>
  BY DEF Join
<1> HIDE DEF i
<1> USE DEF sessionVars
<1>3. CoreType'
  BY <1>1, <1>2 DEF LifecycleInv, CoreType
<1>4. Untouched'
  BY <1>1, <1>2 DEF LifecycleInv, CoreType, Untouched, Created
<1>5. AnswersOwned'
  BY <1>1, <1>2 DEF LifecycleInv, CoreType, AnswersOwned
<1>6. IncumbentIsCurrent'
  BY <1>2 DEF LifecycleInv, IncumbentIsCurrent, Created, Terminal
<1>7. CallersAgree'
  <2>1. answer[i][c] = None
    BY <1>1 DEF LifecycleInv, AnswersOwned
  <2>2. QED
    BY <1>1, <1>2, <2>1 DEF LifecycleInv, CoreType, CallersAgree, Created, Terminal
<1>8. IntentState'
  BY <1>2 DEF LifecycleInv, IntentState
<1>9. QED
  BY <1>3, <1>4, <1>5, <1>6, <1>7, <1>8 DEF LifecycleInv

\* A new intent takes an untouched slot and its session's current generation.
LEMMA InsertKeepsInv ==
    ASSUME LifecycleInv, NEW s \in Sessions, NEW c \in Callers, NEW k \in Kind,
           NEW childRisk \in BOOLEAN, NEW busy \in Works, Insert(s, c, k, childRisk, busy)
    PROVE  LifecycleInv'
<1> DEFINE i == nextIntent + 1
<1> USE LifecycleConstants
<1>1. i \in Intents /\ nextIntent \in Nat /\ i > nextIntent /\ i # None
  BY DEF Insert, NewIntent, LifecycleInv, CoreType, Intents
<1>2. outcome[i] = None /\ attached[i] = {} /\ detached[i] = {}
  BY <1>1 DEF LifecycleInv, Untouched
<1>3. /\ s \in registered /\ incumbent[s] = None
      /\ nextIntent' = i
      /\ kind' = [kind EXCEPT ![i] = k]
      /\ target' = [target EXCEPT ![i] = generation[s]]
      /\ attached' = [attached EXCEPT ![i] = {c}]
      /\ incumbent' = [incumbent EXCEPT ![s] = i]
      /\ UNCHANGED <<outcome, detached, answer, bound, registered, generation>>
  BY DEF Insert, Insertable, NewIntent
<1>4. state' = [state EXCEPT ![s] = lifecycleIntentState(state[s], childRisk, busy)]
  BY DEF Insert
<1>5. /\ lifecycleIntentState(state[s], childRisk, busy) \in State
      /\ lifecycleIntentState(state[s], childRisk, busy) \notin {Starting, Initializing, Ready}
  BY DEF lifecycleIntentState, LifecycleInv, CoreType, State, Starting, Initializing, Ready,
         Draining, Stopping, Stopped, Crashed, Poisoned
<1> HIDE DEF i
<1>6. CoreType'
  BY <1>1, <1>3, <1>4, <1>5 DEF LifecycleInv, CoreType, Intents
<1>7. Untouched'
  BY <1>1, <1>3 DEF LifecycleInv, CoreType, Untouched, Intents
<1>8. AnswersOwned'
  BY <1>1, <1>2, <1>3 DEF LifecycleInv, CoreType, AnswersOwned
<1>9. IncumbentIsCurrent'
  <2>1. Created' = Created \cup {i} /\ i \notin Created
    BY <1>1, <1>3 DEF Created, i
  <2>2. \A j \in Created : j \in Intents /\ j # i
    BY <1>1, <2>1 DEF Created, LifecycleInv, CoreType, Intents
  <2>3. \A t \in Sessions : incumbent[t] # i
    BY <2>1, <1>1 DEF LifecycleInv, IncumbentIsCurrent
  <2>4. \A t \in Sessions : incumbent'[t] = IF t = s THEN i ELSE incumbent[t]
    BY <1>3 DEF LifecycleInv, CoreType
  <2>5. \A j \in Intents : target'[j] = IF j = i THEN generation[s] ELSE target[j]
    BY <1>3 DEF LifecycleInv, CoreType
  <2>6. ASSUME NEW t \in Sessions, incumbent'[t] # None
        PROVE  /\ t \in registered'
               /\ incumbent'[t] \in Created'
               /\ outcome'[incumbent'[t]] = None
               /\ target'[incumbent'[t]] = generation'[t]
               /\ \A u \in Sessions : incumbent'[u] = incumbent'[t] => u = t
    BY <1>1, <1>2, <1>3, <2>1, <2>2, <2>3, <2>4, <2>5, <2>6
    DEF LifecycleInv, IncumbentIsCurrent, Terminal
  <2>7. ASSUME NEW j \in Created', outcome'[j] = None
        PROVE  \E t \in Sessions : incumbent'[t] = j
    <3>1. CASE j = i
      BY <3>1, <2>4
    <3>2. CASE j \in Created
      <4>1. PICK t \in Sessions : incumbent[t] = j
        BY <3>2, <2>7, <1>3 DEF LifecycleInv, IncumbentIsCurrent, Terminal
      <4>2. t # s
        BY <4>1, <1>3, <3>2, <2>2, LifecycleConstants
      <4>3. QED
        BY <4>1, <4>2, <2>4
    <3>3. QED
      BY <3>1, <3>2, <2>1
  <2>8. QED
    BY <2>6, <2>7 DEF IncumbentIsCurrent, Terminal
<1>10. CallersAgree'
  <2>1. \A d \in Callers : answer[i][d] = None /\ bound[i][d] = 0
    BY <1>1, <1>2 DEF LifecycleInv, AnswersOwned
  <2>2. \A j \in Created' : j \in Intents /\ (j # i => j \in Created)
    BY <1>1, <1>3 DEF Created, i, LifecycleInv, CoreType, Intents
  <2>3. QED
    BY <1>1, <1>2, <1>3, <2>1, <2>2 DEF LifecycleInv, CoreType, CallersAgree, Terminal
<1>11. IntentState'
  BY <1>3, <1>4, <1>5 DEF LifecycleInv, CoreType, IntentState
<1>12. QED
  BY <1>6, <1>7, <1>8, <1>9, <1>10, <1>11 DEF LifecycleInv

\* An intent that ends leaves its session without one, answers the callers that
\* stayed, and binds at most those, to the successor generation.
LEMMA TerminalizeKeepsInv ==
    ASSUME LifecycleInv, NEW s \in registered, NEW i \in Intents, incumbent[s] = i,
           NEW result \in Result, NEW readyFor \in SUBSET attached[i],
           Terminalize(s, i, result, readyFor),
           readyFor # {} => /\ kind[i] = "RESTART" /\ result.state = Ready
                            /\ result.generation = target[i] + 1,
           NEW g \in Nat, generation' = [generation EXCEPT ![s] = g]
    PROVE  LifecycleInv'
<1> USE LifecycleConstants DEF Answered, Vacated
<1>1. /\ s \in Sessions /\ i \in Created /\ i # None /\ outcome[i] = None
      /\ result # None /\ result.state \in State /\ result.generation \in Nat
  BY DEF LifecycleInv, CoreType, IncumbentIsCurrent, Terminal, Result
<1>2. /\ state' = [state EXCEPT ![s] = result.state]
      /\ outcome' = [outcome EXCEPT ![i] = result]
      /\ answer' = [answer EXCEPT ![i] =
                     [c \in Callers |-> IF c \in attached[i] THEN result ELSE answer[i][c]]]
      /\ bound' = [bound EXCEPT ![i] =
                     [c \in Callers |-> IF c \in readyFor THEN result.generation ELSE bound[i][c]]]
      /\ incumbent' = [incumbent EXCEPT ![s] = None]
      /\ UNCHANGED <<registered, nextIntent, kind, target, attached, detached>>
  BY DEF Terminalize
<1>3. CoreType'
  BY <1>1, <1>2 DEF LifecycleInv, CoreType
<1>4. Untouched'
  BY <1>1, <1>2 DEF LifecycleInv, CoreType, Untouched, Created
<1>5. AnswersOwned'
  BY <1>1, <1>2 DEF LifecycleInv, CoreType, AnswersOwned
<1>6. IncumbentIsCurrent'
  <2>1. \A t \in Sessions : incumbent'[t] = IF t = s THEN None ELSE incumbent[t]
    BY <1>2 DEF LifecycleInv, CoreType
  <2>2. \A t \in Sessions : t # s => incumbent[t] # i /\ generation'[t] = generation[t]
    BY <1>1 DEF LifecycleInv, CoreType, IncumbentIsCurrent
  <2>3. \A j \in Intents : outcome'[j] = IF j = i THEN result ELSE outcome[j]
    BY <1>2 DEF LifecycleInv, CoreType
  <2>4. Created' = Created /\ Created \subseteq Intents
    BY <1>2 DEF Created, Intents, LifecycleInv, CoreType
  <2>5. ASSUME NEW t \in Sessions, incumbent'[t] # None
        PROVE  /\ t \in registered'
               /\ incumbent'[t] \in Created'
               /\ outcome'[incumbent'[t]] = None
               /\ target'[incumbent'[t]] = generation'[t]
               /\ \A u \in Sessions : incumbent'[u] = incumbent'[t] => u = t
    BY <1>2, <2>1, <2>2, <2>3, <2>4, <2>5 DEF LifecycleInv, IncumbentIsCurrent, Terminal
  <2>6. ASSUME NEW j \in Created', outcome'[j] = None
        PROVE  \E t \in Sessions : incumbent'[t] = j
    <3>1. j # i /\ j \in Created /\ outcome[j] = None
      BY <1>1, <2>3, <2>4, <2>6
    <3>2. PICK t \in Sessions : incumbent[t] = j
      BY <3>1 DEF LifecycleInv, IncumbentIsCurrent, Terminal
    <3>3. QED
      BY <3>1, <3>2, <2>1
  <2>7. QED
    BY <2>5, <2>6 DEF IncumbentIsCurrent, Terminal
<1>7. CallersAgree'
  <2>1. Created' = Created /\ Created \subseteq Intents
    BY <1>2 DEF Created, Intents, LifecycleInv, CoreType
  <2>2. \A j \in Created : j # i => /\ outcome'[j] = outcome[j] /\ answer'[j] = answer[j]
                                    /\ bound'[j] = bound[j]
    BY <1>2, <2>1 DEF LifecycleInv, CoreType
  <2>3. /\ outcome'[i] = result
        /\ \A c \in Callers : /\ answer'[i][c] = IF c \in attached[i] THEN result ELSE answer[i][c]
                              /\ bound'[i][c] = IF c \in readyFor THEN result.generation ELSE bound[i][c]
    BY <1>2 DEF LifecycleInv, CoreType
  <2>4. \A c \in Callers : bound[i][c] = 0
    BY <1>1 DEF LifecycleInv, CallersAgree, Terminal
  <2>5. attached[i] \subseteq Callers /\ detached[i] \subseteq Callers
    BY DEF LifecycleInv, CoreType
  <2>6. attached' = attached /\ detached' = detached /\ kind' = kind /\ target' = target
    BY <1>2
  <2>7. ASSUME NEW j \in Created'
        PROVE  /\ attached'[j] \cap detached'[j] = {}
               /\ \A c \in attached'[j] : answer'[j][c] = outcome'[j]
               /\ \A c \in detached'[j] :
                     /\ answer'[j][c] # None
                     /\ answer'[j][c].failure \in {"REQUEST_CANCELLED", "REQUEST_TIMEOUT"}
               /\ \A c \in Callers : bound'[j][c] # 0 =>
                     /\ c \in attached'[j] /\ kind'[j] = "RESTART"
                     /\ outcome'[j] # None /\ outcome'[j].state = Ready
                     /\ bound'[j][c] = target'[j] + 1
    <3>1. CASE j = i
      BY <1>1, <2>1, <2>3, <2>4, <2>5, <2>6, <3>1 DEF LifecycleInv, CallersAgree, Terminal
    <3>2. CASE j # i
      BY <2>1, <2>2, <2>6, <3>2 DEF LifecycleInv, CallersAgree, Terminal
    <3>3. QED
      BY <3>1, <3>2
  <2>8. QED
    BY <2>7 DEF CallersAgree, Terminal
<1>8. IntentState'
  BY <1>1, <1>2 DEF LifecycleInv, CoreType, IntentState
<1>9. QED
  BY <1>3, <1>4, <1>5, <1>6, <1>7, <1>8 DEF LifecycleInv

\* Every completion, failed or not, ends the intent with a proper result.
LEMMA CompleteKeepsInv ==
    ASSUME LifecycleInv, NEW s \in Sessions, NEW gap \in TeardownGap,
           NEW initialization \in Initialization,
           CompleteLifecycleObserved(s, incumbent[s], gap, initialization)
    PROVE  LifecycleInv'
<1> DEFINE i == incumbent[s]
<1> USE LifecycleConstants
<1>1. s \in registered /\ i \in Intents /\ i # None /\ target[i] = generation[s]
      /\ generation[s] \in Nat
  <2>1. s \in registered /\ i # None
    BY DEF CompleteLifecycleObserved
  <2>2. QED
    BY <2>1 DEF LifecycleInv, CoreType, IncumbentIsCurrent
<1>2. CASE firstTeardownFailure(gap) # ""
  <2> DEFINE res == FailedResult(s, firstTeardownFailure(gap))
  <2>1. firstTeardownFailure(gap) \in Failure
    BY DEF firstTeardownFailure, TeardownGap, Failure
  <2>2. res \in Result
    BY <2>1, <1>1 DEF FailedResult, Result, State, Poisoned
  <2>3. Terminalize(s, i, res, {}) /\ generation' = generation
    BY <1>2 DEF CompleteLifecycleObserved
  <2>4. generation' = [generation EXCEPT ![s] = generation[s]]
    BY <2>3 DEF LifecycleInv, CoreType
  <2>5. {} \in SUBSET attached[i] /\ incumbent[s] = i
    OBVIOUS
  <2> HIDE DEF res, i
  <2>6. QED
    BY <1>1, <2>2, <2>3, <2>4, <2>5, TerminalizeKeepsInv
<1>3. CASE firstTeardownFailure(gap) = ""
  <2> DEFINE g == IF kind[i] = "RESTART" THEN generation[s] + 1 ELSE generation[s]
             st == IF kind[i] # "RESTART" THEN Stopped
                   ELSE CASE initialization = "pending" -> Initializing
                          [] initialization = "complete" -> Ready
                          [] initialization = "failed" -> Poisoned
             fl == IF kind[i] = "RESTART" /\ initialization = "failed"
                   THEN "INITIALIZATION_FAILED" ELSE ""
             ready == IF kind[i] = "RESTART" /\ st = Ready THEN BoundCallers(i) ELSE {}
  <2>1. /\ generation' = [generation EXCEPT ![s] = g]
        /\ Terminalize(s, i, [state |-> st, generation |-> g, failure |-> fl], ready)
    BY <1>3 DEF CompleteLifecycleObserved
  <2>2. g \in Nat /\ st \in State /\ fl \in Failure
    BY <1>1 DEF Initialization, State, Failure, Stopped, Initializing, Ready, Poisoned
  <2>3. [state |-> st, generation |-> g, failure |-> fl] \in Result
    BY <2>2 DEF Result
  <2>4. ready \in SUBSET attached[i]
    BY DEF BoundCallers
  <2>5. ready # {} => kind[i] = "RESTART" /\ st = Ready /\ g = target[i] + 1
    BY <1>1
  <2> HIDE DEF g, st, fl, ready
  <2>6. QED
    BY <1>1, <2>1, <2>2, <2>3, <2>4, <2>5, TerminalizeKeepsInv
<1>4. QED
  BY <1>2, <1>3

\* A caller that leaves takes its own failure with it and nothing else changes.
LEMMA DetachKeepsInv ==
    ASSUME LifecycleInv, NEW s \in Sessions, NEW c \in Callers, NEW failure \in DetachFailures,
           DetachLifecycleCaller(s, c, failure)
    PROVE  LifecycleInv'
<1> DEFINE i == incumbent[s]
           result == [state |-> state[s], generation |-> generation[s], failure |-> failure]
<1> USE LifecycleConstants
<1>1. i \in Intents /\ i \in Created /\ outcome[i] = None /\ c \in attached[i]
  BY DEF DetachLifecycleCaller, LifecycleInv, CoreType, IncumbentIsCurrent, Terminal
<1>2. result \in Result /\ result # None /\ result.failure \in {"REQUEST_CANCELLED", "REQUEST_TIMEOUT"}
  <2>1. failure \in {"REQUEST_CANCELLED", "REQUEST_TIMEOUT"}
    OBVIOUS
  <2>2. state[s] \in State /\ generation[s] \in Nat
    BY DEF LifecycleInv, CoreType
  <2>3. result \in Result
    BY <2>1, <2>2 DEF Result, Failure
  <2>4. QED
    BY <2>1, <2>3
<1>3. /\ attached' = [attached EXCEPT ![i] = @ \ {c}]
      /\ detached' = [detached EXCEPT ![i] = @ \cup {c}]
      /\ answer' = [answer EXCEPT ![i] =
                      [d \in Callers |-> IF d = c THEN result ELSE answer[i][d]]]
      /\ UNCHANGED <<sessionVars, nextIntent, kind, target, outcome, bound>>
  BY DEF DetachLifecycleCaller
<1> HIDE DEF i, result
<1> USE DEF sessionVars
<1>4. CoreType'
  BY <1>1, <1>2, <1>3 DEF LifecycleInv, CoreType
<1>5. Untouched'
  BY <1>1, <1>3 DEF LifecycleInv, CoreType, Untouched, Created
<1>6. bound[i][c] = 0
  BY <1>1 DEF LifecycleInv, CallersAgree, Terminal
<1>7. AnswersOwned'
  BY <1>1, <1>3, <1>6 DEF LifecycleInv, CoreType, AnswersOwned
<1>8. IncumbentIsCurrent' /\ IntentState'
  BY <1>3 DEF LifecycleInv, IncumbentIsCurrent, IntentState, Created, Terminal
<1>9. CallersAgree'
  <2>1. Created' = Created /\ Created \subseteq Intents
    BY <1>3 DEF LifecycleInv, CoreType, Created, Intents
  <2>2. ASSUME NEW j \in Created, j # i
        PROVE  /\ attached'[j] = attached[j] /\ detached'[j] = detached[j]
               /\ answer'[j] = answer[j]
    BY <1>1, <1>3, <2>1, <2>2 DEF LifecycleInv, CoreType
  <2>3. /\ attached'[i] = attached[i] \ {c} /\ detached'[i] = detached[i] \cup {c}
        /\ \A d \in Callers : answer'[i][d] = IF d = c THEN result ELSE answer[i][d]
        /\ attached[i] \subseteq Callers /\ detached[i] \subseteq Callers
    BY <1>1, <1>3 DEF LifecycleInv, CoreType
  <2>4. QED
    BY <1>1, <1>2, <1>3, <1>6, <2>1, <2>2, <2>3 DEF LifecycleInv, CallersAgree, Terminal
<1>10. QED
  BY <1>4, <1>5, <1>7, <1>8, <1>9 DEF LifecycleInv

\* Steps that only rewrite the public state of a session keep the invariant as
\* long as they do not reopen a session that has an intent.
LEMMA RestateKeepsInv ==
    ASSUME LifecycleInv, NEW s \in Sessions, NEW st \in State,
           state' = [state EXCEPT ![s] = st],
           incumbent[s] = None \/ st = Poisoned,
           UNCHANGED <<registered, generation, incumbent, intentVars>>
    PROVE  LifecycleInv'
<1> USE DEF intentVars
<1>1. CoreType'
  BY DEF LifecycleInv, CoreType
<1>2. Untouched' /\ AnswersOwned' /\ IncumbentIsCurrent' /\ CallersAgree'
  BY DEF LifecycleInv, Untouched, AnswersOwned, IncumbentIsCurrent, CallersAgree, Created, Terminal
<1>3. IntentState'
  BY DEF LifecycleInv, CoreType, IntentState, Starting, Initializing, Ready, Poisoned
<1>4. QED
  BY <1>1, <1>2, <1>3 DEF LifecycleInv

\* Every step keeps the invariant.
LEMMA NextKeepsLifecycle ==
    ASSUME LifecycleInv, [LifecycleNext]_lifecycleVars
    PROVE  LifecycleInv'
<1>1. ASSUME NEW s \in Sessions, NEW r \in Registrations,
             RegisterLifecycle(s, r.generation, r.state, r.reaped)
      PROVE  LifecycleInv'
  BY <1>1, RegisterKeepsInv
<1>2. ASSUME NEW s \in Sessions, NEW c \in Callers, NEW k \in {"STOP", "RESTART"}, Join(s, c, k)
      PROVE  LifecycleInv'
  BY <1>2, JoinKeepsInv
<1>3. ASSUME NEW s \in Sessions, NEW c \in Callers, NEW k \in {"STOP", "RESTART"},
             NEW childRisk \in ChildRisks, NEW busy \in Works, Insert(s, c, k, childRisk, busy)
      PROVE  LifecycleInv'
  BY <1>3, InsertKeepsInv, LifecycleConstants DEF Kind
<1>4. ASSUME NEW s \in Sessions, NEW gap \in TeardownGap, NEW init \in Initialization,
             CompleteLifecycleObserved(s, incumbent[s], gap, init)
      PROVE  LifecycleInv'
  BY <1>4, CompleteKeepsInv
<1>5. ASSUME NEW s \in Sessions, NEW c \in Callers, NEW f \in DetachFailures,
             DetachLifecycleCaller(s, c, f)
      PROVE  LifecycleInv'
  BY <1>5, DetachKeepsInv
<1>6. ASSUME NEW s \in Sessions, NEW complete \in BOOLEAN, ObserveInitialization(s, complete)
      PROVE  LifecycleInv'
  <2>1. (IF complete THEN Ready ELSE Poisoned) \in State
    BY DEF State
  <2>2. QED
    BY <1>6, <2>1, RestateKeepsInv DEF ObserveInitialization
<1>7. ASSUME NEW s \in Sessions, ObservePoison(s)
      PROVE  LifecycleInv'
  BY <1>7, RestateKeepsInv DEF ObservePoison, State
<1>8. ASSUME NEW s \in Sessions, InvariantFailure(s)
      PROVE  LifecycleInv'
  BY <1>8, RestateKeepsInv DEF InvariantFailure, State
<1>9. CASE UNCHANGED lifecycleVars
  BY <1>9 DEF lifecycleVars, sessionVars, intentVars, LifecycleInv, CoreType, Untouched,
              AnswersOwned, IncumbentIsCurrent, CallersAgree, IntentState, Created, Terminal
<1>10. QED
  BY <1>1, <1>2, <1>3, <1>4, <1>5, <1>6, <1>7, <1>8, <1>9 DEF LifecycleNext, LifecycleStep

\* The invariant holds in every reachable state.
THEOREM LifecycleInvariant == LifecycleSpec => []LifecycleInv
<1>1. LifecycleInv /\ [LifecycleNext]_lifecycleVars => LifecycleInv'
  BY NextKeepsLifecycle
<1>2. QED
  BY InitLifecycleInv, <1>1, PTL DEF LifecycleSpec

\* Join, Complete and Detach always find an intent for the session's current
\* generation, for any number of sessions and callers.
THEOREM IncumbentCurrent == LifecycleSpec => []IncumbentIsCurrent
<1>1. LifecycleInv => IncumbentIsCurrent
  BY DEF LifecycleInv
<1>2. QED
  BY LifecycleInvariant, <1>1, PTL

\* The callers of an intent that stayed get its one result and only they are
\* bound, whoever joins and leaves in whatever order.
THEOREM CallersAgreeAlways == LifecycleSpec => []CallersAgree
<1>1. LifecycleInv => CallersAgree
  BY DEF LifecycleInv
<1>2. QED
  BY LifecycleInvariant, <1>1, PTL

\* No step changes an answer: the intent that ends was unfinished, and the
\* callers it answers had no answer.
LEMMA NextKeepsAnswers ==
    ASSUME LifecycleInv, [LifecycleNext]_lifecycleVars, NEW i \in Intents
    PROVE  /\ Terminal(i) => outcome'[i] = outcome[i]
           /\ \A c \in Callers : answer[i][c] # None => answer'[i][c] = answer[i][c]
<1> USE DEF intentVars
<1>1. CASE UNCHANGED <<outcome, answer>>
  BY <1>1
<1>2. ASSUME NEW s \in Sessions, NEW gap \in TeardownGap, NEW init \in Initialization,
             CompleteLifecycleObserved(s, incumbent[s], gap, init)
      PROVE  /\ outcome[i] # None => outcome'[i] = outcome[i]
             /\ \A c \in Callers : answer[i][c] # None => answer'[i][c] = answer[i][c]
  <2> DEFINE n == incumbent[s]
  <2>1. n \in Intents /\ n \in Created /\ outcome[n] = None
    <3>1. n # None
      BY <1>2 DEF CompleteLifecycleObserved
    <3>2. QED
      BY <3>1 DEF LifecycleInv, CoreType, IncumbentIsCurrent, Terminal
  <2>2. \E r, readyFor : Terminalize(s, n, r, readyFor)
    BY <1>2 DEF CompleteLifecycleObserved
  <2> HIDE DEF n
  <2>3. PICK r, readyFor : Terminalize(s, n, r, readyFor)
    BY <2>2
  <2>4. \A c \in Callers : c \in attached[n] => answer[n][c] = None
    BY <2>1 DEF LifecycleInv, CallersAgree
  <2>5. /\ outcome' = [outcome EXCEPT ![n] = r]
        /\ answer' = [answer EXCEPT ![n] =
                        [c \in Callers |-> IF c \in attached[n] THEN r ELSE answer[n][c]]]
    BY <2>3 DEF Terminalize, Answered
  <2>6. QED
    BY <2>1, <2>4, <2>5 DEF LifecycleInv, CoreType
<1>3. ASSUME NEW s \in Sessions, NEW c \in Callers, NEW f \in DetachFailures,
             DetachLifecycleCaller(s, c, f)
      PROVE  /\ outcome' = outcome
             /\ \A d \in Callers : answer[i][d] # None => answer'[i][d] = answer[i][d]
  <2> DEFINE n == incumbent[s]
             r == [state |-> state[s], generation |-> generation[s], failure |-> f]
  <2>1. /\ outcome' = outcome /\ c \in attached[n] /\ n # None
        /\ answer' = [answer EXCEPT ![n] =
                        [d \in Callers |-> IF d = c THEN r ELSE answer[n][d]]]
    BY <1>3 DEF DetachLifecycleCaller
  <2>2. n \in Intents /\ answer[n][c] = None
    BY <2>1 DEF LifecycleInv, CoreType, IncumbentIsCurrent, CallersAgree, Terminal
  <2> HIDE DEF n, r
  <2>3. QED
    BY <2>1, <2>2 DEF LifecycleInv, CoreType
<1>4. QED
  BY <1>1, <1>2, <1>3
  DEF LifecycleNext, LifecycleStep, RegisterLifecycle, Join, Insert, NewIntent,
      ObserveInitialization, ObservePoison, InvariantFailure, lifecycleVars, Terminal

\* What a caller was told is final, for every history of calls.
THEOREM AnswersFinal == LifecycleSpec => AnswersAreFinal
<1>1. LifecycleInv /\ [LifecycleNext]_lifecycleVars =>
        [\A i \in Intents :
          /\ Terminal(i) => outcome'[i] = outcome[i]
          /\ \A c \in Callers : answer[i][c] # None => answer'[i][c] = answer[i][c]]_lifecycleVars
  BY NextKeepsAnswers
<1>2. QED
  BY LifecycleInvariant, <1>1, PTL DEF LifecycleSpec, AnswersAreFinal

-----------------------------------------------------------------------------
\* What the rows of the table reach.
LEMMA ReachFacts ==
    /\ \A st \in State : st \in Reach[st]
    /\ {Initializing, Ready, Poisoned} \subseteq Reach[Starting]
    /\ \A st \in {Starting, Initializing} : {Stopping, Stopped} \subseteq Reach[st]
    /\ {Draining, Stopping} \subseteq Reach[Ready]
    /\ Stopped \in Reach[Draining]
    /\ Stopped \in Reach[Stopping]
    /\ Ready \in Reach[Initializing]
<1> USE DEF State, Starting, Initializing, Ready, Draining, Stopping, Stopped, Crashed, Poisoned
<1>1. /\ <<Starting, "PIPES_ESTABLISHED", Initializing>> \in allowedTransitions
      /\ <<Initializing, "INITIALIZED", Ready>> \in allowedTransitions
      /\ <<Initializing, "INIT_FAILED", Poisoned>> \in allowedTransitions
      /\ <<Ready, "GRACEFUL_INTENT", Draining>> \in allowedTransitions
      /\ <<Ready, "GRACEFUL_INTENT", Stopping>> \in allowedTransitions
      /\ <<Draining, "WORK_DRAINED", Stopping>> \in allowedTransitions
      /\ <<Stopping, "REAPED", Stopped>> \in allowedTransitions
      /\ <<Starting, "INTENT_ACCEPTED", Stopping>> \in allowedTransitions
      /\ <<Starting, "INTENT_ACCEPTED", Stopped>> \in allowedTransitions
      /\ <<Initializing, "INTENT_ACCEPTED", Stopping>> \in allowedTransitions
      /\ <<Initializing, "INTENT_ACCEPTED", Stopped>> \in allowedTransitions
  BY DEF allowedTransitions
<1>2. /\ Row(Starting, Initializing)
      /\ Row(Initializing, Ready)
      /\ Row(Initializing, Poisoned)
      /\ Row(Ready, Draining)
      /\ Row(Ready, Stopping)
      /\ Row(Draining, Stopping)
      /\ Row(Stopping, Stopped)
      /\ Row(Starting, Stopping)
      /\ Row(Starting, Stopped)
      /\ Row(Initializing, Stopping)
      /\ Row(Initializing, Stopped)
  BY <1>1 DEF Row
<1>3. \A st \in State : st \in Reach[st]
  BY DEF Reach
<1>4. ASSUME NEW a \in State, NEW b \in State, NEW c \in State, b \in Reach[a], Row(b, c)
      PROVE  c \in Reach[a]
  BY <1>4 DEF Reach
<1>5. Initializing \in Reach[Starting]
  BY <1>2, <1>3, <1>4
<1>6. QED
  BY <1>2, <1>3, <1>4, <1>5

\* A session that keeps its generation and state makes a (stuttering) table step.
LEMMA StutterIsTabled ==
    ASSUME CoreType, NEW s \in Sessions, generation'[s] = generation[s], state'[s] = state[s]
    PROVE  TableStep(s)
BY ReachFacts DEF CoreType, TableStep

Departure(s) ==
    /\ generation'[s] = generation[s]
    /\ \/ state'[s] = Poisoned
       \/ /\ state[s] \in {Crashed, Poisoned} /\ state'[s] = Stopped
          /\ reaped'[s] /\ incumbent[s] # None /\ incumbent'[s] = None

\* Every step moves every session along the table or departs from it in the two
\* ways TabledTransitions allows.
LEMMA NextIsTabled ==
    ASSUME LifecycleInv, reaped \in [Sessions -> BOOLEAN], [LifecycleNext]_lifecycleVars,
           NEW t \in registered
    PROVE  TableStep(t) \/ Departure(t)
<1> USE DEF intentVars
<1>0. CoreType /\ t \in Sessions
  BY DEF LifecycleInv, CoreType
<1>1. CASE UNCHANGED <<generation, state>>
  BY <1>0, <1>1, StutterIsTabled
<1>2. ASSUME NEW s \in Sessions, NEW r \in Registrations,
             RegisterLifecycle(s, r.generation, r.state, r.reaped)
      PROVE  TableStep(t) \/ Departure(t)
  <2>1. t # s /\ generation'[t] = generation[t] /\ state'[t] = state[t]
    BY <1>0, <1>2 DEF RegisterLifecycle, Registered, CoreType
  <2>2. QED
    BY <1>0, <2>1, StutterIsTabled
<1>3. ASSUME NEW s \in Sessions, NEW c \in Callers, NEW k \in {"STOP", "RESTART"},
             NEW childRisk \in ChildRisks, NEW busy \in Works, Insert(s, c, k, childRisk, busy)
      PROVE  TableStep(t) \/ Departure(t)
  <2>1. /\ generation' = generation
        /\ state' = [state EXCEPT ![s] = lifecycleIntentState(state[s], childRisk, busy)]
    BY <1>3 DEF Insert
  <2>2. CASE t # s
    BY <1>0, <2>1, <2>2, StutterIsTabled DEF CoreType
  <2>3. CASE t = s
    <3>1. lifecycleIntentState(state[s], childRisk, busy) \in Reach[state[s]]
      BY <1>0, ReachFacts DEF lifecycleIntentState, CoreType, Starting, Initializing, Ready
    <3>2. QED
      BY <1>0, <2>1, <2>3, <3>1 DEF TableStep, CoreType
  <2>4. QED
    BY <2>2, <2>3
<1>4. ASSUME NEW s \in Sessions, NEW gap \in TeardownGap, NEW init \in Initialization,
             CompleteLifecycleObserved(s, incumbent[s], gap, init)
      PROVE  TableStep(t) \/ Departure(t)
  <2> DEFINE n == incumbent[s]
             restart == kind[n] = "RESTART"
             g == IF restart THEN generation[s] + 1 ELSE generation[s]
             st == IF ~restart THEN Stopped
                   ELSE CASE init = "pending" -> Initializing
                          [] init = "complete" -> Ready
                          [] init = "failed" -> Poisoned
  <2>1. n # None /\ state[s] \in State \ {Starting, Initializing, Ready}
    <3>1. n # None
      BY <1>4 DEF CompleteLifecycleObserved
    <3>2. QED
      BY <3>1 DEF LifecycleInv, CoreType, IntentState
  <2>2. CASE firstTeardownFailure(gap) # ""
    <3>1. generation' = generation /\ state' = [state EXCEPT ![s] = Poisoned]
      BY <1>4, <2>2 DEF CompleteLifecycleObserved, Terminalize, FailedResult
    <3>2. QED
      BY <1>0, <3>1, StutterIsTabled DEF CoreType, Departure
  <2>3. CASE firstTeardownFailure(gap) = ""
    <3>1. /\ reaped' = [reaped EXCEPT ![s] = TRUE]
          /\ generation' = [generation EXCEPT ![s] = g]
          /\ state' = [state EXCEPT ![s] = st]
          /\ incumbent' = [incumbent EXCEPT ![s] = None]
      BY <1>4, <2>3 DEF CompleteLifecycleObserved, Terminalize, Vacated
    <3>2. CASE t # s
      BY <1>0, <3>1, <3>2, StutterIsTabled DEF CoreType
    <3>3. CASE t = s /\ restart
      <4>1. generation'[s] = generation[s] + 1 /\ reaped'[s] /\ state'[s] = st
        BY <1>0, <3>1, <3>3 DEF CoreType
      <4>2. st \in Reach[Starting]
        BY <3>3, ReachFacts DEF Initialization
      <4>3. QED
        BY <3>3, <4>1, <4>2 DEF TableStep
    <3>4. CASE t = s /\ ~restart
      <4>1. generation'[s] = generation[s] /\ reaped'[s] /\ state'[s] = Stopped /\ incumbent'[s] = None
        BY <1>0, <3>1, <3>4 DEF CoreType
      <4>2. CASE state[s] \in {Draining, Stopping, Stopped}
        BY <3>4, <4>1, <4>2, ReachFacts DEF TableStep, State
      <4>3. CASE state[s] \in {Crashed, Poisoned}
        BY <2>1, <3>4, <4>1, <4>3 DEF Departure
      <4>4. QED
        BY <2>1, <4>2, <4>3 DEF State
    <3>5. QED
      BY <3>2, <3>3, <3>4
  <2>4. QED
    BY <2>2, <2>3
<1>5. ASSUME NEW s \in Sessions, NEW complete \in BOOLEAN, ObserveInitialization(s, complete)
      PROVE  TableStep(t) \/ Departure(t)
  <2>1. /\ generation' = generation /\ state[s] = Initializing
        /\ state' = [state EXCEPT ![s] = IF complete THEN Ready ELSE Poisoned]
    BY <1>5 DEF ObserveInitialization
  <2>2. QED
    BY <1>0, <2>1, ReachFacts, StutterIsTabled DEF CoreType, TableStep, Departure
<1>6. ASSUME NEW s \in Sessions, ObservePoison(s) \/ InvariantFailure(s)
      PROVE  TableStep(t) \/ Departure(t)
  <2>1. generation' = generation /\ state' = [state EXCEPT ![s] = Poisoned]
    BY <1>6 DEF ObservePoison, InvariantFailure
  <2>2. QED
    BY <1>0, <2>1, StutterIsTabled DEF CoreType, Departure
<1>7. QED
  BY <1>1, <1>2, <1>3, <1>4, <1>5, <1>6
  DEF LifecycleNext, LifecycleStep, Join, DetachLifecycleCaller, sessionVars, lifecycleVars

\* lifecycle.reaped is a Boolean.
LEMMA ReapedIsBoolean == LifecycleSpec => [](reaped \in [Sessions -> BOOLEAN])
<1> DEFINE RB == reaped \in [Sessions -> BOOLEAN]
<1>1. LifecycleInit => RB
  BY DEF LifecycleInit
<1>2. ASSUME RB, [LifecycleNext]_lifecycleVars PROVE RB'
  <2>1. ASSUME NEW s \in Sessions, NEW r \in Registrations,
               RegisterLifecycle(s, r.generation, r.state, r.reaped)
        PROVE  RB'
    BY <1>2, <2>1, LifecycleConstants DEF RegisterLifecycle, Registered
  <2>2. ASSUME NEW s \in Sessions, NEW gap \in TeardownGap, NEW init \in Initialization,
               CompleteLifecycleObserved(s, incumbent[s], gap, init)
        PROVE  RB'
    BY <1>2, <2>2 DEF CompleteLifecycleObserved
  <2>3. CASE UNCHANGED reaped
    BY <1>2, <2>3
  <2>4. QED
    BY <1>2, <2>1, <2>2, <2>3
    DEF LifecycleNext, LifecycleStep, Join, Insert, DetachLifecycleCaller, ObserveInitialization,
        ObservePoison, InvariantFailure, sessionVars, lifecycleVars
<1>3. QED
  BY <1>1, <1>2, PTL DEF LifecycleSpec

\* Sessions move along the closed table of lifecycle.go, but for the two named
\* departures; the next generation is reached only with a reaped predecessor.
THEOREM Tabled == LifecycleSpec => TabledTransitions
<1>1. /\ LifecycleInv /\ reaped \in [Sessions -> BOOLEAN]
      /\ [LifecycleNext]_lifecycleVars
      => [\A s \in registered :
            \/ TableStep(s)
            \/ /\ generation'[s] = generation[s]
               /\ \/ state'[s] = Poisoned
                  \/ /\ state[s] \in {Crashed, Poisoned} /\ state'[s] = Stopped
                     /\ reaped'[s] /\ incumbent[s] # None /\ incumbent'[s] = None]_lifecycleVars
  BY NextIsTabled DEF Departure
<1>2. QED
  BY LifecycleInvariant, ReapedIsBoolean, <1>1, PTL DEF LifecycleSpec, TabledTransitions

-----------------------------------------------------------------------------
\* A step that leaves session t in DRAINING or STOPPING without an intent has
\* found it so.
Explained(t) ==
    state'[t] \in {Draining, Stopping} /\ incumbent'[t] = None =>
       state'[t] = state[t] /\ incumbent[t] = None

\* Every step explains the session's state: an accepted intent is there while it
\* drains or stops, and an intent that ends leaves a terminal or starting state.
LEMMA NextExplains ==
    ASSUME LifecycleInv, [LifecycleNext]_lifecycleVars, NEW t \in registered
    PROVE  Explained(t)
<1> USE DEF Draining, Stopping, Poisoned, Stopped, Ready, Initializing, Explained, intentVars
<1>0. CoreType /\ t \in Sessions
  BY DEF LifecycleInv, CoreType
<1>1. ASSUME NEW s \in Sessions, NEW r \in Registrations,
             RegisterLifecycle(s, r.generation, r.state, r.reaped)
      PROVE  Explained(t)
  BY <1>0, <1>1 DEF RegisterLifecycle, Registered, CoreType
<1>2. ASSUME NEW s \in Sessions, NEW c \in Callers, NEW k \in {"STOP", "RESTART"},
             NEW childRisk \in ChildRisks, NEW busy \in Works, Insert(s, c, k, childRisk, busy)
      PROVE  Explained(t)
  <2>1. /\ incumbent' = [incumbent EXCEPT ![s] = nextIntent + 1] /\ nextIntent < MaxIntents
        /\ state' = [state EXCEPT ![s] = lifecycleIntentState(state[s], childRisk, busy)]
    BY <1>2 DEF Insert, NewIntent
  <2>2. nextIntent + 1 # None
    BY <1>0, <2>1, LifecycleConstants DEF CoreType, Intents
  <2>3. QED
    BY <1>0, <2>1, <2>2 DEF CoreType
<1>3. ASSUME NEW s \in Sessions, NEW gap \in TeardownGap, NEW init \in Initialization,
             CompleteLifecycleObserved(s, incumbent[s], gap, init)
      PROVE  Explained(t)
  <2> DEFINE st == IF kind[incumbent[s]] # "RESTART" THEN Stopped
                   ELSE CASE init = "pending" -> Initializing
                          [] init = "complete" -> Ready
                          [] init = "failed" -> Poisoned
  <2>1. incumbent' = [incumbent EXCEPT ![s] = None]
    BY <1>3 DEF CompleteLifecycleObserved, Terminalize, Vacated
  <2>2. \/ state' = [state EXCEPT ![s] = Poisoned]
        \/ state' = [state EXCEPT ![s] = st]
    BY <1>3 DEF CompleteLifecycleObserved, Terminalize, FailedResult
  <2>3. st \notin {Draining, Stopping}
    BY DEF Initialization
  <2> HIDE DEF st
  <2>4. QED
    BY <1>0, <2>1, <2>2, <2>3 DEF CoreType
<1>4. ASSUME NEW s \in Sessions, NEW st \in {Ready, Poisoned},
             state' = [state EXCEPT ![s] = st], UNCHANGED incumbent
      PROVE  Explained(t)
  BY <1>0, <1>4 DEF CoreType
<1>5. CASE UNCHANGED <<incumbent, state>>
  BY <1>5
<1>6. QED
  BY <1>1, <1>2, <1>3, <1>4, <1>5
  DEF LifecycleNext, LifecycleStep, Join, DetachLifecycleCaller, ObserveInitialization,
      ObservePoison, InvariantFailure, sessionVars, lifecycleVars

\* DRAINING and STOPPING always have an intent that moves the session on, unless
\* it was registered that way: for a session that Start registers INITIALIZING or
\* Admit STOPPED, Lifecycle's invariant-failure branch is unreachable.
THEOREM DrainingExplained == LifecycleSpec => DrainingHasIntent
<1>1. LifecycleInv /\ [LifecycleNext]_lifecycleVars
      => [\A s \in registered :
            state'[s] \in {Draining, Stopping} /\ incumbent'[s] = None =>
               state'[s] = state[s] /\ incumbent[s] = None]_lifecycleVars
  BY NextExplains DEF Explained
<1>2. QED
  BY LifecycleInvariant, <1>1, PTL DEF LifecycleSpec, DrainingHasIntent
-----------------------------------------------------------------------------
(***************************************************************************)
(* The history.  HistoryIsTrue says what the finished intents of a session *)
(* tell; a new entry keeps it because the intent in progress is younger    *)
(* than every entry and is for a generation no entry's outcome exceeds, and *)
(* the answer to a repeated STOP stays true because only a STOP that        *)
(* succeeded, or a registration, leaves a session STOPPED without an intent.*)
(***************************************************************************)

ReapedType == reaped \in [Sessions -> BOOLEAN]

HistoryType ==
    /\ ReapedType
    /\ hasWork \in [Sessions -> BOOLEAN]
    /\ history \in [Sessions -> Seq(Intents)]

\* Only STOP and RESTART intents are in progress here (EVICT is admission's).
OwnKinds == \A s \in Sessions : incumbent[s] # None => kind[incumbent[s]] \in {"STOP", "RESTART"}

\* Entry x of session s: finished, older than the intent in progress, and its
\* outcome is for a generation the session has reached.
Entry(s, x) ==
    /\ x \in Created
    /\ outcome[x] # None
    /\ outcome[x].generation <= generation[s]
    /\ incumbent[s] # None => x < incumbent[s]

Ordered(x, y) == x < y /\ outcome[x].generation <= target[y]

Success(g) == [state |-> Stopped, generation |-> g, failure |-> ""]

\* The account of session s is bounded, true and in order, and while s is
\* STOPPED without an intent its newest STOP of this generation succeeded.
Told(s) ==
    /\ Len(history[s]) <= MaxHistory
    /\ \A j \in 1..Len(history[s]) :
          /\ Entry(s, history[s][j])
          /\ \A k \in 1..Len(history[s]) : j < k => Ordered(history[s][j], history[s][k])
    /\ state[s] = Stopped /\ incumbent[s] = None =>
          \A j \in ReplayPositions(s) :
             (\A k \in ReplayPositions(s) : k <= j) => outcome[history[s][j]] = Success(generation[s])

HistoryInv == HistoryType /\ OwnKinds /\ \A s \in Sessions : Told(s)

\* terminalizeLifecycle's append and trim: the new entry is last, and what stays
\* of the old ones stays in order, without a first entry at most.
Grown(t, h, e) ==
    /\ t \in Seq(Intents)
    /\ Len(t) \in 1..MaxHistory
    /\ t[Len(t)] = e
    /\ \E d \in {0, 1} : \A j \in 1..Len(t) :
          j < Len(t) => j + d \in 1..Len(h) /\ t[j] = h[j + d]

LEMMA TrimmedHistory ==
    ASSUME NEW h \in Seq(Intents), NEW e \in Intents, Len(h) <= MaxHistory,
           MaxHistory \in Nat \ {0}
    PROVE  Grown(Trimmed(Append(h, e)), h, e)
<1> DEFINE a == Append(h, e)
           t == Trimmed(a)
<1>0. SUFFICES Grown(t, h, e)
  OBVIOUS
<1>1. /\ a \in Seq(Intents) /\ Len(a) = Len(h) + 1 /\ a[Len(a)] = e
      /\ \A j \in 1..Len(h) : a[j] = h[j]
      /\ Len(h) \in Nat
  OBVIOUS
<1> HIDE DEF a, t
<1>2. CASE Len(a) > MaxHistory
  <2>1. t = Tail(a) /\ a # <<>>
    BY <1>1, <1>2 DEF Trimmed, t
  <2>2. /\ t \in Seq(Intents) /\ Len(t) = Len(a) - 1
        /\ \A j \in 1..Len(t) : t[j] = a[j + 1]
    BY <1>1, <2>1
  <2>3. \A j \in 1..Len(t) : j < Len(t) => j + 1 \in 1..Len(h) /\ t[j] = h[j + 1]
    BY <1>1, <2>2
  <2>4. Len(t) = MaxHistory /\ t[Len(t)] = e
    BY <1>1, <1>2, <2>2
  <2>5. QED
    BY <2>2, <2>3, <2>4 DEF Grown
<1>3. CASE ~(Len(a) > MaxHistory)
  <2>1. t = a
    BY <1>3 DEF Trimmed, t
  <2>2. \A j \in 1..Len(t) : j < Len(t) => j + 0 \in 1..Len(h) /\ t[j] = h[j + 0]
    BY <1>1, <2>1
  <2>3. Len(t) \in 1..MaxHistory
    BY <1>1, <1>3, <2>1
  <2>4. QED
    BY <1>1, <2>1, <2>2, <2>3 DEF Grown
<1>4. QED
  BY <1>2, <1>3

\* The account of a session does not change with a step that leaves alone the
\* session and the records of the intents its history names.
LEMMA AccountUntouched ==
    ASSUME LifecycleInv, HistoryType, NEW t \in Sessions, Told(t),
           history'[t] = history[t], generation'[t] = generation[t], incumbent'[t] = incumbent[t],
           state'[t] = state[t] \/ state'[t] # Stopped \/ incumbent'[t] # None,
           nextIntent' \in Nat, nextIntent' >= nextIntent,
           \A x \in Created : outcome[x] # None => /\ outcome'[x] = outcome[x]
                                                   /\ kind'[x] = kind[x]
                                                   /\ target'[x] = target[x]
    PROVE  Told(t)'
<1> DEFINE h == history[t]
<1>1. nextIntent \in Nat
  BY DEF LifecycleInv, CoreType
<1>2. \A j \in 1..Len(h) : /\ h[j] \in Created /\ h[j] \in Created'
                           /\ outcome'[h[j]] = outcome[h[j]]
                           /\ kind'[h[j]] = kind[h[j]] /\ target'[h[j]] = target[h[j]]
  BY <1>1 DEF Told, Entry, Created
<1>3. h \in Seq(Intents) /\ DOMAIN h = 1..Len(h) /\ DOMAIN (history'[t]) = 1..Len(h)
  BY DEF HistoryType
<1>4. ReplayPositions(t)' = ReplayPositions(t)
  BY <1>2, <1>3 DEF ReplayPositions
<1>5. Len(history'[t]) <= MaxHistory
  BY DEF Told
<1>6. \A j \in 1..Len(h) : Entry(t, h[j])'
  BY <1>2 DEF Told, Entry
<1>7. \A j, k \in 1..Len(h) : j < k => Ordered(h[j], h[k])'
  BY <1>2 DEF Told, Ordered
<1>8. ASSUME state'[t] = Stopped, incumbent'[t] = None, NEW j \in ReplayPositions(t)',
             \A k \in ReplayPositions(t)' : k <= j
      PROVE  outcome'[history'[t][j]] = Success(generation'[t])
  <2>1. state[t] = Stopped /\ incumbent[t] = None /\ j \in 1..Len(h)
    BY <1>3, <1>4, <1>8 DEF ReplayPositions
  <2>2. outcome[h[j]] = Success(generation[t])
    BY <1>4, <1>8, <2>1 DEF Told
  <2>3. QED
    BY <1>2, <2>1, <2>2 DEF Success
<1>9. QED
  BY <1>5, <1>6, <1>7, <1>8 DEF Told

\* The empty manager has empty histories.
LEMMA InitHistoryInv == LifecycleInit => HistoryInv
<1> SUFFICES ASSUME LifecycleInit PROVE HistoryInv
  OBVIOUS
<1>1. HistoryType /\ OwnKinds
  BY DEF LifecycleInit, HistoryType, ReapedType, OwnKinds
<1>2. ASSUME NEW s \in Sessions PROVE Told(s)
  <2>1. history[s] = <<>> /\ Len(history[s]) = 0 /\ ReplayPositions(s) = {}
    BY DEF LifecycleInit, ReplayPositions
  <2>2. QED
    BY <2>1, LifecycleConstants DEF Told
<1>3. QED
  BY <1>1, <1>2 DEF HistoryInv

\* A session registers with an empty history, so in any state.
LEMMA RegisterKeepsHistory ==
    ASSUME LifecycleInv, HistoryInv, NEW s \in Sessions, NEW r \in Registrations,
           RegisterLifecycle(s, r.generation, r.state, r.reaped)
    PROVE  HistoryInv'
<1> USE DEF intentVars
<1>1. /\ reaped' = [reaped EXCEPT ![s] = r.reaped]
      /\ hasWork' = [hasWork EXCEPT ![s] = FALSE]
      /\ history' = [history EXCEPT ![s] = <<>>]
      /\ incumbent' = [incumbent EXCEPT ![s] = None]
      /\ generation' = [generation EXCEPT ![s] = r.generation]
      /\ state' = [state EXCEPT ![s] = r.state]
      /\ UNCHANGED intentVars
  BY DEF RegisterLifecycle, Registered
<1>2. HistoryType'
  <2>1. r.reaped \in BOOLEAN
    BY LifecycleConstants
  <2>2. reaped' \in [Sessions -> BOOLEAN] /\ hasWork' \in [Sessions -> BOOLEAN]
    BY <1>1, <2>1 DEF HistoryInv, HistoryType, ReapedType
  <2>3. history' \in [Sessions -> Seq(Intents)]
    BY <1>1 DEF HistoryInv, HistoryType
  <2>4. QED
    BY <2>2, <2>3 DEF HistoryType, ReapedType
<1>3. OwnKinds'
  BY <1>1 DEF HistoryInv, OwnKinds, LifecycleInv, CoreType
<1>4. ASSUME NEW t \in Sessions PROVE Told(t)'
  <2>1. CASE t = s
    <3>1. history'[t] = <<>> /\ Len(history'[t]) = 0 /\ ReplayPositions(t)' = {}
      BY <1>1, <2>1 DEF HistoryInv, HistoryType, ReplayPositions
    <3>2. QED
      BY <3>1, LifecycleConstants DEF Told
  <2>2. CASE t # s
    <3>1. /\ history'[t] = history[t] /\ generation'[t] = generation[t]
          /\ incumbent'[t] = incumbent[t] /\ state'[t] = state[t]
      BY <1>1, <2>2 DEF HistoryInv, HistoryType, LifecycleInv, CoreType
    <3>2. nextIntent' \in Nat /\ nextIntent' >= nextIntent
      BY <1>1 DEF LifecycleInv, CoreType
    <3>3. QED
      BY <1>1, <3>1, <3>2, AccountUntouched DEF HistoryInv
  <2>3. QED
    BY <2>1, <2>2
<1>5. QED
  BY <1>2, <1>3, <1>4 DEF HistoryInv

\* A step that creates and ends no intent and stops no session keeps the history.
LEMMA QuietKeepsHistory ==
    ASSUME LifecycleInv, HistoryInv,
           UNCHANGED <<reaped, hasWork, history, incumbent, generation, nextIntent, kind, target,
                       outcome>>,
           \A t \in Sessions : state'[t] = state[t] \/ state'[t] # Stopped
    PROVE  HistoryInv'
<1>1. HistoryType' /\ OwnKinds'
  BY DEF HistoryInv, HistoryType, ReapedType, OwnKinds
<1>2. nextIntent' \in Nat /\ nextIntent' >= nextIntent
  BY DEF LifecycleInv, CoreType
<1>3. ASSUME NEW t \in Sessions PROVE Told(t)'
  BY <1>2, AccountUntouched DEF HistoryInv
<1>4. QED
  BY <1>1, <1>3 DEF HistoryInv

\* A new intent is younger than every entry.
LEMMA InsertKeepsHistory ==
    ASSUME LifecycleInv, HistoryInv, NEW s \in Sessions, NEW c \in Callers,
           NEW k \in {"STOP", "RESTART"}, NEW childRisk \in BOOLEAN, NEW busy \in BOOLEAN,
           Insert(s, c, k, childRisk, busy)
    PROVE  HistoryInv'
<1> DEFINE i == nextIntent + 1
<1>1. nextIntent \in Nat /\ i \in Intents /\ i \notin Created /\ i # None /\ Created \subseteq Intents
  BY LifecycleConstants DEF Insert, NewIntent, LifecycleInv, CoreType, Intents, Created
<1>2. /\ incumbent[s] = None
      /\ nextIntent' = i
      /\ kind' = [kind EXCEPT ![i] = k]
      /\ target' = [target EXCEPT ![i] = generation[s]]
      /\ incumbent' = [incumbent EXCEPT ![s] = i]
      /\ hasWork' = [hasWork EXCEPT ![s] = busy]
      /\ UNCHANGED <<outcome, generation, reaped, history>>
      /\ \A t \in Sessions : t # s => state'[t] = state[t]
  BY DEF Insert, Insertable, NewIntent, LifecycleInv, CoreType
<1> HIDE DEF i
<1>3. HistoryType'
  <2>1. hasWork' \in [Sessions -> BOOLEAN]
    BY <1>2 DEF HistoryInv, HistoryType
  <2>2. QED
    BY <1>2, <2>1 DEF HistoryInv, HistoryType, ReapedType
<1>4. \A x \in Created : kind'[x] = kind[x] /\ target'[x] = target[x] /\ x < i /\ x \in Created'
  BY <1>1, <1>2 DEF LifecycleInv, CoreType, Created, i
<1>5. \A t \in Sessions : incumbent'[t] = IF t = s THEN i ELSE incumbent[t]
  BY <1>2 DEF LifecycleInv, CoreType
<1>6. OwnKinds'
  <2>1. kind'[i] = k
    BY <1>1, <1>2 DEF LifecycleInv, CoreType
  <2>2. \A t \in Sessions : incumbent[t] # None => incumbent[t] \in Created
    BY DEF LifecycleInv, IncumbentIsCurrent
  <2>3. QED
    BY <1>4, <1>5, <2>1, <2>2 DEF HistoryInv, OwnKinds
<1>7. ASSUME NEW t \in Sessions PROVE Told(t)'
  <2>1. CASE t # s
    <3>1. nextIntent' \in Nat /\ nextIntent' >= nextIntent
      BY <1>1, <1>2 DEF i
    <3>2. QED
      BY <1>2, <1>4, <1>5, <2>1, <3>1, AccountUntouched DEF HistoryInv
  <2>2. CASE t = s
    <3>1. Told(s)
      BY DEF HistoryInv
    <3>2. \A j \in 1..Len(history[s]) : history[s][j] \in Created
      BY <3>1 DEF Told, Entry
    <3>3. \A j \in 1..Len(history[s]) : Entry(s, history[s][j])'
      BY <1>2, <1>4, <1>5, <3>1, <3>2 DEF Told, Entry
    <3>4. \A j, m \in 1..Len(history[s]) : j < m => Ordered(history[s][j], history[s][m])'
      BY <1>2, <1>4, <3>1, <3>2 DEF Told, Ordered
    <3>5. incumbent'[s] # None /\ Len(history'[s]) <= MaxHistory
      BY <1>1, <1>2, <1>5, <3>1 DEF Told
    <3>6. QED
      BY <1>2, <2>2, <3>3, <3>4, <3>5 DEF Told
  <2>3. QED
    BY <2>1, <2>2
<1>8. QED
  BY <1>3, <1>6, <1>7 DEF HistoryInv

\* An intent that ends becomes the newest entry; when it leaves the session
\* STOPPED it is the STOP that a repeated one is answered from.
LEMMA TerminalizeKeepsHistory ==
    ASSUME LifecycleInv, HistoryInv, NEW s \in registered, NEW i \in Intents, incumbent[s] = i,
           NEW result \in Result, NEW readyFor, Terminalize(s, i, result, readyFor),
           NEW g \in Nat, generation' = [generation EXCEPT ![s] = g], generation[s] <= g,
           result.generation = g,
           result.state = Stopped => /\ kind[i] = "STOP" /\ g = generation[s]
                                     /\ result = Success(g),
           ReapedType'
    PROVE  HistoryInv'
<1> USE LifecycleConstants
<1> DEFINE h == history[s]
<1>1. /\ s \in Sessions /\ i # None /\ i \in Created /\ outcome[i] = None
      /\ target[i] = generation[s] /\ generation[s] \in Nat /\ result # None
      /\ nextIntent \in Nat
  BY DEF LifecycleInv, CoreType, IncumbentIsCurrent, Terminal
<1>2. /\ state' = [state EXCEPT ![s] = result.state]
      /\ outcome' = [outcome EXCEPT ![i] = result]
      /\ history' = [history EXCEPT ![s] = Trimmed(Append(h, i))]
      /\ incumbent' = [incumbent EXCEPT ![s] = None]
      /\ UNCHANGED <<hasWork, nextIntent, kind, target>>
  BY DEF Terminalize, Vacated
<1>3. Told(s) /\ h \in Seq(Intents) /\ Len(h) <= MaxHistory
  BY <1>1 DEF HistoryInv, HistoryType, Told
<1>4. PICK n : n = Trimmed(Append(h, i)) /\ n = history'[s]
  BY <1>1, <1>2 DEF HistoryInv, HistoryType
<1> HIDE DEF h
<1>5. /\ n \in Seq(Intents) /\ Len(n) \in 1..MaxHistory /\ n[Len(n)] = i
      /\ \E d \in {0, 1} : \A j \in 1..Len(n) :
             j < Len(n) => j + d \in 1..Len(h) /\ n[j] = h[j + d]
  <2>1. i \in Intents /\ MaxHistory \in Nat \ {0}
    OBVIOUS
  <2>2. Grown(n, h, i)
    BY <1>3, <1>4, <2>1, TrimmedHistory
  <2>3. QED
    BY <2>2 DEF Grown
<1>6. PICK d \in {0, 1} : \A j \in 1..Len(n) :
             j < Len(n) => j + d \in 1..Len(h) /\ n[j] = h[j + d]
  BY <1>5
<1>7. HistoryType'
  <2>1. history' = [history EXCEPT ![s] = n]
    BY <1>2, <1>4
  <2>2. history' \in [Sessions -> Seq(Intents)]
    BY <1>5, <2>1 DEF HistoryInv, HistoryType
  <2>3. QED
    BY <1>2, <2>2 DEF HistoryInv, HistoryType
<1>8. \A t \in Sessions : incumbent'[t] = IF t = s THEN None ELSE incumbent[t]
  BY <1>2 DEF LifecycleInv, CoreType
<1>9. OwnKinds'
  BY <1>2, <1>8 DEF HistoryInv, OwnKinds
<1>10. \A x \in Created : outcome'[x] = IF x = i THEN result ELSE outcome[x]
  BY <1>2 DEF LifecycleInv, CoreType, Created, Intents
<1>11. ASSUME NEW t \in Sessions, t # s PROVE Told(t)'
  <2>1. /\ history'[t] = history[t] /\ generation'[t] = generation[t]
        /\ incumbent'[t] = incumbent[t] /\ state'[t] = state[t]
    BY <1>2, <1>11 DEF HistoryInv, HistoryType, LifecycleInv, CoreType
  <2>2. \A x \in Created : outcome[x] # None => outcome'[x] = outcome[x]
    BY <1>1, <1>10
  <2>3. QED
    BY <1>1, <1>2, <2>1, <2>2, AccountUntouched DEF HistoryInv
<1>12. Told(s)'
  <2>1. generation'[s] = g /\ incumbent'[s] = None /\ state'[s] = result.state
    BY <1>1, <1>2 DEF LifecycleInv, CoreType
  <2>2. \A j \in 1..Len(h) : /\ h[j] \in Created /\ outcome[h[j]] # None /\ h[j] < i
                             /\ outcome[h[j]].generation <= generation[s]
                             /\ h[j] # i /\ outcome'[h[j]] = outcome[h[j]]
    BY <1>1, <1>3, <1>10 DEF Told, Entry, h
  <2>3. outcome'[i] = result
    BY <1>1, <1>10
  <2>4. \A j \in 1..Len(n) : j < Len(n) =>
           /\ n[j] \in Created /\ outcome[n[j]] # None /\ n[j] < i
           /\ outcome[n[j]].generation <= generation[s]
           /\ outcome'[n[j]] = outcome[n[j]]
    BY <1>6, <2>2
  <2>5. \A j \in 1..Len(n) : j = Len(n) \/ j < Len(n)
    BY <1>5
  <2>6. \A j \in 1..Len(n) : Entry(s, n[j])'
    <3>1. \A j \in 1..Len(n) : j < Len(n) => outcome[n[j]].generation \in Nat
      BY <2>4 DEF LifecycleInv, CoreType, Result, Created, Intents
    <3>2. Created' = Created
      BY <1>2 DEF Created
    <3>3. ASSUME NEW j \in 1..Len(n), j < Len(n) PROVE Entry(s, n[j])'
      BY <1>1, <2>1, <2>4, <3>1, <3>2, <3>3 DEF Entry
    <3>4. Entry(s, i)'
      BY <1>1, <2>1, <2>3, <3>2 DEF Entry
    <3>5. QED
      BY <1>5, <2>5, <3>3, <3>4
  <2>7. \A j, k \in 1..Len(n) : j < k => Ordered(n[j], n[k])'
    <3>1. ASSUME NEW j \in 1..Len(n), NEW k \in 1..Len(n), j < k, k < Len(n)
          PROVE  Ordered(n[j], n[k])'
      <4>1. j < Len(n) /\ j + d < k + d
        BY <1>5, <3>1
      <4>2. /\ j + d \in 1..Len(h) /\ k + d \in 1..Len(h)
            /\ n[j] = h[j + d] /\ n[k] = h[k + d]
        BY <1>6, <3>1, <4>1
      <4>3. Ordered(h[j + d], h[k + d])
        BY <1>3, <4>1, <4>2 DEF Told, h
      <4>4. QED
        BY <1>2, <2>4, <3>1, <4>1, <4>2, <4>3 DEF Ordered
    <3>2. ASSUME NEW j \in 1..Len(n), j < Len(n) PROVE Ordered(n[j], i)'
      BY <1>1, <1>2, <2>4, <3>2 DEF Ordered
    <3>3. QED
      BY <1>5, <2>5, <3>1, <3>2
  <2>8. ASSUME state'[s] = Stopped, NEW j \in ReplayPositions(s)',
               \A k \in ReplayPositions(s)' : k <= j
        PROVE  outcome'[n[j]] = Success(generation'[s])
    <3>1. kind[i] = "STOP" /\ g = generation[s] /\ result = Success(g)
      BY <2>1, <2>8
    <3>2. DOMAIN n = 1..Len(n) /\ Len(n) \in DOMAIN n
      BY <1>5
    <3>3. Len(n) \in ReplayPositions(s)'
      BY <1>1, <1>2, <1>4, <1>5, <2>1, <3>1, <3>2 DEF ReplayPositions
    <3>4. j = Len(n)
      BY <1>4, <1>5, <2>8, <3>2, <3>3 DEF ReplayPositions
    <3>5. QED
      BY <1>5, <2>1, <2>3, <3>1, <3>4
  <2>9. Len(n) <= MaxHistory
    BY <1>5
  <2>10. QED
    BY <1>4, <2>6, <2>7, <2>8, <2>9 DEF Told
<1>13. QED
  BY <1>7, <1>9, <1>11, <1>12 DEF HistoryInv

\* Both ends of an intent, a failed teardown and an observed one.
LEMMA CompleteKeepsHistory ==
    ASSUME LifecycleInv, HistoryInv, NEW s \in Sessions, NEW gap \in TeardownGap,
           NEW initialization \in Initialization,
           CompleteLifecycleObserved(s, incumbent[s], gap, initialization)
    PROVE  HistoryInv'
<1> DEFINE i == incumbent[s]
<1>1. /\ s \in registered /\ i \in Intents /\ kind[i] \in {"STOP", "RESTART"}
      /\ generation[s] \in Nat
  <2>1. s \in registered /\ i # None
    BY DEF CompleteLifecycleObserved
  <2>2. QED
    BY <2>1 DEF LifecycleInv, CoreType, HistoryInv, OwnKinds
<1>2. CASE firstTeardownFailure(gap) # ""
  <2> DEFINE res == FailedResult(s, firstTeardownFailure(gap))
  <2>1. firstTeardownFailure(gap) \in Failure
    BY DEF firstTeardownFailure, TeardownGap, Failure
  <2>2. res \in Result /\ res.state # Stopped /\ res.generation = generation[s]
    BY <2>1, <1>1 DEF FailedResult, Result, State, Poisoned, Stopped
  <2>3. Terminalize(s, i, res, {}) /\ generation' = generation /\ reaped' = reaped
    BY <1>2 DEF CompleteLifecycleObserved
  <2>4. /\ generation' = [generation EXCEPT ![s] = generation[s]]
        /\ generation[s] <= generation[s]
    BY <1>1, <2>3 DEF LifecycleInv, CoreType
  <2>5. ReapedType'
    BY <2>3 DEF HistoryInv, HistoryType, ReapedType
  <2> HIDE DEF res
  <2>6. QED
    BY <1>1, <2>2, <2>3, <2>4, <2>5, TerminalizeKeepsHistory
<1>3. CASE firstTeardownFailure(gap) = ""
  <2> DEFINE g == IF kind[i] = "RESTART" THEN generation[s] + 1 ELSE generation[s]
             st == IF kind[i] # "RESTART" THEN Stopped
                   ELSE CASE initialization = "pending" -> Initializing
                          [] initialization = "complete" -> Ready
                          [] initialization = "failed" -> Poisoned
             fl == IF kind[i] = "RESTART" /\ initialization = "failed"
                   THEN "INITIALIZATION_FAILED" ELSE ""
             ready == IF kind[i] = "RESTART" /\ st = Ready THEN BoundCallers(i) ELSE {}
             res == [state |-> st, generation |-> g, failure |-> fl]
  <2>1. /\ generation' = [generation EXCEPT ![s] = g]
        /\ reaped' = [reaped EXCEPT ![s] = TRUE]
        /\ Terminalize(s, i, res, ready)
    BY <1>3 DEF CompleteLifecycleObserved
  <2>2. g \in Nat /\ generation[s] <= g /\ st \in State /\ fl \in Failure
    BY <1>1 DEF Initialization, State, Failure, Stopped, Initializing, Ready, Poisoned
  <2>3. st = Stopped => kind[i] = "STOP" /\ g = generation[s] /\ fl = ""
    BY <1>1 DEF Initialization, Stopped, Initializing, Ready, Poisoned
  <2>4. ReapedType'
    BY <2>1 DEF HistoryInv, HistoryType, ReapedType
  <2> HIDE DEF g, st, fl, ready
  <2>5. res \in Result /\ res.state = st /\ res.generation = g
    BY <2>2 DEF Result
  <2>6. st = Stopped => res = Success(g)
    BY <2>3 DEF Success
  <2> HIDE DEF res
  <2>7. QED
    BY <1>1, <2>1, <2>2, <2>3, <2>4, <2>5, <2>6, TerminalizeKeepsHistory
<1>4. QED
  BY <1>2, <1>3

\* Every step keeps the histories true.
LEMMA NextKeepsHistory ==
    ASSUME LifecycleInv, HistoryInv, [LifecycleNext]_lifecycleVars
    PROVE  HistoryInv'
<1> USE DEF intentVars, sessionVars
<1>1. ASSUME NEW s \in Sessions, NEW r \in Registrations,
             RegisterLifecycle(s, r.generation, r.state, r.reaped)
      PROVE  HistoryInv'
  BY <1>1, RegisterKeepsHistory
<1>2. ASSUME NEW s \in Sessions, NEW c \in Callers, NEW k \in {"STOP", "RESTART"}, Join(s, c, k)
      PROVE  HistoryInv'
  BY <1>2, QuietKeepsHistory DEF Join
<1>3. ASSUME NEW s \in Sessions, NEW c \in Callers, NEW k \in {"STOP", "RESTART"},
             NEW childRisk \in ChildRisks, NEW busy \in Works, Insert(s, c, k, childRisk, busy)
      PROVE  HistoryInv'
  BY <1>3, InsertKeepsHistory, LifecycleConstants
<1>4. ASSUME NEW s \in Sessions, NEW gap \in TeardownGap, NEW init \in Initialization,
             CompleteLifecycleObserved(s, incumbent[s], gap, init)
      PROVE  HistoryInv'
  BY <1>4, CompleteKeepsHistory
<1>5. ASSUME NEW s \in Sessions, NEW c \in Callers, NEW f \in DetachFailures,
             DetachLifecycleCaller(s, c, f)
      PROVE  HistoryInv'
  BY <1>5, QuietKeepsHistory DEF DetachLifecycleCaller
<1>6. ASSUME NEW s \in Sessions, NEW st \in {Ready, Poisoned}, state' = [state EXCEPT ![s] = st],
             UNCHANGED <<registered, generation, reaped, hasWork, incumbent, history, intentVars>>
      PROVE  HistoryInv'
  <2>1. \A t \in Sessions : state'[t] = state[t] \/ state'[t] # Stopped
    BY <1>6 DEF LifecycleInv, CoreType, Ready, Poisoned, Stopped
  <2>2. QED
    BY <1>6, <2>1, QuietKeepsHistory
<1>7. ASSUME NEW s \in Sessions, NEW complete \in BOOLEAN, ObserveInitialization(s, complete)
      PROVE  HistoryInv'
  BY <1>6, <1>7 DEF ObserveInitialization
<1>8. ASSUME NEW s \in Sessions, ObservePoison(s) \/ InvariantFailure(s)
      PROVE  HistoryInv'
  BY <1>6, <1>8 DEF ObservePoison, InvariantFailure
<1>9. CASE UNCHANGED lifecycleVars
  BY <1>9, QuietKeepsHistory DEF lifecycleVars
<1>10. QED
  BY <1>1, <1>2, <1>3, <1>4, <1>5, <1>7, <1>8, <1>9 DEF LifecycleNext, LifecycleStep

\* The accounts of all sessions hold in every reachable state.
LEMMA HistoryInvariant == LifecycleSpec => []HistoryInv
<1>1. LifecycleInv /\ HistoryInv /\ [LifecycleNext]_lifecycleVars => HistoryInv'
  BY NextKeepsHistory
<1>2. QED
  BY LifecycleInvariant, InitHistoryInv, <1>1, PTL DEF LifecycleSpec

\* Every nonempty set of naturals has a least element.
Less == {p \in Nat \X Nat : p[1] < p[2]}

LEMMA LessWellFounded == IsWellFoundedOn(Less, Nat)
BY NatLessThanWellFounded DEF OpToRel, Less

LEMMA LeastNatural ==
    ASSUME NEW Q, Q \subseteq Nat, Q # {}
    PROVE  \E m \in Q : \A q \in Q : m <= q
<1>1. PICK m \in Q : \A q \in Q : ~(<<q, m>> \in Less)
  BY LessWellFounded, WFMin
<1>2. \A q \in Q : ~(q < m)
  BY <1>1 DEF Less
<1>3. QED
  BY <1>2

\* The newest of a nonempty set of positions in a sequence exists.
LEMMA NewestPosition ==
    ASSUME NEW P, P # {}, NEW n \in Nat, P \subseteq 1..n
    PROVE  \E j \in P : \A k \in P : k <= j
<1> DEFINE Q == {m \in Nat : \A k \in P : k <= m}
<1>1. n \in Q /\ Q \subseteq Nat
  OBVIOUS
<1>2. PICK m \in Q : \A q \in Q : m <= q
  <2> HIDE DEF Q
  <2>1. QED
    BY <1>1, LeastNatural
<1>3. m \in P
  <2>1. SUFFICES ASSUME m \notin P PROVE FALSE
    OBVIOUS
  <2>2. PICK x \in P : TRUE
    OBVIOUS
  <2>3. m - 1 \in Nat /\ \A k \in P : k <= m - 1
    BY <1>2, <2>1, <2>2
  <2>4. m - 1 \in Q
    BY <2>3
  <2>5. QED
    BY <1>2, <2>4
<1>4. QED
  BY <1>2, <1>3

\* What the accounts say is what HistoryIsTrue says.
LEMMA AccountsAreTrue ==
    ASSUME LifecycleInv, HistoryInv
    PROVE  HistoryIsTrue
<1>1. LifecycleTypeOK
  BY DEF LifecycleInv, CoreType, HistoryInv, HistoryType, ReapedType, LifecycleTypeOK
<1>2. \A s \in Sessions : history[s] \in Seq(Intents) /\ DOMAIN history[s] = 1..Len(history[s])
  BY DEF HistoryInv, HistoryType
<1>3. HistoryIsSuccession
  <2>1. \A s \in registered : s \in Sessions /\ Told(s)
    BY DEF LifecycleInv, CoreType, HistoryInv
  <2>2. QED
    BY <1>2, <2>1 DEF HistoryIsSuccession, Told, Entry, Ordered, Terminal
<1>4. ReplayIsSuccess
  <2>1. ASSUME NEW s \in registered, incumbent[s] = None, Replayable(s, "STOP")
        PROVE  LET newest == CHOOSE j \in ReplayPositions(s) : \A k \in ReplayPositions(s) : k <= j
               IN outcome[history[s][newest]] = Success(generation[s])
    <3> DEFINE P == ReplayPositions(s)
               newest == CHOOSE j \in P : \A k \in P : k <= j
    <3>1. s \in Sessions /\ Told(s) /\ state[s] = Stopped /\ P # {}
      BY <2>1 DEF LifecycleInv, CoreType, HistoryInv, Replayable
    <3>2. P \subseteq 1..Len(history[s]) /\ Len(history[s]) \in Nat
      BY <1>2, <3>1 DEF ReplayPositions
    <3>3. \E j \in P : \A k \in P : k <= j
      <4> HIDE DEF P
      <4>1. QED
        BY <3>1, <3>2, NewestPosition
    <3>4. newest \in P /\ \A k \in P : k <= newest
      BY <3>3
    <3> HIDE DEF newest
    <3>5. outcome[history[s][newest]] = Success(generation[s])
      BY <2>1, <3>1, <3>4 DEF Told
    <3>6. QED
      BY <3>5 DEF newest
  <2>2. QED
    BY <2>1 DEF ReplayIsSuccess, Success
<1>5. QED
  BY <1>1, <1>3, <1>4 DEF HistoryIsTrue

\* The finished intents a session remembers are a true and ordered account for
\* every bound on the history, and a repeated STOP is answered with what happened.
THEOREM HistoryTrue == LifecycleSpec => []HistoryIsTrue
<1>1. LifecycleInv /\ HistoryInv => HistoryIsTrue
  BY AccountsAreTrue
<1>2. QED
  BY LifecycleInvariant, HistoryInvariant, <1>1, PTL

-----------------------------------------------------------------------------
(* The runtime *)

TokenInv ==
    /\ workers \in Int
    /\ waiter = "waiting" /\ workers <= 0 => workerDone

\* An ending worker (WorkerEnds, under the mutex) leaves a token.
LEMMA EndKeepsToken ==
    ASSUME TokenInv, WorkerEnds, UNCHANGED waiter
    PROVE  TokenInv'
BY DEF TokenInv, WorkerEnds

\* A starting worker (m.workers++) leaves the channel and the waiter alone.
LEMMA BeginKeepsToken ==
    ASSUME TokenInv, workers' = workers + 1, UNCHANGED <<workerDone, waiter>>
    PROVE  TokenInv'
BY DEF TokenInv

\* A step that touches neither the count, the channel nor the waiter.
LEMMA OtherKeepsToken ==
    ASSUME TokenInv, UNCHANGED <<workers, workerDone, waiter>>
    PROVE  TokenInv'
BY DEF TokenInv

\* Requests: the ones that start a goroutine count it.
LEMMA RequestKeepsToken ==
    ASSUME TokenInv, Request
    PROVE  TokenInv'
<1>1. ASSUME NEW c \in Clients, NEW s \in Sessions, StartCheck(c, s)
      PROVE  TokenInv'
  BY <1>1, OtherKeepsToken DEF StartCheck, workerVars, shutdownVars
<1>2. ASSUME NEW s \in Sessions, BeginReadiness(s)
      PROVE  TokenInv'
  BY <1>2, BeginKeepsToken DEF BeginReadiness, ReadinessBegins, shutdownVars
<1>3. ASSUME NEW c \in Clients, NEW s \in Sessions, NEW document \in BOOLEAN,
             BeginExchange(c, s, document)
      PROVE  TokenInv'
  BY <1>3, BeginKeepsToken DEF BeginExchange, shutdownVars
<1>4. ASSUME NEW s \in Sessions, NEW c \in Callers, NEW k \in {"STOP", "RESTART"},
             JoinOperation(s, c, k)
      PROVE  TokenInv'
  <2>1. UNCHANGED runtimeVars
    BY <1>4, Zenon DEF JoinOperation
  <2>2. QED
    BY <2>1, OtherKeepsToken DEF runtimeVars, workerVars, shutdownVars
<1>5. ASSUME NEW s \in Sessions, NEW c \in Callers, NEW k \in {"STOP", "RESTART"},
             Terminate(s, c, k)
      PROVE  TokenInv'
  <2>1. TerminateWorker(s, c, nextIntent + 1) /\ UNCHANGED <<workerDone, shutdownVars>>
    BY <1>5 DEF Terminate
  <2>2. QED
    BY <2>1, BeginKeepsToken DEF TerminateWorker, shutdownVars
<1>6. CASE Shutdown
  BY <1>6 DEF TokenInv, Shutdown, workerVars
<1>7. QED
  BY <1>1, <1>2, <1>3, <1>4, <1>5, <1>6 DEF Request

\* Clients: only the end of an exchange ends a worker.
LEMMA ClientKeepsToken ==
    ASSUME TokenInv, NEW c \in Clients, ClientStep(c)
    PROVE  TokenInv'
<1>1. CASE StartSpawn(c)
  BY <1>1, OtherKeepsToken DEF StartSpawn, workerVars, shutdownVars
<1>2. CASE StartAdmit(c)
  BY <1>2, OtherKeepsToken DEF StartAdmit, workerVars, shutdownVars
<1>3. CASE AnswerExchange(c)
  BY <1>3, OtherKeepsToken DEF AnswerExchange, workerVars, shutdownVars
<1>4. CASE RetireExchange(c)
  BY <1>4, OtherKeepsToken DEF RetireExchange, workerVars, shutdownVars
<1>5. CASE FinishExchange(c)
  BY <1>5, EndKeepsToken DEF FinishExchange, shutdownVars
<1>6. QED
  BY <1>1, <1>2, <1>3, <1>4, <1>5 DEF ClientStep

\* The readiness goroutine ends its worker once, in finishReadiness.
LEMMA ReadinessKeepsToken ==
    ASSUME TokenInv, NEW s \in Sessions, NEW g \in Generations, ReadinessStep(s, g)
    PROVE  TokenInv'
<1>1. CASE AbortReadiness(s, g)
  BY <1>1, OtherKeepsToken DEF AbortReadiness, workerVars, shutdownVars
<1>2. CASE FinishReadiness(s, g)
  BY <1>2, EndKeepsToken DEF FinishReadiness, shutdownVars
<1>3. QED
  BY <1>1, <1>2 DEF ReadinessStep

\* runLifecycle ends its worker where it records the operation's outcome, and
\* starts one where it begins the successor's handshake.
LEMMA TaskKeepsToken ==
    ASSUME TokenInv, NEW i \in Intents, TaskStep(i)
    PROVE  TokenInv'
<1>1. CASE TeardownTask(i)
  BY <1>1, OtherKeepsToken DEF TeardownTask, workerVars, shutdownVars
<1>2. CASE CompleteTask(i)
  <2>1. UNCHANGED waiter /\ (WorkerEnds \/ UNCHANGED workerVars)
    BY <1>2 DEF CompleteTask, FinishOperation, shutdownVars
  <2>2. QED
    BY <2>1, EndKeepsToken, OtherKeepsToken DEF workerVars
<1>3. CASE SpawnTask(i)
  BY <1>3, OtherKeepsToken DEF SpawnTask, workerVars, shutdownVars
<1>4. CASE InstallTask(i)
  <2>1. UNCHANGED waiter /\ (WorkerEnds \/ UNCHANGED workerVars)
    BY <1>4 DEF InstallTask, FinishOperation, shutdownVars
  <2>2. QED
    BY <2>1, EndKeepsToken, OtherKeepsToken DEF workerVars
<1>5. CASE BeginTask(i)
  <2>1. UNCHANGED <<workerDone, waiter>> /\ (workers' = workers + 1 \/ UNCHANGED workers)
    BY <1>5 DEF BeginTask, ReadinessBegins, shutdownVars
  <2>2. QED
    BY <2>1, BeginKeepsToken, OtherKeepsToken
<1>6. CASE FinishTask(i)
  BY <1>6, EndKeepsToken DEF FinishTask, FinishOperation, shutdownVars
<1>7. QED
  BY <1>1, <1>2, <1>3, <1>4, <1>5, <1>6 DEF TaskStep

\* Every step of the runtime preserves the invariant.
LEMMA NextKeepsToken == TokenInv /\ [RuntimeNext]_vars => TokenInv'
<1> SUFFICES ASSUME TokenInv, [RuntimeNext]_vars PROVE TokenInv'
  OBVIOUS
<1>1. CASE Request
  BY <1>1, RequestKeepsToken
<1>2. ASSUME NEW ch \in Children, Crash(ch) PROVE TokenInv'
  BY <1>2, OtherKeepsToken DEF Crash, workerVars, shutdownVars
<1>3. ASSUME NEW c \in Clients, ClientStep(c) PROVE TokenInv'
  BY <1>3, ClientKeepsToken
<1>4. ASSUME NEW s \in Sessions, NEW g \in Generations, ReadinessStep(s, g) PROVE TokenInv'
  BY <1>4, ReadinessKeepsToken
<1>5. ASSUME NEW i \in Intents, TaskStep(i) PROVE TokenInv'
  BY <1>5, TaskKeepsToken
<1>6. CASE ShutdownStep
  <2>1. CASE ShutdownToken
    BY <2>1 DEF TokenInv, ShutdownToken
  <2>2. CASE ShutdownRecheck
    BY <2>2 DEF TokenInv, ShutdownRecheck, workerVars
  <2>3. QED
    BY <1>6, <2>1, <2>2 DEF ShutdownStep
<1>7. CASE UNCHANGED vars
  BY <1>7, OtherKeepsToken DEF vars, runtimeVars, workerVars, shutdownVars
<1>8. QED
  BY <1>1, <1>2, <1>3, <1>4, <1>5, <1>6, <1>7 DEF RuntimeNext

\* Shutdown (the loop over m.workers and m.workerDone) cannot miss the last
\* worker: whenever it waits and none is left, a token is there to wake it.
THEOREM NeverStranded == RuntimeSpec => []NotStranded
<1>1. RuntimeInit => TokenInv
  <2>1. RuntimeInit => workers = 0 /\ waiter = "none"
    BY Zenon DEF RuntimeInit
  <2>2. QED
    BY <2>1 DEF TokenInv
<1>2. TokenInv => NotStranded
  BY DEF TokenInv, NotStranded
<1>3. QED
  BY <1>1, <1>2, NextKeepsToken, PTL DEF RuntimeSpec
-----------------------------------------------------------------------------
LiveInv == LiveAreSessions /\ IsFiniteSet(sessions)

\* A step that leaves both session sets alone.
LEMMA OtherKeepsLive ==
    ASSUME LiveInv, UNCHANGED <<sessions, live>>
    PROVE  LiveInv'
BY DEF LiveInv, LiveAreSessions

\* Start: the second check leaves room for the session it admits.
LEMMA AdmitKeepsLive ==
    ASSUME LiveInv, NEW c \in Clients, StartAdmit(c)
    PROVE  LiveInv'
<1> DEFINE s == client[c].session
<1> USE RuntimeConstants DEF LiveInv, LiveAreSessions
<1>1. CASE UNCHANGED recordVars
  BY <1>1, OtherKeepsLive DEF recordVars
<1>2. CASE CanStart(s) /\ live' = live \cup {s} /\ sessions' = sessions \cup {s}
  <2>1. IsFiniteSet(sessions') /\ Cardinality(sessions') = Cardinality(sessions) + 1
    BY <1>2, FS_AddElement DEF CanStart
  <2>2. Cardinality(sessions) \in Nat
    BY FS_CardinalityType
  <2>3. Cardinality(sessions') <= MaxSessions
    BY <1>2, <2>1, <2>2 DEF CanStart
  <2>4. QED
    BY <1>2, <2>1, <2>3
<1>3. QED
  BY <1>1, <1>2, Zenon DEF StartAdmit

\* runLifecycle's completion of a STOP: ReleaseStopped and delete agree.
LEMMA CompleteKeepsLive ==
    ASSUME LiveInv, NEW i \in Intents, CompleteTask(i)
    PROVE  LiveInv'
<1> DEFINE s == opSession[i]
<1>1. CASE UNCHANGED <<sessions, live>>
  BY <1>1, OtherKeepsLive
<1>2. CASE sessions' = sessions \ {s} /\ live' = live \ {s}
  <2>1. IsFiniteSet(sessions') /\ Cardinality(sessions') <= Cardinality(sessions)
    BY <1>2, FS_Subset DEF LiveInv
  <2>2. Cardinality(sessions) \in Nat /\ Cardinality(sessions') \in Nat
    BY <2>1, FS_CardinalityType DEF LiveInv
  <2>3. QED
    BY <1>2, <2>1, <2>2, RuntimeConstants DEF LiveInv, LiveAreSessions
<1>3. QED
  BY <1>1, <1>2, Zenon DEF CompleteTask, LiveAfterStop

\* Every step of the runtime preserves the invariant.
LEMMA NextKeepsLive == LiveInv /\ [RuntimeNext]_vars => LiveInv'
<1> SUFFICES ASSUME LiveInv, [RuntimeNext]_vars PROVE LiveInv'
  OBVIOUS
<1> USE DEF recordVars
<1>1. CASE Request
  <2>1. UNCHANGED <<sessions, live>>
    <3>1. ASSUME NEW c \in Clients, NEW s \in Sessions, StartCheck(c, s)
          PROVE  UNCHANGED <<sessions, live>>
      BY <3>1 DEF StartCheck
    <3>2. ASSUME NEW s \in Sessions, BeginReadiness(s)
          PROVE  UNCHANGED <<sessions, live>>
      BY <3>2 DEF BeginReadiness
    <3>3. ASSUME NEW c \in Clients, NEW s \in Sessions, NEW document \in BOOLEAN,
                 BeginExchange(c, s, document)
          PROVE  UNCHANGED <<sessions, live>>
      BY <3>3 DEF BeginExchange
    <3>4. ASSUME NEW s \in Sessions, NEW c \in Callers, NEW k \in {"STOP", "RESTART"},
                 JoinOperation(s, c, k)
          PROVE  UNCHANGED <<sessions, live>>
      <4>1. UNCHANGED runtimeVars
        BY <3>4, Zenon DEF JoinOperation
      <4>2. QED
        BY <4>1 DEF runtimeVars
    <3>5. ASSUME NEW s \in Sessions, NEW c \in Callers, NEW k \in {"STOP", "RESTART"},
                 Terminate(s, c, k)
          PROVE  UNCHANGED <<sessions, live>>
      BY <3>5, Zenon DEF Terminate
    <3>6. CASE Shutdown
      BY <3>6 DEF Shutdown
    <3>7. QED
      BY <1>1, <3>1, <3>2, <3>3, <3>4, <3>5, <3>6 DEF Request
  <2>2. QED
    BY <2>1, OtherKeepsLive
<1>2. ASSUME NEW ch \in Children, Crash(ch) PROVE LiveInv'
  BY <1>2, OtherKeepsLive DEF Crash
<1>3. ASSUME NEW c \in Clients, ClientStep(c) PROVE LiveInv'
  <2>1. CASE StartAdmit(c)
    BY <2>1, AdmitKeepsLive
  <2>2. CASE StartSpawn(c)
    BY <2>2, OtherKeepsLive DEF StartSpawn
  <2>3. CASE AnswerExchange(c) \/ RetireExchange(c)
    BY <2>3, OtherKeepsLive DEF AnswerExchange, RetireExchange
  <2>4. CASE FinishExchange(c)
    BY <2>4, OtherKeepsLive DEF FinishExchange
  <2>5. QED
    BY <1>3, <2>1, <2>2, <2>3, <2>4 DEF ClientStep
<1>4. ASSUME NEW s \in Sessions, NEW g \in Generations, ReadinessStep(s, g) PROVE LiveInv'
  BY <1>4, OtherKeepsLive DEF ReadinessStep, AbortReadiness, FinishReadiness
<1>5. ASSUME NEW i \in Intents, TaskStep(i) PROVE LiveInv'
  <2>1. CASE CompleteTask(i)
    BY <2>1, CompleteKeepsLive
  <2>2. CASE TeardownTask(i) \/ SpawnTask(i)
    BY <2>2, OtherKeepsLive DEF TeardownTask, SpawnTask
  <2>3. CASE InstallTask(i)
    BY <2>3, OtherKeepsLive DEF InstallTask
  <2>4. CASE BeginTask(i) \/ FinishTask(i)
    BY <2>4, OtherKeepsLive DEF BeginTask, FinishTask
  <2>5. QED
    BY <1>5, <2>1, <2>2, <2>3, <2>4 DEF TaskStep
<1>6. CASE ShutdownStep
  BY <1>6, OtherKeepsLive DEF ShutdownStep, ShutdownToken, ShutdownRecheck
<1>7. CASE UNCHANGED vars
  BY <1>7, OtherKeepsLive DEF vars, runtimeVars
<1>8. QED
  BY <1>1, <1>2, <1>3, <1>4, <1>5, <1>6, <1>7 DEF RuntimeNext

\* The sessions the algebra counts as admitted (session.Manager.live) are the
\* runtime's, and never more than limits.MaxSessions, whatever Starts race.
THEOREM SessionsBounded == RuntimeSpec => []LiveAreSessions
<1>1. RuntimeInit => LiveInv
  <2>1. RuntimeInit => sessions = {} /\ live = {}
    BY Zenon DEF RuntimeInit
  <2>2. QED
    BY <2>1, FS_EmptySet, RuntimeConstants DEF LiveInv, LiveAreSessions
<1>2. LiveInv => LiveAreSessions
  BY DEF LiveInv
<1>3. QED
  BY <1>1, <1>2, NextKeepsLive, PTL DEF RuntimeSpec

-----------------------------------------------------------------------------
\* The tasks that have the lease of session s.
Holding == {"teardown", "complete", "spawn", "install"}
Holds(i, s) == phase[i] \in Holding /\ opSession[i] = s
Leased(s) == s \in sessions /\ protocolOwned[s]
Exchanges(c, s) == Exchanging(c) /\ client[c].session = s

\* Children that were not spawned are blank, and only a dead child has closed pipes.
ChildrenOK ==
    /\ \A ch \in Children : ch > spawned =>
         childState[ch] = "none" /\ owner[ch] = None /\ pipes[ch] = "open"
    /\ \A ch \in Children : pipes[ch] # "open" => childState[ch] # "running"

\* A child Start has spawned and not yet admitted belongs to nobody, and to one call.
StartsOK ==
    \A c \in Clients : client[c].op = "admit" =>
       /\ client[c].child \in 1..spawned /\ owner[client[c].child] = None
       /\ \A d \in Clients : client[d].op = "admit" /\ client[d].child = client[c].child => d = c

\* What runLifecycle of an intent knows: its session, its kind and, past the
\* completion, that it is a RESTART and the generation it leads to.
Known(i) ==
    phase[i] # "none" =>
       /\ i <= nextIntent /\ opSession[i] \in Sessions /\ kind[i] \in {"STOP", "RESTART"}
       /\ phase[i] \in {"spawn", "install", "begin", "wait", "lost"} =>
            kind[i] = "RESTART" /\ outcome[i].generation = target[i] + 1

\* A generation is paid for by an intent: the first is free.
GenerationAt(s) ==
    s \in registered =>
       /\ generation[s] \in 1..(nextIntent + 1)
       /\ incumbent[s] # None => generation[s] <= nextIntent

\* A present session has a child of its own, and its lifecycle lease is that of a
\* task, or of a failed RESTART that left it behind (the generations then differ).
SessionAt(s) ==
    s \in sessions =>
       /\ s \in registered /\ rgen[s] \in 1..generation[s]
       /\ process[s] \in 1..spawned /\ owner[process[s]] = s
       /\ lifecycleOwned[s] => rgen[s] # generation[s] \/ \E i \in Intents : Holds(i, s)

\* An exchange has the session's lease, child and generation to itself.
ExchangeAt(s) ==
    \A c \in Clients : Exchanges(c, s) =>
       /\ Leased(s) /\ client[c].generation = rgen[s] /\ client[c].child = process[s]
       /\ rstate[s] = Ready
       /\ client[c].op # "retired" => pipes[process[s]] = "open"
       /\ \A d \in Clients : Exchanges(d, s) => d = c
       /\ \A g \in Generations : ~ ReadinessPending(s, g)
       /\ \A i \in Intents : ~ Holds(i, s)

\* So has a handshake.
ReadinessAt(s) ==
    \A g \in Generations : ReadinessPending(s, g) =>
       /\ Leased(s) /\ rgen[s] = g /\ readinessChild[<<s, g>>] = process[s]
       /\ \A i \in Intents : ~ Holds(i, s)

\* A task that tears down works for the session's incumbent intent on the session's
\* child; complete evidence means that child is reaped.
Teardown(i, s) ==
    phase[i] \in {"teardown", "complete"} =>
       /\ incumbent[s] = i /\ taskChild[i] = process[s] /\ generation[s] = target[i]
       /\ phase[i] = "complete" /\ taskGap[i] = "none" => childState[process[s]] = "reaped"

\* Every child session s ever had is reaped.
Reaped(s) == \A ch \in Children : owner[ch] = s => childState[ch] = "reaped"

\* Between teardown and installation every child but the successor is reaped.
Succession(i, s) ==
    /\ phase[i] \in {"spawn", "install"} => incumbent[s] = None /\ generation[s] = target[i] + 1
    /\ phase[i] = "spawn" => Reaped(s)
    /\ phase[i] = "install" /\ taskChild[i] = None => Reaped(s)
    /\ phase[i] = "install" /\ taskChild[i] # None =>
         /\ taskChild[i] \in 1..spawned /\ owner[taskChild[i]] = s
         /\ \A ch \in Children : ch # taskChild[i] /\ owner[ch] = s => childState[ch] = "reaped"

\* A task that has the lease has it alone, for the generation it was accepted for.
HolderAt(s) ==
    \A i \in Intents : Holds(i, s) =>
       /\ Leased(s) /\ lifecycleOwned[s] /\ rgen[s] = target[i]
       /\ Teardown(i, s) /\ Succession(i, s)
       /\ \A j \in Intents : Holds(j, s) => j = i

\* The algebra's incumbent has its task.
IntentAt(s) ==
    incumbent[s] # None => /\ phase[incumbent[s]] \in {"teardown", "complete"}
                           /\ opSession[incumbent[s]] = s

\* A child that is not reaped is the session's current one or the successor.
OverlapAt(s) ==
    \A ch \in Children : owner[ch] = s /\ childState[ch] # "reaped" =>
       /\ s \in sessions
       /\ process[s] = ch \/ \E i \in Intents : phase[i] = "install" /\ opSession[i] = s /\ taskChild[i] = ch

\* READY in the algebra or in the runtime means this generation's handshake
\* succeeded; without a task that has the lease the two agree, and the pipes are
\* open unless an exchange is about to report that it closed them.
ReadyAt(s) ==
    /\ state[s] = Ready => s \in sessions /\ rgen[s] = generation[s] /\ readiness[<<s, rgen[s]>>] = "ready"
    /\ s \in sessions /\ rstate[s] = Ready =>
         /\ readiness[<<s, rgen[s]>>] = "ready"
         /\ (\A i \in Intents : ~ Holds(i, s)) =>
              /\ state[s] = Ready /\ incumbent[s] = None
              /\ pipes[process[s]] = "open" \/ \E c \in Clients : Exchanges(c, s) /\ client[c].op = "retired"

\* All of it, for one session.
At(s) ==
    /\ GenerationAt(s) /\ SessionAt(s) /\ ExchangeAt(s) /\ ReadinessAt(s)
    /\ HolderAt(s) /\ IntentAt(s) /\ OverlapAt(s) /\ ReadyAt(s)

\* The invariant: it is a conjunction over sessions, so a step has to be argued
\* for the session it works on and leaves the others undisturbed.
RuntimeInv == ChildrenOK /\ StartsOK /\ (\A i \in Intents : Known(i)) /\ (\A s \in Sessions : At(s))

\* The types: Boolean flags,
Flags ==
    /\ retired \in [Sessions -> BOOLEAN] /\ taskRetired \in [Intents -> BOOLEAN]
    /\ protocolOwned \in [Sessions -> BOOLEAN] /\ lifecycleOwned \in [Sessions -> BOOLEAN]
    /\ workerDone \in BOOLEAN /\ closed \in BOOLEAN

\* the algebra's record,
Records ==
    /\ registered \subseteq Sessions /\ generation \in [Sessions -> Nat]
    /\ state \in [Sessions -> State] /\ incumbent \in [Sessions -> Intents \cup {None}]
    /\ nextIntent \in 0..MaxIntents /\ kind \in [Intents -> Kind \cup {None}]
    /\ target \in [Intents -> Nat] /\ outcome \in [Intents -> Result \cup {None}]

\* and the runtime's variables (the count of workers is Count, below).
Shape ==
    /\ sessions \subseteq Sessions /\ live \subseteq Sessions
    /\ rgen \in [Sessions -> Nat] /\ rstate \in [Sessions -> State]
    /\ process \in [Sessions -> Children \cup {None}]
    /\ readiness \in [Sessions \X Generations -> {"none", "pending", "aborted", "ready", "failed"}]
    /\ readinessChild \in [Sessions \X Generations -> Children \cup {None}]
    /\ operationIDs \in Seq(Intents)
    /\ opState \in [Intents -> {"none", "pending", "complete", "failed"}]
    /\ opSession \in [Intents -> Sessions \cup {None}] /\ opCaller \in [Intents -> Callers \cup {None}]
    /\ opFailure \in [Intents -> Failure \cup {SpawnFailure}]
    /\ phase \in [Intents -> Phase] /\ taskChild \in [Intents -> Children \cup {None}]
    /\ taskGap \in [Intents -> TeardownGap]
    /\ waiter \in {"none", "waiting", "woken", "returned"}
    /\ client \in [Clients -> {Idle} \cup StartCall \cup Exchange]
    /\ spawned \in 0..MaxSpawns /\ work \in 0..MaxWork
    /\ childState \in [Children -> {"none", "running", "reaped", "unreaped"}]
    /\ pipes \in [Children -> {"open", "closed", "broken"}]
    /\ owner \in [Children -> Sessions \cup {None}]


\* Every variable has its type.
Typed == Flags /\ Records /\ Shape

-----------------------------------------------------------------------------
\* What a step that works on other sessions leaves of session s.

\* its tasks,
SameTask(i) ==
    /\ phase'[i] = phase[i] /\ opSession'[i] = opSession[i] /\ taskChild'[i] = taskChild[i]
    /\ taskGap'[i] = taskGap[i] /\ target'[i] = target[i]

\* its record,
SameRecord(s) ==
    /\ s \in sessions' <=> s \in sessions
    /\ rgen'[s] = rgen[s] /\ rstate'[s] = rstate[s] /\ process'[s] = process[s]
    /\ protocolOwned'[s] = protocolOwned[s] /\ lifecycleOwned'[s] = lifecycleOwned[s]
    /\ \A g \in Generations : /\ readiness'[<<s, g>>] = readiness[<<s, g>>]
                              /\ readinessChild'[<<s, g>>] = readinessChild[<<s, g>>]

\* its algebra,
SameAlgebra(s) ==
    /\ s \in registered' <=> s \in registered
    /\ generation'[s] = generation[s] /\ state'[s] = state[s] /\ incumbent'[s] = incumbent[s]

\* its children,
SameChildren(s) ==
    /\ \A ch \in Children : owner'[ch] = s <=> owner[ch] = s
    /\ \A ch \in Children : owner[ch] = s => pipes'[ch] = pipes[ch]
    /\ \A ch \in Children : childState[ch] = "reaped" => childState'[ch] = "reaped"

\* the tasks that have its lease,
SameTasks(s) ==
    \A i \in Intents : /\ Holds(i, s)' <=> Holds(i, s)
                       /\ Holds(i, s) => SameTask(i)

\* its exchanges,
SameExchanges(s) ==
    \A c \in Clients : /\ Exchanges(c, s)' <=> Exchanges(c, s)
                       /\ Exchanges(c, s) => client'[c] = client[c]

\* all of it.
Undisturbed(s) ==
    /\ SameRecord(s) /\ SameAlgebra(s) /\ SameChildren(s) /\ SameTasks(s) /\ SameExchanges(s)
    /\ spawned <= spawned' /\ nextIntent <= nextIntent'

\* Bounds that only grow.
LEMMA Wider ==
    ASSUME NEW a \in Nat, NEW b \in Nat, a <= b
    PROVE  /\ \A x \in 1..a : x \in 1..b
           /\ \A x \in 1..(a + 1) : x \in 1..(b + 1)
           /\ \A x \in Nat : x <= a => x <= b
OBVIOUS

\* A session no part of which a step touches keeps its part of the invariant.
LEMMA UndisturbedKeeps ==
    ASSUME Typed, RuntimeInv, NEW s \in Sessions, Undisturbed(s), spawned' \in Nat, nextIntent' \in Nat
    PROVE  At(s)'
<1>0. At(s) /\ SameRecord(s) /\ SameAlgebra(s) /\ SameChildren(s) /\ SameTasks(s) /\ SameExchanges(s)
  BY DEF RuntimeInv, Undisturbed
<1>1. /\ \A x \in 1..spawned : x \in 1..spawned'
      /\ \A x \in 1..(nextIntent + 1) : x \in 1..(nextIntent' + 1)
      /\ \A x \in Nat : x <= nextIntent => x <= nextIntent'
  <2>1. spawned \in Nat /\ nextIntent \in Nat
    BY LifecycleConstants, RuntimeConstants DEF Typed, Shape, Records
  <2>2. QED
    BY <2>1, Wider DEF Undisturbed
<1>2. \A x \in 1..spawned : x \in Children
  BY RuntimeConstants DEF Typed, Shape, Children
<1>3. \A i \in Intents : Holds(i, s)' <=> Holds(i, s)
  BY <1>0 DEF SameTasks
<1>4. (s \in sessions => rgen[s] \in Generations) /\ generation[s] \in Nat
  BY <1>0, LifecycleConstants DEF At, SessionAt, GenerationAt, Generations, Typed, Records
<1>5. Leased(s)' <=> Leased(s)
  BY <1>0 DEF Leased, SameRecord
<1>6. s \in sessions => process[s] \in Children /\ owner[process[s]] = s
  BY <1>0, <1>2 DEF At, SessionAt
<1>11. GenerationAt(s)'
  BY <1>0, <1>1, <1>4 DEF At, GenerationAt, SameAlgebra
<1>12. SessionAt(s)'
  BY <1>0, <1>1, <1>2, <1>3, <1>6 DEF At, SessionAt, SameAlgebra, SameRecord, SameChildren
<1>13. ExchangeAt(s)'
  <2>1. \A g \in Generations : ReadinessPending(s, g)' <=> ReadinessPending(s, g)
    BY <1>0 DEF ReadinessPending, SameRecord
  <2>2. Leased(s) => pipes'[process[s]] = pipes[process[s]]
    BY <1>0, <1>6 DEF SameChildren, Leased
  <2>3. QED
    BY <1>0, <1>3, <1>5, <2>1, <2>2 DEF At, ExchangeAt, SameRecord, SameExchanges
<1>14. ReadinessAt(s)'
  <2>1. \A g \in Generations : ReadinessPending(s, g)' <=> ReadinessPending(s, g)
    BY <1>0 DEF ReadinessPending, SameRecord
  <2>2. QED
    BY <1>0, <1>3, <1>5, <2>1 DEF At, ReadinessAt, SameRecord
<1>15. HolderAt(s)'
  <2>1. Reaped(s) => Reaped(s)'
    BY <1>0 DEF Reaped, SameChildren
  <2> SUFFICES ASSUME NEW i \in Intents, Holds(i, s)'
               PROVE  /\ (Leased(s) /\ lifecycleOwned[s] /\ rgen[s] = target[i])'
                      /\ Teardown(i, s)' /\ Succession(i, s)'
                      /\ \A j \in Intents : Holds(j, s)' => j = i
    BY DEF HolderAt
  <2>2. Holds(i, s) /\ SameTask(i)
    BY <1>0 DEF SameTasks
  <2>3. /\ Leased(s) /\ lifecycleOwned[s] /\ rgen[s] = target[i]
        /\ Teardown(i, s) /\ Succession(i, s)
        /\ \A j \in Intents : Holds(j, s) => j = i
    BY <1>0, <2>2 DEF At, HolderAt
  <2>4. (Leased(s) /\ lifecycleOwned[s] /\ rgen[s] = target[i])'
    BY <1>0, <1>5, <2>2, <2>3 DEF SameRecord, SameTask
  <2>5. Teardown(i, s)'
    BY <1>0, <1>6, <2>2, <2>3 DEF Teardown, SameRecord, SameTask, SameAlgebra, SameChildren, Leased
  <2>6. Succession(i, s)'
    BY <1>0, <1>1, <1>2, <2>1, <2>2, <2>3 DEF Succession, SameTask, SameAlgebra, SameChildren
  <2>7. QED
    BY <1>3, <2>3, <2>4, <2>5, <2>6
<1>16. IntentAt(s)'
  <2>1. CASE incumbent[s] # None
    <3>1. incumbent[s] \in Intents /\ Holds(incumbent[s], s)
      BY <1>0, <2>1 DEF Typed, Records, At, IntentAt, Holds, Holding
    <3>2. SameTask(incumbent[s])
      BY <1>0, <3>1 DEF SameTasks
    <3>3. QED
      BY <1>0, <2>1, <3>2 DEF SameAlgebra, SameTask, At, IntentAt
  <2>2. QED
    BY <1>0, <2>1 DEF IntentAt, SameAlgebra
<1>17. OverlapAt(s)'
  <2>1. \A i \in Intents : phase[i] = "install" /\ opSession[i] = s => SameTask(i)
    BY <1>0 DEF SameTasks, Holds, Holding
  <2>2. QED
    BY <1>0, <2>1 DEF At, OverlapAt, SameRecord, SameChildren, SameTask
<1>18. ReadyAt(s)'
  <2>1. s \in sessions => pipes'[process[s]] = pipes[process[s]]
    BY <1>0, <1>6 DEF SameChildren
  <2>2. s \in sessions => readiness'[<<s, rgen[s]>>] = readiness[<<s, rgen[s]>>]
    BY <1>0, <1>4 DEF SameRecord
  <2>3. \A c \in Clients : Exchanges(c, s) /\ client[c].op = "retired" => Exchanges(c, s)' /\ client'[c].op = "retired"
    BY <1>0 DEF SameExchanges
  <2>4. QED
    BY <1>0, <1>3, <2>1, <2>2, <2>3 DEF At, ReadyAt, SameRecord, SameAlgebra
<1>19. QED
  BY <1>11, <1>12, <1>13, <1>14, <1>15, <1>16, <1>17, <1>18 DEF At

\* Teardown and Close of a child that was spawned.
LEMMA TearDownChild ==
    ASSUME Shape, ChildrenOK, NEW ch \in 1..spawned, NEW r \in ReapOutcomes, NEW p \in CloseOutcomes,
           TearDown(ch, r, p)
    PROVE  /\ ChildrenOK'
           /\ UNCHANGED <<spawned, owner>>
           /\ \A x : childState[x] = "reaped" => childState'[x] = "reaped"
           /\ \A x \in Children \ {ch} : pipes'[x] = pipes[x] /\ childState'[x] = childState[x]
           /\ childState'[ch] \in {"reaped", "unreaped", childState[ch]} /\ childState'[ch] # "running"
<1>0. /\ childState' = [childState EXCEPT ![ch] = IF @ = "running" THEN r ELSE @]
      /\ pipes' = [pipes EXCEPT ![ch] = IF @ = "open" THEN p ELSE @]
      /\ UNCHANGED <<spawned, owner>>
  BY Zenon DEF TearDown
<1>1. /\ childState \in [Children -> {"none", "running", "reaped", "unreaped"}]
      /\ pipes \in [Children -> {"open", "closed", "broken"}] /\ spawned \in 0..MaxSpawns
  BY Zenon DEF Shape
<1>2. ch \in Children /\ r \in {"reaped", "unreaped"}
  BY <1>1, RuntimeConstants DEF Children
<1>3. childState'[ch] = (IF childState[ch] = "running" THEN r ELSE childState[ch])
  BY <1>0, <1>1, <1>2
<1>4. \A x \in Children \ {ch} : pipes'[x] = pipes[x] /\ childState'[x] = childState[x]
  BY <1>0, <1>1, <1>2
<1>5. \A x : childState[x] = "reaped" => childState'[x] = "reaped"
  BY <1>0, <1>1, <1>2
<1>6. ChildrenOK'
  <2>1. ASSUME NEW x \in Children, x > spawned
        PROVE  childState'[x] = "none" /\ owner'[x] = None /\ pipes'[x] = "open"
    BY <2>1, <1>0, <1>1, <1>4 DEF ChildrenOK, Children
  <2>2. ASSUME NEW x \in Children, pipes'[x] # "open" PROVE childState'[x] # "running"
    BY <2>2, <1>2, <1>3, <1>4 DEF ChildrenOK
  <2>3. QED
    BY <1>0, <2>1, <2>2 DEF ChildrenOK
<1>7. QED
  BY <1>0, <1>2, <1>3, <1>4, <1>5, <1>6

\* starter.Start: the next child runs; the others are untouched.
LEMMA SpawnChild ==
    ASSUME Shape, ChildrenOK, NEW o, Spawn(o)
    PROVE  /\ ChildrenOK'
           /\ spawned' = spawned + 1 /\ spawned \in Nat /\ spawned + 1 \in Children /\ UNCHANGED pipes
           /\ owner[spawned + 1] = None /\ owner'[spawned + 1] = o
           /\ \A x \in Children \ {spawned + 1} : owner'[x] = owner[x] /\ childState'[x] = childState[x]
           /\ \A x \in 1..spawned : x \in Children \ {spawned + 1} /\ x \in 1..spawned'
<1>0. /\ spawned < MaxSpawns /\ spawned' = spawned + 1
      /\ childState' = [childState EXCEPT ![spawned + 1] = "running"]
      /\ owner' = [owner EXCEPT ![spawned + 1] = o]
      /\ UNCHANGED pipes
  BY Zenon DEF Spawn
<1>1. spawned \in 0..MaxSpawns
  BY Zenon DEF Shape
<1>2. spawned \in Nat /\ spawned + 1 \in Children
  BY <1>0, <1>1, RuntimeConstants DEF Children
<1>3. /\ owner'[spawned + 1] = o
      /\ \A x \in Children \ {spawned + 1} : owner'[x] = owner[x] /\ childState'[x] = childState[x]
  BY <1>0, <1>2 DEF Shape
<1>4. owner[spawned + 1] = None /\ pipes[spawned + 1] = "open"
  BY <1>2 DEF ChildrenOK
<1>5. ChildrenOK'
  <2>1. ASSUME NEW x \in Children, x > spawned'
        PROVE  childState'[x] = "none" /\ owner'[x] = None /\ pipes'[x] = "open"
    <3>1. x > spawned /\ x # spawned + 1
      BY <2>1, <1>0, <1>2 DEF Children
    <3>2. QED
      BY <3>1, <1>0, <1>3 DEF ChildrenOK
  <2>2. ASSUME NEW x \in Children, pipes'[x] # "open" PROVE childState'[x] # "running"
    BY <2>2, <1>0, <1>3, <1>4 DEF ChildrenOK
  <2>3. QED
    BY <2>1, <2>2 DEF ChildrenOK
<1>6. \A x \in 1..spawned : x \in Children \ {spawned + 1} /\ x \in 1..spawned'
  BY <1>0, <1>1, <1>2, RuntimeConstants DEF Children
<1>7. QED
  BY <1>0, <1>2, <1>3, <1>4, <1>5, <1>6

\* The frames of the groups of variables a step leaves alone.
LEMMA RecordFrame ==
    ASSUME NEW s, UNCHANGED <<sessions, rgen, rstate, process, protocolOwned, lifecycleOwned, readiness, readinessChild>>
    PROVE  SameRecord(s)
BY DEF SameRecord

\* The record of session.Manager.
LEMMA AlgebraFrame ==
    ASSUME NEW s, UNCHANGED <<registered, generation, state, incumbent>>
    PROVE  SameAlgebra(s)
BY DEF SameAlgebra

\* The children.
LEMMA ChildrenFrame ==
    ASSUME NEW s, UNCHANGED <<owner, pipes, childState>>
    PROVE  SameChildren(s)
BY DEF SameChildren

\* The tasks that have the lease.
LEMMA TasksFrame ==
    ASSUME NEW s, UNCHANGED <<phase, opSession, taskChild, taskGap, target>>
    PROVE  SameTasks(s)
BY DEF SameTasks, SameTask, Holds

\* The exchanges.
LEMMA ExchangesFrame ==
    ASSUME NEW s, UNCHANGED client
    PROVE  SameExchanges(s)
BY DEF SameExchanges, Exchanges, Exchanging

\* The counters of children and intents.
LEMMA BoundsFrame ==
    ASSUME Typed, UNCHANGED <<spawned, nextIntent>>
    PROVE  spawned <= spawned' /\ nextIntent <= nextIntent' /\ spawned' \in Nat /\ nextIntent' \in Nat
BY LifecycleConstants, RuntimeConstants DEF Typed, Shape, Records

\* The parts of the invariant that are not about one session: children that were
\* not spawned are blank and closed pipes belong to the dead,
LEMMA ChildrenKept ==
    ASSUME ChildrenOK, UNCHANGED <<spawned, childState, owner, pipes>>
    PROVE  ChildrenOK'
BY DEF ChildrenOK

\* a child Start has spawned and not yet admitted is nobody else's,
LEMMA StartsKept ==
    ASSUME StartsOK, UNCHANGED <<spawned, owner>>,
           \A c \in Clients : client'[c].op = "admit" => client'[c] = client[c]
    PROVE  StartsOK'
BY DEF StartsOK

\* and a task knows its session, its kind and, once torn down, the generation it goes to.
LEMMA KnownKept ==
    ASSUME \A i \in Intents : Known(i), UNCHANGED <<phase, opSession, kind, outcome, target, nextIntent>>
    PROVE  \A i \in Intents : Known(i)'
BY DEF Known

\* A child dies on its own: no session is disturbed.
LEMMA CrashKeeps ==
    ASSUME Typed, RuntimeInv, NEW ch \in Children, Crash(ch)
    PROVE  RuntimeInv'
<1> USE DEF lifecycleVars, sessionVars, intentVars, recordVars, readinessVars, operationVars, taskVars
<1>1. PICK r \in ReapOutcomes : childState' = [childState EXCEPT ![ch] = r]
  BY DEF Crash
<1>2. UNCHANGED <<lifecycleVars, recordVars, readinessVars, operationVars, taskVars, spawned, pipes, owner, client>>
  BY DEF Crash
<1>3. childState[ch] = "running" /\ childState \in [Children -> {"none", "running", "reaped", "unreaped"}]
  BY DEF Crash, Typed, Shape
<1>4. ChildrenOK'
  BY <1>1, <1>2, <1>3, RuntimeConstants DEF RuntimeInv, ChildrenOK
<1>5. ASSUME NEW s \in Sessions PROVE At(s)'
  <2>1. SameChildren(s)
    BY <1>1, <1>2, <1>3 DEF SameChildren
  <2>2. QED
    BY <1>2, <2>1, RecordFrame, AlgebraFrame, TasksFrame, ExchangesFrame, BoundsFrame, UndisturbedKeeps DEF Undisturbed
<1>6. QED
  BY <1>2, <1>4, <1>5, StartsKept, KnownKept DEF RuntimeInv

\* Start's first check: a client that does not exchange yet.
LEMMA StartCheckKeeps ==
    ASSUME Typed, RuntimeInv, NEW c \in Clients, NEW s \in Sessions, StartCheck(c, s)
    PROVE  RuntimeInv'
<1> USE DEF lifecycleVars, sessionVars, intentVars, recordVars, readinessVars, operationVars, taskVars, childVars
<1>1. UNCHANGED <<lifecycleVars, recordVars, readinessVars, operationVars, taskVars, childVars>>
  BY DEF StartCheck
<1>2. /\ client[c].op = "idle" /\ client'[c].op = "spawn"
      /\ \A d \in Clients \ {c} : client'[d] = client[d]
  BY DEF StartCheck, Idle, Typed, Shape
<1>3. ASSUME NEW t \in Sessions PROVE At(t)'
  <2>1. SameExchanges(t)
    BY <1>2 DEF SameExchanges, Exchanges, Exchanging
  <2>2. QED
    BY <1>1, <2>1, RecordFrame, AlgebraFrame, ChildrenFrame, TasksFrame, BoundsFrame, UndisturbedKeeps DEF Undisturbed
<1>4. StartsOK'
  BY <1>1, <1>2, StartsKept DEF RuntimeInv
<1>5. QED
  BY <1>1, <1>3, <1>4, ChildrenKept, KnownKept DEF RuntimeInv

\* Start's spawn: the child has no session yet.
LEMMA StartSpawnKeeps ==
    ASSUME Typed, RuntimeInv, NEW c \in Clients, StartSpawn(c)
    PROVE  RuntimeInv'
<1> USE DEF lifecycleVars, sessionVars, intentVars, recordVars, readinessVars, operationVars, taskVars
<1>1. UNCHANGED <<lifecycleVars, recordVars, readinessVars, operationVars, taskVars>> /\ client[c].op = "spawn"
  BY DEF StartSpawn
<1>2. \A t \in Sessions : SameRecord(t) /\ SameAlgebra(t) /\ SameTasks(t)
  BY <1>1, RecordFrame, AlgebraFrame, TasksFrame
<1>3. CASE client' = [client EXCEPT ![c] = Idle] /\ UNCHANGED childVars
  <2>1. UNCHANGED <<spawned, childState, pipes, owner>>
    BY <1>3 DEF childVars
  <2>2. client'[c].op = "idle" /\ \A d \in Clients \ {c} : client'[d] = client[d]
    BY <1>3 DEF Idle, Typed, Shape
  <2>3. StartsOK'
    BY <2>1, <2>2, StartsKept DEF RuntimeInv
  <2>4. ASSUME NEW t \in Sessions PROVE At(t)'
    <3>1. SameExchanges(t)
      BY <1>1, <2>2 DEF SameExchanges, Exchanges, Exchanging
    <3>2. QED
      BY <1>1, <1>2, <2>1, <3>1, ChildrenFrame, BoundsFrame, UndisturbedKeeps DEF Undisturbed
  <2>5. QED
    BY <1>1, <2>1, <2>3, <2>4, ChildrenKept, KnownKept DEF RuntimeInv
<1>4. CASE /\ Spawn(None)
           /\ client' = [client EXCEPT ![c] = [op |-> "admit", session |-> client[c].session, child |-> spawned + 1]]
  <2>1. /\ ChildrenOK'
        /\ spawned' = spawned + 1 /\ spawned \in Nat /\ spawned + 1 \in Children /\ UNCHANGED pipes
        /\ owner[spawned + 1] = None /\ owner'[spawned + 1] = None
        /\ \A x \in Children \ {spawned + 1} : owner'[x] = owner[x] /\ childState'[x] = childState[x]
        /\ \A x \in 1..spawned : x \in Children \ {spawned + 1} /\ x \in 1..spawned'
    BY <1>4, SpawnChild DEF RuntimeInv, Typed
  <2>2. /\ client'[c].op = "admit" /\ client'[c].child = spawned + 1
        /\ \A d \in Clients \ {c} : client'[d] = client[d]
    BY <1>4 DEF Typed, Shape
  <2>3. StartsOK'
    <3>1. spawned + 1 \in 1..spawned'
      BY <2>1
    <3>2. \A d \in Clients \ {c} : client[d].op = "admit" => client[d].child \in 1..spawned
      BY DEF RuntimeInv, StartsOK
    <3>3. QED
      BY <2>1, <2>2, <3>1, <3>2 DEF RuntimeInv, StartsOK
  <2>4. spawned <= spawned' /\ spawned' \in Nat
    BY <2>1
  <2>5. nextIntent <= nextIntent' /\ nextIntent' \in Nat
    BY <1>1, LifecycleConstants DEF Typed, Records
  <2>6. ASSUME NEW t \in Sessions PROVE At(t)'
    <3>1. SameExchanges(t)
      BY <1>1, <2>2 DEF SameExchanges, Exchanges, Exchanging
    <3>2. childState[spawned + 1] # "reaped"
      BY <2>1 DEF RuntimeInv, ChildrenOK
    <3>3. SameChildren(t)
      BY <2>1, <3>2 DEF SameChildren
    <3>4. QED
      BY <1>2, <2>4, <2>5, <3>1, <3>3, UndisturbedKeeps DEF Undisturbed
  <2>7. QED
    BY <1>1, <2>1, <2>3, <2>6, KnownKept DEF RuntimeInv
<1>5. QED
  BY <1>3, <1>4 DEF StartSpawn

\* What a client's record says of its call.
LEMMA ClientCall ==
    ASSUME Typed, NEW c \in Clients
    PROVE  /\ client[c].op = "spawn" => client[c].session \in Sessions
           /\ client[c].op = "admit" => client[c].session \in Sessions /\ client[c].child \in Children
           /\ Exchanging(c) => client[c].session \in Sessions /\ client[c].generation \in Nat
<1>1. client[c] = Idle \/ client[c] \in StartCall \/ client[c] \in Exchange
  BY DEF Typed, Shape
<1>2. CASE client[c] = Idle
  BY <1>2 DEF Idle, Exchanging
<1>3. CASE client[c] \in StartCall
  BY <1>3 DEF StartCall, Exchanging
<1>4. CASE client[c] \in Exchange
  BY <1>4 DEF Exchange, Exchanging
<1>5. QED
  BY <1>1, <1>2, <1>3, <1>4

\* The lifecycle record that Start finds or registers.
LEMMA StartRegisters ==
    ASSUME Typed, NEW s \in Sessions,
           IF s \in registered THEN UNCHANGED lifecycleVars ELSE RegisterLifecycle(s, 1, Initializing, FALSE)
    PROVE  /\ UNCHANGED intentVars
           /\ registered' = registered \cup {s}
           /\ \A t \in Sessions \ {s} : SameAlgebra(t)
           /\ s \in registered => SameAlgebra(s)
           /\ s \notin registered => generation'[s] = 1 /\ state'[s] = Initializing /\ incumbent'[s] = None
<1>1. CASE s \in registered
  BY <1>1 DEF lifecycleVars, sessionVars, SameAlgebra
<1>2. CASE s \notin registered
  <2>1. Registered(s, 1, Initializing, FALSE) /\ UNCHANGED intentVars
    BY <1>2 DEF RegisterLifecycle
  <2>2. /\ registered' = registered \cup {s} /\ generation' = [generation EXCEPT ![s] = 1]
        /\ state' = [state EXCEPT ![s] = Initializing] /\ incumbent' = [incumbent EXCEPT ![s] = None]
    BY <2>1, Zenon DEF Registered
  <2>3. QED
    BY <1>2, <2>1, <2>2 DEF SameAlgebra, Typed, Records
<1>3. QED
  BY <1>1, <1>2

\* Start's second check: the loser's child is torn down, the winner's installed.
LEMMA StartAdmitKeeps ==
    ASSUME Typed, RuntimeInv, NEW c \in Clients, StartAdmit(c)
    PROVE  RuntimeInv'
<1>0. PICK s \in Sessions, ch \in Children : s = client[c].session /\ ch = client[c].child
  BY ClientCall DEF StartAdmit
<1> USE DEF operationVars, taskVars, readinessVars
<1>1. /\ client[c].op = "admit" /\ client' = [client EXCEPT ![c] = Idle]
      /\ UNCHANGED <<readinessVars, operationVars, taskVars>>
  BY Zenon DEF StartAdmit
<1>2. client'[c].op = "idle" /\ \A d \in Clients \ {c} : client'[d] = client[d]
  BY <1>1 DEF Idle, Typed, Shape
<1>3. \A t \in Sessions : SameExchanges(t)
  BY <1>1, <1>2 DEF SameExchanges, Exchanges, Exchanging
<1>4. s \in Sessions /\ ch \in Children /\ ch \in 1..spawned /\ owner[ch] = None
  BY <1>0, <1>1 DEF RuntimeInv, StartsOK
<1>5. \A t \in Sessions : t # None
  BY RuntimeConstants
<1>6. CASE /\ \E r \in ReapOutcomes, p \in CloseOutcomes : TearDown(ch, r, p)
           /\ UNCHANGED <<lifecycleVars, recordVars>>
  <2>0. UNCHANGED <<lifecycleVars, recordVars>>
    BY <1>6
  <2> USE DEF lifecycleVars, sessionVars, intentVars, recordVars
  <2>1. PICK r \in ReapOutcomes, p \in CloseOutcomes : TearDown(ch, r, p)
    BY <1>6
  <2>2. /\ ChildrenOK'
        /\ UNCHANGED <<spawned, owner>>
        /\ \A x : childState[x] = "reaped" => childState'[x] = "reaped"
        /\ \A x \in Children \ {ch} : pipes'[x] = pipes[x] /\ childState'[x] = childState[x]
    BY <2>1, <1>4, TearDownChild DEF Typed, RuntimeInv
  <2>3. ASSUME NEW t \in Sessions PROVE At(t)'
    <3>1. SameChildren(t)
      BY <1>4, <1>5, <2>2 DEF SameChildren
    <3>2. QED
      BY <1>1, <1>3, <2>0, <2>2, <3>1, RecordFrame, AlgebraFrame, TasksFrame, BoundsFrame, UndisturbedKeeps DEF Undisturbed
  <2>4. StartsOK'
    BY <1>2, <2>2, StartsKept DEF RuntimeInv
  <2>5. QED
    BY <1>1, <2>0, <2>2, <2>3, <2>4, KnownKept DEF RuntimeInv
<1>7. CASE /\ CanStart(s)
           /\ IF s \in registered THEN UNCHANGED lifecycleVars
                                  ELSE RegisterLifecycle(s, 1, Initializing, FALSE)
           /\ sessions' = sessions \cup {s}
           /\ rgen' = [rgen EXCEPT ![s] = 1]
           /\ rstate' = [rstate EXCEPT ![s] = Initializing]
           /\ process' = [process EXCEPT ![s] = ch]
           /\ protocolOwned' = [protocolOwned EXCEPT ![s] = FALSE]
           /\ lifecycleOwned' = [lifecycleOwned EXCEPT ![s] = FALSE]
           /\ owner' = [owner EXCEPT ![ch] = s]
           /\ UNCHANGED <<spawned, childState, pipes>>
  <2>1. /\ UNCHANGED intentVars
        /\ registered' = registered \cup {s}
        /\ \A t \in Sessions \ {s} : SameAlgebra(t)
        /\ s \in registered => SameAlgebra(s)
        /\ s \notin registered => generation'[s] = 1 /\ state'[s] = Initializing /\ incumbent'[s] = None
    BY <1>4, <1>7, StartRegisters
  <2>2. UNCHANGED <<kind, outcome, target, nextIntent>>
    BY <2>1 DEF intentVars
  <2>3. s \notin sessions
    BY <1>7 DEF CanStart
  <2>4. /\ s \in sessions' /\ rgen'[s] = 1 /\ rstate'[s] = Initializing /\ process'[s] = ch
        /\ protocolOwned'[s] = FALSE /\ lifecycleOwned'[s] = FALSE
    BY <1>4, <1>7 DEF Typed, Shape, Flags
  <2>5. owner'[ch] = s /\ \A x \in Children \ {ch} : owner'[x] = owner[x]
    BY <1>4, <1>7 DEF Typed, Shape
  <2>6. ChildrenOK'
    <3>1. ~ (ch > spawned)
      BY <1>4 DEF Typed, Shape
    <3>2. QED
      BY <1>7, <2>5, <3>1 DEF RuntimeInv, ChildrenOK
  <2>7. StartsOK'
    <3>1. \A d \in Clients : client'[d].op = "admit" => /\ client'[d] = client[d] /\ client[d].child # ch
                                                        /\ client[d].child \in Children
      BY <1>0, <1>1, <1>2, ClientCall DEF RuntimeInv, StartsOK
    <3>2. QED
      BY <1>7, <2>5, <3>1 DEF RuntimeInv, StartsOK
  <2>8. ASSUME NEW t \in Sessions \ {s} PROVE At(t)'
    <3>1. SameChildren(t)
      BY <1>4, <1>5, <1>7, <2>5 DEF SameChildren
    <3>2. SameRecord(t)
      BY <1>1, <1>7, <2>4 DEF SameRecord, Typed, Shape, Flags
    <3>3. QED
      BY <1>1, <1>3, <1>7, <2>1, <2>2, <3>1, <3>2, TasksFrame, BoundsFrame, UndisturbedKeeps DEF Undisturbed
  <2>9. At(s)'
    <3>0. At(s)
      BY <1>4 DEF RuntimeInv
    <3>1. \A i \in Intents : ~ Holds(i, s) /\ ~ Holds(i, s)'
      BY <1>1, <2>3, <3>0 DEF At, HolderAt, Leased, Holds
    <3>2. \A d \in Clients : ~ Exchanges(d, s) /\ ~ Exchanges(d, s)'
      BY <1>3, <1>4, <2>3, <3>0 DEF At, ExchangeAt, Leased, SameExchanges
    <3>3. \A g \in Generations : ~ ReadinessPending(s, g)'
      BY <1>1, <2>3, <3>0 DEF At, ReadinessAt, Leased, ReadinessPending
    <3>4. state[s] # Ready
      BY <2>3, <3>0 DEF At, ReadyAt
    <3>5. nextIntent \in Nat /\ nextIntent' = nextIntent
      BY <2>2, LifecycleConstants DEF Typed, Records
    <3>6. GenerationAt(s)' /\ generation'[s] \in Nat \ {0}
      <4>1. CASE s \in registered
        BY <2>1, <3>0, <3>5, <4>1 DEF SameAlgebra, At, GenerationAt
      <4>2. CASE s \notin registered
        BY <2>1, <3>5, <4>2 DEF GenerationAt
      <4>3. QED
        BY <4>1, <4>2
    <3>7. SessionAt(s)'
      <4>1. 1 \in 1..generation'[s]
        BY <3>6
      <4>2. s \in registered' /\ ch \in 1..spawned'
        BY <1>4, <1>7, <2>1
      <4>3. QED
        BY <2>4, <2>5, <4>1, <4>2 DEF SessionAt
    <3>8. ExchangeAt(s)' /\ ReadinessAt(s)' /\ HolderAt(s)'
      BY <3>1, <3>2, <3>3 DEF ExchangeAt, ReadinessAt, HolderAt
    <3>9. IntentAt(s)'
      <4>1. CASE s \in registered
        BY <1>1, <2>1, <3>0, <4>1 DEF SameAlgebra, At, IntentAt
      <4>2. CASE s \notin registered
        BY <2>1, <4>2 DEF IntentAt
      <4>3. QED
        BY <4>1, <4>2
    <3>10. OverlapAt(s)'
      BY <1>7, <2>3, <2>4, <2>5, <3>0 DEF At, OverlapAt
    <3>11. ReadyAt(s)'
      <4>1. state'[s] # Ready
        BY <2>1, <3>4 DEF SameAlgebra, Initializing, Ready
      <4>2. QED
        BY <2>4, <4>1 DEF ReadyAt, Initializing, Ready
    <3>12. QED
      BY <3>6, <3>7, <3>8, <3>9, <3>10, <3>11 DEF At
  <2>10. QED
    BY <1>1, <2>2, <2>6, <2>7, <2>8, <2>9, KnownKept DEF RuntimeInv
<1>8. QED
  BY <1>0, <1>6, <1>7 DEF StartAdmit

\* The part of IntentAt and OverlapAt that the tasks of s decide.
LEMMA IntentKept ==
    ASSUME Typed, NEW s \in Sessions, IntentAt(s), SameTasks(s), incumbent'[s] = incumbent[s]
    PROVE  IntentAt(s)'
<1>1. CASE incumbent[s] # None
  <2>1. incumbent[s] \in Intents /\ Holds(incumbent[s], s)
    BY <1>1 DEF Typed, Records, IntentAt, Holds, Holding
  <2>2. SameTask(incumbent[s])
    BY <2>1 DEF SameTasks
  <2>3. QED
    BY <1>1, <2>2 DEF SameTask, IntentAt
<1>2. QED
  BY <1>1 DEF IntentAt

\* No child gets a second owner.
LEMMA OverlapKept ==
    ASSUME NEW s \in Sessions, OverlapAt(s), SameTasks(s), SameChildren(s),
           s \in sessions => s \in sessions', process'[s] = process[s]
    PROVE  OverlapAt(s)'
<1>1. \A i \in Intents : phase[i] = "install" /\ opSession[i] = s => SameTask(i)
  BY DEF SameTasks, Holds, Holding
<1>2. QED
  BY <1>1 DEF OverlapAt, SameChildren, SameTask

\* A handshake begins on a session whose lease is free.
LEMMA HandshakeBegins ==
    ASSUME Typed, RuntimeInv, NEW s \in Sessions, NEW g \in Nat, CanBeginReadiness(s, g), ReadinessBegins(s, g),
           UNCHANGED <<registered, generation, state, incumbent, nextIntent, sessions, rgen, rstate, process,
                       lifecycleOwned, spawned, owner, pipes, childState, client>>,
           \A t \in Sessions : SameTasks(t)
    PROVE  \A t \in Sessions : At(t)'
<1>1. /\ s \in sessions /\ rgen[s] = g /\ readiness[<<s, g>>] = "none" /\ ~ protocolOwned[s]
      /\ readiness' = [readiness EXCEPT ![<<s, g>>] = "pending"]
      /\ readinessChild' = [readinessChild EXCEPT ![<<s, g>>] = process[s]]
      /\ protocolOwned' = [protocolOwned EXCEPT ![s] = TRUE]
  BY DEF CanBeginReadiness, ReadinessBegins, LeaseFree
<1>2. At(s)
  BY DEF RuntimeInv
<1>3. g \in Generations
  BY <1>1, <1>2, LifecycleConstants DEF At, SessionAt, GenerationAt, Generations, Typed, Records
<1>4. /\ readiness'[<<s, g>>] = "pending" /\ readinessChild'[<<s, g>>] = process[s]
      /\ \A t \in Sessions, h \in Generations : t # s \/ h # g =>
            readiness'[<<t, h>>] = readiness[<<t, h>>] /\ readinessChild'[<<t, h>>] = readinessChild[<<t, h>>]
  BY <1>1, <1>3 DEF Typed, Shape
<1>5. protocolOwned'[s] = TRUE /\ \A t \in Sessions \ {s} : protocolOwned'[t] = protocolOwned[t]
  BY <1>1 DEF Typed, Flags
<1>6. ASSUME NEW t \in Sessions \ {s} PROVE At(t)'
  <2>1. SameRecord(t)
    BY <1>4, <1>5 DEF SameRecord
  <2>2. QED
    BY <2>1, AlgebraFrame, ChildrenFrame, ExchangesFrame, BoundsFrame, UndisturbedKeeps DEF Undisturbed
<1>7. At(s)'
  <2>1. \A i \in Intents : ~ Holds(i, s) /\ ~ Holds(i, s)'
    BY <1>1, <1>2 DEF At, HolderAt, Leased, SameTasks
  <2>2. \A c \in Clients : ~ Exchanges(c, s) /\ ~ Exchanges(c, s)'
    BY <1>1, <1>2 DEF At, ExchangeAt, Leased, Exchanges, Exchanging
  <2>3. \A h \in Generations : ReadinessPending(s, h)' => h = g
    BY <1>1, <1>2, <1>4 DEF At, ReadinessAt, Leased, ReadinessPending
  <2>4. GenerationAt(s)' /\ SessionAt(s)'
    BY <1>2, <2>1 DEF At, GenerationAt, SessionAt
  <2>5. ExchangeAt(s)' /\ HolderAt(s)'
    BY <2>1, <2>2 DEF ExchangeAt, HolderAt
  <2>6. ReadinessAt(s)'
    BY <1>1, <1>4, <1>5, <2>1, <2>3 DEF ReadinessAt, Leased
  <2>7. IntentAt(s)' /\ OverlapAt(s)'
    BY <1>2, IntentKept, OverlapKept, ChildrenFrame DEF At
  <2>8. ReadyAt(s)'
    BY <1>1, <1>2 DEF At, ReadyAt
  <2>9. QED
    BY <2>4, <2>5, <2>6, <2>7, <2>8 DEF At
<1>8. QED
  BY <1>6, <1>7

\* BeginReadiness by a client.
LEMMA BeginReadinessKeeps ==
    ASSUME Typed, RuntimeInv, NEW s \in Sessions, BeginReadiness(s)
    PROVE  RuntimeInv'
<1> USE DEF lifecycleVars, sessionVars, intentVars, operationVars, taskVars, childVars
<1>1. PICK g \in Nat : g = rgen[s]
  BY DEF Typed, Shape
<1>2. CanBeginReadiness(s, g) /\ ReadinessBegins(s, g)
  BY <1>1 DEF BeginReadiness
<1>3. UNCHANGED <<lifecycleVars, sessions, rgen, rstate, process, retired, lifecycleOwned, live,
                  operationVars, taskVars, childVars, client>>
  BY DEF BeginReadiness
<1>4. \A t \in Sessions : SameTasks(t)
  BY <1>3, TasksFrame
<1>5. \A t \in Sessions : At(t)'
  BY <1>2, <1>3, <1>4, HandshakeBegins
<1>6. QED
  BY <1>3, <1>5, ChildrenKept, StartsKept, KnownKept DEF RuntimeInv

\* The handshake fails: its child is torn down, and no other goroutine uses it.
LEMMA AbortReadinessKeeps ==
    ASSUME Typed, RuntimeInv, NEW s \in Sessions, NEW g \in Generations, AbortReadiness(s, g)
    PROVE  RuntimeInv'
<1> USE DEF lifecycleVars, sessionVars, intentVars, recordVars, operationVars, taskVars
<1>0. readiness[<<s, g>>] = "pending" /\ readiness' = [readiness EXCEPT ![<<s, g>>] = "aborted"]
  BY DEF AbortReadiness
<1>1. UNCHANGED <<lifecycleVars, recordVars, readinessChild, operationVars, taskVars, client>>
  BY DEF AbortReadiness
<1>2. At(s) /\ ReadinessPending(s, g)
  BY <1>0 DEF RuntimeInv, ReadinessPending
<1>3. /\ Leased(s) /\ rgen[s] = g /\ readinessChild[<<s, g>>] = process[s]
      /\ \A i \in Intents : ~ Holds(i, s)
  BY <1>2 DEF At, ReadinessAt
<1>4. PICK ch \in 1..spawned : ch = process[s] /\ owner[ch] = s
  BY <1>2, <1>3 DEF At, SessionAt, Leased
<1>5. PICK r \in ReapOutcomes, p \in CloseOutcomes : TearDown(ch, r, p)
  BY <1>3, <1>4 DEF AbortReadiness
<1>6. /\ ChildrenOK' /\ UNCHANGED <<spawned, owner>>
      /\ \A x : childState[x] = "reaped" => childState'[x] = "reaped"
      /\ \A x \in Children \ {ch} : pipes'[x] = pipes[x] /\ childState'[x] = childState[x]
  BY <1>5, TearDownChild DEF Typed, RuntimeInv
<1>7. /\ readiness'[<<s, g>>] = "aborted"
      /\ \A t \in Sessions, h \in Generations : t # s \/ h # g => readiness'[<<t, h>>] = readiness[<<t, h>>]
  BY <1>0 DEF Typed, Shape
<1>8. ASSUME NEW t \in Sessions \ {s} PROVE At(t)'
  <2>1. SameRecord(t)
    BY <1>1, <1>7 DEF SameRecord
  <2>2. SameChildren(t)
    BY <1>4, <1>6 DEF SameChildren
  <2>3. QED
    BY <1>1, <1>6, <2>1, <2>2, AlgebraFrame, TasksFrame, ExchangesFrame, BoundsFrame, UndisturbedKeeps DEF Undisturbed
<1>9. At(s)'
  <2>1. \A i \in Intents : ~ Holds(i, s)'
    BY <1>1, <1>3 DEF Holds
  <2>2. \A c \in Clients : ~ Exchanges(c, s)'
    BY <1>1, <1>2 DEF At, ExchangeAt, Exchanges, Exchanging
  <2>3. GenerationAt(s)' /\ SessionAt(s)' /\ IntentAt(s)'
    BY <1>1, <1>2, <1>6 DEF At, GenerationAt, SessionAt, IntentAt, Holds
  <2>4. ExchangeAt(s)' /\ HolderAt(s)'
    BY <2>1, <2>2 DEF ExchangeAt, HolderAt
  <2>5. ReadinessAt(s)'
    <3>1. \A h \in Generations : ReadinessPending(s, h)' => h = g
      BY <1>2, <1>3, <1>7 DEF At, ReadinessAt, ReadinessPending
    <3>2. QED
      BY <1>1, <1>3, <2>1, <3>1 DEF ReadinessAt, Leased
  <2>6. OverlapAt(s)'
    BY <1>1, <1>2, <1>6 DEF At, OverlapAt
  <2>7. ReadyAt(s)'
    BY <1>0, <1>1, <1>2, <1>3 DEF At, ReadyAt, Leased
  <2>8. QED
    BY <2>3, <2>4, <2>5, <2>6, <2>7 DEF At
<1>10. StartsOK'
  BY <1>1, <1>6, StartsKept DEF RuntimeInv
<1>11. QED
  BY <1>1, <1>6, <1>8, <1>9, <1>10, KnownKept DEF RuntimeInv

\* finishReadiness: the session is present and of the handshake's generation.
LEMMA FinishReadinessKeeps ==
    ASSUME Typed, RuntimeInv, NEW s \in Sessions, NEW g \in Generations, FinishReadiness(s, g)
    PROVE  RuntimeInv'
<1> USE DEF intentVars, operationVars, taskVars, childVars
<1>0. PICK ok \in BOOLEAN : ok <=> readiness[<<s, g>>] = "pending"
  OBVIOUS
<1>1. /\ ReadinessPending(s, g)
      /\ ok => childState[readinessChild[<<s, g>>]] = "running"
      /\ readiness' = [readiness EXCEPT ![<<s, g>>] = IF ok THEN "ready" ELSE "failed"]
  BY <1>0 DEF FinishReadiness
<1>2. At(s)
  BY DEF RuntimeInv
<1>3. /\ Leased(s) /\ rgen[s] = g /\ readinessChild[<<s, g>>] = process[s]
      /\ \A i \in Intents : ~ Holds(i, s)
  BY <1>1, <1>2 DEF At, ReadinessAt
<1>4. /\ protocolOwned' = [protocolOwned EXCEPT ![s] = FALSE]
      /\ rstate' = [rstate EXCEPT ![s] = state'[s]]
      /\ \/ generation[s] = g /\ ObserveInitialization(s, ok)
         \/ UNCHANGED lifecycleVars
  BY <1>0, <1>3 DEF FinishReadiness, Leased
<1>5. UNCHANGED <<sessions, rgen, process, lifecycleOwned, readinessChild, operationVars, taskVars, childVars, client>>
  BY DEF FinishReadiness
<1>6. /\ UNCHANGED <<registered, generation, incumbent, kind, outcome, target, nextIntent>>
      /\ \/ UNCHANGED state
         \/ /\ generation[s] = g /\ incumbent[s] = None
            /\ state' = [state EXCEPT ![s] = IF ok THEN Ready ELSE Poisoned]
  BY <1>4 DEF ObserveInitialization, lifecycleVars, sessionVars
<1>7. \A t \in Sessions \ {s} : state'[t] = state[t]
  BY <1>6 DEF Typed, Records
<1>8. /\ readiness'[<<s, g>>] = (IF ok THEN "ready" ELSE "failed")
      /\ \A t \in Sessions, h \in Generations : t # s \/ h # g => readiness'[<<t, h>>] = readiness[<<t, h>>]
  BY <1>1 DEF Typed, Shape
<1>9. /\ rstate'[s] = state'[s]
      /\ \A t \in Sessions \ {s} : protocolOwned'[t] = protocolOwned[t] /\ rstate'[t] = rstate[t]
  BY <1>4 DEF Typed, Shape, Flags
<1>10. ASSUME NEW t \in Sessions \ {s} PROVE At(t)'
  <2>1. SameRecord(t)
    BY <1>5, <1>8, <1>9 DEF SameRecord
  <2>2. SameAlgebra(t)
    BY <1>6, <1>7 DEF SameAlgebra
  <2>3. QED
    BY <1>5, <1>6, <2>1, <2>2, ChildrenFrame, TasksFrame, ExchangesFrame, BoundsFrame, UndisturbedKeeps DEF Undisturbed
<1>11. At(s)'
  <2>1. \A i \in Intents : ~ Holds(i, s)'
    BY <1>3, <1>5 DEF Holds
  <2>2. \A c \in Clients : ~ Exchanges(c, s)'
    BY <1>1, <1>2, <1>5 DEF At, ExchangeAt, Exchanges, Exchanging
  <2>3. \A h \in Generations : ~ ReadinessPending(s, h)'
    <3>1. readiness'[<<s, g>>] \in {"ready", "failed"}
      BY <1>8
    <3>2. QED
      BY <1>2, <1>3, <1>8, <3>1 DEF At, ReadinessAt, ReadinessPending
  <2>4. GenerationAt(s)' /\ SessionAt(s)' /\ IntentAt(s)'
    BY <1>2, <1>5, <1>6 DEF At, GenerationAt, SessionAt, IntentAt, Holds
  <2>5. ExchangeAt(s)' /\ HolderAt(s)' /\ ReadinessAt(s)'
    BY <2>1, <2>2, <2>3 DEF ExchangeAt, HolderAt, ReadinessAt
  <2>6. OverlapAt(s)'
    BY <1>2, <1>5 DEF At, OverlapAt
  <2>7. ReadyAt(s)'
    <3>1. state[s] # Ready
      BY <1>1, <1>2, <1>3 DEF At, ReadyAt, ReadinessPending
    <3>2. state'[s] = Ready => ok /\ generation[s] = g /\ incumbent[s] = None
      BY <1>6, <3>1 DEF Typed, Records, Ready, Poisoned
    <3>3. ok => pipes[process[s]] = "open"
      <4>1. process[s] \in Children
        BY <1>2, <1>3, RuntimeConstants DEF At, SessionAt, Leased, Children, Typed, Shape
      <4>2. QED
        BY <1>1, <1>3, <4>1 DEF RuntimeInv, ChildrenOK
    <3>4. ok => readiness'[<<s, g>>] = "ready"
      BY <1>8
    <3>5. s \in sessions
      BY <1>3 DEF Leased
    <3>6. QED
      BY <1>3, <1>5, <1>6, <1>9, <3>2, <3>3, <3>4, <3>5 DEF ReadyAt
  <2>8. QED
    BY <2>4, <2>5, <2>6, <2>7 DEF At
<1>12. StartsOK' /\ ChildrenOK' /\ \A i \in Intents : Known(i)'
  BY <1>5, <1>6, StartsKept, ChildrenKept, KnownKept DEF RuntimeInv
<1>13. QED
  BY <1>10, <1>11, <1>12 DEF RuntimeInv

\* An exchange begins on a READY session whose lease is free.
LEMMA BeginExchangeKeeps ==
    ASSUME Typed, RuntimeInv, NEW c \in Clients, NEW s \in Sessions, NEW document \in BOOLEAN, BeginExchange(c, s, document)
    PROVE  RuntimeInv'
<1> USE DEF lifecycleVars, sessionVars, intentVars, readinessVars, operationVars, taskVars, childVars
<1>1. UNCHANGED <<lifecycleVars, sessions, rgen, rstate, process, retired, lifecycleOwned, live,
                  readinessVars, operationVars, taskVars, childVars>>
  BY DEF BeginExchange
<1>2. client[c].op = "idle" /\ s \in sessions /\ rstate[s] = Ready /\ ~ protocolOwned[s]
  BY DEF BeginExchange, Idle, LeaseFree
<1>3. /\ client'[c] = [op |-> "io", session |-> s, generation |-> rgen[s], child |-> process[s]]
      /\ \A d \in Clients \ {c} : client'[d] = client[d]
  BY DEF BeginExchange, Typed, Shape
<1>4. /\ client'[c].op = "io" /\ client'[c].session = s
      /\ client'[c].generation = rgen[s] /\ client'[c].child = process[s]
  BY <1>3
<1>5. protocolOwned'[s] = TRUE /\ \A t \in Sessions \ {s} : protocolOwned'[t] = protocolOwned[t]
  BY DEF BeginExchange, Typed, Flags
<1>6. At(s)
  BY DEF RuntimeInv
<1>7. ASSUME NEW t \in Sessions \ {s} PROVE At(t)'
  <2>1. SameRecord(t)
    BY <1>1, <1>5 DEF SameRecord
  <2>2. SameExchanges(t)
    BY <1>2, <1>3, <1>4 DEF SameExchanges, Exchanges, Exchanging
  <2>3. QED
    BY <1>1, <2>1, <2>2, AlgebraFrame, ChildrenFrame, TasksFrame, BoundsFrame, UndisturbedKeeps DEF Undisturbed
<1>8. At(s)'
  <2>1. \A i \in Intents : ~ Holds(i, s) /\ ~ Holds(i, s)'
    BY <1>1, <1>2, <1>6 DEF At, HolderAt, Leased, Holds
  <2>2. \A d \in Clients : ~ Exchanges(d, s) /\ (Exchanges(d, s)' => d = c)
    BY <1>2, <1>3, <1>6 DEF At, ExchangeAt, Leased, Exchanges, Exchanging
  <2>3. \A h \in Generations : ~ ReadinessPending(s, h) /\ ~ ReadinessPending(s, h)'
    BY <1>1, <1>2, <1>6 DEF At, ReadinessAt, Leased, ReadinessPending
  <2>4. pipes[process[s]] = "open"
    BY <1>2, <1>6, <2>1, <2>2 DEF At, ReadyAt
  <2>5. GenerationAt(s)' /\ SessionAt(s)' /\ IntentAt(s)'
    BY <1>1, <1>6 DEF At, GenerationAt, SessionAt, IntentAt, Holds
  <2>6. ExchangeAt(s)'
    BY <1>1, <1>2, <1>4, <1>5, <2>1, <2>2, <2>3, <2>4 DEF ExchangeAt, Leased
  <2>7. ReadinessAt(s)' /\ HolderAt(s)'
    BY <2>1, <2>3 DEF ReadinessAt, HolderAt
  <2>8. OverlapAt(s)'
    BY <1>1, <1>6 DEF At, OverlapAt
  <2>9. ReadyAt(s)'
    BY <1>1, <1>6, <2>1, <2>4 DEF At, ReadyAt
  <2>10. QED
    BY <2>5, <2>6, <2>7, <2>8, <2>9 DEF At
<1>9. StartsOK' /\ ChildrenOK' /\ \A i \in Intents : Known(i)'
  BY <1>1, <1>3, <1>4, StartsKept, ChildrenKept, KnownKept DEF RuntimeInv
<1>10. QED
  BY <1>7, <1>8, <1>9 DEF RuntimeInv

\* The answer arrives.
LEMMA AnswerExchangeKeeps ==
    ASSUME Typed, RuntimeInv, NEW c \in Clients, AnswerExchange(c)
    PROVE  RuntimeInv'
<1> USE DEF lifecycleVars, sessionVars, intentVars, recordVars, readinessVars, operationVars, taskVars, childVars
<1>1. UNCHANGED <<lifecycleVars, recordVars, readinessVars, operationVars, taskVars, childVars>>
  BY DEF AnswerExchange
<1>2. client[c].op = "io" /\ client' = [client EXCEPT ![c] = [client[c] EXCEPT !.op = "answered"]]
  BY DEF AnswerExchange
<1>3. client[c] \in Exchange
  BY <1>2 DEF Typed, Shape, Idle, StartCall, Exchange
<1>4. PICK s \in Sessions : s = client[c].session
  BY <1>3 DEF Exchange
<1>5. /\ client'[c].op = "answered" /\ client'[c].session = s
      /\ client'[c].generation = client[c].generation /\ client'[c].child = client[c].child
  BY <1>2, <1>3, <1>4 DEF Typed, Shape, Exchange
<1>6. \A d \in Clients \ {c} : client'[d] = client[d]
  BY <1>2 DEF Typed, Shape
<1>7. ASSUME NEW t \in Sessions \ {s} PROVE At(t)'
  <2>1. SameExchanges(t)
    BY <1>4, <1>5, <1>6 DEF SameExchanges, Exchanges, Exchanging
  <2>2. QED
    BY <1>1, <2>1, RecordFrame, AlgebraFrame, ChildrenFrame, TasksFrame, BoundsFrame, UndisturbedKeeps DEF Undisturbed
<1>8. At(s)'
  <2>0. At(s)
    BY DEF RuntimeInv
  <2>1. \A d \in Clients : Exchanges(d, s)' <=> Exchanges(d, s)
    BY <1>2, <1>4, <1>5, <1>6 DEF Exchanges, Exchanging
  <2>2. \A i \in Intents : Holds(i, s)' <=> Holds(i, s)
    BY <1>1 DEF Holds
  <2>3. GenerationAt(s)' /\ SessionAt(s)' /\ IntentAt(s)'
    BY <1>1, <2>0 DEF At, GenerationAt, SessionAt, IntentAt, Holds
  <2>4. ExchangeAt(s)'
    <3>1. \A h \in Generations : ReadinessPending(s, h)' <=> ReadinessPending(s, h)
      BY <1>1 DEF ReadinessPending
    <3>2. QED
      BY <1>1, <1>2, <1>5, <1>6, <2>0, <2>1, <2>2, <3>1 DEF At, ExchangeAt, Leased
  <2>5. ReadinessAt(s)' /\ HolderAt(s)'
    BY <1>1, <2>0 DEF At, ReadinessAt, HolderAt, ReadinessPending, Holds, Leased, Teardown, Succession, Reaped
  <2>6. OverlapAt(s)'
    BY <1>1, <2>0 DEF At, OverlapAt
  <2>7. ReadyAt(s)'
    <3>1. \A d \in Clients : client[d].op = "retired" => client'[d].op = "retired"
      BY <1>2, <1>6
    <3>2. QED
      BY <1>1, <2>0, <2>1, <2>2, <3>1 DEF At, ReadyAt
  <2>8. QED
    BY <2>3, <2>4, <2>5, <2>6, <2>7 DEF At
<1>9. StartsOK' /\ ChildrenOK' /\ \A i \in Intents : Known(i)'
  BY <1>1, <1>5, <1>6, StartsKept, ChildrenKept, KnownKept DEF RuntimeInv
<1>10. QED
  BY <1>7, <1>8, <1>9 DEF RuntimeInv

\* The exchange fails: its child is torn down while the client still has the lease.
LEMMA RetireExchangeKeeps ==
    ASSUME Typed, RuntimeInv, NEW c \in Clients, RetireExchange(c)
    PROVE  RuntimeInv'
<1> USE DEF lifecycleVars, sessionVars, intentVars, recordVars, readinessVars, operationVars, taskVars
<1>1. UNCHANGED <<lifecycleVars, recordVars, readinessVars, operationVars, taskVars>>
  BY DEF RetireExchange
<1>2. client[c].op = "io" /\ client' = [client EXCEPT ![c] = [client[c] EXCEPT !.op = "retired"]]
  BY DEF RetireExchange
<1>3. client[c] \in Exchange
  BY <1>2 DEF Typed, Shape, Idle, StartCall, Exchange
<1>4. PICK s \in Sessions : s = client[c].session
  BY <1>3 DEF Exchange
<1>5. /\ client'[c].op = "retired" /\ client'[c].session = s
      /\ client'[c].generation = client[c].generation /\ client'[c].child = client[c].child
  BY <1>2, <1>3, <1>4 DEF Typed, Shape, Exchange
<1>6. \A d \in Clients \ {c} : client'[d] = client[d]
  BY <1>2 DEF Typed, Shape
<1>7. At(s) /\ Exchanges(c, s)
  BY <1>2, <1>4 DEF RuntimeInv, Exchanges, Exchanging
<1>8. /\ Leased(s) /\ client[c].child = process[s]
      /\ \A d \in Clients : Exchanges(d, s) => d = c
      /\ \A g \in Generations : ~ ReadinessPending(s, g)
      /\ \A i \in Intents : ~ Holds(i, s)
  BY <1>7 DEF At, ExchangeAt
<1>9. PICK ch \in 1..spawned : ch = process[s] /\ owner[ch] = s
  BY <1>7, <1>8 DEF At, SessionAt, Leased
<1>10. PICK r \in ReapOutcomes, p \in CloseOutcomes : TearDown(ch, r, p)
  BY <1>8, <1>9 DEF RetireExchange
<1>11. /\ ChildrenOK' /\ UNCHANGED <<spawned, owner>>
       /\ \A x : childState[x] = "reaped" => childState'[x] = "reaped"
       /\ \A x \in Children \ {ch} : pipes'[x] = pipes[x] /\ childState'[x] = childState[x]
  BY <1>10, TearDownChild DEF Typed, RuntimeInv
<1>12. ASSUME NEW t \in Sessions \ {s} PROVE At(t)'
  <2>1. SameExchanges(t)
    BY <1>4, <1>5, <1>6 DEF SameExchanges, Exchanges, Exchanging
  <2>2. SameChildren(t)
    BY <1>9, <1>11 DEF SameChildren
  <2>3. QED
    BY <1>1, <1>11, <2>1, <2>2, RecordFrame, AlgebraFrame, TasksFrame, BoundsFrame, UndisturbedKeeps DEF Undisturbed
<1>13. At(s)'
  <2>1. \A d \in Clients : Exchanges(d, s)' <=> d = c
    BY <1>4, <1>5, <1>6, <1>8 DEF Exchanges, Exchanging
  <2>2. \A i \in Intents : ~ Holds(i, s)'
    BY <1>1, <1>8 DEF Holds
  <2>3. \A g \in Generations : ~ ReadinessPending(s, g)'
    BY <1>1, <1>8 DEF ReadinessPending
  <2>4. GenerationAt(s)' /\ SessionAt(s)' /\ IntentAt(s)'
    BY <1>1, <1>7, <1>11 DEF At, GenerationAt, SessionAt, IntentAt, Holds
  <2>5. ExchangeAt(s)'
    BY <1>1, <1>5, <1>7, <1>8, <2>1, <2>2, <2>3 DEF At, ExchangeAt, Leased
  <2>6. ReadinessAt(s)' /\ HolderAt(s)'
    BY <2>2, <2>3 DEF ReadinessAt, HolderAt
  <2>7. OverlapAt(s)'
    BY <1>1, <1>7, <1>11 DEF At, OverlapAt
  <2>8. ReadyAt(s)'
    BY <1>1, <1>5, <1>7, <1>8, <2>1 DEF At, ReadyAt
  <2>9. QED
    BY <2>4, <2>5, <2>6, <2>7, <2>8 DEF At
<1>14. StartsOK' /\ \A i \in Intents : Known(i)'
  BY <1>1, <1>5, <1>6, <1>11, StartsKept, KnownKept DEF RuntimeInv
<1>15. QED
  BY <1>11, <1>12, <1>13, <1>14 DEF RuntimeInv

\* finishRoundTrip: the record is the one the exchange was begun on.
LEMMA FinishExchangeKeeps ==
    ASSUME Typed, RuntimeInv, NEW c \in Clients, FinishExchange(c)
    PROVE  RuntimeInv'
<1> USE DEF lifecycleVars, sessionVars, intentVars, readinessVars, operationVars, taskVars, childVars
<1>1. UNCHANGED <<lifecycleVars, sessions, rgen, process, lifecycleOwned, live, readinessVars,
                  operationVars, taskVars, childVars>>
  BY DEF FinishExchange
<1>2. client[c].op \in {"answered", "retired"} /\ client' = [client EXCEPT ![c] = Idle]
  BY DEF FinishExchange
<1>3. PICK s \in Sessions : s = client[c].session
  BY <1>2, ClientCall DEF Exchanging
<1>4. client'[c].op = "idle" /\ \A d \in Clients \ {c} : client'[d] = client[d]
  BY <1>2 DEF Typed, Shape, Idle
<1>5. At(s) /\ Exchanges(c, s)
  BY <1>2, <1>3 DEF RuntimeInv, Exchanges, Exchanging
<1>6. /\ Leased(s) /\ client[c].generation = rgen[s] /\ client[c].child = process[s]
      /\ client[c].op # "retired" => pipes[process[s]] = "open"
      /\ \A d \in Clients : Exchanges(d, s) => d = c
      /\ \A g \in Generations : ~ ReadinessPending(s, g)
      /\ \A i \in Intents : ~ Holds(i, s)
  BY <1>5 DEF At, ExchangeAt
<1>7. /\ protocolOwned' = [protocolOwned EXCEPT ![s] = FALSE]
      /\ rstate' = [rstate EXCEPT ![s] = IF client[c].op = "retired" THEN Poisoned ELSE rstate[s]]
  BY <1>3, <1>6 DEF FinishExchange, Leased, StateAfterExchange
<1>8. /\ rstate'[s] = (IF client[c].op = "retired" THEN Poisoned ELSE rstate[s])
      /\ \A t \in Sessions \ {s} : protocolOwned'[t] = protocolOwned[t] /\ rstate'[t] = rstate[t]
  BY <1>7 DEF Typed, Flags, Shape
<1>9. ASSUME NEW t \in Sessions \ {s} PROVE At(t)'
  <2>1. SameRecord(t)
    BY <1>1, <1>8 DEF SameRecord
  <2>2. SameExchanges(t)
    BY <1>3, <1>4 DEF SameExchanges, Exchanges, Exchanging
  <2>3. QED
    BY <1>1, <2>1, <2>2, AlgebraFrame, ChildrenFrame, TasksFrame, BoundsFrame, UndisturbedKeeps DEF Undisturbed
<1>10. At(s)'
  <2>1. \A d \in Clients : ~ Exchanges(d, s)'
    BY <1>3, <1>4, <1>6 DEF Exchanges, Exchanging
  <2>2. \A i \in Intents : ~ Holds(i, s)'
    BY <1>1, <1>6 DEF Holds
  <2>3. \A g \in Generations : ~ ReadinessPending(s, g)'
    BY <1>1, <1>6 DEF ReadinessPending
  <2>4. GenerationAt(s)' /\ SessionAt(s)' /\ IntentAt(s)'
    BY <1>1, <1>5 DEF At, GenerationAt, SessionAt, IntentAt, Holds
  <2>5. ExchangeAt(s)' /\ ReadinessAt(s)' /\ HolderAt(s)'
    BY <2>1, <2>2, <2>3 DEF ExchangeAt, ReadinessAt, HolderAt
  <2>6. OverlapAt(s)'
    BY <1>1, <1>5 DEF At, OverlapAt
  <2>7. ReadyAt(s)'
    <3>1. rstate'[s] = Ready => rstate[s] = Ready /\ pipes[process[s]] = "open"
      BY <1>6, <1>8 DEF Ready, Poisoned
    <3>2. QED
      BY <1>1, <1>5, <1>6, <3>1 DEF At, ReadyAt
  <2>8. QED
    BY <2>4, <2>5, <2>6, <2>7 DEF At
<1>11. StartsOK' /\ ChildrenOK' /\ \A i \in Intents : Known(i)'
  BY <1>1, <1>4, StartsKept, ChildrenKept, KnownKept DEF RuntimeInv
<1>12. QED
  BY <1>9, <1>10, <1>11 DEF RuntimeInv

\* A step of task i of session s leaves the tasks of other sessions alone.
LEMMA TasksElsewhere ==
    ASSUME NEW i \in Intents, NEW s, NEW t, t # s, phase[i] = "none" \/ opSession[i] = s, opSession'[i] = s,
           \A j \in Intents \ {i} : SameTask(j)
    PROVE  SameTasks(t)
BY DEF SameTasks, SameTask, Holds, Holding

\* terminate: no task has the lease yet, and none of the goroutines that had it is left.
LEMMA TerminateKeeps ==
    ASSUME Typed, RuntimeInv, NEW s \in Sessions, NEW c \in Callers, NEW k \in {"STOP", "RESTART"}, Terminate(s, c, k)
    PROVE  RuntimeInv'
<1> USE DEF readinessVars, childVars
<1>0. PICK i \in Intents : i = nextIntent + 1 /\ nextIntent \in Nat /\ nextIntent' = i
  BY LifecycleConstants DEF Terminate, Insert, NewIntent, Typed, Records, Intents
<1>1. /\ MayTerminate(s) /\ rgen[s] = generation[s] /\ Insertable(s, k) /\ TerminateWorker(s, c, i)
      /\ UNCHANGED <<sessions, rgen, rstate, process, readinessVars, childVars, client>>
  BY <1>0 DEF Terminate, Insert
<1>2. /\ kind' = [kind EXCEPT ![i] = k] /\ target' = [target EXCEPT ![i] = generation[s]]
      /\ incumbent' = [incumbent EXCEPT ![s] = i]
      /\ UNCHANGED <<outcome, registered, generation>>
      /\ state' = [state EXCEPT ![s] = lifecycleIntentState(@, TRUE, FALSE)]
  BY <1>0 DEF Terminate, Insert, NewIntent
<1>3. /\ opSession' = [opSession EXCEPT ![i] = s]
      /\ protocolOwned' = [protocolOwned EXCEPT ![s] = TRUE]
      /\ lifecycleOwned' = [lifecycleOwned EXCEPT ![s] = TRUE]
      /\ phase' = [phase EXCEPT ![i] = "teardown"]
      /\ taskChild' = [taskChild EXCEPT ![i] = process[s]]
      /\ UNCHANGED taskGap
  BY <1>1, Zenon DEF TerminateWorker
<1>4. s \in sessions /\ (protocolOwned[s] => lifecycleOwned[s]) /\ s \in registered /\ incumbent[s] = None
  BY <1>1 DEF MayTerminate, Insertable
<1>5. At(s)
  BY DEF RuntimeInv
<1>6. \A j \in Intents : ~ Holds(j, s)
  <2>1. ASSUME NEW j \in Intents, Holds(j, s) PROVE FALSE
    <3>1. rgen[s] = target[j] /\ Teardown(j, s) /\ Succession(j, s)
      BY <1>5, <2>1 DEF At, HolderAt
    <3>2. target[j] # target[j] + 1
      BY DEF Typed, Records
    <3>3. phase[j] \notin {"teardown", "complete"}
      BY <1>0, <1>4, <3>1, LifecycleConstants DEF Teardown
    <3>4. phase[j] \notin {"spawn", "install"}
      BY <1>1, <3>1, <3>2 DEF Succession
    <3>5. QED
      BY <2>1, <3>3, <3>4 DEF Holds, Holding
  <2>2. QED
    BY <2>1
<1>7. ~ lifecycleOwned[s] /\ ~ protocolOwned[s]
  BY <1>1, <1>4, <1>5, <1>6 DEF At, SessionAt
<1>8. \A d \in Clients : ~ Exchanges(d, s) /\ ~ Exchanges(d, s)'
  BY <1>1, <1>5, <1>7 DEF At, ExchangeAt, Leased, Exchanges, Exchanging
<1>9. \A g \in Generations : ~ ReadinessPending(s, g) /\ ~ ReadinessPending(s, g)'
  BY <1>1, <1>5, <1>7 DEF At, ReadinessAt, Leased, ReadinessPending
<1>10. phase[i] = "none"
  <2>1. ~ (i <= nextIntent)
    BY <1>0
  <2>2. QED
    BY <2>1 DEF RuntimeInv, Known
<1>11. /\ phase'[i] = "teardown" /\ opSession'[i] = s /\ taskChild'[i] = process[s] /\ target'[i] = generation[s]
       /\ kind'[i] = k
       /\ \A j \in Intents \ {i} : SameTask(j) /\ kind'[j] = kind[j]
  BY <1>2, <1>3 DEF SameTask, Typed, Shape, Records
<1>12. protocolOwned'[s] = TRUE /\ lifecycleOwned'[s] = TRUE /\ incumbent'[s] = i
  BY <1>2, <1>3 DEF Typed, Flags, Records
<1>13. state'[s] # Ready
  BY <1>2 DEF Typed, Records, lifecycleIntentState, Starting, Initializing, Ready, Stopping
<1>14. spawned <= spawned' /\ nextIntent <= nextIntent' /\ spawned' \in Nat /\ nextIntent' \in Nat
  <2>1. spawned \in Nat /\ spawned' = spawned
    BY <1>1, RuntimeConstants DEF Typed, Shape
  <2>2. QED
    BY <1>0, <2>1
<1>15. ASSUME NEW t \in Sessions \ {s} PROVE At(t)'
  <2>1. SameRecord(t)
    BY <1>1, <1>3 DEF SameRecord, Typed, Flags
  <2>2. SameAlgebra(t)
    BY <1>2 DEF SameAlgebra, Typed, Records
  <2>3. SameTasks(t)
    BY <1>10, <1>11, TasksElsewhere
  <2>4. SameChildren(t) /\ SameExchanges(t)
    BY <1>1, ChildrenFrame, ExchangesFrame
  <2>5. QED
    BY <1>14, <2>1, <2>2, <2>3, <2>4, UndisturbedKeeps DEF Undisturbed
<1>16. At(s)'
  <2>1. \A j \in Intents : Holds(j, s)' <=> j = i
    BY <1>6, <1>11 DEF Holds, Holding, SameTask
  <2>2. GenerationAt(s)'
    BY <1>0, <1>2, <1>4, <1>5 DEF At, GenerationAt
  <2>3. SessionAt(s)'
    BY <1>1, <1>2, <1>5, <2>1 DEF At, SessionAt
  <2>4. ExchangeAt(s)' /\ ReadinessAt(s)'
    BY <1>8, <1>9 DEF ExchangeAt, ReadinessAt
  <2>5. HolderAt(s)'
    <3>1. Teardown(i, s)' /\ Succession(i, s)'
      BY <1>1, <1>2, <1>11, <1>12 DEF Teardown, Succession
    <3>2. Leased(s)' /\ lifecycleOwned'[s] /\ rgen'[s] = target'[i]
      BY <1>1, <1>4, <1>11, <1>12 DEF Leased
    <3>3. QED
      BY <2>1, <3>1, <3>2 DEF HolderAt
  <2>6. IntentAt(s)'
    BY <1>11, <1>12 DEF IntentAt
  <2>7. OverlapAt(s)'
    <3>1. \A j \in Intents : ~ (phase[j] = "install" /\ opSession[j] = s)
      BY <1>6 DEF Holds, Holding
    <3>2. QED
      BY <1>1, <1>5, <3>1 DEF At, OverlapAt
  <2>8. ReadyAt(s)'
    BY <1>1, <1>5, <1>13, <2>1 DEF At, ReadyAt
  <2>9. QED
    BY <2>2, <2>3, <2>4, <2>5, <2>6, <2>7, <2>8 DEF At
<1>17. ASSUME NEW j \in Intents PROVE Known(j)'
  <2>1. CASE j = i
    <3>1. i <= nextIntent'
      BY <1>0
    <3>2. QED
      BY <1>11, <2>1, <3>1 DEF Known
  <2>2. CASE j # i
    <3>1. j <= nextIntent => j <= nextIntent'
      BY <1>0 DEF Intents
    <3>2. QED
      BY <1>2, <1>11, <2>2, <3>1 DEF RuntimeInv, Known, SameTask
  <2>3. QED
    BY <2>1, <2>2
<1>18. StartsOK' /\ ChildrenOK'
  BY <1>1, StartsKept, ChildrenKept DEF RuntimeInv
<1>19. QED
  BY <1>15, <1>16, <1>17, <1>18 DEF RuntimeInv

\* What a task that has the lease knows of its session.
LEMMA HolderFacts ==
    ASSUME Typed, RuntimeInv, NEW i \in Intents, phase[i] \in Holding
    PROVE  \E s \in Sessions :
              /\ s = opSession[i] /\ Holds(i, s) /\ At(s) /\ Leased(s) /\ lifecycleOwned[s] /\ rgen[s] = target[i]
              /\ Teardown(i, s) /\ Succession(i, s)
              /\ \A j \in Intents : Holds(j, s) => j = i
              /\ \A c \in Clients : ~ Exchanges(c, s)
              /\ \A g \in Generations : ~ ReadinessPending(s, g)
              /\ s \in sessions /\ process[s] \in 1..spawned /\ process[s] \in Children /\ owner[process[s]] = s
<1>1. opSession[i] \in Sessions
  BY DEF RuntimeInv, Known, Holding
<1>2. At(opSession[i]) /\ Holds(i, opSession[i])
  BY <1>1 DEF RuntimeInv, Holds
<1>3. /\ Leased(opSession[i]) /\ lifecycleOwned[opSession[i]] /\ rgen[opSession[i]] = target[i]
      /\ Teardown(i, opSession[i]) /\ Succession(i, opSession[i])
      /\ \A j \in Intents : Holds(j, opSession[i]) => j = i
  BY <1>2 DEF At, HolderAt
<1>4. /\ \A c \in Clients : ~ Exchanges(c, opSession[i])
      /\ \A g \in Generations : ~ ReadinessPending(opSession[i], g)
  BY <1>2 DEF At, ExchangeAt, ReadinessAt
<1>5. opSession[i] \in sessions /\ process[opSession[i]] \in 1..spawned /\ owner[process[opSession[i]]] = opSession[i]
  BY <1>2, <1>3 DEF At, SessionAt, Leased
<1>6. process[opSession[i]] \in Children
  BY <1>5, RuntimeConstants DEF Typed, Shape, Children
<1>7. QED
  BY <1>1, <1>2, <1>3, <1>4, <1>5, <1>6

\* gracefulShutdown, Teardown and Close: complete evidence means a reaped child.
LEMMA TeardownTaskKeeps ==
    ASSUME Typed, RuntimeInv, NEW i \in Intents, TeardownTask(i)
    PROVE  RuntimeInv'
<1> USE DEF lifecycleVars, sessionVars, intentVars, recordVars, readinessVars, operationVars
<1>1. /\ UNCHANGED <<lifecycleVars, recordVars, readinessVars, operationVars, taskChild, client>>
      /\ phase[i] = "teardown" /\ phase' = [phase EXCEPT ![i] = "complete"]
  BY DEF TeardownTask
<1>2. PICK s \in Sessions :
         /\ s = opSession[i] /\ Holds(i, s) /\ At(s) /\ Leased(s) /\ lifecycleOwned[s] /\ rgen[s] = target[i]
         /\ Teardown(i, s) /\ Succession(i, s)
         /\ \A j \in Intents : Holds(j, s) => j = i
         /\ \A c \in Clients : ~ Exchanges(c, s)
         /\ \A g \in Generations : ~ ReadinessPending(s, g)
         /\ s \in sessions /\ process[s] \in 1..spawned /\ process[s] \in Children /\ owner[process[s]] = s
  BY <1>1, HolderFacts DEF Holding
<1>3. PICK ch \in 1..spawned : ch = taskChild[i] /\ ch = process[s] /\ owner[ch] = s /\ ch \in Children
  BY <1>1, <1>2 DEF Teardown
<1>4. /\ ChildrenOK' /\ UNCHANGED <<spawned, owner>>
      /\ \A x : childState[x] = "reaped" => childState'[x] = "reaped"
      /\ \A x \in Children \ {ch} : pipes'[x] = pipes[x] /\ childState'[x] = childState[x]
      /\ \E shutdown \in BOOLEAN : taskGap' = [taskGap EXCEPT ![i] = Evidence(shutdown, pipes'[ch], childState'[ch])]
  <2>1. CASE taskRetired[i]
    <3>1. /\ taskGap' = [taskGap EXCEPT ![i] = Evidence(TRUE, pipes[ch], childState[ch])]
          /\ UNCHANGED childVars
      BY <1>3, <2>1 DEF TeardownTask
    <3>2. UNCHANGED <<spawned, owner, pipes, childState>>
      BY <3>1 DEF childVars
    <3>3. ChildrenOK'
      BY <3>2, ChildrenKept DEF RuntimeInv
    <3>4. QED
      BY <3>1, <3>2, <3>3
  <2>2. CASE ~ taskRetired[i]
    <3>1. PICK r \in ReapOutcomes, p \in CloseOutcomes, shutdown \in BOOLEAN :
             /\ TearDown(ch, r, p)
             /\ taskGap' = [taskGap EXCEPT ![i] = Evidence(shutdown, pipes'[ch], childState'[ch])]
      BY <1>3, <2>2 DEF TeardownTask
    <3>2. QED
      BY <3>1, TearDownChild DEF Typed, RuntimeInv
  <2>3. QED
    BY <2>1, <2>2
<1>5. PICK shutdown \in BOOLEAN : taskGap' = [taskGap EXCEPT ![i] = Evidence(shutdown, pipes'[ch], childState'[ch])]
  BY <1>4
<1>6. phase'[i] = "complete" /\ \A j \in Intents \ {i} : SameTask(j)
  BY <1>1, <1>5 DEF SameTask, Typed, Shape
<1>7. taskGap'[i] = "none" => childState'[ch] = "reaped"
  <2>1. taskGap'[i] = Evidence(shutdown, pipes'[ch], childState'[ch])
    BY <1>5 DEF Typed, Shape
  <2>2. QED
    BY <2>1 DEF Evidence
<1>8. ASSUME NEW t \in Sessions \ {s} PROVE At(t)'
  <2>1. SameTasks(t)
    BY <1>1, <1>2, <1>6, TasksElsewhere
  <2>2. SameChildren(t)
    BY <1>3, <1>4 DEF SameChildren
  <2>3. QED
    BY <1>1, <1>4, <2>1, <2>2, RecordFrame, AlgebraFrame, ExchangesFrame, BoundsFrame, UndisturbedKeeps DEF Undisturbed
<1>9. At(s)'
  <2>1. \A j \in Intents : Holds(j, s)' <=> j = i
    BY <1>1, <1>2, <1>6 DEF Holds, Holding, SameTask
  <2>2. GenerationAt(s)' /\ SessionAt(s)'
    BY <1>1, <1>2, <1>4, <2>1 DEF At, GenerationAt, SessionAt
  <2>3. ExchangeAt(s)' /\ ReadinessAt(s)'
    BY <1>1, <1>2 DEF ExchangeAt, ReadinessAt, Exchanges, Exchanging, ReadinessPending
  <2>4. HolderAt(s)'
    <3>1. Teardown(i, s)' /\ Succession(i, s)'
      BY <1>1, <1>2, <1>3, <1>6, <1>7 DEF Teardown, Succession
    <3>2. (Leased(s) /\ lifecycleOwned[s] /\ rgen[s] = target[i])'
      BY <1>1, <1>2 DEF Leased
    <3>3. QED
      BY <2>1, <3>1, <3>2 DEF HolderAt
  <2>5. IntentAt(s)'
    BY <1>1, <1>2, <1>6 DEF IntentAt, Teardown
  <2>6. OverlapAt(s)'
    <3>1. \A j \in Intents : ~ (phase[j] = "install" /\ opSession[j] = s)
      BY <1>1, <1>2 DEF Holds, Holding
    <3>2. QED
      BY <1>1, <1>2, <1>4, <3>1 DEF At, OverlapAt
  <2>7. ReadyAt(s)'
    BY <1>1, <1>2, <2>1 DEF At, ReadyAt
  <2>8. QED
    BY <2>2, <2>3, <2>4, <2>5, <2>6, <2>7 DEF At
<1>10. \A j \in Intents : Known(j)'
  BY <1>1, <1>6 DEF RuntimeInv, Known, SameTask
<1>11. StartsOK'
  BY <1>1, <1>4, StartsKept DEF RuntimeInv
<1>12. QED
  BY <1>4, <1>8, <1>9, <1>10, <1>11 DEF RuntimeInv

\* The algebra's part of the end of a teardown.
Completed(s, i, gap) ==
    /\ UNCHANGED <<registered, nextIntent, kind, target>>
    /\ s \in registered /\ incumbent[s] = i /\ incumbent'[s] = None /\ state'[s] # Ready
    /\ \A t \in Sessions \ {s} : SameAlgebra(t)
    /\ \A j \in Intents \ {i} : outcome'[j] = outcome[j]
    /\ firstTeardownFailure(gap) = "" => gap = "none"
    /\ firstTeardownFailure(gap) # "" \/ kind[i] = "STOP" => generation'[s] = generation[s]
    /\ firstTeardownFailure(gap) = "" /\ kind[i] = "RESTART" =>
          generation'[s] = generation[s] + 1 /\ outcome'[i].generation = generation[s] + 1

\* The algebra's side of CompleteLifecycleObserved.
LEMMA CompletionFacts ==
    ASSUME Typed, NEW s \in Sessions, NEW i \in Intents, NEW gap \in TeardownGap, kind[i] \in {"STOP", "RESTART"},
           CompleteLifecycleObserved(s, i, gap, "pending")
    PROVE  Completed(s, i, gap)
<1> USE DEF Completed
<1>1. s \in registered /\ incumbent[s] = i
  BY DEF CompleteLifecycleObserved
<1>2. firstTeardownFailure(gap) = "" => gap = "none"
  BY DEF firstTeardownFailure, TeardownGap
<1>3. ASSUME NEW result, NEW readyFor, Terminalize(s, i, result, readyFor)
      PROVE  /\ UNCHANGED <<registered, nextIntent, kind, target>>
             /\ incumbent'[s] = None /\ state'[s] = result.state
             /\ \A t \in Sessions \ {s} : incumbent'[t] = incumbent[t] /\ state'[t] = state[t]
             /\ outcome'[i] = result /\ \A j \in Intents \ {i} : outcome'[j] = outcome[j]
  <2>1. /\ UNCHANGED <<registered, nextIntent, kind, target>>
        /\ incumbent' = [incumbent EXCEPT ![s] = None] /\ state' = [state EXCEPT ![s] = result.state]
        /\ outcome' = [outcome EXCEPT ![i] = result]
    BY <1>3, Zenon DEF Terminalize, Vacated
  <2>2. QED
    BY <2>1 DEF Typed, Records
<1>4. CASE firstTeardownFailure(gap) # ""
  <2>1. Terminalize(s, i, FailedResult(s, firstTeardownFailure(gap)), {}) /\ UNCHANGED generation
    BY <1>4, Zenon DEF CompleteLifecycleObserved
  <2>2. FailedResult(s, firstTeardownFailure(gap)).state # Ready
    BY DEF FailedResult, Poisoned, Ready
  <2>3. QED
    BY <1>1, <1>3, <1>4, <2>1, <2>2 DEF SameAlgebra
<1>5. CASE firstTeardownFailure(gap) = ""
  <2> DEFINE g == IF kind[i] = "RESTART" THEN generation[s] + 1 ELSE generation[s]
             st == IF kind[i] # "RESTART" THEN Stopped ELSE Initializing
             result == [state |-> st, generation |-> g, failure |-> ""]
  <2>1. \E readyFor : Terminalize(s, i, result, readyFor)
    BY <1>5 DEF CompleteLifecycleObserved
  <2>2. generation' = [generation EXCEPT ![s] = g]
    BY <1>5 DEF CompleteLifecycleObserved
  <2>3. result.state = st /\ result.generation = g /\ st # Ready
    BY DEF Stopped, Initializing, Ready
  <2>4. /\ UNCHANGED <<registered, nextIntent, kind, target>>
        /\ incumbent'[s] = None /\ state'[s] = result.state
        /\ \A t \in Sessions \ {s} : incumbent'[t] = incumbent[t] /\ state'[t] = state[t]
        /\ outcome'[i] = result /\ \A j \in Intents \ {i} : outcome'[j] = outcome[j]
    BY <1>3, <2>1
  <2> HIDE DEF result, st
  <2>5. generation'[s] = g /\ \A t \in Sessions \ {s} : generation'[t] = generation[t]
    BY <2>2 DEF Typed, Records
  <2>6. QED
    BY <1>1, <1>2, <1>5, <2>3, <2>4, <2>5 DEF SameAlgebra
<1>6. QED
  BY <1>4, <1>5

\* The completion of an intent: the session is poisoned, removed, or kept for its successor.
LEMMA CompleteTaskKeeps ==
    ASSUME Typed, RuntimeInv, NEW i \in Intents, CompleteTask(i)
    PROVE  RuntimeInv'
<1> USE DEF readinessVars, childVars
<1>1. /\ phase[i] = "complete"
      /\ UNCHANGED <<rgen, process, readinessVars, taskChild, taskGap, childVars, client>>
  BY Zenon DEF CompleteTask
<1>2. PICK s \in Sessions :
         /\ s = opSession[i] /\ Holds(i, s) /\ At(s) /\ Leased(s) /\ lifecycleOwned[s] /\ rgen[s] = target[i]
         /\ Teardown(i, s) /\ Succession(i, s)
         /\ \A j \in Intents : Holds(j, s) => j = i
         /\ \A c \in Clients : ~ Exchanges(c, s)
         /\ \A g \in Generations : ~ ReadinessPending(s, g)
         /\ s \in sessions /\ process[s] \in 1..spawned /\ process[s] \in Children /\ owner[process[s]] = s
  BY <1>1, HolderFacts DEF Holding
<1>3. PICK gap \in TeardownGap : gap = taskGap[i]
  BY DEF Typed, Shape
<1>4. kind[i] \in {"STOP", "RESTART"} /\ i <= nextIntent
  BY <1>1 DEF RuntimeInv, Known
<1>5. CompleteLifecycleObserved(s, i, gap, "pending")
  BY <1>2, <1>3 DEF CompleteTask
<1>6. /\ UNCHANGED <<registered, nextIntent, kind, target>>
      /\ s \in registered /\ incumbent[s] = i /\ incumbent'[s] = None /\ state'[s] # Ready
      /\ \A t \in Sessions \ {s} : SameAlgebra(t)
      /\ \A j \in Intents \ {i} : outcome'[j] = outcome[j]
      /\ firstTeardownFailure(gap) = "" => gap = "none"
      /\ firstTeardownFailure(gap) # "" \/ kind[i] = "STOP" => generation'[s] = generation[s]
      /\ firstTeardownFailure(gap) = "" /\ kind[i] = "RESTART" =>
            generation'[s] = generation[s] + 1 /\ outcome'[i].generation = generation[s] + 1
  <2>1. Completed(s, i, gap)
    BY <1>4, <1>5, CompletionFacts
  <2>2. QED
    BY <2>1 DEF Completed
<1>7. \A j \in Intents : ~ (phase[j] = "install" /\ opSession[j] = s)
  BY <1>1, <1>2 DEF Holds, Holding
<1>8. gap = "none" => Reaped(s)
  <2>1. gap = "none" => childState[process[s]] = "reaped"
    BY <1>1, <1>2, <1>3 DEF Teardown
  <2>2. QED
    BY <1>2, <1>7, <2>1 DEF At, OverlapAt, Reaped
<1>9. generation[s] = target[i] /\ generation[s] \in Nat /\ nextIntent \in Nat /\ generation[s] <= nextIntent /\ i # None
  <2>1. generation[s] \in Nat /\ nextIntent \in Nat /\ i # None
    BY LifecycleConstants DEF Typed, Records
  <2>2. generation[s] = target[i]
    BY <1>1, <1>2 DEF Teardown
  <2>3. generation[s] <= nextIntent
    BY <1>2, <1>6, <2>1 DEF At, GenerationAt
  <2>4. QED
    BY <2>1, <2>2, <2>3
<1>10. UNCHANGED opSession
  BY DEF CompleteTask, FinishOperation, operationVars
<1>11. StartsOK' /\ ChildrenOK'
  BY <1>1, StartsKept, ChildrenKept DEF RuntimeInv
<1>12. ASSUME \A t \in Sessions \ {s} : SameRecord(t), \A j \in Intents \ {i} : SameTask(j), NEW t \in Sessions \ {s}
       PROVE  At(t)'
  <2>1. SameTasks(t)
    BY <1>2, <1>10, <1>12, TasksElsewhere
  <2>2. QED
    BY <1>1, <1>6, <1>12, <2>1, ChildrenFrame, ExchangesFrame, BoundsFrame, UndisturbedKeeps DEF Undisturbed
<1>13. ASSUME phase'[i] \in {"spawn", "done"}, \A j \in Intents \ {i} : SameTask(j),
              phase'[i] = "spawn" => kind[i] = "RESTART" /\ outcome'[i].generation = target[i] + 1
       PROVE  \A j \in Intents : Known(j)'
  <2>1. Known(i)'
    BY <1>2, <1>4, <1>6, <1>10, <1>13 DEF Known
  <2>2. ASSUME NEW j \in Intents \ {i} PROVE Known(j)'
    <3>1. Known(j) /\ SameTask(j) /\ outcome'[j] = outcome[j] /\ UNCHANGED <<kind, nextIntent>>
      BY <1>6, <1>13 DEF RuntimeInv
    <3>2. QED
      BY <3>1 DEF Known, SameTask
  <2>3. QED
    BY <2>1, <2>2
<1>14. ExchangeAt(s)' /\ ReadinessAt(s)' /\ IntentAt(s)'
  BY <1>1, <1>2, <1>6 DEF ExchangeAt, ReadinessAt, IntentAt, Exchanges, Exchanging, ReadinessPending
<1>15. CASE /\ firstTeardownFailure(gap) # ""
            /\ rstate' = [rstate EXCEPT ![s] = Poisoned]
            /\ protocolOwned' = [protocolOwned EXCEPT ![s] = FALSE]
            /\ lifecycleOwned' = [lifecycleOwned EXCEPT ![s] = FALSE]
            /\ phase' = [phase EXCEPT ![i] = "done"]
            /\ UNCHANGED sessions
  <2>1. phase'[i] = "done" /\ \A j \in Intents \ {i} : SameTask(j)
    BY <1>1, <1>6, <1>10, <1>15 DEF SameTask, Typed, Shape
  <2>2. \A t \in Sessions \ {s} : SameRecord(t)
    BY <1>1, <1>15 DEF SameRecord, Typed, Shape, Flags
  <2>3. \A j \in Intents : ~ Holds(j, s)'
    BY <1>2, <1>10, <2>1 DEF Holds, Holding, SameTask
  <2>4. rstate'[s] = Poisoned /\ ~ lifecycleOwned'[s]
    BY <1>15 DEF Typed, Shape, Flags
  <2>5. GenerationAt(s)' /\ SessionAt(s)'
    BY <1>1, <1>2, <1>6, <1>15, <2>4 DEF At, GenerationAt, SessionAt
  <2>6. HolderAt(s)'
    BY <2>3 DEF HolderAt
  <2>7. OverlapAt(s)'
    BY <1>1, <1>2, <1>7, <1>15 DEF At, OverlapAt
  <2>8. ReadyAt(s)'
    BY <1>6, <2>4 DEF ReadyAt, Ready, Poisoned
  <2>9. At(s)'
    BY <1>14, <2>5, <2>6, <2>7, <2>8 DEF At
  <2>10. \A j \in Intents : Known(j)'
    BY <1>13, <2>1
  <2>11. QED
    BY <1>11, <1>12, <2>1, <2>2, <2>9, <2>10 DEF RuntimeInv
<1>16. CASE /\ firstTeardownFailure(gap) = "" /\ kind[i] = "STOP"
            /\ sessions' = sessions \ {s}
            /\ phase' = [phase EXCEPT ![i] = "done"]
            /\ UNCHANGED <<rstate, protocolOwned, lifecycleOwned>>
  <2>1. phase'[i] = "done" /\ \A j \in Intents \ {i} : SameTask(j)
    BY <1>1, <1>6, <1>10, <1>16 DEF SameTask, Typed, Shape
  <2>2. \A t \in Sessions \ {s} : SameRecord(t)
    BY <1>1, <1>16 DEF SameRecord
  <2>3. \A j \in Intents : ~ Holds(j, s)'
    BY <1>2, <1>10, <2>1 DEF Holds, Holding, SameTask
  <2>4. s \notin sessions'
    BY <1>16
  <2>5. GenerationAt(s)' /\ SessionAt(s)'
    BY <1>2, <1>6, <1>16, <2>4 DEF At, GenerationAt, SessionAt
  <2>6. HolderAt(s)'
    BY <2>3 DEF HolderAt
  <2>7. OverlapAt(s)'
    BY <1>1, <1>6, <1>8, <1>16 DEF OverlapAt, Reaped
  <2>8. ReadyAt(s)'
    BY <1>6, <2>4 DEF ReadyAt
  <2>9. At(s)'
    BY <1>14, <2>5, <2>6, <2>7, <2>8 DEF At
  <2>10. \A j \in Intents : Known(j)'
    BY <1>13, <2>1
  <2>11. QED
    BY <1>11, <1>12, <2>1, <2>2, <2>9, <2>10 DEF RuntimeInv
<1>17. CASE /\ firstTeardownFailure(gap) = "" /\ kind[i] = "RESTART"
            /\ phase' = [phase EXCEPT ![i] = "spawn"]
            /\ UNCHANGED <<sessions, rstate, protocolOwned, lifecycleOwned>>
  <2>1. phase'[i] = "spawn" /\ \A j \in Intents \ {i} : SameTask(j)
    BY <1>1, <1>6, <1>10, <1>17 DEF SameTask, Typed, Shape
  <2>2. \A t \in Sessions \ {s} : SameRecord(t)
    BY <1>1, <1>17, RecordFrame
  <2>3. \A j \in Intents : Holds(j, s)' <=> j = i
    BY <1>2, <1>10, <2>1 DEF Holds, Holding, SameTask
  <2>4. GenerationAt(s)'
    <3>1. generation'[s] \in 1..(nextIntent' + 1)
      <4>1. generation'[s] = generation[s] + 1 /\ nextIntent' = nextIntent
        BY <1>6, <1>17
      <4>2. QED
        BY <1>9, <4>1
    <3>2. QED
      BY <1>6, <3>1 DEF GenerationAt
  <2>5. SessionAt(s)'
    <3>1. rgen'[s] \in 1..generation'[s]
      <4>1. generation'[s] = generation[s] + 1 /\ rgen'[s] = rgen[s]
        BY <1>1, <1>6, <1>17
      <4>2. rgen[s] \in 1..generation[s]
        BY <1>2 DEF At, SessionAt
      <4>3. QED
        BY <1>9, <4>1, <4>2
    <3>2. QED
      BY <1>1, <1>2, <1>6, <2>3, <3>1 DEF At, SessionAt
  <2>6. HolderAt(s)'
    <3>1. Reaped(s)'
      BY <1>1, <1>6, <1>8, <1>17 DEF Reaped
    <3>2. generation'[s] = target'[i] + 1
      BY <1>6, <1>9, <1>17
    <3>3. Teardown(i, s)' /\ Succession(i, s)'
      BY <1>6, <2>1, <3>1, <3>2 DEF Teardown, Succession
    <3>4. (Leased(s) /\ lifecycleOwned[s] /\ rgen[s] = target[i])'
      BY <1>1, <1>2, <1>6, <1>17 DEF Leased
    <3>5. QED
      BY <2>3, <3>3, <3>4 DEF HolderAt
  <2>7. OverlapAt(s)'
    BY <1>1, <1>6, <1>8, <1>17 DEF OverlapAt, Reaped
  <2>8. ReadyAt(s)'
    BY <1>1, <1>2, <1>6, <1>17, <2>3 DEF At, ReadyAt
  <2>9. At(s)'
    BY <1>14, <2>4, <2>5, <2>6, <2>7, <2>8 DEF At
  <2>10. \A j \in Intents : Known(j)'
    BY <1>6, <1>9, <1>13, <1>17, <2>1
  <2>11. QED
    BY <1>11, <1>12, <2>1, <2>2, <2>9, <2>10 DEF RuntimeInv
<1>18. QED
  BY <1>2, <1>3, <1>15, <1>16, <1>17 DEF CompleteTask

\* The successor is spawned: the only child of the session that is not reaped.
LEMMA SpawnTaskKeeps ==
    ASSUME Typed, RuntimeInv, NEW i \in Intents, SpawnTask(i)
    PROVE  RuntimeInv'
<1> USE DEF lifecycleVars, sessionVars, intentVars, recordVars, readinessVars, operationVars
<1>1. /\ UNCHANGED <<lifecycleVars, recordVars, readinessVars, operationVars, taskGap, client>>
      /\ phase[i] = "spawn" /\ phase' = [phase EXCEPT ![i] = "install"]
  BY DEF SpawnTask
<1>2. PICK s \in Sessions :
         /\ s = opSession[i] /\ Holds(i, s) /\ At(s) /\ Leased(s) /\ lifecycleOwned[s] /\ rgen[s] = target[i]
         /\ Teardown(i, s) /\ Succession(i, s)
         /\ \A j \in Intents : Holds(j, s) => j = i
         /\ \A c \in Clients : ~ Exchanges(c, s)
         /\ \A g \in Generations : ~ ReadinessPending(s, g)
         /\ s \in sessions /\ process[s] \in 1..spawned /\ process[s] \in Children /\ owner[process[s]] = s
  BY <1>1, HolderFacts DEF Holding
<1>3. Reaped(s) /\ incumbent[s] = None /\ generation[s] = target[i] + 1
  BY <1>1, <1>2 DEF Succession
<1>4. s # None /\ None \notin Children
  BY RuntimeConstants
<1>5. ASSUME \A j \in Intents \ {i} : SameTask(j), phase'[i] = "install"
      PROVE  \A j \in Intents : Holds(j, s)' <=> j = i
  BY <1>1, <1>2, <1>5 DEF Holds, Holding, SameTask
<1>6. ASSUME \A j \in Intents \ {i} : SameTask(j), phase'[i] = "install" PROVE \A j \in Intents : Known(j)'
  BY <1>1, <1>6 DEF RuntimeInv, Known, SameTask
<1>7. ExchangeAt(s)' /\ ReadinessAt(s)' /\ IntentAt(s)'
  BY <1>1, <1>2, <1>3 DEF ExchangeAt, ReadinessAt, IntentAt, Exchanges, Exchanging, ReadinessPending
<1>8. (Leased(s) /\ lifecycleOwned[s] /\ rgen[s] = target[i])'
  BY <1>1, <1>2 DEF Leased
<1>9. CASE taskChild' = [taskChild EXCEPT ![i] = None] /\ UNCHANGED childVars
  <2>1. UNCHANGED <<spawned, childState, pipes, owner>>
    BY <1>9 DEF childVars
  <2>2. phase'[i] = "install" /\ taskChild'[i] = None /\ \A j \in Intents \ {i} : SameTask(j)
    BY <1>1, <1>9 DEF SameTask, Typed, Shape
  <2>3. ASSUME NEW t \in Sessions \ {s} PROVE At(t)'
    <3>1. SameTasks(t)
      BY <1>1, <1>2, <2>2, TasksElsewhere
    <3>2. QED
      BY <1>1, <2>1, <3>1, RecordFrame, AlgebraFrame, ChildrenFrame, ExchangesFrame, BoundsFrame, UndisturbedKeeps
      DEF Undisturbed
  <2>4. \A j \in Intents : Holds(j, s)' <=> j = i
    BY <1>5, <2>2
  <2>5. GenerationAt(s)' /\ SessionAt(s)'
    BY <1>1, <1>2, <2>1, <2>4 DEF At, GenerationAt, SessionAt
  <2>6. HolderAt(s)'
    <3>1. Reaped(s)'
      BY <1>3, <2>1 DEF Reaped
    <3>2. Teardown(i, s)' /\ Succession(i, s)'
      BY <1>1, <1>3, <2>2, <3>1 DEF Teardown, Succession
    <3>3. QED
      BY <1>8, <2>4, <3>2 DEF HolderAt
  <2>7. OverlapAt(s)'
    BY <1>3, <2>1 DEF Reaped, OverlapAt
  <2>8. ReadyAt(s)'
    BY <1>1, <1>2, <2>1, <2>4 DEF At, ReadyAt
  <2>9. At(s)'
    BY <1>7, <2>5, <2>6, <2>7, <2>8 DEF At
  <2>10. StartsOK' /\ ChildrenOK'
    BY <1>1, <2>1, StartsKept, ChildrenKept DEF RuntimeInv
  <2>11. QED
    BY <1>6, <2>2, <2>3, <2>9, <2>10 DEF RuntimeInv
<1>10. CASE Spawn(s) /\ taskChild' = [taskChild EXCEPT ![i] = spawned + 1]
  <2>1. /\ ChildrenOK'
        /\ spawned' = spawned + 1 /\ spawned \in Nat /\ spawned + 1 \in Children /\ UNCHANGED pipes
        /\ owner[spawned + 1] = None /\ owner'[spawned + 1] = s
        /\ \A x \in Children \ {spawned + 1} : owner'[x] = owner[x] /\ childState'[x] = childState[x]
        /\ \A x \in 1..spawned : x \in Children \ {spawned + 1} /\ x \in 1..spawned'
    BY <1>10, SpawnChild DEF RuntimeInv, Typed
  <2>2. PICK new \in Children : new = spawned + 1 /\ new \in 1..spawned'
    BY <2>1
  <2>3. /\ phase'[i] = "install" /\ taskChild'[i] = new /\ \A j \in Intents \ {i} : SameTask(j)
    BY <1>1, <1>10, <2>2 DEF SameTask, Typed, Shape
  <2>4. spawned <= spawned' /\ spawned' \in Nat
    BY <2>1
  <2>5. nextIntent <= nextIntent' /\ nextIntent' \in Nat
    BY <1>1, LifecycleConstants DEF Typed, Records
  <2>6. childState[new] # "reaped"
    BY <2>1, <2>2 DEF RuntimeInv, ChildrenOK
  <2>7. \A x \in Children : x # new => owner'[x] = owner[x] /\ childState'[x] = childState[x]
    BY <2>1, <2>2
  <2>8. ASSUME NEW t \in Sessions \ {s} PROVE At(t)'
    <3>1. SameTasks(t)
      BY <1>1, <1>2, <2>3, TasksElsewhere
    <3>2. t # None
      BY RuntimeConstants
    <3>3. SameChildren(t)
      BY <2>1, <2>2, <2>6, <2>7, <3>2 DEF SameChildren
    <3>4. QED
      BY <1>1, <2>4, <2>5, <3>1, <3>3, RecordFrame, AlgebraFrame, ExchangesFrame, UndisturbedKeeps DEF Undisturbed
  <2>9. \A j \in Intents : Holds(j, s)' <=> j = i
    BY <1>5, <2>3
  <2>10. GenerationAt(s)' /\ SessionAt(s)'
    BY <1>1, <1>2, <2>1, <2>9 DEF At, GenerationAt, SessionAt
  <2>11. \A x \in Children : x # new /\ owner'[x] = s => childState'[x] = "reaped"
    BY <1>3, <2>7 DEF Reaped
  <2>12. HolderAt(s)'
    <3>1. Teardown(i, s)' /\ Succession(i, s)'
      BY <1>1, <1>3, <1>4, <2>1, <2>2, <2>3, <2>11 DEF Teardown, Succession
    <3>2. QED
      BY <1>8, <2>9, <3>1 DEF HolderAt
  <2>13. OverlapAt(s)'
    BY <1>1, <1>2, <2>3, <2>11 DEF OverlapAt
  <2>14. ReadyAt(s)'
    BY <1>1, <1>2, <2>1, <2>9 DEF At, ReadyAt
  <2>15. At(s)'
    BY <1>7, <2>10, <2>12, <2>13, <2>14 DEF At
  <2>16. StartsOK'
    BY <1>1, <2>1 DEF RuntimeInv, StartsOK
  <2>17. QED
    BY <1>6, <2>1, <2>3, <2>8, <2>15, <2>16 DEF RuntimeInv
<1>11. QED
  BY <1>2, <1>9, <1>10 DEF SpawnTask

\* The successor is installed, or its spawn has failed and the lease stays taken.
LEMMA InstallTaskKeeps ==
    ASSUME Typed, RuntimeInv, NEW i \in Intents, InstallTask(i)
    PROVE  RuntimeInv'
<1> USE DEF lifecycleVars, sessionVars, intentVars, readinessVars, childVars
<1>1. /\ phase[i] = "install"
      /\ UNCHANGED <<lifecycleVars, sessions, readinessVars, taskChild, taskGap, childVars, client>>
  BY Zenon DEF InstallTask
<1>2. PICK s \in Sessions :
         /\ s = opSession[i] /\ Holds(i, s) /\ At(s) /\ Leased(s) /\ lifecycleOwned[s] /\ rgen[s] = target[i]
         /\ Teardown(i, s) /\ Succession(i, s)
         /\ \A j \in Intents : Holds(j, s) => j = i
         /\ \A c \in Clients : ~ Exchanges(c, s)
         /\ \A g \in Generations : ~ ReadinessPending(s, g)
         /\ s \in sessions /\ process[s] \in 1..spawned /\ process[s] \in Children /\ owner[process[s]] = s
  BY <1>1, HolderFacts DEF Holding
<1>3. incumbent[s] = None /\ generation[s] = target[i] + 1 /\ target[i] \in Nat
  BY <1>1, <1>2 DEF Succession, Typed, Records
<1>4. outcome[i].generation = target[i] + 1 /\ kind[i] = "RESTART"
  BY <1>1 DEF RuntimeInv, Known
<1>5. rgen[s] # generation[s] /\ state[s] # Ready
  BY <1>2, <1>3 DEF At, ReadyAt
<1>6. UNCHANGED opSession
  BY DEF InstallTask, FinishOperation, operationVars
<1>7. ExchangeAt(s)' /\ ReadinessAt(s)' /\ IntentAt(s)' /\ GenerationAt(s)'
  BY <1>1, <1>2, <1>3 DEF ExchangeAt, ReadinessAt, IntentAt, Exchanges, Exchanging, ReadinessPending, At, GenerationAt
<1>8. ASSUME phase'[i] \in {"begin", "done"}, \A j \in Intents \ {i} : SameTask(j)
      PROVE  (\A j \in Intents : ~ Holds(j, s)') /\ (\A j \in Intents : Known(j)')
  <2>1. \A j \in Intents : ~ Holds(j, s)'
    BY <1>2, <1>6, <1>8 DEF Holds, Holding, SameTask
  <2>2. \A j \in Intents : Known(j)'
    BY <1>1, <1>6, <1>8 DEF RuntimeInv, Known, SameTask
  <2>3. QED
    BY <2>1, <2>2
<1>9. ASSUME \A t \in Sessions \ {s} : SameRecord(t), \A j \in Intents \ {i} : SameTask(j), NEW t \in Sessions \ {s}
      PROVE  At(t)'
  <2>1. SameTasks(t)
    BY <1>2, <1>6, <1>9, TasksElsewhere
  <2>2. QED
    BY <1>1, <1>9, <2>1, AlgebraFrame, ChildrenFrame, ExchangesFrame, BoundsFrame, UndisturbedKeeps DEF Undisturbed
<1>10. StartsOK' /\ ChildrenOK'
  BY <1>1, StartsKept, ChildrenKept DEF RuntimeInv
<1>11. CASE /\ taskChild[i] = None
            /\ rstate' = [rstate EXCEPT ![s] = Poisoned]
            /\ phase' = [phase EXCEPT ![i] = "done"]
            /\ UNCHANGED <<rgen, process, protocolOwned, lifecycleOwned>>
  <2>1. phase'[i] = "done" /\ \A j \in Intents \ {i} : SameTask(j)
    BY <1>1, <1>6, <1>11 DEF SameTask, Typed, Shape
  <2>2. \A t \in Sessions \ {s} : SameRecord(t)
    BY <1>1, <1>11 DEF SameRecord, Typed, Shape
  <2>3. \A j \in Intents : ~ Holds(j, s)'
    BY <1>8, <2>1
  <2>4. SessionAt(s)'
    BY <1>1, <1>2, <1>5, <1>11 DEF At, SessionAt
  <2>5. HolderAt(s)'
    BY <2>3 DEF HolderAt
  <2>6. OverlapAt(s)'
    BY <1>1, <1>2, <1>11 DEF Succession, Reaped, OverlapAt
  <2>7. ReadyAt(s)'
    <3>1. rstate'[s] = Poisoned
      BY <1>11 DEF Typed, Shape
    <3>2. QED
      BY <1>1, <1>5, <3>1 DEF ReadyAt, Ready, Poisoned
  <2>8. At(s)'
    BY <1>7, <2>4, <2>5, <2>6, <2>7 DEF At
  <2>9. QED
    BY <1>8, <1>9, <1>10, <2>1, <2>2, <2>8 DEF RuntimeInv
<1>12. CASE /\ taskChild[i] # None
            /\ process' = [process EXCEPT ![s] = taskChild[i]]
            /\ rgen' = [rgen EXCEPT ![s] = outcome[i].generation]
            /\ rstate' = [rstate EXCEPT ![s] = Initializing]
            /\ protocolOwned' = [protocolOwned EXCEPT ![s] = FALSE]
            /\ lifecycleOwned' = [lifecycleOwned EXCEPT ![s] = FALSE]
            /\ phase' = [phase EXCEPT ![i] = "begin"]
  <2>1. phase'[i] = "begin" /\ \A j \in Intents \ {i} : SameTask(j)
    BY <1>1, <1>6, <1>12 DEF SameTask, Typed, Shape
  <2>2. \A t \in Sessions \ {s} : SameRecord(t)
    BY <1>1, <1>12 DEF SameRecord, Typed, Shape, Flags
  <2>3. \A j \in Intents : ~ Holds(j, s)'
    BY <1>8, <2>1
  <2>4. rgen'[s] = generation[s] /\ process'[s] = taskChild[i] /\ rstate'[s] = Initializing /\ ~ lifecycleOwned'[s]
    BY <1>3, <1>4, <1>12 DEF Typed, Shape, Flags
  <2>5. /\ taskChild[i] \in 1..spawned /\ owner[taskChild[i]] = s
        /\ \A ch \in Children : ch # taskChild[i] /\ owner[ch] = s => childState[ch] = "reaped"
    BY <1>1, <1>2, <1>12 DEF Succession
  <2>6. SessionAt(s)'
    <3>1. generation[s] \in 1..generation[s]
      BY <1>3
    <3>2. s \in registered
      BY <1>2 DEF At, SessionAt
    <3>3. QED
      BY <1>1, <2>4, <2>5, <3>1, <3>2 DEF SessionAt
  <2>7. HolderAt(s)'
    BY <2>3 DEF HolderAt
  <2>8. OverlapAt(s)'
    BY <1>1, <1>2, <2>4, <2>5 DEF OverlapAt
  <2>9. ReadyAt(s)'
    BY <1>1, <1>5, <2>4 DEF ReadyAt, Ready, Initializing
  <2>10. At(s)'
    BY <1>7, <2>6, <2>7, <2>8, <2>9 DEF At
  <2>11. QED
    BY <1>8, <1>9, <1>10, <2>1, <2>2, <2>10 DEF RuntimeInv
<1>13. QED
  BY <1>2, <1>11, <1>12 DEF InstallTask

\* A task past its installation has no lease: its moves disturb no session.
LEMMA PastInstallation ==
    ASSUME Typed, RuntimeInv, NEW i \in Intents, phase[i] \in {"begin", "wait", "lost"},
           phase'[i] \in {"wait", "lost", "done"}, phase' = [phase EXCEPT ![i] = phase'[i]],
           UNCHANGED <<opSession, taskChild, taskGap, kind, target, outcome, nextIntent>>
    PROVE  (\A t \in Sessions : SameTasks(t)) /\ (\A j \in Intents : Known(j)')
<1>1. \A j \in Intents \ {i} : SameTask(j)
  BY DEF SameTask, Typed, Shape
<1>2. \A t \in Sessions : SameTasks(t)
  BY <1>1 DEF SameTasks, SameTask, Holds, Holding
<1>3. \A j \in Intents : Known(j)'
  BY <1>1 DEF RuntimeInv, Known, SameTask
<1>4. QED
  BY <1>2, <1>3

\* BeginReadiness of the successor.
LEMMA BeginTaskKeeps ==
    ASSUME Typed, RuntimeInv, NEW i \in Intents, BeginTask(i)
    PROVE  RuntimeInv'
<1> USE DEF lifecycleVars, sessionVars, intentVars, operationVars, childVars
<1>1. /\ phase[i] = "begin"
      /\ UNCHANGED <<lifecycleVars, sessions, rgen, rstate, process, retired, lifecycleOwned, live,
                     operationVars, taskChild, taskGap, childVars, client>>
  BY DEF BeginTask
<1>2. PICK s \in Sessions, g \in Nat : s = opSession[i] /\ g = outcome[i].generation
  BY <1>1 DEF RuntimeInv, Known, Typed, Records
<1>3. phase' \in {[phase EXCEPT ![i] = "wait"], [phase EXCEPT ![i] = "lost"]}
  BY DEF BeginTask, AfterRefusal
<1>4. phase'[i] \in {"wait", "lost", "done"} /\ phase' = [phase EXCEPT ![i] = phase'[i]]
  BY <1>3 DEF Typed, Shape
<1>5. (\A t \in Sessions : SameTasks(t)) /\ (\A j \in Intents : Known(j)')
  BY <1>1, <1>4, PastInstallation
<1>6. StartsOK' /\ ChildrenOK'
  BY <1>1, StartsKept, ChildrenKept DEF RuntimeInv
<1>7. CASE CanBeginReadiness(s, g) /\ ReadinessBegins(s, g)
  <2>1. \A t \in Sessions : At(t)'
    BY <1>1, <1>5, <1>7, HandshakeBegins
  <2>2. QED
    BY <1>5, <1>6, <2>1 DEF RuntimeInv
<1>8. CASE UNCHANGED <<readinessVars, protocolOwned>>
  <2>1. ASSUME NEW t \in Sessions PROVE At(t)'
    BY <1>1, <1>5, <1>8, RecordFrame, AlgebraFrame, ChildrenFrame, ExchangesFrame, BoundsFrame, UndisturbedKeeps
    DEF Undisturbed, readinessVars
  <2>2. QED
    BY <1>5, <1>6, <2>1 DEF RuntimeInv
<1>9. QED
  BY <1>2, <1>7, <1>8 DEF BeginTask

\* The end of a RESTART.
LEMMA FinishTaskKeeps ==
    ASSUME Typed, RuntimeInv, NEW i \in Intents, FinishTask(i)
    PROVE  RuntimeInv'
<1> USE DEF lifecycleVars, sessionVars, intentVars, recordVars, readinessVars, childVars
<1>1. /\ phase[i] \in {"wait", "lost"} /\ phase' = [phase EXCEPT ![i] = "done"]
      /\ UNCHANGED <<lifecycleVars, recordVars, readinessVars, taskChild, taskGap, childVars, client, opSession>>
  BY Zenon DEF FinishTask, FinishOperation
<1>2. phase'[i] = "done"
  BY <1>1 DEF Typed, Shape
<1>3. (\A t \in Sessions : SameTasks(t)) /\ (\A j \in Intents : Known(j)')
  BY <1>1, <1>2, PastInstallation
<1>4. ASSUME NEW t \in Sessions PROVE At(t)'
  BY <1>1, <1>3, RecordFrame, AlgebraFrame, ChildrenFrame, ExchangesFrame, BoundsFrame, UndisturbedKeeps DEF Undisturbed
<1>5. QED
  BY <1>1, <1>3, <1>4, StartsKept, ChildrenKept DEF RuntimeInv

\* A step that touches nothing the invariant speaks of: joining an intent, Shutdown.
LEMMA OtherKeeps ==
    ASSUME Typed, RuntimeInv, UNCHANGED <<sessionVars, nextIntent, kind, target, outcome, recordVars, readinessVars,
                                    operationVars, taskVars, childVars, client>>
    PROVE  RuntimeInv'
<1> USE DEF sessionVars, recordVars, readinessVars, operationVars, taskVars, childVars
<1>1. ASSUME NEW t \in Sessions PROVE At(t)'
  BY RecordFrame, AlgebraFrame, ChildrenFrame, TasksFrame, ExchangesFrame, BoundsFrame, UndisturbedKeeps DEF Undisturbed
<1>2. QED
  BY <1>1, StartsKept, ChildrenKept, KnownKept DEF RuntimeInv

\* Before the first call.
LEMMA InitInv == RuntimeInit => RuntimeInv
<1> SUFFICES ASSUME RuntimeInit PROVE RuntimeInv
  OBVIOUS
<1>1. /\ sessions = {} /\ registered = {} /\ spawned = 0
      /\ state = [s \in Sessions |-> Stopped]
      /\ incumbent = [s \in Sessions |-> None]
      /\ readiness = [k \in Sessions \X Generations |-> "none"]
      /\ phase = [i \in Intents |-> "none"] /\ client = [c \in Clients |-> Idle]
      /\ childState = [ch \in Children |-> "none"] /\ pipes = [ch \in Children |-> "open"]
      /\ owner = [ch \in Children |-> None]
  BY Zenon DEF RuntimeInit, LifecycleInit
<1>2. ChildrenOK
  BY <1>1 DEF ChildrenOK
<1>3. \A c \in Clients : client[c].op = "idle"
  BY <1>1 DEF Idle
<1>4. StartsOK
  BY <1>3 DEF StartsOK
<1>5. \A i \in Intents : phase[i] = "none"
  BY <1>1
<1>6. \A i \in Intents : Known(i)
  BY <1>5 DEF Known
<1>7. ASSUME NEW s \in Sessions PROVE At(s)
  <2>1. \A c \in Clients : ~ Exchanges(c, s)
    BY <1>3 DEF Exchanges, Exchanging
  <2>2. \A i \in Intents : ~ Holds(i, s)
    BY <1>5 DEF Holds, Holding
  <2>3. \A g \in Generations : ~ ReadinessPending(s, g)
    BY <1>1 DEF ReadinessPending
  <2>4. GenerationAt(s) /\ SessionAt(s)
    BY <1>1 DEF GenerationAt, SessionAt
  <2>5. ExchangeAt(s) /\ ReadinessAt(s) /\ HolderAt(s)
    BY <2>1, <2>2, <2>3 DEF ExchangeAt, ReadinessAt, HolderAt
  <2>6. IntentAt(s)
    BY <1>1 DEF IntentAt
  <2>7. OverlapAt(s)
    BY <1>1, RuntimeConstants DEF OverlapAt
  <2>8. ReadyAt(s)
    BY <1>1 DEF ReadyAt, Stopped, Ready
  <2>9. QED
    BY <2>4, <2>5, <2>6, <2>7, <2>8 DEF At
<1>8. QED
  BY <1>2, <1>4, <1>6, <1>7 DEF RuntimeInv

\* Every step of the runtime preserves the invariant.
LEMMA NextKeepsInv == Typed /\ RuntimeInv /\ [RuntimeNext]_vars => RuntimeInv'
<1> SUFFICES ASSUME Typed, RuntimeInv, [RuntimeNext]_vars PROVE RuntimeInv'
  OBVIOUS
<1>1. CASE Request
  <2>1. ASSUME NEW s \in Sessions, NEW c \in Callers, NEW k \in {"STOP", "RESTART"}, JoinOperation(s, c, k)
        PROVE  RuntimeInv'
    <3>1. UNCHANGED runtimeVars /\ Join(s, c, k)
      BY <2>1, Zenon DEF JoinOperation
    <3>2. UNCHANGED <<sessionVars, nextIntent, kind, target, outcome>>
      BY <3>1, Zenon DEF Join
    <3>3. QED
      BY <3>1, <3>2, OtherKeeps DEF runtimeVars
  <2>2. CASE Shutdown
    BY <2>2, OtherKeeps DEF Shutdown, lifecycleVars, intentVars
  <2>3. QED
    BY <1>1, <2>1, <2>2, StartCheckKeeps, BeginReadinessKeeps, BeginExchangeKeeps, TerminateKeeps DEF Request
<1>2. CASE \E ch \in Children : Crash(ch)
  BY <1>2, CrashKeeps
<1>3. CASE \E c \in Clients : ClientStep(c)
  BY <1>3, StartSpawnKeeps, StartAdmitKeeps, AnswerExchangeKeeps, RetireExchangeKeeps, FinishExchangeKeeps DEF ClientStep
<1>4. CASE \E s \in Sessions, g \in Generations : ReadinessStep(s, g)
  BY <1>4, AbortReadinessKeeps, FinishReadinessKeeps DEF ReadinessStep
<1>5. CASE \E i \in Intents : TaskStep(i)
  BY <1>5, TeardownTaskKeeps, CompleteTaskKeeps, SpawnTaskKeeps, InstallTaskKeeps, BeginTaskKeeps, FinishTaskKeeps DEF TaskStep
<1>6. CASE ShutdownStep
  BY <1>6, OtherKeeps DEF ShutdownStep, ShutdownToken, ShutdownRecheck, lifecycleVars, intentVars
<1>7. CASE UNCHANGED vars
  BY <1>7, OtherKeeps DEF vars, runtimeVars, lifecycleVars, intentVars
<1>8. QED
  BY <1>1, <1>2, <1>3, <1>4, <1>5, <1>6, <1>7 DEF RuntimeNext

-----------------------------------------------------------------------------
\* The types, group by group.
RecordShape ==
    /\ sessions \subseteq Sessions /\ live \subseteq Sessions
    /\ rgen \in [Sessions -> Nat] /\ rstate \in [Sessions -> State]
    /\ process \in [Sessions -> Children \cup {None}]

ReadinessShape ==
    /\ readiness \in [Sessions \X Generations -> {"none", "pending", "aborted", "ready", "failed"}]
    /\ readinessChild \in [Sessions \X Generations -> Children \cup {None}]

OperationShape ==
    /\ operationIDs \in Seq(Intents)
    /\ opState \in [Intents -> {"none", "pending", "complete", "failed"}]
    /\ opSession \in [Intents -> Sessions \cup {None}] /\ opCaller \in [Intents -> Callers \cup {None}]
    /\ opFailure \in [Intents -> Failure \cup {SpawnFailure}]

TaskShape ==
    /\ phase \in [Intents -> Phase] /\ taskChild \in [Intents -> Children \cup {None}]
    /\ taskGap \in [Intents -> TeardownGap]

CallShape ==
    /\ client \in [Clients -> {Idle} \cup StartCall \cup Exchange] /\ work \in 0..MaxWork
    /\ waiter \in {"none", "waiting", "woken", "returned"}

ChildShape ==
    /\ spawned \in 0..MaxSpawns
    /\ childState \in [Children -> {"none", "running", "reaped", "unreaped"}]
    /\ pipes \in [Children -> {"open", "closed", "broken"}]
    /\ owner \in [Children -> Sessions \cup {None}]

\* The groups make up the type,
LEMMA TypedParts ==
    Typed <=> /\ Flags /\ Records /\ RecordShape /\ ReadinessShape
              /\ OperationShape /\ TaskShape /\ CallShape /\ ChildShape
BY Zenon DEF Typed, Shape, RecordShape, ReadinessShape, OperationShape, TaskShape, CallShape, ChildShape

\* after a step as well.
LEMMA TypedAgain ==
    ASSUME Flags', Records', RecordShape', ReadinessShape', OperationShape', TaskShape', CallShape', ChildShape'
    PROVE  Typed'
BY Zenon DEF Typed, Shape, RecordShape, ReadinessShape, OperationShape, TaskShape, CallShape, ChildShape

\* A group a step leaves alone keeps its type: the algebra's record,
LEMMA RecordsFrame ==
    ASSUME Records, UNCHANGED <<registered, generation, state, incumbent, nextIntent, kind, target, outcome>>
    PROVE  Records'
BY DEF Records

\* the runtime's,
LEMMA RecordShapeFrame ==
    ASSUME RecordShape, UNCHANGED <<sessions, live, rgen, rstate, process>>
    PROVE  RecordShape'
BY DEF RecordShape

\* readiness,
LEMMA ReadinessShapeFrame ==
    ASSUME ReadinessShape, UNCHANGED <<readiness, readinessChild>>
    PROVE  ReadinessShape'
BY DEF ReadinessShape

\* the operations,
LEMMA OperationShapeFrame ==
    ASSUME OperationShape, UNCHANGED <<operationIDs, opState, opSession, opCaller, opFailure>>
    PROVE  OperationShape'
BY DEF OperationShape

\* the tasks,
LEMMA TaskShapeFrame ==
    ASSUME TaskShape, UNCHANGED <<phase, taskChild, taskGap>>
    PROVE  TaskShape'
BY DEF TaskShape

\* the calls,
LEMMA CallShapeFrame ==
    ASSUME CallShape, UNCHANGED <<client, work, waiter>>
    PROVE  CallShape'
BY DEF CallShape

\* the children.
LEMMA ChildShapeFrame ==
    ASSUME ChildShape, UNCHANGED <<spawned, childState, pipes, owner>>
    PROVE  ChildShape'
BY DEF ChildShape

\* A client that returns is idle.
LEMMA ClientBack ==
    ASSUME CallShape, NEW c \in Clients, client' = [client EXCEPT ![c] = Idle], UNCHANGED <<work, waiter>>
    PROVE  CallShape'
BY DEF CallShape

\* starter.Start keeps the type of the children.
LEMMA SpawnShape ==
    ASSUME ChildShape, NEW o \in Sessions \cup {None}, Spawn(o)
    PROVE  ChildShape'
<1>1. /\ spawned < MaxSpawns /\ spawned' = spawned + 1
      /\ childState' = [childState EXCEPT ![spawned + 1] = "running"]
      /\ owner' = [owner EXCEPT ![spawned + 1] = o]
      /\ UNCHANGED pipes
  BY Zenon DEF Spawn
<1>2. spawned' \in 0..MaxSpawns
  BY <1>1, RuntimeConstants DEF ChildShape
<1>3. QED
  BY <1>1, <1>2 DEF ChildShape

\* So do Teardown and Close.
LEMMA TearDownShape ==
    ASSUME ChildShape, NEW ch, NEW r \in ReapOutcomes, NEW p \in CloseOutcomes, TearDown(ch, r, p)
    PROVE  ChildShape'
<1>1. /\ childState' = [childState EXCEPT ![ch] = IF @ = "running" THEN r ELSE @]
      /\ pipes' = [pipes EXCEPT ![ch] = IF @ = "open" THEN p ELSE @]
      /\ UNCHANGED <<spawned, owner>>
  BY Zenon DEF TearDown
<1>2. r \in {"reaped", "unreaped"} /\ p \in {"closed", "broken"}
  BY RuntimeConstants
<1>3. childState' \in [Children -> {"none", "running", "reaped", "unreaped"}]
  BY <1>1, <1>2 DEF ChildShape
<1>4. pipes' \in [Children -> {"open", "closed", "broken"}]
  BY <1>1, <1>2 DEF ChildShape
<1>5. QED
  BY <1>1, <1>3, <1>4 DEF ChildShape

\* Flags stay Boolean.
LEMMA FlagsFrame ==
    ASSUME Flags, UNCHANGED <<retired, taskRetired, protocolOwned, lifecycleOwned, workerDone, closed>>
    PROVE  Flags'
BY DEF Flags

\* Start, first check.
LEMMA StartCheckTyped ==
    ASSUME Typed, NEW c \in Clients, NEW s \in Sessions, StartCheck(c, s)
    PROVE  Typed'
<1> USE TypedParts, TypedAgain DEF lifecycleVars, sessionVars, intentVars, recordVars, readinessVars, operationVars, taskVars,
         workerVars, shutdownVars, childVars
<1>1. UNCHANGED <<lifecycleVars, recordVars, readinessVars, operationVars, taskVars, workerVars, shutdownVars, childVars, work>>
  BY DEF StartCheck
<1>2. CallShape'
  <2>1. [op |-> "spawn", session |-> s] \in StartCall
    BY DEF StartCall
  <2>2. QED
    BY <1>1, <2>1 DEF StartCheck, CallShape
<1>3. QED
  BY <1>1, <1>2, FlagsFrame, RecordsFrame, RecordShapeFrame, ReadinessShapeFrame, OperationShapeFrame, TaskShapeFrame, ChildShapeFrame

\* Start, the spawn.
LEMMA StartSpawnTyped ==
    ASSUME Typed, NEW c \in Clients, StartSpawn(c)
    PROVE  Typed'
<1> USE TypedParts, TypedAgain DEF lifecycleVars, sessionVars, intentVars, recordVars, readinessVars, operationVars, taskVars,
         workerVars, shutdownVars
<1>1. UNCHANGED <<lifecycleVars, recordVars, readinessVars, operationVars, taskVars, workerVars, shutdownVars, work>>
  BY DEF StartSpawn
<1>2. CallShape' /\ ChildShape'
  <2>1. CASE client' = [client EXCEPT ![c] = Idle] /\ UNCHANGED childVars
    BY <1>1, <2>1, ClientBack, ChildShapeFrame DEF childVars
  <2>2. CASE /\ Spawn(None)
             /\ client' = [client EXCEPT ![c] = [op |-> "admit", session |-> client[c].session, child |-> spawned + 1]]
    <3>1. spawned + 1 \in Children
      BY <2>2, RuntimeConstants DEF Spawn, ChildShape, Children
    <3>2. client[c].session \in Sessions
      BY ClientCall DEF StartSpawn
    <3>3. [op |-> "admit", session |-> client[c].session, child |-> spawned + 1] \in StartCall
      BY <3>1, <3>2 DEF StartCall
    <3>4. CallShape'
      BY <1>1, <2>2, <3>3 DEF CallShape
    <3>5. QED
      BY <2>2, <3>4, SpawnShape
  <2>3. QED
    BY <2>1, <2>2 DEF StartSpawn
<1>3. QED
  BY <1>1, <1>2, FlagsFrame, RecordsFrame, RecordShapeFrame, ReadinessShapeFrame, OperationShapeFrame, TaskShapeFrame

\* Start, second check and admission.
LEMMA StartAdmitTyped ==
    ASSUME Typed, NEW c \in Clients, StartAdmit(c)
    PROVE  Typed'
<1> USE TypedParts, TypedAgain DEF readinessVars, operationVars, taskVars, workerVars, shutdownVars
<1>0. PICK s \in Sessions, ch \in Children : s = client[c].session /\ ch = client[c].child
  BY ClientCall DEF StartAdmit
<1>1. /\ client' = [client EXCEPT ![c] = Idle]
      /\ UNCHANGED <<readinessVars, operationVars, taskVars, workerVars, shutdownVars, work>>
  BY Zenon DEF StartAdmit
<1>2. CallShape'
  BY <1>1, ClientBack
<1>3. CASE /\ \E r \in ReapOutcomes, p \in CloseOutcomes : TearDown(ch, r, p)
           /\ UNCHANGED <<lifecycleVars, recordVars>>
  <2>1. ChildShape'
    BY <1>3, TearDownShape
  <2>2. QED
    BY <1>1, <1>2, <1>3, <2>1, FlagsFrame, RecordsFrame, RecordShapeFrame, ReadinessShapeFrame, OperationShapeFrame, TaskShapeFrame
    DEF lifecycleVars, sessionVars, intentVars, recordVars
<1>4. CASE /\ IF s \in registered THEN UNCHANGED lifecycleVars
                                  ELSE RegisterLifecycle(s, 1, Initializing, FALSE)
           /\ live' = live \cup {s}
           /\ sessions' = sessions \cup {s}
           /\ rgen' = [rgen EXCEPT ![s] = 1]
           /\ rstate' = [rstate EXCEPT ![s] = Initializing]
           /\ process' = [process EXCEPT ![s] = ch]
           /\ retired' = [retired EXCEPT ![s] = FALSE]
           /\ protocolOwned' = [protocolOwned EXCEPT ![s] = FALSE]
           /\ lifecycleOwned' = [lifecycleOwned EXCEPT ![s] = FALSE]
           /\ owner' = [owner EXCEPT ![ch] = s]
           /\ UNCHANGED <<spawned, childState, pipes>>
  <2>1. Flags'
    BY <1>1, <1>4 DEF Flags
  <2>2. RecordShape'
    BY <1>4 DEF RecordShape, State
  <2>3. ChildShape'
    BY <1>4 DEF ChildShape
  <2>4. Records'
    <3>1. CASE s \in registered
      BY <1>4, <3>1, RecordsFrame DEF lifecycleVars, sessionVars, intentVars
    <3>2. CASE s \notin registered
      <4>1. /\ registered' = registered \cup {s} /\ generation' = [generation EXCEPT ![s] = 1]
            /\ state' = [state EXCEPT ![s] = Initializing] /\ incumbent' = [incumbent EXCEPT ![s] = None]
            /\ UNCHANGED intentVars
        BY <1>4, <3>2 DEF RegisterLifecycle, Registered
      <4>2. QED
        BY <4>1 DEF Records, intentVars, State
    <3>3. QED
      BY <3>1, <3>2
  <2>5. QED
    BY <1>1, <1>2, <2>1, <2>2, <2>3, <2>4, ReadinessShapeFrame, OperationShapeFrame, TaskShapeFrame
<1>5. QED
  BY <1>0, <1>3, <1>4 DEF StartAdmit

\* The beginning of a handshake.
LEMMA ReadinessTyped ==
    ASSUME Typed, NEW s \in Sessions, NEW g \in Nat, ReadinessBegins(s, g)
    PROVE  ReadinessShape' /\ protocolOwned' \in [Sessions -> BOOLEAN]
<1>1. /\ readiness' = [readiness EXCEPT ![<<s, g>>] = "pending"]
      /\ readinessChild' = [readinessChild EXCEPT ![<<s, g>>] = process[s]]
      /\ protocolOwned' = [protocolOwned EXCEPT ![s] = TRUE]
  BY Zenon DEF ReadinessBegins
<1>2. process[s] \in Children \cup {None}
  BY DEF Typed, Shape
<1>3. QED
  BY <1>1, <1>2, TypedParts DEF ReadinessShape, Flags

\* BeginReadiness.
LEMMA BeginReadinessTyped ==
    ASSUME Typed, NEW s \in Sessions, BeginReadiness(s)
    PROVE  Typed'
<1> USE TypedParts, TypedAgain DEF lifecycleVars, sessionVars, intentVars, operationVars, taskVars, shutdownVars, childVars
<1>1. rgen[s] \in Nat
  BY DEF RecordShape
<1>2. ReadinessBegins(s, rgen[s]) /\
      UNCHANGED <<lifecycleVars, sessions, rgen, rstate, process, retired, lifecycleOwned, live,
                  operationVars, taskVars, workerDone, shutdownVars, childVars, client, work>>
  BY DEF BeginReadiness
<1>3. ReadinessShape' /\ protocolOwned' \in [Sessions -> BOOLEAN]
  BY <1>1, <1>2, ReadinessTyped
<1>4. Flags'
  BY <1>2, <1>3 DEF Flags
<1>5. QED
  BY <1>2, <1>3, <1>4, RecordsFrame, RecordShapeFrame, OperationShapeFrame, TaskShapeFrame, CallShapeFrame, ChildShapeFrame

\* A handshake that fails.
LEMMA AbortReadinessTyped ==
    ASSUME Typed, NEW s \in Sessions, NEW g \in Generations, AbortReadiness(s, g)
    PROVE  Typed'
<1> USE TypedParts, TypedAgain DEF lifecycleVars, sessionVars, intentVars, recordVars, operationVars, taskVars, workerVars, shutdownVars
<1>1. /\ UNCHANGED <<lifecycleVars, recordVars, readinessChild, operationVars, taskVars, workerVars, shutdownVars, client, work>>
      /\ readiness' = [readiness EXCEPT ![<<s, g>>] = "aborted"]
  BY DEF AbortReadiness
<1>2. ReadinessShape'
  BY <1>1 DEF ReadinessShape
<1>3. ChildShape'
  BY TearDownShape DEF AbortReadiness
<1>4. QED
  BY <1>1, <1>2, <1>3, FlagsFrame, RecordsFrame, RecordShapeFrame, OperationShapeFrame, TaskShapeFrame, CallShapeFrame

\* finishReadiness.
LEMMA FinishReadinessTyped ==
    ASSUME Typed, NEW s \in Sessions, NEW g \in Generations, FinishReadiness(s, g)
    PROVE  Typed'
<1> USE TypedParts, TypedAgain DEF operationVars, taskVars, shutdownVars, childVars
<1>0. PICK ok \in BOOLEAN : ok <=> readiness[<<s, g>>] = "pending"
  OBVIOUS
<1>1. /\ readiness' = [readiness EXCEPT ![<<s, g>>] = IF ok THEN "ready" ELSE "failed"]
      /\ workerDone' = TRUE
      /\ UNCHANGED <<sessions, rgen, process, lifecycleOwned, live, readinessChild, operationVars,
                     taskVars, shutdownVars, childVars, client, work>>
  BY <1>0 DEF FinishReadiness, WorkerEnds
<1>2. ReadinessShape'
  BY <1>1 DEF ReadinessShape
<1>3. ObserveInitialization(s, ok) \/ UNCHANGED lifecycleVars
  BY <1>0 DEF FinishReadiness
<1>4. Records'
  <2>1. CASE ObserveInitialization(s, ok)
    BY <2>1 DEF ObserveInitialization, Records, intentVars, State
  <2>2. CASE UNCHANGED lifecycleVars
    BY <2>2, RecordsFrame DEF lifecycleVars, sessionVars, intentVars
  <2>3. QED
    BY <1>3, <2>1, <2>2
<1>5. RecordShape'
  <2>1. rstate' = [rstate EXCEPT ![s] = state'[s]] \/ UNCHANGED rstate
    BY DEF FinishReadiness
  <2>2. state'[s] \in State
    BY <1>4 DEF Records
  <2>3. QED
    BY <1>1, <2>1, <2>2 DEF RecordShape
<1>6. Flags'
  <2>1. \/ /\ protocolOwned' = [protocolOwned EXCEPT ![s] = FALSE]
           /\ retired' = [retired EXCEPT ![s] = @ \/ ~ok]
        \/ UNCHANGED <<protocolOwned, retired>>
    BY <1>0 DEF FinishReadiness
  <2>2. QED
    BY <1>1, <2>1 DEF Flags
<1>7. QED
  BY <1>1, <1>2, <1>4, <1>5, <1>6, OperationShapeFrame, TaskShapeFrame, CallShapeFrame, ChildShapeFrame

\* RoundTrip and PrepareDocument take the lease.
LEMMA BeginExchangeTyped ==
    ASSUME Typed, NEW c \in Clients, NEW s \in Sessions, NEW document \in BOOLEAN, BeginExchange(c, s, document)
    PROVE  Typed'
<1> USE TypedParts, TypedAgain DEF lifecycleVars, sessionVars, intentVars, readinessVars, operationVars, taskVars, shutdownVars, childVars
<1>1. /\ UNCHANGED <<lifecycleVars, sessions, rgen, rstate, process, retired, lifecycleOwned, live,
                     readinessVars, operationVars, taskVars, workerDone, shutdownVars, childVars>>
      /\ protocolOwned' = [protocolOwned EXCEPT ![s] = TRUE]
      /\ client' = [client EXCEPT ![c] = [op |-> "io", session |-> s, generation |-> rgen[s], child |-> process[s]]]
      /\ work < MaxWork /\ work' = work + 1
  BY DEF BeginExchange
<1>2. Flags'
  BY <1>1 DEF Flags
<1>3. CallShape'
  <2>1. [op |-> "io", session |-> s, generation |-> rgen[s], child |-> process[s]] \in Exchange
    BY DEF Exchange, RecordShape
  <2>2. work' \in 0..MaxWork
    BY <1>1, RuntimeConstants DEF CallShape
  <2>3. QED
    BY <1>1, <2>1, <2>2 DEF CallShape
<1>4. QED
  BY <1>1, <1>2, <1>3, RecordsFrame, RecordShapeFrame, ReadinessShapeFrame, OperationShapeFrame, TaskShapeFrame, ChildShapeFrame

\* An exchange that goes on.
LEMMA ExchangeStageTyped ==
    ASSUME Typed, NEW c \in Clients, NEW o \in {"answered", "retired"}, client[c].op = "io",
           client' = [client EXCEPT ![c] = [client[c] EXCEPT !.op = o]], UNCHANGED <<work, waiter>>
    PROVE  CallShape'
<1>1. client[c] \in Exchange
  BY DEF Typed, Shape, Idle, StartCall, Exchange
<1>2. [client[c] EXCEPT !.op = o] \in Exchange
  BY <1>1 DEF Exchange
<1>3. QED
  BY <1>2, TypedParts DEF CallShape

\* An exchange that is answered.
LEMMA AnswerExchangeTyped ==
    ASSUME Typed, NEW c \in Clients, AnswerExchange(c)
    PROVE  Typed'
<1> USE TypedParts, TypedAgain DEF lifecycleVars, sessionVars, intentVars, recordVars, readinessVars, operationVars, taskVars,
         workerVars, shutdownVars, childVars
<1>1. UNCHANGED <<lifecycleVars, recordVars, readinessVars, operationVars, taskVars, workerVars, shutdownVars, childVars, work>>
  BY DEF AnswerExchange
<1>2. CallShape'
  BY <1>1, ExchangeStageTyped DEF AnswerExchange
<1>3. QED
  BY <1>1, <1>2, FlagsFrame, RecordsFrame, RecordShapeFrame, ReadinessShapeFrame, OperationShapeFrame, TaskShapeFrame, ChildShapeFrame

\* An exchange that is retired.
LEMMA RetireExchangeTyped ==
    ASSUME Typed, NEW c \in Clients, RetireExchange(c)
    PROVE  Typed'
<1> USE TypedParts, TypedAgain DEF lifecycleVars, sessionVars, intentVars, recordVars, readinessVars, operationVars, taskVars,
         workerVars, shutdownVars
<1>1. UNCHANGED <<lifecycleVars, recordVars, readinessVars, operationVars, taskVars, workerVars, shutdownVars, work>>
  BY DEF RetireExchange
<1>2. CallShape'
  BY <1>1, ExchangeStageTyped DEF RetireExchange
<1>3. ChildShape'
  BY TearDownShape DEF RetireExchange
<1>4. QED
  BY <1>1, <1>2, <1>3, FlagsFrame, RecordsFrame, RecordShapeFrame, ReadinessShapeFrame, OperationShapeFrame, TaskShapeFrame

\* finishRoundTrip.
LEMMA FinishExchangeTyped ==
    ASSUME Typed, NEW c \in Clients, FinishExchange(c)
    PROVE  Typed'
<1> USE TypedParts, TypedAgain DEF lifecycleVars, sessionVars, intentVars, readinessVars, operationVars, taskVars, shutdownVars, childVars
<1>0. PICK s \in Sessions : s = client[c].session
  BY ClientCall DEF FinishExchange, Exchanging
<1>1. /\ client' = [client EXCEPT ![c] = Idle] /\ workerDone' = TRUE
      /\ UNCHANGED <<lifecycleVars, sessions, rgen, process, lifecycleOwned, live, readinessVars,
                     operationVars, taskVars, shutdownVars, childVars, work>>
  BY DEF FinishExchange, WorkerEnds
<1>2. PICK poison \in BOOLEAN : poison <=> client[c].op = "retired"
  OBVIOUS
<1>3. \/ UNCHANGED <<protocolOwned, rstate, retired>>
      \/ /\ protocolOwned' = [protocolOwned EXCEPT ![s] = FALSE]
         /\ rstate' = [rstate EXCEPT ![s] = IF poison THEN Poisoned ELSE rstate[s]]
         /\ retired' = [retired EXCEPT ![s] = @ \/ poison]
  BY <1>0, <1>2 DEF FinishExchange, StateAfterExchange
<1>4. Flags'
  BY <1>1, <1>3 DEF Flags
<1>5. RecordShape'
  BY <1>1, <1>3 DEF RecordShape, State
<1>6. CallShape'
  BY <1>1, ClientBack
<1>7. QED
  BY <1>1, <1>4, <1>5, <1>6, RecordsFrame, ReadinessShapeFrame, OperationShapeFrame, TaskShapeFrame, ChildShapeFrame

\* runLifecycle, the teardown.
LEMMA TeardownTaskTyped ==
    ASSUME Typed, NEW i \in Intents, TeardownTask(i)
    PROVE  Typed'
<1> USE TypedParts, TypedAgain DEF lifecycleVars, sessionVars, intentVars, recordVars, readinessVars, operationVars, workerVars, shutdownVars
<1>1. /\ UNCHANGED <<lifecycleVars, recordVars, readinessVars, operationVars, taskChild, taskRetired, workerVars, shutdownVars, client, work>>
      /\ phase' = [phase EXCEPT ![i] = "complete"]
  BY DEF TeardownTask
<1>2. \A a \in BOOLEAN : \A b, d : Evidence(a, b, d) \in TeardownGap
  BY DEF Evidence, TeardownGap
<1>3. CASE taskRetired[i]
  <2>1. UNCHANGED childVars /\ \E a \in BOOLEAN : \E b, d : taskGap' = [taskGap EXCEPT ![i] = Evidence(a, b, d)]
    BY <1>3 DEF TeardownTask
  <2>2. TaskShape'
    BY <1>1, <1>2, <2>1 DEF TaskShape, Phase
  <2>3. ChildShape'
    BY <2>1, ChildShapeFrame DEF childVars
  <2>4. QED
    BY <1>1, <2>2, <2>3, FlagsFrame, RecordsFrame, RecordShapeFrame, ReadinessShapeFrame, OperationShapeFrame, CallShapeFrame
<1>4. CASE ~ taskRetired[i]
  <2>1. PICK r \in ReapOutcomes, p \in CloseOutcomes, shutdown \in BOOLEAN :
             /\ TearDown(taskChild[i], r, p)
             /\ taskGap' = [taskGap EXCEPT ![i] = Evidence(shutdown, pipes'[taskChild[i]], childState'[taskChild[i]])]
    BY <1>4 DEF TeardownTask
  <2>2. TaskShape'
    BY <1>1, <1>2, <2>1 DEF TaskShape, Phase
  <2>3. ChildShape'
    BY <2>1, TearDownShape
  <2>4. QED
    BY <1>1, <2>2, <2>3, FlagsFrame, RecordsFrame, RecordShapeFrame, ReadinessShapeFrame, OperationShapeFrame, CallShapeFrame
<1>5. QED
  BY <1>3, <1>4

\* FinishOperation: the outcome of an operation.
LEMMA FinishOperationTyped ==
    ASSUME OperationShape, NEW i, NEW st \in {"complete", "failed"}, NEW failure \in Failure \cup {SpawnFailure},
           FinishOperation(i, st, failure)
    PROVE  OperationShape' /\ workerDone' = TRUE
BY DEF OperationShape, FinishOperation, WorkerEnds

\* runLifecycle, the spawn of the successor; its session is one (Known).
LEMMA SpawnTaskTyped ==
    ASSUME Typed, RuntimeInv, NEW i \in Intents, SpawnTask(i)
    PROVE  Typed'
<1> USE TypedParts, TypedAgain DEF lifecycleVars, sessionVars, intentVars, recordVars, readinessVars, operationVars, workerVars, shutdownVars
<1>1. /\ UNCHANGED <<lifecycleVars, recordVars, readinessVars, operationVars, taskRetired, taskGap, workerVars, shutdownVars, client, work>>
      /\ phase' = [phase EXCEPT ![i] = "install"]
  BY DEF SpawnTask
<1>2. opSession[i] \in Sessions \cup {None}
  BY DEF OperationShape
<1>3. TaskShape' /\ ChildShape'
  <2>1. CASE taskChild' = [taskChild EXCEPT ![i] = None] /\ UNCHANGED childVars
    BY <1>1, <2>1, ChildShapeFrame DEF TaskShape, Phase, childVars
  <2>2. CASE Spawn(opSession[i]) /\ taskChild' = [taskChild EXCEPT ![i] = spawned + 1]
    <3>1. spawned + 1 \in Children
      BY <2>2, RuntimeConstants DEF Spawn, ChildShape, Children
    <3>2. TaskShape'
      BY <1>1, <2>2, <3>1 DEF TaskShape, Phase
    <3>3. QED
      BY <1>2, <2>2, <3>2, SpawnShape
  <2>3. QED
    BY <2>1, <2>2 DEF SpawnTask
<1>4. QED
  BY <1>1, <1>3, FlagsFrame, RecordsFrame, RecordShapeFrame, ReadinessShapeFrame, OperationShapeFrame, CallShapeFrame

\* A sequence without its m-th element has the others.
Without(q, m) == SubSeq(q, 1, m - 1) \o SubSeq(q, m + 1, Len(q))

\* It is one shorter, and every other element is still there.
LEMMA WithoutOne ==
    ASSUME NEW S, NEW q \in Seq(S), NEW m \in 1..Len(q)
    PROVE  /\ Without(q, m) \in Seq(S) /\ Len(Without(q, m)) = Len(q) - 1
           /\ \A j \in 1..Len(q) : j # m => \E k \in 1..Len(Without(q, m)) : Without(q, m)[k] = q[j]
<1> DEFINE r == Without(q, m)
<1> HIDE DEF r
<1>1. PICK n \in Nat : n = Len(q) /\ m \in 1..n
  OBVIOUS
<1>2. PICK front : front = SubSeq(q, 1, m - 1)
  OBVIOUS
<1>3. PICK back : back = SubSeq(q, m + 1, n)
  OBVIOUS
<1>4. /\ front \in Seq(S) /\ Len(front) = m - 1
      /\ \A k \in 1..(m - 1) : front[k] = q[k]
  <2>1. \A k \in 1..(m - 1) : q[k] \in S
    BY <1>1
  <2>2. /\ SubSeq(q, 1, m - 1) \in Seq(S)
        /\ Len(SubSeq(q, 1, m - 1)) = IF 1 <= m - 1 THEN (m - 1) - 1 + 1 ELSE 0
        /\ \A k \in 1..((m - 1) - 1 + 1) : SubSeq(q, 1, m - 1)[k] = q[1 + k - 1]
    BY <1>1, <2>1, SubSeqProperties
  <2>3. (m - 1) - 1 + 1 = m - 1 /\ (\A k \in 1..(m - 1) : 1 + k - 1 = k) /\ (1 <= m - 1 \/ m - 1 = 0)
    BY <1>1
  <2>4. QED
    BY <1>2, <2>2, <2>3
<1>5. /\ back \in Seq(S) /\ Len(back) = n - m
      /\ \A k \in 1..(n - m) : back[k] = q[m + k]
  <2>1. \A k \in (m + 1)..n : q[k] \in S
    BY <1>1
  <2>2. /\ SubSeq(q, m + 1, n) \in Seq(S)
        /\ Len(SubSeq(q, m + 1, n)) = IF m + 1 <= n THEN n - (m + 1) + 1 ELSE 0
        /\ \A k \in 1..(n - (m + 1) + 1) : SubSeq(q, m + 1, n)[k] = q[(m + 1) + k - 1]
    BY <1>1, <2>1, SubSeqProperties
  <2>3. n - (m + 1) + 1 = n - m /\ (\A k \in 1..(n - m) : (m + 1) + k - 1 = m + k) /\ (m + 1 <= n \/ n - m = 0)
    BY <1>1
  <2>4. QED
    BY <1>3, <2>2, <2>3
<1>6. /\ r \in Seq(S) /\ Len(r) = (m - 1) + (n - m)
      /\ \A k \in 1..((m - 1) + (n - m)) : r[k] = IF k <= m - 1 THEN front[k] ELSE back[k - (m - 1)]
  <2>1. r = front \o back
    BY <1>1, <1>2, <1>3 DEF r, Without
  <2>2. /\ front \o back \in Seq(S) /\ Len(front \o back) = Len(front) + Len(back)
        /\ \A k \in 1..(Len(front) + Len(back)) :
              (front \o back)[k] = IF k <= Len(front) THEN front[k] ELSE back[k - Len(front)]
    BY <1>4, <1>5, ConcatProperties
  <2>3. Len(front) = m - 1 /\ Len(back) = n - m
    BY <1>4, <1>5
  <2>4. QED
    BY <2>1, <2>2, <2>3
<1>7. Len(r) = n - 1 /\ (m - 1) + (n - m) = n - 1
  BY <1>1, <1>6
<1>8. ASSUME NEW j \in 1..n, j # m PROVE \E k \in 1..(n - 1) : r[k] = q[j]
  <2>1. CASE j < m
    <3>1. j \in 1..(m - 1) /\ j \in 1..(n - 1) /\ j <= m - 1
      BY <1>1, <2>1
    <3>2. r[j] = front[j]
      BY <1>6, <1>7, <3>1
    <3>3. QED
      BY <1>4, <3>1, <3>2
  <2>2. CASE j > m
    <3>1. /\ j - m \in 1..(n - m) /\ j - 1 \in 1..(n - 1) /\ j = m + (j - m)
          /\ ~ (j - 1 <= m - 1) /\ (j - 1) - (m - 1) = j - m
      BY <1>1, <2>2
    <3>2. r[j - 1] = back[j - m]
      BY <1>6, <1>7, <3>1
    <3>3. back[j - m] = q[j]
      BY <1>5, <3>1
    <3>4. QED
      BY <3>1, <3>2, <3>3
  <2>3. j < m \/ j > m
    BY <1>1, <1>8
  <2>4. QED
    BY <2>1, <2>2, <2>3
<1>9. QED
  BY <1>1, <1>6, <1>7, <1>8 DEF r

\* reserveOperation forgets at most one operation, and never a pending one.
LEMMA ReservedKeeps ==
    ASSUME NEW ids \in Seq(Intents), CanReserve(ids)
    PROVE  /\ Reserved(ids) \in Seq(Intents)
           /\ Len(ids) <= MaxOperations => Len(Reserved(ids)) < MaxOperations
           /\ \A j \in DOMAIN ids : opState[ids[j]] = "pending" =>
                 \E k \in DOMAIN Reserved(ids) : Reserved(ids)[k] = ids[j]
<1>1. CASE Len(ids) < MaxOperations
  BY <1>1 DEF Reserved
<1>2. CASE ~ (Len(ids) < MaxOperations)
  <2>1. Finished(ids) # {} /\ Finished(ids) \subseteq Nat /\ Finished(ids) \subseteq DOMAIN ids
    BY <1>2 DEF CanReserve, Finished
  <2>2. \E j \in Finished(ids) : \A k \in Finished(ids) : j <= k
    BY <2>1, LeastNatural
  <2>3. PICK m : m = CHOOSE j \in Finished(ids) : \A k \in Finished(ids) : j <= k
    OBVIOUS
  <2>4. m \in Finished(ids)
    BY <2>2, <2>3
  <2>5. m \in 1..Len(ids) /\ opState[ids[m]] # "pending"
    BY <2>4 DEF Finished
  <2>6. Reserved(ids) = Without(ids, m)
    BY <1>2, <2>3 DEF Reserved, Without
  <2>7. /\ Reserved(ids) \in Seq(Intents) /\ Len(Reserved(ids)) = Len(ids) - 1
        /\ \A j \in 1..Len(ids) : j # m => \E k \in 1..Len(Reserved(ids)) : Reserved(ids)[k] = ids[j]
    BY <2>5, <2>6, WithoutOne
  <2>8. Len(ids) <= MaxOperations => Len(Reserved(ids)) < MaxOperations
    BY <2>7, RuntimeConstants
  <2>9. DOMAIN ids = 1..Len(ids) /\ DOMAIN Reserved(ids) = 1..Len(Reserved(ids))
    BY <2>7
  <2>10. QED
    BY <2>5, <2>7, <2>8, <2>9
<1>3. QED
  BY <1>1, <1>2

\* Stop and Restart.
LEMMA TerminateTyped ==
    ASSUME Typed, NEW s \in Sessions, NEW c \in Callers, NEW k \in {"STOP", "RESTART"}, Terminate(s, c, k)
    PROVE  Typed'
<1> USE TypedParts, TypedAgain DEF readinessVars, childVars, shutdownVars
<1>0. PICK i \in Intents : i = nextIntent + 1 /\ nextIntent' = i
  BY LifecycleConstants DEF Terminate, Insert, NewIntent, Records, Intents
<1>1. /\ HasCapacity /\ TerminateWorker(s, c, i)
      /\ UNCHANGED <<sessions, rgen, rstate, process, retired, live, readinessVars, workerDone, shutdownVars, childVars, client, work>>
  BY <1>0 DEF Terminate
<1>2. /\ kind' = [kind EXCEPT ![i] = k] /\ target' = [target EXCEPT ![i] = generation[s]]
      /\ incumbent' = [incumbent EXCEPT ![s] = i]
      /\ UNCHANGED <<outcome, registered, generation>>
      /\ state' = [state EXCEPT ![s] = lifecycleIntentState(@, TRUE, FALSE)]
  BY <1>0 DEF Terminate, Insert, NewIntent
<1>3. /\ operationIDs' = Append(Reserved(operationIDs), i)
      /\ opState' = [opState EXCEPT ![i] = "pending"]
      /\ opSession' = [opSession EXCEPT ![i] = s]
      /\ opCaller' = [opCaller EXCEPT ![i] = c]
      /\ protocolOwned' = [protocolOwned EXCEPT ![s] = TRUE]
      /\ lifecycleOwned' = [lifecycleOwned EXCEPT ![s] = TRUE]
      /\ phase' = [phase EXCEPT ![i] = "teardown"]
      /\ taskChild' = [taskChild EXCEPT ![i] = process[s]]
      /\ taskRetired' = [taskRetired EXCEPT ![i] = retired[s]]
      /\ UNCHANGED <<opFailure, taskGap>>
  BY <1>1, Zenon DEF TerminateWorker
<1>4. Flags'
  BY <1>1, <1>3 DEF Flags
<1>5. Records'
  <2>1. \A st \in State : lifecycleIntentState(st, TRUE, FALSE) \in State
    BY DEF lifecycleIntentState, State
  <2>2. nextIntent' \in 0..MaxIntents
    BY <1>0 DEF Intents
  <2>3. state' \in [Sessions -> State]
    BY <1>2, <2>1 DEF Records
  <2>4. incumbent' \in [Sessions -> Intents \cup {None}] /\ target' \in [Intents -> Nat]
    BY <1>2 DEF Records
  <2>5. kind' \in [Intents -> Kind \cup {None}]
    BY <1>2 DEF Records, Kind
  <2>6. QED
    BY <1>2, <2>2, <2>3, <2>4, <2>5 DEF Records
<1>6. OperationShape'
  <2>1. Reserved(operationIDs) \in Seq(Intents)
    BY <1>1, ReservedKeeps DEF HasCapacity, OperationShape
  <2>2. operationIDs' \in Seq(Intents)
    BY <1>3, <2>1, AppendProperties
  <2>3. QED
    BY <1>3, <2>2 DEF OperationShape
<1>7. TaskShape'
  <2>1. process[s] \in Children \cup {None}
    BY DEF RecordShape
  <2>2. QED
    BY <1>3, <2>1 DEF TaskShape, Phase
<1>8. QED
  BY <1>1, <1>4, <1>5, <1>6, <1>7, RecordShapeFrame, ReadinessShapeFrame, CallShapeFrame, ChildShapeFrame

\* runLifecycle, the completion.
LEMMA CompleteTaskTyped ==
    ASSUME Typed, RuntimeInv, NEW i \in Intents, CompleteTask(i)
    PROVE  Typed'
<1> USE TypedParts, TypedAgain DEF readinessVars, childVars, shutdownVars
<1>1. /\ phase[i] = "complete"
      /\ UNCHANGED <<rgen, process, retired, readinessVars, taskChild, taskRetired, taskGap, shutdownVars, childVars, client, work>>
  BY Zenon DEF CompleteTask
<1>2. PICK s \in Sessions : s = opSession[i]
  BY <1>1 DEF RuntimeInv, Known
<1>3. PICK gap \in TeardownGap : gap = taskGap[i]
  BY DEF TaskShape
<1>4. firstTeardownFailure(gap) \in Failure
  BY DEF firstTeardownFailure, TeardownGap, Failure
<1>5. CompleteLifecycleObserved(s, i, gap, "pending")
  BY <1>2, <1>3 DEF CompleteTask
<1>6. Records'
  <2>1. ASSUME NEW result \in Result, NEW readyFor, Terminalize(s, i, result, readyFor), generation' \in [Sessions -> Nat]
        PROVE  Records'
    <3>1. /\ UNCHANGED <<registered, nextIntent, kind, target>>
          /\ incumbent' = [incumbent EXCEPT ![s] = None] /\ state' = [state EXCEPT ![s] = result.state]
          /\ outcome' = [outcome EXCEPT ![i] = result]
      BY <2>1, Zenon DEF Terminalize, Vacated
    <3>2. result.state \in State
      BY DEF Result
    <3>3. QED
      BY <2>1, <3>1, <3>2 DEF Records
  <2>2. generation[s] \in Nat
    BY DEF Records
  <2>3. CASE firstTeardownFailure(gap) # ""
    <3>1. Terminalize(s, i, FailedResult(s, firstTeardownFailure(gap)), {}) /\ UNCHANGED generation
      BY <1>5, <2>3, Zenon DEF CompleteLifecycleObserved
    <3>2. FailedResult(s, firstTeardownFailure(gap)) \in Result
      BY <1>4, <2>2 DEF FailedResult, Result, State
    <3>3. QED
      BY <2>1, <3>1, <3>2 DEF Records
  <2>4. CASE firstTeardownFailure(gap) = ""
    <3> DEFINE g == IF kind[i] = "RESTART" THEN generation[s] + 1 ELSE generation[s]
               st == IF kind[i] # "RESTART" THEN Stopped ELSE Initializing
    <3>1. \E readyFor : Terminalize(s, i, [state |-> st, generation |-> g, failure |-> ""], readyFor)
      BY <1>5, <2>4 DEF CompleteLifecycleObserved
    <3>2. generation' = [generation EXCEPT ![s] = g]
      BY <1>5, <2>4 DEF CompleteLifecycleObserved
    <3>3. g \in Nat /\ st \in State
      BY <2>2 DEF State
    <3> HIDE DEF g, st
    <3>4. [state |-> st, generation |-> g, failure |-> ""] \in Result
      BY <3>3 DEF Result, Failure
    <3>5. generation' \in [Sessions -> Nat]
      BY <3>2, <3>3 DEF Records
    <3>6. QED
      BY <2>1, <3>1, <3>4, <3>5
  <2>5. QED
    BY <2>3, <2>4
<1>7. CASE /\ rstate' = [rstate EXCEPT ![s] = Poisoned]
           /\ protocolOwned' = [protocolOwned EXCEPT ![s] = FALSE]
           /\ lifecycleOwned' = [lifecycleOwned EXCEPT ![s] = FALSE]
           /\ phase' = [phase EXCEPT ![i] = "done"]
           /\ FinishOperation(i, "failed", firstTeardownFailure(gap))
           /\ UNCHANGED <<sessions, live>>
  <2>1. OperationShape' /\ workerDone' = TRUE
    BY <1>4, <1>7, FinishOperationTyped
  <2>2. Flags'
    BY <1>1, <1>7, <2>1 DEF Flags
  <2>3. RecordShape'
    BY <1>1, <1>7 DEF RecordShape, State
  <2>4. TaskShape'
    BY <1>1, <1>7 DEF TaskShape, Phase
  <2>5. QED
    BY <1>1, <1>6, <2>1, <2>2, <2>3, <2>4, ReadinessShapeFrame, CallShapeFrame, ChildShapeFrame
<1>8. CASE /\ sessions' = sessions \ {s}
           /\ live' = LiveAfterStop(s)
           /\ phase' = [phase EXCEPT ![i] = "done"]
           /\ FinishOperation(i, "complete", "")
           /\ UNCHANGED <<rstate, protocolOwned, lifecycleOwned>>
  <2>1. OperationShape' /\ workerDone' = TRUE
    BY <1>8, FinishOperationTyped DEF Failure
  <2>2. Flags'
    BY <1>1, <1>8, <2>1 DEF Flags
  <2>3. RecordShape'
    BY <1>1, <1>8 DEF RecordShape, LiveAfterStop
  <2>4. TaskShape'
    BY <1>1, <1>8 DEF TaskShape, Phase
  <2>5. QED
    BY <1>1, <1>6, <2>1, <2>2, <2>3, <2>4, ReadinessShapeFrame, CallShapeFrame, ChildShapeFrame
<1>9. CASE /\ phase' = [phase EXCEPT ![i] = "spawn"]
           /\ UNCHANGED <<sessions, live, rstate, protocolOwned, lifecycleOwned, operationVars, workerVars>>
  <2>1. TaskShape'
    BY <1>1, <1>9 DEF TaskShape, Phase
  <2>2. QED
    BY <1>1, <1>6, <1>9, <2>1, FlagsFrame, RecordShapeFrame, ReadinessShapeFrame, OperationShapeFrame, CallShapeFrame, ChildShapeFrame
    DEF operationVars, workerVars
<1>10. QED
  BY <1>2, <1>3, <1>7, <1>8, <1>9 DEF CompleteTask

\* runLifecycle, the installation; the successor's generation is a number (Known).
LEMMA InstallTaskTyped ==
    ASSUME Typed, RuntimeInv, NEW i \in Intents, InstallTask(i)
    PROVE  Typed'
<1> USE TypedParts, TypedAgain DEF lifecycleVars, sessionVars, intentVars, readinessVars, childVars, shutdownVars
<1>1. /\ phase[i] = "install"
      /\ UNCHANGED <<lifecycleVars, sessions, live, readinessVars, taskChild, taskRetired, taskGap, shutdownVars, childVars, client, work>>
  BY Zenon DEF InstallTask
<1>2. PICK s \in Sessions : s = opSession[i]
  BY <1>1 DEF RuntimeInv, Known
<1>3. outcome[i].generation \in Nat /\ taskChild[i] \in Children \cup {None}
  BY <1>1 DEF RuntimeInv, Known, Records, TaskShape
<1>4. CASE /\ rstate' = [rstate EXCEPT ![s] = Poisoned]
           /\ phase' = [phase EXCEPT ![i] = "done"]
           /\ FinishOperation(i, "failed", SpawnFailure)
           /\ UNCHANGED <<rgen, process, retired, protocolOwned, lifecycleOwned>>
  <2>1. OperationShape' /\ workerDone' = TRUE
    BY <1>4, FinishOperationTyped
  <2>2. Flags'
    BY <1>1, <1>4, <2>1 DEF Flags
  <2>3. RecordShape'
    BY <1>1, <1>4 DEF RecordShape, State
  <2>4. TaskShape'
    BY <1>1, <1>4 DEF TaskShape, Phase
  <2>5. QED
    BY <1>1, <2>1, <2>2, <2>3, <2>4, RecordsFrame, ReadinessShapeFrame, CallShapeFrame, ChildShapeFrame
<1>5. CASE /\ process' = [process EXCEPT ![s] = taskChild[i]]
           /\ rgen' = [rgen EXCEPT ![s] = outcome[i].generation]
           /\ rstate' = [rstate EXCEPT ![s] = Initializing]
           /\ retired' = [retired EXCEPT ![s] = FALSE]
           /\ protocolOwned' = [protocolOwned EXCEPT ![s] = FALSE]
           /\ lifecycleOwned' = [lifecycleOwned EXCEPT ![s] = FALSE]
           /\ phase' = [phase EXCEPT ![i] = "begin"]
           /\ UNCHANGED <<operationVars, workerVars>>
  <2>1. Flags'
    BY <1>1, <1>5 DEF Flags, workerVars
  <2>2. RecordShape'
    BY <1>1, <1>3, <1>5 DEF RecordShape, State
  <2>3. TaskShape'
    BY <1>1, <1>5 DEF TaskShape, Phase
  <2>4. QED
    BY <1>1, <1>5, <2>1, <2>2, <2>3, RecordsFrame, ReadinessShapeFrame, OperationShapeFrame, CallShapeFrame, ChildShapeFrame
    DEF operationVars
<1>6. QED
  BY <1>2, <1>4, <1>5 DEF InstallTask

\* runLifecycle, the successor's handshake.
LEMMA BeginTaskTyped ==
    ASSUME Typed, RuntimeInv, NEW i \in Intents, BeginTask(i)
    PROVE  Typed'
<1> USE TypedParts, TypedAgain DEF lifecycleVars, sessionVars, intentVars, operationVars, childVars, shutdownVars
<1>1. /\ phase[i] = "begin"
      /\ UNCHANGED <<lifecycleVars, sessions, rgen, rstate, process, retired, lifecycleOwned, live,
                     operationVars, taskChild, taskRetired, taskGap, workerDone, shutdownVars, childVars, client, work>>
  BY DEF BeginTask
<1>2. PICK s \in Sessions, g \in Nat : s = opSession[i] /\ g = outcome[i].generation
  BY <1>1 DEF RuntimeInv, Known, Records
<1>3. phase' \in {[phase EXCEPT ![i] = "wait"], [phase EXCEPT ![i] = "lost"]}
  BY DEF BeginTask, AfterRefusal
<1>4. TaskShape'
  BY <1>1, <1>3 DEF TaskShape, Phase
<1>5. ReadinessShape' /\ protocolOwned' \in [Sessions -> BOOLEAN]
  <2>1. CASE ReadinessBegins(s, g)
    BY <2>1, ReadinessTyped
  <2>2. CASE UNCHANGED <<readinessVars, protocolOwned>>
    BY <2>2, ReadinessShapeFrame DEF Flags, readinessVars
  <2>3. QED
    BY <1>2, <2>1, <2>2 DEF BeginTask
<1>6. Flags'
  BY <1>1, <1>5 DEF Flags
<1>7. QED
  BY <1>1, <1>4, <1>5, <1>6, RecordsFrame, RecordShapeFrame, OperationShapeFrame, CallShapeFrame, ChildShapeFrame

\* runLifecycle, the end.
LEMMA FinishTaskTyped ==
    ASSUME Typed, NEW i \in Intents, FinishTask(i)
    PROVE  Typed'
<1> USE TypedParts, TypedAgain DEF lifecycleVars, sessionVars, intentVars, recordVars, readinessVars, childVars, shutdownVars
<1>1. /\ phase' = [phase EXCEPT ![i] = "done"]
      /\ UNCHANGED <<lifecycleVars, recordVars, readinessVars, taskChild, taskRetired, taskGap, shutdownVars, childVars, client, work>>
  BY Zenon DEF FinishTask
<1>2. OperationShape' /\ workerDone' = TRUE
  <2>1. PICK st, failure : FinishOperation(i, st, failure) /\ st \in {"complete", "failed"} /\ failure \in Failure
    BY DEF FinishTask, RestartState, Failure
  <2>2. QED
    BY <2>1, FinishOperationTyped
<1>3. Flags'
  BY <1>1, <1>2 DEF Flags
<1>4. TaskShape'
  BY <1>1 DEF TaskShape, Phase
<1>5. QED
  BY <1>1, <1>2, <1>3, <1>4, RecordsFrame, RecordShapeFrame, ReadinessShapeFrame, CallShapeFrame, ChildShapeFrame

\* A child dies on its own.
LEMMA CrashTyped ==
    ASSUME Typed, NEW ch \in Children, Crash(ch)
    PROVE  Typed'
<1> USE TypedParts, TypedAgain DEF lifecycleVars, sessionVars, intentVars, recordVars, readinessVars, operationVars, taskVars,
         workerVars, shutdownVars
<1>1. UNCHANGED <<lifecycleVars, recordVars, readinessVars, operationVars, taskVars, workerVars,
                   shutdownVars, spawned, pipes, owner, client, work>>
  BY DEF Crash
<1>2. PICK r \in ReapOutcomes : childState' = [childState EXCEPT ![ch] = r]
  BY DEF Crash
<1>3. r \in {"reaped", "unreaped"}
  BY RuntimeConstants
<1>4. ChildShape'
  BY <1>1, <1>2, <1>3 DEF ChildShape
<1>5. QED
  BY <1>1, <1>4, FlagsFrame, RecordsFrame, RecordShapeFrame, ReadinessShapeFrame, OperationShapeFrame, TaskShapeFrame, CallShapeFrame

\* Shutdown and its waiting touch the waiter and the two flags of the channel and of closing.
LEMMA WaiterTyped ==
    ASSUME Typed, UNCHANGED <<registered, generation, state, incumbent, nextIntent, kind, target, outcome,
                              recordVars, readinessVars, operationVars, taskVars, childVars, client, work>>,
           workerDone' \in BOOLEAN, closed' \in BOOLEAN, waiter' \in {"none", "waiting", "woken", "returned"}
    PROVE  Typed'
<1> USE TypedParts, TypedAgain DEF recordVars, readinessVars, operationVars, taskVars, childVars
<1>1. Flags'
  BY DEF Flags
<1>2. CallShape'
  BY DEF CallShape
<1>3. QED
  BY <1>1, <1>2, RecordsFrame, RecordShapeFrame, ReadinessShapeFrame, OperationShapeFrame, TaskShapeFrame, ChildShapeFrame

\* Before the first call every variable has its type.
LEMMA InitTyped == RuntimeInit => Typed
<1> SUFFICES ASSUME RuntimeInit PROVE Typed
  OBVIOUS
<1>0. LifecycleInit
  BY Zenon DEF RuntimeInit
<1>1. Flags
  BY DEF RuntimeInit, Flags
<1>2. Records
  BY <1>0, LifecycleConstants DEF LifecycleInit, Records, State
<1>3. RecordShape /\ ReadinessShape
  BY DEF RuntimeInit, RecordShape, ReadinessShape, State
<1>4. OperationShape
  <2>1. /\ operationIDs = <<>> /\ opState = [i \in Intents |-> "none"] /\ opSession = [i \in Intents |-> None]
        /\ opCaller = [i \in Intents |-> None] /\ opFailure = [i \in Intents |-> ""]
    BY Zenon DEF RuntimeInit
  <2>2. operationIDs \in Seq(Intents)
    BY <2>1, EmptySeq
  <2>3. "" \in Failure \cup {SpawnFailure}
    BY DEF Failure
  <2>4. opFailure \in [Intents -> Failure \cup {SpawnFailure}]
    BY <2>1, <2>3
  <2>5. QED
    BY <2>1, <2>2, <2>4 DEF OperationShape
<1>5. TaskShape
  BY DEF RuntimeInit, TaskShape, Phase, TeardownGap
<1>6. CallShape
  <2>1. client = [c \in Clients |-> Idle] /\ work = 0 /\ waiter = "none"
    BY Zenon DEF RuntimeInit
  <2>2. QED
    BY <2>1, RuntimeConstants DEF CallShape
<1>7. ChildShape
  <2>1. /\ spawned = 0 /\ childState = [ch \in Children |-> "none"] /\ pipes = [ch \in Children |-> "open"]
        /\ owner = [ch \in Children |-> None]
    BY Zenon DEF RuntimeInit
  <2>2. QED
    BY <2>1, RuntimeConstants DEF ChildShape
<1>8. QED
  BY <1>1, <1>2, <1>3, <1>4, <1>5, <1>6, <1>7, TypedParts

\* Every step keeps every variable in its type.
LEMMA NextKeepsTyped == Typed /\ RuntimeInv /\ [RuntimeNext]_vars => Typed'
<1> SUFFICES ASSUME Typed, RuntimeInv, [RuntimeNext]_vars PROVE Typed'
  OBVIOUS
<1>0. workerDone \in BOOLEAN /\ closed \in BOOLEAN /\ waiter \in {"none", "waiting", "woken", "returned"}
  BY DEF Typed, Flags, Shape
<1>1. CASE Request
  <2>1. ASSUME NEW s \in Sessions, NEW c \in Callers, NEW k \in {"STOP", "RESTART"}, JoinOperation(s, c, k)
        PROVE  Typed'
    <3>1. UNCHANGED runtimeVars /\ Join(s, c, k)
      BY <2>1, Zenon DEF JoinOperation
    <3>2. UNCHANGED <<sessionVars, nextIntent, kind, target, outcome>>
      BY <3>1, Zenon DEF Join
    <3>3. QED
      BY <1>0, <3>1, <3>2, WaiterTyped DEF runtimeVars, sessionVars, workerVars, shutdownVars
  <2>2. CASE Shutdown
    BY <1>0, <2>2, WaiterTyped DEF Shutdown, lifecycleVars, sessionVars, intentVars, workerVars
  <2>3. QED
    BY <1>1, <2>1, <2>2, StartCheckTyped, BeginReadinessTyped, BeginExchangeTyped, TerminateTyped DEF Request
<1>2. CASE \E ch \in Children : Crash(ch)
  BY <1>2, CrashTyped
<1>3. CASE \E c \in Clients : ClientStep(c)
  BY <1>3, StartSpawnTyped, StartAdmitTyped, AnswerExchangeTyped, RetireExchangeTyped, FinishExchangeTyped DEF ClientStep
<1>4. CASE \E s \in Sessions, g \in Generations : ReadinessStep(s, g)
  BY <1>4, AbortReadinessTyped, FinishReadinessTyped DEF ReadinessStep
<1>5. CASE \E i \in Intents : TaskStep(i)
  BY <1>5, TeardownTaskTyped, CompleteTaskTyped, SpawnTaskTyped, InstallTaskTyped, BeginTaskTyped, FinishTaskTyped DEF TaskStep
<1>6. CASE ShutdownStep
  <2>1. CASE ShutdownToken
    BY <1>0, <2>1, WaiterTyped DEF ShutdownToken, lifecycleVars, sessionVars, intentVars
  <2>2. CASE ShutdownRecheck
    BY <1>0, <2>2, WaiterTyped DEF ShutdownRecheck, lifecycleVars, sessionVars, intentVars, workerVars
  <2>3. QED
    BY <1>6, <2>1, <2>2 DEF ShutdownStep
<1>7. CASE UNCHANGED vars
  BY <1>0, <1>7, WaiterTyped DEF vars, runtimeVars, lifecycleVars, sessionVars, intentVars, workerVars, shutdownVars
<1>8. QED
  BY <1>1, <1>2, <1>3, <1>4, <1>5, <1>6, <1>7 DEF RuntimeNext

\* The invariant holds in every behaviour.
LEMMA InvAlways == RuntimeSpec => [](Typed /\ RuntimeInv)
<1>1. RuntimeInit => Typed /\ RuntimeInv
  BY InitTyped, InitInv
<1>2. Typed /\ RuntimeInv /\ [RuntimeNext]_vars => Typed' /\ RuntimeInv'
  BY NextKeepsTyped, NextKeepsInv
<1>3. QED
  BY <1>1, <1>2, PTL DEF RuntimeSpec

\* A set all of whose elements are equal has at most one.
LEMMA AtMostOne ==
    ASSUME NEW S, \A x, y \in S : x = y
    PROVE  /\ S = {} => Cardinality(S) = 0
           /\ S # {} => Cardinality(S) = 1
<1>1. CASE S = {}
  BY <1>1, FS_EmptySet
<1>2. CASE S # {}
  <2>1. PICK x : x \in S
    BY <1>2
  <2>2. S = {x}
    BY <2>1
  <2>3. Cardinality({x}) = 1
    BY FS_Singleton
  <2>4. QED
    BY <1>2, <2>2, <2>3
<1>3. QED
  BY <1>1, <1>2

\* Whoever uses the streams of a child works for the session that owns the child,
\* and that session is present, leased and has the child.
LEMMA UsersWorkForOwner ==
    ASSUME Typed, RuntimeInv, NEW ch \in Children
    PROVE  /\ \A c \in ClientsOn(ch) :
                 /\ owner[ch] \in Sessions /\ Leased(owner[ch]) /\ process[owner[ch]] = ch
                 /\ Exchanges(c, owner[ch])
           /\ \A k \in ReadinessOn(ch) :
                 /\ owner[ch] \in Sessions /\ Leased(owner[ch]) /\ process[owner[ch]] = ch
                 /\ k = <<owner[ch], rgen[owner[ch]]>> /\ rgen[owner[ch]] \in Generations
                 /\ ReadinessPending(owner[ch], rgen[owner[ch]])
           /\ \A i \in TasksOn(ch) :
                 /\ owner[ch] \in Sessions /\ Leased(owner[ch]) /\ process[owner[ch]] = ch
                 /\ Holds(i, owner[ch])
<1>0. \A s \in Sessions : Leased(s) => owner[process[s]] = s
  BY DEF RuntimeInv, At, SessionAt, Leased
<1>1. ASSUME NEW c \in ClientsOn(ch)
      PROVE  /\ owner[ch] \in Sessions /\ Leased(owner[ch]) /\ process[owner[ch]] = ch
             /\ Exchanges(c, owner[ch])
  <2>1. c \in Clients /\ Exchanging(c) /\ client[c].child = ch
    BY DEF ClientsOn
  <2>2. PICK s \in Sessions : s = client[c].session
    BY <2>1, ClientCall
  <2>3. Exchanges(c, s)
    BY <2>1, <2>2 DEF Exchanges
  <2>4. Leased(s) /\ client[c].child = process[s]
    BY <2>1, <2>3 DEF RuntimeInv, At, ExchangeAt
  <2>5. QED
    BY <1>0, <2>1, <2>3, <2>4
<1>2. ASSUME NEW k \in ReadinessOn(ch)
      PROVE  /\ owner[ch] \in Sessions /\ Leased(owner[ch]) /\ process[owner[ch]] = ch
             /\ k = <<owner[ch], rgen[owner[ch]]>> /\ rgen[owner[ch]] \in Generations
             /\ ReadinessPending(owner[ch], rgen[owner[ch]])
  <2>1. k \in Sessions \X Generations /\ ReadinessPending(k[1], k[2]) /\ readinessChild[k] = ch
    BY DEF ReadinessOn
  <2>2. PICK s \in Sessions, g \in Generations : k = <<s, g>> /\ k[1] = s /\ k[2] = g
    BY <2>1
  <2>3. ReadinessPending(s, g) /\ readinessChild[<<s, g>>] = ch
    BY <2>1, <2>2
  <2>4. Leased(s) /\ rgen[s] = g /\ process[s] = ch
    BY <2>3 DEF RuntimeInv, At, ReadinessAt
  <2>5. QED
    BY <1>0, <2>2, <2>3, <2>4
<1>3. ASSUME NEW i \in TasksOn(ch)
      PROVE  /\ owner[ch] \in Sessions /\ Leased(owner[ch]) /\ process[owner[ch]] = ch
             /\ Holds(i, owner[ch])
  <2>1. i \in Intents /\ phase[i] \in {"teardown", "complete"} /\ taskChild[i] = ch
    BY DEF TasksOn
  <2>2. PICK s \in Sessions : s = opSession[i]
    BY <2>1 DEF RuntimeInv, Known
  <2>3. Holds(i, s)
    BY <2>1, <2>2 DEF Holds, Holding
  <2>4. Leased(s) /\ Teardown(i, s)
    BY <2>1, <2>3 DEF RuntimeInv, At, HolderAt
  <2>5. process[s] = ch
    BY <2>1, <2>4 DEF Teardown
  <2>6. QED
    BY <1>0, <2>3, <2>4, <2>5
<1>4. QED
  BY <1>1, <1>2, <1>3

\* The streams of a child have one user at a time.
LEMMA InvImpliesLeaseExclusive == Typed /\ RuntimeInv => LeaseExclusive
<1> SUFFICES ASSUME Typed, RuntimeInv, NEW ch \in Children
             PROVE  /\ Cardinality(ClientsOn(ch)) + Cardinality(ReadinessOn(ch)) + Cardinality(TasksOn(ch)) <= 1
                    /\ ClientsOn(ch) # {} \/ ReadinessOn(ch) # {} \/ TasksOn(ch) # {} =>
                          \E s \in sessions : process[s] = ch /\ protocolOwned[s]
  BY DEF LeaseExclusive
<1> DEFINE A == ClientsOn(ch)
           B == ReadinessOn(ch)
           C == TasksOn(ch)
           s == owner[ch]
<1>0. A \subseteq Clients /\ C \subseteq Intents
  BY DEF ClientsOn, TasksOn
<1>1. /\ \A c \in A : s \in Sessions /\ Leased(s) /\ process[s] = ch /\ Exchanges(c, s)
      /\ \A k \in B : /\ s \in Sessions /\ Leased(s) /\ process[s] = ch /\ k = <<s, rgen[s]>>
                      /\ rgen[s] \in Generations /\ ReadinessPending(s, rgen[s])
      /\ \A i \in C : s \in Sessions /\ Leased(s) /\ process[s] = ch /\ Holds(i, s)
  BY UsersWorkForOwner
<1>2. s \in Sessions => ExchangeAt(s) /\ ReadinessAt(s) /\ HolderAt(s)
  BY DEF RuntimeInv, At
<1> HIDE DEF A, B, C, s
<1>3. \A x, y \in A : x = y
  BY <1>0, <1>1, <1>2 DEF ExchangeAt
<1>4. \A x, y \in B : x = y
  BY <1>1
<1>5. \A x, y \in C : x = y
  BY <1>0, <1>1, <1>2 DEF HolderAt
<1>6. A # {} => B = {} /\ C = {}
  BY <1>0, <1>1, <1>2 DEF ExchangeAt
<1>7. B # {} => C = {}
  BY <1>0, <1>1, <1>2 DEF ReadinessAt
<1>8. /\ A = {} => Cardinality(A) = 0
      /\ A # {} => Cardinality(A) = 1
      /\ B = {} => Cardinality(B) = 0
      /\ B # {} => Cardinality(B) = 1
      /\ C = {} => Cardinality(C) = 0
      /\ C # {} => Cardinality(C) = 1
  BY <1>3, <1>4, <1>5, AtMostOne
<1>9. Cardinality(A) + Cardinality(B) + Cardinality(C) <= 1
  <2>1. CASE A # {}
    BY <2>1, <1>6, <1>8
  <2>2. CASE A = {} /\ B # {}
    BY <2>2, <1>7, <1>8
  <2>3. CASE A = {} /\ B = {}
    BY <2>3, <1>8
  <2>4. QED
    BY <2>1, <2>2, <2>3
<1>10. A # {} \/ B # {} \/ C # {} => \E t \in sessions : process[t] = ch /\ protocolOwned[t]
  BY <1>1 DEF Leased
<1>11. QED
  BY <1>9, <1>10 DEF A, B, C

\* Where the runtime admits an exchange the algebra would too.
LEMMA InvImpliesWorkAdmissible == Typed /\ RuntimeInv => WorkAdmissible
<1> SUFFICES ASSUME Typed, RuntimeInv, NEW s \in sessions, rstate[s] = Ready, ~ protocolOwned[s]
             PROVE  /\ state[s] = Ready /\ generation[s] = rgen[s] /\ incumbent[s] = None
                    /\ pipes[process[s]] = "open"
  BY DEF WorkAdmissible
<1>1. s \in Sessions /\ At(s)
  BY DEF Typed, Shape, RuntimeInv
<1>2. ~ Leased(s)
  BY DEF Leased
<1>3. \A i \in Intents : ~ Holds(i, s)
  BY <1>1, <1>2 DEF At, HolderAt
<1>4. \A c \in Clients : ~ Exchanges(c, s)
  BY <1>1, <1>2 DEF At, ExchangeAt
<1>5. QED
  BY <1>1, <1>3, <1>4 DEF At, ReadyAt

\* One child of a session at a time is not reaped.
LEMMA InvImpliesNoOverlap == Typed /\ RuntimeInv => NoOverlap
<1> SUFFICES ASSUME Typed, RuntimeInv, NEW s \in Sessions
             PROVE  LET alive == {ch \in Children : owner[ch] = s /\ childState[ch] # "reaped"} IN
                    /\ Cardinality(alive) <= 1
                    /\ \A ch \in alive : s \in sessions /\
                         \/ process[s] = ch
                         \/ \E i \in Intents : phase[i] = "install" /\ opSession[i] = s /\ taskChild[i] = ch
  BY DEF NoOverlap
<1> DEFINE alive == {ch \in Children : owner[ch] = s /\ childState[ch] # "reaped"}
<1>1. OverlapAt(s) /\ HolderAt(s)
  BY DEF RuntimeInv, At
<1>2. \A ch \in alive : s \in sessions /\
         \/ process[s] = ch
         \/ \E i \in Intents : phase[i] = "install" /\ opSession[i] = s /\ taskChild[i] = ch
  BY <1>1 DEF OverlapAt
<1>3. ASSUME NEW i \in Intents, phase[i] = "install", opSession[i] = s, taskChild[i] \in Children
      PROVE  \A ch \in alive : ch = taskChild[i]
  <2>1. Holds(i, s)
    BY <1>3 DEF Holds, Holding
  <2>2. Succession(i, s)
    BY <1>1, <2>1 DEF HolderAt
  <2>3. QED
    BY <1>3, <2>2, RuntimeConstants DEF Succession
<1>4. \A x, y \in alive : x = y
  <2> SUFFICES ASSUME NEW x \in alive, NEW y \in alive PROVE x = y
    OBVIOUS
  <2>1. CASE process[s] = x /\ process[s] = y
    BY <2>1
  <2>2. CASE \E i \in Intents : phase[i] = "install" /\ opSession[i] = s /\ taskChild[i] \in {x, y}
    <3>1. PICK i \in Intents : phase[i] = "install" /\ opSession[i] = s /\ taskChild[i] \in {x, y}
      BY <2>2
    <3>2. taskChild[i] \in Children
      BY <3>1
    <3>3. QED
      BY <1>3, <3>1, <3>2
  <2>3. QED
    BY <1>2, <2>1, <2>2
<1>5. Cardinality(alive) \in {0, 1}
  BY <1>4, AtMostOne
<1>6. QED
  BY <1>2, <1>5

\* A child and its streams belong to one generation and one goroutine, whichever
\* of handshake, exchange, teardown, crash and restart interleave.
THEOREM GenerationsAreExclusive == RuntimeSpec => []GenerationExclusive
<1>1. Typed /\ RuntimeInv => GenerationExclusive
  BY InvImpliesLeaseExclusive, InvImpliesWorkAdmissible, InvImpliesNoOverlap DEF GenerationExclusive
<1>2. QED
  BY <1>1, InvAlways, PTL

-----------------------------------------------------------------------------
\* The account of work: the goroutines m.workers counts, and the operations.

Busy == {c \in Clients : Exchanging(c)}
Handshaking == {k \in Sessions \X Generations : ReadinessPending(k[1], k[2])}
Running == {i \in Intents : Active(i)}

\* m.workers is the number of these goroutines.
Count ==
    /\ IsFiniteSet(Busy) /\ IsFiniteSet(Handshaking) /\ IsFiniteSet(Running)
    /\ workers = Cardinality(Busy) + Cardinality(Handshaking) + Cardinality(Running)

\* Every clause of OperationsKept is inductive with the others.
Account == Count /\ OperationsKept

\* A goroutine more or less in one of the three sets.
LEMMA OneMore ==
    ASSUME NEW S, IsFiniteSet(S), NEW x, x \notin S
    PROVE  /\ IsFiniteSet(S \cup {x}) /\ Cardinality(S) \in Nat
           /\ Cardinality(S \cup {x}) = Cardinality(S) + 1
BY FS_AddElement, FS_CardinalityType

\* and one less.
LEMMA OneLess ==
    ASSUME NEW S, IsFiniteSet(S), NEW x \in S
    PROVE  /\ IsFiniteSet(S \ {x}) /\ Cardinality(S) \in Nat
           /\ Cardinality(S \ {x}) = Cardinality(S) - 1
BY FS_RemoveElement, FS_CardinalityType

\* A step that begins and ends no goroutine.
LEMMA CountSame ==
    ASSUME Count, workers' = workers, Busy' = Busy, Handshaking' = Handshaking, Running' = Running
    PROVE  Count'
BY DEF Count

\* A worker that begins is counted.
LEMMA CountUp ==
    ASSUME Count, workers' = workers + 1,
           \/ Handshaking' = Handshaking /\ Running' = Running /\ \E x : x \notin Busy /\ Busy' = Busy \cup {x}
           \/ Busy' = Busy /\ Running' = Running /\ \E x : x \notin Handshaking /\ Handshaking' = Handshaking \cup {x}
           \/ Busy' = Busy /\ Handshaking' = Handshaking /\ \E x : x \notin Running /\ Running' = Running \cup {x}
    PROVE  Count'
<1> DEFINE A == Busy
           B == Handshaking
           C == Running
           A1 == Busy'
           B1 == Handshaking'
           C1 == Running'
<1>1. /\ IsFiniteSet(A) /\ IsFiniteSet(B) /\ IsFiniteSet(C)
      /\ workers = Cardinality(A) + Cardinality(B) + Cardinality(C)
  BY DEF Count
<1>2. Cardinality(A) \in Nat /\ Cardinality(B) \in Nat /\ Cardinality(C) \in Nat
  BY <1>1, FS_CardinalityType
<1>3. \/ B1 = B /\ C1 = C /\ \E x : x \notin A /\ A1 = A \cup {x}
      \/ A1 = A /\ C1 = C /\ \E x : x \notin B /\ B1 = B \cup {x}
      \/ A1 = A /\ B1 = B /\ \E x : x \notin C /\ C1 = C \cup {x}
  OBVIOUS
<1>4. /\ IsFiniteSet(A1) /\ IsFiniteSet(B1) /\ IsFiniteSet(C1)
      /\ workers' = Cardinality(A1) + Cardinality(B1) + Cardinality(C1)
  <2> HIDE DEF A, B, C, A1, B1, C1
  <2>1. CASE B1 = B /\ C1 = C /\ \E x : x \notin A /\ A1 = A \cup {x}
    <3>1. IsFiniteSet(A1) /\ Cardinality(A1) = Cardinality(A) + 1
      BY <1>1, <2>1, OneMore
    <3>2. QED
      BY <1>1, <1>2, <2>1, <3>1
  <2>2. CASE A1 = A /\ C1 = C /\ \E x : x \notin B /\ B1 = B \cup {x}
    <3>1. IsFiniteSet(B1) /\ Cardinality(B1) = Cardinality(B) + 1
      BY <1>1, <2>2, OneMore
    <3>2. QED
      BY <1>1, <1>2, <2>2, <3>1
  <2>3. CASE A1 = A /\ B1 = B /\ \E x : x \notin C /\ C1 = C \cup {x}
    <3>1. IsFiniteSet(C1) /\ Cardinality(C1) = Cardinality(C) + 1
      BY <1>1, <2>3, OneMore
    <3>2. QED
      BY <1>1, <1>2, <2>3, <3>1
  <2>4. QED
    BY <1>3, <2>1, <2>2, <2>3
<1>5. QED
  BY <1>4 DEF Count

\* A worker that ends is no longer counted.
LEMMA CountDown ==
    ASSUME Count, workers' = workers - 1,
           \/ Handshaking' = Handshaking /\ Running' = Running /\ \E x \in Busy : Busy' = Busy \ {x}
           \/ Busy' = Busy /\ Running' = Running /\ \E x \in Handshaking : Handshaking' = Handshaking \ {x}
           \/ Busy' = Busy /\ Handshaking' = Handshaking /\ \E x \in Running : Running' = Running \ {x}
    PROVE  Count'
<1> DEFINE A == Busy
           B == Handshaking
           C == Running
           A1 == Busy'
           B1 == Handshaking'
           C1 == Running'
<1>1. /\ IsFiniteSet(A) /\ IsFiniteSet(B) /\ IsFiniteSet(C)
      /\ workers = Cardinality(A) + Cardinality(B) + Cardinality(C)
  BY DEF Count
<1>2. Cardinality(A) \in Nat /\ Cardinality(B) \in Nat /\ Cardinality(C) \in Nat
  BY <1>1, FS_CardinalityType
<1>3. \/ B1 = B /\ C1 = C /\ \E x \in A : A1 = A \ {x}
      \/ A1 = A /\ C1 = C /\ \E x \in B : B1 = B \ {x}
      \/ A1 = A /\ B1 = B /\ \E x \in C : C1 = C \ {x}
  OBVIOUS
<1>4. /\ IsFiniteSet(A1) /\ IsFiniteSet(B1) /\ IsFiniteSet(C1)
      /\ workers' = Cardinality(A1) + Cardinality(B1) + Cardinality(C1)
  <2> HIDE DEF A, B, C, A1, B1, C1
  <2>1. CASE B1 = B /\ C1 = C /\ \E x \in A : A1 = A \ {x}
    <3>1. IsFiniteSet(A1) /\ Cardinality(A1) = Cardinality(A) - 1
      BY <1>1, <2>1, OneLess
    <3>2. QED
      BY <1>1, <1>2, <2>1, <3>1
  <2>2. CASE A1 = A /\ C1 = C /\ \E x \in B : B1 = B \ {x}
    <3>1. IsFiniteSet(B1) /\ Cardinality(B1) = Cardinality(B) - 1
      BY <1>1, <2>2, OneLess
    <3>2. QED
      BY <1>1, <1>2, <2>2, <3>1
  <2>3. CASE A1 = A /\ B1 = B /\ \E x \in C : C1 = C \ {x}
    <3>1. IsFiniteSet(C1) /\ Cardinality(C1) = Cardinality(C) - 1
      BY <1>1, <2>3, OneLess
    <3>2. QED
      BY <1>1, <1>2, <2>3, <3>1
  <2>4. QED
    BY <1>3, <2>1, <2>2, <2>3
<1>5. QED
  BY <1>4 DEF Count

\* What decides who is counted.
LEMMA CountFrame ==
    /\ UNCHANGED client => Busy' = Busy
    /\ UNCHANGED readiness => Handshaking' = Handshaking
    /\ UNCHANGED phase => Running' = Running
BY DEF Busy, Handshaking, Running, Exchanging, ReadinessPending, Active

\* A call of one client.
LEMMA BusyStep ==
    ASSUME CallShape, NEW c \in Clients, NEW call, client' = [client EXCEPT ![c] = call]
    PROVE  /\ call.op \in {"io", "answered", "retired"} => Busy' = Busy \cup {c}
           /\ call.op \notin {"io", "answered", "retired"} => Busy' = Busy \ {c}
<1>1. client'[c] = call /\ \A d \in Clients \ {c} : client'[d] = client[d]
  BY DEF CallShape
<1>2. QED
  BY <1>1 DEF Busy, Exchanging

\* One readiness.
LEMMA HandshakeStep ==
    ASSUME ReadinessShape, NEW s \in Sessions, NEW g \in Generations, NEW r,
           readiness' = [readiness EXCEPT ![<<s, g>>] = r]
    PROVE  /\ r \in {"pending", "aborted"} => Handshaking' = Handshaking \cup {<<s, g>>}
           /\ r \notin {"pending", "aborted"} => Handshaking' = Handshaking \ {<<s, g>>}
<1>1. readiness'[<<s, g>>] = r /\ \A k \in (Sessions \X Generations) \ {<<s, g>>} : readiness'[k] = readiness[k]
  BY DEF ReadinessShape
<1>2. \A k \in Sessions \X Generations : k = <<k[1], k[2]>>
  OBVIOUS
<1>3. \A k \in Sessions \X Generations :
         /\ ReadinessPending(k[1], k[2]) <=> readiness[k] \in {"pending", "aborted"}
         /\ ReadinessPending(k[1], k[2])' <=> readiness'[k] \in {"pending", "aborted"}
  BY <1>2 DEF ReadinessPending
<1>4. Handshaking = {k \in Sessions \X Generations : readiness[k] \in {"pending", "aborted"}}
  BY <1>3 DEF Handshaking
<1>5. Handshaking' = {k \in Sessions \X Generations : readiness'[k] \in {"pending", "aborted"}}
  BY <1>3 DEF Handshaking
<1>6. QED
  BY <1>1, <1>4, <1>5

\* One task.
LEMMA RunningStep ==
    ASSUME TaskShape, NEW i \in Intents, NEW p, phase' = [phase EXCEPT ![i] = p]
    PROVE  /\ p \notin {"none", "done"} => Running' = Running \cup {i}
           /\ p \in {"none", "done"} => Running' = Running \ {i}
<1>1. phase'[i] = p /\ \A j \in Intents \ {i} : phase'[j] = phase[j]
  BY DEF TaskShape
<1>2. QED
  BY <1>1 DEF Running, Active

\* The operations, when no operation is recorded and none ends.
LEMMA OperationsSame ==
    ASSUME OperationsKept, UNCHANGED <<operationIDs, opState>>, Running' = Running
    PROVE  OperationsKept'
<1>1. \A i \in Intents : Active(i)' <=> Active(i)
  BY DEF Running
<1>2. QED
  BY <1>1 DEF OperationsKept

\* FinishOperation at the end of runLifecycle: the operation and the worker end together.
LEMMA TaskEnds ==
    ASSUME Typed, Account, NEW i \in Intents, Active(i), NEW st \in {"complete", "failed"}, NEW failure,
           FinishOperation(i, st, failure), phase' = [phase EXCEPT ![i] = "done"], UNCHANGED <<client, readiness>>
    PROVE  Account'
<1>1. /\ opState' = [opState EXCEPT ![i] = st] /\ UNCHANGED operationIDs /\ workers' = workers - 1
  BY DEF FinishOperation, WorkerEnds
<1>2. Running' = Running \ {i} /\ i \in Running
  BY TypedParts, RunningStep DEF Running
<1>3. Count'
  BY <1>1, <1>2, CountFrame, CountDown DEF Account
<1>4. /\ phase'[i] = "done" /\ \A j \in Intents \ {i} : phase'[j] = phase[j]
      /\ opState'[i] = st /\ \A j \in Intents \ {i} : opState'[j] = opState[j]
  BY <1>1, TypedParts DEF TaskShape, OperationShape
<1>5. ~ Active(i)' /\ \A j \in Intents \ {i} : Active(j)' <=> Active(j)
  BY <1>4 DEF Active
<1>6. OperationsKept'
  BY <1>1, <1>4, <1>5 DEF Account, OperationsKept
<1>7. QED
  BY <1>3, <1>6 DEF Account

\* A task that goes on stays counted and its operation pending.
LEMMA TaskGoesOn ==
    ASSUME Typed, Account, NEW i \in Intents, Active(i), NEW p, p \notin {"none", "done"},
           phase' = [phase EXCEPT ![i] = p], UNCHANGED <<operationIDs, opState>>
    PROVE  Running' = Running /\ OperationsKept'
<1>1. Running' = Running \cup {i} /\ i \in Running
  BY TypedParts, RunningStep DEF Running
<1>2. QED
  BY <1>1, OperationsSame DEF Account

\* Terminate records the operation where it starts the worker.
LEMMA TerminateAccount ==
    ASSUME Typed, RuntimeInv, Account, NEW s \in Sessions, NEW c \in Callers, NEW k \in {"STOP", "RESTART"}, Terminate(s, c, k)
    PROVE  Account'
<1> USE TypedParts
<1>0. PICK i \in Intents : i = nextIntent + 1
  BY LifecycleConstants DEF Terminate, Insert, NewIntent, Records, Intents
<1>1. HasCapacity /\ TerminateWorker(s, c, i) /\ UNCHANGED <<readinessVars, client>>
  BY <1>0 DEF Terminate
<1>2. /\ operationIDs' = Append(Reserved(operationIDs), i)
      /\ opState' = [opState EXCEPT ![i] = "pending"]
      /\ phase' = [phase EXCEPT ![i] = "teardown"]
      /\ workers' = workers + 1
  BY <1>1, Zenon DEF TerminateWorker
<1>3. phase[i] = "none"
  <2>1. nextIntent \in Nat /\ ~ (i <= nextIntent)
    BY <1>0, LifecycleConstants DEF Records
  <2>2. QED
    BY <2>1 DEF RuntimeInv, Known
<1>4. Running' = Running \cup {i} /\ i \notin Running
  BY <1>2, <1>3, RunningStep DEF Running, Active
<1>5. Count'
  BY <1>1, <1>2, <1>4, CountFrame, CountUp DEF Account, readinessVars
<1>6. /\ Reserved(operationIDs) \in Seq(Intents)
      /\ Len(operationIDs) <= MaxOperations => Len(Reserved(operationIDs)) < MaxOperations
      /\ \A j \in DOMAIN operationIDs : opState[operationIDs[j]] = "pending" =>
            \E m \in DOMAIN Reserved(operationIDs) : Reserved(operationIDs)[m] = operationIDs[j]
  BY <1>1, ReservedKeeps DEF HasCapacity, OperationShape
<1>7. PICK q \in Seq(Intents) : q = Reserved(operationIDs)
  BY <1>6
<1>8. /\ Len(Append(q, i)) = Len(q) + 1 /\ DOMAIN Append(q, i) = 1..(Len(q) + 1)
      /\ Append(q, i)[Len(q) + 1] = i /\ Len(q) \in Nat /\ DOMAIN q = 1..Len(q)
      /\ \A m \in 1..Len(q) : Append(q, i)[m] = q[m]
  BY AppendProperties, LenProperties
<1>9. Len(operationIDs') <= MaxOperations
  BY <1>2, <1>6, <1>7, <1>8, RuntimeConstants DEF Account, OperationsKept
<1>10. /\ phase'[i] = "teardown" /\ \A j \in Intents \ {i} : phase'[j] = phase[j]
       /\ opState'[i] = "pending" /\ \A j \in Intents \ {i} : opState'[j] = opState[j]
  BY <1>2 DEF TaskShape, OperationShape
<1>11. Active(i)' /\ \A j \in Intents \ {i} : Active(j)' <=> Active(j)
  BY <1>10 DEF Active
<1>12. \A j \in Intents : opState'[j] = "pending" <=> Active(j)'
  BY <1>10, <1>11 DEF Account, OperationsKept
<1>13. ASSUME NEW j \in Intents, Active(j)' PROVE \E m \in DOMAIN operationIDs' : operationIDs'[m] = j
  <2>1. CASE j = i
    <3>1. Len(q) + 1 \in 1..(Len(q) + 1)
      BY <1>8
    <3>2. QED
      BY <1>2, <1>7, <1>8, <2>1, <3>1
  <2>2. CASE j # i
    <3>1. Active(j) /\ opState[j] = "pending"
      BY <1>11, <1>13, <2>2 DEF Account, OperationsKept
    <3>2. PICK n \in DOMAIN operationIDs : operationIDs[n] = j
      BY <3>1 DEF Account, OperationsKept
    <3>3. PICK m \in 1..Len(q) : q[m] = j
      BY <1>6, <1>7, <1>8, <3>1, <3>2
    <3>4. m \in 1..(Len(q) + 1)
      BY <1>8, <3>3
    <3>5. QED
      BY <1>2, <1>7, <1>8, <3>3, <3>4
  <2>3. QED
    BY <2>1, <2>2
<1>14. OperationsKept'
  BY <1>9, <1>12, <1>13 DEF OperationsKept
<1>15. QED
  BY <1>5, <1>14 DEF Account

\* A step that begins and ends nothing and records nothing.
LEMMA AccountSame ==
    ASSUME Account, UNCHANGED <<workers, client, readiness, phase, operationIDs, opState>>
    PROVE  Account'
BY CountFrame, CountSame, OperationsSame DEF Account

\* The other requests: a handshake or an exchange that begins is a worker.
LEMMA HandshakeAccount ==
    ASSUME Typed, RuntimeInv, Account, NEW s \in Sessions, NEW g, CanBeginReadiness(s, g), ReadinessBegins(s, g),
           UNCHANGED client, Running' = Running
    PROVE  Count'
<1>1. s \in sessions /\ rgen[s] = g /\ readiness[<<s, g>>] = "none"
  BY DEF CanBeginReadiness
<1>2. g \in Generations
  <2>1. /\ rgen[s] \in 1..generation[s] /\ generation[s] \in 1..(nextIntent + 1)
        /\ nextIntent \in 0..MaxIntents
    BY <1>1 DEF RuntimeInv, At, SessionAt, GenerationAt, Typed, Records
  <2>2. QED
    BY <1>1, <2>1, LifecycleConstants DEF Generations
<1>3. readiness' = [readiness EXCEPT ![<<s, g>>] = "pending"] /\ workers' = workers + 1
  BY Zenon DEF ReadinessBegins
<1>4. Handshaking' = Handshaking \cup {<<s, g>>} /\ <<s, g>> \notin Handshaking
  BY <1>1, <1>2, <1>3, TypedParts, HandshakeStep DEF Handshaking, ReadinessPending
<1>5. QED
  BY <1>3, <1>4, CountFrame, CountUp DEF Account

\* What clients request: the requests that start a goroutine count it.
LEMMA RequestAccount ==
    ASSUME Typed, RuntimeInv, Account, Request
    PROVE  Account'
<1>1. ASSUME NEW c \in Clients, NEW s \in Sessions, StartCheck(c, s) PROVE Account'
  <2>1. /\ client' = [client EXCEPT ![c] = [op |-> "spawn", session |-> s]] /\ client[c] = Idle
        /\ UNCHANGED <<readinessVars, operationVars, taskVars, workerVars>>
    BY <1>1, Zenon DEF StartCheck
  <2>2. Busy' = Busy \ {c} /\ c \notin Busy
    BY <2>1, TypedParts, BusyStep DEF Busy, Exchanging, Idle
  <2>3. Busy' = Busy
    BY <2>2
  <2>4. QED
    BY <2>1, <2>3, CountFrame, CountSame, OperationsSame DEF Account, readinessVars, operationVars, taskVars, workerVars
<1>2. ASSUME NEW s \in Sessions, BeginReadiness(s) PROVE Account'
  <2>1. /\ CanBeginReadiness(s, rgen[s]) /\ ReadinessBegins(s, rgen[s])
        /\ UNCHANGED <<operationVars, taskVars, client>>
    BY <1>2, Zenon DEF BeginReadiness
  <2>2. QED
    BY <2>1, HandshakeAccount, CountFrame, OperationsSame DEF Account, operationVars, taskVars
<1>3. ASSUME NEW c \in Clients, NEW s \in Sessions, NEW document \in BOOLEAN, BeginExchange(c, s, document)
      PROVE  Account'
  <2>1. /\ client' = [client EXCEPT ![c] = [op |-> "io", session |-> s, generation |-> rgen[s], child |-> process[s]]]
        /\ client[c] = Idle /\ workers' = workers + 1
        /\ UNCHANGED <<readinessVars, operationVars, taskVars>>
    BY <1>3, Zenon DEF BeginExchange
  <2>2. PICK call : call.op = "io" /\ client' = [client EXCEPT ![c] = call]
    BY <2>1
  <2>3. c \notin Busy
    BY <2>1 DEF Busy, Exchanging, Idle
  <2>4. Busy' = Busy \cup {c}
    BY <2>2, TypedParts, BusyStep
  <2>5. QED
    BY <2>1, <2>3, <2>4, CountFrame, CountUp, OperationsSame DEF Account, readinessVars, operationVars, taskVars
<1>4. ASSUME NEW s \in Sessions, NEW c \in Callers, NEW k \in {"STOP", "RESTART"}, JoinOperation(s, c, k)
      PROVE  Account'
  <2>1. UNCHANGED runtimeVars
    BY <1>4, Zenon DEF JoinOperation
  <2>2. QED
    BY <2>1, AccountSame DEF runtimeVars, readinessVars, operationVars, taskVars, workerVars
<1>5. CASE Shutdown
  BY <1>5, AccountSame DEF Shutdown, readinessVars, operationVars, taskVars, workerVars
<1>6. QED
  BY <1>1, <1>2, <1>3, <1>4, <1>5, TerminateAccount DEF Request

\* Clients: an exchange that ends is a worker that ends.
LEMMA ClientAccount ==
    ASSUME Typed, Account, NEW c \in Clients, ClientStep(c)
    PROVE  Account'
<1> USE DEF readinessVars, operationVars, taskVars, workerVars
<1>1. CASE StartSpawn(c) \/ StartAdmit(c)
  <2>0. client[c].op \in {"spawn", "admit"} /\ UNCHANGED <<readinessVars, operationVars, taskVars, workerVars>>
    BY <1>1, Zenon DEF StartSpawn, StartAdmit
  <2>1. \/ client' = [client EXCEPT ![c] = Idle]
        \/ client' = [client EXCEPT ![c] = [op |-> "admit", session |-> client[c].session, child |-> spawned + 1]]
    BY <1>1, Zenon DEF StartSpawn, StartAdmit
  <2>3. c \notin Busy
    BY <2>0 DEF Busy, Exchanging
  <2>4. Busy' = Busy \ {c}
    <3>1. CASE client' = [client EXCEPT ![c] = Idle]
      <4>1. Idle.op \notin {"io", "answered", "retired"}
        BY DEF Idle
      <4>2. QED
        BY <3>1, <4>1, TypedParts, BusyStep
    <3>2. CASE client' = [client EXCEPT ![c] = [op |-> "admit", session |-> client[c].session, child |-> spawned + 1]]
      <4>1. PICK call : call = [op |-> "admit", session |-> client[c].session, child |-> spawned + 1]
        OBVIOUS
      <4>2. call.op \notin {"io", "answered", "retired"} /\ client' = [client EXCEPT ![c] = call]
        BY <3>2, <4>1
      <4>3. QED
        BY <4>2, TypedParts, BusyStep
    <3>3. QED
      BY <2>1, <3>1, <3>2
  <2>5. Busy' = Busy
    BY <2>3, <2>4
  <2>6. QED
    BY <2>0, <2>5, CountFrame, CountSame, OperationsSame DEF Account
<1>2. CASE AnswerExchange(c) \/ RetireExchange(c)
  <2>1. PICK o \in {"answered", "retired"} :
             client[c].op = "io" /\ client' = [client EXCEPT ![c] = [client[c] EXCEPT !.op = o]]
    BY <1>2, Zenon DEF AnswerExchange, RetireExchange
  <2>2. UNCHANGED <<readinessVars, operationVars, taskVars, workerVars>>
    BY <1>2, Zenon DEF AnswerExchange, RetireExchange
  <2>3. client[c] \in Exchange
    BY <2>1 DEF Typed, Shape, Idle, StartCall, Exchange
  <2>4. [client[c] EXCEPT !.op = o].op = o
    BY <2>3 DEF Exchange
  <2>5. Busy' = Busy \cup {c} /\ c \in Busy
    BY <2>1, <2>4, TypedParts, BusyStep DEF Busy, Exchanging
  <2>6. Busy' = Busy
    BY <2>5
  <2>7. QED
    BY <2>2, <2>6, CountFrame, CountSame, OperationsSame DEF Account
<1>3. CASE FinishExchange(c)
  <2>1. /\ client[c].op \in {"answered", "retired"} /\ client' = [client EXCEPT ![c] = Idle]
        /\ workers' = workers - 1 /\ UNCHANGED <<readinessVars, operationVars, taskVars>>
    BY <1>3, Zenon DEF FinishExchange, WorkerEnds
  <2>2. Idle.op \notin {"io", "answered", "retired"} /\ c \in Busy
    BY <2>1 DEF Busy, Exchanging, Idle
  <2>3. Busy' = Busy \ {c}
    BY <2>1, <2>2, TypedParts, BusyStep
  <2>4. QED
    BY <2>1, <2>2, <2>3, CountFrame, CountDown, OperationsSame DEF Account
<1>4. QED
  BY <1>1, <1>2, <1>3 DEF ClientStep

\* The readiness goroutine is counted from its beginning to finishReadiness.
LEMMA ReadinessAccount ==
    ASSUME Typed, Account, NEW s \in Sessions, NEW g \in Generations, ReadinessStep(s, g)
    PROVE  Account'
<1> USE DEF operationVars, taskVars, workerVars
<1>1. CASE AbortReadiness(s, g)
  <2>1. /\ readiness' = [readiness EXCEPT ![<<s, g>>] = "aborted"] /\ readiness[<<s, g>>] = "pending"
        /\ UNCHANGED <<operationVars, taskVars, workerVars, client>>
    BY <1>1, Zenon DEF AbortReadiness
  <2>2. Handshaking' = Handshaking \cup {<<s, g>>} /\ <<s, g>> \in Handshaking
    BY <2>1, TypedParts, HandshakeStep DEF Handshaking, ReadinessPending
  <2>3. Handshaking' = Handshaking
    BY <2>2
  <2>4. QED
    BY <2>1, <2>3, CountFrame, CountSame, OperationsSame DEF Account
<1>2. CASE FinishReadiness(s, g)
  <2>1. /\ \E r \in {"ready", "failed"} : readiness' = [readiness EXCEPT ![<<s, g>>] = r]
        /\ readiness[<<s, g>>] \in {"pending", "aborted"}
        /\ workers' = workers - 1 /\ UNCHANGED <<operationVars, taskVars, client>>
    BY <1>2 DEF FinishReadiness, WorkerEnds, ReadinessPending
  <2>2. Handshaking' = Handshaking \ {<<s, g>>} /\ <<s, g>> \in Handshaking
    BY <2>1, TypedParts, HandshakeStep DEF Handshaking, ReadinessPending
  <2>3. QED
    BY <2>1, <2>2, CountFrame, CountDown, OperationsSame DEF Account
<1>3. QED
  BY <1>1, <1>2 DEF ReadinessStep

\* runLifecycle is counted from terminate to the outcome of its operation.
LEMMA TaskAccount ==
    ASSUME Typed, RuntimeInv, Account, NEW i \in Intents, TaskStep(i)
    PROVE  Account'
<1> USE DEF readinessVars, operationVars, workerVars
<1>0. Active(i)
  BY DEF TaskStep, TeardownTask, CompleteTask, SpawnTask, InstallTask, BeginTask, FinishTask, Active
<1>1. ASSUME NEW p, p \notin {"none", "done"}, phase' = [phase EXCEPT ![i] = p],
             UNCHANGED <<workers, client, readiness, operationIDs, opState>>
      PROVE  Account'
  BY <1>0, <1>1, TaskGoesOn, CountFrame, CountSame DEF Account
<1>2. CASE TeardownTask(i) \/ SpawnTask(i)
  <2>1. /\ \E p : p \notin {"none", "done"} /\ phase' = [phase EXCEPT ![i] = p]
        /\ UNCHANGED <<readinessVars, operationVars, workerVars, client>>
    BY <1>2 DEF TeardownTask, SpawnTask
  <2>2. QED
    BY <1>1, <2>1
<1>3. CASE CompleteTask(i) \/ InstallTask(i)
  <2>0. UNCHANGED <<readinessVars, client>>
    BY <1>3, Zenon DEF CompleteTask, InstallTask
  <2>1. \/ /\ phase' = [phase EXCEPT ![i] = "done"]
           /\ \E st \in {"complete", "failed"} : \E failure : FinishOperation(i, st, failure)
        \/ /\ \E p : p \notin {"none", "done"} /\ phase' = [phase EXCEPT ![i] = p]
           /\ UNCHANGED <<operationVars, workerVars>>
    BY <1>3 DEF CompleteTask, InstallTask
  <2>2. QED
    BY <1>0, <1>1, <2>0, <2>1, TaskEnds
<1>4. CASE BeginTask(i)
  <2> DEFINE g == outcome[i].generation
  <2>0. PICK s \in Sessions : s = opSession[i]
    BY <1>4 DEF RuntimeInv, Known, BeginTask
  <2>1. /\ \E p : p \notin {"none", "done"} /\ phase' = [phase EXCEPT ![i] = p]
        /\ UNCHANGED <<operationVars, client>>
    BY <1>4 DEF BeginTask, AfterRefusal
  <2>2. Running' = Running /\ OperationsKept'
    BY <1>0, <2>1, TaskGoesOn
  <2>3. CASE CanBeginReadiness(s, g) /\ ReadinessBegins(s, g)
    BY <2>1, <2>2, <2>3, HandshakeAccount DEF Account
  <2>4. CASE UNCHANGED <<readinessVars, workers>>
    BY <2>1, <2>2, <2>4, CountFrame, CountSame DEF Account
  <2>5. QED
    BY <1>4, <2>0, <2>3, <2>4 DEF BeginTask
<1>5. CASE FinishTask(i)
  <2>1. /\ phase' = [phase EXCEPT ![i] = "done"] /\ UNCHANGED <<readinessVars, client>>
        /\ \E failure : FinishOperation(i, RestartState(i), failure)
    BY <1>5 DEF FinishTask
  <2>2. RestartState(i) \in {"complete", "failed"}
    BY DEF RestartState
  <2>3. QED
    BY <1>0, <2>1, <2>2, TaskEnds
<1>6. QED
  BY <1>2, <1>3, <1>4, <1>5 DEF TaskStep

\* Every step keeps the account.
LEMMA NextKeepsAccount == Typed /\ RuntimeInv /\ Account /\ [RuntimeNext]_vars => Account'
<1> SUFFICES ASSUME Typed, RuntimeInv, Account, [RuntimeNext]_vars PROVE Account'
  OBVIOUS
<1> USE DEF readinessVars, operationVars, taskVars, workerVars
<1>1. ASSUME NEW ch \in Children, Crash(ch) PROVE Account'
  BY <1>1, AccountSame DEF Crash
<1>2. CASE ShutdownStep
  BY <1>2, AccountSame DEF ShutdownStep, ShutdownToken, ShutdownRecheck
<1>3. CASE UNCHANGED vars
  BY <1>3, AccountSame DEF vars, runtimeVars
<1>4. QED
  BY <1>1, <1>2, <1>3, RequestAccount, ClientAccount, ReadinessAccount, TaskAccount DEF RuntimeNext

\* Before the first call nobody works.
LEMMA InitAccount == RuntimeInit => Account
<1> SUFFICES ASSUME RuntimeInit PROVE Account
  OBVIOUS
<1>1. /\ client = [c \in Clients |-> Idle] /\ readiness = [k \in Sessions \X Generations |-> "none"]
      /\ phase = [i \in Intents |-> "none"] /\ opState = [i \in Intents |-> "none"]
      /\ operationIDs = <<>> /\ workers = 0
  BY Zenon DEF RuntimeInit
<1>2. Busy = {}
  BY <1>1 DEF Busy, Exchanging, Idle
<1>3. Handshaking = {}
  <2>1. \A s \in Sessions, g \in Generations : ~ ReadinessPending(s, g)
    BY <1>1 DEF ReadinessPending
  <2>2. QED
    BY <2>1 DEF Handshaking
<1>4. Running = {}
  BY <1>1 DEF Running, Active
<1>5. Count
  BY <1>1, <1>2, <1>3, <1>4, FS_EmptySet DEF Count
<1>6. Len(operationIDs) = 0
  BY <1>1, EmptySeq
<1>7. OperationsKept
  BY <1>1, <1>6, RuntimeConstants DEF OperationsKept, Active
<1>8. QED
  BY <1>5, <1>7 DEF Account

\* An intent of the algebra has its worker, its operation and its session.
LEMMA InvImpliesIntentHasWorker == Typed /\ RuntimeInv /\ OperationsKept => IntentHasWorker
<1> SUFFICES ASSUME Typed, RuntimeInv, OperationsKept, NEW s \in Sessions, incumbent[s] # None
             PROVE  /\ phase[incumbent[s]] \in {"teardown", "complete"}
                    /\ opState[incumbent[s]] = "pending" /\ opSession[incumbent[s]] = s
                    /\ s \in sessions /\ rgen[s] = target[incumbent[s]]
                    /\ protocolOwned[s] /\ lifecycleOwned[s]
  BY DEF IntentHasWorker
<1>1. PICK i \in Intents : i = incumbent[s]
  BY DEF Typed, Records
<1>2. phase[i] \in {"teardown", "complete"} /\ opSession[i] = s
  BY <1>1 DEF RuntimeInv, At, IntentAt
<1>3. Holds(i, s)
  BY <1>2 DEF Holds, Holding
<1>4. Leased(s) /\ lifecycleOwned[s] /\ rgen[s] = target[i]
  BY <1>3 DEF RuntimeInv, At, HolderAt
<1>5. opState[i] = "pending"
  BY <1>2 DEF OperationsKept, Active
<1>6. QED
  BY <1>1, <1>2, <1>4, <1>5 DEF Leased

\* Goroutines, intents and operations are one account (terminate, runLifecycle,
\* runReadiness, RoundTrip and Shutdown): each accepted intent has its worker and
\* its pending operation, m.workers is the number of goroutines that run, and the
\* bounded operation table forgets only what is finished.
THEOREM WorkIsAccounted == RuntimeSpec => []WorkAccounted
<1>1. Typed /\ Count => RuntimeTypeOK
  <2>1. Count => workers \in Nat
    BY FS_CardinalityType DEF Count
  <2>2. QED
    BY <2>1, Zenon DEF Typed, Flags, Shape, RuntimeTypeOK
<1>2. Count => WorkersExact
  BY DEF Count, WorkersExact, Busy, Handshaking, Running
<1>3. Typed /\ RuntimeInv /\ Account => WorkAccounted
  BY <1>1, <1>2, InvImpliesIntentHasWorker DEF Account, WorkAccounted
<1>4. RuntimeSpec => []Account
  BY InitAccount, NextKeepsAccount, InvAlways, PTL DEF RuntimeSpec
<1>5. QED
  BY <1>3, <1>4, InvAlways, PTL

-----------------------------------------------------------------------------
\* What COMPLETE means of an operation i when it is recorded.
Delivered(i) ==
    LET s == opSession'[i] IN
    \/ /\ kind[i] = "STOP" /\ s \notin sessions'
       /\ \A ch \in Children : owner'[ch] = s => childState'[ch] = "reaped"
    \/ kind[i] = "RESTART" /\ readiness'[<<s, target[i] + 1>>] = "ready"

\* A session whose teardown left complete evidence has no child that is not reaped.
LEMMA CompleteMeansReaped ==
    ASSUME Typed, RuntimeInv, NEW i \in Intents, phase[i] = "complete", taskGap[i] = "none"
    PROVE  Reaped(opSession[i])
<1>1. PICK s \in Sessions :
           /\ s = opSession[i] /\ At(s) /\ Teardown(i, s)
           /\ \A j \in Intents : Holds(j, s) => j = i
  BY HolderFacts DEF Holding
<1>2. childState[process[s]] = "reaped"
  BY <1>1 DEF Teardown
<1>3. \A j \in Intents : ~ (phase[j] = "install" /\ opSession[j] = s)
  BY <1>1 DEF Holds, Holding
<1>4. QED
  BY <1>1, <1>2, <1>3 DEF At, OverlapAt, Reaped

\* A task that completes an operation has delivered it.
LEMMA TaskDelivers ==
    ASSUME Typed, RuntimeInv, NEW j \in Intents, TaskStep(j), NEW i \in Intents,
           opState[i] # "complete", opState'[i] = "complete"
    PROVE  Delivered(i)
<1>0. opState \in [Intents -> {"none", "pending", "complete", "failed"}]
  BY Zenon DEF Typed, Shape
<1>1. CASE CompleteTask(j)
  <2>1. CASE firstTeardownFailure(taskGap[j]) = "" /\ kind[j] = "STOP"
    <3>1. /\ phase[j] = "complete" /\ sessions' = sessions \ {opSession[j]}
          /\ FinishOperation(j, "complete", "") /\ UNCHANGED childVars
      BY <1>1, <2>1 DEF CompleteTask
    <3>2. j = i /\ UNCHANGED opSession
      BY <1>0, <3>1 DEF FinishOperation
    <3>3. taskGap[j] = "none"
      BY <2>1 DEF firstTeardownFailure, Typed, Shape, TeardownGap
    <3>4. Reaped(opSession[j])
      BY <3>1, <3>3, CompleteMeansReaped
    <3>5. QED
      BY <2>1, <3>1, <3>2, <3>4 DEF Delivered, Reaped, childVars
  <2>2. CASE ~ (firstTeardownFailure(taskGap[j]) = "" /\ kind[j] = "STOP")
    <3>1. (\E failure : FinishOperation(j, "failed", failure)) \/ UNCHANGED operationVars
      BY <1>1, <2>2 DEF CompleteTask
    <3>2. opState' = [opState EXCEPT ![j] = "failed"] \/ UNCHANGED opState
      BY <3>1 DEF FinishOperation, operationVars
    <3>3. QED
      BY <1>0, <3>2
  <2>3. QED
    BY <2>1, <2>2
<1>2. CASE FinishTask(j)
  <2>1. /\ phase[j] \in {"wait", "lost"}
        /\ \E failure : FinishOperation(j, RestartState(j), failure)
        /\ UNCHANGED readiness
    BY <1>2 DEF FinishTask, readinessVars
  <2>2. opState' = [opState EXCEPT ![j] = RestartState(j)] /\ UNCHANGED opSession
    BY <2>1 DEF FinishOperation
  <2>3. j = i /\ RestartState(j) = "complete"
    BY <1>0, <2>2
  <2>4. readiness[<<opSession[i], outcome[i].generation>>] = "ready"
    BY <2>3 DEF RestartState
  <2>5. kind[i] = "RESTART" /\ outcome[i].generation = target[i] + 1
    BY <2>1, <2>3 DEF RuntimeInv, Known
  <2>6. QED
    BY <2>1, <2>2, <2>4, <2>5 DEF Delivered
<1>3. CASE InstallTask(j)
  <2>1. (\E failure : FinishOperation(j, "failed", failure)) \/ UNCHANGED operationVars
    BY <1>3 DEF InstallTask
  <2>2. opState' = [opState EXCEPT ![j] = "failed"] \/ UNCHANGED opState
    BY <2>1 DEF FinishOperation, operationVars
  <2>3. QED
    BY <1>0, <2>2
<1>4. CASE TeardownTask(j) \/ SpawnTask(j) \/ BeginTask(j)
  BY <1>4 DEF TeardownTask, SpawnTask, BeginTask, operationVars
<1>5. QED
  BY <1>1, <1>2, <1>3, <1>4 DEF TaskStep

\* Nobody else records an outcome.
LEMMA OthersCompleteNothing ==
    ASSUME Typed, [RuntimeNext]_vars, ~ (\E j \in Intents : TaskStep(j)), NEW i \in Intents,
           opState[i] # "complete"
    PROVE  opState'[i] # "complete"
<1>0. opState \in [Intents -> {"none", "pending", "complete", "failed"}]
  BY Zenon DEF Typed, Shape
<1>1. ASSUME NEW s \in Sessions, NEW c \in Callers, NEW k \in {"STOP", "RESTART"}, Terminate(s, c, k)
      PROVE  opState'[i] # "complete"
  <2>1. \E n : opState' = [opState EXCEPT ![n] = "pending"]
    BY <1>1, Zenon DEF Terminate, TerminateWorker
  <2>2. QED
    BY <1>0, <2>1
<1>2. ASSUME NEW s \in Sessions, NEW c \in Callers, NEW k \in {"STOP", "RESTART"}, JoinOperation(s, c, k)
      PROVE  UNCHANGED opState
  <2>1. UNCHANGED runtimeVars
    BY <1>2, Zenon DEF JoinOperation
  <2>2. QED
    BY <2>1 DEF runtimeVars, operationVars
<1>3. CASE Request
  BY <1>1, <1>2, <1>3 DEF Request, StartCheck, BeginReadiness, BeginExchange, Shutdown, operationVars
<1>4. ASSUME NEW c \in Clients, ClientStep(c) PROVE UNCHANGED opState
  BY <1>4 DEF ClientStep, StartSpawn, StartAdmit, AnswerExchange, RetireExchange, FinishExchange, operationVars
<1>5. ASSUME NEW s \in Sessions, NEW g \in Generations, ReadinessStep(s, g) PROVE UNCHANGED opState
  BY <1>5 DEF ReadinessStep, AbortReadiness, FinishReadiness, operationVars
<1>6. ASSUME NEW ch \in Children, Crash(ch) PROVE UNCHANGED opState
  BY <1>6 DEF Crash, operationVars
<1>7. CASE ShutdownStep
  BY <1>7 DEF ShutdownStep, ShutdownToken, ShutdownRecheck, operationVars
<1>8. CASE UNCHANGED vars
  BY <1>8 DEF vars, runtimeVars, operationVars
<1>9. QED
  BY <1>3, <1>4, <1>5, <1>6, <1>7, <1>8 DEF RuntimeNext

\* An operation recorded as COMPLETE has delivered: a STOP has removed its session
\* and reaped every child the session ever had, a RESTART saw the successor's
\* handshake succeed (runLifecycle).
THEOREM CompletionsDeliver == RuntimeSpec => CompleteDelivers
<1>1. Typed /\ RuntimeInv /\ [RuntimeNext]_vars =>
         [\A i \in Intents : opState[i] # "complete" /\ opState'[i] = "complete" =>
             LET s == opSession'[i] IN
             \/ /\ kind[i] = "STOP" /\ s \notin sessions'
                /\ \A ch \in Children : owner'[ch] = s => childState'[ch] = "reaped"
             \/ kind[i] = "RESTART" /\ readiness'[<<s, target[i] + 1>>] = "ready"]_vars
  <2> SUFFICES ASSUME Typed, RuntimeInv, [RuntimeNext]_vars, NEW i \in Intents,
                      opState[i] # "complete", opState'[i] = "complete"
               PROVE  Delivered(i)
    BY DEF Delivered
  <2>1. \E j \in Intents : TaskStep(j)
    BY OthersCompleteNothing
  <2>2. QED
    BY <2>1, TaskDelivers
<1>2. QED
  BY <1>1, InvAlways, PTL DEF RuntimeSpec, CompleteDelivers
=============================================================================
