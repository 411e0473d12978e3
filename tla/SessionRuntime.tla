--------------------------- MODULE SessionRuntime ---------------------------
(***************************************************************************)
(* sessionruntime.Manager (src/sessionruntime/sessionruntime.go): the map  *)
(* of running sessions over the lifecycle algebra of SessionLifecycle, the *)
(* child processes, and the goroutines that work on them:                  *)
(*   - clients inside Start, RoundTrip and PrepareDocument (Clients);      *)
(*   - the readiness goroutine of a session and generation (runReadiness); *)
(*   - the goroutine of an accepted STOP or RESTART (runLifecycle);        *)
(*   - one caller of Shutdown.                                             *)
(* What a goroutine does while it holds Manager.mu is one action; it gives *)
(* the mutex up around every spawn, exchange and teardown, and those are   *)
(* actions of their own.  A call that is refused or only reports changes   *)
(* nothing and is not an action.  BeginRequest, CancelRequest,             *)
(* CompleteResponse, Expire, ObserveCrash, Poison and the exported         *)
(* ObserveInitialization have no caller outside the tests and are left     *)
(* out, so no session has requests when it is stopped (HasWork = FALSE).   *)
(***************************************************************************)
EXTENDS SessionLifecycle

CONSTANTS
    Clients,        \* goroutines that call Start, RoundTrip and PrepareDocument
    MaxSessions,    \* limits.MaxSessions
    MaxChildren,    \* limits.MaxChildren
    MaxOperations,  \* limits.MaxOperations
    MaxSpawns,      \* bound: child processes spawned
    MaxWork,        \* bound: exchanges begun
    SpawnOutcomes,  \* may a spawn succeed (TRUE), fail (FALSE)
    ReapOutcomes,   \* what Wait reports of a dead child: "reaped", "unreaped"
    CloseOutcomes,  \* what Close reports of its pipes: "closed", "broken"
    ServerFails     \* may a child crash, refuse initialize or shutdown, time out

Children == 1..MaxSpawns
Generations == 1..(MaxIntents + 1)
SpawnFailure == "SPAWN_FAILED"

ASSUME RuntimeConstants ==
    /\ MaxSessions \in Nat \ {0} /\ MaxChildren \in Nat \ {0} /\ MaxOperations \in Nat \ {0}
    /\ MaxSpawns \in Nat /\ MaxWork \in Nat
    /\ SpawnOutcomes \subseteq BOOLEAN /\ ServerFails \in BOOLEAN
    /\ ReapOutcomes \subseteq {"reaped", "unreaped"} /\ ReapOutcomes # {}
    /\ CloseOutcomes \subseteq {"closed", "broken"} /\ CloseOutcomes # {}
    /\ None \notin Children /\ None \notin Sessions

VARIABLES
    sessions,       \* the keys of m.sessions
    rgen,           \* runtimeSession.record.Generation
    rstate,         \* runtimeSession.record.State
    process,        \* runtimeSession.process
    retired,        \* is runtimeSession.retired set (to the child in process)
    protocolOwned,  \* runtimeSession.protocolOwned: the lease on the streams
    lifecycleOwned, \* runtimeSession.lifecycleOwned
    live,           \* the algebra's admitted sessions (session.Manager.live)
    readiness,      \* m.readiness by m.readinessIDs, per session and generation
                    \* ("aborted": pending, and its child is already torn down)
    readinessChild, \* the child the readiness goroutine works on
    operationIDs,   \* m.operationIDs, oldest first; ids of m.operations
    opState,        \* OperationSnapshot.State, "none" before it is recorded
    opSession,      \* OperationSnapshot.SessionID
    opCaller,       \* OperationSnapshot.CallerID
    opFailure,      \* OperationSnapshot.Failure
    phase,          \* where runLifecycle of an intent is
    taskChild,      \* the child runLifecycle works on: predecessor, then successor
    taskRetired,    \* the value of retired that runLifecycle was started with
    taskGap,        \* the teardown evidence it observed
    workers,        \* m.workers
    workerDone,     \* is there a token in the channel m.workerDone (capacity 1)
    closed,         \* m.closed
    waiter,         \* the caller of Shutdown
    client,         \* what each client is doing
    spawned,        \* children spawned so far
    childState,     \* of the process of a child
    pipes,          \* of the pipes of a child
    owner,          \* the session a child was installed in, or spawned for by RESTART
    work            \* exchanges begun so far (bound)

recordVars == <<sessions, rgen, rstate, process, retired, protocolOwned, lifecycleOwned, live>>
readinessVars == <<readiness, readinessChild>>
operationVars == <<operationIDs, opState, opSession, opCaller, opFailure>>
taskVars == <<phase, taskChild, taskRetired, taskGap>>
workerVars == <<workers, workerDone>>
shutdownVars == <<closed, waiter>>
childVars == <<spawned, childState, pipes, owner>>
runtimeVars == <<recordVars, readinessVars, operationVars, taskVars, workerVars, shutdownVars,
                 childVars, client, work>>
vars == <<lifecycleVars, runtimeVars>>

Idle == [op |-> "idle"]
StartCall == [op : {"spawn"}, session : Sessions] \cup
             [op : {"admit"}, session : Sessions, child : Children]
Exchange == [op : {"io", "answered", "retired"}, session : Sessions,
             generation : Nat, child : Children \cup {None}]
Phase == {"none", "teardown", "complete", "spawn", "install", "begin", "wait", "lost", "done"}

RuntimeTypeOK ==
    /\ sessions \subseteq Sessions /\ live \subseteq Sessions
    /\ rgen \in [Sessions -> Nat] /\ rstate \in [Sessions -> State]
    /\ process \in [Sessions -> Children \cup {None}]
    /\ retired \in [Sessions -> BOOLEAN]
    /\ protocolOwned \in [Sessions -> BOOLEAN] /\ lifecycleOwned \in [Sessions -> BOOLEAN]
    /\ readiness \in [Sessions \X Generations -> {"none", "pending", "aborted", "ready", "failed"}]
    /\ readinessChild \in [Sessions \X Generations -> Children \cup {None}]
    /\ operationIDs \in Seq(Intents)
    /\ opState \in [Intents -> {"none", "pending", "complete", "failed"}]
    /\ opSession \in [Intents -> Sessions \cup {None}] /\ opCaller \in [Intents -> Callers \cup {None}]
    /\ opFailure \in [Intents -> Failure \cup {SpawnFailure}]
    /\ phase \in [Intents -> Phase] /\ taskChild \in [Intents -> Children \cup {None}]
    /\ taskRetired \in [Intents -> BOOLEAN] /\ taskGap \in [Intents -> TeardownGap]
    /\ workers \in Nat /\ workerDone \in BOOLEAN /\ closed \in BOOLEAN
    /\ waiter \in {"none", "waiting", "woken", "returned"}
    /\ client \in [Clients -> {Idle} \cup StartCall \cup Exchange]
    /\ spawned \in 0..MaxSpawns /\ work \in 0..MaxWork
    /\ childState \in [Children -> {"none", "running", "reaped", "unreaped"}]
    /\ pipes \in [Children -> {"open", "closed", "broken"}]
    /\ owner \in [Children -> Sessions \cup {None}]

RuntimeInit ==
    /\ LifecycleInit
    /\ sessions = {} /\ live = {}
    /\ rgen = [s \in Sessions |-> 0] /\ rstate = [s \in Sessions |-> Stopped]
    /\ process = [s \in Sessions |-> None] /\ retired = [s \in Sessions |-> FALSE]
    /\ protocolOwned = [s \in Sessions |-> FALSE] /\ lifecycleOwned = [s \in Sessions |-> FALSE]
    /\ readiness = [k \in Sessions \X Generations |-> "none"]
    /\ readinessChild = [k \in Sessions \X Generations |-> None]
    /\ operationIDs = <<>>
    /\ opState = [i \in Intents |-> "none"] /\ opSession = [i \in Intents |-> None]
    /\ opCaller = [i \in Intents |-> None] /\ opFailure = [i \in Intents |-> ""]
    /\ phase = [i \in Intents |-> "none"] /\ taskChild = [i \in Intents |-> None]
    /\ taskRetired = [i \in Intents |-> FALSE] /\ taskGap = [i \in Intents |-> "none"]
    /\ workers = 0 /\ workerDone = FALSE /\ closed = FALSE /\ waiter = "none"
    /\ client = [c \in Clients |-> Idle]
    /\ spawned = 0 /\ work = 0
    /\ childState = [ch \in Children |-> "none"] /\ pipes = [ch \in Children |-> "open"]
    /\ owner = [ch \in Children |-> None]

-----------------------------------------------------------------------------
\* Children: managedprocess.Process behind the Starter and Child interfaces.

\* starter.Start: the next child runs, on behalf of session s or nobody yet.
Spawn(s) ==
    /\ spawned < MaxSpawns
    /\ spawned' = spawned + 1
    /\ childState' = [childState EXCEPT ![spawned + 1] = "running"]
    /\ owner' = [owner EXCEPT ![spawned + 1] = s]
    /\ UNCHANGED pipes

\* Teardown and Close, in either order: a running child dies and its reap gives
\* r, open pipes are closed with result p; both results are kept for good.
TearDown(ch, r, p) ==
    /\ childState' = [childState EXCEPT ![ch] = IF @ = "running" THEN r ELSE @]
    /\ pipes' = [pipes EXCEPT ![ch] = IF @ = "open" THEN p ELSE @]
    /\ UNCHANGED <<spawned, owner>>

\* A child dies on its own; its reap goroutine waits for it.
Crash(ch) ==
    /\ ServerFails
    /\ childState[ch] = "running"
    /\ \E r \in ReapOutcomes : childState' = [childState EXCEPT ![ch] = r]
    /\ UNCHANGED <<lifecycleVars, recordVars, readinessVars, operationVars, taskVars, workerVars,
                   shutdownVars, spawned, pipes, owner, client, work>>

-----------------------------------------------------------------------------
\* The worker count and its wakeup: a worker that ends puts a token into
\* workerDone unless one is there.
WorkerEnds_NoToken == workers' = workers - 1 /\ UNCHANGED workerDone
WorkerEnds == workers' = workers - 1 /\ workerDone' = TRUE

\* Shutdown: refuses later terminate and prepareDocument calls, then waits for
\* the workers, re-reading the count under the mutex after every token.
Shutdown ==
    /\ waiter = "none"
    /\ closed' = TRUE
    /\ waiter' = IF workers > 0 THEN "waiting" ELSE "returned"
    /\ UNCHANGED <<lifecycleVars, recordVars, readinessVars, operationVars, taskVars, workerVars,
                   childVars, client, work>>

ShutdownToken ==
    /\ waiter = "waiting" /\ workerDone
    /\ workerDone' = FALSE /\ waiter' = "woken"
    /\ UNCHANGED <<lifecycleVars, recordVars, readinessVars, operationVars, taskVars, workers,
                   closed, childVars, client, work>>

ShutdownRecheck ==
    /\ waiter = "woken"
    /\ waiter' = IF workers > 0 THEN "waiting" ELSE "returned"
    /\ UNCHANGED <<lifecycleVars, recordVars, readinessVars, operationVars, taskVars, workerVars,
                   closed, childVars, client, work>>

-----------------------------------------------------------------------------
\* Start: checked, spawned without the mutex, checked again.

CanStart(s) == s \notin sessions /\ Cardinality(sessions) < MaxSessions

StartCheck(c, s) ==
    /\ client[c] = Idle
    /\ CanStart(s)
    /\ client' = [client EXCEPT ![c] = [op |-> "spawn", session |-> s]]
    /\ UNCHANGED <<lifecycleVars, recordVars, readinessVars, operationVars, taskVars, workerVars,
                   shutdownVars, childVars, work>>

StartSpawn(c) ==
    /\ client[c].op = "spawn"
    /\ \/ /\ TRUE \in SpawnOutcomes
          /\ Spawn(None)
          /\ client' = [client EXCEPT ![c] = [op |-> "admit", session |-> client[c].session,
                                              child |-> spawned + 1]]
       \/ /\ FALSE \in SpawnOutcomes
          /\ client' = [client EXCEPT ![c] = Idle]
          /\ UNCHANGED childVars
    /\ UNCHANGED <<lifecycleVars, recordVars, readinessVars, operationVars, taskVars, workerVars,
                   shutdownVars, work>>

\* The check is made again once the child exists, and decides.  The loser's child
\* is torn down before the mutex is released.  The winner registers with the
\* algebra, which keeps the record of an earlier session of that id, and is
\* admitted: Admit has a free slot whenever CanStart holds (LiveAreSessions).
StartAdmit(c) ==
    LET s == client[c].session
        ch == client[c].child
    IN
    /\ client[c].op = "admit"
    /\ client' = [client EXCEPT ![c] = Idle]
    /\ \/ /\ ~CanStart(s)
          /\ \E r \in ReapOutcomes, p \in CloseOutcomes : TearDown(ch, r, p)
          /\ UNCHANGED <<lifecycleVars, recordVars>>
       \/ /\ CanStart(s)
          /\ IF s \in registered THEN UNCHANGED lifecycleVars
                                 ELSE RegisterLifecycle(s, 1, Initializing, FALSE)
          /\ live' = live \cup {s}
          /\ sessions' = sessions \cup {s}
          /\ rgen' = [rgen EXCEPT ![s] = 1]
          /\ rstate' = [rstate EXCEPT ![s] = Initializing]
          /\ process' = [process EXCEPT ![s] = ch]
          /\ retired' = [retired EXCEPT ![s] = FALSE]
          /\ protocolOwned' = [protocolOwned EXCEPT ![s] = FALSE]
          /\ lifecycleOwned' = [lifecycleOwned EXCEPT ![s] = FALSE]
          /\ owner' = [owner EXCEPT ![ch] = s]
          /\ UNCHANGED <<spawned, childState, pipes>>
    /\ UNCHANGED <<readinessVars, operationVars, taskVars, workerVars, shutdownVars, work>>

-----------------------------------------------------------------------------
\* Readiness: one initialize handshake per session id and generation, ever.

ReadinessPending(s, g) == readiness[<<s, g>>] \in {"pending", "aborted"}

\* No goroutine holds the lease on the session's streams.
LeaseFree_Ignored(s) == TRUE
LeaseFree(s) == ~protocolOwned[s]

\* The part of BeginReadiness that starts the goroutine; its guard is the code's
\* order of early returns.
CanBeginReadiness(s, g) ==
    /\ s \in sessions /\ rgen[s] = g
    /\ readiness[<<s, g>>] = "none"
    /\ LeaseFree(s)

ReadinessBegins(s, g) ==
    /\ readiness' = [readiness EXCEPT ![<<s, g>>] = "pending"]
    /\ readinessChild' = [readinessChild EXCEPT ![<<s, g>>] = process[s]]
    /\ protocolOwned' = [protocolOwned EXCEPT ![s] = TRUE]
    /\ workers' = workers + 1

BeginReadiness(s) ==
    /\ CanBeginReadiness(s, rgen[s])
    /\ ReadinessBegins(s, rgen[s])
    /\ UNCHANGED <<lifecycleVars, sessions, rgen, rstate, process, retired, lifecycleOwned, live,
                   operationVars, taskVars, workerDone, shutdownVars, childVars, client, work>>

\* The handshake failed, timed out or was cancelled: its child is torn down.
AbortReadiness(s, g) ==
    LET ch == readinessChild[<<s, g>>] IN
    /\ readiness[<<s, g>>] = "pending"
    /\ ServerFails \/ childState[ch] # "running"
    /\ readiness' = [readiness EXCEPT ![<<s, g>>] = "aborted"]
    /\ \E r \in ReapOutcomes, p \in CloseOutcomes : TearDown(ch, r, p)
    /\ UNCHANGED <<lifecycleVars, recordVars, readinessChild, operationVars, taskVars, workerVars,
                   shutdownVars, client, work>>

\* retainReadinessRetirement (after a failure) and finishReadiness.  The algebra
\* takes the report or refuses it; the record shows the algebra's state.
FinishReadiness(s, g) ==
    LET ok == readiness[<<s, g>>] = "pending" IN
    /\ ReadinessPending(s, g)
    /\ ok => childState[readinessChild[<<s, g>>]] = "running"
    /\ readiness' = [readiness EXCEPT ![<<s, g>>] = IF ok THEN "ready" ELSE "failed"]
    /\ IF s \in sessions /\ rgen[s] = g
       THEN /\ protocolOwned' = [protocolOwned EXCEPT ![s] = FALSE]
            /\ retired' = [retired EXCEPT ![s] = @ \/ ~ok]
            /\ \/ /\ generation[s] = g
                  /\ ObserveInitialization(s, ok)
               \/ /\ ~(generation[s] = g /\ incumbent[s] = None /\ state[s] = Initializing)
                  /\ UNCHANGED lifecycleVars
            /\ rstate' = [rstate EXCEPT ![s] = state'[s]]
       ELSE UNCHANGED <<lifecycleVars, protocolOwned, retired, rstate>>
    /\ WorkerEnds
    /\ UNCHANGED <<sessions, rgen, process, lifecycleOwned, live, readinessChild, operationVars,
                   taskVars, shutdownVars, childVars, client, work>>

-----------------------------------------------------------------------------
\* RoundTrip and PrepareDocument: one exchange with the child under the lease.
\* A document whose digest is unchanged is answered without an exchange.

\* Only prepareDocument looks at m.closed.
MayPrepareDocument == ~closed

BeginExchange(c, s, document) ==
    /\ client[c] = Idle
    /\ s \in sessions
    /\ document => MayPrepareDocument
    /\ rstate[s] = Ready /\ LeaseFree(s)
    /\ workers < MaxChildren
    /\ work < MaxWork /\ work' = work + 1
    /\ client' = [client EXCEPT ![c] = [op |-> "io", session |-> s, generation |-> rgen[s],
                                        child |-> process[s]]]
    /\ protocolOwned' = [protocolOwned EXCEPT ![s] = TRUE]
    /\ workers' = workers + 1
    /\ UNCHANGED <<lifecycleVars, sessions, rgen, rstate, process, retired, lifecycleOwned, live,
                   readinessVars, operationVars, taskVars, workerDone, shutdownVars, childVars>>

\* The response arrived, or the notification was written.
AnswerExchange(c) ==
    /\ client[c].op = "io"
    /\ childState[client[c].child] = "running"
    /\ client' = [client EXCEPT ![c] = [client[c] EXCEPT !.op = "answered"]]
    /\ UNCHANGED <<lifecycleVars, recordVars, readinessVars, operationVars, taskVars, workerVars,
                   shutdownVars, childVars, work>>

\* The exchange failed, timed out or was cancelled: ownedTransport.retire closes
\* the pipes and kills the child.
RetireExchange(c) ==
    /\ client[c].op = "io"
    /\ client' = [client EXCEPT ![c] = [client[c] EXCEPT !.op = "retired"]]
    /\ \E r \in ReapOutcomes, p \in CloseOutcomes : TearDown(client[c].child, r, p)
    /\ UNCHANGED <<lifecycleVars, recordVars, readinessVars, operationVars, taskVars, workerVars,
                   shutdownVars, work>>

\* finishRoundTrip: a retired exchange poisons the record (the algebra is not told).
StateAfterExchange(s, poison) == IF poison THEN Poisoned ELSE rstate[s]

FinishExchange(c) ==
    LET s == client[c].session
        poison == client[c].op = "retired"
    IN
    /\ client[c].op \in {"answered", "retired"}
    /\ client' = [client EXCEPT ![c] = Idle]
    /\ IF s \in sessions /\ rgen[s] = client[c].generation
       THEN /\ protocolOwned' = [protocolOwned EXCEPT ![s] = FALSE]
            /\ rstate' = [rstate EXCEPT ![s] = StateAfterExchange(s, poison)]
            /\ retired' = [retired EXCEPT ![s] = @ \/ poison]
       ELSE UNCHANGED <<protocolOwned, rstate, retired>>
    /\ WorkerEnds
    /\ UNCHANGED <<lifecycleVars, sessions, rgen, process, lifecycleOwned, live, readinessVars,
                   operationVars, taskVars, shutdownVars, childVars, work>>

-----------------------------------------------------------------------------
\* terminate (Stop and Restart).

\* The conditions on the record, before the operations are looked at.
MayTerminate(s) ==
    /\ s \in sessions
    /\ ~closed
    /\ protocolOwned[s] => lifecycleOwned[s]
    /\ ~ReadinessPending(s, rgen[s])

\* The operations that answer caller c: its own, or a pending one to join.
\* The newest decides; if it is c's own its outcome is replayed.
Answering(s, c, k) ==
    {j \in DOMAIN operationIDs :
        LET i == operationIDs[j] IN
        /\ opSession[i] = s /\ kind[i] = k /\ target[i] = rgen[s]
        /\ opCaller[i] = c \/ opState[i] = "pending"}
Newest(J) == CHOOSE j \in J : \A k \in J : k <= j

JoinOperation(s, c, k) ==
    LET J == Answering(s, c, k) IN
    /\ MayTerminate(s)
    /\ J # {} /\ opCaller[operationIDs[Newest(J)]] # c
    /\ rgen[s] = generation[s]
    /\ Join(s, c, k)
    /\ UNCHANGED runtimeVars

\* canReserveOperation and reserveOperation: the oldest finished operation is
\* forgotten when the table is full.
Finished(ids) == {j \in DOMAIN ids : opState[ids[j]] # "pending"}
CanReserve(ids) == Len(ids) < MaxOperations \/ Finished(ids) # {}
Reserved(ids) ==
    IF Len(ids) < MaxOperations THEN ids
    ELSE LET oldest == CHOOSE j \in Finished(ids) : \A k \in Finished(ids) : j <= k
         IN SubSeq(ids, 1, oldest - 1) \o SubSeq(ids, oldest + 1, Len(ids))

\* Capacity of the runtime, taken before the algebra can install an intent.
HasCapacity == workers < MaxChildren /\ CanReserve(operationIDs)

\* The algebra installed an intent: its operation is recorded, the lease taken
\* and the goroutine started with the child and retirement of this moment.
TerminateWorker(s, c, i) ==
    /\ operationIDs' = Append(Reserved(operationIDs), i)
    /\ opState' = [opState EXCEPT ![i] = "pending"]
    /\ opSession' = [opSession EXCEPT ![i] = s]
    /\ opCaller' = [opCaller EXCEPT ![i] = c]
    /\ protocolOwned' = [protocolOwned EXCEPT ![s] = TRUE]
    /\ lifecycleOwned' = [lifecycleOwned EXCEPT ![s] = TRUE]
    /\ phase' = [phase EXCEPT ![i] = "teardown"]
    /\ taskChild' = [taskChild EXCEPT ![i] = process[s]]
    /\ taskRetired' = [taskRetired EXCEPT ![i] = retired[s]]
    /\ workers' = workers + 1
    /\ UNCHANGED <<opFailure, taskGap>>

Terminate_CapacityLate(s, c, k) ==
    /\ MayTerminate(s)
    /\ Answering(s, c, k) = {}
    /\ rgen[s] = generation[s]
    /\ Insert(s, c, k, TRUE, FALSE)
    /\ IF HasCapacity THEN TerminateWorker(s, c, nextIntent + 1)
       ELSE UNCHANGED <<operationVars, taskVars, protocolOwned, lifecycleOwned, workers>>
    /\ UNCHANGED <<sessions, rgen, rstate, process, retired, live, readinessVars, workerDone,
                   shutdownVars, childVars, client, work>>
Terminate(s, c, k) ==
    /\ MayTerminate(s)
    /\ Answering(s, c, k) = {}
    /\ HasCapacity
    /\ rgen[s] = generation[s]
    /\ Insert(s, c, k, TRUE, FALSE)
    /\ TerminateWorker(s, c, nextIntent + 1)
    /\ UNCHANGED <<sessions, rgen, rstate, process, retired, live, readinessVars, workerDone,
                   shutdownVars, childVars, client, work>>

-----------------------------------------------------------------------------
\* runLifecycle of intent i.

FinishOperation(i, st, failure) ==
    /\ opState' = [opState EXCEPT ![i] = st]
    /\ opFailure' = [opFailure EXCEPT ![i] = failure]
    /\ WorkerEnds
    /\ UNCHANGED <<operationIDs, opSession, opCaller>>

\* The completion evidence: what the shutdown exchange, Close and Teardown showed.
Evidence(shutdown, pipe, reap) ==
    CASE ~shutdown -> "shutdown"
      [] shutdown /\ pipe # "closed" -> "unsafe-io"
      [] shutdown /\ pipe = "closed" /\ reap # "reaped" -> "terminate"
      [] OTHER -> "none"

\* gracefulShutdown, Teardown and Close, without the mutex; for a retired child
\* what its retirement observed is used again.
TeardownTask(i) ==
    LET ch == taskChild[i] IN
    /\ phase[i] = "teardown"
    /\ phase' = [phase EXCEPT ![i] = "complete"]
    /\ \/ /\ taskRetired[i]
          /\ taskGap' = [taskGap EXCEPT ![i] = Evidence(TRUE, pipes[ch], childState[ch])]
          /\ UNCHANGED childVars
       \/ /\ ~taskRetired[i]
          /\ \E r \in ReapOutcomes, p \in CloseOutcomes, shutdown \in BOOLEAN :
                /\ shutdown => childState[ch] = "running" /\ pipes[ch] = "open"
                /\ ~shutdown => ServerFails \/ childState[ch] # "running" \/ pipes[ch] # "open"
                /\ TearDown(ch, r, p)
                /\ taskGap' = [taskGap EXCEPT ![i] = Evidence(shutdown, pipes'[ch], childState'[ch])]
    /\ UNCHANGED <<lifecycleVars, recordVars, readinessVars, operationVars, taskChild, taskRetired,
                   workerVars, shutdownVars, client, work>>

\* The completion is reported and the session poisoned, removed (ReleaseStopped
\* and delete) or kept, leased, for its successor.
LiveAfterStop_Kept(s) == live
LiveAfterStop(s) == live \ {s}

CompleteTask(i) ==
    LET s == opSession[i]
        failure == firstTeardownFailure(taskGap[i])
    IN
    /\ phase[i] = "complete"
    /\ CompleteLifecycleObserved(s, i, taskGap[i], "pending")
    /\ \/ /\ failure # ""
          /\ rstate' = [rstate EXCEPT ![s] = Poisoned]
          /\ protocolOwned' = [protocolOwned EXCEPT ![s] = FALSE]
          /\ lifecycleOwned' = [lifecycleOwned EXCEPT ![s] = FALSE]
          /\ phase' = [phase EXCEPT ![i] = "done"]
          /\ FinishOperation(i, "failed", failure)
          /\ UNCHANGED <<sessions, live>>
       \/ /\ failure = "" /\ kind[i] = "STOP"
          /\ sessions' = sessions \ {s}
          /\ live' = LiveAfterStop(s)
          /\ phase' = [phase EXCEPT ![i] = "done"]
          /\ FinishOperation(i, "complete", "")
          /\ UNCHANGED <<rstate, protocolOwned, lifecycleOwned>>
       \/ /\ failure = "" /\ kind[i] = "RESTART"
          /\ phase' = [phase EXCEPT ![i] = "spawn"]
          /\ UNCHANGED <<sessions, live, rstate, protocolOwned, lifecycleOwned, operationVars, workerVars>>
    /\ UNCHANGED <<rgen, process, retired, readinessVars, taskChild, taskRetired, taskGap,
                   shutdownVars, childVars, client, work>>

\* The successor is spawned without the mutex.
SpawnTask(i) ==
    /\ phase[i] = "spawn"
    /\ phase' = [phase EXCEPT ![i] = "install"]
    /\ \/ /\ TRUE \in SpawnOutcomes
          /\ Spawn(opSession[i])
          /\ taskChild' = [taskChild EXCEPT ![i] = spawned + 1]
       \/ /\ FALSE \in SpawnOutcomes
          /\ taskChild' = [taskChild EXCEPT ![i] = None]
          /\ UNCHANGED childVars
    /\ UNCHANGED <<lifecycleVars, recordVars, readinessVars, operationVars, taskRetired, taskGap,
                   workerVars, shutdownVars, client, work>>

\* With the mutex again: a failed spawn poisons the record and ends the
\* operation, the lease and the generation staying as they are; otherwise the
\* record gets the successor and is released.
InstallTask(i) ==
    LET s == opSession[i] IN
    /\ phase[i] = "install"
    /\ \/ /\ taskChild[i] = None
          /\ rstate' = [rstate EXCEPT ![s] = Poisoned]
          /\ phase' = [phase EXCEPT ![i] = "done"]
          /\ FinishOperation(i, "failed", SpawnFailure)
          /\ UNCHANGED <<rgen, process, retired, protocolOwned, lifecycleOwned>>
       \/ /\ taskChild[i] # None
          /\ process' = [process EXCEPT ![s] = taskChild[i]]
          /\ rgen' = [rgen EXCEPT ![s] = outcome[i].generation]
          /\ rstate' = [rstate EXCEPT ![s] = Initializing]
          /\ retired' = [retired EXCEPT ![s] = FALSE]
          /\ protocolOwned' = [protocolOwned EXCEPT ![s] = FALSE]
          /\ lifecycleOwned' = [lifecycleOwned EXCEPT ![s] = FALSE]
          /\ phase' = [phase EXCEPT ![i] = "begin"]
          /\ UNCHANGED <<operationVars, workerVars>>
    /\ UNCHANGED <<lifecycleVars, sessions, live, readinessVars, taskChild, taskRetired, taskGap,
                   shutdownVars, childVars, client, work>>

\* BeginReadiness of the successor, the mutex having been free in between: the
\* handshake is begun, or someone else's is joined, or it is refused and no
\* readiness id is left to wait for.
AfterRefusal_Waits == "wait"
AfterRefusal == "lost"

BeginTask(i) ==
    LET s == opSession[i]
        g == outcome[i].generation
    IN
    /\ phase[i] = "begin"
    /\ \/ /\ CanBeginReadiness(s, g)
          /\ ReadinessBegins(s, g)
          /\ phase' = [phase EXCEPT ![i] = "wait"]
       \/ /\ s \in sessions /\ rgen[s] = g /\ readiness[<<s, g>>] # "none"
          /\ phase' = [phase EXCEPT ![i] = "wait"]
          /\ UNCHANGED <<readinessVars, protocolOwned, workers>>
       \/ /\ ~(s \in sessions /\ rgen[s] = g /\ (readiness[<<s, g>>] = "none" => LeaseFree(s)))
          /\ phase' = [phase EXCEPT ![i] = AfterRefusal]
          /\ UNCHANGED <<readinessVars, protocolOwned, workers>>
    /\ UNCHANGED <<lifecycleVars, sessions, rgen, rstate, process, retired, lifecycleOwned, live,
                   operationVars, taskChild, taskRetired, taskGap, workerDone, shutdownVars,
                   childVars, client, work>>

\* The handshake ended and the operation ends with it.  Without a readiness id
\* the zero snapshot is not READY and carries no failure.
RestartState_AnyOutcome(i) == "complete"
RestartState(i) ==
    IF phase[i] = "wait" /\ readiness[<<opSession[i], outcome[i].generation>>] = "ready"
    THEN "complete" ELSE "failed"

FinishTask(i) ==
    LET g == outcome[i].generation IN
    /\ phase[i] \in {"wait", "lost"}
    /\ phase[i] = "wait" => readiness[<<opSession[i], g>>] \in {"ready", "failed"}
    /\ phase' = [phase EXCEPT ![i] = "done"]
    /\ FinishOperation(i, RestartState(i),
          IF phase[i] = "wait" /\ readiness[<<opSession[i], g>>] = "failed" THEN "INITIALIZATION_FAILED" ELSE "")
    /\ UNCHANGED <<lifecycleVars, recordVars, readinessVars, taskChild, taskRetired, taskGap,
                   shutdownVars, childVars, client, work>>

-----------------------------------------------------------------------------
TaskStep(i) ==
    \/ TeardownTask(i) \/ CompleteTask(i) \/ SpawnTask(i)
    \/ InstallTask(i) \/ BeginTask(i) \/ FinishTask(i)
ReadinessStep(s, g) == AbortReadiness(s, g) \/ FinishReadiness(s, g)
ClientStep(c) ==
    \/ StartSpawn(c) \/ StartAdmit(c)
    \/ AnswerExchange(c) \/ RetireExchange(c) \/ FinishExchange(c)
ShutdownStep == ShutdownToken \/ ShutdownRecheck

Request ==
    \/ \E c \in Clients, s \in Sessions : StartCheck(c, s)
    \/ \E s \in Sessions : BeginReadiness(s)
    \/ \E c \in Clients, s \in Sessions, document \in BOOLEAN : BeginExchange(c, s, document)
    \/ \E s \in Sessions, c \in Callers, k \in {"STOP", "RESTART"} :
          JoinOperation(s, c, k) \/ Terminate(s, c, k)
    \/ Shutdown

RuntimeNext ==
    \/ Request
    \/ \E ch \in Children : Crash(ch)
    \/ \E c \in Clients : ClientStep(c)
    \/ \E s \in Sessions, g \in Generations : ReadinessStep(s, g)
    \/ \E i \in Intents : TaskStep(i)
    \/ ShutdownStep

RuntimeSpec == RuntimeInit /\ [][RuntimeNext]_vars

\* Goroutines run: a handshake and an exchange end, because each waits with a
\* deadline and a timeout closes the pipes it waits on, and so does a spawn.
\* gracefulShutdown writes to a child that is not retired without a deadline, so
\* nothing is assumed of the teardown of such a child.
ShuttingDown(i) == phase[i] = "teardown" /\ ~taskRetired[i]
RuntimeFairSpec ==
    /\ RuntimeSpec
    /\ \A c \in Clients : WF_vars(ClientStep(c))
    /\ \A s \in Sessions, g \in Generations : WF_vars(ReadinessStep(s, g))
    /\ \A i \in Intents : WF_vars(~ShuttingDown(i) /\ TaskStep(i))
    /\ WF_vars(ShutdownStep)

-----------------------------------------------------------------------------
\* Properties.

Exchanging(c) == client[c].op \in {"io", "answered", "retired"}
Active(i) == phase[i] \notin {"none", "done"}
ClientsOn(ch) == {c \in Clients : Exchanging(c) /\ client[c].child = ch}
ReadinessOn(ch) == {k \in Sessions \X Generations : ReadinessPending(k[1], k[2]) /\ readinessChild[k] = ch}
TasksOn(ch) == {i \in Intents : phase[i] \in {"teardown", "complete"} /\ taskChild[i] = ch}

\* The streams of a child are used by one goroutine at a time (handshake,
\* exchange, shutdown), and that goroutine's session is present, still has that
\* child and has the lease taken ("exclusively owning the exact generation's
\* stdin/stdout stream", RoundTrip).
LeaseExclusive ==
    \A ch \in Children :
       /\ Cardinality(ClientsOn(ch)) + Cardinality(ReadinessOn(ch)) + Cardinality(TasksOn(ch)) <= 1
       /\ ClientsOn(ch) # {} \/ ReadinessOn(ch) # {} \/ TasksOn(ch) # {} =>
             \E s \in sessions : process[s] = ch /\ protocolOwned[s]

\* The count Shutdown waits for is the number of worker goroutines that have not
\* yet finished, on every path through which one can end.
WorkersExact ==
    workers = Cardinality({c \in Clients : Exchanging(c)})
              + Cardinality({k \in Sessions \X Generations : ReadinessPending(k[1], k[2])})
              + Cardinality({i \in Intents : Active(i)})

\* Shutdown cannot miss the last worker: if it waits and no worker is left, there
\* is a token, although the channel holds one and a full channel drops tokens.
NotStranded == waiter = "waiting" /\ workers = 0 => workerDone

\* Generations do not overlap: at most one child of a session is not reaped, it
\* is the session's current one or the successor about to be installed, and a
\* session that was stopped and removed has left none behind.
NoOverlap ==
    \A s \in Sessions :
       LET alive == {ch \in Children : owner[ch] = s /\ childState[ch] # "reaped"} IN
       /\ Cardinality(alive) <= 1
       /\ \A ch \in alive : s \in sessions /\
             \/ process[s] = ch
             \/ \E i \in Intents : phase[i] = "install" /\ opSession[i] = s /\ taskChild[i] = ch

\* Where the runtime admits an exchange the algebra agrees: it is READY in the
\* same generation with no intent, and the child's pipes have not been closed.
WorkAdmissible ==
    \A s \in sessions :
       rstate[s] = Ready /\ ~protocolOwned[s] =>
          /\ state[s] = Ready /\ generation[s] = rgen[s] /\ incumbent[s] = None
          /\ pipes[process[s]] = "open"

\* An intent the algebra has accepted has its goroutine and its operation, and
\* its session is present, leased and of the intent's generation, so a later
\* caller finds the operation to join (terminate's "cross-layer admission").
IntentHasWorker ==
    \A s \in Sessions : incumbent[s] # None =>
       /\ phase[incumbent[s]] \in {"teardown", "complete"}
       /\ opState[incumbent[s]] = "pending" /\ opSession[incumbent[s]] = s
       /\ s \in sessions /\ rgen[s] = target[incumbent[s]]
       /\ protocolOwned[s] /\ lifecycleOwned[s]

\* A child and its streams belong to one generation and one goroutine: leases,
\* admitted exchanges and the lives of successive children never overlap,
\* whichever of handshake, exchange, teardown, crash and restart interleave.
GenerationExclusive == LeaseExclusive /\ WorkAdmissible /\ NoOverlap

\* The algebra's admitted sessions are the runtime's, so that Start's admission
\* never has to evict and a stopped session's slot is free again.
LiveAreSessions == live = sessions /\ Cardinality(sessions) <= MaxSessions

\* The operation table is bounded and forgets only finished operations: every
\* running intent is in it and pending, and no other is pending.
OperationsKept ==
    /\ Len(operationIDs) <= MaxOperations
    /\ \A i \in Intents : /\ opState[i] = "pending" <=> Active(i)
                          /\ Active(i) => \E j \in DOMAIN operationIDs : operationIDs[j] = i

\* Goroutines, intents and operations are one account: each intent the algebra has
\* accepted has its worker and its pending operation, the worker count is that of
\* the goroutines that run, and the bounded table forgets only what is finished.
WorkAccounted == RuntimeTypeOK /\ WorkersExact /\ IntentHasWorker /\ OperationsKept

\* What COMPLETE means: a finished STOP has removed the session and reaped every
\* child it had; a finished RESTART saw the successor's handshake succeed.
CompleteDelivers ==
    [][\A i \in Intents : opState[i] # "complete" /\ opState'[i] = "complete" =>
          LET s == opSession'[i] IN
          \/ /\ kind[i] = "STOP" /\ s \notin sessions'
             /\ \A ch \in Children : owner'[ch] = s => childState'[ch] = "reaped"
          \/ kind[i] = "RESTART" /\ readiness'[<<s, target[i] + 1>>] = "ready"]_vars

\* The shutdown exchange and teardown of intent i end, if they are begun.
TeardownReturns(i) == []<>~ShuttingDown(i)

\* Every accepted STOP or RESTART ends if its own shutdown exchange does, whatever
\* else is requested meanwhile and whoever else is stuck in one.
OperationsEnd ==
    \A i \in Intents : TeardownReturns(i) => (opState[i] = "pending" ~> opState[i] # "pending")

\* Shutdown returns once clients stop beginning work (their number is bounded), if
\* no shutdown exchange is stuck.
ShutdownReturns ==
    (\A i \in Intents : TeardownReturns(i)) => ((waiter = "waiting") ~> (waiter = "returned"))

\* Nothing that was accepted hangs but in the write of a shutdown exchange, which
\* has no deadline (StopsEnd of OwnedTransport): operations end, those that find
\* another's intent in their way too, and so does the Shutdown that waits for them.
WorkEnds == OperationsEnd /\ ShutdownReturns

\* ADR 0003, stop in INITIALIZING or READY: "insert STOP(target=current)".  A
\* running child whose streams nobody uses can be stopped.
LiveChildIsStoppable ==
    \A s \in sessions :
       childState[process[s]] = "running" /\ ~protocolOwned[s] /\ ~ReadinessPending(s, rgen[s]) =>
          generation[s] = rgen[s] /\ Insertable(s, "STOP")

\* ADR 0003: a spawn failure returns the session to STOPPED, from where a later
\* RESTART is accepted for the generation the runtime asks for.
SpawnFailureRecovers ==
    \A i \in Intents :
       opFailure[i] = SpawnFailure /\ opSession[i] \in sessions /\ rgen[opSession[i]] = target[i] =>
          generation[opSession[i]] = rgen[opSession[i]]

\* ADR 0003: "Reaped" means the child's reap succeeded, and only then is a STOP
\* of a POISONED session answered as already stopped.
NoopMeansReaped ==
    \A s \in sessions :
       generation[s] = rgen[s] /\ incumbent[s] = None /\ Confirmed(s) =>
          childState[process[s]] = "reaped"

\* ADR 0003: the STOP of an unreaped POISONED session is there "to finish
\* teardown": it has evidence that can be complete or a child to get it from.
StopCanFinish ==
    \A s \in sessions :
       generation[s] = rgen[s] /\ incumbent[s] = None /\ ReapIncomplete(s) /\ ~retired[s] =>
          childState[process[s]] = "running" /\ pipes[process[s]] = "open"

\* ADR 0003: lifecycle errors use the closed outcome matrix, in which every
\* failed operation has a failure code.
FailuresNamed == \A i \in Intents : opState[i] = "failed" => opFailure[i] # ""

-----------------------------------------------------------------------------
=============================================================================
