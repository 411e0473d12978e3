-------------------------- MODULE SessionAdmission --------------------------
(***************************************************************************)
(* The admission half of session.Manager (src/internal/session/manager.go):*)
(* at most MaxSessions sessions are live; an admission beyond that reserves*)
(* a victim, whose EVICT intent the caller carries out and completes, and  *)
(* waits; when a slot is freed the waiters are looked at again in the order*)
(* of their admission.  Every operation runs under the manager's mutex and *)
(* is one action, with all it does to waiters, reservations and victims.   *)
(* A session's lifecycle is reduced to what admission reads and writes:    *)
(* SessionLifecycle has the intents, callers and histories in full.  Calls *)
(* that only report are not actions; they also take a manager sequence     *)
(* number, which leaves the order of the others' as it is.  The counts     *)
(* queued, active and unsafe of a record are never set by the program.     *)
(***************************************************************************)
EXTENDS SessionStates, Integers, SequencesExt, FiniteSetsExt

CONSTANTS
    Sessions,         \* session ids
    MaxSessions,      \* ManagerConfig.MaxSessions
    Kinds,            \* kinds of lifecycle requests that are made: STOP, RESTART
    Works,            \* values of LifecycleRequest.HasWork
    MaxEvents,        \* bound: manager sequence numbers
    MaxReservations,  \* bound: reservations made
    MaxGeneration,    \* bound: no RESTART completes once a session has it
    None              \* nil

ASSUME AdmissionConstants ==
    /\ MaxSessions \in Nat \ {0} /\ MaxEvents \in Nat
    /\ MaxReservations \in Nat /\ MaxGeneration \in Nat \ {0}
    /\ Works \subseteq BOOLEAN /\ Kinds \subseteq {"STOP", "RESTART"}

VARIABLE m  \* the Manager

\* managedLifecycle; its incumbent is the kind of the intent and, for EVICT, the
\* contender that is its caller.
Intent == [kind : {"STOP", "RESTART", "EVICT"}, contender : Sessions \cup {None}]
Lifecycle == [generation : 1..MaxGeneration, state : State, reaped : BOOLEAN, hasWork : BOOLEAN,
              incumbent : Intent \cup {None}, lastUse : 1..MaxEvents]
Reservation == [id : 1..MaxReservations, victim : Sessions, contender : Sessions, prior : State]
\* evictionWaiter; the id of its reservation tells its result: 0 is BLOCKED.
Waiter == [contender : Sessions, sequence : 1..MaxEvents, reservation : 0..MaxReservations]

ASSUME NoneIsNil == None \notin Sessions \cup Intent \cup Lifecycle

Init ==
    m = [lifecycles |-> [s \in Sessions |-> None],
         live |-> {}, reserved |-> {}, quarantined |-> {},  \* of the live records
         reservations |-> {}, waiters |-> <<>>,
         nextManagerEvent |-> 0, nextReservation |-> 0]

-----------------------------------------------------------------------------
\* The operators below take the manager's state x and give the next one.

Fresh(sequence) ==
    [generation |-> 1, state |-> Stopped, reaped |-> TRUE, hasWork |-> FALSE,
     incumbent |-> None, lastUse |-> sequence]

\* evictionClass: terminal and reaped before READY, everything else never.
evictionClass_Unreaped(x, s) ==
    LET l == x.lifecycles[s] IN
    IF s \in x.reserved \cup x.quarantined \/ l = None THEN -1
    ELSE IF l.incumbent # None \/ l.hasWork THEN -1
    ELSE IF l.state \in {Stopped, Crashed, Poisoned} THEN 0
    ELSE IF l.state = Ready THEN 1 ELSE -1
evictionClass(x, s) ==
    LET l == x.lifecycles[s] IN
    IF s \in x.reserved \cup x.quarantined \/ l = None THEN -1
    ELSE IF l.incumbent # None \/ l.hasWork THEN -1
    ELSE IF l.state \in {Stopped, Crashed, Poisoned} /\ l.reaped THEN 0
    ELSE IF l.state = Ready THEN 1 ELSE -1

\* The order of victims; creation and id break no ties, as no two records have
\* the same last use (OneToOne).
Victims(x) == {s \in x.live : evictionClass(x, s) >= 0}
Before(x, s, t) ==
    \/ evictionClass(x, s) < evictionClass(x, t)
    \/ /\ evictionClass(x, s) = evictionClass(x, t)
       /\ x.lifecycles[s].lastUse < x.lifecycles[t].lastUse

\* reserveVictim of a waiter, which is queued with its reservation.
reserveVictim(x, w) ==
    LET v == CHOOSE s \in Victims(x) : \A t \in Victims(x) \ {s} : Before(x, s, t)
        prior == x.lifecycles[v].state
        id == x.nextReservation + 1
    IN [x EXCEPT
          !.nextReservation = id,
          !.reserved = @ \cup {v},
          !.lifecycles[v] = [@ EXCEPT !.incumbent = [kind |-> "EVICT", contender |-> w.contender],
                                      !.state = lifecycleIntentState(prior, FALSE, FALSE)],
          !.reservations = @ \cup {[id |-> id, victim |-> v, contender |-> w.contender,
                                    prior |-> prior]},
          !.waiters = Append(@, [w EXCEPT !.reservation = id])]

Keep(x, w) == [x EXCEPT !.waiters = Append(@, w)]

\* A reservation as supersedeWaiterReservation and CompleteEviction require it.
Sound(x, r) ==
    /\ r.victim \in x.live /\ r.victim \in x.reserved
    /\ x.lifecycles[r.victim] # None
    /\ x.lifecycles[r.victim].incumbent # None
    /\ x.lifecycles[r.victim].incumbent.kind = "EVICT"

\* supersedeWaiterReservation: the waiter needs its victim no more; the EVICT ends
\* and the victim is what it was when it was reserved.
Superseding(x, w) == {r \in x.reservations : r.id = w.reservation /\ r.contender = w.contender /\ Sound(x, r)}
Supersedable(x, w) == w.reservation = 0 \/ Superseding(x, w) # {}
supersedeWaiterReservation_KeepsReserved(x, w) ==
    IF w.reservation = 0 THEN x
    ELSE LET r == CHOOSE r \in Superseding(x, w) : TRUE IN
         [x EXCEPT !.lifecycles[r.victim] = [@ EXCEPT !.state = r.prior, !.incumbent = None],
                   !.reservations = @ \ {r}]
supersedeWaiterReservation(x, w) ==
    IF w.reservation = 0 THEN x
    ELSE LET r == CHOOSE r \in Superseding(x, w) : TRUE IN
         [x EXCEPT !.lifecycles[r.victim] = [@ EXCEPT !.state = r.prior, !.incumbent = None],
                   !.reserved = @ \ {r.victim},
                   !.reservations = @ \ {r}]

\* One waiter in reprocessWaiters: it is dropped (its session is live), admitted
\* with a new record, given a victim, or kept as it is.
Reconsider(x, w) ==
    LET y == supersedeWaiterReservation(x, w) IN
    CASE w.contender \in x.live ->
            IF Supersedable(x, w) THEN y ELSE Keep(x, w)
      [] w.contender \notin x.live /\ Cardinality(x.live) < MaxSessions ->
            IF Supersedable(x, w)
            THEN [y EXCEPT !.live = @ \cup {w.contender},
                           !.lifecycles[w.contender] = Fresh(w.sequence)]
            ELSE Keep(x, w)
      [] OTHER ->
            IF w.reservation = 0 /\ Victims(x) # {} THEN reserveVictim(x, w) ELSE Keep(x, w)

\* The waiters sorted by their admission; no two have the same (OneToOne).
InOrder_Newest(ws) ==
    LET p == CHOOSE f \in [DOMAIN ws -> DOMAIN ws] :
                \A i, j \in DOMAIN ws : i < j => ws[f[i]].sequence > ws[f[j]].sequence
    IN  [i \in DOMAIN ws |-> ws[p[i]]]
InOrder(ws) ==
    LET p == CHOOSE f \in [DOMAIN ws -> DOMAIN ws] :
                \A i, j \in DOMAIN ws : i < j => ws[f[i]].sequence < ws[f[j]].sequence
    IN  [i \in DOMAIN ws |-> ws[p[i]]]

\* reprocessWaiters from x with the sorted waiters ws, after the first n of them.
Looked(x, ws) ==
    LET look[n \in 0..Len(ws)] ==
            IF n = 0 THEN [x EXCEPT !.waiters = <<>>] ELSE Reconsider(look[n - 1], ws[n])
    IN  look
reprocessWaiters(x) == LET ws == InOrder(x.waiters) IN Looked(x, ws)[Len(ws)]

\* releaseVictimSlot: the victim and its record are gone, its waiter has no
\* reservation any more.
releaseVictimSlot(x, r) ==
    [x EXCEPT
       !.reservations = @ \ {r},
       !.live = @ \ {r.victim}, !.reserved = @ \ {r.victim}, !.quarantined = @ \ {r.victim},
       !.lifecycles[r.victim] = None,
       !.waiters = [i \in DOMAIN @ |->
                      IF @[i].reservation = r.id THEN [@[i] EXCEPT !.reservation = 0] ELSE @[i]]]

-----------------------------------------------------------------------------
\* Operations.

NextEvent == m.nextManagerEvent + 1
Lc(s) == m.lifecycles[s]
Waiting(s) == \E i \in DOMAIN m.waiters : m.waiters[i].contender = s

\* Start registers a session before it has it admitted.
RegisterLifecycle(s) ==
    /\ Lc(s) = None /\ NextEvent <= MaxEvents
    /\ m' = [m EXCEPT !.nextManagerEvent = NextEvent,
                      !.lifecycles[s] = [Fresh(NextEvent) EXCEPT !.state = Initializing,
                                                                 !.reaped = FALSE]]

\* Admit: a live session is used; a free slot is taken, and a record made if there
\* is none; otherwise a victim is reserved and the contender waits.
Admit(s) ==
    /\ NextEvent <= MaxEvents
    /\ LET x == [m EXCEPT !.nextManagerEvent = NextEvent] IN
       \/ /\ s \in m.live
          /\ Lc(s) # None
          /\ m' = [x EXCEPT !.lifecycles[s].lastUse = NextEvent]
       \/ /\ s \notin m.live /\ Cardinality(m.live) < MaxSessions
          /\ m' = [x EXCEPT !.live = @ \cup {s},
                            !.lifecycles[s] = IF @ = None THEN Fresh(NextEvent) ELSE @]
       \/ /\ s \notin m.live /\ Cardinality(m.live) >= MaxSessions
          /\ ~Waiting(s) /\ Len(m.waiters) < MaxSessions
          /\ Victims(m) # {}
          /\ m.nextReservation < MaxReservations
          /\ m' = reserveVictim(x, [contender |-> s, sequence |-> NextEvent, reservation |-> 0])

\* CompleteEviction of reservation r.
Completable(r) == Sound(m, r) /\ Lc(r.victim).incumbent.contender = r.contender

removeWaiter(ws, contender) ==
    LET at == {i \in DOMAIN ws : ws[i].contender = contender}
    IN  IF at = {} THEN ws ELSE RemoveAt(ws, Min(at))

EvictionFailed_KeepsWaiter(r) ==
    [m EXCEPT !.reservations = @ \ {r},
              !.lifecycles[r.victim] = [@ EXCEPT !.state = Poisoned, !.incumbent = None],
              !.reserved = @ \ {r.victim},
              !.quarantined = @ \cup {r.victim}]
EvictionFailed(r) ==
    [m EXCEPT !.reservations = @ \ {r},
              !.waiters = removeWaiter(@, r.contender),
              !.lifecycles[r.victim] = [@ EXCEPT !.state = Poisoned, !.incumbent = None],
              !.reserved = @ \ {r.victim},
              !.quarantined = @ \cup {r.victim}]

CompleteEviction(r, success) ==
    /\ r \in m.reservations
    /\ Completable(r)
    /\ m' = IF success THEN reprocessWaiters(releaseVictimSlot(m, r)) ELSE EvictionFailed(r)
    /\ m'.nextReservation <= MaxReservations

\* ReleaseStopped: a stopped session gives its slot up and keeps its record.
ReleaseStopped(s) ==
    /\ s \in m.live /\ Lc(s) # None
    /\ Lc(s).state = Stopped /\ Lc(s).reaped /\ Lc(s).incumbent = None
    /\ m' = [m EXCEPT !.live = @ \ {s}, !.reserved = @ \ {s}, !.quarantined = @ \ {s}]

\* Lifecycle(STOP | RESTART) accepted, live session or not.
RequestLifecycle(s, k, work) ==
    /\ Lc(s) # None
    /\ Lc(s).incumbent = None
    /\ Lc(s).state \notin {Draining, Stopping}
    /\ k = "STOP" => Lc(s).state # Stopped /\ ~(Lc(s).state \in {Crashed, Poisoned} /\ Lc(s).reaped)
    /\ k = "RESTART" => ~(Lc(s).state \in {Crashed, Poisoned} /\ ~Lc(s).reaped)
    /\ m' = [m EXCEPT !.lifecycles[s] = [@ EXCEPT !.incumbent = [kind |-> k, contender |-> None],
                                                  !.hasWork = work,
                                                  !.state = lifecycleIntentState(Lc(s).state, TRUE, work)]]

\* CompleteLifecycleObserved of a STOP or RESTART; nobody is told an EVICT's id.
CompleteLifecycle(s, ok) ==
    /\ Lc(s) # None /\ Lc(s).incumbent # None
    /\ \/ /\ ~ok /\ Lc(s).incumbent.kind # "EVICT"
          /\ m' = [m EXCEPT !.lifecycles[s] = [@ EXCEPT !.state = Poisoned, !.incumbent = None]]
       \/ /\ ok /\ Lc(s).incumbent.kind = "STOP"
          /\ m' = [m EXCEPT !.lifecycles[s] = [@ EXCEPT !.state = Stopped, !.reaped = TRUE,
                                                        !.incumbent = None]]
       \/ /\ ok /\ Lc(s).incumbent.kind = "RESTART"
          /\ \A t \in Sessions : Lc(t) # None => Lc(t).generation < MaxGeneration
          /\ m' = [m EXCEPT !.lifecycles[s] = [@ EXCEPT !.state = Initializing, !.reaped = TRUE,
                                                        !.generation = Lc(s).generation + 1,
                                                        !.incumbent = None]]

ObserveInitialization(s, complete) ==
    /\ Lc(s) # None /\ Lc(s).incumbent = None /\ Lc(s).state = Initializing
    /\ m' = [m EXCEPT !.lifecycles[s].state = IF complete THEN Ready ELSE Poisoned]

ObservePoison(s) ==
    /\ Lc(s) # None
    /\ m' = [m EXCEPT !.lifecycles[s].state = Poisoned]

-----------------------------------------------------------------------------
CompleteSome == \E r \in m.reservations, success \in BOOLEAN : CompleteEviction(r, success)

Next ==
    \/ \E s \in Sessions : RegisterLifecycle(s) \/ Admit(s) \/ ReleaseStopped(s) \/ ObservePoison(s)
    \/ CompleteSome
    \/ \E s \in Sessions, k \in Kinds, work \in Works : RequestLifecycle(s, k, work)
    \/ \E s \in Sessions, ok \in BOOLEAN : CompleteLifecycle(s, ok) \/ ObserveInitialization(s, ok)

Spec == Init /\ [][Next]_m

-----------------------------------------------------------------------------
\* Properties.

TypeOK ==
    /\ DOMAIN m = {"lifecycles", "live", "reserved", "quarantined", "reservations", "waiters",
                   "nextManagerEvent", "nextReservation"}
    /\ \A s \in Sessions : m.lifecycles[s] \in Lifecycle \cup {None}
    /\ m.live \subseteq Sessions /\ m.reserved \subseteq m.live /\ m.quarantined \subseteq m.live
    /\ m.reservations \subseteq Reservation
    /\ \A i \in DOMAIN m.waiters : m.waiters[i] \in Waiter
    /\ m.nextManagerEvent \in 0..MaxEvents /\ m.nextReservation \in 0..MaxReservations

\* Slots and victims are one-to-one (ADR 0003: never "oversubscribe max_sessions,
\* reserve one victim twice, reserve more victims than blocked admissions can
\* consume, or let one admission own/join multiple victims"): every waiter has
\* exactly one reservation and every reservation one waiter and a live victim
\* whose EVICT intent names it, no other record has an EVICT intent or the mark,
\* and a failed victim is not reserved again.
OneToOne ==
    /\ TypeOK
    /\ Cardinality(m.live) <= MaxSessions /\ Len(m.waiters) <= MaxSessions
    /\ \A r, q \in m.reservations : r.victim = q.victim \/ r.contender = q.contender => r = q
    /\ {r.id : r \in m.reservations} = {m.waiters[i].reservation : i \in DOMAIN m.waiters}
    /\ \A r \in m.reservations :
          /\ Completable(r) /\ r.victim \notin m.quarantined
          /\ \E i \in DOMAIN m.waiters : m.waiters[i].reservation = r.id /\ m.waiters[i].contender = r.contender
    /\ m.reserved = {r.victim : r \in m.reservations}
    /\ \A s \in Sessions : (Lc(s) # None /\ Lc(s).incumbent # None /\ Lc(s).incumbent.kind = "EVICT") =>
          s \in m.reserved
    /\ \A s, t \in Sessions : s # t /\ Lc(s) # None /\ Lc(t) # None => Lc(s).lastUse # Lc(t).lastUse

\* The victim of reservation r, as it was when it was reserved: without work, and
\* READY or terminal with a reap observed (of some generation: a RESTART leaves the
\* flag, so the child of a later generation, poisoned, may not have been reaped; see
\* NoopMeansReaped of SessionRuntime).
WasIdle(x, r) ==
    LET l == x.lifecycles[r.victim] IN
    /\ ~l.hasWork
    /\ r.prior = Ready \/ (r.prior \in {Stopped, Crashed, Poisoned} /\ l.reaped)

\* Slots and records are lost only in turn: to an eviction of that very session,
\* which was idle when it was reserved and whose reservation ends with it, whatever
\* was reported or completed in between and whoever else is reserved, admitted or
\* superseded in the same step; or the slot, not the record, by ReleaseStopped of
\* what is stopped and reaped.
LostInTurn ==
    [][\A s \in Sessions :
          (s \in m.live \ m'.live) \/ (Lc(s) # None /\ m'.lifecycles[s] = None) =>
             \/ \E r \in m.reservations \ m'.reservations : r.victim = s /\ WasIdle(m, r)
             \/ /\ Lc(s).state = Stopped /\ Lc(s).reaped /\ Lc(s).incumbent = None
                /\ m'.lifecycles[s] = Lc(s)]_m

\* A freed slot goes to the earliest contender: when an eviction completes, who
\* becomes live has no earlier waiter left behind.
EarliestServed ==
    [][m'.nextManagerEvent = m.nextManagerEvent =>
          \A i, j \in DOMAIN m.waiters :
             m.waiters[i].sequence < m.waiters[j].sequence /\ m.waiters[j].contender \in m'.live \ m.live
                => m.waiters[i].contender \in m'.live]_m

\* READY sessions are victims of last resort: if one is newly reserved, no terminal
\* and reaped session that could be evicted instead is left.
ReadyIsLastResort ==
    [][\A r \in m'.reservations \ m.reservations : r.prior = Ready =>
          \A s \in m'.live : evictionClass(m', s) # 0]_m

\* An eviction takes the right victim and, completed, serves the right contender.
EvictionInOrder == EarliestServed /\ ReadyIsLastResort

\* Nobody waits for nothing: whenever an eviction ends, by its success, its failure
\* or because it was superseded, somebody's wait ends with it; who goes on waiting
\* has a reservation that can be completed (OneToOne).
EvictionsEndWaits ==
    [][m.reservations \ m'.reservations # {} => Len(m'.waiters) < Len(m.waiters)]_m

\* lifecycle.go's closed table and ADR 0003: POISONED is left only by a restart or
\* by reaping, so within a generation a poisoned session does not become READY.
PoisonKept ==
    [][\A s \in Sessions :
          Lc(s) # None /\ Lc(s).state = Poisoned /\ m'.lifecycles[s] # None
             => m'.lifecycles[s].state # Ready]_m

\* ADR 0003: "Generation is a positive, monotonically increasing integer scoped to
\* that session", and records "remain retained": while a session has a record, its
\* generation does not go back.
GenerationsGrow ==
    [][\A s \in Sessions : Lc(s) # None /\ m'.lifecycles[s] # None
          => m'.lifecycles[s].generation >= Lc(s).generation]_m

\* ADR 0003: "The earliest legal contender takes each available slot": nobody
\* becomes live while an earlier contender goes on waiting.
EarliestFirst ==
    [][\A s \in m'.live \ m.live, i \in DOMAIN m.waiters :
          m.waiters[i].contender \notin m'.live =>
             \E j \in DOMAIN m.waiters :
                m.waiters[j].contender = s /\ m.waiters[j].sequence < m.waiters[i].sequence]_m

\* ADR 0003: an explicit cleanup that succeeds "clears the failed-eviction
\* quarantine".
QuarantineCleared ==
    \A s \in m.quarantined : ~(Lc(s).state \in {Stopped, Ready, Initializing} /\ Lc(s).reaped)

-----------------------------------------------------------------------------
=============================================================================
