----------------------- MODULE SessionAdmissionProofs -----------------------
(***************************************************************************)
(* Proofs about SessionAdmission, for every set of sessions and every      *)
(* MaxSessions.  An operation may look at every waiter again, so the       *)
(* inductive invariant is stated for a manager partway through such a      *)
(* loop: Partway(x, R) says that the queue of x and the waiters R still to *)
(* be looked at together are consistent with the slots, the reservations   *)
(* and the records, that at most one waiter has no reservation, and that   *)
(* queue and R are in the order of admission.  Between operations R is     *)
(* empty (AdmissionInv).  The loop is taken from its definition as a       *)
(* recursive function: a run of every length exists, and a least place     *)
(* where Served fails would contradict the lemma about one waiter.  Every  *)
(* step of the manager is Lawful, from which the invariant and the four    *)
(* properties of the module follow.                                        *)
(***************************************************************************)
EXTENDS SessionAdmission, FiniteSetTheorems, SequenceTheorems, WellFoundedInduction, TLAPS

\* Types of reservations, waiters and managers without the bound on reservations.
Held == [id : Nat \ {0}, victim : Sessions, contender : Sessions, prior : State]
Queued == [contender : Sessions, sequence : 1..MaxEvents, reservation : Nat]
Manager == [lifecycles : [Sessions -> Lifecycle \cup {None}],
            live : SUBSET Sessions, reserved : SUBSET Sessions, quarantined : SUBSET Sessions,
            reservations : SUBSET Held, waiters : Seq(Queued),
            nextManagerEvent : 0..MaxEvents, nextReservation : Nat]

\* The victim that reserveVictim reserves.
Chosen(x) == CHOOSE s \in Victims(x) : \A t \in Victims(x) \ {s} : Before(x, s, t)

Elements(q) == {q[i] : i \in 1..Len(q)}
Queue(x) == Elements(x.waiters)
Evicting(x, s) ==
    /\ x.lifecycles[s] # None /\ x.lifecycles[s].incumbent # None
    /\ x.lifecycles[s].incumbent.kind = "EVICT"
Terminal == {Stopped, Crashed, Poisoned}

\* Slots: bounded, with a record each, and marks only on who has one.
Slots(x) ==
    /\ IsFiniteSet(x.live) /\ Cardinality(x.live) <= MaxSessions
    /\ x.reserved \subseteq x.live /\ x.quarantined \subseteq x.live
    /\ \A s \in x.live : x.lifecycles[s] # None

\* A reservation marks its victim, holds its EVICT intent, and was made of a READY
\* session or of a terminal and reaped one.
Reserve(x, r) ==
    LET l == x.lifecycles[r.victim] IN
    /\ r.id <= x.nextReservation
    /\ r.victim \in x.reserved /\ r.victim \notin x.quarantined
    /\ l.incumbent = [kind |-> "EVICT", contender |-> r.contender]
    /\ ~l.hasWork
    /\ r.prior = Ready \/ (r.prior \in Terminal /\ l.reaped)

\* Reservations are distinct in each of their parts, and every mark and every EVICT
\* intent comes from one.
Reserves(x) ==
    /\ \A r, q \in x.reservations :
          r.id = q.id \/ r.victim = q.victim \/ r.contender = q.contender => r = q
    /\ \A r \in x.reservations : Reserve(x, r)
    /\ \A s \in x.reserved : \E r \in x.reservations : r.victim = s
    /\ \A s \in Sessions : Evicting(x, s) => s \in x.reserved

\* Reservation r is the one of waiter w.
Fits(r, w) == r.id = w.reservation /\ r.contender = w.contender

\* Waiters and reservations belong together; no two waiters share a contender or a
\* sequence number, and at most one is without a reservation.
Waits(x, W) ==
    /\ \A w \in W : w.reservation # 0 => \E r \in x.reservations : Fits(r, w)
    /\ \A r \in x.reservations : \E w \in W : Fits(r, w)
    /\ \A w, v \in W :
          w.contender = v.contender \/ w.sequence = v.sequence
             \/ (w.reservation = 0 /\ v.reservation = 0) => w = v

\* Sequence numbers were given out, each to one record or one waiter.
Clock(x, W) ==
    /\ \A s \in Sessions : x.lifecycles[s] # None =>
          /\ x.lifecycles[s].lastUse <= x.nextManagerEvent
          /\ \A t \in Sessions \ {s} : x.lifecycles[t] # None =>
                x.lifecycles[t].lastUse # x.lifecycles[s].lastUse
          /\ \A w \in W : w.sequence # x.lifecycles[s].lastUse
    /\ \A w \in W : w.sequence <= x.nextManagerEvent

\* In the order of admission.
Sorted(q) == \A i, j \in 1..Len(q) : i < j => q[i].sequence < q[j].sequence

\* A manager with the waiters R still to be looked at.
Partway(x, R) ==
    /\ x \in Manager /\ R \subseteq Queued
    /\ Slots(x) /\ Reserves(x) /\ Sorted(x.waiters)
    /\ Waits(x, Queue(x) \cup R) /\ Clock(x, Queue(x) \cup R)
    /\ \A w \in Queue(x) : w.reservation # 0 /\ \A v \in R : w.sequence < v.sequence

\* The inductive invariant of the module.
AdmissionInv ==
    Partway(m, {}) /\ Len(m.waiters) <= MaxSessions /\ m.nextReservation <= MaxReservations

-----------------------------------------------------------------------------
\* Lemmas on numbers and sequences.

Less == {p \in Nat \X Nat : p[1] < p[2]}

\* The order of the naturals is well founded,
LEMMA LessWellFounded == IsWellFoundedOn(Less, Nat)
BY NatLessThanWellFounded DEF OpToRel, Less

\* so every nonempty set of them has a least element.
LEMMA LeastNatural ==
    ASSUME NEW Q, Q \subseteq Nat, Q # {}
    PROVE  \E k \in Q : \A q \in Q : k <= q
<1>1. PICK k \in Q : \A q \in Q : ~(<<q, k>> \in Less)
  BY LessWellFounded, WFMin
<1>2. \A q \in Q : ~(q < k)
  BY <1>1 DEF Less
<1>3. \A q \in Q : q \in Nat /\ k \in Nat
  OBVIOUS
<1>4. \A q \in Q : k <= q
  BY <1>2, <1>3
<1>5. QED
  BY <1>4

\* A sequence without its c-th element, pointwise.
LEMMA RemoveOne ==
    ASSUME NEW S, NEW q \in Seq(S), NEW c \in 1..Len(q)
    PROVE  /\ RemoveAt(q, c) \in Seq(S) /\ Len(RemoveAt(q, c)) = Len(q) - 1
           /\ \A k \in 1..(Len(q) - 1) : RemoveAt(q, c)[k] = IF k < c THEN q[k] ELSE q[k + 1]
<1> DEFINE r == RemoveAt(q, c)
<1> HIDE DEF r
<1>1. PICK n \in Nat : n = Len(q) /\ c \in 1..n
  OBVIOUS
<1>2. PICK front : front = SubSeq(q, 1, c - 1)
  OBVIOUS
<1>3. PICK back : back = SubSeq(q, c + 1, n)
  OBVIOUS
<1>4. /\ front \in Seq(S) /\ Len(front) = c - 1
      /\ \A k \in 1..(c - 1) : front[k] = q[k]
  <2>1. \A k \in 1..(c - 1) : q[k] \in S
    BY <1>1
  <2>2. /\ SubSeq(q, 1, c - 1) \in Seq(S)
        /\ Len(SubSeq(q, 1, c - 1)) = IF 1 <= c - 1 THEN (c - 1) - 1 + 1 ELSE 0
        /\ \A k \in 1..((c - 1) - 1 + 1) : SubSeq(q, 1, c - 1)[k] = q[1 + k - 1]
    BY <1>1, <2>1, SubSeqProperties
  <2>3. (c - 1) - 1 + 1 = c - 1 /\ (\A k \in 1..(c - 1) : 1 + k - 1 = k) /\ (1 <= c - 1 \/ c - 1 = 0)
    BY <1>1
  <2>4. QED
    BY <1>2, <2>2, <2>3
<1>5. /\ back \in Seq(S) /\ Len(back) = n - c
      /\ \A k \in 1..(n - c) : back[k] = q[c + k]
  <2>1. \A k \in (c + 1)..n : q[k] \in S
    BY <1>1
  <2>2. /\ SubSeq(q, c + 1, n) \in Seq(S)
        /\ Len(SubSeq(q, c + 1, n)) = IF c + 1 <= n THEN n - (c + 1) + 1 ELSE 0
        /\ \A k \in 1..(n - (c + 1) + 1) : SubSeq(q, c + 1, n)[k] = q[(c + 1) + k - 1]
    BY <1>1, <2>1, SubSeqProperties
  <2>3. n - (c + 1) + 1 = n - c /\ (\A k \in 1..(n - c) : (c + 1) + k - 1 = c + k) /\ (c + 1 <= n \/ n - c = 0)
    BY <1>1
  <2>4. QED
    BY <1>3, <2>2, <2>3
<1>6. /\ r \in Seq(S) /\ Len(r) = (c - 1) + (n - c)
      /\ \A k \in 1..((c - 1) + (n - c)) : r[k] = IF k <= c - 1 THEN front[k] ELSE back[k - (c - 1)]
  <2>1. r = front \o back
    BY <1>1, <1>2, <1>3 DEF r, RemoveAt
  <2>2. /\ front \o back \in Seq(S) /\ Len(front \o back) = Len(front) + Len(back)
        /\ \A k \in 1..(Len(front) + Len(back)) :
              (front \o back)[k] = IF k <= Len(front) THEN front[k] ELSE back[k - Len(front)]
    BY <1>4, <1>5, ConcatProperties
  <2>3. Len(front) = c - 1 /\ Len(back) = n - c
    BY <1>4, <1>5
  <2>4. QED
    BY <2>1, <2>2, <2>3
<1>7. Len(r) = n - 1 /\ (c - 1) + (n - c) = n - 1
  BY <1>1, <1>6
<1>8. ASSUME NEW k \in 1..(n - 1) PROVE r[k] = IF k < c THEN q[k] ELSE q[k + 1]
  <2>1. CASE k < c
    <3>1. k \in 1..(c - 1) /\ k <= c - 1
      BY <1>1, <2>1
    <3>2. QED
      BY <1>4, <1>6, <1>7, <2>1, <3>1
  <2>2. CASE ~(k < c)
    <3>1. k - (c - 1) \in 1..(n - c) /\ ~(k <= c - 1) /\ c + (k - (c - 1)) = k + 1
      BY <1>1, <2>2
    <3>2. QED
      BY <1>5, <1>6, <1>7, <2>2, <3>1
  <2>3. QED
    BY <2>1, <2>2
<1>9. QED
  BY <1>1, <1>6, <1>7, <1>8 DEF r

-----------------------------------------------------------------------------
\* The steps of the loop, on a manager partway through it.

\* The fields of reserveVictim's result.
LEMMA ReserveFields ==
    ASSUME NEW x \in Manager, NEW w \in Queued, NEW v \in Sessions, v = Chosen(x),
           x.lifecycles[v] \in Lifecycle, NEW y, y = reserveVictim(x, w)
    PROVE  /\ y \in Manager
           /\ y.live = x.live /\ y.quarantined = x.quarantined
           /\ y.reserved = x.reserved \cup {v}
           /\ y.nextManagerEvent = x.nextManagerEvent
           /\ y.nextReservation = x.nextReservation + 1
           /\ y.waiters = Append(x.waiters, [w EXCEPT !.reservation = x.nextReservation + 1])
           /\ y.reservations = x.reservations \cup
                {[id |-> x.nextReservation + 1, victim |-> v, contender |-> w.contender,
                  prior |-> x.lifecycles[v].state]}
           /\ \A s \in Sessions : s # v => y.lifecycles[s] = x.lifecycles[s]
           /\ y.lifecycles[v] \in Lifecycle
           /\ y.lifecycles[v].incumbent = [kind |-> "EVICT", contender |-> w.contender]
           /\ y.lifecycles[v].hasWork = x.lifecycles[v].hasWork
           /\ y.lifecycles[v].reaped = x.lifecycles[v].reaped
           /\ y.lifecycles[v].lastUse = x.lifecycles[v].lastUse
           /\ y.lifecycles[v].generation = x.lifecycles[v].generation
<1>. DEFINE id == x.nextReservation + 1
            i == [kind |-> "EVICT", contender |-> w.contender]
            r == [id |-> id, victim |-> v, contender |-> w.contender, prior |-> x.lifecycles[v].state]
            t == lifecycleIntentState(x.lifecycles[v].state, FALSE, FALSE)
            l == x.lifecycles[v]
<1>1. /\ y.live = x.live /\ y.quarantined = x.quarantined
      /\ y.reserved = x.reserved \cup {v}
      /\ y.nextManagerEvent = x.nextManagerEvent
      /\ y.nextReservation = id
      /\ y.waiters = Append(x.waiters, [w EXCEPT !.reservation = id])
      /\ y.reservations = x.reservations \cup {r}
  BY DEF reserveVictim, Chosen, Manager
<1>2. y.lifecycles = [x.lifecycles EXCEPT ![v] = [l EXCEPT !.incumbent = i, !.state = t]]
  BY DEF reserveVictim, Chosen, Manager
<1>3. y = [lifecycles |-> y.lifecycles, live |-> y.live, reserved |-> y.reserved, quarantined |-> y.quarantined,
           reservations |-> y.reservations, waiters |-> y.waiters, nextManagerEvent |-> y.nextManagerEvent,
           nextReservation |-> y.nextReservation]
  BY DEF reserveVictim, Chosen, Manager
<1>4. t \in State BY DEF lifecycleIntentState, State, Stopping, Stopped, Draining, Lifecycle
<1>5. i \in Intent BY DEF Intent, Queued
<1>6. [l EXCEPT !.incumbent = i, !.state = t] \in Lifecycle BY <1>4, <1>5 DEF Lifecycle
<1>7. y.lifecycles \in [Sessions -> Lifecycle \cup {None}] BY <1>2, <1>6 DEF Manager
<1>8. id \in Nat \ {0} /\ x.waiters \in Seq(Queued) BY DEF Manager
<1>9. [w EXCEPT !.reservation = id] \in Queued BY <1>8 DEF Queued
<1>10. y.waiters \in Seq(Queued) BY <1>1, <1>8, <1>9, AppendProperties
<1>11. r \in Held BY <1>8 DEF Held, Queued, Lifecycle
<1>12. y \in Manager BY <1>1, <1>3, <1>7, <1>8, <1>10, <1>11 DEF Manager
<1>13. y.lifecycles[v] = [l EXCEPT !.incumbent = i, !.state = t] BY <1>2 DEF Manager
<1>14. \A s \in Sessions : s # v => y.lifecycles[s] = x.lifecycles[s] BY <1>2 DEF Manager
<1>15. /\ y.lifecycles[v].incumbent = i /\ y.lifecycles[v].hasWork = l.hasWork
       /\ y.lifecycles[v].reaped = l.reaped /\ y.lifecycles[v].lastUse = l.lastUse
       /\ y.lifecycles[v].generation = l.generation
  BY <1>13 DEF Lifecycle
<1>. QED BY <1>1, <1>6, <1>12, <1>13, <1>14, <1>15

\* A record is a lifecycle if it is not nil, which is no value of the other types.
LEMMA Records ==
    ASSUME NEW x \in Manager, NEW s \in Sessions
    PROVE  x.lifecycles[s] = None \/ x.lifecycles[s] \in Lifecycle
BY DEF Manager

\* Nil is no record, no intent and no session.
LEMMA NilIsNone == None \notin Lifecycle /\ None \notin Intent /\ None \notin Sessions
BY NoneIsNil

\* What a session must be to have an eviction class.
LEMMA ClassOf ==
    ASSUME NEW x \in Manager, NEW s \in Sessions
    PROVE  /\ evictionClass(x, s) \in {-1, 0, 1}
           /\ evictionClass(x, s) >= 0 =>
                /\ s \notin x.reserved /\ s \notin x.quarantined
                /\ x.lifecycles[s] # None /\ x.lifecycles[s].incumbent = None
                /\ ~x.lifecycles[s].hasWork
                /\ x.lifecycles[s].state = Ready \/ (x.lifecycles[s].state \in Terminal /\ x.lifecycles[s].reaped)
           /\ evictionClass(x, s) = 0 => x.lifecycles[s].state # Ready
           /\ evictionClass(x, s) = 1 => x.lifecycles[s].state = Ready
BY DEF evictionClass, Terminal, Ready, Stopped, Crashed, Poisoned

\* A terminal and reaped session that nothing marks is a victim of the first class.
LEMMA ClassZero ==
    ASSUME NEW x, NEW s, s \notin x.reserved, s \notin x.quarantined, x.lifecycles[s] # None,
           x.lifecycles[s].incumbent = None, ~x.lifecycles[s].hasWork,
           x.lifecycles[s].state \in Terminal, x.lifecycles[s].reaped
    PROVE  evictionClass(x, s) = 0
BY DEF evictionClass, Terminal

\* The sort of reserveVictim has a first.
LEMMA VictimFirst ==
    ASSUME NEW x, NEW W, x \in Manager, Clock(x, W), Victims(x) # {}
    PROVE  /\ Chosen(x) \in Victims(x)
           /\ \A t \in Victims(x) \ {Chosen(x)} : Before(x, Chosen(x), t)
<1>. DEFINE V == Victims(x)
            C == {evictionClass(x, s) : s \in V}
<1>1. V \subseteq Sessions BY DEF Victims, Manager
<1>2. \A s \in V : evictionClass(x, s) \in {0, 1} /\ x.lifecycles[s] # None
  BY <1>1, ClassOf DEF Victims
<1>3. PICK c \in C : \A d \in C : c <= d
  <2>1. C \subseteq Nat /\ C # {} BY <1>2
  <2>. HIDE DEF C
  <2>. QED BY <2>1, LeastNatural
<1>. DEFINE U == {x.lifecycles[s].lastUse : s \in {t \in V : evictionClass(x, t) = c}}
<1>4. \A s \in V : x.lifecycles[s] \in Lifecycle /\ x.lifecycles[s].lastUse \in Nat
  <2>1. \A s \in V : x.lifecycles[s] \in Lifecycle BY <1>1, <1>2, Records
  <2>. QED BY <2>1, AdmissionConstants DEF Lifecycle
<1>5. PICK u \in U : \A d \in U : u <= d
  <2>1. U \subseteq Nat /\ U # {} BY <1>3, <1>4
  <2>. HIDE DEF U
  <2>. QED BY <2>1, LeastNatural
<1>6. PICK s \in V : evictionClass(x, s) = c /\ x.lifecycles[s].lastUse = u BY <1>5
<1>7. ASSUME NEW t \in V \ {s} PROVE Before(x, s, t)
  <2>1. c <= evictionClass(x, t) /\ evictionClass(x, t) \in {0, 1} /\ c \in {0, 1} BY <1>2, <1>3, <1>6
  <2>2. CASE evictionClass(x, t) = c
    <3>1. u <= x.lifecycles[t].lastUse BY <1>5, <2>2
    <3>2. u # x.lifecycles[t].lastUse BY <1>1, <1>2, <1>6 DEF Clock
    <3>3. u < x.lifecycles[t].lastUse BY <1>4, <1>6, <3>1, <3>2
    <3>. QED BY <1>6, <2>2, <3>3 DEF Before
  <2>3. CASE evictionClass(x, t) # c
    BY <1>6, <2>1, <2>3 DEF Before
  <2>. QED BY <2>2, <2>3
<1>8. \E z \in V : \A t \in V \ {z} : Before(x, z, t) BY <1>7
<1>. HIDE DEF V
<1>. QED BY <1>8 DEF V, Chosen

\* One more at the end of the queue.
LEMMA QueueAppend ==
    ASSUME NEW q \in Seq(Queued), NEW u \in Queued, NEW p, p = Append(q, u)
    PROVE  /\ p \in Seq(Queued) /\ Len(p) = Len(q) + 1 /\ Len(q) \in Nat
           /\ Elements(p) = Elements(q) \cup {u}
           /\ Sorted(q) /\ (\A i \in 1..Len(q) : q[i].sequence < u.sequence) => Sorted(p)
<1>1. /\ p \in Seq(Queued) /\ Len(p) = Len(q) + 1 /\ Len(q) \in Nat
      /\ \A i \in 1..Len(q) : p[i] = q[i]
      /\ p[Len(q) + 1] = u
  BY AppendProperties
<1>2. \A i \in 1..Len(p) : i \in 1..Len(q) \/ i = Len(q) + 1 BY <1>1
<1>3. Len(q) + 1 \in 1..Len(p) /\ \A i \in 1..Len(q) : i \in 1..Len(p) BY <1>1
<1>4. Elements(p) = Elements(q) \cup {u} BY <1>1, <1>2, <1>3 DEF Elements
<1>5. ASSUME Sorted(q), \A i \in 1..Len(q) : q[i].sequence < u.sequence,
             NEW i \in 1..Len(p), NEW j \in 1..Len(p), i < j
      PROVE  p[i].sequence < p[j].sequence
  <2>1. i \in 1..Len(q) BY <1>1, <1>5
  <2>2. CASE j \in 1..Len(q) BY <1>1, <1>5, <2>1, <2>2 DEF Sorted
  <2>3. CASE j = Len(q) + 1 BY <1>1, <1>5, <2>1, <2>3
  <2>. QED BY <1>2, <2>2, <2>3
<1>. QED BY <1>1, <1>4, <1>5 DEF Sorted

\* A waiter moves from the rest to the queue, perhaps with a new reservation.
LEMMA Moved ==
    ASSUME NEW x, NEW R, Partway(x, R), NEW w \in R, \A v \in R \ {w} : w.sequence < v.sequence,
           NEW u \in Queued, u.contender = w.contender, u.sequence = w.sequence, u.reservation # 0
    PROVE  /\ Append(x.waiters, u) \in Seq(Queued) /\ Sorted(Append(x.waiters, u))
           /\ Len(Append(x.waiters, u)) = Len(x.waiters) + 1
           /\ Elements(Append(x.waiters, u)) = Queue(x) \cup {u}
           /\ \A a \in Queue(x) \cup {u} : a.reservation # 0 /\ \A v \in R \ {w} : a.sequence < v.sequence
           /\ \A a \in Queue(x) \cup (R \ {w}) :
                 a \in Queue(x) \cup R /\ a # w /\ a.contender # w.contender /\ a.sequence # w.sequence
<1>. DEFINE q == Append(x.waiters, u)
<1>. HIDE DEF q
<1>0. q = Append(x.waiters, u) BY DEF q
<1>1. x.waiters \in Seq(Queued) /\ w \in Queued /\ R \subseteq Queued BY DEF Partway, Manager
<1>2. \A i \in 1..Len(x.waiters) : x.waiters[i] \in Queue(x) /\ x.waiters[i].sequence < w.sequence
  BY DEF Queue, Elements, Partway
<1>3. /\ q \in Seq(Queued) /\ Len(q) = Len(x.waiters) + 1
      /\ Elements(q) = Elements(x.waiters) \cup {u}
      /\ Sorted(x.waiters) /\ (\A i \in 1..Len(x.waiters) : x.waiters[i].sequence < u.sequence) => Sorted(q)
  BY <1>0, <1>1, QueueAppend
<1>4. Sorted(q) BY <1>2, <1>3 DEF Partway
<1>5. \A a \in Queue(x) \cup {u} : a.reservation # 0 /\ \A v \in R \ {w} : a.sequence < v.sequence
  BY DEF Partway
<1>6. ASSUME NEW a \in Queue(x) \cup (R \ {w})
      PROVE  a \in Queue(x) \cup R /\ a # w /\ a.contender # w.contender /\ a.sequence # w.sequence
  <2>1. a # w
    <3>1. CASE a \in Queue(x)
      <4>1. a.sequence < w.sequence BY <3>1 DEF Partway
      <4>2. w.sequence \in Int BY <1>1 DEF Queued
      <4>. QED BY <4>1, <4>2
    <3>2. CASE a \in R \ {w} BY <3>2
    <3>. QED BY <3>1, <3>2
  <2>2. a \in Queue(x) \cup R OBVIOUS
  <2>3. \A b, v \in Queue(x) \cup R : b.contender = v.contender \/ b.sequence = v.sequence => b = v
    BY DEF Partway, Waits
  <2>. QED BY <2>1, <2>2, <2>3
<1>. QED BY <1>0, <1>3, <1>4, <1>5, <1>6 DEF Queue

\* From x to y the first of the victims is reserved, and no other record changes.
Preempted(x, y) ==
    /\ y.live = x.live /\ y.quarantined = x.quarantined
    /\ y.nextManagerEvent = x.nextManagerEvent /\ y.nextReservation = x.nextReservation + 1
    /\ Len(y.waiters) = Len(x.waiters) + 1
    /\ x.reservations \subseteq y.reservations
    /\ \E v \in Victims(x) :
       /\ \A t \in Victims(x) \ {v} : Before(x, v, t)
       /\ y.reserved = x.reserved \cup {v}
       /\ \A k \in y.reservations : k \in x.reservations \/ k.prior = x.lifecycles[v].state
       /\ \A t \in Sessions : t # v => y.lifecycles[t] = x.lifecycles[t]
    /\ \A t \in Sessions : y.lifecycles[t] # None <=> x.lifecycles[t] # None

\* A waiter without a reservation is given a victim (reserveVictim).
LEMMA ReserveStep ==
    ASSUME NEW x, NEW R, Partway(x, R), NEW w \in R, \A b \in R \ {w} : w.sequence < b.sequence,
           w.reservation = 0, Victims(x) # {}, NEW y, y = reserveVictim(x, w)
    PROVE  /\ Partway(y, R \ {w})
           /\ Preempted(x, y)
<1>. DEFINE v == Chosen(x)
            id == x.nextReservation + 1
            u == [w EXCEPT !.reservation = id]
            r == [id |-> id, victim |-> v, contender |-> w.contender, prior |-> x.lifecycles[v].state]
            W == Queue(x) \cup R
            Wy == Queue(y) \cup (R \ {w})
<1>1. x \in Manager /\ w \in Queued /\ id \in Nat \ {0} /\ x.nextReservation \in Nat
  BY DEF Partway, Manager
<1>2. v \in Victims(x) /\ \A t \in Victims(x) \ {v} : Before(x, v, t) BY VictimFirst DEF Partway
<1>3. /\ v \in Sessions /\ v \in x.live /\ v \notin x.reserved /\ v \notin x.quarantined
      /\ x.lifecycles[v] \in Lifecycle /\ x.lifecycles[v].incumbent = None /\ ~x.lifecycles[v].hasWork
      /\ x.lifecycles[v].state = Ready \/ (x.lifecycles[v].state \in Terminal /\ x.lifecycles[v].reaped)
  <2>1. v \in x.live /\ evictionClass(x, v) >= 0 /\ v \in Sessions BY <1>1, <1>2 DEF Victims, Manager
  <2>. HIDE DEF v
  <2>. QED BY <1>1, <2>1, ClassOf, Records
<1>. HIDE DEF v
<1>4. /\ y \in Manager
      /\ y.live = x.live /\ y.quarantined = x.quarantined
      /\ y.reserved = x.reserved \cup {v}
      /\ y.nextManagerEvent = x.nextManagerEvent
      /\ y.nextReservation = id
      /\ y.waiters = Append(x.waiters, u)
      /\ y.reservations = x.reservations \cup {r}
      /\ \A s \in Sessions : s # v => y.lifecycles[s] = x.lifecycles[s]
      /\ y.lifecycles[v] \in Lifecycle
      /\ y.lifecycles[v].incumbent = [kind |-> "EVICT", contender |-> w.contender]
      /\ y.lifecycles[v].hasWork = x.lifecycles[v].hasWork
      /\ y.lifecycles[v].reaped = x.lifecycles[v].reaped
      /\ y.lifecycles[v].lastUse = x.lifecycles[v].lastUse
  <2>1. v = Chosen(x) BY DEF v
  <2>. QED BY <1>1, <1>3, <2>1, ReserveFields
<1>5. u \in Queued /\ u.contender = w.contender /\ u.sequence = w.sequence /\ u.reservation = id
  BY <1>1 DEF Queued
<1>6. r.id = id /\ r.victim = v /\ r.contender = w.contender /\ r.prior = x.lifecycles[v].state OBVIOUS
<1>. HIDE DEF u, r
<1>7. /\ y.waiters \in Seq(Queued) /\ Sorted(y.waiters)
      /\ Queue(y) = Queue(x) \cup {u}
      /\ \A a \in Queue(x) \cup {u} : a.reservation # 0 /\ \A b \in R \ {w} : a.sequence < b.sequence
      /\ \A a \in Queue(x) \cup (R \ {w}) :
            a \in W /\ a # w /\ a.contender # w.contender /\ a.sequence # w.sequence
  <2>1. u.reservation # 0 BY <1>1, <1>5
  <2>2. y.waiters = Append(x.waiters, u) BY <1>4
  <2>. HIDE DEF W
  <2>3. /\ y.waiters \in Seq(Queued) /\ Sorted(y.waiters)
        /\ Elements(y.waiters) = Queue(x) \cup {u}
        /\ \A a \in Queue(x) \cup {u} : a.reservation # 0 /\ \A b \in R \ {w} : a.sequence < b.sequence
    <3>1. PICK q : q = y.waiters /\ q = Append(x.waiters, u) BY <2>2
    <3>2. /\ q \in Seq(Queued) /\ Sorted(q)
          /\ Elements(q) = Queue(x) \cup {u}
          /\ \A a \in Queue(x) \cup {u} : a.reservation # 0 /\ \A b \in R \ {w} : a.sequence < b.sequence
      BY <1>5, <2>1, <3>1, Moved
    <3>. QED BY <3>1, <3>2
  <2>4. \A a \in Queue(x) \cup (R \ {w}) :
            a \in Queue(x) \cup R /\ a # w /\ a.contender # w.contender /\ a.sequence # w.sequence
    BY <1>5, <2>1, <2>2, Moved
  <2>. QED BY <2>3, <2>4 DEF Queue, W
<1>8. \A s \in Sessions : y.lifecycles[s] # None <=> x.lifecycles[s] # None
  BY <1>3, <1>4, NilIsNone
<1>9. Slots(y)
  BY <1>3, <1>4, <1>8 DEF Slots, Partway, Manager
<1>10. \A k \in x.reservations : Reserve(x, k) /\ k.id \in Nat /\ k.victim \in Sessions
  BY <1>1 DEF Partway, Reserves, Manager, Held
<1>11. \A k \in x.reservations : k.id < id /\ k.victim # v /\ k.contender # w.contender
  <2>. TAKE k \in x.reservations
  <2>1. k.id <= x.nextReservation /\ k.victim \in x.reserved BY <1>10 DEF Reserve
  <2>2. PICK b \in W : Fits(k, b) BY DEF Partway, Waits
  <2>3. b.reservation # 0
    <3>1. k \in Held BY <1>1 DEF Manager
    <3>. QED BY <2>2, <3>1 DEF Fits, Held
  <2>4. b # w BY <2>3
  <2>5. b.contender # w.contender BY <2>4 DEF Partway, Waits
  <2>. QED BY <1>1, <1>3, <1>10, <2>1, <2>2, <2>5 DEF Fits
<1>12. Reserves(y)
  <2>1. \A k, l \in y.reservations : k.id = l.id \/ k.victim = l.victim \/ k.contender = l.contender => k = l
    <3>1. \A k, l \in x.reservations : k.id = l.id \/ k.victim = l.victim \/ k.contender = l.contender => k = l
      BY DEF Partway, Reserves
    <3>2. \A k \in x.reservations : k.id # r.id /\ k.victim # r.victim /\ k.contender # r.contender
      BY <1>1, <1>6, <1>10, <1>11
    <3>. QED BY <1>4, <3>1, <3>2
  <2>2. ASSUME NEW k \in y.reservations PROVE Reserve(y, k)
    <3>1. CASE k = r
      BY <1>1, <1>3, <1>4, <1>6, <3>1 DEF Reserve
    <3>2. CASE k \in x.reservations
      <4>1. y.lifecycles[k.victim] = x.lifecycles[k.victim] BY <1>4, <1>10, <1>11, <3>2
      <4>2. k.id <= id BY <1>1, <1>10, <1>11, <3>2
      <4>. QED BY <1>4, <1>10, <3>2, <4>1, <4>2 DEF Reserve
    <3>. QED BY <1>4, <3>1, <3>2
  <2>3. \A s \in y.reserved : \E k \in y.reservations : k.victim = s
    BY <1>4, <1>6 DEF Partway, Reserves
  <2>4. ASSUME NEW s \in Sessions, Evicting(y, s) PROVE s \in y.reserved
    <3>1. CASE s = v BY <1>4, <3>1
    <3>2. CASE s # v
      <4>1. Evicting(x, s) BY <1>4, <2>4, <3>2 DEF Evicting
      <4>. QED BY <1>4, <4>1 DEF Partway, Reserves
    <3>. QED BY <3>1, <3>2
  <2>. QED BY <2>1, <2>2, <2>3, <2>4 DEF Reserves
<1>13. Waits(y, Wy)
  <2>0. Wy = Queue(x) \cup (R \ {w}) \cup {u} BY <1>7
  <2>1. ASSUME NEW a \in Wy, a.reservation # 0 PROVE \E k \in y.reservations : Fits(k, a)
    <3>1. CASE a = u BY <1>4, <1>5, <1>6, <3>1 DEF Fits
    <3>2. CASE a # u
      <4>1. a \in W BY <1>7, <2>0, <3>2
      <4>. QED BY <1>4, <2>1, <4>1 DEF Partway, Waits
    <3>. QED BY <3>1, <3>2
  <2>2. ASSUME NEW k \in y.reservations PROVE \E a \in Wy : Fits(k, a)
    <3>1. CASE k = r BY <1>5, <1>6, <2>0, <3>1 DEF Fits
    <3>2. CASE k \in x.reservations
      <4>1. PICK b \in W : Fits(k, b) BY <3>2 DEF Partway, Waits
      <4>2. b # w BY <1>11, <3>2, <4>1 DEF Fits
      <4>. QED BY <2>0, <4>1, <4>2
    <3>. QED BY <1>4, <3>1, <3>2
  <2>3. ASSUME NEW a \in Wy, NEW b \in Wy,
               a.contender = b.contender \/ a.sequence = b.sequence
                 \/ (a.reservation = 0 /\ b.reservation = 0)
        PROVE  a = b
    <3>1. CASE a # u /\ b # u
      <4>1. a \in W /\ b \in W BY <1>7, <2>0, <3>1
      <4>. QED BY <2>3, <4>1 DEF Partway, Waits
    <3>2. CASE a = u /\ b # u
      BY <1>1, <1>5, <1>7, <2>0, <2>3, <3>2
    <3>3. CASE a # u /\ b = u
      BY <1>1, <1>5, <1>7, <2>0, <2>3, <3>3
    <3>. QED BY <3>1, <3>2, <3>3
  <2>. QED BY <2>1, <2>2, <2>3 DEF Waits
<1>14. Clock(y, Wy)
  <2>1. \A s \in Sessions : y.lifecycles[s] # None => y.lifecycles[s].lastUse = x.lifecycles[s].lastUse
    BY <1>4
  <2>2. \A a \in Wy : \E b \in W : a.sequence = b.sequence
    BY <1>5, <1>7
  <2>3. Clock(x, W) BY DEF Partway
  <2>. QED BY <1>4, <1>8, <2>1, <2>2, <2>3 DEF Clock
<1>15. R \ {w} \subseteq Queued BY DEF Partway
<1>16. Partway(y, R \ {w})
  BY <1>4, <1>7, <1>9, <1>12, <1>13, <1>14, <1>15 DEF Partway
<1>17. \A k \in y.reservations : k \in x.reservations \/ k.prior = x.lifecycles[v].state
  BY <1>4, <1>6
<1>18. Len(y.waiters) = Len(x.waiters) + 1
  <2>1. x.waiters \in Seq(Queued) BY <1>1 DEF Manager
  <2>. QED BY <1>4, <1>5, <2>1, AppendProperties
<1>19. Preempted(x, y) BY <1>2, <1>4, <1>8, <1>17, <1>18 DEF Preempted
<1>. QED BY <1>16, <1>19

\* Records keep their last use or are removed, and waiters their sequence.
LEMMA ClockKept ==
    ASSUME NEW x, NEW W, Clock(x, W), NEW y, NEW Z, y.nextManagerEvent = x.nextManagerEvent,
           \A s \in Sessions : y.lifecycles[s] # None =>
              x.lifecycles[s] # None /\ y.lifecycles[s].lastUse = x.lifecycles[s].lastUse,
           \A a \in Z : \E b \in W : a.sequence = b.sequence
    PROVE  Clock(y, Z)
BY DEF Clock

\* The end of reservation r, whatever becomes of its victim and its waiter.
LEMMA Unreserved ==
    ASSUME NEW x, x \in Manager, Reserves(x), NEW r \in x.reservations, NEW y,
           y.reservations = x.reservations \ {r}, y.reserved = x.reserved \ {r.victim},
           y.nextReservation = x.nextReservation,
           \A s \in Sessions : s # r.victim =>
              y.lifecycles[s] = x.lifecycles[s] /\ (s \in y.quarantined => s \in x.quarantined),
           ~Evicting(y, r.victim)
    PROVE  Reserves(y)
<1>1. \A k \in x.reservations : k.victim \in Sessions BY DEF Manager, Held
<1>2. \A k \in y.reservations : k \in x.reservations /\ k.victim # r.victim BY DEF Reserves
<1>3. ASSUME NEW k \in y.reservations PROVE Reserve(y, k)
  <2>1. Reserve(x, k) /\ k.victim \in Sessions /\ k.victim # r.victim BY <1>1, <1>2 DEF Reserves
  <2>. QED BY <2>1 DEF Reserve
<1>4. \A s \in y.reserved : \E k \in y.reservations : k.victim = s BY DEF Reserves
<1>5. ASSUME NEW s \in Sessions, Evicting(y, s) PROVE s \in y.reserved
  <2>1. s # r.victim BY <1>5
  <2>2. Evicting(x, s) BY <1>5, <2>1 DEF Evicting
  <2>. QED BY <2>1, <2>2 DEF Reserves
<1>. QED BY <1>2, <1>3, <1>4, <1>5 DEF Reserves

\* What a reservation says of its victim, with the names of the model.
LEMMA ReservationSound ==
    ASSUME NEW x, x \in Manager, Slots(x), Reserves(x), NEW r \in x.reservations
    PROVE  /\ Sound(x, r) /\ x.lifecycles[r.victim].incumbent.contender = r.contender
           /\ r.victim \in Sessions /\ r.contender \in Sessions /\ r.prior \in State /\ r.id \in Nat \ {0}
           /\ r.victim \notin x.quarantined /\ x.lifecycles[r.victim] \in Lifecycle
<1>1. /\ r.victim \in Sessions /\ r.contender \in Sessions /\ r.prior \in State /\ r.id \in Nat \ {0}
  BY DEF Manager, Held
<1>2. Reserve(x, r) BY DEF Reserves
<1>3. r.victim \in x.live /\ x.lifecycles[r.victim] # None BY <1>2 DEF Reserve, Slots
<1>4. x.lifecycles[r.victim] \in Lifecycle BY <1>1, <1>3, Records
<1>5. [kind |-> "EVICT", contender |-> r.contender] \in Intent BY <1>1 DEF Intent
<1>6. /\ x.lifecycles[r.victim].incumbent # None
      /\ x.lifecycles[r.victim].incumbent.kind = "EVICT"
      /\ x.lifecycles[r.victim].incumbent.contender = r.contender
  BY <1>2, <1>5, NilIsNone DEF Reserve
<1>. QED BY <1>1, <1>2, <1>3, <1>4, <1>6 DEF Sound, Reserve

\* What a step that serves or drops a waiter leaves as it is.
Calm(x, y) ==
    /\ y.live = x.live /\ y.quarantined = x.quarantined /\ y.waiters = x.waiters
    /\ y.nextManagerEvent = x.nextManagerEvent /\ y.nextReservation = x.nextReservation
    /\ y.reserved \subseteq x.reserved /\ y.reservations \subseteq x.reservations
    /\ \A s \in Sessions : x.lifecycles[s] # None /\ x.lifecycles[s].incumbent = None =>
          y.lifecycles[s] = x.lifecycles[s]
    /\ \A s \in Sessions : y.lifecycles[s] # None =>
          x.lifecycles[s] # None /\ y.lifecycles[s].lastUse = x.lifecycles[s].lastUse
    /\ \A s \in Sessions : x.lifecycles[s] # None => y.lifecycles[s] # None

\* A waiter is dropped, its victim left in peace (supersedeWaiterReservation).
LEMMA DropStep ==
    ASSUME NEW x, NEW R, Partway(x, R), NEW w \in R, \A b \in R \ {w} : w.sequence < b.sequence,
           NEW y, y = supersedeWaiterReservation(x, w)
    PROVE  Supersedable(x, w) /\ Partway(y, R \ {w}) /\ Calm(x, y)
<1>. DEFINE W == Queue(x) \cup R
            Z == Queue(x) \cup (R \ {w})
<1>1. x \in Manager /\ w \in Queued /\ R \ {w} \subseteq Queued BY DEF Partway
<1>2. \A a \in Z : a \in W /\ a # w
  <2>1. ASSUME NEW a \in Queue(x) PROVE a # w
    <3>1. a.sequence < w.sequence BY DEF Partway
    <3>2. w.sequence \in Int BY <1>1 DEF Queued
    <3>. QED BY <3>1, <3>2
  <2>. QED BY <2>1
<1>3. \A a \in W : a # w => a \in Z OBVIOUS
<1>. HIDE DEF W, Z
<1>4. Waits(x, W) /\ Clock(x, W) BY DEF Partway, W
<1>5. CASE w.reservation = 0
  <2>1. y = x BY <1>5 DEF supersedeWaiterReservation
  <2>2. \A k \in x.reservations : k.id # 0 BY <1>1 DEF Manager, Held
  <2>3. Waits(x, Z) BY <1>2, <1>3, <1>4, <1>5, <2>2 DEF Waits, Fits
  <2>4. Clock(x, Z) BY <1>2, <1>4 DEF Clock
  <2>5. Partway(x, R \ {w}) BY <1>1, <2>3, <2>4 DEF Partway, Z
  <2>6. Calm(x, x) BY DEF Calm
  <2>. QED BY <1>5, <2>1, <2>5, <2>6 DEF Supersedable
<1>6. CASE w.reservation # 0
  <2>1. PICK k \in x.reservations : Fits(k, w) BY <1>4, <1>6 DEF Waits, W
  <2>2. k \in Superseding(x, w)
    BY <1>1, <2>1, ReservationSound DEF Superseding, Fits, Partway
  <2>. DEFINE r == CHOOSE c \in Superseding(x, w) : TRUE
  <2>3. r \in Superseding(x, w) BY <2>2
  <2>. HIDE DEF r
  <2>4. r \in x.reservations /\ Fits(r, w) BY <2>3 DEF Superseding, Fits
  <2>5. /\ Sound(x, r) /\ r.victim \in Sessions /\ r.prior \in State /\ r.id \in Nat \ {0}
        /\ x.lifecycles[r.victim] \in Lifecycle
    BY <1>1, <2>4, ReservationSound DEF Partway
  <2>. DEFINE l == x.lifecycles[r.victim]
              n == [l EXCEPT !.state = r.prior, !.incumbent = None]
  <2>6. y = [x EXCEPT !.lifecycles[r.victim] = n, !.reserved = @ \ {r.victim}, !.reservations = @ \ {r}]
    BY <1>6 DEF supersedeWaiterReservation, r
  <2>7. n \in Lifecycle /\ n.incumbent = None /\ n.lastUse = l.lastUse BY <2>5 DEF Lifecycle
  <2>. HIDE DEF n
  <2>8. /\ y.live = x.live /\ y.quarantined = x.quarantined /\ y.waiters = x.waiters
        /\ y.nextManagerEvent = x.nextManagerEvent /\ y.nextReservation = x.nextReservation
        /\ y.reserved = x.reserved \ {r.victim} /\ y.reservations = x.reservations \ {r}
        /\ y.lifecycles = [x.lifecycles EXCEPT ![r.victim] = n]
        /\ y = [lifecycles |-> y.lifecycles, live |-> y.live, reserved |-> y.reserved,
                quarantined |-> y.quarantined, reservations |-> y.reservations, waiters |-> y.waiters,
                nextManagerEvent |-> y.nextManagerEvent, nextReservation |-> y.nextReservation]
    BY <1>1, <2>6 DEF Manager
  <2>9. /\ y.lifecycles[r.victim] = n /\ \A s \in Sessions : s # r.victim => y.lifecycles[s] = x.lifecycles[s]
        /\ y.lifecycles \in [Sessions -> Lifecycle \cup {None}]
    BY <1>1, <2>5, <2>7, <2>8 DEF Manager
  <2>10. y \in Manager BY <1>1, <2>8, <2>9 DEF Manager
  <2>11. ~Evicting(y, r.victim) BY <2>7, <2>9 DEF Evicting
  <2>12. Reserves(y) BY <1>1, <2>4, <2>8, <2>9, <2>11, Unreserved DEF Partway
  <2>13. Slots(y)
    BY <1>1, <2>5, <2>7, <2>8, <2>9, NilIsNone DEF Slots, Partway, Manager
  <2>14. Clock(y, Z)
    BY <1>2, <1>4, <2>5, <2>7, <2>8, <2>9, ClockKept, NilIsNone
  <2>15. Waits(y, Z)
    <3>1. \A a \in Z : a.reservation # 0 => \E c \in y.reservations : Fits(c, a)
      <4>. TAKE a \in Z
      <4>. HAVE a.reservation # 0
      <4>1. PICK c \in x.reservations : Fits(c, a) BY <1>2, <1>4 DEF Waits
      <4>2. c # r
        <5>1. a.contender # w.contender BY <1>2, <1>4 DEF Waits, W
        <5>. QED BY <2>4, <4>1, <5>1 DEF Fits
      <4>. QED BY <2>8, <4>1, <4>2
    <3>2. \A c \in y.reservations : \E a \in Z : Fits(c, a)
      <4>. TAKE c \in y.reservations
      <4>1. c \in x.reservations /\ c # r BY <2>8
      <4>2. PICK a \in W : Fits(c, a) BY <1>4, <4>1 DEF Waits
      <4>3. a # w BY <2>4, <4>1, <4>2 DEF Fits, Partway, Reserves
      <4>. QED BY <1>3, <4>2, <4>3
    <3>. QED BY <1>2, <1>4, <3>1, <3>2 DEF Waits
  <2>16. Queue(y) = Queue(x) BY <2>8 DEF Queue
  <2>17. Partway(y, R \ {w})
    BY <1>1, <2>8, <2>10, <2>12, <2>13, <2>14, <2>15, <2>16 DEF Partway, Z
  <2>18. Calm(x, y)
    BY <2>5, <2>7, <2>8, <2>9, NilIsNone DEF Calm, Sound
  <2>. QED BY <2>3, <2>17, <2>18 DEF Supersedable
<1>. QED BY <1>5, <1>6

\* A waiter goes on waiting.
LEMMA KeepStep ==
    ASSUME NEW x, NEW R, Partway(x, R), NEW w \in R, \A b \in R \ {w} : w.sequence < b.sequence,
           w.reservation # 0, NEW y, y = Keep(x, w)
    PROVE  /\ Partway(y, R \ {w}) /\ y.live = x.live /\ y.reservations = x.reservations
           /\ y.lifecycles = x.lifecycles /\ y.reserved = x.reserved /\ y.quarantined = x.quarantined
           /\ y.waiters = Append(x.waiters, w)
           /\ y.nextManagerEvent = x.nextManagerEvent /\ y.nextReservation = x.nextReservation
<1>1. x \in Manager /\ w \in Queued /\ R \ {w} \subseteq Queued BY DEF Partway
<1>2. /\ y.live = x.live /\ y.quarantined = x.quarantined /\ y.waiters = Append(x.waiters, w)
      /\ y.nextManagerEvent = x.nextManagerEvent /\ y.nextReservation = x.nextReservation
      /\ y.reserved = x.reserved /\ y.reservations = x.reservations
      /\ y.lifecycles = x.lifecycles
      /\ y = [lifecycles |-> y.lifecycles, live |-> y.live, reserved |-> y.reserved,
              quarantined |-> y.quarantined, reservations |-> y.reservations, waiters |-> y.waiters,
              nextManagerEvent |-> y.nextManagerEvent, nextReservation |-> y.nextReservation]
  BY <1>1 DEF Keep, Manager
<1>3. /\ Append(x.waiters, w) \in Seq(Queued) /\ Sorted(Append(x.waiters, w))
      /\ Elements(Append(x.waiters, w)) = Queue(x) \cup {w}
      /\ \A a \in Queue(x) \cup {w} : a.reservation # 0 /\ \A v \in R \ {w} : a.sequence < v.sequence
  BY <1>1, Moved
<1>4. Queue(y) = Queue(x) \cup {w} BY <1>2, <1>3 DEF Queue
<1>5. Queue(y) \cup (R \ {w}) = Queue(x) \cup R BY <1>4
<1>6. y \in Manager BY <1>1, <1>2, <1>3 DEF Manager
<1>7. Slots(y) BY <1>2 DEF Partway, Slots
<1>8. Reserves(y) BY <1>2 DEF Partway, Reserves, Reserve, Evicting
<1>9. Waits(y, Queue(x) \cup R) /\ Clock(y, Queue(x) \cup R) BY <1>2 DEF Partway, Waits, Clock
<1>10. Partway(y, R \ {w}) BY <1>1, <1>2, <1>3, <1>4, <1>5, <1>6, <1>7, <1>8, <1>9 DEF Partway
<1>. QED BY <1>2, <1>10

\* A step that changes the record of session s and no reservation.
LEMMA OneRecord ==
    ASSUME NEW x, NEW R, Partway(x, R), NEW y \in Manager, NEW s \in Sessions, Slots(y),
           y.reservations = x.reservations, y.reserved = x.reserved, y.quarantined \subseteq x.quarantined,
           y.waiters = x.waiters, y.nextReservation = x.nextReservation,
           x.nextManagerEvent <= y.nextManagerEvent,
           \A t \in Sessions : t # s => y.lifecycles[t] = x.lifecycles[t],
           y.lifecycles[s] \in Lifecycle,
           s \in x.reserved => /\ y.lifecycles[s].incumbent = x.lifecycles[s].incumbent
                               /\ y.lifecycles[s].hasWork = x.lifecycles[s].hasWork
                               /\ y.lifecycles[s].reaped = x.lifecycles[s].reaped,
           s \notin x.reserved => ~Evicting(y, s),
           y.lifecycles[s].lastUse <= y.nextManagerEvent,
           \A t \in Sessions \ {s} : x.lifecycles[t] # None =>
              x.lifecycles[t].lastUse # y.lifecycles[s].lastUse,
           \A w \in Queue(x) \cup R : w.sequence # y.lifecycles[s].lastUse
    PROVE  Partway(y, R)
<1>. DEFINE W == Queue(x) \cup R
<1>1. x \in Manager /\ Queue(y) = Queue(x) BY DEF Partway, Queue
<1>2. Reserves(y)
  <2>1. ASSUME NEW k \in y.reservations PROVE Reserve(y, k)
    <3>1. Reserve(x, k) /\ k.victim \in Sessions BY <1>1 DEF Partway, Reserves, Manager, Held
    <3>2. CASE k.victim = s BY <3>1, <3>2 DEF Reserve
    <3>3. CASE k.victim # s BY <3>1, <3>3 DEF Reserve
    <3>. QED BY <3>2, <3>3
  <2>2. ASSUME NEW t \in Sessions, Evicting(y, t) PROVE t \in y.reserved
    <3>1. CASE t = s BY <2>2, <3>1
    <3>2. CASE t # s
      <4>1. Evicting(x, t) BY <2>2, <3>2 DEF Evicting
      <4>. QED BY <4>1 DEF Partway, Reserves
    <3>. QED BY <3>1, <3>2
  <2>. QED BY <2>1, <2>2 DEF Partway, Reserves
<1>3. Waits(y, W) BY DEF Partway, Waits
<1>4. Clock(y, W)
  <2>. HIDE DEF W
  <2>1. Clock(x, W) BY DEF Partway, W
  <2>2. x.nextManagerEvent \in Int /\ y.nextManagerEvent \in Int BY <1>1, AdmissionConstants DEF Manager
  <2>3. \A w \in W : w.sequence \in Int
    <3>1. \A w \in Queue(x) : w \in Queued
      <4>1. x.waiters \in Seq(Queued) BY <1>1 DEF Manager
      <4>. QED BY <4>1, ElementOfSeq DEF Queue, Elements
    <3>2. \A w \in W : w \in Queued BY <3>1 DEF W, Partway
    <3>. QED BY <3>2, AdmissionConstants DEF Queued
  <2>4. \A w \in W : w.sequence <= y.nextManagerEvent BY <2>1, <2>2, <2>3 DEF Clock
  <2>5. ASSUME NEW t \in Sessions, y.lifecycles[t] # None
        PROVE  /\ y.lifecycles[t].lastUse <= y.nextManagerEvent
               /\ \A u \in Sessions \ {t} : y.lifecycles[u] # None =>
                     y.lifecycles[u].lastUse # y.lifecycles[t].lastUse
               /\ \A w \in W : w.sequence # y.lifecycles[t].lastUse
    <3>1. CASE t = s BY <3>1 DEF W
    <3>2. CASE t # s
      <4>1. y.lifecycles[t] = x.lifecycles[t] BY <3>2
      <4>2. x.lifecycles[t] \in Lifecycle BY <1>1, <2>5, <4>1, Records
      <4>3. x.lifecycles[t].lastUse \in Int BY <4>2, AdmissionConstants DEF Lifecycle
      <4>4. x.lifecycles[t].lastUse <= y.nextManagerEvent BY <2>1, <2>2, <2>5, <4>1, <4>3 DEF Clock
      <4>5. \A u \in Sessions \ {t} : y.lifecycles[u] # None =>
               y.lifecycles[u].lastUse # x.lifecycles[t].lastUse
        BY <2>1, <2>5, <3>2, <4>1 DEF Clock
      <4>6. \A w \in W : w.sequence # x.lifecycles[t].lastUse BY <2>1, <2>5, <4>1 DEF Clock
      <4>. QED BY <4>1, <4>4, <4>5, <4>6
    <3>. QED BY <3>1, <3>2
  <2>. QED BY <2>4, <2>5 DEF Clock
<1>. QED BY <1>1, <1>2, <1>3, <1>4 DEF Partway

\* A contender c takes a free slot, with a record of its own.
Enrolled(x, c, q) == [x EXCEPT !.live = @ \cup {c}, !.lifecycles[c] = Fresh(q)]

\* A record that nothing else reads or marks: the slot stays consistent, and its
\* holder is a victim of the first class at once.
LEMMA EnrollStep ==
    ASSUME NEW x, NEW R, Partway(x, R), NEW c \in Sessions, c \notin x.live,
           Cardinality(x.live) < MaxSessions, NEW q \in 1..MaxEvents, q <= x.nextManagerEvent,
           \A t \in Sessions : x.lifecycles[t] # None => x.lifecycles[t].lastUse # q,
           \A w \in Queue(x) \cup R : w.sequence # q,
           NEW y, y = Enrolled(x, c, q)
    PROVE  /\ Partway(y, R) /\ evictionClass(y, c) = 0
           /\ y.live = x.live \cup {c} /\ y.waiters = x.waiters
           /\ y.reservations = x.reservations /\ y.reserved = x.reserved
           /\ y.nextManagerEvent = x.nextManagerEvent /\ y.nextReservation = x.nextReservation
           /\ \A t \in Sessions : t # c => y.lifecycles[t] = x.lifecycles[t]
<1>1. x \in Manager BY DEF Partway
<1>2. /\ Fresh(q) \in Lifecycle /\ Fresh(q).incumbent = None /\ Fresh(q).lastUse = q
      /\ Fresh(q).state = Stopped /\ Fresh(q).reaped /\ ~Fresh(q).hasWork
  BY AdmissionConstants DEF Fresh, Lifecycle, State
<1>3. /\ y.live = x.live \cup {c} /\ y.quarantined = x.quarantined /\ y.waiters = x.waiters
      /\ y.nextManagerEvent = x.nextManagerEvent /\ y.nextReservation = x.nextReservation
      /\ y.reserved = x.reserved /\ y.reservations = x.reservations
      /\ y.lifecycles = [x.lifecycles EXCEPT ![c] = Fresh(q)]
      /\ y = [lifecycles |-> y.lifecycles, live |-> y.live, reserved |-> y.reserved,
              quarantined |-> y.quarantined, reservations |-> y.reservations, waiters |-> y.waiters,
              nextManagerEvent |-> y.nextManagerEvent, nextReservation |-> y.nextReservation]
  BY <1>1 DEF Manager, Enrolled
<1>4. /\ y.lifecycles[c] = Fresh(q) /\ \A t \in Sessions : t # c => y.lifecycles[t] = x.lifecycles[t]
      /\ y.lifecycles \in [Sessions -> Lifecycle \cup {None}]
  BY <1>1, <1>2, <1>3 DEF Manager
<1>5. y \in Manager BY <1>1, <1>3, <1>4 DEF Manager
<1>6. Slots(y)
  <2>1. IsFiniteSet(x.live) /\ x.reserved \subseteq x.live /\ x.quarantined \subseteq x.live
        /\ \A t \in x.live : x.lifecycles[t] # None
    BY DEF Partway, Slots
  <2>2. IsFiniteSet(y.live) /\ Cardinality(y.live) = Cardinality(x.live) + 1
    <3>1. /\ IsFiniteSet(x.live \cup {c})
          /\ Cardinality(x.live \cup {c}) = IF c \in x.live THEN Cardinality(x.live) ELSE Cardinality(x.live) + 1
      BY <2>1, FS_AddElement
    <3>2. y.live = x.live \cup {c} BY <1>3
    <3>. QED BY <3>1, <3>2
  <2>3. Cardinality(x.live) \in Nat BY <2>1, FS_CardinalityType
  <2>4. Cardinality(y.live) <= MaxSessions BY <2>2, <2>3, AdmissionConstants
  <2>5. \A t \in y.live : y.lifecycles[t] # None
    BY <1>1, <1>2, <1>3, <1>4, <2>1, NilIsNone DEF Manager
  <2>. QED BY <1>3, <2>1, <2>2, <2>4, <2>5 DEF Slots
<1>7. c \notin x.reserved /\ c \notin x.quarantined BY DEF Partway, Slots
<1>8. ~Evicting(y, c) BY <1>2, <1>4 DEF Evicting
<1>9. x.nextManagerEvent <= y.nextManagerEvent /\ q <= y.nextManagerEvent
  BY <1>1, <1>3, AdmissionConstants DEF Manager
<1>10. Partway(y, R)
  BY <1>2, <1>3, <1>4, <1>5, <1>6, <1>7, <1>8, <1>9, OneRecord
<1>11. evictionClass(y, c) = 0
  BY <1>2, <1>3, <1>4, <1>7, ClassZero, NilIsNone DEF Terminal
<1>. QED BY <1>3, <1>4, <1>10, <1>11

\* What looking at waiters again never does: take a slot or a record, or reserve a
\* READY victim.
Onward(x, y) ==
    /\ x.live \subseteq y.live /\ y.nextManagerEvent = x.nextManagerEvent
    /\ \A r \in y.reservations : r \in x.reservations \/ r.prior # Ready
    /\ \A s \in Sessions : x.lifecycles[s] # None => y.lifecycles[s] # None

\* The waiter that lost its reservation will get a slot or a terminal victim.
Prospects(x, R) ==
    (\E w \in R : w.reservation = 0) =>
       Cardinality(x.live) < MaxSessions \/ \E s \in x.live : evictionClass(x, s) = 0

\* Steps of the loop compose.
LEMMA OnwardTransitive ==
    ASSUME NEW x, NEW y, NEW z, Onward(x, y), Onward(y, z)
    PROVE  Onward(x, z)
BY DEF Onward

\* A class only depends on the record and the marks.
LEMMA ClassKept ==
    ASSUME NEW x, NEW y, NEW s, evictionClass(x, s) = 0, y.lifecycles[s] = x.lifecycles[s],
           s \in y.reserved => s \in x.reserved, s \in y.quarantined => s \in x.quarantined
    PROVE  evictionClass(y, s) = 0
BY DEF evictionClass

\* What looking at waiter w does: it takes a slot if there is one.
Considered(x, w, y) ==
    /\ Onward(x, y) /\ y.live \subseteq x.live \cup {w.contender}
    /\ Cardinality(x.live) < MaxSessions => w.contender \in y.live /\ y.waiters = x.waiters
    /\ ~(Cardinality(x.live) < MaxSessions) =>
          y.live = x.live /\ Len(y.waiters) <= Len(x.waiters) + 1

\* One waiter in reprocessWaiters, in all its branches: a waiter that lost its
\* reservation finds a slot or a terminal victim, so no READY session is taken and
\* nobody is left in the queue without a reservation.
LEMMA ReconsiderStep ==
    ASSUME NEW x, NEW R, Partway(x, R), Prospects(x, R),
           NEW w \in R, \A b \in R \ {w} : w.sequence < b.sequence,
           NEW y, y = Reconsider(x, w)
    PROVE  Partway(y, R \ {w}) /\ Prospects(y, R \ {w}) /\ Considered(x, w, y)
<1>. DEFINE z == supersedeWaiterReservation(x, w)
            c == w.contender
<1>1. /\ x \in Manager /\ w \in Queued /\ c \in Sessions /\ Len(x.waiters) \in Nat
      /\ x.live \subseteq Sessions
  <2>1. x \in Manager /\ w \in Queued BY DEF Partway
  <2>2. x.waiters \in Seq(Queued) BY <2>1 DEF Manager
  <2>3. Len(x.waiters) \in Nat BY <2>2, LenProperties
  <2>. QED BY <2>1, <2>3 DEF Manager, Queued
<1>2. Supersedable(x, w) /\ Partway(z, R \ {w}) /\ Calm(x, z) BY DropStep
<1>3. \A s \in x.live : x.lifecycles[s] # None BY DEF Partway, Slots
<1>4. \A s \in x.live : evictionClass(x, s) = 0 => x.lifecycles[s].incumbent = None
  BY <1>1, ClassOf
<1>. HIDE DEF z
<1>5. Onward(x, z) /\ Prospects(z, R \ {w})
  <2>1. \A s \in Sessions : x.lifecycles[s] # None => z.lifecycles[s] # None
    BY <1>2 DEF Calm
  <2>2. \A s \in x.live : evictionClass(x, s) = 0 => evictionClass(z, s) = 0
    <3>. TAKE s \in x.live
    <3>. HAVE evictionClass(x, s) = 0
    <3>1. z.lifecycles[s] = x.lifecycles[s] BY <1>1, <1>2, <1>3, <1>4 DEF Calm
    <3>. QED BY <1>2, <3>1, ClassKept DEF Calm
  <2>3. Prospects(z, R \ {w}) BY <1>2, <2>2 DEF Prospects, Calm
  <2>. QED BY <1>2, <2>1, <2>3 DEF Onward, Calm
<1>6. CASE c \in x.live
  <2>1. y = z BY <1>2, <1>6 DEF Reconsider, z
  <2>. QED BY <1>1, <1>2, <1>5, <1>6, <2>1 DEF Calm, Considered
<1>7. CASE c \notin x.live /\ Cardinality(x.live) < MaxSessions
  <2>1. y = Enrolled(z, c, w.sequence)
    BY <1>2, <1>7 DEF Reconsider, z, Enrolled
  <2>2. /\ z.live = x.live /\ z.waiters = x.waiters /\ Queue(z) = Queue(x)
        /\ z.nextManagerEvent = x.nextManagerEvent /\ z.quarantined = x.quarantined
    BY <1>2 DEF Calm, Queue
  <2>3. w.sequence \in 1..MaxEvents /\ w.sequence <= z.nextManagerEvent
    BY <1>1, <2>2 DEF Queued, Partway, Clock
  <2>4. \A t \in Sessions : z.lifecycles[t] # None => z.lifecycles[t].lastUse # w.sequence
    BY <1>2 DEF Calm, Partway, Clock
  <2>5. \A a \in Queue(z) \cup (R \ {w}) : a.sequence # w.sequence
    <3>1. \A a \in Queue(x) : a.sequence < w.sequence BY DEF Partway
    <3>2. \A a \in R \ {w} : w.sequence < a.sequence OBVIOUS
    <3>. QED BY <2>2, <2>3, <3>1, <3>2
  <2>6. /\ Partway(y, R \ {w}) /\ evictionClass(y, c) = 0
        /\ y.live = z.live \cup {c} /\ y.waiters = z.waiters
        /\ y.reservations = z.reservations /\ y.reserved = z.reserved
        /\ y.nextManagerEvent = z.nextManagerEvent
        /\ \A t \in Sessions : t # c => y.lifecycles[t] = z.lifecycles[t]
    <3>. DEFINE k == Enrolled(z, c, w.sequence)
                S == R \ {w}
                q == w.sequence
    <3>1. /\ Partway(z, S) /\ c \in Sessions /\ c \notin z.live /\ Cardinality(z.live) < MaxSessions
          /\ k = Enrolled(z, c, q)
          /\ q \in 1..MaxEvents /\ q <= z.nextManagerEvent
          /\ \A t \in Sessions : z.lifecycles[t] # None => z.lifecycles[t].lastUse # q
          /\ \A a \in Queue(z) \cup S : a.sequence # q
      BY <1>1, <1>2, <1>7, <2>2, <2>3, <2>4, <2>5
    <3>. HIDE DEF k, S, q
    <3>2. /\ Partway(k, S) /\ evictionClass(k, c) = 0
          /\ k.live = z.live \cup {c} /\ k.waiters = z.waiters
          /\ k.reservations = z.reservations /\ k.reserved = z.reserved
          /\ k.nextManagerEvent = z.nextManagerEvent
          /\ \A t \in Sessions : t # c => k.lifecycles[t] = z.lifecycles[t]
      <4>. HIDE DEF c
      <4>. QED BY <3>1, EnrollStep
    <3>. QED BY <2>1, <3>1, <3>2 DEF S, q
  <2>7. Prospects(y, R \ {w}) BY <2>6 DEF Prospects
  <2>8. \A s \in Sessions : z.lifecycles[s] # None => y.lifecycles[s] # None
    <3>1. y.lifecycles[c] # None BY <2>6 DEF Partway, Slots
    <3>. QED BY <2>6, <3>1
  <2>9. Onward(z, y) BY <2>6, <2>8 DEF Onward
  <2>10. Onward(x, y) BY <1>5, <2>9, OnwardTransitive
  <2>. QED BY <1>7, <2>2, <2>6, <2>7, <2>10 DEF Considered
<1>8. CASE c \notin x.live /\ ~(Cardinality(x.live) < MaxSessions) /\ w.reservation = 0
  <2>1. PICK s \in x.live : evictionClass(x, s) = 0 BY <1>8 DEF Prospects
  <2>2. s \in Victims(x) BY <2>1 DEF Victims
  <2>3. y = reserveVictim(x, w) BY <1>8, <2>2 DEF Reconsider
  <2>. DEFINE j == reserveVictim(x, w)
  <2>4. /\ Partway(j, R \ {w})
        /\ j.live = x.live /\ j.quarantined = x.quarantined
        /\ j.nextManagerEvent = x.nextManagerEvent
        /\ Len(j.waiters) = Len(x.waiters) + 1
        /\ Preempted(x, j)
    <3>1. j = reserveVictim(x, w) /\ w.reservation = 0 /\ Victims(x) # {} BY <1>8, <2>2
    <3>. HIDE DEF j
    <3>2. Partway(j, R \ {w}) /\ Preempted(x, j) BY <3>1, ReserveStep
    <3>. QED BY <3>2 DEF Preempted
  <2>. HIDE DEF j
  <2>5. PICK v \in Victims(x) :
            /\ \A t \in Victims(x) \ {v} : Before(x, v, t)
            /\ j.reserved = x.reserved \cup {v}
            /\ \A k \in j.reservations : k \in x.reservations \/ k.prior = x.lifecycles[v].state
            /\ \A t \in Sessions : t # v => j.lifecycles[t] = x.lifecycles[t]
    BY <2>4 DEF Preempted
  <2>6. v \in Sessions /\ evictionClass(x, v) \in {0, 1} /\ s \in Sessions
    BY <1>1, <2>5, ClassOf DEF Victims
  <2>7. evictionClass(x, v) = 0
    <3>1. s = v \/ Before(x, v, s) BY <2>2, <2>5
    <3>. QED BY <2>1, <2>6, <3>1 DEF Before
  <2>8. x.lifecycles[v].state # Ready /\ (x.lifecycles[v].state \in Terminal /\ x.lifecycles[v].reaped)
    BY <1>1, <2>6, <2>7, ClassOf
  <2>9. \A t \in Sessions : x.lifecycles[t] # None => j.lifecycles[t] # None
    BY <2>4 DEF Preempted
  <2>10. Onward(x, j) BY <2>4, <2>5, <2>8, <2>9 DEF Onward
  <2>11. \A b \in R \ {w} : b.reservation # 0
    BY <1>8 DEF Partway, Waits
  <2>12. Prospects(j, R \ {w}) BY <2>11 DEF Prospects
  <2>13. y = j BY <2>3 DEF j
  <2>. QED BY <1>1, <1>8, <2>4, <2>10, <2>12, <2>13 DEF Considered
<1>9. CASE c \notin x.live /\ ~(Cardinality(x.live) < MaxSessions) /\ w.reservation # 0
  <2>1. y = Keep(x, w) BY <1>9 DEF Reconsider
  <2>2. /\ Partway(y, R \ {w}) /\ y.live = x.live /\ y.reservations = x.reservations
        /\ y.lifecycles = x.lifecycles /\ y.reserved = x.reserved /\ y.quarantined = x.quarantined
        /\ y.waiters = Append(x.waiters, w)
        /\ y.nextManagerEvent = x.nextManagerEvent
    <3>. DEFINE k == Keep(x, w)
    <3>1. k = Keep(x, w) /\ w.reservation # 0 BY <1>9
    <3>. HIDE DEF k
    <3>2. /\ Partway(k, R \ {w}) /\ k.live = x.live /\ k.reservations = x.reservations
          /\ k.lifecycles = x.lifecycles /\ k.reserved = x.reserved /\ k.quarantined = x.quarantined
          /\ k.waiters = Append(x.waiters, w)
          /\ k.nextManagerEvent = x.nextManagerEvent
      BY <3>1, KeepStep
    <3>. QED BY <2>1, <3>1, <3>2
  <2>3. Len(y.waiters) = Len(x.waiters) + 1
    <3>1. x.waiters \in Seq(Queued) BY <1>1 DEF Manager
    <3>. QED BY <1>1, <2>2, <3>1, AppendProperties
  <2>4. Onward(x, y) BY <2>2 DEF Onward
  <2>5. \A s \in x.live : evictionClass(x, s) = 0 => evictionClass(y, s) = 0
    BY <2>2, ClassKept
  <2>6. Prospects(y, R \ {w}) BY <2>2, <2>5 DEF Prospects
  <2>. QED BY <1>1, <1>9, <2>2, <2>3, <2>4, <2>6 DEF Considered
<1>. QED BY <1>6, <1>7, <1>8, <1>9

\* A strictly increasing function on 1..n is the identity.
LEMMA Increasing ==
    ASSUME NEW n \in Nat, NEW p \in [1..n -> 1..n], \A i, j \in 1..n : i < j => p[i] < p[j]
    PROVE  \A i \in 1..n : p[i] = i
<1>1. \A i \in 1..n : i <= p[i]
  <2>. DEFINE Q == {i \in 1..n : ~(i <= p[i])}
  <2>. SUFFICES ASSUME Q # {} PROVE FALSE OBVIOUS
  <2>1. Q \subseteq Nat OBVIOUS
  <2>2. PICK k \in Q : \A q \in Q : k <= q BY <2>1, LeastNatural
  <2>3. k \in 1..n /\ p[k] \in 1..n /\ p[k] < k OBVIOUS
  <2>4. k - 1 \in 1..n /\ k - 1 < k BY <2>3
  <2>5. k - 1 <= p[k - 1] BY <2>2, <2>4
  <2>6. p[k - 1] < p[k] /\ p[k - 1] \in 1..n BY <2>3, <2>4
  <2>. QED BY <2>3, <2>4, <2>5, <2>6
<1>2. \A i \in 1..n : p[i] <= i
  <2>. DEFINE Q == {k \in 0..(n - 1) : ~(p[n - k] <= n - k)}
  <2>1. Q = {}
    <3>. SUFFICES ASSUME Q # {} PROVE FALSE OBVIOUS
    <3>1. Q \subseteq Nat OBVIOUS
    <3>2. PICK k \in Q : \A q \in Q : k <= q BY <3>1, LeastNatural
    <3>3. k \in 0..(n - 1) /\ n - k \in 1..n /\ p[n - k] \in 1..n /\ n - k < p[n - k] OBVIOUS
    <3>4. k - 1 \in 0..(n - 1) /\ n - (k - 1) \in 1..n /\ n - k < n - (k - 1) /\ ~(k <= k - 1) BY <3>3
    <3>5. p[n - (k - 1)] <= n - (k - 1) BY <3>2, <3>4
    <3>6. p[n - k] < p[n - (k - 1)] /\ p[n - (k - 1)] \in 1..n BY <3>3, <3>4
    <3>. QED BY <3>3, <3>4, <3>5, <3>6
  <2>2. ASSUME NEW i \in 1..n PROVE p[i] <= i
    <3>1. n - i \in 0..(n - 1) /\ n - (n - i) = i OBVIOUS
    <3>2. n - i \notin Q BY <2>1
    <3>. QED BY <3>1, <3>2
  <2>. QED BY <2>2
<1>. QED BY <1>1, <1>2

\* The queue is sorted already: reprocessWaiters looks at it in its own order.
LEMMA InOrderSorted ==
    ASSUME NEW q \in Seq(Queued), Sorted(q)
    PROVE  InOrder(q) = q
<1>. DEFINE n == Len(q)
            Good(f) == \A i, j \in DOMAIN q : i < j => q[f[i]].sequence < q[f[j]].sequence
            p == CHOOSE f \in [DOMAIN q -> DOMAIN q] : Good(f)
<1>1. n \in Nat /\ DOMAIN q = 1..n /\ \A i \in 1..n : q[i] \in Queued /\ q[i].sequence \in Int
  <2>1. n \in Nat /\ DOMAIN q = 1..n BY LenProperties
  <2>2. \A i \in 1..n : q[i] \in Queued BY ElementOfSeq
  <2>. QED BY <2>1, <2>2, AdmissionConstants DEF Queued
<1>2. \A i, j \in 1..n : i < j => q[i].sequence < q[j].sequence BY DEF Sorted
<1>. HIDE DEF n
<1>3. Good([i \in DOMAIN q |-> i]) BY <1>1, <1>2
<1>4. \E f \in [DOMAIN q -> DOMAIN q] : Good(f) BY <1>3
<1>5. p \in [DOMAIN q -> DOMAIN q] /\ Good(p)
  <2>. HIDE DEF Good
  <2>. QED BY <1>4
<1>6. InOrder(q) = [i \in DOMAIN q |-> q[p[i]]] BY DEF InOrder
<1>. HIDE DEF p
<1>7. ASSUME NEW i \in 1..n, NEW j \in 1..n, i < j PROVE p[i] < p[j]
  <2>1. q[p[i]].sequence < q[p[j]].sequence /\ p[i] \in 1..n /\ p[j] \in 1..n
    BY <1>1, <1>5, <1>7
  <2>2. p[i] # p[j] BY <1>1, <2>1
  <2>3. ~(p[j] < p[i])
    <3>. SUFFICES ASSUME p[j] < p[i] PROVE FALSE OBVIOUS
    <3>1. q[p[j]].sequence < q[p[i]].sequence BY <1>2, <2>1
    <3>. QED BY <1>1, <2>1, <3>1
  <2>. QED BY <1>1, <2>1, <2>2, <2>3
<1>8. \A i \in 1..n : p[i] = i
  <2>1. p \in [1..n -> 1..n] BY <1>1, <1>5
  <2>. QED BY <1>1, <1>7, <2>1, Increasing
<1>9. InOrder(q) = [i \in 1..n |-> q[i]] BY <1>1, <1>6, <1>8
<1>10. q = [i \in 1..n |-> q[i]] BY <1>1
<1>. QED BY <1>9, <1>10

\* The manager with nobody queued yet, and the waiters after the first n.
Emptied(x) == [x EXCEPT !.waiters = <<>>]
Rest(ws, n) == {ws[i] : i \in (n + 1)..Len(ws)}

\* f is a run of the loop over the first n waiters.
Walks(x, ws, f, n) ==
    f = [k \in 0..n |-> IF k = 0 THEN Emptied(x) ELSE Reconsider(f[k - 1], ws[k])]

\* There is one of every length: a shortest missing one would extend its predecessor.
LEMMA WalksExist ==
    ASSUME NEW x, NEW ws, NEW n \in Nat
    PROVE  \E f : Walks(x, ws, f, n)
<1>. DEFINE Q == {k \in Nat : ~ \E f : Walks(x, ws, f, k)}
<1>. SUFFICES ASSUME Q # {} PROVE FALSE OBVIOUS
<1>1. PICK a \in Q : \A q \in Q : a <= q BY LeastNatural
<1>2. a # 0
  <2>1. Walks(x, ws, [k \in 0..0 |-> Emptied(x)], 0) BY DEF Walks
  <2>. QED BY <2>1
<1>3. a - 1 \in Nat /\ a - 1 \notin Q BY <1>1, <1>2
<1>4. PICK f : Walks(x, ws, f, a - 1) BY <1>3
<1>. DEFINE h == [k \in 0..a |-> IF k = a THEN Reconsider(f[a - 1], ws[a]) ELSE f[k]]
<1>5. Walks(x, ws, h, a)
  <2>1. \A k \in 0..a : k = a \/ k \in 0..(a - 1) BY <1>3
  <2>2. \A k \in 0..(a - 1) : f[k] = IF k = 0 THEN Emptied(x) ELSE Reconsider(f[k - 1], ws[k])
    BY <1>4 DEF Walks
  <2>3. \A k \in 0..a : h[k] = IF k = 0 THEN Emptied(x) ELSE Reconsider(h[k - 1], ws[k])
    <3>. TAKE k \in 0..a
    <3>1. CASE k = 0 BY <1>2, <1>3, <2>2, <3>1
    <3>2. CASE k # 0 /\ k = a
      <4>1. k - 1 \in 0..a /\ k - 1 # a BY <1>3, <3>2
      <4>. QED BY <3>2, <4>1
    <3>3. CASE k # 0 /\ k # a
      <4>1. k - 1 \in 0..a /\ k - 1 # a /\ k \in 0..(a - 1) BY <1>3, <3>3
      <4>. QED BY <2>2, <3>3, <4>1
    <3>. QED BY <3>1, <3>2, <3>3
  <2>. HIDE DEF h
  <2>4. h = [k \in 0..a |-> h[k]] BY DEF h
  <2>. QED BY <2>3, <2>4 DEF Walks
<1>. QED BY <1>5

\* The function that Looked defines is one.
LEMMA LookedWalks ==
    ASSUME NEW x, NEW ws, Len(ws) \in Nat
    PROVE  Walks(x, ws, Looked(x, ws), Len(ws))
<1>1. Looked(x, ws) = CHOOSE f : Walks(x, ws, f, Len(ws)) BY DEF Looked, Walks, Emptied
<1>. QED BY <1>1, WalksExist

\* Where the loop is after k waiters, from e: it left the earlier ones in the queue
\* or served, one at least served, and the slots went to the first of them.
Served(e, ws, k, y) ==
    /\ Partway(y, Rest(ws, k)) /\ Prospects(y, Rest(ws, k)) /\ Onward(e, y)
    /\ Len(y.waiters) <= k /\ (k # 0 => Len(y.waiters) <= k - 1)
    /\ Cardinality(y.live) < MaxSessions => \A i \in 1..k : ws[i].contender \in y.live
    /\ \A s \in y.live \ e.live : \E j \in 1..k :
          ws[j].contender = s /\ \A i \in 1..j : ws[i].contender \in y.live

\* One more waiter: only the first waiter meets a free slot for certain, so it is
\* the one that leaves the queue.
LEMMA ServeStep ==
    ASSUME NEW ws \in Seq(Queued), Sorted(ws), NEW e, NEW k \in 1..Len(ws), NEW x,
           Served(e, ws, k - 1, x), Cardinality(e.live) < MaxSessions,
           k = 1 => x = e, NEW y, y = Reconsider(x, ws[k])
    PROVE  Served(e, ws, k, y)
<1>. DEFINE R == Rest(ws, k - 1)
            w == ws[k]
<1>1. /\ Len(ws) \in Nat /\ \A i \in 1..Len(ws) : ws[i] \in Queued /\ ws[i].sequence \in Int
  <2>1. Len(ws) \in Nat BY LenProperties
  <2>2. \A i \in 1..Len(ws) : ws[i] \in Queued BY ElementOfSeq
  <2>. QED BY <2>1, <2>2, AdmissionConstants DEF Queued
<1>2. w \in R /\ R = Rest(ws, k) \cup {w}
  <2>1. \A i \in (k - 1 + 1)..Len(ws) : i = k \/ i \in (k + 1)..Len(ws) BY <1>1
  <2>2. k \in (k - 1 + 1)..Len(ws) /\ \A i \in (k + 1)..Len(ws) : i \in (k - 1 + 1)..Len(ws) BY <1>1
  <2>. QED BY <2>1, <2>2 DEF Rest
<1>3. \A b \in Rest(ws, k) : w.sequence < b.sequence
  <2>. TAKE b \in Rest(ws, k)
  <2>1. PICK i \in (k + 1)..Len(ws) : b = ws[i] BY DEF Rest
  <2>2. i \in 1..Len(ws) /\ k < i BY <1>1, <2>1
  <2>. QED BY <2>1, <2>2 DEF Sorted
<1>4. w \notin Rest(ws, k) BY <1>1, <1>3
<1>5. R \ {w} = Rest(ws, k) BY <1>2, <1>4
<1>6. Partway(x, R) /\ Prospects(x, R) /\ Onward(e, x) BY DEF Served
<1>7. Partway(y, Rest(ws, k)) /\ Prospects(y, Rest(ws, k)) /\ Considered(x, w, y)
  <2>. HIDE DEF R, w
  <2>1. y = Reconsider(x, w) BY DEF w
  <2>2. \A b \in R \ {w} : w.sequence < b.sequence BY <1>3, <1>5
  <2>3. Partway(y, R \ {w}) /\ Prospects(y, R \ {w}) /\ Considered(x, w, y)
    BY <1>2, <1>6, <2>1, <2>2, ReconsiderStep
  <2>. QED BY <1>5, <2>3
<1>8. Onward(x, y) /\ Onward(e, y) BY <1>6, <1>7, OnwardTransitive DEF Considered
<1>9. x.live \subseteq y.live /\ Len(x.waiters) \in Nat /\ Len(y.waiters) \in Nat
  <2>1. x.waiters \in Seq(Queued) /\ y.waiters \in Seq(Queued) BY <1>6, <1>7 DEF Partway, Manager
  <2>. QED BY <1>8, <2>1, LenProperties DEF Onward
<1>10. \A i \in 1..k : i = k \/ i \in 1..(k - 1) BY <1>1
<1>11. CASE Cardinality(x.live) < MaxSessions
  <2>1. w.contender \in y.live /\ y.waiters = x.waiters BY <1>7, <1>11 DEF Considered
  <2>2. \A i \in 1..(k - 1) : ws[i].contender \in x.live BY <1>11 DEF Served
  <2>3. \A i \in 1..k : ws[i].contender \in y.live BY <1>9, <1>10, <2>1, <2>2
  <2>4. Len(y.waiters) <= k - 1
    <3>1. Len(x.waiters) <= k - 1 BY DEF Served
    <3>. QED BY <2>1, <3>1
  <2>5. ASSUME NEW s \in y.live \ e.live
        PROVE  \E j \in 1..k : ws[j].contender = s /\ \A i \in 1..j : ws[i].contender \in y.live
    <3>1. CASE s \in x.live
      <4>1. PICK j \in 1..(k - 1) : ws[j].contender = s /\ \A i \in 1..j : ws[i].contender \in x.live
        BY <2>5, <3>1 DEF Served
      <4>2. j \in 1..k BY <4>1
      <4>. QED BY <1>9, <4>1, <4>2
    <3>2. CASE s \notin x.live
      <4>1. s = w.contender BY <1>7, <2>5, <3>2 DEF Considered
      <4>2. k \in 1..k OBVIOUS
      <4>. QED BY <2>3, <4>1, <4>2
    <3>. QED BY <3>1, <3>2
  <2>6. Len(y.waiters) <= k BY <1>1, <1>9, <2>4
  <2>. QED BY <1>7, <1>8, <2>3, <2>4, <2>5, <2>6 DEF Served
<1>12. CASE ~(Cardinality(x.live) < MaxSessions)
  <2>1. y.live = x.live /\ Len(y.waiters) <= Len(x.waiters) + 1 BY <1>7, <1>12 DEF Considered
  <2>2. k # 1 BY <1>12
  <2>3. Len(x.waiters) <= (k - 1) - 1 BY <2>2 DEF Served
  <2>4. Len(y.waiters) <= k - 1 /\ Len(y.waiters) <= k BY <1>9, <2>1, <2>3
  <2>5. ASSUME NEW s \in y.live \ e.live
        PROVE  \E j \in 1..k : ws[j].contender = s /\ \A i \in 1..j : ws[i].contender \in y.live
    <3>1. PICK j \in 1..(k - 1) : ws[j].contender = s /\ \A i \in 1..j : ws[i].contender \in x.live
      BY <2>1, <2>5 DEF Served
    <3>2. j \in 1..k BY <3>1
    <3>. QED BY <2>1, <3>1, <3>2
  <2>. QED BY <1>7, <1>8, <1>12, <2>1, <2>4, <2>5 DEF Served
<1>. QED BY <1>11, <1>12

\* The loop, from a manager with a free slot.
LEMMA ServeAll ==
    ASSUME NEW x, NEW ws \in Seq(Queued), Sorted(ws), NEW e, e = Emptied(x), e.waiters = <<>>,
           Partway(e, Elements(ws)), Cardinality(e.live) < MaxSessions
    PROVE  Served(e, ws, Len(ws), Looked(x, ws)[Len(ws)])
<1>. DEFINE f == Looked(x, ws)
            n == Len(ws)
            Q == {k \in 0..n : ~Served(e, ws, k, f[k])}
<1>1. n \in Nat BY LenProperties
<1>2. \A k \in 0..n : f[k] = IF k = 0 THEN e ELSE Reconsider(f[k - 1], ws[k])
  BY <1>1, LookedWalks DEF Walks
<1>. HIDE DEF f, n
<1>3. f[0] = e /\ \A k \in 1..n : f[k] = Reconsider(f[k - 1], ws[k])
  BY <1>1, <1>2
<1>4. Served(e, ws, 0, e)
  <2>1. Rest(ws, 0) = Elements(ws) BY DEF Rest, Elements
  <2>2. Onward(e, e) BY DEF Onward
  <2>3. Prospects(e, Elements(ws)) BY DEF Prospects
  <2>4. Len(e.waiters) = 0 OBVIOUS
  <2>. QED BY <2>1, <2>2, <2>3, <2>4 DEF Served
<1>5. Q = {}
  <2>. SUFFICES ASSUME Q # {} PROVE FALSE OBVIOUS
  <2>1. Q \subseteq Nat BY <1>1
  <2>2. PICK k \in Q : \A q \in Q : k <= q BY <2>1, LeastNatural
  <2>3. k # 0 BY <1>3, <1>4
  <2>4. k \in 1..n /\ k - 1 \in 0..n /\ ~(k <= k - 1) BY <1>1, <2>3
  <2>5. Served(e, ws, k - 1, f[k - 1]) BY <2>2, <2>4
  <2>6. k = 1 => f[k - 1] = e BY <1>3
  <2>7. f[k] = Reconsider(f[k - 1], ws[k]) BY <1>3, <2>4
  <2>8. PICK a, b : a = f[k - 1] /\ b = f[k] OBVIOUS
  <2>9. k \in 1..Len(ws) BY <2>4 DEF n
  <2>10. Served(e, ws, k - 1, a) /\ (k = 1 => a = e) /\ b = Reconsider(a, ws[k]) BY <2>5, <2>6, <2>7, <2>8
  <2>11. Served(e, ws, k, b) BY <2>9, <2>10, ServeStep
  <2>. QED BY <2>8, <2>11
<1>6. n \in 0..n BY <1>1
<1>7. Served(e, ws, n, f[n]) BY <1>5, <1>6
<1>. QED BY <1>7 DEF f, n

\* A waiter after releaseVictimSlot of reservation r: it has no reservation if it
\* had that one.
Freed(r, w) == IF w.reservation = r.id THEN [w EXCEPT !.reservation = 0] ELSE w

\* What releaseVictimSlot leaves for reprocessWaiters: a free slot, and the waiters
\* in their order, one of them without a reservation.
LEMMA ReleaseStep ==
    ASSUME NEW x, Partway(x, {}), NEW r \in x.reservations, NEW y, y = releaseVictimSlot(x, r)
    PROVE  /\ y.waiters \in Seq(Queued) /\ Sorted(y.waiters) /\ Len(y.waiters) = Len(x.waiters)
           /\ \A i \in 1..Len(x.waiters) : y.waiters[i].contender = x.waiters[i].contender
           /\ Len(x.waiters) # 0
           /\ Emptied(y).waiters = <<>> /\ Partway(Emptied(y), Elements(y.waiters))
           /\ Cardinality(Emptied(y).live) < MaxSessions
           /\ Emptied(y).live = x.live \ {r.victim}
           /\ Emptied(y).nextManagerEvent = x.nextManagerEvent
           /\ Emptied(y).reservations \subseteq x.reservations
           /\ \A s \in Sessions : s # r.victim /\ x.lifecycles[s] # None => Emptied(y).lifecycles[s] # None
<1>. DEFINE ws == y.waiters
            n == Len(x.waiters)
            e == Emptied(y)
            v == r.victim
<1>1. x \in Manager /\ x.waiters \in Seq(Queued) /\ n \in Nat /\ DOMAIN x.waiters = 1..n
  <2>1. x \in Manager BY DEF Partway
  <2>2. x.waiters \in Seq(Queued) BY <2>1 DEF Manager
  <2>. QED BY <2>1, <2>2, LenProperties
<1>2. /\ v \in Sessions /\ r.contender \in Sessions /\ r.id \in Nat \ {0} /\ Reserve(x, r)
      /\ v \in x.live /\ v \in x.reserved /\ Sound(x, r)
  BY <1>1, ReservationSound DEF Partway, Reserves, Sound
<1>3. \A i \in 1..n : x.waiters[i] \in Queued /\ x.waiters[i] \in Queue(x)
  BY <1>1, ElementOfSeq DEF Queue, Elements
<1>4. /\ e.live = x.live \ {v} /\ e.quarantined = x.quarantined \ {v} /\ e.reserved = x.reserved \ {v}
      /\ e.reservations = x.reservations \ {r} /\ e.waiters = <<>>
      /\ e.nextManagerEvent = x.nextManagerEvent /\ e.nextReservation = x.nextReservation
      /\ e.lifecycles = [x.lifecycles EXCEPT ![v] = None]
      /\ e = [lifecycles |-> e.lifecycles, live |-> e.live, reserved |-> e.reserved,
              quarantined |-> e.quarantined, reservations |-> e.reservations, waiters |-> e.waiters,
              nextManagerEvent |-> e.nextManagerEvent, nextReservation |-> e.nextReservation]
  <2>1. /\ y.live = x.live \ {v} /\ y.quarantined = x.quarantined \ {v} /\ y.reserved = x.reserved \ {v}
        /\ y.reservations = x.reservations \ {r}
        /\ y.nextManagerEvent = x.nextManagerEvent /\ y.nextReservation = x.nextReservation
        /\ y.lifecycles = [x.lifecycles EXCEPT ![v] = None]
    BY <1>1 DEF releaseVictimSlot, Manager
  <2>2. y = [lifecycles |-> y.lifecycles, live |-> y.live, reserved |-> y.reserved,
              quarantined |-> y.quarantined, reservations |-> y.reservations, waiters |-> y.waiters,
              nextManagerEvent |-> y.nextManagerEvent, nextReservation |-> y.nextReservation]
    BY <1>1 DEF releaseVictimSlot, Manager
  <2>3. e = [lifecycles |-> y.lifecycles, live |-> y.live, reserved |-> y.reserved,
              quarantined |-> y.quarantined, reservations |-> y.reservations, waiters |-> <<>>,
              nextManagerEvent |-> y.nextManagerEvent, nextReservation |-> y.nextReservation]
    BY <2>2 DEF Emptied
  <2>. HIDE DEF e
  <2>. QED BY <2>1, <2>3
<1>5. ws = [i \in 1..n |-> Freed(r, x.waiters[i])]
  BY <1>1 DEF releaseVictimSlot, Manager, Freed
<1>. HIDE DEF n, ws, e, v
<1>6. ASSUME NEW w \in Queued
      PROVE  /\ Freed(r, w) \in Queued
             /\ Freed(r, w).contender = w.contender /\ Freed(r, w).sequence = w.sequence
             /\ Freed(r, w).reservation = IF w.reservation = r.id THEN 0 ELSE w.reservation
  BY DEF Freed, Queued
<1>7. ws \in Seq(Queued) /\ Len(ws) = n /\ \A i \in 1..n : ws[i] = Freed(r, x.waiters[i])
  <2>1. \A i \in 1..n : Freed(r, x.waiters[i]) \in Queued BY <1>3, <1>6
  <2>2. ws \in [1..n -> Queued] BY <1>5, <2>1
  <2>3. ws \in Seq(Queued) BY <1>1, <2>2, SeqDef
  <2>4. Len(ws) = n BY <1>1, <2>2, <2>3, LenProperties
  <2>. QED BY <1>5, <2>3, <2>4
<1>8. \A i \in 1..n : ws[i].contender = x.waiters[i].contender /\ ws[i].sequence = x.waiters[i].sequence
  BY <1>3, <1>6, <1>7
<1>9. Sorted(ws)
  <2>1. \A i, j \in 1..n : i < j => x.waiters[i].sequence < x.waiters[j].sequence
    BY DEF Partway, Sorted, n
  <2>. QED BY <1>7, <1>8, <2>1 DEF Sorted
<1>10. \A b \in Elements(ws) : \E a \in Queue(x) : a \in Queued /\ b = Freed(r, a)
  BY <1>3, <1>7 DEF Elements
<1>11. \A a \in Queue(x) : a \in Queued /\ Freed(r, a) \in Elements(ws)
  BY <1>3, <1>7 DEF Elements, Queue, n
<1>12. n # 0
  <2>1. Waits(x, Queue(x)) BY DEF Partway
  <2>2. PICK a \in Queue(x) : Fits(r, a) BY <2>1 DEF Waits
  <2>. QED BY <1>1, <2>2 DEF Queue, Elements, n
<1>13. /\ e.lifecycles \in [Sessions -> Lifecycle \cup {None}] /\ e.lifecycles[v] = None
       /\ \A s \in Sessions : s # v => e.lifecycles[s] = x.lifecycles[s]
  BY <1>1, <1>2, <1>4 DEF Manager
<1>14. e \in Manager
  <2>1. e.waiters \in Seq(Queued) BY <1>4
  <2>. QED BY <1>1, <1>4, <1>13, <2>1 DEF Manager
<1>15. /\ IsFiniteSet(e.live) /\ Cardinality(e.live) = Cardinality(x.live) - 1
       /\ Cardinality(e.live) < MaxSessions
  <2>1. IsFiniteSet(x.live) /\ Cardinality(x.live) <= MaxSessions BY DEF Partway, Slots
  <2>2. /\ IsFiniteSet(x.live \ {v})
        /\ Cardinality(x.live \ {v}) = IF v \in x.live THEN Cardinality(x.live) - 1 ELSE Cardinality(x.live)
    BY <2>1, FS_RemoveElement
  <2>3. Cardinality(x.live) \in Nat BY <2>1, FS_CardinalityType
  <2>. QED BY <1>2, <1>4, <2>1, <2>2, <2>3, AdmissionConstants
<1>16. Slots(e)
  <2>1. Slots(x) /\ x.live \subseteq Sessions BY <1>1 DEF Partway, Manager
  <2>2. Cardinality(e.live) <= MaxSessions
    BY <1>15, FS_CardinalityType, AdmissionConstants
  <2>. QED BY <1>4, <1>13, <1>15, <2>1, <2>2 DEF Slots
<1>17. Reserves(e)
  <2>1. ~Evicting(e, v) BY <1>13 DEF Evicting
  <2>2. Reserves(x) BY DEF Partway
  <2>3. \A s \in Sessions : s # v =>
           e.lifecycles[s] = x.lifecycles[s] /\ (s \in e.quarantined => s \in x.quarantined)
    BY <1>4, <1>13
  <2>4. e.reservations = x.reservations \ {r} /\ e.reserved = x.reserved \ {r.victim}
        /\ e.nextReservation = x.nextReservation /\ ~Evicting(e, r.victim)
        /\ \A s \in Sessions : s # r.victim =>
             e.lifecycles[s] = x.lifecycles[s] /\ (s \in e.quarantined => s \in x.quarantined)
    BY <1>4, <2>1, <2>3 DEF v
  <2>. QED BY <1>1, <2>2, <2>4, Unreserved
<1>18. Queue(e) = {} BY <1>4 DEF Queue, Elements
<1>19. Waits(e, Elements(ws))
  <2>0. Waits(x, Queue(x)) /\ Reserves(x) BY DEF Partway
  <2>1. ASSUME NEW b \in Elements(ws), b.reservation # 0 PROVE \E k \in e.reservations : Fits(k, b)
    <3>1. PICK a \in Queue(x) : a \in Queued /\ b = Freed(r, a) BY <1>10
    <3>2. a.reservation # r.id /\ b.reservation = a.reservation /\ b.contender = a.contender
      BY <1>6, <2>1, <3>1
    <3>3. PICK k \in x.reservations : Fits(k, a) BY <2>0, <2>1, <3>2 DEF Waits
    <3>4. k # r BY <3>2, <3>3 DEF Fits
    <3>. QED BY <1>4, <3>2, <3>3, <3>4 DEF Fits
  <2>2. ASSUME NEW k \in e.reservations PROVE \E b \in Elements(ws) : Fits(k, b)
    <3>1. k \in x.reservations /\ k # r /\ k.id # r.id BY <1>4, <2>0 DEF Reserves
    <3>2. PICK a \in Queue(x) : Fits(k, a) BY <2>0, <3>1 DEF Waits
    <3>3. Freed(r, a) = a BY <3>1, <3>2 DEF Fits, Freed
    <3>. QED BY <1>11, <3>2, <3>3
  <2>3. ASSUME NEW b \in Elements(ws), NEW d \in Elements(ws),
               b.contender = d.contender \/ b.sequence = d.sequence \/ (b.reservation = 0 /\ d.reservation = 0)
        PROVE  b = d
    <3>1. PICK a \in Queue(x) : a \in Queued /\ b = Freed(r, a) BY <1>10
    <3>2. PICK c \in Queue(x) : c \in Queued /\ d = Freed(r, c) BY <1>10
    <3>3. /\ b.contender = a.contender /\ b.sequence = a.sequence
          /\ d.contender = c.contender /\ d.sequence = c.sequence
      BY <1>6, <3>1, <3>2
    <3>4. \A p, q \in Queue(x) : p.contender = q.contender \/ p.sequence = q.sequence => p = q
      BY <2>0 DEF Waits
    <3>5. CASE b.contender = d.contender \/ b.sequence = d.sequence
      BY <3>1, <3>2, <3>3, <3>4, <3>5
    <3>6. CASE b.reservation = 0 /\ d.reservation = 0
      <4>1. a.reservation # 0 /\ c.reservation # 0 BY DEF Partway
      <4>2. a.reservation = r.id /\ c.reservation = r.id BY <1>6, <3>1, <3>2, <3>6, <4>1
      <4>3. PICK k \in x.reservations : Fits(k, a) BY <2>0, <4>1 DEF Waits
      <4>4. PICK l \in x.reservations : Fits(l, c) BY <2>0, <4>1 DEF Waits
      <4>5. k = r /\ l = r BY <2>0, <4>2, <4>3, <4>4 DEF Reserves, Fits
      <4>6. a.contender = c.contender BY <4>3, <4>4, <4>5 DEF Fits
      <4>. QED BY <3>1, <3>2, <3>4, <4>6
    <3>. QED BY <2>3, <3>5, <3>6
  <2>. QED BY <2>1, <2>2, <2>3 DEF Waits
<1>20. Clock(e, Elements(ws))
  <2>1. Clock(x, Queue(x)) BY DEF Partway
  <2>2. \A b \in Elements(ws) : \E a \in Queue(x) : b.sequence = a.sequence BY <1>6, <1>10
  <2>3. \A s \in Sessions : e.lifecycles[s] # None =>
           x.lifecycles[s] # None /\ e.lifecycles[s].lastUse = x.lifecycles[s].lastUse
    BY <1>13
  <2>. QED BY <1>4, <2>1, <2>2, <2>3 DEF Clock
<1>21. Partway(e, Elements(ws))
  <2>1. Elements(ws) \subseteq Queued BY <1>6, <1>10
  <2>2. Sorted(e.waiters) BY <1>4 DEF Sorted
  <2>. QED BY <1>14, <1>16, <1>17, <1>18, <1>19, <1>20, <2>1, <2>2 DEF Partway
<1>22. \A s \in Sessions : s # r.victim /\ x.lifecycles[s] # None => e.lifecycles[s] # None
  BY <1>13 DEF v
<1>23. /\ e.waiters = <<>> /\ e.live = x.live \ {r.victim} /\ e.nextManagerEvent = x.nextManagerEvent
       /\ e.reservations \subseteq x.reservations
  BY <1>4 DEF v
<1>. QED BY <1>7, <1>8, <1>9, <1>12, <1>15, <1>21, <1>22, <1>23 DEF ws, e, n

\* What an eviction that succeeded does: the queue is shorter, no READY victim is
\* reserved, only a victim loses slot or record, and the slots went to the first.
Keeps(x, y, s) == (s \in x.live => s \in y.live) /\ (x.lifecycles[s] # None => y.lifecycles[s] # None)
Turnover(x, y) ==
    /\ Partway(y, {}) /\ Len(y.waiters) < Len(x.waiters) /\ y.nextManagerEvent = x.nextManagerEvent
    /\ \A k \in y.reservations : k \in x.reservations \/ k.prior # Ready
    /\ \A s \in Sessions : Keeps(x, y, s) \/ \E r \in x.reservations : r.victim = s
    /\ \A i, j \in 1..Len(x.waiters) :
          i < j /\ x.waiters[j].contender \in y.live \ x.live => x.waiters[i].contender \in y.live

\* CompleteEviction with success: releaseVictimSlot, then reprocessWaiters.
LEMMA SuccessStep ==
    ASSUME NEW x, Partway(x, {}), NEW r \in x.reservations,
           NEW y, y = reprocessWaiters(releaseVictimSlot(x, r))
    PROVE  Turnover(x, y)
<1>. DEFINE f == releaseVictimSlot(x, r)
            ws == f.waiters
            e == Emptied(f)
            n == Len(x.waiters)
<1>1. /\ ws \in Seq(Queued) /\ Sorted(ws) /\ Len(ws) = n
      /\ \A i \in 1..n : ws[i].contender = x.waiters[i].contender
      /\ n # 0
      /\ e.waiters = <<>> /\ Partway(e, Elements(ws))
      /\ Cardinality(e.live) < MaxSessions
      /\ e.live = x.live \ {r.victim}
      /\ e.nextManagerEvent = x.nextManagerEvent
      /\ e.reservations \subseteq x.reservations
      /\ \A s \in Sessions : s # r.victim /\ x.lifecycles[s] # None => e.lifecycles[s] # None
  BY ReleaseStep
<1>2. InOrder(ws) = ws BY <1>1, InOrderSorted
<1>3. y = Looked(f, ws)[Len(ws)] BY <1>2 DEF reprocessWaiters
<1>4. Served(e, ws, Len(ws), Looked(f, ws)[Len(ws)])
  <2>1. e = Emptied(f) OBVIOUS
  <2>. HIDE DEF e, ws, f, n
  <2>. QED BY <1>1, <2>1, ServeAll
<1>. HIDE DEF f, ws, e, n
<1>5. Served(e, ws, n, y) BY <1>1, <1>3, <1>4
<1>6. n \in Nat
  <2>1. ws \in Seq(Queued) /\ Len(ws) = n BY <1>1
  <2>. QED BY <2>1, LenProperties
<1>7. Rest(ws, n) = {} BY <1>1, <1>6 DEF Rest
<1>8. Partway(y, {}) /\ Onward(e, y) /\ Len(y.waiters) <= n - 1 BY <1>1, <1>5, <1>7 DEF Served
<1>9. Len(y.waiters) < n
  <2>1. y.waiters \in Seq(Queued) BY <1>8 DEF Partway, Manager
  <2>2. Len(y.waiters) \in Nat BY <2>1, LenProperties
  <2>. QED BY <1>6, <1>8, <2>2
<1>10. \A k \in y.reservations : k \in x.reservations \/ k.prior # Ready BY <1>1, <1>8 DEF Onward
<1>11. \A s \in Sessions : Keeps(x, y, s) \/ \E k \in x.reservations : k.victim = s
  BY <1>1, <1>8 DEF Onward, Keeps
<1>12. ASSUME NEW i \in 1..n, NEW j \in 1..n, i < j, x.waiters[j].contender \in y.live \ x.live
       PROVE  x.waiters[i].contender \in y.live
  <2>1. ws[j].contender \in y.live \ e.live BY <1>1, <1>12
  <2>2. PICK k \in 1..n : ws[k].contender = ws[j].contender /\ \A h \in 1..k : ws[h].contender \in y.live
    BY <1>5, <2>1 DEF Served
  <2>3. ws[k] = ws[j]
    <3>1. ws[k] \in Elements(ws) /\ ws[j] \in Elements(ws) BY <1>1 DEF Elements
    <3>. QED BY <1>1, <2>2, <3>1 DEF Partway, Waits
  <2>4. ws[j].sequence \in Int
    <3>1. ws[j] \in Queued BY <1>1, ElementOfSeq
    <3>. QED BY <3>1, AdmissionConstants DEF Queued
  <2>5. k = j
    <3>1. ~(k < j) /\ ~(j < k) BY <1>1, <2>3, <2>4 DEF Sorted
    <3>. QED BY <1>6, <3>1
  <2>6. i \in 1..k BY <1>6, <1>12, <2>5
  <2>. QED BY <1>1, <2>2, <2>6
<1>13. y.nextManagerEvent = x.nextManagerEvent BY <1>1, <1>8 DEF Onward
<1>. QED BY <1>8, <1>9, <1>10, <1>11, <1>12, <1>13 DEF Turnover, n

\* The queue without its c-th waiter.
LEMMA Without ==
    ASSUME NEW q \in Seq(Queued), Sorted(q), NEW c \in 1..Len(q), NEW p, p = RemoveAt(q, c)
    PROVE  /\ p \in Seq(Queued) /\ Len(p) = Len(q) - 1 /\ Sorted(p)
           /\ Elements(p) = Elements(q) \ {q[c]}
<1>. DEFINE n == Len(q)
<1>1. n \in Nat BY LenProperties
<1>2. /\ p \in Seq(Queued) /\ Len(p) = n - 1
      /\ \A k \in 1..(n - 1) : p[k] = IF k < c THEN q[k] ELSE q[k + 1]
  BY RemoveOne
<1>3. \A k \in 1..n : q[k].sequence \in Int
  <2>1. \A k \in 1..n : q[k] \in Queued BY ElementOfSeq
  <2>. QED BY <2>1, AdmissionConstants DEF Queued
<1>4. \A i, j \in 1..n : i < j => q[i].sequence < q[j].sequence BY DEF Sorted
<1>5. c \in 1..n OBVIOUS
<1>. DEFINE old(k) == IF k < c THEN k ELSE k + 1
<1>6. \A k \in 1..(n - 1) : old(k) \in 1..n /\ old(k) # c /\ p[k] = q[old(k)] BY <1>1, <1>2, <1>5
<1>7. \A i, j \in 1..(n - 1) : i < j => old(i) < old(j) BY <1>1, <1>5
<1>8. \A h \in 1..n : h # c => \E k \in 1..(n - 1) : old(k) = h
  <2>. TAKE h \in 1..n
  <2>. HAVE h # c
  <2>1. CASE h < c
    <3>1. h \in 1..(n - 1) /\ old(h) = h BY <1>1, <1>5, <2>1
    <3>. QED BY <3>1
  <2>2. CASE ~(h < c)
    <3>1. h - 1 \in 1..(n - 1) /\ old(h - 1) = h BY <1>1, <1>5, <2>2
    <3>. QED BY <3>1
  <2>. QED BY <2>1, <2>2
<1>. HIDE DEF n, old
<1>9. Sorted(p) BY <1>2, <1>4, <1>6, <1>7 DEF Sorted
<1>10. \A i, j \in 1..n : q[i] = q[j] => i = j
  <2>. TAKE i, j \in 1..n
  <2>1. i < j \/ j < i \/ i = j BY <1>1
  <2>. QED BY <1>3, <1>4, <2>1
<1>11. Elements(p) = {p[k] : k \in 1..(n - 1)} /\ Elements(q) = {q[k] : k \in 1..n} BY <1>2 DEF Elements, n
<1>12. ASSUME NEW a \in Elements(p) PROVE a \in Elements(q) \ {q[c]}
  BY <1>5, <1>6, <1>10, <1>11
<1>13. ASSUME NEW a \in Elements(q), a # q[c] PROVE a \in Elements(p)
  <2>1. PICK h \in 1..n : a = q[h] BY <1>11
  <2>2. PICK k \in 1..(n - 1) : old(k) = h BY <1>8, <1>13, <2>1
  <2>. QED BY <1>6, <1>11, <2>1, <2>2
<1>14. Elements(p) = Elements(q) \ {q[c]} BY <1>12, <1>13
<1>. QED BY <1>2, <1>9, <1>14 DEF n

-----------------------------------------------------------------------------
\* The operations.

\* EvictionFailed, for any manager.
Failed(x, r) ==
    [x EXCEPT !.reservations = @ \ {r},
              !.waiters = removeWaiter(@, r.contender),
              !.lifecycles[r.victim] = [@ EXCEPT !.state = Poisoned, !.incumbent = None],
              !.reserved = @ \ {r.victim},
              !.quarantined = @ \cup {r.victim}]

\* What an eviction that failed does: its waiter is gone and no slot changes hands.
Abandoned(x, y) ==
    /\ Partway(y, {}) /\ Len(y.waiters) < Len(x.waiters) /\ y.nextManagerEvent = x.nextManagerEvent
    /\ y.reservations \subseteq x.reservations /\ y.live = x.live
    /\ y.nextReservation = x.nextReservation
    /\ \A s \in Sessions : Keeps(x, y, s)

\* CompleteEviction with failure.
LEMMA FailStep ==
    ASSUME NEW x, Partway(x, {}), NEW r \in x.reservations, NEW y, y = Failed(x, r)
    PROVE  Abandoned(x, y)
<1>. DEFINE v == r.victim
            q == x.waiters
            n == Len(q)
            l == x.lifecycles[v]
            d == [l EXCEPT !.state = Poisoned, !.incumbent = None]
<1>1. x \in Manager /\ q \in Seq(Queued) /\ n \in Nat /\ DOMAIN q = 1..n
  <2>1. x \in Manager BY DEF Partway
  <2>2. q \in Seq(Queued) BY <2>1 DEF Manager
  <2>. QED BY <2>1, <2>2, LenProperties
<1>2. /\ v \in Sessions /\ r.contender \in Sessions /\ r.id \in Nat \ {0}
      /\ v \in x.live /\ v \in x.reserved /\ Sound(x, r) /\ l \in Lifecycle
  BY <1>1, ReservationSound DEF Partway, Sound
<1>3. Waits(x, Queue(x)) /\ Clock(x, Queue(x)) /\ Reserves(x) /\ Slots(x) /\ Sorted(q) BY DEF Partway
<1>. DEFINE at == {i \in DOMAIN q : q[i].contender = r.contender}
<1>4. at # {} /\ at \subseteq 1..n
  <2>1. PICK a \in Queue(x) : Fits(r, a) BY <1>3 DEF Waits
  <2>2. PICK i \in 1..n : q[i] = a BY <2>1 DEF Queue, Elements
  <2>3. i \in at BY <1>1, <2>1, <2>2 DEF Fits
  <2>. QED BY <1>1, <2>3
<1>. DEFINE c == Min(at)
<1>5. c \in at
  <2>. HIDE DEF at
  <2>1. at \subseteq Nat BY <1>1, <1>4
  <2>2. \E k \in at : \A j \in at : k <= j BY <1>4, <2>1, LeastNatural
  <2>. QED BY <2>2 DEF Min
<1>6. removeWaiter(q, r.contender) = RemoveAt(q, c) BY <1>4 DEF removeWaiter
<1>7. c \in 1..n /\ q[c].contender = r.contender /\ q[c] \in Queue(x)
  BY <1>1, <1>5 DEF Queue, Elements
<1>8. d \in Lifecycle /\ d.incumbent = None /\ d.lastUse = l.lastUse
  BY <1>2 DEF Lifecycle, State, Poisoned
<1>9. /\ y.live = x.live /\ y.quarantined = x.quarantined \cup {v} /\ y.reserved = x.reserved \ {v}
      /\ y.reservations = x.reservations \ {r} /\ y.waiters = removeWaiter(q, r.contender)
      /\ y.nextManagerEvent = x.nextManagerEvent /\ y.nextReservation = x.nextReservation
      /\ y.lifecycles = [x.lifecycles EXCEPT ![v] = d]
      /\ y = [lifecycles |-> y.lifecycles, live |-> y.live, reserved |-> y.reserved,
              quarantined |-> y.quarantined, reservations |-> y.reservations, waiters |-> y.waiters,
              nextManagerEvent |-> y.nextManagerEvent, nextReservation |-> y.nextReservation]
  BY <1>1 DEF Failed, Manager
<1>. HIDE DEF at, c, d, l, n, q, v
<1>10. /\ y.waiters \in Seq(Queued) /\ Len(y.waiters) = n - 1 /\ Sorted(y.waiters)
       /\ Elements(y.waiters) = Elements(q) \ {q[c]}
  <2>1. y.waiters = RemoveAt(q, c) BY <1>6, <1>9
  <2>2. PICK p : p = RemoveAt(q, c) OBVIOUS
  <2>3. c \in 1..Len(q) BY <1>7 DEF n
  <2>4. /\ p \in Seq(Queued) /\ Len(p) = Len(q) - 1 /\ Sorted(p)
        /\ Elements(p) = Elements(q) \ {q[c]}
    BY <1>1, <1>3, <2>2, <2>3, Without
  <2>. QED BY <2>1, <2>2, <2>4 DEF n
<1>11. /\ y.lifecycles \in [Sessions -> Lifecycle \cup {None}] /\ y.lifecycles[v] = d
       /\ \A s \in Sessions : s # v => y.lifecycles[s] = x.lifecycles[s]
  BY <1>1, <1>2, <1>8, <1>9 DEF Manager
<1>12. y \in Manager BY <1>1, <1>2, <1>9, <1>10, <1>11 DEF Manager
<1>13. Slots(y)
  <2>1. x.live \subseteq Sessions BY <1>1 DEF Manager
  <2>2. \A s \in y.live : y.lifecycles[s] # None BY <1>3, <1>8, <1>9, <1>11, <2>1, NilIsNone DEF Slots
  <2>. QED BY <1>2, <1>3, <1>9, <2>2 DEF Slots
<1>14. Reserves(y)
  <2>1. ~Evicting(y, v) BY <1>8, <1>11 DEF Evicting
  <2>2. \A s \in Sessions : s # v =>
           y.lifecycles[s] = x.lifecycles[s] /\ (s \in y.quarantined => s \in x.quarantined)
    BY <1>9, <1>11
  <2>3. /\ y.reservations = x.reservations \ {r} /\ y.reserved = x.reserved \ {r.victim}
        /\ y.nextReservation = x.nextReservation /\ ~Evicting(y, r.victim)
        /\ \A s \in Sessions : s # r.victim =>
             y.lifecycles[s] = x.lifecycles[s] /\ (s \in y.quarantined => s \in x.quarantined)
    BY <1>9, <2>1, <2>2 DEF v
  <2>. QED BY <1>1, <1>3, <2>3, Unreserved
<1>15. Queue(y) = Queue(x) \ {q[c]} BY <1>10 DEF Queue, q
<1>16. Waits(y, Queue(y))
  <2>1. ASSUME NEW a \in Queue(y), a.reservation # 0 PROVE \E k \in y.reservations : Fits(k, a)
    <3>1. a \in Queue(x) /\ a # q[c] BY <1>15
    <3>2. PICK k \in x.reservations : Fits(k, a) BY <1>3, <2>1, <3>1 DEF Waits
    <3>3. a.contender # q[c].contender BY <1>3, <1>7, <3>1 DEF Waits
    <3>4. k # r BY <1>7, <3>2, <3>3 DEF Fits
    <3>. QED BY <1>9, <3>2, <3>4
  <2>2. ASSUME NEW k \in y.reservations PROVE \E a \in Queue(y) : Fits(k, a)
    <3>1. k \in x.reservations /\ k # r /\ k.contender # r.contender BY <1>3, <1>9 DEF Reserves
    <3>2. PICK a \in Queue(x) : Fits(k, a) BY <1>3, <3>1 DEF Waits
    <3>3. a # q[c] BY <1>7, <3>1, <3>2 DEF Fits
    <3>. QED BY <1>15, <3>2, <3>3
  <2>. QED BY <1>3, <1>15, <2>1, <2>2 DEF Waits
<1>17. Clock(y, Queue(y))
  <2>1. \A s \in Sessions : y.lifecycles[s] # None =>
           x.lifecycles[s] # None /\ y.lifecycles[s].lastUse = x.lifecycles[s].lastUse
    BY <1>2, <1>3, <1>8, <1>11 DEF Slots, l
  <2>2. \A a \in Queue(y) : a \in Queue(x) BY <1>15
  <2>. QED BY <1>3, <1>9, <2>1, <2>2 DEF Clock
<1>18. Partway(y, {})
  <2>1. \A a \in Queue(y) : a.reservation # 0 BY <1>15 DEF Partway
  <2>. QED BY <1>10, <1>12, <1>13, <1>14, <1>16, <1>17, <2>1 DEF Partway
<1>19. \A s \in Sessions : Keeps(x, y, s)
  BY <1>8, <1>9, <1>11, NilIsNone DEF Keeps
<1>20. Len(y.waiters) < Len(x.waiters) BY <1>1, <1>10 DEF n, q
<1>. QED BY <1>9, <1>18, <1>19, <1>20 DEF Abandoned

\* A stopped and reaped session gives up its slot and keeps its record.
GivesUp(x, y, s) ==
    /\ x.lifecycles[s].state = Stopped /\ x.lifecycles[s].reaped /\ x.lifecycles[s].incumbent = None
    /\ y.lifecycles[s] = x.lifecycles[s]

\* What a step may do, all four properties in one: the queue keeps its bound, only
\* a victim or who gives it up loses a slot, a freed slot goes to the first waiter, a READY
\* victim is the last resort, and the end of an eviction is the end of a wait.
Lawful(x, y) ==
    /\ Partway(y, {}) /\ Len(y.waiters) <= MaxSessions
    /\ \A s \in Sessions : Keeps(x, y, s) \/ GivesUp(x, y, s) \/ \E r \in x.reservations : r.victim = s
    /\ y.nextManagerEvent = x.nextManagerEvent =>
          \A i, j \in 1..Len(x.waiters) :
             i < j /\ x.waiters[j].contender \in y.live \ x.live => x.waiters[i].contender \in y.live
    /\ \A k \in y.reservations \ x.reservations : k.prior = Ready =>
          \A s \in y.live : evictionClass(y, s) # 0
    /\ x.reservations \ y.reservations # {} => Len(y.waiters) < Len(x.waiters)

\* A step that leaves waiters and reservations alone.
LEMMA QuietStep ==
    ASSUME NEW x, Partway(x, {}), Len(x.waiters) <= MaxSessions, NEW y, Partway(y, {}),
           y.waiters = x.waiters, y.reservations = x.reservations, y.reserved = x.reserved,
           y.nextManagerEvent = x.nextManagerEvent => y.live \subseteq x.live,
           \A s \in Sessions : Keeps(x, y, s) \/ GivesUp(x, y, s)
    PROVE  Lawful(x, y)
BY DEF Lawful

\* The record of s is rewritten and nothing else changes.
Rewritten(x, s, l) == [x EXCEPT !.lifecycles[s] = l]

\* Such a step is lawful if it leaves the last use and a reserved victim's intent
\* as they are and makes no EVICT intent.
LEMMA RewriteStep ==
    ASSUME NEW x, Partway(x, {}), Len(x.waiters) <= MaxSessions,
           NEW s \in Sessions, x.lifecycles[s] # None, NEW l \in Lifecycle,
           l.lastUse = x.lifecycles[s].lastUse,
           s \in x.reserved => /\ l.incumbent = x.lifecycles[s].incumbent
                               /\ l.hasWork = x.lifecycles[s].hasWork
                               /\ l.reaped = x.lifecycles[s].reaped,
           s \notin x.reserved => l.incumbent = None \/ l.incumbent.kind # "EVICT",
           NEW y, y = Rewritten(x, s, l)
    PROVE  Lawful(x, y) /\ y.nextReservation = x.nextReservation
<1>1. x \in Manager BY DEF Partway
<1>2. /\ y.live = x.live /\ y.quarantined = x.quarantined /\ y.waiters = x.waiters
      /\ y.nextManagerEvent = x.nextManagerEvent /\ y.nextReservation = x.nextReservation
      /\ y.reserved = x.reserved /\ y.reservations = x.reservations
      /\ y.lifecycles = [x.lifecycles EXCEPT ![s] = l]
      /\ y = [lifecycles |-> y.lifecycles, live |-> y.live, reserved |-> y.reserved,
              quarantined |-> y.quarantined, reservations |-> y.reservations, waiters |-> y.waiters,
              nextManagerEvent |-> y.nextManagerEvent, nextReservation |-> y.nextReservation]
  BY <1>1 DEF Manager, Rewritten
<1>3. /\ y.lifecycles[s] = l /\ \A t \in Sessions : t # s => y.lifecycles[t] = x.lifecycles[t]
      /\ y.lifecycles \in [Sessions -> Lifecycle \cup {None}]
  BY <1>1, <1>2 DEF Manager
<1>4. y \in Manager BY <1>1, <1>2, <1>3 DEF Manager
<1>5. Slots(y) BY <1>1, <1>2, <1>3, NilIsNone DEF Partway, Slots, Manager
<1>6. s \notin x.reserved => ~Evicting(y, s) BY <1>3 DEF Evicting
<1>7. /\ y.lifecycles[s].lastUse <= y.nextManagerEvent
      /\ \A t \in Sessions \ {s} : x.lifecycles[t] # None =>
            x.lifecycles[t].lastUse # y.lifecycles[s].lastUse
      /\ \A w \in Queue(x) \cup {} : w.sequence # y.lifecycles[s].lastUse
  <2>1. Clock(x, Queue(x) \cup {}) BY DEF Partway
  <2>. QED BY <1>2, <1>3, <2>1 DEF Clock
<1>8. x.nextManagerEvent <= y.nextManagerEvent BY <1>1, <1>2, AdmissionConstants DEF Manager
<1>9. Partway(y, {})
  BY <1>2, <1>3, <1>4, <1>5, <1>6, <1>7, <1>8, OneRecord
<1>10. \A t \in Sessions : Keeps(x, y, t) BY <1>2, <1>3, NilIsNone DEF Keeps
<1>11. Lawful(x, y) BY <1>2, <1>9, <1>10, QuietStep
<1>. QED BY <1>2, <1>11

\* The next manager sequence number is nobody's.
LEMMA Unused ==
    ASSUME NEW x, Partway(x, {}), NEW e, e = x.nextManagerEvent + 1, e <= MaxEvents
    PROVE  /\ x.nextManagerEvent \in Nat /\ e \in 1..MaxEvents /\ e \in 0..MaxEvents
           /\ x.nextManagerEvent <= e /\ e # x.nextManagerEvent
           /\ \A t \in Sessions : x.lifecycles[t] # None => x.lifecycles[t].lastUse # e
           /\ \A w \in Queue(x) : w \in Queued /\ w.sequence < e
<1>1. x \in Manager /\ x.waiters \in Seq(Queued) BY DEF Partway, Manager
<1>2. x.nextManagerEvent \in Nat /\ MaxEvents \in Nat BY <1>1, AdmissionConstants DEF Manager
<1>3. ASSUME NEW t \in Sessions, x.lifecycles[t] # None PROVE x.lifecycles[t].lastUse # e
  <2>1. x.lifecycles[t] \in Lifecycle BY <1>1, <1>3, Records
  <2>2. x.lifecycles[t].lastUse \in Int BY <2>1, <1>2 DEF Lifecycle
  <2>3. x.lifecycles[t].lastUse <= x.nextManagerEvent BY <1>3 DEF Partway, Clock
  <2>. QED BY <1>2, <2>2, <2>3
<1>4. ASSUME NEW w \in Queue(x) PROVE w \in Queued /\ w.sequence < e
  <2>1. w \in Queued BY <1>1, ElementOfSeq DEF Queue, Elements
  <2>2. w.sequence <= x.nextManagerEvent BY DEF Partway, Clock
  <2>3. w.sequence \in Int BY <1>2, <2>1 DEF Queued
  <2>. QED BY <1>2, <2>1, <2>2, <2>3
<1>. QED BY <1>2, <1>3, <1>4

\* What is known of the manager before a step.
LEMMA KnownBefore ==
    ASSUME AdmissionInv
    PROVE  /\ Partway(m, {}) /\ Len(m.waiters) <= MaxSessions /\ m \in Manager
           /\ m.nextReservation \in Nat /\ m.nextReservation <= MaxReservations
           /\ m.live \subseteq Sessions /\ m.reserved \subseteq m.live /\ m.quarantined \subseteq m.live
           /\ \A s \in m.reserved : Lc(s) # None /\ Lc(s).incumbent # None /\ Lc(s).incumbent.kind = "EVICT"
           /\ \A s \in m.live : Lc(s) # None
<1>1. Partway(m, {}) /\ Len(m.waiters) <= MaxSessions /\ m.nextReservation <= MaxReservations
  BY DEF AdmissionInv
<1>2. m \in Manager /\ Slots(m) /\ Reserves(m) BY <1>1 DEF Partway
<1>3. ASSUME NEW s \in m.reserved
      PROVE  Lc(s) # None /\ Lc(s).incumbent # None /\ Lc(s).incumbent.kind = "EVICT"
  <2>1. PICK k \in m.reservations : k.victim = s BY <1>2 DEF Reserves
  <2>2. Sound(m, k) BY <1>2, ReservationSound
  <2>. QED BY <2>1, <2>2 DEF Sound, Lc
<1>. QED BY <1>1, <1>2, <1>3 DEF Manager, Slots, Lc

\* A step at the next sequence number e that gives session s the record l, and
\* perhaps a slot.
Stamped(x, L, s, l, e) == [x EXCEPT !.nextManagerEvent = e, !.live = L, !.lifecycles[s] = l]

\* Such a step is lawful.
LEMMA StampStep ==
    ASSUME NEW x, Partway(x, {}), Len(x.waiters) <= MaxSessions, NEW s \in Sessions, NEW l \in Lifecycle,
           NEW e, e = x.nextManagerEvent + 1, e <= MaxEvents,
           NEW L, L = x.live \/ L = x.live \cup {s}, IsFiniteSet(L), Cardinality(L) <= MaxSessions,
           l.lastUse = e \/ (x.lifecycles[s] # None /\ l = x.lifecycles[s]),
           s \in x.reserved => /\ l.incumbent = x.lifecycles[s].incumbent
                               /\ l.hasWork = x.lifecycles[s].hasWork
                               /\ l.reaped = x.lifecycles[s].reaped,
           s \notin x.reserved => l.incumbent = None \/ l.incumbent.kind # "EVICT",
           NEW y, y = Stamped(x, L, s, l, e)
    PROVE  Lawful(x, y) /\ y.nextReservation = x.nextReservation
<1>1. x \in Manager /\ x.live \subseteq L /\ L \subseteq Sessions /\ Slots(x) BY DEF Partway, Manager
<1>2. /\ x.nextManagerEvent \in Nat /\ e \in 1..MaxEvents /\ e \in 0..MaxEvents
      /\ x.nextManagerEvent <= e /\ e # x.nextManagerEvent
      /\ \A t \in Sessions : x.lifecycles[t] # None => x.lifecycles[t].lastUse # e
      /\ \A w \in Queue(x) : w \in Queued /\ w.sequence < e
  BY Unused
<1>3. /\ y.live = L /\ y.quarantined = x.quarantined /\ y.waiters = x.waiters
      /\ y.nextManagerEvent = e /\ y.nextReservation = x.nextReservation
      /\ y.reserved = x.reserved /\ y.reservations = x.reservations
      /\ y.lifecycles = [x.lifecycles EXCEPT ![s] = l]
      /\ y = [lifecycles |-> y.lifecycles, live |-> y.live, reserved |-> y.reserved,
              quarantined |-> y.quarantined, reservations |-> y.reservations, waiters |-> y.waiters,
              nextManagerEvent |-> y.nextManagerEvent, nextReservation |-> y.nextReservation]
  BY <1>1 DEF Manager, Stamped
<1>4. /\ y.lifecycles[s] = l /\ \A t \in Sessions : t # s => y.lifecycles[t] = x.lifecycles[t]
      /\ y.lifecycles \in [Sessions -> Lifecycle \cup {None}]
  BY <1>1, <1>3 DEF Manager
<1>5. y \in Manager BY <1>1, <1>2, <1>3, <1>4 DEF Manager
<1>6. Slots(y)
  <2>1. \A t \in y.live : y.lifecycles[t] # None BY <1>1, <1>3, <1>4, NilIsNone DEF Slots
  <2>. QED BY <1>1, <1>3, <2>1 DEF Slots
<1>7. s \notin x.reserved => ~Evicting(y, s) BY <1>4 DEF Evicting
<1>8. /\ y.lifecycles[s].lastUse <= y.nextManagerEvent
      /\ \A t \in Sessions \ {s} : x.lifecycles[t] # None =>
            x.lifecycles[t].lastUse # y.lifecycles[s].lastUse
      /\ \A w \in Queue(x) \cup {} : w.sequence # y.lifecycles[s].lastUse
  <2>1. CASE l.lastUse = e
    <3>1. \A w \in Queue(x) : w.sequence \in Int BY <1>2, AdmissionConstants DEF Queued
    <3>2. \A w \in Queue(x) : w.sequence # e BY <1>2, <3>1
    <3>. QED BY <1>2, <1>3, <1>4, <2>1, <3>2
  <2>2. CASE x.lifecycles[s] # None /\ l = x.lifecycles[s]
    <3>1. Clock(x, Queue(x) \cup {}) BY DEF Partway
    <3>2. l.lastUse \in Int /\ l.lastUse <= x.nextManagerEvent
      BY <2>2, <3>1, AdmissionConstants DEF Clock, Lifecycle
    <3>3. l.lastUse <= e BY <1>2, <3>2
    <3>. QED BY <1>3, <1>4, <2>2, <3>1, <3>3 DEF Clock
  <2>. QED BY <2>1, <2>2
<1>9. Partway(y, {})
  BY <1>2, <1>3, <1>4, <1>5, <1>6, <1>7, <1>8, OneRecord
<1>10. \A t \in Sessions : Keeps(x, y, t) BY <1>1, <1>3, <1>4, NilIsNone DEF Keeps
<1>11. Lawful(x, y) BY <1>2, <1>3, <1>9, <1>10, QuietStep
<1>. QED BY <1>3, <1>11

\* RegisterLifecycle: a record that no slot has.
LEMMA RegisterStep ==
    ASSUME AdmissionInv, NEW s \in Sessions, RegisterLifecycle(s)
    PROVE  Lawful(m, m') /\ m'.nextReservation <= MaxReservations
<1>. DEFINE e == m.nextManagerEvent + 1
            f == Fresh(e)
            l == [f EXCEPT !.state = Initializing, !.reaped = FALSE]
<1>1. /\ Partway(m, {}) /\ Len(m.waiters) <= MaxSessions /\ m \in Manager
      /\ m.nextReservation \in Nat /\ m.nextReservation <= MaxReservations
      /\ m.live \subseteq Sessions /\ m.reserved \subseteq m.live
      /\ \A t \in m.live : Lc(t) # None
  BY KnownBefore
<1>2. e <= MaxEvents /\ e \in 1..MaxEvents
  <2>1. e <= MaxEvents BY DEF RegisterLifecycle, NextEvent
  <2>. QED BY <1>1, <2>1, AdmissionConstants DEF Manager
<1>3. l \in Lifecycle /\ l.incumbent = None /\ l.lastUse = e
  <2>1. f \in Lifecycle /\ f.incumbent = None /\ f.lastUse = e
    BY <1>2, AdmissionConstants DEF Fresh, Lifecycle, State
  <2>. HIDE DEF f
  <2>2. Initializing \in State BY DEF State
  <2>. QED BY <2>1, <2>2 DEF Lifecycle
<1>4. m' = Stamped(m, m.live, s, l, e)
  <2>1. m' = [m EXCEPT !.nextManagerEvent = e, !.lifecycles[s] = l] BY DEF RegisterLifecycle, NextEvent
  <2>. HIDE DEF l, e
  <2>. QED BY <1>1, <2>1 DEF Stamped, Manager
<1>5. s \notin m.reserved BY <1>1 DEF RegisterLifecycle
<1>6. IsFiniteSet(m.live) /\ Cardinality(m.live) <= MaxSessions BY <1>1 DEF Partway, Slots
<1>7. e = m.nextManagerEvent + 1 OBVIOUS
<1>. HIDE DEF l, e
<1>8. PICK y, L : y = m' /\ L = m.live OBVIOUS
<1>9. Lawful(m, y) /\ y.nextReservation = m.nextReservation
  BY <1>1, <1>2, <1>3, <1>4, <1>5, <1>6, <1>7, <1>8, StampStep
<1>. QED BY <1>1, <1>8, <1>9

\* Admit of a live session, or to a free slot.
LEMMA SeatStep ==
    ASSUME AdmissionInv, NEW s \in Sessions, NextEvent <= MaxEvents,
           NEW l \in Lifecycle, NEW L,
           \/ /\ s \in m.live /\ L = m.live /\ l = [Lc(s) EXCEPT !.lastUse = NextEvent]
           \/ /\ s \notin m.live /\ Cardinality(m.live) < MaxSessions /\ L = m.live \cup {s}
              /\ l = IF Lc(s) = None THEN Fresh(NextEvent) ELSE Lc(s),
           m' = Stamped(m, L, s, l, NextEvent)
    PROVE  Lawful(m, m') /\ m'.nextReservation <= MaxReservations
<1>. DEFINE e == NextEvent
<1>1. /\ Partway(m, {}) /\ Len(m.waiters) <= MaxSessions /\ m \in Manager
      /\ m.nextReservation \in Nat /\ m.nextReservation <= MaxReservations
      /\ m.live \subseteq Sessions /\ m.reserved \subseteq m.live
      /\ \A t \in m.live : Lc(t) # None
  BY KnownBefore
<1>2. e = m.nextManagerEvent + 1 /\ e <= MaxEvents BY DEF NextEvent
<1>3. IsFiniteSet(m.live) /\ Cardinality(m.live) <= MaxSessions /\ Cardinality(m.live) \in Nat
  <2>1. IsFiniteSet(m.live) /\ Cardinality(m.live) <= MaxSessions BY <1>1 DEF Partway, Slots
  <2>. QED BY <2>1, FS_CardinalityType
<1>. HIDE DEF e
<1>4. m' = Stamped(m, L, s, l, e) BY DEF e
<1>5. CASE s \in m.live /\ L = m.live /\ l = [Lc(s) EXCEPT !.lastUse = NextEvent]
  <2>1. Lc(s) \in Lifecycle BY <1>1, <1>5, Records DEF Lc
  <2>2. /\ l.lastUse = e /\ l.incumbent = Lc(s).incumbent /\ l.hasWork = Lc(s).hasWork
        /\ l.reaped = Lc(s).reaped
    BY <1>5, <2>1 DEF Lifecycle, e
  <2>3. s \notin m.reserved => l.incumbent = None \/ l.incumbent.kind # "EVICT"
    <3>. HAVE s \notin m.reserved
    <3>1. ~Evicting(m, s) BY <1>1 DEF Partway, Reserves
    <3>. QED BY <1>1, <1>5, <2>2, <3>1 DEF Evicting, Lc
  <2>4. /\ l.incumbent = m.lifecycles[s].incumbent /\ l.hasWork = m.lifecycles[s].hasWork
        /\ l.reaped = m.lifecycles[s].reaped
    BY <2>2 DEF Lc
  <2>5. PICK y : y = m' OBVIOUS
  <2>6. /\ l.lastUse = e \/ (m.lifecycles[s] # None /\ l = m.lifecycles[s])
        /\ L = m.live \/ L = m.live \cup {s}
        /\ IsFiniteSet(L) /\ Cardinality(L) <= MaxSessions
        /\ y = Stamped(m, L, s, l, e)
    BY <1>3, <1>4, <1>5, <2>2, <2>5
  <2>7. Lawful(m, y) /\ y.nextReservation = m.nextReservation
    BY <1>1, <1>2, <2>3, <2>4, <2>6, StampStep
  <2>. QED BY <1>1, <2>5, <2>7
<1>6. CASE /\ s \notin m.live /\ Cardinality(m.live) < MaxSessions /\ L = m.live \cup {s}
           /\ l = IF Lc(s) = None THEN Fresh(NextEvent) ELSE Lc(s)
  <2>1. /\ IsFiniteSet(m.live \cup {s})
        /\ Cardinality(m.live \cup {s}) = IF s \in m.live THEN Cardinality(m.live) ELSE Cardinality(m.live) + 1
    BY <1>3, FS_AddElement
  <2>2. IsFiniteSet(L) /\ Cardinality(L) <= MaxSessions BY <1>3, <1>6, <2>1, AdmissionConstants
  <2>3. l.lastUse = e \/ (m.lifecycles[s] # None /\ l = m.lifecycles[s])
    BY <1>6 DEF Fresh, e, Lc
  <2>4. s \notin m.reserved BY <1>1, <1>6
  <2>5. l.incumbent = None \/ l.incumbent.kind # "EVICT"
    <3>1. ~Evicting(m, s) BY <1>1, <2>4 DEF Partway, Reserves
    <3>. QED BY <1>6, <3>1 DEF Evicting, Lc, Fresh
  <2>6. Lawful(m, m') /\ m'.nextReservation = m.nextReservation
    BY <1>1, <1>2, <1>4, <1>6, <2>2, <2>3, <2>4, <2>5, StampStep
  <2>. QED BY <1>1, <2>6
<1>. QED BY <1>5, <1>6

\* Admit with no slot free: a victim is reserved.
LEMMA QueueStep ==
    ASSUME NEW x, Partway(x, {}), NEW s \in Sessions, NEW e, e = x.nextManagerEvent + 1, e <= MaxEvents,
           \A w \in Queue(x) : w.contender # s, Len(x.waiters) < MaxSessions, Victims(x) # {},
           NEW z, z = [x EXCEPT !.nextManagerEvent = e],
           NEW w, w = [contender |-> s, sequence |-> e, reservation |-> 0],
           NEW y, y = reserveVictim(z, w)
    PROVE  Lawful(x, y) /\ y.nextReservation = x.nextReservation + 1
<1>1. x \in Manager /\ x.waiters \in Seq(Queued) /\ x.live \subseteq Sessions BY DEF Partway, Manager
<1>2. /\ x.nextManagerEvent \in Nat /\ e \in 1..MaxEvents /\ e \in 0..MaxEvents
      /\ x.nextManagerEvent <= e /\ e # x.nextManagerEvent
      /\ \A t \in Sessions : x.lifecycles[t] # None => x.lifecycles[t].lastUse # e
      /\ \A a \in Queue(x) : a \in Queued /\ a.sequence < e
  BY Unused
<1>3. /\ z.live = x.live /\ z.quarantined = x.quarantined /\ z.waiters = x.waiters
      /\ z.nextManagerEvent = e /\ z.nextReservation = x.nextReservation
      /\ z.reserved = x.reserved /\ z.reservations = x.reservations
      /\ z.lifecycles = x.lifecycles
      /\ z = [lifecycles |-> z.lifecycles, live |-> z.live, reserved |-> z.reserved,
              quarantined |-> z.quarantined, reservations |-> z.reservations, waiters |-> z.waiters,
              nextManagerEvent |-> z.nextManagerEvent, nextReservation |-> z.nextReservation]
  BY <1>1 DEF Manager
<1>4. z \in Manager BY <1>1, <1>2, <1>3 DEF Manager
<1>5. w \in Queued /\ w.contender = s /\ w.sequence = e /\ w.reservation = 0 BY <1>2 DEF Queued
<1>6. Queue(z) = Queue(x) BY <1>3 DEF Queue
<1>7. Partway(z, {w})
  <2>1. Slots(z) BY <1>3 DEF Partway, Slots
  <2>2. Reserves(z) BY <1>3 DEF Partway, Reserves, Reserve, Evicting
  <2>3. Waits(x, Queue(x)) /\ Clock(x, Queue(x)) /\ \A a \in Queue(x) : a.reservation # 0 BY DEF Partway
  <2>4. \A a \in Queue(x) : a.sequence \in Int BY <1>2, AdmissionConstants DEF Queued
  <2>5. Waits(z, Queue(x) \cup {w})
    <3>1. \A a \in Queue(x) : a.contender # w.contender /\ a.sequence # w.sequence /\ a.reservation # 0
      BY <1>2, <1>5, <2>3, <2>4
    <3>. QED BY <1>3, <1>5, <2>3, <3>1 DEF Waits
  <2>6. Clock(z, Queue(x) \cup {w})
    <3>1. \A a \in Queue(x) \cup {w} : a.sequence <= e BY <1>2, <1>5, <2>4
    <3>2. ASSUME NEW t \in Sessions, x.lifecycles[t] # None
          PROVE  x.lifecycles[t].lastUse <= e /\ x.lifecycles[t].lastUse # w.sequence
      <4>1. x.lifecycles[t] \in Lifecycle BY <1>1, <3>2, Records
      <4>2. x.lifecycles[t].lastUse \in Int /\ x.lifecycles[t].lastUse <= x.nextManagerEvent
        BY <2>3, <3>2, <4>1, AdmissionConstants DEF Lifecycle, Clock
      <4>. QED BY <1>2, <1>5, <3>2, <4>2
    <3>. QED BY <1>3, <2>3, <3>1, <3>2 DEF Clock
  <2>7. \A a \in Queue(x) : a.reservation # 0 /\ \A v \in {w} : a.sequence < v.sequence
    BY <1>2, <1>5, <2>3
  <2>8. Sorted(z.waiters) BY <1>3 DEF Partway
  <2>. QED BY <1>4, <1>5, <1>6, <2>1, <2>2, <2>5, <2>6, <2>7, <2>8 DEF Partway
<1>8. \A t : evictionClass(z, t) = evictionClass(x, t) BY <1>3 DEF evictionClass
<1>9. Victims(z) = Victims(x) BY <1>3, <1>8 DEF Victims
<1>10. Partway(y, {}) /\ Preempted(z, y)
  <2>1. PICK R : R = {w} OBVIOUS
  <2>2. Partway(z, R) /\ w \in R /\ \A b \in R \ {w} : w.sequence < b.sequence BY <1>7, <2>1
  <2>3. Victims(z) # {} /\ w.reservation = 0 BY <1>5, <1>9
  <2>4. Partway(y, R \ {w}) /\ Preempted(z, y) BY <2>2, <2>3, ReserveStep
  <2>5. R \ {w} = {} BY <2>1
  <2>. QED BY <2>4, <2>5
<1>11. PICK v \in Victims(z) :
          /\ \A t \in Victims(z) \ {v} : Before(z, v, t)
          /\ y.reserved = z.reserved \cup {v}
          /\ \A k \in y.reservations : k \in z.reservations \/ k.prior = z.lifecycles[v].state
          /\ \A t \in Sessions : t # v => y.lifecycles[t] = z.lifecycles[t]
  BY <1>10 DEF Preempted
<1>12. /\ y.live = x.live /\ y.quarantined = x.quarantined
       /\ y.nextManagerEvent = e /\ y.nextReservation = x.nextReservation + 1
       /\ Len(y.waiters) = Len(x.waiters) + 1
       /\ x.reservations \subseteq y.reservations
  BY <1>3, <1>10 DEF Preempted
<1>13. v \in Sessions /\ evictionClass(z, v) \in {0, 1} /\ v \in x.live
  BY <1>1, <1>3, <1>4, <1>11, ClassOf DEF Victims
<1>14. ASSUME NEW k \in y.reservations \ x.reservations, k.prior = Ready, NEW t \in y.live
       PROVE  evictionClass(y, t) # 0
  <2>1. z.lifecycles[v].state = Ready BY <1>3, <1>11, <1>14
  <2>2. evictionClass(z, v) = 1 BY <1>4, <1>13, <2>1, ClassOf
  <2>. SUFFICES ASSUME evictionClass(y, t) = 0 PROVE FALSE OBVIOUS
  <2>3. t \in Sessions /\ t \notin y.reserved
    <3>1. t \in Sessions /\ y \in Manager BY <1>1, <1>10, <1>12 DEF Partway
    <3>. QED BY <3>1, ClassOf
  <2>4. t # v BY <1>11, <2>3
  <2>5. evictionClass(z, t) = 0
    <3>1. y.lifecycles[t] = z.lifecycles[t] /\ t \notin z.reserved /\ (t \in z.quarantined => t \in y.quarantined)
      BY <1>3, <1>11, <1>12, <2>3, <2>4
    <3>. QED BY <3>1, ClassKept
  <2>6. t \in Victims(z) BY <1>3, <1>12, <2>5 DEF Victims
  <2>. QED BY <1>11, <2>2, <2>4, <2>5, <2>6 DEF Before
<1>15. \A t \in Sessions : Keeps(x, y, t)
  BY <1>3, <1>10, <1>12 DEF Preempted, Keeps
<1>16. Len(y.waiters) <= MaxSessions
  <2>1. Len(x.waiters) \in Nat BY <1>1, LenProperties
  <2>. QED BY <1>12, <2>1, AdmissionConstants
<1>17. y.nextManagerEvent # x.nextManagerEvent BY <1>2, <1>12
<1>18. Lawful(x, y) BY <1>10, <1>12, <1>14, <1>15, <1>16, <1>17 DEF Lawful
<1>. QED BY <1>12, <1>18

\* Admit, in its three branches.
LEMMA AdmitStep ==
    ASSUME AdmissionInv, NEW s \in Sessions, Admit(s)
    PROVE  Lawful(m, m') /\ m'.nextReservation <= MaxReservations
<1>. DEFINE e == NextEvent
            x == [m EXCEPT !.nextManagerEvent = e]
<1>1. /\ Partway(m, {}) /\ Len(m.waiters) <= MaxSessions /\ m \in Manager
      /\ m.nextReservation \in Nat /\ m.nextReservation <= MaxReservations
      /\ m.live \subseteq Sessions
      /\ \A t \in m.live : Lc(t) # None
  BY KnownBefore
<1>2. e <= MaxEvents BY DEF Admit
<1>3. e \in 1..MaxEvents BY <1>1, <1>2, AdmissionConstants DEF Manager, NextEvent
<1>4. CASE s \in m.live /\ Lc(s) # None /\ m' = [x EXCEPT !.lifecycles[s].lastUse = e]
  <2>. DEFINE l == [Lc(s) EXCEPT !.lastUse = e]
  <2>1. Lc(s) \in Lifecycle BY <1>1, <1>4, Records DEF Lc
  <2>2. l \in Lifecycle BY <1>3, <2>1 DEF Lifecycle
  <2>3. m' = Stamped(m, m.live, s, l, e)
    <3>. HIDE DEF e
    <3>. QED BY <1>1, <1>4 DEF Manager, Stamped, Lc
  <2>4. l = [Lc(s) EXCEPT !.lastUse = NextEvent] /\ m' = Stamped(m, m.live, s, l, NextEvent) BY <2>3
  <2>. HIDE DEF l
  <2>5. PICK L : L = m.live OBVIOUS
  <2>. QED BY <1>2, <1>4, <2>2, <2>4, <2>5, SeatStep
<1>5. CASE /\ s \notin m.live /\ Cardinality(m.live) < MaxSessions
           /\ m' = [x EXCEPT !.live = @ \cup {s}, !.lifecycles[s] = IF @ = None THEN Fresh(e) ELSE @]
  <2>. DEFINE l == IF Lc(s) = None THEN Fresh(e) ELSE Lc(s)
              L == m.live \cup {s}
  <2>1. l \in Lifecycle
    <3>1. Fresh(e) \in Lifecycle BY <1>3, AdmissionConstants DEF Fresh, Lifecycle, State
    <3>2. Lc(s) = None \/ Lc(s) \in Lifecycle BY <1>1, Records DEF Lc
    <3>. QED BY <3>1, <3>2
  <2>2. m' = Stamped(m, L, s, l, e)
    <3>. HIDE DEF e
    <3>1. m' = [x EXCEPT !.live = L, !.lifecycles[s] = l] BY <1>1, <1>5 DEF Manager, Lc
    <3>. HIDE DEF L, l
    <3>. QED BY <1>1, <3>1 DEF Manager, Stamped
  <2>3. l = (IF Lc(s) = None THEN Fresh(NextEvent) ELSE Lc(s)) /\ m' = Stamped(m, L, s, l, NextEvent)
        /\ L = m.live \cup {s}
    BY <2>2
  <2>. HIDE DEF l, L
  <2>. QED BY <1>2, <1>5, <2>1, <2>3, SeatStep
<1>6. CASE /\ ~Waiting(s) /\ Len(m.waiters) < MaxSessions /\ Victims(m) # {}
           /\ m.nextReservation < MaxReservations
           /\ m' = reserveVictim(x, [contender |-> s, sequence |-> e, reservation |-> 0])
  <2>1. PICK y, z, w, q : /\ y = m' /\ z = x /\ q = e
                          /\ w = [contender |-> s, sequence |-> e, reservation |-> 0]
    OBVIOUS
  <2>2. \A a \in Queue(m) : a.contender # s
    <3>1. m.waiters \in Seq(Queued) BY <1>1 DEF Manager
    <3>2. DOMAIN m.waiters = 1..Len(m.waiters) BY <3>1, LenProperties
    <3>. QED BY <1>6, <3>2 DEF Waiting, Queue, Elements
  <2>3. /\ q = m.nextManagerEvent + 1 /\ q <= MaxEvents
        /\ z = [m EXCEPT !.nextManagerEvent = q]
        /\ w = [contender |-> s, sequence |-> q, reservation |-> 0]
        /\ y = reserveVictim(z, w)
    BY <1>2, <1>6, <2>1 DEF NextEvent
  <2>4. Lawful(m, y) /\ y.nextReservation = m.nextReservation + 1
    BY <1>1, <1>6, <2>2, <2>3, QueueStep
  <2>. QED BY <1>1, <1>6, <2>1, <2>4, AdmissionConstants
<1>. QED BY <1>4, <1>5, <1>6 DEF Admit

\* ReleaseStopped: no reserved session is without an intent, so none loses its slot.
LEMMA ReleaseStoppedStep ==
    ASSUME AdmissionInv, NEW s \in Sessions, ReleaseStopped(s)
    PROVE  Lawful(m, m') /\ m'.nextReservation <= MaxReservations
<1>1. /\ Partway(m, {}) /\ Len(m.waiters) <= MaxSessions /\ m \in Manager
      /\ m.nextReservation \in Nat /\ m.nextReservation <= MaxReservations
      /\ m.live \subseteq Sessions /\ m.reserved \subseteq m.live /\ m.quarantined \subseteq m.live
      /\ \A t \in m.reserved : Lc(t) # None /\ Lc(t).incumbent # None /\ Lc(t).incumbent.kind = "EVICT"
      /\ \A t \in m.live : Lc(t) # None
  BY KnownBefore
<1>2. /\ s \in m.live /\ Lc(s) # None /\ Lc(s).state = Stopped /\ Lc(s).reaped /\ Lc(s).incumbent = None
      /\ m' = [m EXCEPT !.live = @ \ {s}, !.reserved = @ \ {s}, !.quarantined = @ \ {s}]
  BY DEF ReleaseStopped
<1>3. s \notin m.reserved BY <1>1, <1>2
<1>4. /\ m'.live = m.live \ {s} /\ m'.quarantined = m.quarantined \ {s} /\ m'.waiters = m.waiters
      /\ m'.nextManagerEvent = m.nextManagerEvent /\ m'.nextReservation = m.nextReservation
      /\ m'.reserved = m.reserved /\ m'.reservations = m.reservations
      /\ m'.lifecycles = m.lifecycles
      /\ m' = [lifecycles |-> m'.lifecycles, live |-> m'.live, reserved |-> m'.reserved,
               quarantined |-> m'.quarantined, reservations |-> m'.reservations, waiters |-> m'.waiters,
               nextManagerEvent |-> m'.nextManagerEvent, nextReservation |-> m'.nextReservation]
  <2>1. m.reserved \ {s} = m.reserved BY <1>3
  <2>. QED BY <1>1, <1>2, <2>1 DEF Manager
<1>5. m' \in Manager BY <1>1, <1>4 DEF Manager
<1>6. Slots(m')
  <2>1. IsFiniteSet(m.live) /\ Cardinality(m.live) <= MaxSessions BY <1>1 DEF Partway, Slots
  <2>2. /\ IsFiniteSet(m.live \ {s})
        /\ Cardinality(m.live \ {s}) = IF s \in m.live THEN Cardinality(m.live) - 1 ELSE Cardinality(m.live)
    BY <2>1, FS_RemoveElement
  <2>3. Cardinality(m.live) \in Nat BY <2>1, FS_CardinalityType
  <2>4. IsFiniteSet(m'.live) /\ Cardinality(m'.live) <= MaxSessions
    BY <1>2, <1>4, <2>1, <2>2, <2>3, AdmissionConstants
  <2>. QED BY <1>1, <1>3, <1>4, <2>4 DEF Slots, Lc
<1>7. Partway(m', {})
  <2>1. Reserves(m')
    <3>1. Reserves(m) BY <1>1 DEF Partway
    <3>2. \A k \in m.reservations : Reserve(m', k) BY <1>4, <3>1 DEF Reserves, Reserve
    <3>. QED BY <1>4, <3>1, <3>2 DEF Reserves, Evicting
  <2>2. Queue(m') = Queue(m) BY <1>4 DEF Queue
  <2>3. Waits(m', Queue(m)) /\ Clock(m', Queue(m)) BY <1>1, <1>4 DEF Partway, Waits, Clock
  <2>. QED BY <1>1, <1>4, <1>5, <1>6, <2>1, <2>2, <2>3 DEF Partway
<1>8. PICK y : y = m' OBVIOUS
<1>9. \A t \in Sessions : Keeps(m, y, t) \/ GivesUp(m, y, t)
  BY <1>2, <1>4, <1>8 DEF Keeps, GivesUp, Lc
<1>10. Lawful(m, y) BY <1>1, <1>4, <1>7, <1>8, <1>9, QuietStep
<1>. QED BY <1>1, <1>4, <1>8, <1>10

\* A step that only rewrites the record of s.
LEMMA RecordStep ==
    ASSUME AdmissionInv, NEW s \in Sessions, Lc(s) # None, NEW l \in Lifecycle,
           l.lastUse = Lc(s).lastUse,
           \/ /\ l.incumbent = Lc(s).incumbent /\ l.hasWork = Lc(s).hasWork /\ l.reaped = Lc(s).reaped
           \/ /\ s \notin m.reserved /\ (l.incumbent = None \/ l.incumbent.kind # "EVICT"),
           m' = Rewritten(m, s, l)
    PROVE  Lawful(m, m') /\ m'.nextReservation <= MaxReservations
<1>1. /\ Partway(m, {}) /\ Len(m.waiters) <= MaxSessions /\ m \in Manager
      /\ m.nextReservation \in Nat /\ m.nextReservation <= MaxReservations
  BY KnownBefore
<1>2. s \notin m.reserved => l.incumbent = None \/ l.incumbent.kind # "EVICT"
  <2>. HAVE s \notin m.reserved
  <2>1. ~Evicting(m, s) BY <1>1 DEF Partway, Reserves
  <2>. QED BY <2>1 DEF Evicting, Lc
<1>3. /\ s \in m.reserved => /\ l.incumbent = m.lifecycles[s].incumbent
                             /\ l.hasWork = m.lifecycles[s].hasWork
                             /\ l.reaped = m.lifecycles[s].reaped
      /\ m.lifecycles[s] # None /\ l.lastUse = m.lifecycles[s].lastUse
  BY DEF Lc
<1>4. PICK y : y = m' OBVIOUS
<1>5. Lawful(m, y) /\ y.nextReservation = m.nextReservation
  BY <1>1, <1>2, <1>3, <1>4, RewriteStep
<1>. QED BY <1>1, <1>4, <1>5

\* An accepted STOP or RESTART is of a session without an intent, so not reserved.
LEMMA RequestStep ==
    ASSUME AdmissionInv, NEW s \in Sessions, NEW k \in Kinds, NEW work \in Works, RequestLifecycle(s, k, work)
    PROVE  Lawful(m, m') /\ m'.nextReservation <= MaxReservations
<1>. DEFINE i == [kind |-> k, contender |-> None]
            st == lifecycleIntentState(Lc(s).state, TRUE, work)
            l == [Lc(s) EXCEPT !.incumbent = i, !.hasWork = work, !.state = st]
<1>1. /\ m \in Manager
      /\ \A t \in m.reserved : Lc(t) # None /\ Lc(t).incumbent # None /\ Lc(t).incumbent.kind = "EVICT"
  BY KnownBefore
<1>2. Lc(s) # None /\ Lc(s).incumbent = None BY DEF RequestLifecycle
<1>3. Lc(s) \in Lifecycle BY <1>1, <1>2, Records DEF Lc
<1>4. i \in Intent /\ i.kind # "EVICT" BY AdmissionConstants DEF Intent
<1>5. st \in State BY <1>3 DEF lifecycleIntentState, State, Stopping, Stopped, Draining, Lifecycle
<1>6. m' = Rewritten(m, s, l) BY <1>1 DEF RequestLifecycle, Rewritten, Lc, Manager
<1>7. work \in BOOLEAN BY AdmissionConstants
<1>. HIDE DEF i, st
<1>8. l \in Lifecycle /\ l.incumbent = i /\ l.lastUse = Lc(s).lastUse BY <1>3, <1>4, <1>5, <1>7 DEF Lifecycle
<1>9. s \notin m.reserved BY <1>1, <1>2
<1>. HIDE DEF l
<1>. QED BY <1>2, <1>4, <1>6, <1>8, <1>9, RecordStep

\* A completed STOP or RESTART is not an EVICT, so its session is not reserved.
LEMMA CompleteLifecycleStep ==
    ASSUME AdmissionInv, NEW s \in Sessions, NEW ok \in BOOLEAN, CompleteLifecycle(s, ok)
    PROVE  Lawful(m, m') /\ m'.nextReservation <= MaxReservations
<1>. DEFINE a == [Lc(s) EXCEPT !.state = Poisoned, !.incumbent = None]
            b == [Lc(s) EXCEPT !.state = Stopped, !.reaped = TRUE, !.incumbent = None]
            c == [Lc(s) EXCEPT !.state = Initializing, !.reaped = TRUE,
                               !.generation = Lc(s).generation + 1, !.incumbent = None]
<1>1. /\ m \in Manager
      /\ \A t \in m.reserved : Lc(t) # None /\ Lc(t).incumbent # None /\ Lc(t).incumbent.kind = "EVICT"
  BY KnownBefore
<1>2. Lc(s) # None BY DEF CompleteLifecycle
<1>3. Lc(s) \in Lifecycle BY <1>1, <1>2, Records DEF Lc
<1>4. CASE ~ok /\ Lc(s).incumbent.kind # "EVICT"
           /\ m' = [m EXCEPT !.lifecycles[s] = [@ EXCEPT !.state = Poisoned, !.incumbent = None]]
  <2>1. m' = Rewritten(m, s, a) BY <1>1, <1>4 DEF Rewritten, Lc, Manager
  <2>2. a \in Lifecycle /\ a.incumbent = None /\ a.lastUse = Lc(s).lastUse
    BY <1>3 DEF Lifecycle, State
  <2>3. s \notin m.reserved BY <1>1, <1>4
  <2>. HIDE DEF a
  <2>. QED BY <1>2, <2>1, <2>2, <2>3, RecordStep
<1>5. CASE ok /\ Lc(s).incumbent.kind = "STOP"
           /\ m' = [m EXCEPT !.lifecycles[s] = [@ EXCEPT !.state = Stopped, !.reaped = TRUE, !.incumbent = None]]
  <2>1. m' = Rewritten(m, s, b) BY <1>1, <1>5 DEF Rewritten, Lc, Manager
  <2>2. b \in Lifecycle /\ b.incumbent = None /\ b.lastUse = Lc(s).lastUse
    BY <1>3 DEF Lifecycle, State
  <2>3. s \notin m.reserved BY <1>1, <1>5
  <2>. HIDE DEF b
  <2>. QED BY <1>2, <2>1, <2>2, <2>3, RecordStep
<1>6. CASE ok /\ Lc(s).incumbent.kind = "RESTART"
           /\ (\A t \in Sessions : Lc(t) # None => Lc(t).generation < MaxGeneration)
           /\ m' = [m EXCEPT !.lifecycles[s] = [@ EXCEPT !.state = Initializing, !.reaped = TRUE,
                                                         !.generation = Lc(s).generation + 1, !.incumbent = None]]
  <2>1. m' = Rewritten(m, s, c) BY <1>1, <1>6 DEF Rewritten, Lc, Manager
  <2>2. Lc(s).generation + 1 \in 1..MaxGeneration
    BY <1>2, <1>3, <1>6, AdmissionConstants DEF Lifecycle
  <2>3. c \in Lifecycle /\ c.incumbent = None /\ c.lastUse = Lc(s).lastUse
    BY <1>3, <2>2 DEF Lifecycle, State
  <2>4. s \notin m.reserved BY <1>1, <1>6
  <2>. HIDE DEF c
  <2>. QED BY <1>2, <2>1, <2>3, <2>4, RecordStep
<1>. QED BY <1>4, <1>5, <1>6 DEF CompleteLifecycle

\* ObserveInitialization and ObservePoison change a state and no more.
LEMMA ObserveStep ==
    ASSUME AdmissionInv, NEW s \in Sessions, NEW st \in State, Lc(s) # None,
           m' = [m EXCEPT !.lifecycles[s].state = st]
    PROVE  Lawful(m, m') /\ m'.nextReservation <= MaxReservations
<1>. DEFINE l == [Lc(s) EXCEPT !.state = st]
<1>1. m \in Manager BY KnownBefore
<1>2. Lc(s) \in Lifecycle BY <1>1, Records DEF Lc
<1>3. m' = Rewritten(m, s, l) BY <1>1 DEF Rewritten, Lc, Manager
<1>4. /\ l \in Lifecycle /\ l.lastUse = Lc(s).lastUse
      /\ l.incumbent = Lc(s).incumbent /\ l.hasWork = Lc(s).hasWork /\ l.reaped = Lc(s).reaped
  BY <1>2 DEF Lifecycle
<1>. HIDE DEF l
<1>. QED BY <1>3, <1>4, RecordStep

\* CompleteEviction, with success or without.
LEMMA EvictionStep ==
    ASSUME AdmissionInv, CompleteSome
    PROVE  Lawful(m, m') /\ m'.nextReservation <= MaxReservations
<1>1. PICK r \in m.reservations, success \in BOOLEAN : CompleteEviction(r, success) BY DEF CompleteSome
<1>2. /\ Partway(m, {}) /\ Len(m.waiters) <= MaxSessions /\ m \in Manager
  BY KnownBefore
<1>3. m'.nextReservation <= MaxReservations BY <1>1 DEF CompleteEviction
<1>4. Len(m.waiters) \in Nat
  <2>1. m.waiters \in Seq(Queued) BY <1>2 DEF Manager
  <2>. QED BY <2>1, LenProperties
<1>5. CASE m' = reprocessWaiters(releaseVictimSlot(m, r))
  <2>1. PICK y : y = m' OBVIOUS
  <2>2. Turnover(m, y) BY <1>2, <1>5, <2>1, SuccessStep
  <2>3. Len(m'.waiters) <= MaxSessions
    <3>1. y.waiters \in Seq(Queued) BY <2>2 DEF Turnover, Partway, Manager
    <3>2. Len(y.waiters) \in Nat BY <3>1, LenProperties
    <3>. QED BY <1>2, <1>4, <2>1, <2>2, <3>2, AdmissionConstants DEF Turnover
  <2>5. Lawful(m, m') BY <2>1, <2>2, <2>3 DEF Turnover, Lawful
  <2>. QED BY <1>3, <2>5
<1>6. CASE m' = EvictionFailed(r)
  <2>1. PICK y : y = m' OBVIOUS
  <2>2. y = Failed(m, r) BY <1>6, <2>1 DEF EvictionFailed, Failed
  <2>3. Abandoned(m, y) BY <1>2, <2>2, FailStep
  <2>4. Len(m'.waiters) <= MaxSessions
    <3>1. y.waiters \in Seq(Queued) BY <2>3 DEF Abandoned, Partway, Manager
    <3>2. Len(y.waiters) \in Nat BY <3>1, LenProperties
    <3>. QED BY <1>2, <1>4, <2>1, <2>3, <3>2, AdmissionConstants DEF Abandoned
  <2>6. Lawful(m, m') BY <2>1, <2>3, <2>4 DEF Abandoned, Lawful
  <2>. QED BY <1>3, <2>6
<1>. QED BY <1>1, <1>5, <1>6 DEF CompleteEviction

\* Every step of the manager, and a stuttering one.
LEMMA StepLawful ==
    ASSUME AdmissionInv, [Next]_m
    PROVE  Lawful(m, m') /\ m'.nextReservation <= MaxReservations
<1>1. CASE UNCHANGED m
  <2>1. PICK y : y = m' OBVIOUS
  <2>2. Partway(m, {}) /\ Len(m.waiters) <= MaxSessions /\ m.nextReservation <= MaxReservations
    BY DEF AdmissionInv
  <2>3. y = m BY <1>1, <2>1
  <2>4. \A s \in Sessions : Keeps(m, m, s) BY DEF Keeps
  <2>5. Lawful(m, y) BY <2>2, <2>3, <2>4, QuietStep
  <2>. QED BY <2>1, <2>2, <2>3, <2>5
<1>2. ASSUME NEW s \in Sessions, RegisterLifecycle(s) \/ Admit(s) \/ ReleaseStopped(s) \/ ObservePoison(s)
      PROVE  Lawful(m, m') /\ m'.nextReservation <= MaxReservations
  <2>1. CASE ObservePoison(s)
    <3>1. Poisoned \in State /\ Lc(s) # None /\ m' = [m EXCEPT !.lifecycles[s].state = Poisoned]
      BY <2>1 DEF State, ObservePoison
    <3>. QED BY <3>1, ObserveStep
  <2>. QED BY <1>2, <2>1, RegisterStep, AdmitStep, ReleaseStoppedStep
<1>3. ASSUME NEW s \in Sessions, NEW ok \in BOOLEAN, ObserveInitialization(s, ok)
      PROVE  Lawful(m, m') /\ m'.nextReservation <= MaxReservations
  <2>. DEFINE st == IF ok THEN Ready ELSE Poisoned
  <2>1. st \in State /\ Lc(s) # None /\ m' = [m EXCEPT !.lifecycles[s].state = st]
    BY <1>3 DEF State, ObserveInitialization
  <2>. HIDE DEF st
  <2>. QED BY <2>1, ObserveStep
<1>. QED BY <1>1, <1>2, <1>3, EvictionStep, RequestStep, CompleteLifecycleStep DEF Next

\* The manager that nothing was asked of.
LEMMA StartLawful == Init => AdmissionInv
<1>. SUFFICES ASSUME Init PROVE AdmissionInv OBVIOUS
<1>1. /\ m.lifecycles = [s \in Sessions |-> None] /\ m.live = {} /\ m.reserved = {} /\ m.quarantined = {}
      /\ m.reservations = {} /\ m.waiters = <<>> /\ m.nextManagerEvent = 0 /\ m.nextReservation = 0
  BY DEF Init
<1>2. m \in Manager BY AdmissionConstants DEF Init, Manager
<1>3. Queue(m) = {} BY <1>1 DEF Queue, Elements
<1>4. Slots(m) BY <1>1, FS_EmptySet, AdmissionConstants DEF Slots
<1>5. Reserves(m) BY <1>1 DEF Reserves, Evicting
<1>6. Waits(m, {}) /\ Clock(m, {}) /\ Sorted(m.waiters) BY <1>1 DEF Waits, Clock, Sorted
<1>7. Partway(m, {}) BY <1>2, <1>3, <1>4, <1>5, <1>6 DEF Partway
<1>. QED BY <1>1, <1>7, AdmissionConstants DEF AdmissionInv

\* The inductive invariant holds of every behaviour of the manager.
THEOREM AdmissionInvariant == Spec => []AdmissionInv
<1>1. Init => AdmissionInv BY StartLawful
<1>2. AdmissionInv /\ [Next]_m => AdmissionInv'
  BY StepLawful DEF Lawful, AdmissionInv
<1>. QED BY <1>1, <1>2, PTL DEF Spec

\* What the invariant says in the terms of OneToOne.
LEMMA InvariantOneToOne == AdmissionInv => OneToOne
<1>. SUFFICES ASSUME AdmissionInv PROVE OneToOne OBVIOUS
<1>. DEFINE n == Len(m.waiters)
<1>1. /\ Partway(m, {}) /\ n <= MaxSessions /\ m \in Manager
      /\ m.nextReservation \in Nat /\ m.nextReservation <= MaxReservations
  BY KnownBefore
<1>2. /\ Slots(m) /\ Reserves(m) /\ Waits(m, Queue(m)) /\ Clock(m, Queue(m))
      /\ \A w \in Queue(m) : w.reservation # 0
  BY <1>1 DEF Partway
<1>3. m.waiters \in Seq(Queued) /\ n \in Nat /\ DOMAIN m.waiters = 1..n
  <2>1. m.waiters \in Seq(Queued) BY <1>1 DEF Manager
  <2>. QED BY <2>1, LenProperties
<1>4. \A i \in 1..n : m.waiters[i] \in Queued /\ m.waiters[i] \in Queue(m)
  BY <1>3, ElementOfSeq DEF Queue, Elements
<1>5. \A w \in Queue(m) : \E i \in 1..n : m.waiters[i] = w BY DEF Queue, Elements
<1>. HIDE DEF n
<1>6. ASSUME NEW r \in m.reservations
      PROVE  /\ r \in Reservation /\ Completable(r) /\ r.victim \notin m.quarantined
             /\ r.victim \in m.reserved
             /\ \E i \in 1..n : m.waiters[i].reservation = r.id /\ m.waiters[i].contender = r.contender
  <2>1. /\ Sound(m, r) /\ m.lifecycles[r.victim].incumbent.contender = r.contender
        /\ r.victim \in Sessions /\ r.contender \in Sessions /\ r.prior \in State /\ r.id \in Nat \ {0}
        /\ r.victim \notin m.quarantined
    BY <1>1, <1>2, ReservationSound
  <2>2. r.id <= m.nextReservation BY <1>2 DEF Reserves, Reserve
  <2>3. r.id \in 1..MaxReservations BY <1>1, <2>1, <2>2, AdmissionConstants
  <2>4. r \in Reservation
    <3>1. r \in Held BY <1>1 DEF Manager
    <3>. QED BY <2>3, <3>1 DEF Held, Reservation
  <2>5. PICK w \in Queue(m) : Fits(r, w) BY <1>2 DEF Waits
  <2>. QED BY <1>5, <2>1, <2>4, <2>5 DEF Completable, Lc, Fits, Sound
<1>7. ASSUME NEW i \in 1..n
      PROVE  m.waiters[i] \in Waiter /\ \E r \in m.reservations : r.id = m.waiters[i].reservation
  <2>1. m.waiters[i] \in Queued /\ m.waiters[i] \in Queue(m) BY <1>4
  <2>2. PICK r \in m.reservations : Fits(r, m.waiters[i]) BY <1>2, <2>1 DEF Waits
  <2>3. r.id \in 1..MaxReservations BY <1>6 DEF Reservation
  <2>4. m.waiters[i].reservation \in 0..MaxReservations BY <2>2, <2>3, AdmissionConstants DEF Fits
  <2>5. m.waiters[i] \in Waiter BY <2>1, <2>4 DEF Queued, Waiter
  <2>. QED BY <2>2, <2>5 DEF Fits
<1>8. TypeOK
  <2>1. DOMAIN m = {"lifecycles", "live", "reserved", "quarantined", "reservations", "waiters",
                    "nextManagerEvent", "nextReservation"}
    BY <1>1 DEF Manager
  <2>2. /\ \A s \in Sessions : m.lifecycles[s] \in Lifecycle \cup {None}
        /\ m.live \subseteq Sessions /\ m.nextManagerEvent \in 0..MaxEvents
    BY <1>1 DEF Manager
  <2>3. m.reserved \subseteq m.live /\ m.quarantined \subseteq m.live BY <1>2 DEF Slots
  <2>4. m.reservations \subseteq Reservation BY <1>6
  <2>5. \A i \in DOMAIN m.waiters : m.waiters[i] \in Waiter BY <1>3, <1>7
  <2>6. m.nextReservation \in 0..MaxReservations BY <1>1, AdmissionConstants
  <2>. QED BY <2>1, <2>2, <2>3, <2>4, <2>5, <2>6 DEF TypeOK
<1>9. Cardinality(m.live) <= MaxSessions /\ Len(m.waiters) <= MaxSessions BY <1>1, <1>2 DEF Slots, n
<1>10. \A r, q \in m.reservations : r.victim = q.victim \/ r.contender = q.contender => r = q
  BY <1>2 DEF Reserves
<1>11. {r.id : r \in m.reservations} = {m.waiters[i].reservation : i \in DOMAIN m.waiters}
  <2>1. \A r \in m.reservations : \E i \in DOMAIN m.waiters : r.id = m.waiters[i].reservation
    <3>. TAKE r \in m.reservations
    <3>1. PICK i \in 1..n : m.waiters[i].reservation = r.id BY <1>6
    <3>. QED BY <1>3, <3>1
  <2>2. \A i \in DOMAIN m.waiters : \E r \in m.reservations : m.waiters[i].reservation = r.id
    BY <1>3, <1>7
  <2>. QED BY <2>1, <2>2
<1>12. \A r \in m.reservations :
          /\ Completable(r) /\ r.victim \notin m.quarantined
          /\ \E i \in DOMAIN m.waiters : m.waiters[i].reservation = r.id /\ m.waiters[i].contender = r.contender
  BY <1>3, <1>6
<1>13. m.reserved = {r.victim : r \in m.reservations} BY <1>2, <1>6 DEF Reserves
<1>14. \A s \in Sessions : (Lc(s) # None /\ Lc(s).incumbent # None /\ Lc(s).incumbent.kind = "EVICT") =>
          s \in m.reserved
  BY <1>2 DEF Reserves, Evicting, Lc
<1>15. \A s, t \in Sessions : s # t /\ Lc(s) # None /\ Lc(t) # None => Lc(s).lastUse # Lc(t).lastUse
  BY <1>2 DEF Clock, Lc
<1>. QED BY <1>8, <1>9, <1>10, <1>11, <1>12, <1>13, <1>14, <1>15 DEF OneToOne

\* For every number of sessions and slots: slots, victims, waiters and reservations
\* stay one-to-one.
THEOREM SlotsAndVictimsOneToOne == Spec => []OneToOne
BY AdmissionInvariant, InvariantOneToOne, PTL

\* For every number of sessions and slots: no step takes a slot or a record but from
\* the idle victim of a reservation that ends, or the slot from a stopped and reaped
\* session.
THEOREM SlotsLostInTurn == Spec => LostInTurn
<1>1. AdmissionInv /\ AdmissionInv' /\ [Next]_m =>
        [\A s \in Sessions :
          (s \in m.live \ m'.live) \/ (Lc(s) # None /\ m'.lifecycles[s] = None) =>
             \/ \E r \in m.reservations \ m'.reservations : r.victim = s /\ WasIdle(m, r)
             \/ /\ Lc(s).state = Stopped /\ Lc(s).reaped /\ Lc(s).incumbent = None
                /\ m'.lifecycles[s] = Lc(s)]_m
  <2>. SUFFICES ASSUME AdmissionInv, AdmissionInv', [Next]_m, NEW s \in Sessions,
                       (s \in m.live \ m'.live) \/ (Lc(s) # None /\ m'.lifecycles[s] = None)
                PROVE  \/ \E r \in m.reservations \ m'.reservations : r.victim = s /\ WasIdle(m, r)
                       \/ /\ Lc(s).state = Stopped /\ Lc(s).reaped /\ Lc(s).incumbent = None
                          /\ m'.lifecycles[s] = Lc(s)
    OBVIOUS
  <2>1. ~Keeps(m, m', s) BY DEF Keeps, Lc
  <2>2. CASE GivesUp(m, m', s) BY <2>2 DEF GivesUp, Lc
  <2>3. CASE \E r \in m.reservations : r.victim = s
    <3>1. PICK r \in m.reservations : r.victim = s BY <2>3
    <3>2. Reserve(m, r) BY DEF AdmissionInv, Partway, Reserves
    <3>3. WasIdle(m, r) BY <3>2 DEF Reserve, WasIdle, Terminal
    <3>4. PICK y : y = m' OBVIOUS
    <3>5. y \in Manager /\ Slots(y) /\ Reserves(y) BY <3>4 DEF AdmissionInv, Partway
    <3>6. ASSUME r \in y.reservations PROVE FALSE
      <4>1. Sound(y, r) BY <3>5, <3>6, ReservationSound
      <4>. QED BY <3>1, <3>4, <4>1 DEF Sound
    <3>. QED BY <3>1, <3>3, <3>4, <3>6
  <2>. QED BY <2>1, <2>2, <2>3, StepLawful DEF Lawful
<1>. QED BY AdmissionInvariant, <1>1, PTL DEF Spec, LostInTurn

\* A completed eviction serves the waiters in the order of their admission, and a
\* READY session is reserved only when no terminal one is left.
THEOREM EvictionsAreInOrder == Spec => EvictionInOrder
<1>1. AdmissionInv /\ [Next]_m =>
        [m'.nextManagerEvent = m.nextManagerEvent =>
          \A i, j \in DOMAIN m.waiters :
             m.waiters[i].sequence < m.waiters[j].sequence /\ m.waiters[j].contender \in m'.live \ m.live
                => m.waiters[i].contender \in m'.live]_m
  <2>. SUFFICES ASSUME AdmissionInv, [Next]_m, m'.nextManagerEvent = m.nextManagerEvent,
                       NEW i \in DOMAIN m.waiters, NEW j \in DOMAIN m.waiters,
                       m.waiters[i].sequence < m.waiters[j].sequence,
                       m.waiters[j].contender \in m'.live \ m.live
                PROVE  m.waiters[i].contender \in m'.live
    OBVIOUS
  <2>1. Sorted(m.waiters) /\ m.waiters \in Seq(Queued) BY DEF AdmissionInv, Partway, Manager
  <2>2. i \in 1..Len(m.waiters) /\ j \in 1..Len(m.waiters) /\ Len(m.waiters) \in Nat BY <2>1, LenProperties
  <2>3. m.waiters[i].sequence \in Int /\ m.waiters[j].sequence \in Int
    <3>1. m.waiters[i] \in Queued /\ m.waiters[j] \in Queued BY <2>1, <2>2, ElementOfSeq
    <3>. QED BY <3>1, AdmissionConstants DEF Queued
  <2>4. ~(j < i) /\ i # j BY <2>1, <2>2, <2>3 DEF Sorted
  <2>5. i < j BY <2>2, <2>4
  <2>. QED BY <2>2, <2>5, StepLawful DEF Lawful
<1>2. AdmissionInv /\ [Next]_m =>
        [\A r \in m'.reservations \ m.reservations : r.prior = Ready =>
          \A s \in m'.live : evictionClass(m', s) # 0]_m
  BY StepLawful DEF Lawful
<1>. QED BY AdmissionInvariant, <1>1, <1>2, PTL DEF Spec, EvictionInOrder, EarliestServed, ReadyIsLastResort

\* When an eviction ends, however it ends, the queue gets shorter.
THEOREM EvictionsEndSomeWait == Spec => EvictionsEndWaits
<1>1. AdmissionInv /\ [Next]_m =>
        [m.reservations \ m'.reservations # {} => Len(m'.waiters) < Len(m.waiters)]_m
  BY StepLawful DEF Lawful
<1>. QED BY AdmissionInvariant, <1>1, PTL DEF Spec, EvictionsEndWaits
=============================================================================
