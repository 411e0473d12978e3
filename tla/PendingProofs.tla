--------------------------- MODULE PendingProofs ---------------------------
(***************************************************************************)
(* For every capacity and any number of requests, generations and          *)
(* cancelling goroutines: a cancel notification reaches the wire at most   *)
(* once per request, even with responses classified at any moment          *)
(* (SharedSpec), so that the half of Cancel that runs without the mutex    *)
(* cannot duplicate it; and with the stream owner's discipline (Spec) a    *)
(* response is accepted at most once and the counts of active requests,    *)
(* which decide what trimGenerations forgets, are right.                   *)
(***************************************************************************)
EXTENDS Pending, FiniteSetTheorems, SequenceTheorems, WellFoundedInduction, TLAPS

\* Only the variables the argument needs are typed: the notification does not
\* depend on genOrder and generations.
CancelType ==
    /\ next \in 0..MaxRequests
    /\ active \in [IDs -> Entry \cup {None}]
    /\ cancelling \in [Cancellers -> [key : Key, entry : Entry] \cup {None}]
    /\ written \in [IDs -> Nat]

\* The strengthening: a write that is out has not reached the wire, no two
\* writes are out for one request, and an id not handed out yet is untouched.
CancelInv ==
    /\ CancelType
    /\ CancelWrittenOnce
    /\ \A c \in InFlight : written[cancelling[c].key.id] = 0
    /\ \A c, d \in InFlight : cancelling[c].key.id = cancelling[d].key.id => c = d
    /\ \A i \in IDs : i > next => active[i] = None /\ written[i] = 0
    /\ \A c \in InFlight : cancelling[c].key.id <= next

\* None is no entry of the table.
LEMMA NoneIsNoRecord ==
    /\ None \notin Entry
    /\ None \notin [key : Key, entry : Entry]
BY DEF None, Entry

\* The empty table satisfies the invariant.
LEMMA CancelInit == Init => CancelInv
BY PendingConstants
DEF Init, CancelInv, CancelType, CancelWrittenOnce, ActiveIDs, InFlight, IDs, None

\* Begin starts a request without a cancel mark (Pending.Begin).
LEMMA BeginKeepsCancel ==
    ASSUME NEW g \in Generations, CancelInv, Begin(g)
    PROVE  CancelInv'
BY PendingConstants, NoneIsNoRecord
DEF Begin, CancelInv, CancelType, CancelWrittenOnce, ActiveIDs, InFlight, IDs, Entry, Key

\* Accept removes an entry or leaves it; it writes no cancellation (Pending.Accept).
LEMMA AcceptKeepsCancel ==
    ASSUME NEW k \in Key, CancelInv, Accept(k)
    PROVE  CancelInv'
<1>1. UNCHANGED <<next, cancelling, written>>
  BY DEF Accept
<1>2. active' = active \/ active' = [active EXCEPT ![k.id] = None]
  BY DEF Accept
<1>3. CASE active' = active
  BY <1>1, <1>3 DEF CancelInv, CancelType, CancelWrittenOnce, ActiveIDs, InFlight
<1>4. CASE active' = [active EXCEPT ![k.id] = None]
  BY <1>1, <1>4 DEF CancelInv, CancelType, CancelWrittenOnce, ActiveIDs, InFlight, Key
<1>5. QED
  BY <1>2, <1>3, <1>4

\* The first half of Cancel marks an unmarked entry (Pending.Cancel).
LEMMA MarkKeepsCancel ==
    ASSUME NEW c \in Cancellers, NEW k \in Key, CancelInv, CancelMark(c, k)
    PROVE  CancelInv'
<1> DEFINE e == [generation |-> k.generation, cancelWritten |-> TRUE]
<1>1. /\ UNCHANGED <<next, written>>
      /\ cancelling[c] = None
      /\ k.id \in ActiveIDs
      /\ ~active[k.id].cancelWritten
      /\ active' = [active EXCEPT ![k.id] = e]
      /\ cancelling' = [cancelling EXCEPT ![c] = [key |-> k, entry |-> e]]
  BY DEF CancelMark, history, ActiveIDs, Key
<1>2. e \in Entry /\ e # None /\ [key |-> k, entry |-> e] # None
  <2>1. e \in Entry
    BY DEF Entry, Key
  <2>2. [key |-> k, entry |-> e] \in [key : Key, entry : Entry]
    BY <2>1
  <2>3. QED
    BY <2>1, <2>2, NoneIsNoRecord
<1>3. /\ written[k.id] = 0
      /\ \A d \in InFlight : cancelling[d].key.id # k.id
      /\ k.id <= next
  BY <1>1, PendingConstants DEF CancelInv, CancelType, CancelWrittenOnce, ActiveIDs, IDs, Key
<1>4. InFlight' = InFlight \cup {c}
  BY <1>1, <1>2 DEF InFlight, CancelInv, CancelType
<1>5. ActiveIDs' = ActiveIDs
  BY <1>1, <1>2 DEF ActiveIDs, CancelInv, CancelType
<1>6. CancelType'
  BY <1>1, <1>2 DEF CancelInv, CancelType, Key
<1>7. CancelWrittenOnce'
  BY <1>1, <1>3, <1>4, <1>5 DEF CancelInv, CancelType, CancelWrittenOnce, ActiveIDs, InFlight
<1>8. \A d \in InFlight' : cancelling'[d] = IF d = c THEN [key |-> k, entry |-> e] ELSE cancelling[d]
  BY <1>1, <1>4 DEF CancelInv, CancelType, InFlight
<1>9. \A d, f \in InFlight' : cancelling'[d].key.id = cancelling'[f].key.id => d = f
  BY <1>3, <1>4, <1>8 DEF CancelInv
<1>10. \A i \in IDs : i > next' => active'[i] = None /\ written'[i] = 0
  BY <1>1, <1>3 DEF CancelInv, CancelType, ActiveIDs
<1>11. QED
  BY <1>1, <1>3, <1>4, <1>6, <1>7, <1>8, <1>9, <1>10 DEF CancelInv

\* The second half of Cancel after a complete write (Pending.Cancel).
LEMMA WroteKeepsCancel ==
    ASSUME NEW c \in Cancellers, CancelInv, CancelWrote(c)
    PROVE  CancelInv'
BY PendingConstants, NoneIsNoRecord
DEF CancelWrote, CancelInv, CancelType, CancelWrittenOnce, ActiveIDs, InFlight, IDs, Entry, Key

\* The second half of Cancel after a failed write gives the mark back (Pending.Cancel).
LEMMA FailedKeepsCancel ==
    ASSUME NEW c \in Cancellers, CancelInv, CancelFailed(c)
    PROVE  CancelInv'
BY PendingConstants, NoneIsNoRecord
DEF CancelFailed, history, CancelInv, CancelType, CancelWrittenOnce, ActiveIDs, InFlight, IDs, Entry, Key

\* Every step of the table keeps the invariant.
LEMMA NextKeepsCancel == CancelInv /\ [SharedNext]_vars => CancelInv'
<1> SUFFICES ASSUME CancelInv, [SharedNext]_vars PROVE CancelInv'
  OBVIOUS
<1>1. CASE \E g \in Generations : Begin(g)
  BY <1>1, BeginKeepsCancel
<1>2. CASE \E k \in Key : Accept(k)
  BY <1>2, AcceptKeepsCancel
<1>3. CASE CancelSteps
  BY <1>3, MarkKeepsCancel, WroteKeepsCancel, FailedKeepsCancel DEF CancelSteps
<1>4. CASE UNCHANGED vars
  BY <1>4
  DEF vars, CancelInv, CancelType, CancelWrittenOnce, ActiveIDs, InFlight
<1>5. QED
  BY <1>1, <1>2, <1>3, <1>4 DEF SharedNext

\* A cancel notification is written at most once per request, and an active
\* entry is marked exactly while a write is out or has succeeded, even when
\* responses are classified between the two halves of Cancel.
THEOREM CancelOnceShared == SharedSpec => []CancelWrittenOnce
<1>1. CancelInv => CancelWrittenOnce
  BY DEF CancelInv
<1>2. QED
  BY CancelInit, NextKeepsCancel, <1>1, PTL DEF SharedSpec

\* The protocol owner's steps are steps of the shared table, so the same holds
\* for the way RoundTrip uses it.
THEOREM CancelOnceOwned == Spec => []CancelWrittenOnce
<1>1. [Next]_vars => [SharedNext]_vars
  BY DEF Next, SharedNext, OwnedAccept
<1>2. CancelInv => CancelWrittenOnce
  BY DEF CancelInv
<1>3. QED
  BY CancelInit, NextKeepsCancel, <1>1, <1>2, PTL DEF Spec

-----------------------------------------------------------------------------
\* How many tombstones there are: all accepted keys, up to the capacity.
Kept == IF Len(accepted) > Cap THEN Cap ELSE Len(accepted)

\* The tombstones, element by element: the last Kept keys that were accepted.
Recent ==
    /\ order \in Seq(Key) /\ accepted \in Seq(Key)
    /\ Len(order) = Kept
    /\ \A j \in 1..Len(order) : order[j] = accepted[Len(accepted) - Kept + j]
    /\ tomb = {order[j] : j \in 1..Len(order)}

\* What keeps an accepted request from coming back: it is not active, its id is not
\* handed out again, and nobody holds a copy of its entry, because the owner of
\* the stream joins its cancel write before it reads another response.
ResponseInv ==
    /\ CancelInv /\ Recent /\ AcceptedOnce
    /\ \A j \in 1..Len(accepted) : active[accepted[j].id] = None /\ accepted[j].id <= next
    /\ \A c \in InFlight : active[cancelling[c].key.id] # None

\* The pointwise form is the one the property states.
LEMMA RecentIsTail == Recent => TombstonesAreRecent
<1>. SUFFICES ASSUME Recent PROVE TombstonesAreRecent OBVIOUS
<1>. DEFINE n == Len(accepted)
            t == SubSeq(accepted, n - Kept + 1, n)
<1>1. n \in Nat /\ Kept \in 0..n
  BY PendingConstants DEF Recent, Kept
<1>2. \A i \in (n - Kept + 1)..n : accepted[i] \in Key
  BY <1>1, ElementOfSeq DEF Recent
<1>3. /\ t \in Seq(Key)
      /\ Len(t) = IF n - Kept + 1 <= n THEN n - (n - Kept + 1) + 1 ELSE 0
      /\ \A i \in 1..(n - (n - Kept + 1) + 1) : t[i] = accepted[n - Kept + 1 + i - 1]
  BY <1>1, <1>2, SubSeqProperties
<1>4. Len(t) = Len(order) /\ \A i \in 1..Len(order) : order[i] = t[i]
  BY <1>1, <1>3 DEF Recent
<1>5. order = t
  BY <1>3, <1>4, SeqEqual DEF Recent
<1>6. tomb = ToSet(order)
  BY DEF Recent, ToSet
<1>. QED BY <1>5, <1>6 DEF TombstonesAreRecent, Kept

\* Accepting a key that was not accepted before moves the tombstones by one
\* (Pending.addTomb).
LEMMA TombStep ==
    ASSUME NEW k \in Key, Recent, AcceptedOnce, addTomb(k),
           accepted' = Append(accepted, k), \A j \in 1..Len(accepted) : accepted[j] # k
    PROVE  Recent' /\ AcceptedOnce'
<1>. DEFINE n == Len(accepted)
            longer == Append(order, k)
<1>1. /\ accepted' \in Seq(Key) /\ Len(accepted') = n + 1 /\ n \in Nat
      /\ \A i \in 1..n : accepted'[i] = accepted[i]
      /\ accepted'[n + 1] = k
  BY AppendProperties DEF Recent
<1>2. AcceptedOnce'
  <2>1. DOMAIN accepted' = 1..(n + 1) /\ DOMAIN accepted = 1..n
    BY <1>1 DEF Recent
  <2>2. \A i \in 1..(n + 1) : i \in 1..n \/ i = n + 1
    BY <1>1
  <2>. QED BY <1>1, <2>1, <2>2 DEF AcceptedOnce
<1>3. /\ longer \in Seq(Key) /\ longer # << >> /\ Len(longer) = Len(order) + 1
      /\ \A i \in 1..Len(order) : longer[i] = order[i]
      /\ longer[Len(order) + 1] = k /\ Len(order) \in Nat
  <2>1. order \in Seq(Key) BY DEF Recent
  <2>. HIDE DEF Key
  <2>. QED BY <2>1, AppendProperties
<1>4. /\ Tail(longer) \in Seq(Key) /\ Len(Tail(longer)) = Len(order)
      /\ \A i \in 1..Len(order) : Tail(longer)[i] = longer[i + 1]
      /\ Head(longer) = longer[1]
  BY <1>3, HeadTailProperties
<1>5. Kept' = IF n + 1 > Cap THEN Cap ELSE n + 1
  BY <1>1 DEF Kept
<1>6. CASE Cap = 0
  <2>1. order' = order /\ tomb' = tomb BY <1>6 DEF addTomb
  <2>2. Len(order) = 0 /\ Kept' = 0 BY <1>1, <1>5, <1>6 DEF Recent, Kept
  <2>3. tomb' = {order'[j] : j \in 1..Len(order')} BY <2>1 DEF Recent
  <2>4. order' \in Seq(Key) BY <2>1 DEF Recent
  <2>. QED BY <1>1, <1>2, <2>1, <2>2, <2>3, <2>4 DEF Recent
<1>7. CASE Cap # 0 /\ Len(longer) > Cap
  <2>1. order' = Tail(longer) /\ tomb' = (tomb \cup {k}) \ {Head(longer)}
    BY <1>7 DEF addTomb
  <2>2. Len(order) = Cap /\ Kept' = Cap /\ Kept = Cap /\ n >= Cap /\ Cap \in Nat
    BY <1>3, <1>5, <1>7, PendingConstants DEF Recent, Kept
  <2>3. \A j \in 1..Cap : order'[j] = accepted'[n + 1 - Cap + j]
    <3>. TAKE j \in 1..Cap
    <3>1. order'[j] = longer[j + 1] BY <1>4, <2>1, <2>2
    <3>2. CASE j = Cap BY <1>1, <1>3, <2>2, <3>1, <3>2
    <3>3. CASE j # Cap
      <4>1. j + 1 \in 1..Cap BY <2>2, <3>3
      <4>2. longer[j + 1] = accepted[n - Cap + (j + 1)] BY <1>3, <2>2, <4>1 DEF Recent
      <4>3. n - Cap + (j + 1) \in 1..n /\ n - Cap + (j + 1) = n + 1 - Cap + j BY <1>1, <2>2, <4>1
      <4>. QED BY <1>1, <3>1, <4>2, <4>3
    <3>. QED BY <3>2, <3>3
  <2>4. tomb' = {order'[j] : j \in 1..Len(order')}
    <3>1. \A i, j \in 1..Len(longer) : longer[i] = longer[j] => i = j
      <4>. TAKE i \in 1..Len(longer), j \in 1..Len(longer)
      <4>1. \A m \in 1..Cap : longer[m] = accepted[n - Cap + m] /\ n - Cap + m \in 1..n
        BY <1>1, <1>3, <2>2 DEF Recent
      <4>2. DOMAIN accepted = 1..n BY DEF Recent
      <4>a. \A m \in 1..Cap : longer[m] # k BY <4>1
      <4>b. longer[Cap + 1] = k /\ (i # Cap + 1 => i \in 1..Cap) /\ (j # Cap + 1 => j \in 1..Cap)
        BY <1>3, <2>2
      <4>3. CASE i = Cap + 1 \/ j = Cap + 1
        BY <4>3, <4>a, <4>b
      <4>4. CASE i # Cap + 1 /\ j # Cap + 1
        <5>1. i \in 1..Cap /\ j \in 1..Cap BY <1>3, <2>2, <4>4
        <5>2. longer[i] = longer[j] => n - Cap + i = n - Cap + j
          BY <4>1, <4>2, <5>1 DEF AcceptedOnce
        <5>. QED BY <5>1, <5>2, <1>1, <2>2
      <4>. QED BY <4>3, <4>4
    <3>2. tomb \cup {k} = {longer[j] : j \in 1..Len(longer)}
      BY <1>3 DEF Recent
    <3>3. tomb' = {longer[j] : j \in 2..Len(longer)}
      <4>1. 1 \in 1..Len(longer) /\ \A j \in 1..Len(longer) : j \in 2..Len(longer) <=> j # 1
        BY <1>3
      <4>2. \A j \in 1..Len(longer) : longer[j] = longer[1] <=> j = 1
        BY <3>1, <4>1
      <4>3. tomb' = {longer[j] : j \in 1..Len(longer)} \ {longer[1]}
        BY <2>1, <3>2, <1>4
      <4>4. \A j \in 2..Len(longer) : j \in 1..Len(longer) BY <1>3
      <4>. QED BY <4>1, <4>2, <4>3, <4>4
    <3>4. \A j \in 1..Cap : order'[j] = longer[j + 1] BY <1>4, <2>1, <2>2
    <3>5. Len(order') = Cap /\ Len(longer) = Cap + 1 BY <1>3, <1>4, <2>1, <2>2
    <3>6. \A x : (\E j \in 2..(Cap + 1) : x = longer[j]) <=> (\E j \in 1..Cap : x = order'[j])
      <4>1. ASSUME NEW j \in 2..(Cap + 1) PROVE \E m \in 1..Cap : order'[m] = longer[j]
        <5>1. j - 1 \in 1..Cap /\ (j - 1) + 1 = j BY <2>2
        <5>. QED BY <3>4, <5>1
      <4>2. ASSUME NEW j \in 1..Cap PROVE \E m \in 2..(Cap + 1) : longer[m] = order'[j]
        <5>1. j + 1 \in 2..(Cap + 1) BY <2>2
        <5>. QED BY <3>4, <5>1
      <4>. QED BY <4>1, <4>2
    <3>. QED BY <3>3, <3>5, <3>6
  <2>5. order' \in Seq(Key) /\ Len(order') = Kept' BY <1>4, <2>1, <2>2
  <2>6. \A j \in 1..Len(order') : order'[j] = accepted'[Len(accepted') - Kept' + j]
    <3>1. Len(order') = Cap /\ Len(accepted') - Kept' = n + 1 - Cap BY <1>1, <2>2, <2>5
    <3>. QED BY <2>3, <3>1
  <2>. QED BY <1>1, <1>2, <2>4, <2>5, <2>6 DEF Recent
<1>8. CASE Cap # 0 /\ Len(longer) <= Cap
  <2>1. order' = longer /\ tomb' = tomb \cup {k}
    BY <1>3, <1>8, PendingConstants DEF addTomb
  <2>2. Len(order) = n /\ Kept' = n + 1 /\ Kept = n
    BY <1>1, <1>3, <1>5, <1>8, PendingConstants DEF Recent, Kept
  <2>3. \A j \in 1..Len(order') : order'[j] = accepted'[Len(accepted') - Kept' + j]
    BY <1>1, <1>3, <2>1, <2>2 DEF Recent
  <2>4. tomb' = {order'[j] : j \in 1..Len(order')}
    BY <1>3, <2>1 DEF Recent
  <2>. QED BY <1>1, <1>2, <1>3, <2>1, <2>2, <2>3, <2>4 DEF Recent
<1>. QED BY <1>3, <1>6, <1>7, <1>8, PendingConstants

\* The empty table.
LEMMA ResponseInit == Init => ResponseInv
<1>. SUFFICES ASSUME Init PROVE ResponseInv OBVIOUS
<1>1. CancelInv BY CancelInit
<1>2. /\ order = << >> /\ accepted = << >> /\ tomb = {}
      /\ cancelling = [c \in Cancellers |-> None]
  BY DEF Init
<1>3. order \in Seq(Key) /\ Len(order) = 0 /\ Len(accepted) = 0 BY <1>2
<1>4. Recent BY <1>2, <1>3, PendingConstants DEF Recent, Kept
<1>5. AcceptedOnce BY <1>2 DEF AcceptedOnce
<1>6. InFlight = {} BY <1>2 DEF InFlight
<1>. QED BY <1>1, <1>3, <1>4, <1>5, <1>6 DEF ResponseInv

\* Steps that accept nothing and make nothing active but what was active or new.
LEMMA OtherStep ==
    ASSUME ResponseInv, CancelInv', UNCHANGED <<tomb, order, accepted>>, next <= next',
           \A i \in IDs : active[i] = None /\ i <= next => active'[i] = None,
           \A c \in InFlight' : active'[cancelling'[c].key.id] # None
    PROVE  ResponseInv'
<1>1. Recent' /\ AcceptedOnce' BY DEF ResponseInv, Recent, Kept, AcceptedOnce
<1>2. \A j \in 1..Len(accepted) : accepted[j] \in Key BY ElementOfSeq DEF ResponseInv, Recent
<1>3. next \in Nat /\ next' \in Nat BY PendingConstants DEF ResponseInv, CancelInv, CancelType
<1>4. \A j \in 1..Len(accepted) : accepted[j].id \in IDs BY <1>2 DEF Key
<1>5. \A j \in 1..Len(accepted') : active'[accepted'[j].id] = None /\ accepted'[j].id <= next'
  BY <1>3, <1>4, PendingConstants DEF ResponseInv, IDs
<1>. QED BY <1>1, <1>5 DEF ResponseInv

\* A response is classified while no cancel write is out (Pending.Accept under the
\* owner of the stream).
LEMMA AcceptKeepsResponses ==
    ASSUME NEW k \in Key, ResponseInv, OwnedAccept(k)
    PROVE  ResponseInv'
<1>1. CancelInv' BY AcceptKeepsCancel DEF ResponseInv, OwnedAccept
<1>2. InFlight = {} /\ InFlight' = {} BY DEF OwnedAccept, Accept, InFlight
<1>3. k.id \in IDs BY DEF Key
<1>4. next' = next BY DEF OwnedAccept, Accept
<1>5. CASE disposition(k) # "ACCEPTED"
  <2>1. UNCHANGED <<active, tomb, order, accepted>> BY <1>5 DEF OwnedAccept, Accept
  <2>2. next <= next' BY <1>4, PendingConstants DEF ResponseInv, CancelInv, CancelType
  <2>. QED BY <1>1, <1>2, <2>1, <2>2, OtherStep
<1>6. CASE disposition(k) = "ACCEPTED"
  <2>1. /\ active' = [active EXCEPT ![k.id] = None] /\ addTomb(k)
        /\ accepted' = Append(accepted, k)
    BY <1>6 DEF OwnedAccept, Accept
  <2>2. active[k.id] # None BY <1>6 DEF disposition
  <2>3. k.id <= next
    BY <1>3, <2>2, PendingConstants DEF ResponseInv, CancelInv, CancelType, IDs
  <2>4. \A j \in 1..Len(accepted) : accepted[j] # k BY <2>2 DEF ResponseInv
  <2>5. Recent' /\ AcceptedOnce' BY <2>1, <2>4, TombStep DEF ResponseInv
  <2>6. /\ Len(accepted') = Len(accepted) + 1 /\ Len(accepted) \in Nat
        /\ \A i \in 1..Len(accepted) : accepted'[i] = accepted[i]
        /\ accepted'[Len(accepted) + 1] = k
    BY <2>1, AppendProperties DEF ResponseInv, Recent
  <2>7. \A j \in 1..Len(accepted) : accepted[j].id \in IDs
    <3>1. \A j \in 1..Len(accepted) : accepted[j] \in Key BY ElementOfSeq DEF ResponseInv, Recent
    <3>. QED BY <3>1 DEF Key
  <2>8. \A i \in IDs : active[i] = None => active'[i] = None
    BY <2>1 DEF ResponseInv, CancelInv, CancelType
  <2>9. active'[k.id] = None BY <1>3, <2>1 DEF ResponseInv, CancelInv, CancelType
  <2>10. ASSUME NEW j \in 1..Len(accepted')
         PROVE  active'[accepted'[j].id] = None /\ accepted'[j].id <= next'
    <3>1. CASE j \in 1..Len(accepted)
      BY <1>4, <2>6, <2>7, <2>8, <3>1 DEF ResponseInv
    <3>2. CASE j = Len(accepted) + 1
      BY <1>4, <2>3, <2>6, <2>9, <3>2
    <3>. QED BY <2>6, <3>1, <3>2
  <2>. QED BY <1>1, <1>2, <2>5, <2>10 DEF ResponseInv
<1>. QED BY <1>5, <1>6

\* Begin hands out an id that nothing was accepted under.
LEMMA BeginKeepsResponses ==
    ASSUME NEW g \in Generations, ResponseInv, Begin(g)
    PROVE  ResponseInv'
<1>1. CancelInv' BY BeginKeepsCancel DEF ResponseInv
<1>2. /\ next' = next + 1 /\ UNCHANGED <<tomb, order, accepted, cancelling>>
      /\ active' = [active EXCEPT ![next + 1] = [generation |-> g, cancelWritten |-> FALSE]]
  BY DEF Begin
<1>3. next \in Nat BY PendingConstants DEF ResponseInv, CancelInv, CancelType
<1>4. \A i \in IDs : i # next + 1 => active'[i] = active[i]
  BY <1>2 DEF ResponseInv, CancelInv, CancelType
<1>5. \A i \in IDs : active[i] = None /\ i <= next => active'[i] = None
  BY <1>3, <1>4 DEF IDs
<1>6. \A c \in InFlight' : c \in InFlight /\ cancelling'[c] = cancelling[c] BY <1>2 DEF InFlight
<1>7. \A c \in InFlight : cancelling[c].key.id \in IDs /\ cancelling[c].key.id <= next
  BY NoneIsNoRecord DEF ResponseInv, CancelInv, CancelType, InFlight, Key
<1>8. \A c \in InFlight' : active'[cancelling'[c].key.id] # None
  BY <1>3, <1>4, <1>6, <1>7 DEF ResponseInv, IDs
<1>9. next <= next' BY <1>2, <1>3
<1>. QED BY <1>1, <1>2, <1>5, <1>8, <1>9, OtherStep

\* The two halves of Cancel touch only entries that are active.
LEMMA CancelKeepsResponses ==
    ASSUME ResponseInv, CancelSteps
    PROVE  ResponseInv'
<1>1. CancelInv'
  BY MarkKeepsCancel, WroteKeepsCancel, FailedKeepsCancel DEF CancelSteps, ResponseInv
<1>2. UNCHANGED <<tomb, order, accepted>> /\ next' = next
  BY DEF CancelSteps, CancelMark, CancelWrote, CancelFailed, history
<1>3. next <= next' BY <1>2, PendingConstants DEF ResponseInv, CancelInv, CancelType
<1>4. \A c \in InFlight : cancelling[c].key.id \in IDs
  BY NoneIsNoRecord DEF ResponseInv, CancelInv, CancelType, InFlight, Key
<1>5. ASSUME NEW c \in Cancellers, NEW k \in Key, CancelMark(c, k) PROVE ResponseInv'
  <2>. DEFINE e == [generation |-> k.generation, cancelWritten |-> TRUE]
  <2>1. /\ active[k.id] # None /\ active' = [active EXCEPT ![k.id] = e]
        /\ cancelling' = [cancelling EXCEPT ![c] = [key |-> k, entry |-> e]]
    BY <1>5 DEF CancelMark
  <2>2. k.id \in IDs /\ e # None
    <3>1. k.id \in IDs BY DEF Key
    <3>2. e \in Entry BY DEF Entry, Key
    <3>. QED BY <3>1, <3>2, NoneIsNoRecord
  <2>3. \A i \in IDs : active'[i] = None <=> active[i] = None
    BY <2>1, <2>2 DEF ResponseInv, CancelInv, CancelType
  <2>4. ASSUME NEW d \in InFlight' PROVE active'[cancelling'[d].key.id] # None
    <3>1. CASE d = c
      BY <2>1, <2>2, <2>3, <3>1 DEF ResponseInv, CancelInv, CancelType
    <3>2. CASE d # c
      <4>1. cancelling'[d] = cancelling[d] /\ d \in InFlight
        BY <2>1, <3>2 DEF InFlight, ResponseInv, CancelInv, CancelType
      <4>. QED BY <1>4, <2>3, <4>1 DEF ResponseInv
    <3>. QED BY <3>1, <3>2
  <2>. QED BY <1>1, <1>2, <1>3, <2>3, <2>4, OtherStep
<1>6. ASSUME NEW c \in Cancellers, CancelWrote(c) PROVE ResponseInv'
  <2>1. active' = active /\ cancelling' = [cancelling EXCEPT ![c] = None]
    BY <1>6 DEF CancelWrote
  <2>2. \A d \in InFlight' : d \in InFlight /\ cancelling'[d] = cancelling[d]
    BY <2>1 DEF InFlight, ResponseInv, CancelInv, CancelType
  <2>. QED BY <1>1, <1>2, <1>3, <2>1, <2>2, OtherStep DEF ResponseInv
<1>7. ASSUME NEW c \in Cancellers, CancelFailed(c) PROVE ResponseInv'
  <2>. DEFINE e == [generation |-> cancelling[c].entry.generation, cancelWritten |-> FALSE]
              x == cancelling[c].key.id
  <2>1. /\ active' = [active EXCEPT ![x] = e] /\ cancelling' = [cancelling EXCEPT ![c] = None]
        /\ c \in InFlight
    BY <1>7 DEF CancelFailed, InFlight
  <2>2. e # None /\ x \in IDs /\ active[x] # None
    <3>1. cancelling[c] \in [key : Key, entry : Entry]
      BY <2>1 DEF ResponseInv, CancelInv, CancelType, InFlight
    <3>2. e \in Entry BY <3>1 DEF Entry
    <3>. QED BY <1>4, <2>1, <3>2, NoneIsNoRecord DEF ResponseInv
  <2>3. \A i \in IDs : active'[i] = None <=> active[i] = None
    BY <2>1, <2>2 DEF ResponseInv, CancelInv, CancelType
  <2>4. \A d \in InFlight' : d \in InFlight /\ cancelling'[d] = cancelling[d]
    BY <2>1 DEF InFlight, ResponseInv, CancelInv, CancelType
  <2>5. \A d \in InFlight' : active'[cancelling'[d].key.id] # None
    BY <1>4, <2>3, <2>4 DEF ResponseInv
  <2>. QED BY <1>1, <1>2, <1>3, <2>3, <2>5, OtherStep
<1>. QED BY <1>5, <1>6, <1>7 DEF CancelSteps

\* A step that changes nothing.
LEMMA StutterKeepsResponses ==
    ASSUME ResponseInv, UNCHANGED vars
    PROVE  ResponseInv'
<1>1. CancelInv' BY NextKeepsCancel DEF ResponseInv
<1>2. UNCHANGED <<next, active, tomb, order, accepted, cancelling>> BY DEF vars
<1>3. next <= next' BY <1>2, PendingConstants DEF ResponseInv, CancelInv, CancelType
<1>4. \A c \in InFlight' : active'[cancelling'[c].key.id] # None
  BY <1>2 DEF InFlight, ResponseInv
<1>. QED BY <1>1, <1>2, <1>3, <1>4, OtherStep

\* For every capacity and any number of requests, generations and cancellers: as long
\* as the owner of the stream joins its cancel write before it reads on (RoundTrip),
\* a response is accepted at most once, also after its tombstone is gone, and the
\* tombstones are exactly the last keys accepted.
THEOREM ResponsesAcceptedOnce == Spec => []ResponsesOnce
<1>1. ResponseInv /\ [Next]_vars => ResponseInv'
  <2>. SUFFICES ASSUME ResponseInv, [Next]_vars PROVE ResponseInv' OBVIOUS
  <2>1. CASE \E g \in Generations : Begin(g) BY <2>1, BeginKeepsResponses
  <2>2. CASE \E k \in Key : OwnedAccept(k) BY <2>2, AcceptKeepsResponses
  <2>3. CASE CancelSteps BY <2>3, CancelKeepsResponses
  <2>4. CASE UNCHANGED vars BY <2>4, StutterKeepsResponses
  <2>. QED BY <2>1, <2>2, <2>3, <2>4 DEF Next
<1>2. ResponseInv => ResponsesOnce
  BY RecentIsTail DEF ResponseInv, ResponsesOnce
<1>. QED BY ResponseInit, <1>1, <1>2, PTL DEF Spec
-----------------------------------------------------------------------------
\* Every nonempty set of naturals has a least element.
Less == {p \in Nat \X Nat : p[1] < p[2]}

\* The order of the naturals is well founded,
LEMMA LessWellFounded == IsWellFoundedOn(Less, Nat)
BY NatLessThanWellFounded DEF OpToRel, Less

\* so every nonempty set of them has a least element.
LEMMA LeastNatural ==
    ASSUME NEW Q, Q \subseteq Nat, Q # {}
    PROVE  \E m \in Q : \A q \in Q : m <= q
<1>1. PICK m \in Q : \A q \in Q : ~(<<q, m>> \in Less)
  BY LessWellFounded, WFMin
<1>2. \A q \in Q : ~(q < m)
  BY <1>1 DEF Less
<1>3. QED
  BY <1>2

\* f is a run of the loop of trimGenerations from x, n passes long.
Runs(x, f, n) ==
    f = [k \in 0..n |-> IF k = 0 THEN x ELSE TrimPass(f[k - 1])]

\* There is one of every length: a shortest missing one would extend its predecessor.
LEMMA PassesExist ==
    ASSUME NEW x, NEW n \in Nat
    PROVE  \E f : Runs(x, f, n)
<1>. DEFINE Q == {k \in Nat : ~ \E f : Runs(x, f, k)}
<1>. SUFFICES ASSUME Q # {} PROVE FALSE OBVIOUS
<1>1. PICK m \in Q : \A q \in Q : m <= q
  BY LeastNatural
<1>2. m # 0
  <2>1. Runs(x, [k \in 0..0 |-> x], 0) BY DEF Runs
  <2>. QED BY <2>1
<1>3. m - 1 \in Nat /\ m - 1 \notin Q
  BY <1>1, <1>2
<1>4. PICK f : Runs(x, f, m - 1)
  BY <1>3
<1>. DEFINE h == [k \in 0..m |-> IF k = m THEN TrimPass(f[m - 1]) ELSE f[k]]
<1>5. Runs(x, h, m)
  <2>1. \A k \in 0..m : k = m \/ k \in 0..(m - 1)
    BY <1>3
  <2>2. \A k \in 0..(m - 1) : f[k] = IF k = 0 THEN x ELSE TrimPass(f[k - 1])
    BY <1>4 DEF Runs
  <2>3. \A k \in 0..m : h[k] = IF k = 0 THEN x ELSE TrimPass(h[k - 1])
    <3>. TAKE k \in 0..m
    <3>1. CASE k = 0 BY <1>2, <1>3, <2>2, <3>1
    <3>2. CASE k # 0 /\ k = m
      <4>1. k - 1 \in 0..m /\ k - 1 # m BY <1>3, <3>2
      <4>. QED BY <3>2, <4>1
    <3>3. CASE k # 0 /\ k # m
      <4>1. k - 1 \in 0..m /\ k - 1 # m /\ k \in 0..(m - 1) BY <1>3, <3>3
      <4>. QED BY <2>2, <3>3, <4>1
    <3>. QED BY <3>1, <3>2, <3>3
  <2>. HIDE DEF h
  <2>4. h = [k \in 0..m |-> h[k]] BY DEF h
  <2>. QED BY <2>3, <2>4 DEF Runs
<1>. QED BY <1>5

\* The function that Passes defines is one.
LEMMA PassesRun ==
    ASSUME NEW x, Len(x.order) \in Nat
    PROVE  Runs(x, Passes(x), Len(x.order))
<1>1. Passes(x) = CHOOSE f : Runs(x, f, Len(x.order))
  BY DEF Passes, Runs
<1>. QED BY <1>1, PassesExist

\* A sequence without its m-th element, pointwise.
LEMMA RemoveOne ==
    ASSUME NEW S, NEW q \in Seq(S), NEW m \in 1..Len(q)
    PROVE  /\ RemoveAt(q, m) \in Seq(S) /\ Len(RemoveAt(q, m)) = Len(q) - 1
           /\ \A k \in 1..(Len(q) - 1) : RemoveAt(q, m)[k] = IF k < m THEN q[k] ELSE q[k + 1]
<1> DEFINE r == RemoveAt(q, m)
<1> HIDE DEF r
<1>1. PICK n \in Nat : n = Len(q) /\ m \in 1..n
  OBVIOUS
<1>2. PICK front : front = SubSeq(q, 1, m - 1)
  OBVIOUS
<1>3. PICK back : back = SubSeq(q, m + 1, n)
  OBVIOUS
<1>4. /\ front \in Seq(S) /\ Len(front) = m - 1
      /\ \A k \in 1..(m - 1) : front[k] = q[k]
  <2>1. \A k \in 1..(m - 1) : q[k] \in S
    BY <1>1
  <2>2. /\ SubSeq(q, 1, m - 1) \in Seq(S)
        /\ Len(SubSeq(q, 1, m - 1)) = IF 1 <= m - 1 THEN (m - 1) - 1 + 1 ELSE 0
        /\ \A k \in 1..((m - 1) - 1 + 1) : SubSeq(q, 1, m - 1)[k] = q[1 + k - 1]
    BY <1>1, <2>1, SubSeqProperties
  <2>3. (m - 1) - 1 + 1 = m - 1 /\ (\A k \in 1..(m - 1) : 1 + k - 1 = k) /\ (1 <= m - 1 \/ m - 1 = 0)
    BY <1>1
  <2>4. QED
    BY <1>2, <2>2, <2>3
<1>5. /\ back \in Seq(S) /\ Len(back) = n - m
      /\ \A k \in 1..(n - m) : back[k] = q[m + k]
  <2>1. \A k \in (m + 1)..n : q[k] \in S
    BY <1>1
  <2>2. /\ SubSeq(q, m + 1, n) \in Seq(S)
        /\ Len(SubSeq(q, m + 1, n)) = IF m + 1 <= n THEN n - (m + 1) + 1 ELSE 0
        /\ \A k \in 1..(n - (m + 1) + 1) : SubSeq(q, m + 1, n)[k] = q[(m + 1) + k - 1]
    BY <1>1, <2>1, SubSeqProperties
  <2>3. n - (m + 1) + 1 = n - m /\ (\A k \in 1..(n - m) : (m + 1) + k - 1 = m + k) /\ (m + 1 <= n \/ n - m = 0)
    BY <1>1
  <2>4. QED
    BY <1>3, <2>2, <2>3
<1>6. /\ r \in Seq(S) /\ Len(r) = (m - 1) + (n - m)
      /\ \A k \in 1..((m - 1) + (n - m)) : r[k] = IF k <= m - 1 THEN front[k] ELSE back[k - (m - 1)]
  <2>1. r = front \o back
    BY <1>1, <1>2, <1>3 DEF r, RemoveAt
  <2>2. /\ front \o back \in Seq(S) /\ Len(front \o back) = Len(front) + Len(back)
        /\ \A k \in 1..(Len(front) + Len(back)) :
              (front \o back)[k] = IF k <= Len(front) THEN front[k] ELSE back[k - Len(front)]
    BY <1>4, <1>5, ConcatProperties
  <2>3. Len(front) = m - 1 /\ Len(back) = n - m
    BY <1>4, <1>5
  <2>4. QED
    BY <2>1, <2>2, <2>3
<1>7. Len(r) = n - 1 /\ (m - 1) + (n - m) = n - 1
  BY <1>1, <1>6
<1>8. ASSUME NEW k \in 1..(n - 1) PROVE r[k] = IF k < m THEN q[k] ELSE q[k + 1]
  <2>1. CASE k < m
    <3>1. k \in 1..(m - 1) /\ k <= m - 1
      BY <1>1, <2>1
    <3>2. QED
      BY <1>4, <1>6, <1>7, <2>1, <3>1
  <2>2. CASE ~(k < m)
    <3>1. k - (m - 1) \in 1..(n - m) /\ ~(k <= m - 1) /\ m + (k - (m - 1)) = k + 1
      BY <1>1, <2>2
    <3>2. QED
      BY <1>5, <1>6, <1>7, <2>2, <3>1
  <2>3. QED
    BY <2>1, <2>2
<1>9. QED
  BY <1>1, <1>6, <1>7, <1>8 DEF r

\* The order lists every remembered generation once.
Listed(x) ==
    /\ x = [counts |-> x.counts, order |-> x.order]
    /\ x.order \in Seq(Generations)
    /\ DOMAIN x.counts = ToSet(x.order)
    /\ x.counts = [g \in DOMAIN x.counts |-> x.counts[g]]
    /\ \A i, j \in 1..Len(x.order) : x.order[i] = x.order[j] => i = j

\* so there are as many as it is long.
LEMMA ListedCount ==
    ASSUME NEW x, Listed(x)
    PROVE  Cardinality(DOMAIN x.counts) = Len(x.order) /\ IsFiniteSet(DOMAIN x.counts)
<1>. DEFINE D == DOMAIN x.counts
            n == Len(x.order)
<1>1. n \in Nat /\ DOMAIN x.order = 1..n /\ x.order = [i \in 1..n |-> x.order[i]] BY DEF Listed
<1>2. D = {x.order[i] : i \in 1..n} BY <1>1 DEF Listed, ToSet
<1>3. x.order \in [1..n -> D] BY <1>1, <1>2
<1>4. x.order \in Bijection(1..n, D)
  <2>0. \A a, b \in 1..n : x.order[a] = x.order[b] => a = b BY DEF Listed
  <2>1. x.order \in Injection(1..n, D) BY <1>3, <2>0 DEF Injection, IsInjective
  <2>2. x.order \in Surjection(1..n, D) BY <1>2, <1>3 DEF Surjection
  <2>. QED BY <2>1, <2>2 DEF Bijection
<1>5. ExistsBijection(1..n, D) BY <1>4 DEF ExistsBijection
<1>. QED BY <1>1, <1>5, FS_CountingElements, FS_NatBijection

\* The loop has nothing more to forget.
Settled(x) == Cardinality(DOMAIN x.counts) > Cap => Idle(x) = {}

\* y remembers of x all but idle generations, with their counts.
Shrunk(x, y) ==
    /\ DOMAIN y.counts \subseteq DOMAIN x.counts
    /\ \A g \in DOMAIN y.counts : y.counts[g] = x.counts[g]
    /\ \A g \in DOMAIN x.counts \ DOMAIN y.counts : x.counts[g] = 0

\* One pass forgets one generation, an idle one, or the loop has ended.
LEMMA PassStep ==
    ASSUME NEW x, Listed(x)
    PROVE  LET y == TrimPass(x) IN
           /\ Listed(y) /\ Shrunk(x, y)
           /\ IF Settled(x) THEN y = x ELSE Len(y.order) = Len(x.order) - 1
<1>1. CASE Settled(x)
  <2>1. TrimPass(x) = x BY <1>1 DEF TrimPass, Settled
  <2>. QED BY <1>1, <2>1 DEF Shrunk
<1>2. CASE ~Settled(x)
  <2>. DEFINE q == x.order
              i == Min(Idle(x))
              C == DOMAIN x.counts \ {q[i]}
              y == [counts |-> [g \in C |-> x.counts[g]], order |-> RemoveAt(q, i)]
  <2>1. TrimPass(x) = y BY <1>2 DEF TrimPass, Settled
  <2>2. q \in Seq(Generations) /\ DOMAIN q = 1..Len(q) /\ Len(q) \in Nat BY DEF Listed
  <2>3. i \in 1..Len(q) /\ x.counts[q[i]] = 0
    <3>1. Idle(x) # {} /\ Idle(x) \subseteq Nat BY <1>2, <2>2 DEF Settled, Idle
    <3>2. \E m \in Idle(x) : \A k \in Idle(x) : m <= k BY <3>1, LeastNatural
    <3>3. i \in Idle(x) BY <3>2 DEF Min
    <3>. QED BY <2>2, <3>3 DEF Idle
  <2>. HIDE DEF i
  <2>4. /\ RemoveAt(q, i) \in Seq(Generations) /\ Len(RemoveAt(q, i)) = Len(q) - 1
        /\ \A k \in 1..(Len(q) - 1) : RemoveAt(q, i)[k] = IF k < i THEN q[k] ELSE q[k + 1]
    BY <2>2, <2>3, RemoveOne
  <2>. DEFINE r == RemoveAt(q, i)
              n == Len(q)
  <2>. HIDE DEF r
  <2>5. DOMAIN r = 1..(n - 1) /\ r \in Seq(Generations) /\ Len(r) = n - 1 BY <2>2, <2>4 DEF r
  <2>6. \A k \in 1..(n - 1) : r[k] = q[IF k < i THEN k ELSE k + 1] /\ (IF k < i THEN k ELSE k + 1) \in 1..n \ {i}
    BY <2>2, <2>3, <2>4 DEF r
  <2>7. \A a, b \in 1..n : q[a] = q[b] => a = b BY DEF Listed
  <2>8. \A a, b \in 1..(n - 1) : r[a] = r[b] => a = b
    <3>. TAKE a \in 1..(n - 1), b \in 1..(n - 1)
    <3>. HAVE r[a] = r[b]
    <3>1. (IF a < i THEN a ELSE a + 1) = (IF b < i THEN b ELSE b + 1) BY <2>6, <2>7
    <3>. QED BY <2>2, <2>3, <3>1
  <2>9. ToSet(r) = C
    <3>1. DOMAIN x.counts = {q[k] : k \in 1..n} BY <2>2 DEF Listed, ToSet
    <3>2. ToSet(r) = {r[k] : k \in 1..(n - 1)} BY <2>5 DEF ToSet
    <3>3. \A k \in 1..(n - 1) : r[k] \in C BY <2>3, <2>6, <2>7, <3>1
    <3>4. ASSUME NEW g \in C PROVE \E k \in 1..(n - 1) : r[k] = g
      <4>1. PICK k \in 1..n : g = q[k] BY <3>1
      <4>2. k # i BY <4>1
      <4>3. CASE k < i
        <5>1. k \in 1..(n - 1) BY <2>2, <2>3, <4>3
        <5>. QED BY <2>6, <4>1, <4>3, <5>1
      <4>4. CASE k > i
        <5>1. k - 1 \in 1..(n - 1) /\ ~(k - 1 < i) /\ (k - 1) + 1 = k BY <2>2, <2>3, <4>4
        <5>. QED BY <2>6, <4>1, <5>1
      <4>. QED BY <2>2, <2>3, <4>2, <4>3, <4>4
    <3>. HIDE DEF C
    <3>. QED BY <3>2, <3>3, <3>4
  <2>10. y.order = r /\ y.counts = [g \in C |-> x.counts[g]] /\ DOMAIN y.counts = C BY DEF r
  <2>11. Listed(y)
    <3>1. y = [counts |-> y.counts, order |-> y.order] OBVIOUS
    <3>. HIDE DEF y, C
    <3>. QED BY <2>5, <2>8, <2>9, <2>10, <3>1 DEF Listed
  <2>12. Shrunk(x, y) BY <2>3, <2>10 DEF Shrunk
  <2>. HIDE DEF y
  <2>. QED BY <1>2, <2>1, <2>5, <2>10, <2>11, <2>12
<1>. QED BY <1>1, <1>2

\* trimGenerations forgets idle generations until the history fits or none is idle.
LEMMA TrimSettles ==
    ASSUME NEW x, Listed(x)
    PROVE  LET y == Passes(x)[Len(x.order)] IN Listed(y) /\ Shrunk(x, y) /\ Settled(y)
<1>. DEFINE n == Len(x.order)
            f == Passes(x)
            Good(k) == /\ Listed(f[k]) /\ Shrunk(x, f[k])
                       /\ Settled(f[k]) \/ Len(f[k].order) = n - k
<1>. HIDE DEF f
<1>1. n \in Nat BY DEF Listed
<1>2. \A k \in 0..n : f[k] = IF k = 0 THEN x ELSE TrimPass(f[k - 1])
  BY <1>1, PassesRun DEF Runs, f
<1>3. \A k \in 0..n : Good(k)
  <2>. DEFINE Q == {k \in 0..n : ~Good(k)}
  <2>. SUFFICES ASSUME Q # {} PROVE FALSE OBVIOUS
  <2>1. PICK m \in Q : \A q \in Q : m <= q
    <3>1. Q \subseteq Nat BY <1>1
    <3>. QED BY <3>1, LeastNatural
  <2>2. m # 0
    <3>1. f[0] = x BY <1>1, <1>2
    <3>2. Good(0) BY <1>1, <3>1 DEF Shrunk
    <3>. QED BY <3>2
  <2>3. m \in 0..n /\ m - 1 \in 0..n /\ ~(m <= m - 1) BY <1>1, <2>2
  <2>4. Good(m - 1) BY <2>1, <2>3
  <2>5. f[m] = TrimPass(f[m - 1]) BY <1>2, <2>2, <2>3
  <2>6. /\ Listed(f[m]) /\ Shrunk(f[m - 1], f[m])
        /\ IF Settled(f[m - 1]) THEN f[m] = f[m - 1] ELSE Len(f[m].order) = Len(f[m - 1].order) - 1
    BY <2>4, <2>5, PassStep
  <2>7. Shrunk(x, f[m]) BY <2>4, <2>6 DEF Shrunk
  <2>8. Settled(f[m]) \/ Len(f[m].order) = n - m
    <3>1. CASE Settled(f[m - 1]) BY <2>6, <3>1
    <3>2. CASE ~Settled(f[m - 1])
      <4>1. Len(f[m - 1].order) = n - (m - 1) BY <2>4, <3>2
      <4>2. Len(f[m].order) = Len(f[m - 1].order) - 1 BY <2>6, <3>2
      <4>. HIDE DEF n
      <4>. QED BY <1>1, <2>3, <4>1, <4>2
    <3>. QED BY <3>1, <3>2
  <2>. QED BY <2>6, <2>7, <2>8
<1>4. Good(n) BY <1>1, <1>3
<1>5. CASE Len(f[n].order) = n - n
  <2>1. Cardinality(DOMAIN f[n].counts) = 0 BY <1>1, <1>4, <1>5, ListedCount
  <2>2. Settled(f[n]) BY <2>1, PendingConstants DEF Settled
  <2>. QED BY <1>4, <2>2 DEF f
<1>. QED BY <1>4, <1>5 DEF f

-----------------------------------------------------------------------------
\* The remembered generations: the order lists each once, the counts are those of
\* the active requests, none of which is of a forgotten one, and there is nothing
\* to trim.
Table == [counts |-> generations, order |-> genOrder]
Counts ==
    /\ Listed(Table) /\ Settled(Table)
    /\ \A i \in ActiveIDs : active[i].generation \in Known
    /\ \A g \in Known : generations[g] = Cardinality(ActiveOf(g))

\* The strengthening: a cancelled entry that may be put back is of the generation
\* its request is active for, so that the count stays right.
TableInv ==
    /\ ResponseInv /\ Counts
    /\ answer \in [key : Key, disposition : Disposition] \cup {None}
    /\ \A c \in InFlight : cancelling[c].entry.generation = active[cancelling[c].key.id].generation

\* Requests of a generation are finitely many.
LEMMA ActiveFinite ==
    ASSUME NEW g
    PROVE  IsFiniteSet(ActiveOf(g)) /\ Cardinality(ActiveOf(g)) \in Nat
<1>1. IsFiniteSet(1..MaxRequests) BY PendingConstants, FS_Interval
<1>2. ActiveOf(g) \subseteq 1..MaxRequests BY DEF ActiveOf, ActiveIDs, IDs
<1>3. IsFiniteSet(ActiveOf(g)) BY <1>1, <1>2, FS_Subset
<1>. QED BY <1>3, FS_CardinalityType

\* What TableConsistent states.
LEMMA TableInvSuffices == TableInv => TableConsistent
<1>. SUFFICES ASSUME TableInv PROVE TableConsistent OBVIOUS
<1>1. Table.counts = generations /\ Table.order = genOrder BY DEF Table
<1>2. /\ genOrder \in Seq(Generations) /\ Known = ToSet(genOrder)
      /\ Cardinality(Known) = Len(genOrder)
  <2>1. Listed(Table) BY DEF TableInv, Counts
  <2>2. Cardinality(DOMAIN Table.counts) = Len(Table.order) BY <2>1, ListedCount
  <2>. QED BY <1>1, <2>1, <2>2 DEF Listed, Known
<1>3. DOMAIN genOrder = 1..Len(genOrder) BY <1>2
<1>4. Known \subseteq Generations
  <2>1. \A j \in 1..Len(genOrder) : genOrder[j] \in Generations BY <1>2, ElementOfSeq
  <2>. QED BY <1>2, <1>3, <2>1 DEF ToSet
<1>5. \A g \in Known : generations[g] \in Int
  BY ActiveFinite DEF TableInv, Counts
<1>6. tomb \subseteq Key
  <2>1. \A j \in 1..Len(order) : order[j] \in Key BY ElementOfSeq DEF TableInv, ResponseInv, Recent
  <2>. QED BY <2>1 DEF TableInv, ResponseInv, Recent
<1>7. TypeOK
  BY <1>2, <1>4, <1>5, <1>6 DEF TypeOK, TableInv, ResponseInv, Recent, CancelInv, CancelType
<1>8. ReferenceCounts
  BY <1>2 DEF ReferenceCounts, TableInv, Counts
<1>9. HistoryBounded
  <2>. SUFFICES ASSUME Cardinality(Known) > Cap, NEW g \in Known PROVE ActiveOf(g) # {}
    BY DEF HistoryBounded
  <2>1. Idle(Table) = {} BY <1>1 DEF TableInv, Counts, Settled, Known
  <2>2. PICK j \in 1..Len(genOrder) : genOrder[j] = g BY <1>2, <1>3 DEF ToSet
  <2>3. generations[g] # 0 BY <1>1, <1>3, <2>1, <2>2 DEF Idle
  <2>4. Cardinality(ActiveOf(g)) # 0 BY <2>3 DEF TableInv, Counts
  <2>. QED BY <2>4, FS_EmptySet
<1>. QED BY <1>7, <1>8, <1>9 DEF TableConsistent

\* A step that trims counts which are right for the new table.
LEMMA TrimKeepsCounts ==
    ASSUME NEW gens, NEW gord, trimGenerations(gens, gord),
           Listed([counts |-> gens, order |-> gord]),
           \A i \in ActiveIDs' : active'[i].generation \in DOMAIN gens,
           \A g \in DOMAIN gens : gens[g] = Cardinality(ActiveOf(g)')
    PROVE  Counts'
<1>. DEFINE x == [counts |-> gens, order |-> gord]
            y == Passes(x)[Len(gord)]
<1>1. x.counts = gens /\ x.order = gord OBVIOUS
<1>2. generations' = y.counts /\ genOrder' = y.order BY DEF trimGenerations
<1>. HIDE DEF x
<1>3. Listed(y) /\ Shrunk(x, y) /\ Settled(y) BY <1>1, TrimSettles DEF x
<1>. HIDE DEF y
<1>4. Table' = y BY <1>2, <1>3 DEF Table, Listed
<1>5. Known' = DOMAIN y.counts BY <1>2 DEF Known
<1>6. \A g \in DOMAIN y.counts : g \in DOMAIN gens /\ y.counts[g] = gens[g]
  BY <1>1, <1>3 DEF Shrunk
<1>7. \A g \in Known' : generations'[g] = Cardinality(ActiveOf(g)')
  BY <1>2, <1>5, <1>6
<1>8. ASSUME NEW i \in ActiveIDs' PROVE active'[i].generation \in Known'
  <2>0. PICK g : g = active'[i].generation OBVIOUS
  <2>1. g \in DOMAIN gens /\ i \in ActiveOf(g)' BY <2>0 DEF ActiveOf
  <2>2. Cardinality(ActiveOf(g)') # 0
    <3>1. IsFiniteSet(1..MaxRequests) BY PendingConstants, FS_Interval
    <3>2. ActiveOf(g)' \subseteq 1..MaxRequests BY DEF ActiveOf, ActiveIDs, IDs
    <3>3. IsFiniteSet(ActiveOf(g)') BY <3>1, <3>2, FS_Subset
    <3>. QED BY <2>1, <3>3, FS_EmptySet
  <2>3. gens[g] # 0 BY <2>1, <2>2
  <2>. QED BY <1>1, <1>3, <1>5, <2>0, <2>1, <2>3 DEF Shrunk
<1>. QED BY <1>3, <1>4, <1>7, <1>8 DEF Counts

\* A step that leaves every request with its generation and touches no count.
LEMMA SameCounts ==
    ASSUME Counts, UNCHANGED <<generations, genOrder>>,
           \A i \in IDs : /\ active'[i] = None <=> active[i] = None
                          /\ active[i] # None => active'[i].generation = active[i].generation
    PROVE  Counts'
<1>1. Table' = Table /\ Known' = Known /\ generations' = generations BY DEF Table, Known
<1>2. ActiveIDs' = ActiveIDs /\ \A i \in ActiveIDs : active'[i].generation = active[i].generation
  BY DEF ActiveIDs
<1>3. \A g : ActiveOf(g)' = ActiveOf(g) BY <1>2 DEF ActiveOf
<1>. QED BY <1>1, <1>2, <1>3 DEF Counts

\* Begin counts one more request of g, and lists g if it was not known.
LEMMA BeginKeepsCounts ==
    ASSUME NEW g \in Generations, TableInv, Begin(g)
    PROVE  Counts'
<1>. DEFINE e == [generation |-> g, cancelWritten |-> FALSE]
            gord == IF g \in Known THEN genOrder ELSE Append(genOrder, g)
            id == next + 1
<1>a. PICK gens : gens = Counted(generations, g, 1) OBVIOUS
<1>1. /\ active' = [active EXCEPT ![id] = e] /\ trimGenerations(gens, gord) /\ next < MaxRequests
  BY <1>a DEF Begin
<1>2. next \in Nat /\ id \in IDs /\ active \in [IDs -> Entry \cup {None}] /\ active[id] = None
  BY <1>1, PendingConstants DEF TableInv, ResponseInv, CancelInv, CancelType, IDs
<1>3. e # None /\ e.generation = g
  <2>1. e \in Entry BY DEF Entry
  <2>. QED BY <2>1, NoneIsNoRecord
<1>4. /\ ActiveIDs' = ActiveIDs \cup {id} /\ id \notin ActiveIDs
      /\ active'[id].generation = g
      /\ \A i \in ActiveIDs : active'[i] = active[i]
  BY <1>1, <1>2, <1>3 DEF ActiveIDs
<1>5. /\ \A h : h # g => ActiveOf(h)' = ActiveOf(h)
      /\ ActiveOf(g)' = ActiveOf(g) \cup {id} /\ id \notin ActiveOf(g)
  BY <1>4 DEF ActiveOf
<1>6. \A h \in Known : generations[h] \in Int /\ generations[h] = Cardinality(ActiveOf(h))
  BY ActiveFinite DEF TableInv, Counts
<1>7. Cardinality(ActiveOf(g)') = Cardinality(ActiveOf(g)) + 1 /\ Cardinality(ActiveOf(g)) \in Nat
  BY <1>5, ActiveFinite, FS_AddElement
<1>8. g \notin Known => Cardinality(ActiveOf(g)) = 0
  <2>1. g \notin Known => ActiveOf(g) = {} BY DEF ActiveOf, TableInv, Counts
  <2>. QED BY <2>1, FS_EmptySet
<1>9. /\ DOMAIN gens = Known \cup {g}
      /\ gens = [h \in DOMAIN gens |-> gens[h]]
      /\ \A h \in Known : h # g => gens[h] = generations[h]
      /\ gens[g] = (IF g \in Known THEN generations[g] ELSE 0) + 1
  <2>1. gens = [h \in Known \cup {g} |->
                   (IF h \in Known THEN generations[h] ELSE 0) + (IF h = g THEN 1 ELSE 0)]
    BY <1>a DEF Counted, Known
  <2>2. DOMAIN gens = Known \cup {g} /\ gens = [h \in DOMAIN gens |-> gens[h]] BY <2>1
  <2>3. \A h \in Known : h # g => gens[h] = generations[h] BY <1>6, <2>1
  <2>4. gens[g] = (IF g \in Known THEN generations[g] ELSE 0) + 1 BY <2>1
  <2>. QED BY <2>2, <2>3, <2>4
<1>10. \A h \in DOMAIN gens : gens[h] = Cardinality(ActiveOf(h)')
  <2>. TAKE h \in DOMAIN gens
  <2>1. CASE h = g BY <1>6, <1>7, <1>8, <1>9, <2>1
  <2>2. CASE h # g BY <1>5, <1>6, <1>9, <2>2
  <2>. QED BY <2>1, <2>2
<1>11. \A i \in ActiveIDs' : active'[i].generation \in DOMAIN gens
  BY <1>4, <1>9 DEF TableInv, Counts
<1>12. /\ genOrder \in Seq(Generations) /\ Known = ToSet(genOrder)
       /\ \A i, j \in 1..Len(genOrder) : genOrder[i] = genOrder[j] => i = j
  BY DEF TableInv, Counts, Listed, Table, Known
<1>13. Listed([counts |-> gens, order |-> gord])
  <2>. DEFINE n == Len(genOrder)
  <2>0. n \in Nat /\ DOMAIN genOrder = 1..n BY <1>12
  <2>1. CASE g \in Known
    BY <1>9, <1>12, <2>1 DEF Listed
  <2>2. CASE g \notin Known
    <3>1. gord = Append(genOrder, g) BY <2>2
    <3>. HIDE DEF gord
    <3>2. /\ gord \in Seq(Generations) /\ Len(gord) = n + 1 /\ DOMAIN gord = 1..(n + 1)
          /\ \A i \in 1..n : gord[i] = genOrder[i]
          /\ gord[n + 1] = g
      BY <1>12, <3>1, AppendProperties
    <3>3. \A i \in 1..(n + 1) : i \in 1..n \/ i = n + 1 BY <2>0
    <3>4. \A i \in 1..n : genOrder[i] # g BY <1>12, <2>0, <2>2 DEF ToSet
    <3>5. \A i, j \in 1..(n + 1) : gord[i] = gord[j] => i = j
      BY <1>12, <3>2, <3>3, <3>4
    <3>6. ToSet(gord) = DOMAIN gens
      <4>1. ToSet(gord) = {gord[i] : i \in 1..(n + 1)} BY <3>2 DEF ToSet
      <4>2. Known = {genOrder[i] : i \in 1..n} BY <1>12, <2>0 DEF ToSet
      <4>3. n + 1 \in 1..(n + 1) /\ \A i \in 1..n : i \in 1..(n + 1) BY <2>0
      <4>. QED BY <1>9, <3>2, <3>3, <4>1, <4>2, <4>3
    <3>. QED BY <1>9, <3>2, <3>5, <3>6 DEF Listed
  <2>. QED BY <2>1, <2>2
<1>. HIDE DEF gord
<1>. QED BY <1>1, <1>10, <1>11, <1>13, TrimKeepsCounts

\* Accept counts one request of its generation less, or changes nothing.
LEMMA AcceptKeepsCounts ==
    ASSUME NEW k \in Key, TableInv, Accept(k)
    PROVE  Counts'
<1>1. CASE disposition(k) # "ACCEPTED"
  <2>1. UNCHANGED <<active, generations, genOrder>> BY <1>1 DEF Accept
  <2>. QED BY <2>1, SameCounts DEF TableInv
<1>2. CASE disposition(k) = "ACCEPTED"
  <2>. DEFINE g == k.generation
              id == k.id
  <2>a. PICK gens : gens = Counted(generations, g, -1) OBVIOUS
  <2>1. active' = [active EXCEPT ![id] = None] /\ trimGenerations(gens, genOrder)
    BY <1>2, <2>a DEF Accept
  <2>2. id \in IDs /\ active[id] # None /\ active[id].generation = g
    BY <1>2 DEF disposition, Key
  <2>3. active \in [IDs -> Entry \cup {None}] BY DEF TableInv, ResponseInv, CancelInv, CancelType
  <2>4. /\ ActiveIDs' = ActiveIDs \ {id} /\ id \in ActiveIDs
        /\ \A i \in ActiveIDs' : active'[i] = active[i]
    BY <2>1, <2>2, <2>3 DEF ActiveIDs
  <2>5. /\ \A h : h # g => ActiveOf(h)' = ActiveOf(h)
        /\ ActiveOf(g)' = ActiveOf(g) \ {id} /\ id \in ActiveOf(g)
    BY <2>2, <2>4 DEF ActiveOf
  <2>6. \A h \in Known : generations[h] \in Int /\ generations[h] = Cardinality(ActiveOf(h))
    BY ActiveFinite DEF TableInv, Counts
  <2>7. Cardinality(ActiveOf(g)') = Cardinality(ActiveOf(g)) - 1
    BY <2>5, ActiveFinite, FS_RemoveElement
  <2>8. g \in Known BY <2>2, <2>4 DEF TableInv, Counts
  <2>9. /\ DOMAIN gens = Known
        /\ gens = [h \in DOMAIN gens |-> gens[h]]
        /\ \A h \in Known : h # g => gens[h] = generations[h]
        /\ gens[g] = generations[g] + (-1)
    <3>1. gens = [h \in Known |-> generations[h] + (IF h = g THEN -1 ELSE 0)]
      <4>1. Known \cup {g} = Known BY <2>8
      <4>. QED BY <2>a, <4>1 DEF Counted, Known
    <3>2. DOMAIN gens = Known /\ gens = [h \in DOMAIN gens |-> gens[h]] BY <3>1
    <3>3. \A h \in Known : h # g => gens[h] = generations[h] BY <2>6, <3>1
    <3>4. gens[g] = generations[g] + (-1) BY <2>8, <3>1
    <3>. QED BY <3>2, <3>3, <3>4
  <2>10. \A h \in DOMAIN gens : gens[h] = Cardinality(ActiveOf(h)')
    <3>. TAKE h \in DOMAIN gens
    <3>1. CASE h = g BY <2>6, <2>7, <2>8, <2>9, <3>1
    <3>2. CASE h # g BY <2>5, <2>6, <2>9, <3>2
    <3>. QED BY <3>1, <3>2
  <2>11. \A i \in ActiveIDs' : active'[i].generation \in DOMAIN gens
    BY <2>4, <2>9 DEF TableInv, Counts
  <2>12. Listed([counts |-> gens, order |-> genOrder])
    BY <2>9 DEF TableInv, Counts, Listed, Table, Known
  <2>. QED BY <2>1, <2>10, <2>11, <2>12, TrimKeepsCounts
<1>. QED BY <1>1, <1>2

\* The two halves of Cancel: neither changes the generation of an active request.
LEMMA CancelKeepsTable ==
    ASSUME TableInv, CancelSteps
    PROVE  TableInv'
<1>1. ResponseInv' BY CancelKeepsResponses DEF TableInv
<1>2. UNCHANGED <<generations, genOrder, answer>>
  BY DEF CancelSteps, CancelMark, CancelWrote, CancelFailed, history
<1>3. /\ active \in [IDs -> Entry \cup {None}]
      /\ cancelling \in [Cancellers -> [key : Key, entry : Entry] \cup {None}]
  BY DEF TableInv, ResponseInv, CancelInv, CancelType
<1>4. \A c \in InFlight :
         /\ cancelling[c] \in [key : Key, entry : Entry] /\ cancelling[c].key.id \in IDs
         /\ active[cancelling[c].key.id] # None
         /\ cancelling[c].entry.generation = active[cancelling[c].key.id].generation
  <2>1. \A c \in InFlight : cancelling[c] \in [key : Key, entry : Entry] BY <1>3 DEF InFlight
  <2>2. \A c \in InFlight : cancelling[c].key.id \in IDs BY <2>1 DEF Key
  <2>. QED BY <2>1, <2>2 DEF TableInv, ResponseInv
<1>. DEFINE Same == \A i \in IDs : /\ active'[i] = None <=> active[i] = None
                                   /\ active[i] # None => active'[i].generation = active[i].generation
            Agree == \A c \in InFlight' :
                        cancelling'[c].entry.generation = active'[cancelling'[c].key.id].generation
<1>5. Same /\ Agree => TableInv'
  BY <1>1, <1>2, SameCounts DEF TableInv
<1>6. ASSUME NEW c \in Cancellers, NEW k \in Key, CancelMark(c, k) PROVE Same /\ Agree
  <2>. DEFINE e == [generation |-> k.generation, cancelWritten |-> TRUE]
  <2>1. /\ active[k.id] # None /\ active[k.id].generation = k.generation
        /\ active' = [active EXCEPT ![k.id] = e]
        /\ cancelling' = [cancelling EXCEPT ![c] = [key |-> k, entry |-> e]]
    BY <1>6 DEF CancelMark
  <2>2. k.id \in IDs /\ e # None /\ e.generation = k.generation
    <3>1. k.id \in IDs BY DEF Key
    <3>2. e \in Entry BY DEF Entry, Key
    <3>. QED BY <3>1, <3>2, NoneIsNoRecord
  <2>. HIDE DEF e
  <2>3. Same BY <1>3, <2>1, <2>2
  <2>4. ASSUME NEW d \in InFlight'
        PROVE  cancelling'[d].entry.generation = active'[cancelling'[d].key.id].generation
    <3>1. CASE d = c
      <4>1. cancelling'[d].key = k /\ cancelling'[d].entry = e BY <1>3, <2>1, <3>1
      <4>. QED BY <1>3, <2>1, <2>2, <4>1
    <3>2. CASE d # c
      <4>1. cancelling'[d] = cancelling[d] /\ d \in InFlight
        BY <1>3, <2>1, <3>2 DEF InFlight
      <4>. QED BY <1>4, <2>3, <4>1
    <3>. QED BY <3>1, <3>2
  <2>. QED BY <2>3, <2>4
<1>7. ASSUME NEW c \in Cancellers, CancelWrote(c) PROVE Same /\ Agree
  <2>1. active' = active /\ cancelling' = [cancelling EXCEPT ![c] = None]
    BY <1>7 DEF CancelWrote
  <2>2. \A d \in InFlight' : d \in InFlight /\ cancelling'[d] = cancelling[d]
    BY <1>3, <2>1 DEF InFlight
  <2>. QED BY <1>4, <2>1, <2>2
<1>8. ASSUME NEW c \in Cancellers, CancelFailed(c) PROVE Same /\ Agree
  <2>. DEFINE e == [generation |-> cancelling[c].entry.generation, cancelWritten |-> FALSE]
              x == cancelling[c].key.id
  <2>1. /\ active' = [active EXCEPT ![x] = e] /\ cancelling' = [cancelling EXCEPT ![c] = None]
        /\ c \in InFlight
    BY <1>8 DEF CancelFailed, InFlight
  <2>2. e # None /\ x \in IDs /\ active[x] # None /\ e.generation = active[x].generation
    <3>1. e \in Entry BY <1>4, <2>1 DEF Entry
    <3>. QED BY <1>4, <2>1, <3>1, NoneIsNoRecord
  <2>. HIDE DEF e, x
  <2>3. Same BY <1>3, <2>1, <2>2
  <2>4. \A d \in InFlight' : d \in InFlight /\ cancelling'[d] = cancelling[d]
    BY <1>3, <2>1 DEF InFlight
  <2>. QED BY <1>4, <2>3, <2>4
<1>. HIDE DEF Same, Agree
<1>. QED BY <1>5, <1>6, <1>7, <1>8 DEF CancelSteps

\* The empty table.
LEMMA TableInit == Init => TableInv
<1>. SUFFICES ASSUME Init PROVE TableInv OBVIOUS
<1>1. ResponseInv BY ResponseInit
<1>2. /\ generations = << >> /\ genOrder = << >> /\ answer = None
      /\ active = [i \in IDs |-> None] /\ cancelling = [c \in Cancellers |-> None]
  BY DEF Init
<1>3. ActiveIDs = {} /\ InFlight = {} BY <1>2 DEF ActiveIDs, InFlight
<1>4. Known = {} /\ ToSet(genOrder) = {} /\ Len(genOrder) = 0 BY <1>2 DEF Known, ToSet
<1>5. Listed(Table) BY <1>2, <1>4 DEF Table, Listed, Known
<1>6. Settled(Table)
  <2>1. Cardinality(DOMAIN Table.counts) = 0 BY <1>4, FS_EmptySet DEF Table, Known
  <2>. QED BY <2>1, PendingConstants DEF Settled
<1>. QED BY <1>1, <1>2, <1>3, <1>4, <1>5, <1>6 DEF TableInv, Counts

\* For every capacity and any number of requests, generations and cancellers, in the
\* stream owner's use of the table: the reference counts are those of the active
\* requests, the eviction order lists each remembered generation once, none with an
\* active request is forgotten, and the history exceeds the capacity only when every
\* generation in it has one.
THEOREM TableStaysConsistent == Spec => []TableConsistent
<1>1. TableInv /\ [Next]_vars => TableInv'
  <2>. SUFFICES ASSUME TableInv, [Next]_vars PROVE TableInv' OBVIOUS
  <2>1. ASSUME NEW g \in Generations, Begin(g) PROVE TableInv'
    <3>1. ResponseInv' BY <2>1, BeginKeepsResponses DEF TableInv
    <3>2. Counts' BY <2>1, BeginKeepsCounts
    <3>3. /\ UNCHANGED <<cancelling, answer>>
          /\ active' = [active EXCEPT ![next + 1] = [generation |-> g, cancelWritten |-> FALSE]]
      BY <2>1 DEF Begin
    <3>4. \A c \in InFlight : /\ cancelling[c].key.id \in IDs /\ cancelling[c].key.id # next + 1
                              /\ active'[cancelling[c].key.id] = active[cancelling[c].key.id]
      <4>1. next \in Nat BY PendingConstants DEF TableInv, ResponseInv, CancelInv, CancelType
      <4>2. \A c \in InFlight : cancelling[c] \in [key : Key, entry : Entry]
        BY DEF TableInv, ResponseInv, CancelInv, CancelType, InFlight
      <4>3. \A c \in InFlight : cancelling[c].key.id \in IDs /\ cancelling[c].key.id <= next
        BY <4>2 DEF Key, TableInv, ResponseInv, CancelInv
      <4>4. \A c \in InFlight : cancelling[c].key.id # next + 1 BY <4>1, <4>3 DEF IDs
      <4>. QED BY <3>3, <4>3, <4>4 DEF TableInv, ResponseInv, CancelInv, CancelType
    <3>5. InFlight' = InFlight BY <3>3 DEF InFlight
    <3>. QED BY <3>1, <3>2, <3>3, <3>4, <3>5 DEF TableInv
  <2>2. ASSUME NEW k \in Key, OwnedAccept(k) PROVE TableInv'
    <3>1. ResponseInv' BY <2>2, AcceptKeepsResponses DEF TableInv
    <3>2. Counts' BY <2>2, AcceptKeepsCounts DEF OwnedAccept
    <3>3. InFlight' = {} BY <2>2 DEF OwnedAccept, Accept, InFlight
    <3>4. answer' \in [key : Key, disposition : Disposition]
      <4>1. answer' = [key |-> k, disposition |-> disposition(k)] BY <2>2 DEF OwnedAccept, Accept
      <4>2. disposition(k) \in Disposition BY DEF disposition, Disposition
      <4>. QED BY <4>1, <4>2
    <3>. QED BY <3>1, <3>2, <3>3, <3>4 DEF TableInv
  <2>3. CASE CancelSteps BY <2>3, CancelKeepsTable
  <2>4. CASE UNCHANGED vars
    <3>1. ResponseInv' BY <2>4, StutterKeepsResponses DEF TableInv
    <3>2. UNCHANGED <<active, cancelling, generations, genOrder, answer>> BY <2>4 DEF vars
    <3>3. Counts' BY <3>2, SameCounts DEF TableInv
    <3>. QED BY <3>1, <3>2, <3>3 DEF TableInv, InFlight
  <2>. QED BY <2>1, <2>2, <2>3, <2>4 DEF Next
<1>. QED BY TableInit, <1>1, TableInvSuffices, PTL DEF Spec
=============================================================================
