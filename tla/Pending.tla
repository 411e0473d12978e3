------------------------------ MODULE Pending ------------------------------
(***************************************************************************)
(* The request table of one language-server connection: lspwire.Pending    *)
(* (src/internal/lspwire/wire.go).  It hands out request ids, classifies   *)
(* responses against the active requests and a bounded FIFO of tombstones, *)
(* keeps reference counts for the generations it still remembers, and lets *)
(* a caller cancel an active request.  Begin and Accept run under the      *)
(* mutex; Cancel marks the entry under the mutex, writes the notification  *)
(* with the mutex released and takes it again only if the write failed, so *)
(* it is two actions here.                                                 *)
(***************************************************************************)
EXTENDS Integers, Sequences, FiniteSets, SequencesExt

CONSTANTS
    Generations,    \* generations a request can be begun for
    Cancellers,     \* goroutines that call Cancel
    Cap,            \* tombstoneCapacity
    MaxRequests     \* bound: request ids handed out

ASSUME PendingConstants ==
    /\ Generations # {}
    /\ Cap \in Nat
    /\ MaxRequests \in Nat \ {0}

VARIABLES
    next,           \* p.next: the last id handed out
    active,         \* p.active, as a function from ids
    tomb,           \* p.tomb
    order,          \* p.order: FIFO of the tombstones
    generations,    \* p.generations: active references per remembered generation
    genOrder,       \* p.genOrder
    cancelling,     \* per canceller, the key and entry it holds across its write
    accepted,       \* history: the keys answered ResponseAccepted, oldest first
    written,        \* history: cancel notifications that reached the wire, per id
    answer          \* the last value Accept returned, with its key

vars == <<next, active, tomb, order, generations, genOrder, cancelling,
          accepted, written, answer>>
history == <<accepted, written>>

IDs == 1..MaxRequests
Key == [generation : Generations, id : IDs]
Entry == [generation : Generations, cancelWritten : BOOLEAN]
None == [none |-> TRUE]
Disposition == {"ACCEPTED", "UNKNOWN", "DUPLICATE", "WRONG_GENERATION"}

ActiveIDs == {i \in IDs : active[i] # None}
Known == DOMAIN generations
InFlight == {c \in Cancellers : cancelling[c] # None}

TypeOK ==
    /\ next \in 0..MaxRequests
    /\ active \in [IDs -> Entry \cup {None}]
    /\ tomb \subseteq Key
    /\ order \in Seq(Key)
    /\ Known \subseteq Generations /\ \A g \in Known : generations[g] \in Int
    /\ genOrder \in Seq(Generations)
    /\ cancelling \in [Cancellers -> [key : Key, entry : Entry] \cup {None}]
    /\ accepted \in Seq(Key)
    /\ written \in [IDs -> Nat]
    /\ answer \in [key : Key, disposition : Disposition] \cup {None}

Init ==
    /\ next = 0
    /\ active = [i \in IDs |-> None]
    /\ tomb = {} /\ order = <<>>
    /\ generations = <<>> /\ genOrder = <<>>
    /\ cancelling = [c \in Cancellers |-> None]
    /\ accepted = <<>> /\ written = [i \in IDs |-> 0]
    /\ answer = None

-----------------------------------------------------------------------------
\* Mutant of Idle: reference counts are ignored.
Idle_IgnoresUse(x) == DOMAIN x.order

\* The remembered generations as trimGenerations sees them: x.counts is
\* p.generations and x.order is p.genOrder.  Idle are the positions without active
\* requests.
Idle(x) == {i \in DOMAIN x.order : x.counts[x.order[i]] = 0}

\* One pass of the loop: beyond the capacity, forget the longest-known idle
\* generation, if there is one.
TrimPass(x) ==
    IF Cardinality(DOMAIN x.counts) > Cap /\ Idle(x) # {}
    THEN LET i == Min(Idle(x))
         IN  [counts |-> [g \in DOMAIN x.counts \ {x.order[i]} |-> x.counts[g]],
              order |-> RemoveAt(x.order, i)]
    ELSE x

\* The passes from x on; after as many as there are generations the loop has ended.
Passes(x) ==
    LET pass[n \in 0..Len(x.order)] == IF n = 0 THEN x ELSE TrimPass(pass[n - 1])
    IN  pass

\* trimGenerations: forget the longest-known generations without active
\* requests until at most Cap are remembered or none is idle.
trimGenerations(gens, gord) ==
    LET x == [counts |-> gens, order |-> gord]
        trimmed == Passes(x)[Len(gord)]
    IN  /\ generations' = trimmed.counts
        /\ genOrder' = trimmed.order

\* A Go map counter: an absent key counts as zero and is created by the update.
Counted(gens, g, delta) ==
    [h \in DOMAIN gens \cup {g} |->
        (IF h \in DOMAIN gens THEN gens[h] ELSE 0) + (IF h = g THEN delta ELSE 0)]

Begin(g) ==
    /\ next < MaxRequests
    /\ next' = next + 1
    /\ active' = [active EXCEPT ![next + 1] = [generation |-> g, cancelWritten |-> FALSE]]
    /\ trimGenerations(Counted(generations, g, 1),
                       IF g \in Known THEN genOrder ELSE Append(genOrder, g))
    /\ UNCHANGED <<tomb, order, cancelling, accepted, written, answer>>

\* What Accept answers for key k in the current state.
disposition(k) ==
    CASE k \in tomb -> "DUPLICATE"
      [] k \notin tomb /\ active[k.id] = None ->
            IF k.generation \notin Known /\ Known # {} THEN "WRONG_GENERATION" ELSE "UNKNOWN"
      [] k \notin tomb /\ active[k.id] # None ->
            IF active[k.id].generation # k.generation THEN "WRONG_GENERATION" ELSE "ACCEPTED"

\* Mutant of addTomb: the set forgets the new tombstone instead of the oldest one.
addTomb_DropsNewest(k) ==
    LET longer == Append(order, k)
    IN  IF Len(longer) > Cap
        THEN order' = Tail(longer) /\ UNCHANGED tomb
        ELSE order' = longer /\ tomb' = tomb \cup {k}

\* addTomb: remember k, forgetting the oldest tombstone beyond Cap.
addTomb(k) ==
    IF Cap = 0
    THEN UNCHANGED <<tomb, order>>
    ELSE LET longer == Append(order, k)
         IN  IF Len(longer) > Cap
             THEN order' = Tail(longer) /\ tomb' = (tomb \cup {k}) \ {Head(longer)}
             ELSE order' = longer /\ tomb' = tomb \cup {k}

Accept(k) ==
    /\ answer' = [key |-> k, disposition |-> disposition(k)]
    /\ IF disposition(k) = "ACCEPTED"
       THEN /\ active' = [active EXCEPT ![k.id] = None]
            /\ addTomb(k)
            /\ trimGenerations(Counted(generations, k.generation, -1), genOrder)
            /\ accepted' = Append(accepted, k)
       ELSE UNCHANGED <<active, tomb, order, generations, genOrder, accepted>>
    /\ UNCHANGED <<next, cancelling, written>>

\* Cancel up to the unlock: the entry is marked and copied out of the table.
\* The answers NOT_PENDING and ALREADY_WRITTEN leave the table as it is.
CancelMark(c, k) ==
    /\ cancelling[c] = None
    /\ active[k.id] # None
    /\ active[k.id].generation = k.generation
    /\ ~active[k.id].cancelWritten
    /\ LET e == [generation |-> k.generation, cancelWritten |-> TRUE]
       IN  /\ active' = [active EXCEPT ![k.id] = e]
           /\ cancelling' = [cancelling EXCEPT ![c] = [key |-> k, entry |-> e]]
    /\ UNCHANGED <<next, tomb, order, generations, genOrder, history, answer>>

\* The write of $/cancelRequest succeeded.
CancelWrote(c) ==
    /\ cancelling[c] # None
    /\ written' = [written EXCEPT ![cancelling[c].key.id] = @ + 1]
    /\ cancelling' = [cancelling EXCEPT ![c] = None]
    /\ UNCHANGED <<next, active, tomb, order, generations, genOrder, accepted, answer>>

\* Mutant: the mark survives a failed write.
CancelFailed_StaysMarked(c) ==
    /\ cancelling[c] # None
    /\ cancelling' = [cancelling EXCEPT ![c] = None]
    /\ UNCHANGED <<next, active, tomb, order, generations, genOrder, history, answer>>

\* The write failed: the copied entry is put back, unmarked, whatever the table
\* holds by now.
CancelFailed(c) ==
    /\ cancelling[c] # None
    /\ active' = [active EXCEPT ![cancelling[c].key.id] =
                     [generation |-> cancelling[c].entry.generation, cancelWritten |-> FALSE]]
    /\ cancelling' = [cancelling EXCEPT ![c] = None]
    /\ UNCHANGED <<next, tomb, order, generations, genOrder, history, answer>>

-----------------------------------------------------------------------------
\* The protocol owner of RoundTrip joins its cancel write before it reads
\* another response: no response is classified while a cancel write is out.
OwnedAccept(k) == InFlight = {} /\ Accept(k)

CancelSteps ==
    \/ \E c \in Cancellers, k \in Key : CancelMark(c, k)
    \/ \E c \in Cancellers : CancelWrote(c) \/ CancelFailed(c)

Next ==
    \/ \E g \in Generations : Begin(g)
    \/ \E k \in Key : OwnedAccept(k)
    \/ CancelSteps

\* CompleteResponse classifies a response without owning the stream, so it can
\* fall between the two halves of a Cancel.
SharedNext ==
    \/ \E g \in Generations : Begin(g)
    \/ \E k \in Key : Accept(k)
    \/ CancelSteps

Spec == Init /\ [][Next]_vars
SharedSpec == Init /\ [][SharedNext]_vars

-----------------------------------------------------------------------------
ActiveOf(g) == {i \in ActiveIDs : active[i].generation = g}

\* Begin, Accept and a failed Cancel keep the reference count of every
\* remembered generation equal to its active requests, no generation with an
\* active request is forgotten, and the eviction order lists each once.
ReferenceCounts ==
    /\ \A i \in ActiveIDs : active[i].generation \in Known
    /\ \A g \in Known : generations[g] = Cardinality(ActiveOf(g))
    /\ ToSet(genOrder) = Known /\ Len(genOrder) = Cardinality(Known)

\* The generation history stays within the tombstone capacity unless every
\* remembered generation still has an active request.
HistoryBounded ==
    Cardinality(Known) > Cap => \A g \in Known : ActiveOf(g) # {}

\* Exactly the Cap most recently accepted keys are classified as duplicates:
\* the tombstones are the tail of the acceptance history, whatever was begun,
\* cancelled or accepted in between.
TombstonesAreRecent ==
    LET n == Len(accepted)
        kept == IF n > Cap THEN Cap ELSE n
    IN  /\ order = SubSeq(accepted, n - kept + 1, n)
        /\ tomb = ToSet(order)

\* A request is answered ResponseAccepted at most once, even after its tombstone
\* was evicted and after any number of cancel attempts.
AcceptedOnce == \A i, j \in DOMAIN accepted : accepted[i] = accepted[j] => i = j

\* The table forgets nothing it still needs and keeps nothing for ever: reference
\* counts, the order of eviction and the bound of the history agree with the
\* active requests through Begin, Accept, trimming and failed cancellations.
TableConsistent == TypeOK /\ ReferenceCounts /\ HistoryBounded

\* A response is accepted at most once and its repetitions are recognised for as
\* long as the tombstones reach, although tombstones and generations are evicted
\* independently and a failed Cancel puts an entry back.
ResponsesOnce == TombstonesAreRecent /\ AcceptedOnce

\* A cancel notification goes to the wire at most once per request, and an
\* active entry is marked exactly while a write is out or after one succeeded:
\* a failed write leaves the request cancellable again.
CancelWrittenOnce ==
    /\ \A i \in IDs : written[i] <= 1
    /\ \A i \in ActiveIDs :
          active[i].cancelWritten <=>
             (written[i] = 1 \/ \E c \in InFlight : cancelling[c].key.id = i)

\* TRANSPORT-CORE-REPAIR.md: "evicted late responses classify as
\* ResponseUnknown".  A response to a request that was accepted before and whose
\* tombstone is gone is answered UNKNOWN.
EvictedLateIsUnknown ==
    [][\A k \in ToSet(accepted) :
          (k \notin tomb /\ answer' # answer /\ answer'.key = k)
             => answer'.disposition = "UNKNOWN"]_vars
=============================================================================
