-------------------------- MODULE AcquisitionProofs --------------------------
(***************************************************************************)
(* Proofs about Acquisition, for every valid request, every language       *)
(* server and every point at which the context ends.  One inductive        *)
(* invariant, AcquisitionInv, carries the budget, the rotation, the        *)
(* breadth-first layers, the closure behind a complete acquisition and     *)
(* what the validator of the sealed result accepts.  That the replay of    *)
(* the retained records ends with the result of the live run is proved by  *)
(* giving the live run a trace, which the replay then follows.             *)
(***************************************************************************)
EXTENDS Acquisition, FiniteSetTheorems, SequenceTheorems, WellFoundedInduction, TLAPS

\* The values the state is made of.
Methods == {"supply", "symbols", "prepare"} \cup Directions
Steps == {"supply", "symbols", "probe", "admit", "siblings", "peer", "begin", "visit", "finish"}
\* The steps before a target is admitted.
Early == {"supply", "symbols", "probe", "admit"}
Usages == [requests : Nat, probes : Nat, bytes : Nat]
Places == [step : Steps, t : Nat, d : Directions, probe : Nat, width : Nat, flat : BOOLEAN, left : Nat]

Kinds == {"none", "same uri", "other uri", "absent", "ambiguous", "malformed", "one", "flat", "tree", "inexact",
          "items", "mismatch", "undeclared", "INVALID_ITEM"}
Outcomes == {"SUCCESS", "BUDGET_BLOCKED", "CAPTURE_INCOMPLETE", "CAPTURE_FAILED", "FAILED", "UNSUPPORTED"}
Reasons == {"", "error", "identifier not found", "malformed", "EVIDENCE_BYTES", "CANCELLED", "MAX_REQUESTS",
            "MAX_PREPARE_PROBES"}
Resolutions == {"NONE", "BLOCKED", "UNSUPPORTED", "FAILED", "MISSING", "AMBIGUOUS", "RESOLVED"}
QueryStatuses == {"BUDGET_BLOCKED", "UNSUPPORTED", "FAILED", "PARTIAL", "SUCCESS_EMPTY", "SUCCESS_NONEMPTY"}

\* What a record may hold; a success holds an answer its method reads.
Replies == [kind : Kinds] \cup [kind : Kinds, width : Nat] \cup [kind : Kinds, width : Nat, count : Nat, stray : BOOLEAN]
           \cup [kind : Kinds, items : SUBSET Nodes]
Suits(rec) ==
    rec.outcome = "SUCCESS" =>
        /\ rec.call[2] = "symbols" => rec.answer.width \in Nat /\ (rec.call[3] # NoNode => rec.answer.count \in Nat)
        /\ rec.call[2] \in {"prepare"} \cup Directions => rec.answer.items \subseteq Nodes
        /\ rec.call[2] = "prepare" => rec.answer.kind \in {"items", "mismatch"} \/ rec.answer.items # {}
        /\ rec.call[2] \in Directions => rec.answer.kind \in {"items", "INVALID_ITEM"}
Retained == {rec \in [call : Targets \X Methods \X (Nodes \cup {NoNode}), before : Usages, outcome : Outcomes,
                      reason : Reasons, answer : Replies, bytes : Nat, attempted : BOOLEAN] : Suits(rec)}

Expansions == [node : Nodes, depth : Nat, status : QueryStatuses \cup {"FRONTIER"}, reason : Reasons, req : Nat, cached : BOOLEAN]
Entries == [status : QueryStatuses, reason : Reasons, req : Nat, neighbours : SUBSET nodes]

\* Where the run is, and which steps a request makes possible.
Control ==
    /\ request \in Requests
    /\ run \in {"live", "replay", "done"} /\ ctx \in {"open", "over"} /\ complete \in BOOLEAN
    /\ at \in Places /\ (at.step \in Calls => at.t \in Targets)
    /\ usage \in Usages
    /\ records \in Seq(Retained)
    /\ run # "live" => saved.records \in Seq(Retained)
    /\ at.step \in {"siblings", "peer"} => request.siblings /\ adm[at.t] = "ADMITTED"
    /\ at.step \in {"begin", "visit"} => at.d = "incoming" \/ request.mode = "SLICE"

\* What was charged stays under the request's limits.
Budget ==
    /\ usage.requests <= MaxRequests /\ usage.probes <= MaxPrepareProbes /\ usage.bytes <= MaxEvidence
    /\ nodes \subseteq Nodes /\ Cardinality(nodes) <= MaxNodes

\* A resolved locator names a node, an admitted target a kept one; before
\* admission the result is empty.
Resolved ==
    /\ res \in [{Locator[t] : t \in Targets} -> [status : Resolutions, node : Nat]]
    /\ \A t \in Targets : res[Locator[t]].status = "RESOLVED" => Identity(t) \in Nodes
    /\ adm \in [Targets -> {"ADMITTED", "BUDGET_BLOCKED", "NOT_APPLICABLE"}]
    /\ \A t \in Targets : adm[t] = "ADMITTED" => Identity(t) \in nodes
    /\ members \in [Targets -> SUBSET nodes]
    /\ at.step \in Early => /\ adm = NotAdmitted /\ nodes = {} /\ members = Nothing /\ complete = TRUE
                            /\ edges = {} /\ observed = {} /\ queries = NoQueries

\* The edges an answer to query k with the neighbours S is observed as.
Links(k, S) == {IF k[1] = "outgoing" THEN <<k[2], m>> ELSE <<m, k[2]>> : m \in S}

\* Every query in the cache is one record, every such record one query, and the
\* observed edges are what those answers hold.
Ledger ==
    /\ edges \subseteq nodes \X nodes
    /\ edges = {o[2] : o \in observed}
    /\ observed \subseteq (1 .. Len(records)) \X (nodes \X nodes)
    /\ DOMAIN queries \subseteq Directions \X nodes
    /\ queries \in [DOMAIN queries -> Entries]
    /\ \A i \in 1 .. Len(records) : records[i].call[2] \in Directions =>
          /\ <<records[i].call[2], records[i].call[3]>> \in DOMAIN queries
          /\ queries[<<records[i].call[2], records[i].call[3]>>].req = i
    /\ \A k \in DOMAIN queries : LET q == queries[k] IN
          /\ q.req \in 1 .. Len(records)
          /\ records[q.req].call[2] = k[1] /\ records[q.req].call[3] = k[2]
          /\ q.status = QueryStatus(records[q.req], q.neighbours)
          /\ q.neighbours # {} => records[q.req].outcome = "SUCCESS"
          /\ \A e : <<q.req, e>> \in observed <=> e \in Links(k, q.neighbours)

\* The statuses whose neighbours a walk goes on to.
Followed == {"SUCCESS_NONEMPTY", "PARTIAL"}

\* What an expansion says is what the cache holds.
Truthful(d, e) ==
    /\ e.node \in nodes /\ e.req <= Len(records)
    /\ e.status \in Followed \cup Successful =>
          /\ <<d, e.node>> \in DOMAIN queries
          /\ queries[<<d, e.node>>].status = e.status /\ queries[<<d, e.node>>].req = e.req

\* A direction no visit was made in.
Undone(d) ==
    \/ at.step \in Early \cup {"siblings", "peer"}
    \/ at.step = "begin" /\ (d = at.d \/ at.d = "outgoing")
    \/ at.step = "visit" /\ at.d = "outgoing" /\ d = "incoming"
    \/ d = "outgoing" /\ request.mode = "INCOMING"

\* The expansions are of known shape, truthful, and of begun directions only.
Trail ==
    /\ exps \in [Directions -> [Targets -> Seq(Expansions)]]
    /\ starts \in [Directions -> [Targets -> SUBSET nodes]]
    /\ \A d \in Directions, t \in Targets : \A i \in 1 .. Len(exps[d][t]) : Truthful(d, exps[d][t][i])
    /\ \A d \in Directions, t \in Targets : Undone(d) => exps[d][t] = <<>>

\* The nodes whose distance an expansion settles.
Behind(d, e) == IF e.status \in Followed THEN queries[<<d, e.node>>].neighbours ELSE {}

\* A breadth-first walk: D holds the nodes it met with their depths, Q those that
\* wait, E its expansions so far and B the nodes behind each of them.  A node has
\* one depth; the queue spans two layers; every node is a start or one step behind
\* an expansion, and no node behind an expansion is missing or deeper than that.
Layered(D, Q, start, E, B) ==
    /\ \A x, y \in D : x[1] = y[1] => x = y
    /\ \A x \in D, y \in Q : x[2] <= y[2] + 1
    /\ \A n \in start : <<n, 0>> \in D
    /\ \A x \in D : x \in Q \/ \E i \in 1 .. Len(E) : E[i].node = x[1]
    /\ \A x \in D : x[1] \notin start => \E i \in 1 .. Len(E) : x[2] = E[i].depth + 1 /\ x[1] \in B[i]
    /\ \A i \in 1 .. Len(E) : \A n \in B[i] : \E x \in D : x[1] = n /\ x[2] <= E[i].depth + 1

\* The walk of target t in the current direction.
Walk(t) == Layered(depth[t], queue[t], starts[at.d][t], exps[at.d][t],
                   [i \in 1 .. Len(exps[at.d][t]) |-> Behind(at.d, exps[at.d][t][i])])

\* Every target's walk is a breadth-first one.
Walks ==
    /\ queue \in [Targets -> SUBSET (nodes \X Nat)] /\ depth \in [Targets -> SUBSET (nodes \X Nat)]
    /\ \A t \in Targets : queue[t] \subseteq depth[t]
    /\ at.step = "visit" => \A t \in Targets : Walk(t)

\* A direction whose traversal has ended.
Traversed(d) == at.step = "finish" \/ (d = "outgoing" /\ at.step \in {"begin", "visit"} /\ at.d = "incoming")

\* A traversal that ended left nothing behind an expansion unexpanded.
Closed ==
    \A d \in Directions : Traversed(d) =>
        \A t \in Targets : \A i \in 1 .. Len(exps[d][t]) : Behind(d, exps[d][t][i]) \subseteq Expanded(d, t)

\* Nothing was cut off so far.
AllWhole ==
    /\ \A t \in Targets : adm[t] = "ADMITTED"
    /\ \A d \in Directions : Traversed(d) => \A t \in Targets : Whole(d, t)

\* `complete` says that nothing was cut off; sibling discovery may also clear it.
Verdict ==
    at.step \notin Early =>
        /\ complete => AllWhole
        /\ ~request.siblings /\ AllWhole => complete

\* Every target still walking has been visited as often as the others of its lap.
Lap ==
    at.step = "visit" =>
        \E k \in Nat : \A t \in Targets :
            LET turns == IF t <= at.t THEN k + 1 ELSE k
            IN  /\ Len(exps[at.d][t]) <= turns
                /\ queue[t] # {} => Len(exps[at.d][t]) = turns

\* An expansion of t was answered by the record observation o came from.
Follows(t, o) == \E d \in Directions : \E i \in 1 .. Len(exps[d][t]) :
                    exps[d][t][i].req = o[1] /\ exps[d][t][i].status \in Followed
\* The node of an admitted target.
Own(t) == IF adm[t] = "ADMITTED" THEN {Identity(t)} ELSE {}

\* A target's members are its own node and the ends of the edges its walk followed.
Joined ==
    \A t \in Targets : \A n : n \in members[t] <=>
        n \in Own(t) \/ \E o \in observed : Follows(t, o) /\ (n = o[2][1] \/ n = o[2][2])

\* Inductive.
AcquisitionInv ==
    /\ Control /\ Budget /\ Resolved /\ Ledger /\ Trail /\ Walks /\ Closed /\ Verdict /\ Lap /\ Joined

-----------------------------------------------------------------------------
(* Numbers, sets and requests *)

\* The order of the naturals as a relation.
Less == {p \in Nat \X Nat : p[1] < p[2]}

\* It is well founded,
LEMMA LessWellFounded == IsWellFoundedOn(Less, Nat)
BY NatLessThanWellFounded DEF OpToRel, Less

\* so every nonempty set of them has a least element,
LEMMA LeastNatural ==
    ASSUME NEW Q, Q \subseteq Nat, Q # {}
    PROVE  \E m \in Q : \A q \in Q : m <= q
<1>1. PICK m \in Q : \A q \in Q : ~(<<q, m>> \in Less)
  BY LessWellFounded, WFMin
<1>2. \A q \in Q : ~(q < m)
  BY <1>1 DEF Less
<1>3. QED
  BY <1>2

\* which is what SetMin chooses.
LEMMA SetMinLeast ==
    ASSUME NEW S, S \subseteq Nat, S # {}
    PROVE  SetMin(S) \in S /\ \A y \in S : SetMin(S) <= y
<1>1. \E x \in S : \A y \in S : x <= y
  BY LeastNatural
<1>2. QED
  BY <1>1 DEF SetMin

\* A nonempty finite set of naturals has a greatest element.
LEMMA GreatestOfFinite ==
    ASSUME NEW S, S \subseteq Nat, S # {}, IsFiniteSet(S)
    PROVE  \E m \in S : \A y \in S : y <= m
<1> DEFINE Sizes == {Cardinality({y \in S : y > x}) : x \in S}
<1>1. \A x \in S : IsFiniteSet({y \in S : y > x}) /\ Cardinality({y \in S : y > x}) \in Nat
  <2>1. TAKE x \in S
  <2>2. {y \in S : y > x} \subseteq S
    OBVIOUS
  <2>3. IsFiniteSet({y \in S : y > x})
    BY <2>2, FS_Subset
  <2>4. QED
    BY <2>3, FS_CardinalityType
<1>2. Sizes \subseteq Nat /\ Sizes # {}
  BY <1>1
<1>3. PICK c \in Sizes : \A k \in Sizes : c <= k
  <2> HIDE DEF Sizes
  <2>1. QED
    BY <1>2, LeastNatural
<1>4. PICK m \in S : c = Cardinality({y \in S : y > m})
  BY <1>3
<1>5. ASSUME NEW z \in S, z > m PROVE FALSE
  <2> DEFINE A == {y \in S : y > m}
             B == {y \in S : y > z}
  <2>1. B \subseteq A /\ B # A
    <3>1. \A y \in S : y > z => y > m
      BY <1>5
    <3>2. z \in A /\ z \notin B
      BY <1>5
    <3>3. QED
      BY <3>1, <3>2
  <2>2. IsFiniteSet(A) /\ Cardinality(A) = c /\ Cardinality(B) \in Sizes
    BY <1>1, <1>4
  <2>3. c <= Cardinality(B) /\ c \in Nat /\ Cardinality(B) \in Nat
    BY <1>2, <1>3, <2>2
  <2>4. Cardinality(B) < Cardinality(A)
    <3> HIDE DEF A, B
    <3>1. QED
      BY <2>1, <2>2, <2>3, FS_Subset
  <2>5. QED
    BY <2>2, <2>3, <2>4
<1>6. QED
  BY <1>5

\* What ValidateRequest admits, as the proofs use it.
LEMMA RequestFacts ==
    ASSUME request \in Requests
    PROVE  /\ Len(Locator) \in Nat /\ Len(Locator) > 0 /\ Targets = 1 .. Len(Locator) /\ 1 \in Targets
           /\ Nodes \subseteq Nat /\ NoNode \notin Nodes /\ IsFiniteSet(Nodes)
           /\ \A n \in Nodes : request.world[n] \subseteq Nodes
           /\ MaxNodes \in Nat /\ MaxRequests \in Nat /\ MaxEvidence \in Nat
           /\ MaxResponse \in Nat /\ MaxResponse > 0 /\ MaxPrepareProbes \in Nat /\ MaxPrepareProbes > 0
           /\ Widths \subseteq Nat /\ PeerCounts \subseteq Nat
           /\ request.mode \in {"SLICE", "INCOMING"}
<1>1. ValidRequest(request) /\ {MaxResponse, MaxPrepareProbes} \subseteq Positive
      /\ Widths \subseteq Positive /\ PeerCounts \subseteq Nat
  BY AcquisitionConstants
<1>2. request.locator \in Seq(Locators) /\ request.locator # <<>>
  BY <1>1 DEF ValidRequest
<1>3. Len(request.locator) \in Nat /\ Len(request.locator) > 0
      /\ DOMAIN request.locator = 1 .. Len(request.locator)
  BY <1>2
<1>4. QED
  BY <1>1, <1>3 DEF ValidRequest, Positive, Locator, Targets, Nodes, MaxNodes, MaxRequests, MaxEvidence, NoNode

\* An element past the end of a sequence extends it by one.
LEMMA Appended ==
    ASSUME NEW S, NEW q \in Seq(S), NEW e \in S
    PROVE  /\ Append(q, e) \in Seq(S) /\ Len(Append(q, e)) = Len(q) + 1 /\ Len(q) \in Nat
           /\ Append(q, e)[Len(q) + 1] = e
           /\ \A i \in 1 .. Len(q) : Append(q, e)[i] = q[i]
OBVIOUS

-----------------------------------------------------------------------------
(* Whose turn it is, and what it asks for *)

\* The turn goes to the next target with a node waiting, round robin.
LEMMA TurnFacts ==
    ASSUME Control, Waiting
    PROVE  /\ Turn \in Targets /\ queue[Turn] # {}
           /\ \/ Turn > at.t /\ \A t \in Targets : at.t < t /\ t < Turn => queue[t] = {}
              \/ /\ Turn <= at.t /\ \A t \in Targets : t > at.t => queue[t] = {}
                 /\ \A t \in Targets : t < Turn => queue[t] = {}
<1> DEFINE waiting == {t \in Targets : queue[t] # {}}
           later == {t \in waiting : t > at.t}
<1>1. waiting # {} /\ waiting \subseteq Targets /\ Targets \subseteq Nat /\ at.t \in Nat
  BY RequestFacts DEF Waiting, Control, Places
<1>2. waiting \subseteq Nat /\ later \subseteq Nat
  BY <1>1
<1>3. CASE later # {}
  <2>1. Turn = SetMin(later)
    BY <1>3 DEF Turn
  <2>2. SetMin(later) \in later /\ \A y \in later : SetMin(later) <= y
    <3> HIDE DEF later
    <3>1. QED
      BY <1>2, <1>3, SetMinLeast
  <2>3. Turn \in Targets /\ queue[Turn] # {} /\ Turn > at.t
    BY <2>1, <2>2
  <2>4. ASSUME NEW t \in Targets, at.t < t, t < Turn, queue[t] # {} PROVE FALSE
    <3>1. t \in later
      BY <2>4, <1>1
    <3>2. QED
      BY <2>1, <2>2, <2>3, <2>4, <3>1, <1>1
  <2>5. QED
    BY <2>3, <2>4
<1>4. CASE later = {}
  <2>1. Turn = SetMin(waiting)
    BY <1>4 DEF Turn
  <2>2. SetMin(waiting) \in waiting /\ \A y \in waiting : SetMin(waiting) <= y
    <3> HIDE DEF waiting
    <3>1. QED
      BY <1>1, <1>2, SetMinLeast
  <2>3. Turn \in Targets /\ queue[Turn] # {} /\ Turn \notin later
    BY <2>1, <2>2, <1>4
  <2>4. ~(Turn > at.t)
    BY <2>3
  <2>5. Turn \in Nat
    BY <2>3, <1>1
  <2>6. \A t \in Targets : t > at.t => queue[t] = {}
    BY <1>4
  <2>7. ASSUME NEW t \in Targets, t < Turn, queue[t] # {} PROVE FALSE
    <3>1. t \in waiting /\ t \in Nat
      BY <2>7, <1>1
    <3>2. QED
      BY <2>1, <2>2, <2>5, <2>7, <3>1
  <2>8. QED
    BY <1>1, <2>3, <2>4, <2>5, <2>6, <2>7
<1>5. QED
  BY <1>3, <1>4

\* The node a target visits next is one that waits at the least depth.
LEMMA NextInFacts ==
    ASSUME Control, Budget, Walks, NEW t \in Targets, queue[t] # {}
    PROVE  \E x \in queue[t] : x[1] = NextIn(t) /\ \A y \in queue[t] : x[2] <= y[2]
<1> DEFINE depths == {x[2] : x \in queue[t]}
           nearest == {x \in queue[t] : \A y \in queue[t] : x[2] <= y[2]}
           ids == {e[1] : e \in nearest}
<1>1. queue[t] \subseteq nodes \X Nat /\ nodes \subseteq Nat
  BY RequestFacts DEF Walks, Control, Budget
<1>2. depths \subseteq Nat /\ depths # {}
  BY <1>1
<1>3. PICK d \in depths : \A e \in depths : d <= e
  <2> HIDE DEF depths
  <2>1. QED
    BY <1>2, LeastNatural
<1>4. PICK x \in queue[t] : x[2] = d
  BY <1>3
<1>5. x \in nearest
  BY <1>3, <1>4
<1>6. ids \subseteq Nat /\ ids # {}
  BY <1>1, <1>5
<1>7. NextIn(t) \in ids
  <2>1. NextIn(t) = SetMin(ids)
    BY DEF NextIn
  <2> HIDE DEF ids
  <2>2. QED
    BY <1>6, <2>1, SetMinLeast
<1>8. QED
  BY <1>7

\* During a walk a node has one depth, so the next node is taken from the queue.
LEMMA NextDepth ==
    ASSUME Control, Budget, Walks, at.step = "visit", NEW t \in Targets, queue[t] # {}
    PROVE  /\ NextIn(t) \in nodes /\ DepthOf(t, NextIn(t)) \in Nat
           /\ <<NextIn(t), DepthOf(t, NextIn(t))>> \in queue[t]
           /\ \A y \in queue[t] : DepthOf(t, NextIn(t)) <= y[2]
<1>1. PICK x \in queue[t] : x[1] = NextIn(t) /\ \A y \in queue[t] : x[2] <= y[2]
  BY NextInFacts
<1>2. /\ queue[t] \subseteq depth[t] /\ depth[t] \subseteq nodes \X Nat
      /\ \A y, z \in depth[t] : y[1] = z[1] => y = z
  BY DEF Walks, Walk, Layered
<1>3. (CHOOSE y \in depth[t] : y[1] = NextIn(t)) = x
  BY <1>1, <1>2
<1>4. DepthOf(t, NextIn(t)) = x[2]
  BY <1>3 DEF DepthOf
<1>5. x \in nodes \X Nat
  BY <1>1, <1>2
<1>6. QED
  BY <1>1, <1>4, <1>5

\* A request names a target, a method and a node it knows; a symbol request
\* names a node exactly where the siblings of an admitted target are asked for.
LEMMA CallFits ==
    ASSUME Control, Budget, Resolved, Walks, at.step \in Calls \/ Waiting
    PROVE  /\ Call \in Targets \X Methods \X (Nodes \cup {NoNode})
           /\ Call[2] = "symbols" => (Call[3] # NoNode <=> at.step = "siblings")
           /\ Call[2] \in Directions => Call[3] \in nodes
           /\ at.step = "visit" => Call = <<Turn, at.d, NextIn(Turn)>>
           /\ at.step \in Calls => Call[2] \notin Directions
           /\ at.step \in {"symbols", "siblings"} => Call[2] = "symbols"
           /\ at.step \in {"probe", "peer"} => Call[2] = "prepare"
<1>1. /\ NoNode \notin Nodes /\ nodes \subseteq Nodes
      /\ at.step \in {"siblings", "peer"} => Identity(at.t) \in nodes
      /\ at.d \in Directions
      /\ at.step \in Calls => at.t \in Targets
  BY RequestFacts DEF Control, Budget, Resolved, Places, Calls
<1>2. CASE at.step \in Calls
  <2>1. CASE at.step = "supply"
    <3>1. Call = <<at.t, "supply", NoNode>>
      BY <2>1 DEF Call
    <3>2. QED
      BY <1>1, <1>2, <2>1, <3>1 DEF Methods, Directions, Calls
  <2>2. CASE at.step = "symbols"
    <3>1. Call = <<at.t, "symbols", NoNode>>
      BY <2>2 DEF Call
    <3>2. QED
      BY <1>1, <1>2, <2>2, <3>1 DEF Methods, Directions, Calls
  <2>3. CASE at.step = "probe"
    <3>1. Call = <<at.t, "prepare", NoNode>>
      BY <2>3 DEF Call
    <3>2. QED
      BY <1>1, <1>2, <2>3, <3>1 DEF Methods, Directions, Calls
  <2>4. CASE at.step = "siblings"
    <3>1. Call = <<at.t, "symbols", Identity(at.t)>>
      BY <2>4 DEF Call
    <3>2. QED
      BY <1>1, <1>2, <2>4, <3>1 DEF Methods, Directions, Calls
  <2>5. CASE at.step = "peer"
    <3>1. Call = <<at.t, "prepare", Identity(at.t)>>
      BY <2>5 DEF Call
    <3>2. QED
      BY <1>1, <1>2, <2>5, <3>1 DEF Methods, Directions, Calls
  <2>6. QED
    BY <1>2, <2>1, <2>2, <2>3, <2>4, <2>5 DEF Calls
<1>3. CASE Waiting
  <2>1. at.step = "visit" /\ Turn \in Targets /\ queue[Turn] # {}
    BY <1>3, TurnFacts DEF Waiting
  <2>2. NextIn(Turn) \in nodes
    BY <2>1, NextDepth
  <2>3. Call = <<Turn, at.d, NextIn(Turn)>>
    BY <2>1 DEF Call
  <2>4. QED
    BY <1>1, <2>1, <2>2, <2>3 DEF Methods, Directions, Calls
<1>4. QED
  BY <1>2, <1>3

-----------------------------------------------------------------------------
(* One request, whoever answers it *)

\* An answer of the server has the parts its method reads.
LEMMA AnswersFit ==
    ASSUME request \in Requests, NEW m \in Methods, NEW n, NEW sibling \in BOOLEAN,
           m \in Directions => n \in Nodes, NEW a \in Answers(m, n, sibling)
    PROVE  /\ a \in Replies
           /\ m = "symbols" => a.width \in Nat /\ (sibling => a.count \in Nat)
           /\ m \in {"prepare"} \cup Directions => a.items \subseteq Nodes
           /\ m = "prepare" => a.kind \in {"items", "mismatch"} \/ a.items # {}
           /\ m \in Directions => a.kind \in {"items", "INVALID_ITEM"}
<1>1. Widths \subseteq Nat /\ PeerCounts \subseteq Nat /\ \A x \in Nodes : request.world[x] \subseteq Nodes
  BY RequestFacts
<1>2. CASE m = "supply"
  <2>1. PICK k \in {"same uri", "other uri"} : a = [kind |-> k]
    BY <1>2, Zenon DEF Answers
  <2>2. a \in [kind : Kinds]
    BY <2>1 DEF Kinds
  <2>3. a \in Replies
    BY <2>2, Zenon DEF Replies
  <2>4. QED
    BY <1>2, <2>2, <2>3 DEF Directions
<1>3. CASE m = "symbols" /\ ~sibling
  <2>1. a \in {[kind |-> k, width |-> 1] : k \in {"absent", "ambiguous", "malformed"}}
              \cup [kind : {"one"}, width : Widths]
    BY <1>3 DEF Answers
  <2>2. a \in [kind : Kinds, width : Nat]
    <3>1. CASE \E k \in {"absent", "ambiguous", "malformed"} : a = [kind |-> k, width |-> 1]
      <4>1. PICK k \in {"absent", "ambiguous", "malformed"} : a = [kind |-> k, width |-> 1]
        BY <3>1
      <4>2. QED
        BY <4>1 DEF Kinds
    <3>2. CASE a \in [kind : {"one"}, width : Widths]
      BY <1>1, <3>2 DEF Kinds
    <3>3. QED
      BY <2>1, <3>1, <3>2, Zenon
  <2>3. a \in Replies
    BY <2>2, Zenon DEF Replies
  <2>4. QED
    BY <1>3, <2>2, <2>3 DEF Directions
<1>4. CASE m = "symbols" /\ sibling
  <2>1. a \in [kind : {"flat", "tree"}, width : Widths, count : PeerCounts, stray : BOOLEAN]
              \cup {[kind |-> "inexact", width |-> 1, count |-> 0, stray |-> FALSE]}
    BY <1>4 DEF Answers
  <2>2. a \in [kind : Kinds, width : Nat, count : Nat, stray : BOOLEAN]
    <3>1. CASE a \in [kind : {"flat", "tree"}, width : Widths, count : PeerCounts, stray : BOOLEAN]
      BY <1>1, <3>1 DEF Kinds
    <3>2. CASE a = [kind |-> "inexact", width |-> 1, count |-> 0, stray |-> FALSE]
      BY <3>2 DEF Kinds
    <3>3. QED
      BY <2>1, <3>1, <3>2, Zenon
  <2>3. a \in Replies
    BY <2>2, Zenon DEF Replies
  <2>4. QED
    BY <1>4, <2>2, <2>3 DEF Directions
<1>5. CASE m = "prepare"
  <2>1. a \in [kind : {"items"}, items : {{}} \cup {{x} : x \in Nodes} \cup {Nodes}]
              \cup {[kind |-> "mismatch", items |-> {}]}
              \cup {[kind |-> "undeclared", items |-> {x}] : x \in {y \in Nodes : n # NoNode}}
    BY <1>5 DEF Answers
  <2>2. a \in [kind : Kinds, items : SUBSET Nodes]
    <3>1. CASE a \in [kind : {"items"}, items : {{}} \cup {{x} : x \in Nodes} \cup {Nodes}]
      BY <3>1 DEF Kinds
    <3>2. CASE a = [kind |-> "mismatch", items |-> {}]
      BY <3>2 DEF Kinds
    <3>3. CASE \E x \in {y \in Nodes : n # NoNode} : a = [kind |-> "undeclared", items |-> {x}]
      <4>1. PICK x \in Nodes : a = [kind |-> "undeclared", items |-> {x}]
        BY <3>3
      <4>2. QED
        BY <4>1 DEF Kinds
    <3>4. QED
      BY <2>1, <3>1, <3>2, <3>3, Zenon
  <2>3. a \in Replies
    BY <2>2, Zenon DEF Replies
  <2>4. a.kind \in {"items", "mismatch"} \/ a.items # {}
    BY <2>1
  <2>5. QED
    BY <1>5, <2>2, <2>3, <2>4 DEF Directions
<1>6. CASE m \in Directions
  <2>1. a \in [kind : {"items"} \cup ({"INVALID_ITEM"} \cap Faults), items : SUBSET request.world[n]]
    BY <1>6 DEF Answers, Directions
  <2>2. a \in [kind : {"items", "INVALID_ITEM"}, items : SUBSET Nodes]
    BY <1>1, <1>6, <2>1
  <2>3. a \in [kind : Kinds, items : SUBSET Nodes]
    BY <2>2 DEF Kinds
  <2>4. a \in Replies
    BY <2>3, Zenon DEF Replies
  <2>5. QED
    BY <1>6, <2>2, <2>4 DEF Directions
<1>7. QED
  BY <1>2, <1>3, <1>4, <1>5, <1>6 DEF Methods

\* What a record adds to the usage stays within the budgets.
Affordable(rec) ==
    /\ usage.requests + (IF rec.attempted THEN 1 ELSE 0) <= MaxRequests
    /\ usage.probes + (IF rec.attempted /\ rec.call[2] = "prepare" THEN 1 ELSE 0) <= MaxPrepareProbes
    /\ usage.bytes + rec.bytes <= MaxEvidence

\* A record is one for the request at hand, well formed and affordable.
Due(rec) == rec \in Retained /\ rec.call = Call /\ Affordable(rec)

\* A request that no limit holds back leaves room for itself.
LEMMA NotBlocked ==
    ASSUME Control, Budget, NEW m, Blocked(m) = "NO"
    PROVE  /\ ctx = "open" /\ usage.requests < MaxRequests /\ usage.bytes + 1 < MaxEvidence
           /\ m = "prepare" => usage.probes < MaxPrepareProbes
<1>1. /\ usage \in Usages /\ ctx \in {"open", "over"}
      /\ MaxRequests \in Nat /\ MaxEvidence \in Nat /\ MaxPrepareProbes \in Nat
  BY RequestFacts DEF Control
<1>2. QED
  BY <1>1 DEF Blocked, Usages

\* The record of a blocked request spends no request, and a byte only if there is one.
LEMMA BlockedFits ==
    ASSUME Control, Budget, Resolved, Walks, at.step \in Calls \/ Waiting, Blocked(Call[2]) # "NO"
    PROVE  /\ Due(BlockedRecord(Call)) /\ BlockedRecord(Call).outcome = "BUDGET_BLOCKED"
           /\ BlockedRecord(Call).reason = Blocked(Call[2])
<1>1. /\ usage \in Usages
      /\ usage.requests <= MaxRequests /\ usage.probes <= MaxPrepareProbes /\ usage.bytes <= MaxEvidence
      /\ MaxRequests \in Nat /\ MaxEvidence \in Nat /\ MaxPrepareProbes \in Nat
  BY RequestFacts DEF Control, Budget
<1>2. Call \in Targets \X Methods \X (Nodes \cup {NoNode})
  BY CallFits
<1>3. Blocked(Call[2]) \in Reasons
  BY DEF Blocked, Reasons
<1> DEFINE b == IF Blocked(Call[2]) = "EVIDENCE_BYTES" /\ usage.bytes < MaxEvidence THEN 1 ELSE 0
<1>4. b \in Nat /\ usage.bytes + b <= MaxEvidence
  BY <1>1 DEF Usages
<1>5. BlockedRecord(Call) = [call |-> Call, before |-> usage, outcome |-> "BUDGET_BLOCKED", reason |-> Blocked(Call[2]),
                             answer |-> NoAnswer, bytes |-> b, attempted |-> FALSE]
  BY DEF BlockedRecord, Record
<1>6. NoAnswer \in Replies
  BY DEF NoAnswer, Replies, Kinds
<1> HIDE DEF b
<1>7. BlockedRecord(Call) \in Retained
  BY <1>1, <1>2, <1>3, <1>4, <1>5, <1>6 DEF Retained, Suits, Outcomes
<1>8. Affordable(BlockedRecord(Call))
  BY <1>1, <1>4, <1>5 DEF Affordable, Usages
<1>9. QED
  BY <1>5, <1>7, <1>8 DEF Due

\* A request that goes out leaves a record that fits.
LEMMA AttemptFits ==
    ASSUME Control, Budget, Resolved, Walks, at.step \in Calls \/ Waiting, Blocked(Call[2]) = "NO",
           NEW outcome \in Outcomes, NEW reason \in Reasons, NEW a \in Replies, NEW b \in Nat,
           outcome # "BUDGET_BLOCKED", Suits([call |-> Call, outcome |-> outcome, answer |-> a]),
           usage.bytes + b <= MaxEvidence
    PROVE  Due(Record(Call, outcome, reason, a, b))
<1>1. /\ usage \in Usages /\ usage.probes <= MaxPrepareProbes /\ usage.requests < MaxRequests
      /\ Call[2] = "prepare" => usage.probes < MaxPrepareProbes
      /\ MaxRequests \in Nat /\ MaxEvidence \in Nat /\ MaxPrepareProbes \in Nat
  BY RequestFacts, NotBlocked DEF Control, Budget
<1>2. Call \in Targets \X Methods \X (Nodes \cup {NoNode})
  BY CallFits
<1>3. Record(Call, outcome, reason, a, b) =
        [call |-> Call, before |-> usage, outcome |-> outcome, reason |-> reason,
         answer |-> a, bytes |-> b, attempted |-> TRUE]
  BY DEF Record
<1>4. Record(Call, outcome, reason, a, b) \in Retained
  BY <1>1, <1>2, <1>3 DEF Retained, Suits
<1>5. Affordable(Record(Call, outcome, reason, a, b))
  BY <1>1, <1>3 DEF Affordable, Usages
<1>6. QED
  BY <1>3, <1>4, <1>5 DEF Due

\* Whatever the server does, the live run keeps a record that fits.
LEMMA LiveFits ==
    ASSUME Control, Budget, Resolved, Walks, at.step \in Calls \/ Waiting, NEW rec \in LiveRecords(Call)
    PROVE  Due(rec)
<1> DEFINE left == Smaller(MaxEvidence - usage.bytes - 1, MaxResponse)
<1>1. CASE Blocked(Call[2]) # "NO"
  BY <1>1, BlockedFits DEF LiveRecords
<1>2. CASE Blocked(Call[2]) = "NO"
  <2>1. /\ usage \in Usages /\ usage.bytes + 1 < MaxEvidence /\ MaxEvidence \in Nat /\ MaxResponse \in Nat
    BY <1>2, NotBlocked, RequestFacts DEF Control
  <2>2. /\ 1 + left \in Nat /\ usage.bytes + (1 + left) <= MaxEvidence
        /\ usage.bytes + 1 <= MaxEvidence /\ usage.bytes + 2 <= MaxEvidence
    BY <2>1 DEF Smaller, Usages
  <2>3. NoAnswer \in Replies
    BY DEF NoAnswer, Replies, Kinds
  <2>4. ASSUME NEW a \in Answers(Call[2], Call[3], at.step = "siblings") PROVE Due(Record(Call, "SUCCESS", "", a, 2))
    <3>1. /\ Call[2] \in Methods /\ (Call[2] \in Directions => Call[3] \in Nodes)
          /\ Call[2] = "symbols" => (Call[3] # NoNode <=> at.step = "siblings")
      BY CallFits DEF Budget
    <3>2. /\ a \in Replies
          /\ Call[2] = "symbols" => a.width \in Nat /\ (at.step = "siblings" => a.count \in Nat)
          /\ Call[2] \in {"prepare"} \cup Directions => a.items \subseteq Nodes
          /\ Call[2] = "prepare" => a.kind \in {"items", "mismatch"} \/ a.items # {}
          /\ Call[2] \in Directions => a.kind \in {"items", "INVALID_ITEM"}
      BY <2>4, <3>1, AnswersFit DEF Control
    <3>3. Suits([call |-> Call, outcome |-> "SUCCESS", answer |-> a])
      BY <3>1, <3>2 DEF Suits
    <3>4. QED
      BY <1>2, <2>2, <3>2, <3>3, AttemptFits DEF Outcomes, Reasons
  <2>5. ASSUME NEW o \in Outcomes, NEW reason \in Reasons, NEW b \in {1, 2, 1 + left},
               o \notin {"SUCCESS", "BUDGET_BLOCKED"}
        PROVE  Due(Record(Call, o, reason, NoAnswer, b))
    <3>1. Suits([call |-> Call, outcome |-> o, answer |-> NoAnswer])
      BY <2>5 DEF Suits
    <3> HIDE DEF left
    <3>2. b \in Nat /\ usage.bytes + b <= MaxEvidence
      BY <2>2
    <3>3. QED
      BY <1>2, <2>3, <2>5, <3>1, <3>2, AttemptFits
  <2> DEFINE errors == ({"FAILED", "UNSUPPORTED"} \X {"error"}) \cup
                       (IF Call[2] = "prepare" THEN {<<"FAILED", "identifier not found">>} ELSE {})
             raised == {e \in errors : (IF e[2] = "error" THEN e[1] ELSE "IDENTIFIER_MISS") \in Faults}
  <2>6. rec \in {Record(Call, "SUCCESS", "", a, 2) : a \in Answers(Call[2], Call[3], at.step = "siblings")}
             \cup {Record(Call, e[1], e[2], NoAnswer, 2) : e \in raised}
             \cup {Record(Call, "CAPTURE_INCOMPLETE", "EVIDENCE_BYTES", NoAnswer, 1 + left) : f \in {"OVERSIZE"} \cap Faults}
             \cup {Record(Call, f, "malformed", NoAnswer, 1) : f \in {"CAPTURE_FAILED"} \cap Faults}
    BY <1>2 DEF LiveRecords
  <2>7. \A e \in raised : e[1] \in {"FAILED", "UNSUPPORTED"} /\ e[2] \in Reasons
    <3>1. \A e \in errors : e[1] \in {"FAILED", "UNSUPPORTED"} /\ e[2] \in {"error", "identifier not found"}
      <4>1. \A e \in {"FAILED", "UNSUPPORTED"} \X {"error"} : e[1] \in {"FAILED", "UNSUPPORTED"} /\ e[2] = "error"
        OBVIOUS
      <4>2. \A e \in errors : e \in {"FAILED", "UNSUPPORTED"} \X {"error"} \/ e = <<"FAILED", "identifier not found">>
        BY Zenon
      <4>3. <<"FAILED", "identifier not found">>[1] = "FAILED" /\ <<"FAILED", "identifier not found">>[2] = "identifier not found"
        OBVIOUS
      <4> HIDE DEF errors
      <4>4. QED
        BY <4>1, <4>2, <4>3
    <3>2. QED
      BY <3>1 DEF Reasons
  <2> HIDE DEF errors, raised, left
  <2>8. CASE rec \in {Record(Call, "SUCCESS", "", a, 2) : a \in Answers(Call[2], Call[3], at.step = "siblings")}
    BY <2>4, <2>8
  <2>9. CASE rec \in {Record(Call, e[1], e[2], NoAnswer, 2) : e \in raised}
    <3>1. PICK e \in raised : rec = Record(Call, e[1], e[2], NoAnswer, 2)
      BY <2>9
    <3>2. e[1] \in Outcomes /\ e[2] \in Reasons /\ e[1] \notin {"SUCCESS", "BUDGET_BLOCKED"}
      BY <2>7 DEF Outcomes
    <3>3. QED
      BY <2>5, <3>1, <3>2
  <2>10. CASE rec \in {Record(Call, "CAPTURE_INCOMPLETE", "EVIDENCE_BYTES", NoAnswer, 1 + left) : f \in {"OVERSIZE"} \cap Faults}
    BY <2>5, <2>10 DEF Outcomes, Reasons
  <2>11. CASE rec \in {Record(Call, f, "malformed", NoAnswer, 1) : f \in {"CAPTURE_FAILED"} \cap Faults}
    BY <2>5, <2>11 DEF Outcomes, Reasons
  <2>12. QED
    BY <2>6, <2>8, <2>9, <2>10, <2>11
<1>3. QED
  BY <1>1, <1>2

\* What the replay takes from the retained records fits too: Motivated makes it sure.
LEMMA ReplayFits ==
    ASSUME Control, Budget, Resolved, Walks, at.step \in Calls \/ Waiting, run # "live",
           NEW rec \in ReplayRecords(Call)
    PROVE  Due(rec)
<1>1. PICK j : j = Len(records) + 1 /\ j <= Len(saved.records) /\ Motivated(saved.records[j], Call)
               /\ rec = saved.records[j]
  BY DEF ReplayRecords
<1>2. rec \in Retained /\ rec.call = Call
  <2>1. saved.records \in Seq(Retained) /\ records \in Seq(Retained)
    BY DEF Control
  <2>2. j \in 1 .. Len(saved.records)
    BY <1>1, <2>1
  <2>3. QED
    BY <1>1, <2>1, <2>2 DEF Motivated
<1>3. /\ usage \in Usages
      /\ usage.requests <= MaxRequests /\ usage.probes <= MaxPrepareProbes /\ usage.bytes <= MaxEvidence
      /\ MaxRequests \in Nat /\ MaxEvidence \in Nat /\ MaxPrepareProbes \in Nat /\ MaxResponse \in Nat
  BY RequestFacts DEF Control, Budget
<1>4. Motivated(rec, Call)
  BY <1>1
<1> DEFINE over == ctx = "over" \/ (rec.outcome = "BUDGET_BLOCKED" /\ rec.reason = "CANCELLED")
           left == Smaller(MaxEvidence - usage.bytes - 1, MaxResponse)
<1>5. CASE over
  <2>1. ~rec.attempted /\ rec.bytes = 0
    BY <1>4, <1>5 DEF Motivated
  <2>2. QED
    BY <1>2, <1>3, <2>1 DEF Due, Affordable, Usages
<1>6. CASE ~over /\ Blocked(Call[2]) # "NO"
  <2>1. rec = BlockedRecord(Call)
    BY <1>4, <1>6 DEF Motivated
  <2>2. QED
    BY <1>6, <2>1, BlockedFits
<1>7. CASE ~over /\ Blocked(Call[2]) = "NO"
  <2>1. rec.attempted /\ rec.bytes <= 1 + left
    BY <1>4, <1>7 DEF Motivated
  <2>2. /\ usage.requests < MaxRequests /\ usage.bytes + 1 < MaxEvidence
        /\ Call[2] = "prepare" => usage.probes < MaxPrepareProbes
    BY <1>7, NotBlocked
  <2>3. rec.bytes \in Nat
    BY <1>2 DEF Retained
  <2>4. Affordable(rec)
    BY <1>2, <1>3, <2>1, <2>2, <2>3 DEF Affordable, Usages, Smaller
  <2>5. QED
    BY <1>2, <2>4 DEF Due
<1>8. QED
  BY <1>5, <1>6, <1>7

\* So every request leaves a record that is due.
LEMMA InvokedFits ==
    ASSUME Control, Budget, Resolved, Walks, at.step \in Calls \/ Waiting, NEW rec \in Invoked
    PROVE  Due(rec)
BY LiveFits, ReplayFits DEF Invoked, Control

-----------------------------------------------------------------------------
(* Frames: what a step that leaves a part alone keeps of it *)

\* The request of a run never changes, nor what is read from it.
LEMMA SameRequest ==
    ASSUME UNCHANGED request
    PROVE  /\ Locator' = Locator /\ Targets' = Targets /\ Nodes' = Nodes /\ MaxNodes' = MaxNodes
           /\ MaxRequests' = MaxRequests /\ MaxEvidence' = MaxEvidence
           /\ Retained' = Retained /\ Expansions' = Expansions
           /\ NotAdmitted' = NotAdmitted /\ Nothing' = Nothing
<1>1. /\ Locator' = Locator /\ Targets' = Targets /\ Nodes' = Nodes /\ MaxNodes' = MaxNodes
      /\ MaxRequests' = MaxRequests /\ MaxEvidence' = MaxEvidence
  BY DEF Locator, Targets, Nodes, MaxNodes, MaxRequests, MaxEvidence
<1>2. Replies' = Replies
  BY <1>1 DEF Replies
<1>3. QED
  BY <1>1, <1>2 DEF Retained, Suits, Expansions, NotAdmitted, Nothing

\* The step after a resolution is the next one, or the admission.
LEMMA AfterResolvingFits ==
    ASSUME request \in Requests, NEW t
    PROVE  /\ AfterResolving(t) \in Places /\ AfterResolving(t).step \in Early
           /\ AfterResolving(t).step \in Calls => AfterResolving(t).t \in Targets
<1> DEFINE fresh == {u \in Targets : u > t /\ \A w \in 1 .. u - 1 : Locator[w] # Locator[u]}
<1>1. Targets \subseteq Nat /\ fresh \subseteq Nat
  BY RequestFacts
<1>2. CASE fresh = {}
  <2>1. AfterResolving(t) = Here("admit", 0)
    BY <1>2 DEF AfterResolving
  <2>2. QED
    BY <2>1 DEF Here, Places, Early, Steps, Calls, Directions
<1>3. CASE fresh # {}
  <2>1. AfterResolving(t) = Here(FirstStep(SetMin(fresh)), SetMin(fresh))
    BY <1>3 DEF AfterResolving
  <2>2. SetMin(fresh) \in fresh
    <3> HIDE DEF fresh
    <3>1. QED
      BY <1>1, <1>3, SetMinLeast
  <2>3. SetMin(fresh) \in Targets /\ SetMin(fresh) \in Nat
    BY <1>1, <2>2
  <2>4. FirstStep(SetMin(fresh)) \in {"supply", "symbols", "probe"}
    BY DEF FirstStep
  <2> HIDE DEF fresh
  <2>5. QED
    BY <2>1, <2>3, <2>4 DEF Here, Places, Early, Steps, Calls, Directions
<1>4. QED
  BY <1>2, <1>3

\* After a seed the siblings of an admitted target are next, or the first walk.
LEMMA AfterSeedFits ==
    ASSUME request \in Requests, NEW t, NEW admission
    PROVE  /\ AfterSeed(t, admission) \in Places
           /\ \/ /\ AfterSeed(t, admission).step = "siblings" /\ request.siblings
                 /\ AfterSeed(t, admission).t \in Targets
                 /\ admission[AfterSeed(t, admission).t] = "ADMITTED"
              \/ AfterSeed(t, admission).step = "begin" /\ AfterSeed(t, admission).d = FirstDirection
<1> DEFINE seeds == {u \in Targets : /\ u > t /\ admission[u] = "ADMITTED"
                       /\ \A w \in 1 .. u - 1 : ~(admission[w] = "ADMITTED" /\ Identity(w) = Identity(u))}
<1>1. Targets \subseteq Nat /\ seeds \subseteq Nat
  BY RequestFacts
<1>2. CASE request.siblings /\ seeds # {}
  <2>1. AfterSeed(t, admission) = Here("siblings", SetMin(seeds))
    BY <1>2 DEF AfterSeed
  <2>2. SetMin(seeds) \in seeds
    <3> HIDE DEF seeds
    <3>1. QED
      BY <1>1, <1>2, SetMinLeast
  <2>3. SetMin(seeds) \in Targets /\ SetMin(seeds) \in Nat /\ admission[SetMin(seeds)] = "ADMITTED"
    BY <1>1, <2>2
  <2> HIDE DEF seeds
  <2>4. QED
    BY <1>2, <2>1, <2>3 DEF Here, Places, Steps, Directions
<1>3. CASE ~(request.siblings /\ seeds # {})
  <2>1. AfterSeed(t, admission) = [Here("begin", 0) EXCEPT !.d = FirstDirection]
    BY <1>3 DEF AfterSeed
  <2>2. FirstDirection \in Directions
    BY DEF FirstDirection, Directions
  <2>3. AfterSeed(t, admission) = [step |-> "begin", t |-> 0, d |-> FirstDirection, probe |-> 0, width |-> 1,
                                   flat |-> FALSE, left |-> 0]
    BY <2>1 DEF Here
  <2>4. QED
    BY <2>2, <2>3 DEF Places, Steps
<1>4. QED
  BY <1>2, <1>3

\* Keeping a record that is due extends the records and stays within the budgets.
LEMMA KeepFits ==
    ASSUME Control, Budget, NEW rec, Due(rec), Keep(rec), UNCHANGED request
    PROVE  /\ records' \in Seq(Retained) /\ Len(records') = Len(records) + 1 /\ Len(records) \in Nat
           /\ records'[Len(records) + 1] = rec /\ \A i \in 1 .. Len(records) : records'[i] = records[i]
           /\ usage' \in Usages
           /\ usage'.requests <= MaxRequests /\ usage'.probes <= MaxPrepareProbes /\ usage'.bytes <= MaxEvidence
<1>1. records \in Seq(Retained) /\ rec \in Retained /\ records' = Append(records, rec) /\ rec.bytes \in Nat
  BY DEF Control, Due, Keep, Retained
<1>2. usage' = [requests |-> usage.requests + (IF rec.attempted THEN 1 ELSE 0),
                probes |-> usage.probes + (IF rec.attempted /\ rec.call[2] = "prepare" THEN 1 ELSE 0),
                bytes |-> usage.bytes + rec.bytes]
  BY DEF Keep
<1>3. usage \in Usages
  BY DEF Control
<1>4. QED
  BY <1>1, <1>2, <1>3, Appended DEF Due, Affordable, Usages

\* A record that asks for no calls, and more nodes, leave the cache's account true.
LEMMA LedgerGrows ==
    ASSUME Ledger, records \in Seq(Retained), UNCHANGED <<edges, observed, queries>>, nodes \subseteq nodes',
           \/ records' = records
           \/ /\ Len(records') = Len(records) + 1 /\ records'[Len(records) + 1].call[2] \notin Directions
              /\ \A i \in 1 .. Len(records) : records'[i] = records[i]
    PROVE  Ledger'
<1>1. /\ Len(records) \in Nat /\ Len(records') \in Nat /\ Len(records) <= Len(records')
      /\ \A i \in 1 .. Len(records) : records'[i] = records[i] /\ i \in 1 .. Len(records')
      /\ \A i \in 1 .. Len(records') : i \in 1 .. Len(records) \/ records'[i].call[2] \notin Directions
  OBVIOUS
<1>2. /\ edges' \subseteq nodes' \X nodes' /\ edges' = {o[2] : o \in observed'}
      /\ DOMAIN queries' \subseteq Directions \X nodes'
      /\ observed' \subseteq (1 .. Len(records')) \X (nodes' \X nodes')
  BY <1>1 DEF Ledger
<1>3. queries' \in [DOMAIN queries' -> Entries']
  <2>1. Entries \subseteq Entries'
    BY DEF Entries
  <2>2. QED
    BY <2>1 DEF Ledger
<1>4. \A i \in 1 .. Len(records') : records'[i].call[2] \in Directions =>
          /\ <<records'[i].call[2], records'[i].call[3]>> \in DOMAIN queries'
          /\ queries'[<<records'[i].call[2], records'[i].call[3]>>].req = i
  BY <1>1 DEF Ledger
<1>5. ASSUME NEW k \in DOMAIN queries'
      PROVE  LET q == queries'[k] IN
               /\ q.req \in 1 .. Len(records')
               /\ records'[q.req].call[2] = k[1] /\ records'[q.req].call[3] = k[2]
               /\ q.status = QueryStatus(records'[q.req], q.neighbours)
               /\ q.neighbours # {} => records'[q.req].outcome = "SUCCESS"
               /\ \A e : <<q.req, e>> \in observed' <=> e \in Links(k, q.neighbours)
  <2>1. k \in DOMAIN queries /\ queries'[k] = queries[k] /\ queries[k].req \in 1 .. Len(records)
    BY <1>5 DEF Ledger
  <2>2. records'[queries[k].req] = records[queries[k].req] /\ queries[k].req \in 1 .. Len(records')
    BY <1>1, <2>1
  <2>3. /\ records[queries[k].req].call[2] = k[1] /\ records[queries[k].req].call[3] = k[2]
        /\ queries[k].status = QueryStatus(records[queries[k].req], queries[k].neighbours)
        /\ queries[k].neighbours # {} => records[queries[k].req].outcome = "SUCCESS"
        /\ \A e : <<queries[k].req, e>> \in observed <=> e \in Links(k, queries[k].neighbours)
    BY <2>1, Zenon DEF Ledger
  <2>4. QED
    BY <2>1, <2>2, <2>3
<1>6. QED
  BY <1>2, <1>3, <1>4, <1>5 DEF Ledger

\* A step that makes no visit leaves the expansions true.
LEMMA TrailGrows ==
    ASSUME Trail, UNCHANGED <<request, queries, exps, starts>>, nodes \subseteq nodes',
           Len(records) \in Nat, Len(records') \in Nat, Len(records) <= Len(records'),
           \A d \in Directions, t \in Targets : Undone(d)' => exps[d][t] = <<>>
    PROVE  Trail'
<1>1. Targets' = Targets /\ Expansions' = Expansions
  BY SameRequest
<1>2. starts' \in [Directions -> [Targets -> SUBSET nodes']]
  BY DEF Trail
<1>3. ASSUME NEW d \in Directions, NEW t \in Targets, NEW i \in 1 .. Len(exps[d][t])
      PROVE  Truthful(d, exps[d][t][i])'
  <2>1. Truthful(d, exps[d][t][i]) /\ exps[d][t][i].req \in Nat
    <3>1. exps[d][t] \in Seq(Expansions) /\ Truthful(d, exps[d][t][i])
      BY <1>3 DEF Trail
    <3>2. exps[d][t][i] \in Expansions
      BY <1>3, <3>1
    <3>3. QED
      BY <3>1, <3>2 DEF Expansions
  <2>2. QED
    BY <2>1 DEF Truthful
<1>4. QED
  BY <1>1, <1>2, <1>3 DEF Trail

-----------------------------------------------------------------------------
(* The beginning, and resolution *)

\* A runner before its first request.
Fresh ==
    /\ at = Here(FirstStep(1), 1) /\ ctx = "open"
    /\ usage = NoUsage /\ records = <<>>
    /\ res = Unresolved /\ adm = NotAdmitted
    /\ nodes = {} /\ edges = {} /\ observed = {} /\ candidates = {}
    /\ queries = NoQueries /\ starts = NoStarts /\ exps = NoExpansions
    /\ queue = Nothing /\ depth = Nothing /\ members = Nothing
    /\ complete = TRUE

\* A run, live or replayed, that is about to make it.
Ready ==
    /\ request \in Requests /\ run \in {"live", "replay"} /\ (run # "live" => saved.records \in Seq(Retained))
    /\ Fresh

\* A run about to start satisfies the invariant.
LEMMA FreshInv == Ready => AcquisitionInv
<1> SUFFICES ASSUME request \in Requests, run \in {"live", "replay"}, run # "live" => saved.records \in Seq(Retained), Fresh
      PROVE  AcquisitionInv
  BY DEF Ready
<1> USE DEF Fresh
<1>1. 1 \in Targets /\ Targets = 1 .. Len(Locator)
  BY RequestFacts
<1>2. at \in Places /\ at.t = 1 /\ at.step \in {"supply", "symbols", "probe"}
  BY DEF Here, FirstStep, Places, Steps, Directions
<1>3. Control
  BY <1>1, <1>2 DEF Control, NoUsage, Usages
<1>4. Budget
  BY RequestFacts, FS_EmptySet DEF Budget, NoUsage
<1>5. Resolved
  <2>1. res \in [{Locator[t] : t \in Targets} -> [status : Resolutions, node : Nat]]
    BY DEF Unresolved, Resolutions, NoNode
  <2>2. \A t \in Targets : res[Locator[t]].status = "NONE"
    BY DEF Unresolved
  <2>3. adm \in [Targets -> {"ADMITTED", "BUDGET_BLOCKED", "NOT_APPLICABLE"}] /\ \A t \in Targets : adm[t] # "ADMITTED"
    BY DEF NotAdmitted
  <2>4. members \in [Targets -> SUBSET nodes]
    BY DEF Nothing
  <2>5. QED
    BY <2>1, <2>2, <2>3, <2>4 DEF Resolved
<1>6. Ledger
  <2>1. DOMAIN queries = {} /\ queries \in [DOMAIN queries -> Entries]
    BY DEF NoQueries
  <2>2. Len(records) = 0
    OBVIOUS
  <2>3. QED
    BY <2>1, <2>2 DEF Ledger
<1>7. Trail
  <2>1. \A d \in Directions, t \in Targets : exps[d][t] = <<>> /\ starts[d][t] = {}
    BY DEF NoExpansions, NoStarts, Nothing
  <2>2. exps \in [Directions -> [Targets -> Seq(Expansions)]]
    BY DEF NoExpansions
  <2>3. starts \in [Directions -> [Targets -> SUBSET nodes]]
    BY DEF NoStarts, Nothing
  <2>4. QED
    BY <2>1, <2>2, <2>3 DEF Trail
<1>8. Walks
  BY <1>2 DEF Walks, Nothing
<1>9. Closed /\ Lap
  BY <1>2 DEF Closed, Lap, Traversed
<1>10. Verdict
  BY <1>2 DEF Verdict, Early
<1>11. Joined
  <2>1. \A t \in Targets : members[t] = {} /\ Own(t) = {}
    BY DEF Nothing, Own, NotAdmitted
  <2>2. QED
    BY <2>1 DEF Joined
<1>12. QED
  BY <1>3, <1>4, <1>5, <1>6, <1>7, <1>8, <1>9, <1>10, <1>11 DEF AcquisitionInv

\* So does the state in which the replay is about to start.
LEMMA FreshNext == Ready' => AcquisitionInv'
BY FreshInv, PTL

\* Where a resolving step leads.
Leads ==
    \/ /\ res' = res /\ at' \in Places /\ at'.step \in {"symbols", "probe"} /\ at'.t = at.t
    \/ \E status \in Resolutions, node \in Nat : (status = "RESOLVED" => node \in Nodes) /\ Settle(status, node)

\* One request of a resolution.
LEMMA ResolvingStep ==
    ASSUME AcquisitionInv, at.step \in {"supply", "symbols", "probe"}, NEW rec, Due(rec), Keep(rec), Context(rec),
           Leads, UNCHANGED <<run, request, adm, graph, walk, complete, saved>>
    PROVE  AcquisitionInv'
<1> USE DEF graph, walk
<1>1. Control /\ Budget /\ Resolved /\ Ledger /\ Trail /\ Walks /\ Closed /\ Verdict /\ Lap /\ Joined
  BY DEF AcquisitionInv
<1>2. at.t \in Targets /\ request \in Requests /\ at.step \in Early
  BY <1>1 DEF Control, Calls, Early
<1>3. at' \in Places /\ at'.step \in Early /\ (at'.step \in Calls => at'.t \in Targets)
  <2>1. CASE res' = res /\ at' \in Places /\ at'.step \in {"symbols", "probe"} /\ at'.t = at.t
    BY <1>2, <2>1 DEF Early
  <2>2. CASE \E status \in Resolutions, node \in Nat : Settle(status, node)
    BY <1>2, <2>2, AfterResolvingFits DEF Settle
  <2>3. QED
    BY <2>1, <2>2 DEF Leads
<1>4. /\ records' \in Seq(Retained) /\ Len(records') = Len(records) + 1 /\ Len(records) \in Nat
      /\ records'[Len(records) + 1] = rec /\ \A i \in 1 .. Len(records) : records'[i] = records[i]
      /\ usage' \in Usages
      /\ usage'.requests <= MaxRequests /\ usage'.probes <= MaxPrepareProbes /\ usage'.bytes <= MaxEvidence
  BY <1>1, KeepFits
<1>5. rec.call[2] \notin Directions
  BY <1>1, CallFits DEF Due, Calls
<1>6. Control'
  <2>1. ctx' \in {"open", "over"}
    BY <1>1 DEF Control, Context
  <2>2. at'.step \notin {"siblings", "peer", "begin", "visit"}
    BY <1>3 DEF Early
  <2>3. QED
    BY <1>1, <1>3, <1>4, <2>1, <2>2, SameRequest DEF Control
<1>7. Budget'
  BY <1>1, <1>4, SameRequest DEF Budget
<1>8. Resolved'
  <2>1. /\ res' \in [{Locator[t] : t \in Targets} -> [status : Resolutions, node : Nat]]
        /\ \A t \in Targets : res'[Locator[t]].status = "RESOLVED" => res'[Locator[t]].node \in Nodes
    <3>1. CASE res' = res
      BY <1>1, <3>1 DEF Resolved, Identity
    <3>2. CASE \E status \in Resolutions, node \in Nat : (status = "RESOLVED" => node \in Nodes) /\ Settle(status, node)
      <4>1. PICK status \in Resolutions, node \in Nat :
               (status = "RESOLVED" => node \in Nodes) /\ res' = [res EXCEPT ![Locator[at.t]] = [status |-> status, node |-> node]]
        BY <3>2 DEF Settle
      <4>2. Locator[at.t] \in {Locator[t] : t \in Targets}
        BY <1>2
      <4>3. QED
        BY <1>1, <4>1, <4>2 DEF Resolved, Identity
    <3>3. QED
      BY <3>1, <3>2 DEF Leads
  <2>2. /\ adm' = NotAdmitted /\ nodes' = {} /\ members' = Nothing /\ complete' = TRUE
        /\ edges' = {} /\ observed' = {} /\ queries' = NoQueries
    BY <1>1, <1>2 DEF Resolved
  <2>3. \A t \in Targets : adm'[t] # "ADMITTED"
    BY <2>2 DEF NotAdmitted
  <2>4. /\ adm' \in [Targets -> {"ADMITTED", "BUDGET_BLOCKED", "NOT_APPLICABLE"}]
        /\ members' \in [Targets -> SUBSET nodes']
    BY <1>1 DEF Resolved
  <2>5. QED
    BY <2>1, <2>2, <2>3, <2>4, SameRequest DEF Resolved, Identity
<1>9. Ledger'
  BY <1>1, <1>4, <1>5, LedgerGrows DEF Control
<1>10. Trail'
  <2>1. \A d \in Directions, t \in Targets : exps[d][t] = <<>>
    BY <1>1, <1>2 DEF Trail, Undone
  <2>2. QED
    BY <1>1, <1>4, <2>1, TrailGrows
<1>11. Walks'
  BY <1>1, <1>3, SameRequest DEF Walks, Early
<1>12. Closed' /\ Lap' /\ Verdict'
  BY <1>3 DEF Closed, Lap, Verdict, Traversed, Early
<1>13. Joined'
  <2>1. \A t \in Targets : adm[t] # "ADMITTED" /\ members[t] = {}
    BY <1>1, <1>2 DEF Resolved, NotAdmitted, Nothing
  <2>2. \A t \in Targets : Own(t)' = {} /\ members'[t] = {}
    BY <2>1, SameRequest DEF Own
  <2>3. observed' = {}
    BY <1>1, <1>2 DEF Resolved
  <2>4. QED
    BY <2>2, <2>3, SameRequest DEF Joined
<1>14. QED
  BY <1>6, <1>7, <1>8, <1>9, <1>10, <1>11, <1>12, <1>13 DEF AcquisitionInv

\* What a refused or failed request makes of a resolution.
LEMMA ResolutionOfRecord ==
    ASSUME NEW rec
    PROVE  RecordResolution(rec) \in Resolutions \ {"RESOLVED"}
BY DEF RecordResolution, Resolutions

\* ResolveSupply, the resolution of a locator a supply names, preserves the invariant.
LEMMA SupplyStep == ASSUME AcquisitionInv, ResolveSupply PROVE AcquisitionInv'
<1>1. Control /\ Budget /\ Resolved /\ Walks /\ at.step = "supply"
  BY DEF AcquisitionInv, ResolveSupply
<1>2. PICK rec \in Invoked :
         /\ Keep(rec) /\ Context(rec)
         /\ IF rec.outcome # "SUCCESS" THEN Settle(RecordResolution(rec), NoNode)
            ELSE IF rec.answer.kind = "other uri" THEN Settle("FAILED", NoNode)
            ELSE Continue([at EXCEPT !.step = IF Locator[at.t] \in SymbolLocators THEN "symbols" ELSE "probe"])
  BY DEF ResolveSupply
<1>3. Due(rec)
  BY <1>1, InvokedFits DEF Calls
<1>4. Leads
  <2>1. at \in Places
    BY <1>1 DEF Control
  <2>2. CASE Continue([at EXCEPT !.step = IF Locator[at.t] \in SymbolLocators THEN "symbols" ELSE "probe"])
    BY <2>1, <2>2 DEF Leads, Continue, Places, Steps
  <2>3. CASE Settle(RecordResolution(rec), NoNode) \/ Settle("FAILED", NoNode)
    <3>1. NoNode \in Nat
      BY DEF NoNode
    <3>2. QED
      BY <2>3, <3>1, ResolutionOfRecord DEF Leads, Resolutions
  <2>4. QED
    BY <1>2, <2>2, <2>3
<1>5. QED
  BY <1>1, <1>2, <1>3, <1>4, ResolvingStep DEF ResolveSupply

\* ResolveSymbol, the documentSymbol call of a resolution, preserves the invariant.
LEMMA SymbolStep == ASSUME AcquisitionInv, ResolveSymbol PROVE AcquisitionInv'
<1>1. Control /\ Budget /\ Resolved /\ Walks /\ at.step = "symbols"
  BY DEF AcquisitionInv, ResolveSymbol
<1>2. PICK rec \in Invoked :
         /\ Keep(rec) /\ Context(rec)
         /\ IF rec.outcome # "SUCCESS" THEN Settle(RecordResolution(rec), NoNode)
            ELSE CASE rec.answer.kind = "absent" -> Settle("MISSING", NoNode)
                   [] rec.answer.kind = "ambiguous" -> Settle("AMBIGUOUS", NoNode)
                   [] rec.answer.kind = "malformed" -> Settle("FAILED", NoNode)
                   [] OTHER -> Continue([at EXCEPT !.step = "probe", !.width = rec.answer.width])
  BY DEF ResolveSymbol
<1>3. Due(rec)
  BY <1>1, InvokedFits DEF Calls
<1>4. \/ rec.outcome # "SUCCESS" /\ Settle(RecordResolution(rec), NoNode)
      \/ Settle("MISSING", NoNode) \/ Settle("AMBIGUOUS", NoNode) \/ Settle("FAILED", NoNode)
      \/ rec.outcome = "SUCCESS" /\ Continue([at EXCEPT !.step = "probe", !.width = rec.answer.width])
  BY <1>2
<1>5. Leads
  <2>1. at \in Places
    BY <1>1 DEF Control
  <2>2. CASE rec.outcome = "SUCCESS" /\ Continue([at EXCEPT !.step = "probe", !.width = rec.answer.width])
    <3>1. rec \in Retained /\ rec.call = Call /\ Call[2] = "symbols"
      BY <1>1, <1>3, CallFits DEF Due, Calls
    <3>2. rec.answer.width \in Nat
      BY <2>2, <3>1 DEF Retained, Suits
    <3>3. QED
      BY <2>1, <2>2, <3>2 DEF Leads, Continue, Places, Steps
  <2>3. CASE \/ Settle(RecordResolution(rec), NoNode) \/ Settle("MISSING", NoNode)
             \/ Settle("AMBIGUOUS", NoNode) \/ Settle("FAILED", NoNode)
    <3>1. NoNode \in Nat
      BY DEF NoNode
    <3>2. QED
      BY <2>3, <3>1, ResolutionOfRecord DEF Leads, Resolutions
  <2>4. QED
    BY <1>4, <2>2, <2>3
<1>6. QED
  BY <1>1, <1>2, <1>3, <1>5, ResolvingStep DEF ResolveSymbol

\* ResolveProbe, a prepare call of a resolution, preserves the invariant.
LEMMA ProbeStep == ASSUME AcquisitionInv, ResolveProbe PROVE AcquisitionInv'
<1>1. Control /\ Budget /\ Resolved /\ Walks /\ at.step = "probe"
  BY DEF AcquisitionInv, ResolveProbe
<1>2. PICK rec \in Invoked :
          LET symbol == Locator[at.t] \in SymbolLocators
              empty == (rec.outcome = "SUCCESS" /\ rec.answer.kind = "items" /\ rec.answer.items = {})
                       \/ (Missed(rec) /\ symbol)
          IN  /\ Keep(rec) /\ Context(rec)
              /\ IF empty
                 THEN IF symbol /\ MoreProbes THEN Continue([at EXCEPT !.probe = @ + 1])
                      ELSE Settle(IF symbol /\ at.width > MaxPrepareProbes THEN "BLOCKED" ELSE "MISSING", NoNode)
                 ELSE IF rec.outcome # "SUCCESS" THEN Settle(RecordResolution(rec), NoNode)
                 ELSE IF rec.answer.kind = "mismatch" THEN Settle("FAILED", NoNode)
                 ELSE IF Cardinality(rec.answer.items) > 1 THEN Settle("AMBIGUOUS", NoNode)
                 ELSE Settle("RESOLVED", SetMin(rec.answer.items))
  BY DEF ResolveProbe
<1>3. Due(rec)
  BY <1>1, InvokedFits DEF Calls
<1>4. rec \in Retained /\ rec.call = Call /\ Call[2] = "prepare"
  BY <1>1, <1>3, CallFits DEF Due, Calls
<1>5. \/ Continue([at EXCEPT !.probe = @ + 1])
      \/ Settle("BLOCKED", NoNode) \/ Settle("MISSING", NoNode) \/ Settle(RecordResolution(rec), NoNode)
      \/ Settle("FAILED", NoNode) \/ Settle("AMBIGUOUS", NoNode)
      \/ /\ rec.outcome = "SUCCESS" /\ rec.answer.kind # "mismatch"
         /\ ~(rec.answer.kind = "items" /\ rec.answer.items = {})
         /\ Settle("RESOLVED", SetMin(rec.answer.items))
  BY <1>2
<1>6. Leads
  <2>1. at \in Places
    BY <1>1 DEF Control
  <2>2. CASE Continue([at EXCEPT !.probe = @ + 1])
    BY <1>1, <2>1, <2>2 DEF Leads, Continue, Places, Steps
  <2>3. CASE \/ Settle("BLOCKED", NoNode) \/ Settle("MISSING", NoNode) \/ Settle(RecordResolution(rec), NoNode)
             \/ Settle("FAILED", NoNode) \/ Settle("AMBIGUOUS", NoNode)
    <3>1. NoNode \in Nat
      BY DEF NoNode
    <3>2. QED
      BY <2>3, <3>1, ResolutionOfRecord DEF Leads, Resolutions
  <2>4. CASE /\ rec.outcome = "SUCCESS" /\ rec.answer.kind # "mismatch"
             /\ ~(rec.answer.kind = "items" /\ rec.answer.items = {})
             /\ Settle("RESOLVED", SetMin(rec.answer.items))
    <3>1. rec.answer.items \subseteq Nodes /\ rec.answer.items # {}
      BY <1>4, <2>4 DEF Retained, Suits
    <3>2. Nodes \subseteq Nat
      BY <1>1, RequestFacts DEF Control
    <3>3. SetMin(rec.answer.items) \in Nodes
      BY <3>1, <3>2, SetMinLeast
    <3>4. QED
      BY <2>4, <3>2, <3>3 DEF Leads, Resolutions
  <2>5. QED
    BY <1>5, <2>2, <2>3, <2>4
<1>7. QED
  BY <1>1, <1>2, <1>3, <1>6, ResolvingStep DEF ResolveProbe

-----------------------------------------------------------------------------
(* Admission and siblings *)

\* Before the first walk nothing is traversed that matters.
LEMMA SeededStep ==
    ASSUME request \in Requests, UNCHANGED <<request, exps>>, \A d \in Directions, t \in Targets : exps[d][t] = <<>>,
           at'.step \in {"siblings", "peer"} \/ (at'.step = "begin" /\ at'.d = FirstDirection),
           complete' => \A t \in Targets : adm'[t] = "ADMITTED",
           ~request.siblings /\ (\A t \in Targets : adm'[t] = "ADMITTED") => complete'
    PROVE  /\ Closed' /\ Verdict' /\ Lap'
           /\ at'.step \in {"begin", "visit"} => at'.d = "incoming" \/ request'.mode = "SLICE"
<1>1. Targets' = Targets
  BY SameRequest
<1>2. \A d \in Directions, t \in Targets : exps'[d][t] = <<>>
  OBVIOUS
<1>3. Closed'
  BY <1>1, <1>2 DEF Closed
<1>4. Lap'
  BY DEF Lap
<1>5. ASSUME NEW d \in Directions, Traversed(d)', NEW t \in Targets PROVE Whole(d, t)'
  <2>1. d = "outgoing" /\ at'.step = "begin" /\ at'.d = "incoming"
    BY <1>5 DEF Traversed
  <2>2. request.mode # "SLICE"
    BY <2>1 DEF FirstDirection
  <2>3. Statuses(d, t)' = {}
    BY <1>2 DEF Statuses
  <2>4. Aggregate(d, t)' = "NOT_APPLICABLE"
    BY <2>1, <2>2, <2>3 DEF Aggregate
  <2>5. QED
    BY <2>4 DEF Whole
<1>6. Verdict'
  BY <1>1, <1>5 DEF Verdict, AllWhole
<1>7. QED
  BY <1>3, <1>4, <1>6 DEF FirstDirection

\* At most MaxNodes identities are admitted: the last one of them in order found
\* fewer before it, and the root takes one place.
LEMMA AdmissionFits ==
    ASSUME request \in Requests, NEW resolved \in SUBSET Targets, \A t \in resolved : Identity(t) \in Nodes,
           NEW chosen \in SUBSET resolved,
           \A t \in chosen :
              /\ MaxNodes > 0
              /\ \/ t = 1 \/ (1 \in resolved /\ Identity(t) = Identity(1))
                 \/ Cardinality({Identity(u) : u \in {v \in resolved : v = 1 \/ Identity(v) < Identity(t)}} \ {Identity(t)})
                      < MaxNodes
    PROVE  Cardinality({Identity(t) : t \in chosen}) <= MaxNodes
<1> DEFINE S == {Identity(t) : t \in chosen}
           root == IF 1 \in resolved THEN {Identity(1)} ELSE {}
           R == S \ root
<1>1. /\ Nodes \subseteq Nat /\ IsFiniteSet(Nodes) /\ MaxNodes \in Nat
  BY RequestFacts
<1>2. S \subseteq Nodes /\ R \subseteq S
  OBVIOUS
<1>3. IsFiniteSet(S) /\ IsFiniteSet(R) /\ Cardinality(S) \in Nat
  <2> HIDE DEF S, R
  <2>1. QED
    BY <1>1, <1>2, FS_Subset, FS_CardinalityType
<1>4. CASE chosen = {}
  <2>1. S = {}
    BY <1>4
  <2> HIDE DEF S
  <2>2. Cardinality(S) <= MaxNodes
    BY <1>1, <2>1, FS_EmptySet
  <2>3. QED
    BY <2>2 DEF S
<1>5. CASE R = {} /\ chosen # {}
  <2>0. MaxNodes > 0
    BY <1>5
  <2>1. S \subseteq root
    BY <1>5
  <2>2. IsFiniteSet(root) /\ Cardinality(root) <= 1 /\ Cardinality(root) \in Nat
    <3>1. CASE 1 \in resolved
      <4>1. root = {Identity(1)}
        BY <3>1
      <4>2. IsFiniteSet({Identity(1)}) /\ Cardinality({Identity(1)}) = 1
        BY FS_Singleton, Zenon
      <4> HIDE DEF root
      <4>3. QED
        BY <4>1, <4>2
    <3>2. CASE 1 \notin resolved
      <4>1. root = {}
        BY <3>2
      <4> HIDE DEF root
      <4>2. QED
        BY <4>1, FS_EmptySet
    <3>3. QED
      BY <3>1, <3>2
  <2> HIDE DEF S, root
  <2>3. Cardinality(S) <= Cardinality(root)
    BY <2>1, <2>2, FS_Subset
  <2>4. Cardinality(S) <= MaxNodes
    BY <1>1, <1>3, <2>0, <2>2, <2>3
  <2>5. QED
    BY <2>4 DEF S
<1>6. CASE R # {}
  <2>1. PICK m \in R : \A y \in R : y <= m
    <3>1. R \subseteq Nat
      BY <1>1, <1>2
    <3> HIDE DEF R
    <3>2. QED
      BY <1>3, <1>6, <3>1, GreatestOfFinite
  <2>2. PICK t \in chosen : Identity(t) = m /\ m \notin root
    BY <2>1
  <2> DEFINE before == {Identity(u) : u \in {v \in resolved : v = 1 \/ Identity(v) < Identity(t)}} \ {Identity(t)}
  <2>3. Cardinality(before) < MaxNodes
    BY <2>2
  <2>4. before \subseteq Nodes
    OBVIOUS
  <2>5. S \ {m} \subseteq before
    <3>1. SUFFICES ASSUME NEW u \in chosen, Identity(u) # m PROVE Identity(u) \in before
      OBVIOUS
    <3>2. CASE Identity(u) \in root
      <4>1. 1 \in resolved /\ Identity(u) = Identity(1)
        BY <3>2
      <4>2. QED
        BY <2>2, <3>1, <4>1
    <3>3. CASE Identity(u) \notin root
      <4>1. Identity(u) \in R /\ Identity(u) \in Nat /\ m \in Nat
        BY <1>1, <1>2, <2>1, <3>3
      <4>2. Identity(u) < m
        BY <2>1, <3>1, <4>1
      <4>3. QED
        BY <2>2, <3>1, <4>2
    <3>4. QED
      BY <3>2, <3>3
  <2>6. m \in S
    BY <2>1
  <2> HIDE DEF before, S
  <2>7. IsFiniteSet(before) /\ Cardinality(before) \in Nat
    BY <1>1, <2>4, FS_Subset, FS_CardinalityType
  <2>8. Cardinality(S \ {m}) <= Cardinality(before) /\ Cardinality(S \ {m}) = Cardinality(S) - 1
    BY <1>3, <2>5, <2>6, <2>7, FS_Subset, FS_RemoveElement
  <2>9. Cardinality(S) <= MaxNodes
    BY <1>1, <1>3, <2>3, <2>7, <2>8
  <2>10. QED
    BY <2>9 DEF S
<1>7. QED
  BY <1>4, <1>5, <1>6

\* AdmitTargets preserves the invariant.
LEMMA AdmitStep == ASSUME AcquisitionInv, AdmitTargets PROVE AcquisitionInv'
<1> USE DEF evidence
<1>1. Control /\ Budget /\ Resolved /\ Ledger /\ Trail /\ Walks /\ at.step = "admit" /\ request \in Requests
  BY DEF AcquisitionInv, AdmitTargets, Control
<1> DEFINE resolved == {t \in Targets : res[Locator[t]].status = "RESOLVED"}
           before(t) == {Identity(u) : u \in {v \in resolved : v = 1 \/ Identity(v) < Identity(t)}} \ {Identity(t)}
           ofRoot(t) == t = 1 \/ (1 \in resolved /\ Identity(t) = Identity(1))
           fits(t) == MaxNodes > 0 /\ (ofRoot(t) \/ Cardinality(before(t)) < MaxNodes)
           chosen == {t \in resolved : fits(t)}
<1>2. /\ adm' = [t \in Targets |-> IF t \in chosen THEN "ADMITTED"
                                   ELSE IF t \in resolved THEN "BUDGET_BLOCKED" ELSE "NOT_APPLICABLE"]
      /\ nodes' = {Identity(t) : t \in chosen}
      /\ members' = [t \in Targets |-> IF t \in chosen THEN {Identity(t)} ELSE {}]
      /\ complete' = (chosen = Targets)
      /\ at' = AfterSeed(0, adm')
      /\ UNCHANGED <<run, request, ctx, evidence, res, edges, observed, candidates, queries, starts, exps,
                     queue, depth, saved>>
  BY Zenon DEF AdmitTargets
<1>3. Cardinality({Identity(t) : t \in chosen}) <= MaxNodes
  <2>1. resolved \in SUBSET Targets /\ \A t \in resolved : Identity(t) \in Nodes
    BY <1>1 DEF Resolved
  <2>2. chosen \in SUBSET resolved /\ \A t \in chosen :
              /\ MaxNodes > 0
              /\ \/ t = 1 \/ (1 \in resolved /\ Identity(t) = Identity(1))
                 \/ Cardinality({Identity(u) : u \in {v \in resolved : v = 1 \/ Identity(v) < Identity(t)}} \ {Identity(t)})
                      < MaxNodes
    OBVIOUS
  <2> HIDE DEF resolved, chosen, fits
  <2>3. QED
    BY <1>1, <2>1, <2>2, AdmissionFits
<1>4. chosen \subseteq Targets /\ \A t \in chosen : Identity(t) \in Nodes /\ Identity(t)' = Identity(t)
  BY <1>1, <1>2, SameRequest DEF Resolved, Identity
<1> HIDE DEF chosen, resolved, fits
<1>5. /\ at' \in Places
      /\ \/ at'.step = "siblings" /\ request.siblings /\ at'.t \in Targets /\ adm'[at'.t] = "ADMITTED"
         \/ at'.step = "begin" /\ at'.d = FirstDirection
  BY <1>1, <1>2, AfterSeedFits
<1>6. \A d \in Directions, t \in Targets : exps[d][t] = <<>>
  BY <1>1 DEF Trail, Undone, Early
<1>7. (complete' => \A t \in Targets : adm'[t] = "ADMITTED") /\ ((\A t \in Targets : adm'[t] = "ADMITTED") => complete')
  BY <1>2, <1>4
<1>8. /\ Closed' /\ Verdict' /\ Lap'
      /\ at'.step \in {"begin", "visit"} => at'.d = "incoming" \/ request'.mode = "SLICE"
  BY <1>1, <1>2, <1>5, <1>6, <1>7, SeededStep
<1>9. at'.step \notin Early /\ at'.step # "visit" /\ at'.step # "peer"
  BY <1>5 DEF Early
<1>10. Control'
  <2>1. complete' \in BOOLEAN
    BY <1>2
  <2>2. at'.step \in Calls => at'.t \in Targets
    BY <1>5 DEF Calls
  <2>3. QED
    BY <1>1, <1>2, <1>5, <1>8, <1>9, <2>1, <2>2, SameRequest DEF Control
<1>11. Budget'
  BY <1>1, <1>2, <1>3, <1>4, SameRequest DEF Budget
<1>12. Resolved'
  <2>1. /\ adm' \in [Targets -> {"ADMITTED", "BUDGET_BLOCKED", "NOT_APPLICABLE"}]
        /\ members' \in [Targets -> SUBSET nodes']
        /\ \A t \in Targets : adm'[t] = "ADMITTED" => Identity(t)' \in nodes'
    BY <1>2, <1>4
  <2>2. \A t \in Targets : Identity(t)' = Identity(t)
    BY <1>2, SameRequest DEF Identity
  <2>3. QED
    BY <1>1, <1>2, <1>9, <2>1, <2>2, SameRequest DEF Resolved
<1>13. nodes \subseteq nodes'
  BY <1>1 DEF Resolved, Early
<1>14. Ledger'
  BY <1>1, <1>2, <1>13, LedgerGrows DEF Control
<1>15. Trail'
  <2>1. Len(records) \in Nat /\ records' = records
    BY <1>1, <1>2 DEF Control
  <2>2. QED
    BY <1>1, <1>2, <1>6, <1>13, <2>1, TrailGrows
<1>16. Walks'
  BY <1>1, <1>2, <1>9, <1>13, SameRequest DEF Walks
<1>17. Joined'
  <2>1. observed' = {}
    BY <1>1, <1>2 DEF Resolved, Early
  <2>2. \A t \in Targets : members'[t] = Own(t)'
    BY <1>2, <1>4 DEF Own
  <2>3. QED
    BY <2>1, <2>2, <1>2, SameRequest DEF Joined
<1>18. QED
  BY <1>8, <1>10, <1>11, <1>12, <1>14, <1>15, <1>16, <1>17 DEF AcquisitionInv

\* One request for siblings: it may admit one more node.
LEMMA SiblingStep ==
    ASSUME AcquisitionInv, at.step \in {"siblings", "peer"}, NEW rec, Due(rec), Keep(rec), Context(rec),
           at' \in Places,
           \/ /\ at'.step \in {"siblings", "peer"} /\ at'.t \in Targets /\ adm[at'.t] = "ADMITTED"
           \/ at'.step = "begin" /\ at'.d = FirstDirection,
           complete' \in BOOLEAN, complete' => complete,
           nodes \subseteq nodes', nodes' \subseteq Nodes, Cardinality(nodes') <= MaxNodes,
           UNCHANGED <<run, request, res, adm, edges, observed, walk, saved>>
    PROVE  AcquisitionInv'
<1> USE DEF walk
<1>1. /\ Control /\ Budget /\ Resolved /\ Ledger /\ Trail /\ Walks /\ Verdict /\ Joined
      /\ request \in Requests /\ request.siblings
  BY DEF AcquisitionInv, Control
<1>2. /\ records' \in Seq(Retained) /\ Len(records') = Len(records) + 1 /\ Len(records) \in Nat
      /\ records'[Len(records) + 1] = rec /\ \A i \in 1 .. Len(records) : records'[i] = records[i]
      /\ usage' \in Usages
      /\ usage'.requests <= MaxRequests /\ usage'.probes <= MaxPrepareProbes /\ usage'.bytes <= MaxEvidence
  BY <1>1, KeepFits
<1>3. rec.call[2] \notin Directions
  BY <1>1, CallFits DEF Due, Calls
<1>4. \A d \in Directions, t \in Targets : exps[d][t] = <<>>
  BY <1>1 DEF Trail, Undone
<1>5. complete' => \A t \in Targets : adm'[t] = "ADMITTED"
  <2>1. at.step \notin Early
    BY DEF Early
  <2>2. QED
    BY <1>1, <2>1 DEF Verdict, AllWhole
<1>6. /\ Closed' /\ Verdict' /\ Lap'
      /\ at'.step \in {"begin", "visit"} => at'.d = "incoming" \/ request'.mode = "SLICE"
  BY <1>1, <1>4, <1>5, SeededStep
<1>7. at'.step \notin Early /\ at'.step # "visit"
  BY DEF Early
<1>8. Control'
  <2>1. ctx' \in {"open", "over"}
    BY <1>1 DEF Control, Context
  <2>2. at'.step \in Calls => at'.t \in Targets
    BY DEF Calls
  <2>3. QED
    BY <1>1, <1>2, <1>6, <2>1, <2>2, SameRequest DEF Control
<1>9. Budget'
  BY <1>1, <1>2, SameRequest DEF Budget
<1>10. Resolved'
  <2>1. \A t \in Targets : Identity(t)' = Identity(t)
    BY SameRequest DEF Identity
  <2>2. QED
    BY <1>1, <1>7, <2>1, SameRequest DEF Resolved
<1>11. Ledger'
  BY <1>1, <1>2, <1>3, LedgerGrows DEF Control
<1>12. Trail'
  BY <1>1, <1>2, <1>4, TrailGrows
<1>13. Walks'
  BY <1>1, <1>7, SameRequest DEF Walks
<1>14. Joined'
  <2>1. \A t \in Targets : Own(t)' = Own(t)
    BY SameRequest DEF Own, Identity
  <2>2. ASSUME NEW t, NEW o PROVE Follows(t, o)' = Follows(t, o)
    BY DEF Follows
  <2>3. QED
    BY <1>1, <2>1, <2>2, SameRequest DEF Joined
<1>15. QED
  BY <1>6, <1>8, <1>9, <1>10, <1>11, <1>12, <1>13, <1>14 DEF AcquisitionInv

\* SiblingSymbols, the documentSymbol call of sibling discovery, preserves the invariant.
LEMMA SiblingSymbolsStep == ASSUME AcquisitionInv, SiblingSymbols PROVE AcquisitionInv'
<1> USE DEF graph
<1>1. Control /\ Budget /\ Resolved /\ Walks /\ at.step = "siblings" /\ request \in Requests /\ at \in Places
  BY DEF AcquisitionInv, SiblingSymbols, Control
<1>2. PICK rec \in Invoked :
          LET listed == rec.outcome = "SUCCESS" /\ rec.answer.count > 0
          IN  /\ Keep(rec) /\ Context(rec)
              /\ complete' = (complete /\ rec.outcome = "SUCCESS" /\ ~rec.answer.stray)
              /\ at' = IF ~listed THEN AfterSeed(at.t, adm)
                       ELSE [at EXCEPT !.step = "peer", !.flat = rec.answer.kind = "flat",
                                       !.width = rec.answer.width, !.left = rec.answer.count]
  BY DEF SiblingSymbols
<1>3. Due(rec)
  BY <1>1, InvokedFits DEF Calls
<1>4. at.t \in Targets /\ adm[at.t] = "ADMITTED"
  BY <1>1 DEF Control, Calls
<1>5. /\ at' \in Places
      /\ \/ /\ at'.step \in {"siblings", "peer"} /\ at'.t \in Targets /\ adm[at'.t] = "ADMITTED"
         \/ at'.step = "begin" /\ at'.d = FirstDirection
  <2>1. CASE at' = AfterSeed(at.t, adm)
    BY <1>1, <2>1, AfterSeedFits
  <2>2. CASE /\ rec.outcome = "SUCCESS"
             /\ at' = [at EXCEPT !.step = "peer", !.flat = rec.answer.kind = "flat",
                                 !.width = rec.answer.width, !.left = rec.answer.count]
    <3>1. rec \in Retained /\ rec.call = Call /\ Call[2] = "symbols" /\ Call[3] # NoNode
      BY <1>1, <1>3, CallFits DEF Due, Calls
    <3>2. rec.answer.width \in Nat /\ rec.answer.count \in Nat
      BY <2>2, <3>1 DEF Retained, Suits
    <3>3. QED
      BY <1>1, <1>4, <2>2, <3>2 DEF Places, Steps
  <2>3. QED
    BY <1>2, <2>1, <2>2
<1>6. QED
  BY <1>1, <1>2, <1>3, <1>5, SiblingStep DEF SiblingSymbols, Control, Budget

\* SiblingProbe, a prepare call of sibling discovery, preserves the invariant.
LEMMA SiblingProbeStep == ASSUME AcquisitionInv, SiblingProbe PROVE AcquisitionInv'
<1>1. Control /\ Budget /\ Resolved /\ Walks /\ at.step = "peer" /\ request \in Requests /\ at \in Places
  BY DEF AcquisitionInv, SiblingProbe, Control
<1>2. PICK rec \in Invoked :
          LET matches == IF rec.outcome = "SUCCESS" THEN rec.answer.items ELSE {}
              onward == at.flat /\ matches = {} /\ MoreProbes /\ (rec.outcome = "SUCCESS" \/ Missed(rec))
              admitted == Cardinality(matches) = 1 /\ Admittable(SetMin(matches))
              one == admitted /\ rec.answer.kind # "undeclared"
          IN  /\ Keep(rec) /\ Context(rec)
              /\ at' = IF onward THEN [at EXCEPT !.probe = @ + 1] ELSE NextPeer
              /\ nodes' = nodes \cup (IF admitted THEN matches ELSE {})
              /\ candidates' = candidates \cup (IF one THEN {<<Identity(at.t), SetMin(matches)>>} ELSE {})
              /\ complete' = (complete /\ ~(at.flat /\ Missed(rec)) /\ (onward \/ one))
  BY DEF SiblingProbe
<1> DEFINE matches == IF rec.outcome = "SUCCESS" THEN rec.answer.items ELSE {}
<1>3. Due(rec)
  BY <1>1, InvokedFits DEF Calls
<1>4. at.t \in Targets /\ adm[at.t] = "ADMITTED"
  BY <1>1 DEF Control, Calls
<1>5. /\ at' \in Places
      /\ \/ /\ at'.step \in {"siblings", "peer"} /\ at'.t \in Targets /\ adm[at'.t] = "ADMITTED"
         \/ at'.step = "begin" /\ at'.d = FirstDirection
  <2>1. CASE at' = AfterSeed(at.t, adm)
    BY <1>1, <2>1, AfterSeedFits
  <2>2. CASE at' = [at EXCEPT !.probe = @ + 1]
    BY <1>1, <1>4, <2>2 DEF Places
  <2>3. CASE at.left > 1 /\ at' = [at EXCEPT !.left = @ - 1, !.probe = 0]
    <3>1. at.left - 1 \in Nat
      BY <1>1, <2>3 DEF Places
    <3>2. at' \in Places /\ at'.step = at.step /\ at'.t = at.t
      BY <1>1, <2>3, <3>1 DEF Places
    <3>3. QED
      BY <1>1, <1>4, <3>2
  <2>4. QED
    BY <1>2, <2>1, <2>2, <2>3 DEF NextPeer
<1>6. nodes \subseteq nodes' /\ nodes' \subseteq Nodes /\ Cardinality(nodes') <= MaxNodes
  <2>1. nodes \subseteq Nodes /\ Cardinality(nodes) <= MaxNodes /\ IsFiniteSet(Nodes) /\ Nodes \subseteq Nat
        /\ MaxNodes \in Nat
    BY <1>1, RequestFacts DEF Budget
  <2>2. IsFiniteSet(nodes) /\ Cardinality(nodes) \in Nat
    BY <2>1, FS_Subset, FS_CardinalityType
  <2>3. CASE nodes' = nodes
    BY <2>1, <2>3
  <2>4. CASE nodes' = nodes \cup matches /\ Cardinality(matches) = 1 /\ Admittable(SetMin(matches))
    <3>1. rec \in Retained /\ rec.call = Call /\ Call[2] = "prepare"
      BY <1>1, <1>3, CallFits DEF Due, Calls
    <3>2. matches \subseteq Nodes
      BY <3>1 DEF Retained, Suits
    <3> HIDE DEF matches
    <3>3. PICK x : matches = {x}
      BY <2>1, <2>4, <3>2, FS_Subset, FS_Singleton
    <3>4. SetMin(matches) = x
      BY <2>1, <3>2, <3>3, SetMinLeast
    <3>5. Cardinality(nodes \cup {x}) <= MaxNodes
      <4>1. CASE x \in nodes
        <5>1. nodes \cup {x} = nodes
          BY <4>1
        <5>2. QED
          BY <2>1, <5>1
      <4>2. CASE x \notin nodes
        <5>1. Cardinality(nodes) < MaxNodes
          BY <2>4, <3>4, <4>2 DEF Admittable
        <5>2. Cardinality(nodes \cup {x}) = Cardinality(nodes) + 1
          BY <2>2, <4>2, FS_AddElement
        <5>3. QED
          BY <2>1, <2>2, <5>1, <5>2
      <4>3. QED
        BY <4>1, <4>2
    <3>6. QED
      BY <2>1, <2>4, <3>2, <3>3, <3>5
  <2>5. QED
    BY <1>2, <2>3, <2>4
<1>7. complete' \in BOOLEAN /\ (complete' => complete)
  BY <1>1, <1>2 DEF Control
<1>8. QED
  BY <1>1, <1>2, <1>3, <1>5, <1>6, <1>7, SiblingStep DEF SiblingProbe

-----------------------------------------------------------------------------
(* A walk begins *)

\* What is behind an expansion the cache answers for stays there.
LEMMA BehindKept ==
    ASSUME Trail, NEW d \in Directions, NEW t \in Targets, NEW i \in 1 .. Len(exps[d][t]),
           \A k \in DOMAIN queries : k \in DOMAIN queries' /\ queries'[k] = queries[k]
    PROVE  /\ Behind(d, exps[d][t][i]) = (IF exps[d][t][i].status \in Followed
                                          THEN queries'[<<d, exps[d][t][i].node>>].neighbours ELSE {})
           /\ exps[d][t][i] \in Expansions /\ Truthful(d, exps[d][t][i])
<1>1. exps[d][t] \in Seq(Expansions) /\ Truthful(d, exps[d][t][i])
  BY DEF Trail
<1>2. exps[d][t][i] \in Expansions
  BY <1>1
<1>3. QED
  BY <1>1, <1>2 DEF Behind, Truthful

\* A step that makes no visit keeps the finished walks closed,
LEMMA ClosedKept ==
    ASSUME Closed, UNCHANGED <<request, exps, queries>>, \A d \in Directions : Traversed(d)' => Traversed(d)
    PROVE  Closed'
<1>1. Targets' = Targets
  BY SameRequest
<1>2. ASSUME NEW d, NEW t PROVE Expanded(d, t)' = Expanded(d, t)
  BY DEF Expanded
<1>3. ASSUME NEW d, NEW e PROVE Behind(d, e)' = Behind(d, e)
  BY DEF Behind
<1>4. QED
  BY <1>1, <1>2, <1>3 DEF Closed

\* the status of each direction of each target,
LEMMA WholeKept ==
    ASSUME UNCHANGED <<request, res, adm>>, NEW d, NEW t, exps'[d][t] = exps[d][t]
    PROVE  Whole(d, t)' = Whole(d, t)
<1>1. Statuses(d, t)' = Statuses(d, t)
  BY DEF Statuses
<1>2. Aggregate(d, t)' = Aggregate(d, t)
  BY <1>1 DEF Aggregate, Locator
<1>3. QED
  BY <1>2 DEF Whole

\* and the memberships joined.
LEMMA JoinedKept ==
    ASSUME Joined, UNCHANGED <<request, res, adm, exps, observed, members>>
    PROVE  Joined'
<1>1. \A t \in Targets : Own(t)' = Own(t)
  BY SameRequest DEF Own, Identity
<1>2. ASSUME NEW t, NEW o PROVE Follows(t, o)' = Follows(t, o)
  BY DEF Follows
<1>3. QED
  BY <1>1, <1>2, SameRequest DEF Joined

\* BeginTraversal preserves the invariant.
LEMMA BeginStep == ASSUME AcquisitionInv, BeginTraversal PROVE AcquisitionInv'
<1> USE DEF evidence, graph
<1>1. /\ Control /\ Budget /\ Resolved /\ Ledger /\ Trail /\ Walks /\ Closed /\ Verdict /\ Lap /\ Joined
      /\ at.step = "begin" /\ request \in Requests /\ at \in Places /\ at.d \in Directions
  BY DEF AcquisitionInv, BeginTraversal, Control, Places
<1>2. UNCHANGED <<run, request, ctx, usage, records, res, adm, nodes, edges, observed, candidates, queries, exps,
                  members, complete, saved>>
  BY DEF BeginTraversal
<1>3. /\ at' \in Places /\ at'.step = "visit" /\ at'.t = 0 /\ at'.d = at.d
  BY <1>1 DEF BeginTraversal, Places, Steps
<1>4. \A t \in Targets : exps[at.d][t] = <<>>
  BY <1>1 DEF Trail, Undone
<1>5. /\ starts' \in [Directions -> [Targets -> SUBSET nodes]]
  <2>1. \A t \in Targets : Results("outgoing", t, {"FRONTIER", "SUCCESS_EMPTY"}) \subseteq nodes
    <3>1. ASSUME NEW t \in Targets, NEW i \in 1 .. Len(exps["outgoing"][t]) PROVE exps["outgoing"][t][i].node \in nodes
      BY <1>1, <3>1 DEF Trail, Truthful, Directions
    <3>2. QED
      BY <3>1 DEF Results
  <2>2. \A t \in Targets : adm[t] = "ADMITTED" => Identity(t) \in nodes
    BY <1>1 DEF Resolved
  <2> DEFINE new == [t \in Targets |-> IF adm[t] # "ADMITTED" THEN {}
                             ELSE IF at.d = "incoming" /\ request.mode = "SLICE"
                                  THEN Results("outgoing", t, {"FRONTIER", "SUCCESS_EMPTY"})
                             ELSE {Identity(t)}]
  <2>3. new \in [Targets -> SUBSET nodes]
    BY <2>1, <2>2
  <2>4. starts' = [starts EXCEPT ![at.d] = new]
    BY DEF BeginTraversal
  <2> HIDE DEF new
  <2>5. QED
    BY <1>1, <2>3, <2>4 DEF Trail
<1>6. queue' = [t \in Targets |-> starts'[at.d][t] \X {0}] /\ depth' = queue'
  BY DEF BeginTraversal
<1>7. \A d \in Directions : Traversed(d)' <=> Traversed(d)
  BY <1>1, <1>3 DEF Traversed
<1>8. Control'
  BY <1>1, <1>2, <1>3, SameRequest DEF Control, Calls
<1>9. Budget'
  BY <1>1, <1>2, SameRequest DEF Budget
<1>10. Resolved'
  <2>1. at'.step \notin Early
    BY <1>3 DEF Early
  <2>2. \A t \in Targets : Identity(t)' = Identity(t)
    BY <1>2, SameRequest DEF Identity
  <2>3. QED
    BY <1>1, <1>2, <2>1, <2>2, SameRequest DEF Resolved
<1>11. Ledger'
  BY <1>1, <1>2, LedgerGrows DEF Control
<1>12. Trail'
  <2>1. ASSUME NEW d, NEW e PROVE Truthful(d, e)' = Truthful(d, e)
    BY <1>2 DEF Truthful
  <2>2. \A d \in Directions : Undone(d)' => Undone(d)
    BY <1>1, <1>2, <1>3 DEF Undone, Early
  <2>3. QED
    BY <1>1, <1>2, <1>5, <2>1, <2>2, SameRequest DEF Trail
<1>13. Walks'
  <2>1. queue' \in [Targets -> SUBSET (nodes \X Nat)]
    BY <1>1, <1>5, <1>6
  <2>2. ASSUME NEW t \in Targets PROVE Walk(t)'
    <3>1. depth'[t] = starts'[at.d][t] \X {0} /\ queue'[t] = depth'[t]
      BY <1>6
    <3>2. Len(exps'[at.d][t]) = 0
      BY <1>2, <1>4
    <3>3. \A x \in depth'[t] : x[1] \in starts'[at.d][t] /\ x[2] = 0 /\ x = <<x[1], 0>>
      BY <3>1
    <3>4. QED
      BY <1>3, <3>1, <3>2, <3>3 DEF Walk, Layered
  <2>3. QED
    BY <1>2, <1>6, <2>1, <2>2, SameRequest DEF Walks
<1>14. Closed'
  BY <1>1, <1>2, <1>7, ClosedKept
<1>15. Verdict'
  <2>1. \A d \in Directions, t \in Targets : Whole(d, t)' = Whole(d, t)
    BY <1>2, WholeKept
  <2>2. at.step \notin Early
    BY <1>1 DEF Early
  <2>3. QED
    BY <1>1, <1>2, <1>7, <2>1, <2>2, SameRequest DEF Verdict, AllWhole
<1>16. Lap'
  <2>1. \A t \in Targets : Len(exps'[at.d][t]) = 0
    BY <1>2, <1>4
  <2>2. \A t \in Targets : ~(t <= 0)
    BY <1>1, RequestFacts
  <2>3. QED
    BY <1>2, <1>3, <2>1, <2>2, SameRequest DEF Lap
<1>17. Joined'
  BY <1>1, <1>2, JoinedKept
<1>18. QED
  BY <1>8, <1>9, <1>10, <1>11, <1>12, <1>13, <1>14, <1>15, <1>16, <1>17 DEF AcquisitionInv

-----------------------------------------------------------------------------
(* A visit *)

\* The nodes a visit queues.
New(S) == {m \in S : ~\E x \in depth[Turn] : x[1] = m}

\* The target whose turn it is expands its next node with e and queues what is new in S.
Extends(e, S) ==
    /\ e.node = NextIn(Turn) /\ e.depth = DepthOf(Turn, NextIn(Turn))
    /\ exps' = [exps EXCEPT ![at.d][Turn] = Append(@, e)]
    /\ queue' = [queue EXCEPT ![Turn] = (@ \ {<<e.node, e.depth>>}) \cup (New(S) \X {e.depth + 1})]
    /\ depth' = [depth EXCEPT ![Turn] = @ \cup (New(S) \X {e.depth + 1})]
    /\ members' = [members EXCEPT ![Turn] = IF S = {} THEN @ ELSE @ \cup S \cup {e.node}]
    /\ at' = [at EXCEPT !.t = Turn]

\* What e says is what the cache holds after the visit, and S is what is behind it;
\* what was cached and observed stays, and an observation that is new is of a new record.
Learned(e, S) ==
    /\ e \in Expansions /\ S \subseteq nodes' /\ nodes \subseteq nodes'
    /\ Len(records') \in Nat /\ Len(records) <= Len(records') /\ e.req <= Len(records')
    /\ \A k \in DOMAIN queries : k \in DOMAIN queries' /\ queries'[k] = queries[k]
    /\ e.status \in Followed \cup Successful =>
          /\ <<at.d, e.node>> \in DOMAIN queries'
          /\ queries'[<<at.d, e.node>>].status = e.status /\ queries'[<<at.d, e.node>>].req = e.req
    /\ S = IF e.status \in Followed THEN queries'[<<at.d, e.node>>].neighbours ELSE {}
    /\ observed \subseteq observed'
    /\ \A o \in observed' : o \in observed \/ o[1] = Len(records) + 1
    /\ e.status \in Followed => \A x : <<e.req, x>> \in observed' <=> x \in Links(<<at.d, e.node>>, S)
    /\ UNCHANGED <<run, request, res, adm, starts, complete, saved>>

\* What a visit changes, component by component.
Moved(e, S, me, way) ==
    /\ me \in Targets /\ way \in Directions /\ e.node \in nodes /\ e.depth \in Nat
    /\ <<e.node, e.depth>> \in queue[me] /\ \A y \in queue[me] : e.depth <= y[2]
    /\ exps' \in [Directions -> [Targets -> Seq(Expansions)]]
    /\ exps[way][me] \in Seq(Expansions) /\ exps'[way][me] = Append(exps[way][me], e)
    /\ \A d \in Directions, t \in Targets : d # way \/ t # me => exps'[d][t] = exps[d][t]
    /\ queue'[me] = (queue[me] \ {<<e.node, e.depth>>}) \cup (New(S) \X {e.depth + 1})
    /\ depth'[me] = depth[me] \cup (New(S) \X {e.depth + 1})
    /\ \A t \in Targets : t # me => queue'[t] = queue[t] /\ depth'[t] = depth[t] /\ members'[t] = members[t]
    /\ members'[me] = IF S = {} THEN members[me] ELSE members[me] \cup S \cup {e.node}
    /\ at' \in Places /\ at'.step = "visit" /\ at'.t = me /\ at'.d = way

\* What the invariant and a visit say of the node taken from the queue.
LEMMA VisitFacts ==
    ASSUME AcquisitionInv, Waiting, NEW e, NEW S, Extends(e, S), Learned(e, S), NEW me, me = Turn, NEW way, way = at.d
    PROVE  Moved(e, S, me, way)
<1>1. Control /\ Budget /\ Resolved /\ Trail /\ Walks /\ at \in Places /\ way \in Directions
  BY DEF AcquisitionInv, Control, Places
<1>2. me \in Targets /\ queue[me] # {} /\ at.step = "visit" /\ me \in Nat
  BY <1>1, TurnFacts, RequestFacts DEF Waiting, Control
<1>3. /\ e.node \in nodes /\ e.depth \in Nat
      /\ <<e.node, e.depth>> \in queue[me] /\ \A y \in queue[me] : e.depth <= y[2]
  BY <1>1, <1>2, NextDepth DEF Extends
<1>4. exps \in [Directions -> [Targets -> Seq(Expansions)]] /\ e \in Expansions
  BY <1>1 DEF Trail, Learned
<1>5. exps[way][me] \in Seq(Expansions) /\ Append(exps[way][me], e) \in Seq(Expansions)
  BY <1>1, <1>2, <1>4
<1>6. /\ exps' \in [Directions -> [Targets -> Seq(Expansions)]]
      /\ exps'[way][me] = Append(exps[way][me], e)
      /\ \A d \in Directions, t \in Targets : d # way \/ t # me => exps'[d][t] = exps[d][t]
  BY <1>1, <1>2, <1>4, <1>5 DEF Extends
<1>7. /\ queue'[me] = (queue[me] \ {<<e.node, e.depth>>}) \cup (New(S) \X {e.depth + 1})
      /\ depth'[me] = depth[me] \cup (New(S) \X {e.depth + 1})
      /\ \A t \in Targets : t # me => queue'[t] = queue[t] /\ depth'[t] = depth[t]
  BY <1>1, <1>2 DEF Extends, Walks
<1>8. /\ members'[me] = IF S = {} THEN members[me] ELSE members[me] \cup S \cup {e.node}
      /\ \A t \in Targets : t # me => members'[t] = members[t]
  BY <1>1, <1>2 DEF Extends, Resolved
<1>9. at' \in Places /\ at'.step = "visit" /\ at'.t = me /\ at'.d = way
  BY <1>1, <1>2 DEF Extends, Places
<1>10. QED
  BY <1>1, <1>2, <1>3, <1>5, <1>6, <1>7, <1>8, <1>9 DEF Moved

\* What a visit tells is true, and the walks not begun stay so.
LEMMA VisitTrail ==
    ASSUME AcquisitionInv, NEW e, NEW S, Learned(e, S), NEW me, NEW way, way = at.d, at.step = "visit", Moved(e, S, me, way)
    PROVE  Trail'
<1>1. Trail /\ Control /\ Len(records) \in Nat
  BY DEF AcquisitionInv, Control
<1>2. /\ me \in Targets /\ way \in Directions /\ e.node \in nodes
      /\ exps' \in [Directions -> [Targets -> Seq(Expansions)]]
      /\ exps[way][me] \in Seq(Expansions) /\ exps'[way][me] = Append(exps[way][me], e)
      /\ \A d \in Directions, t \in Targets : d # way \/ t # me => exps'[d][t] = exps[d][t]
      /\ at'.step = "visit" /\ at'.d = way
  BY DEF Moved
<1>3. /\ e \in Expansions /\ nodes \subseteq nodes' /\ UNCHANGED <<request, starts>>
      /\ Len(records') \in Nat /\ Len(records) <= Len(records') /\ e.req <= Len(records')
      /\ \A k \in DOMAIN queries : k \in DOMAIN queries' /\ queries'[k] = queries[k]
      /\ e.status \in Followed \cup Successful =>
            /\ <<way, e.node>> \in DOMAIN queries'
            /\ queries'[<<way, e.node>>].status = e.status /\ queries'[<<way, e.node>>].req = e.req
  BY DEF Learned
<1>4. Targets' = Targets /\ Expansions' = Expansions
  BY <1>3, SameRequest
<1>5. ASSUME NEW d \in Directions, NEW t \in Targets, NEW i \in 1 .. Len(exps[d][t]), exps'[d][t][i] = exps[d][t][i]
      PROVE  Truthful(d, exps[d][t][i])'
  <2>1. exps[d][t][i] \in Expansions /\ Truthful(d, exps[d][t][i])
    BY <1>1, <1>3, <1>5, BehindKept
  <2>2. exps[d][t][i].req \in Nat
    BY <2>1 DEF Expansions
  <2>3. QED
    BY <1>1, <1>3, <1>5, <2>1, <2>2 DEF Truthful
<1>6. ASSUME NEW d \in Directions, NEW t \in Targets, NEW i \in 1 .. Len(exps'[d][t])
      PROVE  Truthful(d, exps[d][t][i])'
  <2>1. CASE d # way \/ t # me
    BY <1>2, <1>5, <1>6, <2>1
  <2>2. CASE d = way /\ t = me
    <3>1. /\ Len(exps'[way][me]) = Len(exps[way][me]) + 1 /\ Len(exps[way][me]) \in Nat
          /\ exps'[way][me][Len(exps[way][me]) + 1] = e
          /\ \A j \in 1 .. Len(exps[way][me]) : exps'[way][me][j] = exps[way][me][j]
      BY <1>2, <1>3, Appended
    <3>2. CASE i \in 1 .. Len(exps[way][me])
      BY <1>2, <1>5, <2>2, <3>1, <3>2
    <3>3. CASE i = Len(exps[way][me]) + 1
      <4>1. exps'[d][t][i] = e
        BY <2>2, <3>1, <3>3
      <4>2. QED
        BY <1>2, <1>3, <2>2, <4>1 DEF Truthful
    <3>4. i \in 1 .. Len(exps[way][me]) + 1
      BY <1>6, <2>2, <3>1
    <3>5. QED
      BY <3>1, <3>2, <3>3, <3>4
  <2>3. QED
    BY <2>1, <2>2
<1>7. ASSUME NEW d \in Directions, NEW t \in Targets, Undone(d)' PROVE exps'[d][t] = <<>>
  <2>1. Undone(d) /\ d # way
    BY <1>1, <1>2, <1>3, <1>7 DEF Undone, Early, Directions, Control
  <2>2. QED
    BY <1>1, <1>2, <2>1 DEF Trail
<1>8. starts' \in [Directions -> [Targets -> SUBSET nodes']]
  BY <1>1, <1>3 DEF Trail
<1>9. QED
  BY <1>2, <1>4, <1>6, <1>7, <1>8 DEF Trail

\* The next expansion e of a layered walk, one of least depth, with S behind it.
Onward(D, Q, start, E, B, e, S, C, new) ==
    /\ D \subseteq nodes \X Nat /\ Q \subseteq D /\ E \in Seq(Expansions) /\ Layered(D, Q, start, E, B)
    /\ e \in Expansions /\ e.depth \in Nat /\ <<e.node, e.depth>> \in Q /\ \A y \in Q : e.depth <= y[2]
    /\ C[Len(E) + 1] = S /\ \A i \in 1 .. Len(E) : C[i] = B[i]
    /\ new \subseteq S /\ \A m \in S : m \in new <=> ~\E x \in D : x[1] = m

\* Breadth first: what is new of S comes one layer further and the walk stays layered.
LEMMA LayeredVisit ==
    ASSUME NEW D, NEW Q, NEW start, NEW E, NEW B, NEW e, NEW S, NEW C, NEW new,
           Onward(D, Q, start, E, B, e, S, C, new)
    PROVE  Layered(D \cup (new \X {e.depth + 1}), (Q \ {<<e.node, e.depth>>}) \cup (new \X {e.depth + 1}), start,
                   Append(E, e), C)
<1> DEFINE fresh == new \X {e.depth + 1}
           DD == D \cup fresh
           QQ == (Q \ {<<e.node, e.depth>>}) \cup fresh
           EE == Append(E, e)
           last == Len(E) + 1
<1>0. /\ D \subseteq nodes \X Nat /\ Q \subseteq D /\ E \in Seq(Expansions) /\ Layered(D, Q, start, E, B)
      /\ e \in Expansions /\ e.depth \in Nat /\ <<e.node, e.depth>> \in Q /\ \A y \in Q : e.depth <= y[2]
      /\ C[Len(E) + 1] = S /\ \A i \in 1 .. Len(E) : C[i] = B[i]
      /\ new \subseteq S /\ \A m \in S : m \in new <=> ~\E x \in D : x[1] = m
  BY DEF Onward
<1>1. /\ \A x, y \in D : x[1] = y[1] => x = y
      /\ \A x \in D, y \in Q : x[2] <= y[2] + 1
      /\ \A n \in start : <<n, 0>> \in D
      /\ \A x \in D : x \in Q \/ \E i \in 1 .. Len(E) : E[i].node = x[1]
      /\ \A x \in D : x[1] \notin start => \E i \in 1 .. Len(E) : x[2] = E[i].depth + 1 /\ x[1] \in B[i]
      /\ \A i \in 1 .. Len(E) : \A n \in B[i] : \E x \in D : x[1] = n /\ x[2] <= E[i].depth + 1
  BY <1>0 DEF Layered
<1>2. \A x \in fresh : x[1] \in new /\ x[2] = e.depth + 1 /\ x = <<x[1], e.depth + 1>>
  OBVIOUS
<1>3. \A n \in new : <<n, e.depth + 1>> \in fresh
  OBVIOUS
<1>4. \A x \in D : x[1] \notin new
  BY <1>0
<1>5. /\ Len(EE) = last /\ Len(E) \in Nat /\ EE[last] = e /\ \A i \in 1 .. Len(E) : EE[i] = E[i]
  BY <1>0, Appended
<1>6. \A x \in D : x[2] <= e.depth + 1 /\ x[2] \in Nat
  <2>1. \A x \in D : x[2] <= <<e.node, e.depth>>[2] + 1
    BY <1>0, <1>1
  <2>2. QED
    BY <1>0, <2>1
<1>7. /\ \A i \in 1 .. Len(E) : i \in 1 .. last
      /\ last \in 1 .. last /\ \A i \in 1 .. last : i \in 1 .. Len(E) \/ i = last
  BY <1>5
<1> HIDE DEF fresh, last, EE
<1>8. ASSUME NEW x \in DD, NEW y \in DD, x[1] = y[1] PROVE x = y
  <2>1. CASE x \in D /\ y \in D
    BY <1>1, <1>8, <2>1
  <2>2. CASE x \in fresh /\ y \in fresh
    BY <1>2, <1>8, <2>2
  <2>3. CASE x \in fresh /\ y \in D
    BY <1>2, <1>4, <1>8, <2>3
  <2>4. CASE y \in fresh /\ x \in D
    BY <1>2, <1>4, <1>8, <2>4
  <2>5. (x \in D \/ x \in fresh) /\ (y \in D \/ y \in fresh)
    OBVIOUS
  <2>6. QED
    BY <2>1, <2>2, <2>3, <2>4, <2>5, Zenon
<1>9. ASSUME NEW x \in DD, NEW y \in QQ PROVE x[2] <= y[2] + 1
  <2>1. x[2] \in Nat /\ x[2] <= e.depth + 1
    BY <1>0, <1>2, <1>6
  <2>2. y[2] \in Nat /\ e.depth <= y[2]
    <3>1. CASE y \in Q
      BY <1>0, <1>6, <3>1
    <3>2. CASE y \in fresh
      BY <1>0, <1>2, <3>2
    <3>3. QED
      BY <3>1, <3>2
  <2>3. QED
    BY <1>0, <2>1, <2>2
<1>10. \A n \in start : <<n, 0>> \in DD
  BY <1>1
<1>11. ASSUME NEW x \in DD PROVE x \in QQ \/ \E i \in 1 .. Len(EE) : EE[i].node = x[1]
  <2>1. CASE x \in fresh
    BY <2>1
  <2>2. CASE x = <<e.node, e.depth>>
    BY <1>5, <1>7, <2>2
  <2>3. CASE x \in D /\ x # <<e.node, e.depth>>
    BY <1>1, <1>5, <1>7, <2>3
  <2>4. QED
    BY <2>1, <2>2, <2>3
<1>12. ASSUME NEW x \in DD, x[1] \notin start
       PROVE  \E i \in 1 .. Len(EE) : x[2] = EE[i].depth + 1 /\ x[1] \in C[i]
  <2>1. CASE x \in fresh
    <3>1. x[1] \in C[last]
      BY <1>0, <1>2, <2>1 DEF last
    <3>2. QED
      BY <1>2, <1>5, <1>7, <2>1, <3>1
  <2>2. CASE x \in D
    BY <1>0, <1>1, <1>5, <1>7, <1>12, <2>2
  <2>3. QED
    BY <2>1, <2>2
<1>13. ASSUME NEW i \in 1 .. Len(EE), NEW n \in C[i]
       PROVE  \E x \in DD : x[1] = n /\ x[2] <= EE[i].depth + 1
  <2>1. CASE i \in 1 .. Len(E)
    BY <1>0, <1>1, <1>5, <1>13, <2>1
  <2>2. CASE i = last /\ n \in new
    <3>1. <<n, e.depth + 1>> \in DD
      BY <1>3, <2>2
    <3>2. QED
      BY <1>0, <1>5, <2>2, <3>1
  <2>3. CASE i = last /\ n \notin new
    <3>1. PICK x \in D : x[1] = n
      BY <1>0, <1>13, <2>3 DEF last
    <3>2. QED
      BY <1>0, <1>5, <1>6, <2>3, <3>1
  <2>4. QED
    BY <1>5, <1>7, <1>13, <2>1, <2>2, <2>3
<1>14. Layered(DD, QQ, start, EE, C)
  <2> HIDE DEF DD, QQ
  <2>1. QED
    BY <1>8, <1>9, <1>10, <1>11, <1>12, <1>13 DEF Layered
<1>15. QED
  BY <1>14 DEF fresh, EE

\* So a visit keeps every walk layered, whatever other targets put into the cache meanwhile.
LEMMA VisitWalks ==
    ASSUME AcquisitionInv, NEW e, NEW S, Learned(e, S), Extends(e, S), NEW me, me = Turn, NEW way, way = at.d,
           at.step = "visit", Moved(e, S, me, way)
    PROVE  Walks'
<1>1. /\ Trail /\ Walks /\ Targets' = Targets /\ UNCHANGED starts
      /\ nodes \subseteq nodes' /\ S \subseteq nodes'
  BY SameRequest DEF AcquisitionInv, Learned
<1>2. /\ me \in Targets /\ way \in Directions /\ e.depth \in Nat
      /\ <<e.node, e.depth>> \in queue[me] /\ \A y \in queue[me] : e.depth <= y[2]
      /\ exps[way][me] \in Seq(Expansions) /\ exps'[way][me] = Append(exps[way][me], e)
      /\ \A d \in Directions, t \in Targets : d # way \/ t # me => exps'[d][t] = exps[d][t]
      /\ queue'[me] = (queue[me] \ {<<e.node, e.depth>>}) \cup (New(S) \X {e.depth + 1})
      /\ depth'[me] = depth[me] \cup (New(S) \X {e.depth + 1})
      /\ \A t \in Targets : t # me => queue'[t] = queue[t] /\ depth'[t] = depth[t]
      /\ at'.step = "visit" /\ at'.d = way
  BY DEF Moved
<1>3. New(S) \subseteq S /\ \A m \in S : m \in New(S) <=> ~\E x \in depth[me] : x[1] = m
  BY DEF New
<1>4. /\ queue' \in [Targets -> SUBSET (nodes' \X Nat)] /\ depth' \in [Targets -> SUBSET (nodes' \X Nat)]
      /\ \A t \in Targets : queue'[t] \subseteq depth'[t]
  <2>1. /\ DOMAIN queue' = Targets /\ DOMAIN depth' = Targets
        /\ queue' = [t \in Targets |-> queue'[t]] /\ depth' = [t \in Targets |-> depth'[t]]
    BY <1>1 DEF Walks, Extends
  <2>2. New(S) \X {e.depth + 1} \subseteq nodes' \X Nat
    BY <1>1, <1>2, <1>3
  <2>3. \A t \in Targets : queue[t] \subseteq nodes' \X Nat /\ depth[t] \subseteq nodes' \X Nat /\ queue[t] \subseteq depth[t]
    BY <1>1 DEF Walks
  <2>4. \A t \in Targets : queue'[t] \subseteq nodes' \X Nat /\ depth'[t] \subseteq nodes' \X Nat /\ queue'[t] \subseteq depth'[t]
    BY <1>2, <2>2, <2>3
  <2>5. QED
    BY <2>1, <2>4
<1>5. /\ \A k \in DOMAIN queries : k \in DOMAIN queries' /\ queries'[k] = queries[k]
      /\ S = IF e.status \in Followed THEN queries'[<<way, e.node>>].neighbours ELSE {}
      /\ e \in Expansions
  BY DEF Learned
<1> DEFINE beh(t) == [i \in 1 .. Len(exps[way][t]) |-> Behind(way, exps[way][t][i])]
           after(t) == [i \in 1 .. Len(exps'[way][t]) |-> IF exps'[way][t][i].status \in Followed
                                                          THEN queries'[<<way, exps'[way][t][i].node>>].neighbours ELSE {}]
<1>6. ASSUME NEW t \in Targets, NEW i \in 1 .. Len(exps[way][t])
      PROVE  Behind(way, exps[way][t][i]) = (IF exps[way][t][i].status \in Followed
                                             THEN queries'[<<way, exps[way][t][i].node>>].neighbours ELSE {})
  BY <1>1, <1>2, <1>5, <1>6, BehindKept
<1>7. \A t \in Targets : Layered(depth[t], queue[t], starts[way][t], exps[way][t], beh(t))
  BY <1>1 DEF Walks, Walk
<1>8. ASSUME NEW t \in Targets PROVE Layered(depth'[t], queue'[t], starts[way][t], exps'[way][t], after(t))
  <2>1. CASE t # me
    <3>1. exps'[way][t] = exps[way][t] /\ queue'[t] = queue[t] /\ depth'[t] = depth[t]
      BY <1>2, <2>1
    <3>2. after(t) = beh(t)
      BY <1>6, <3>1
    <3> HIDE DEF after, beh
    <3>3. QED
      BY <1>7, <3>1, <3>2
  <2>2. CASE t = me
    <3> DEFINE E == exps[way][me]
    <3>1. /\ Len(exps'[way][me]) = Len(E) + 1 /\ Len(E) \in Nat /\ exps'[way][me][Len(E) + 1] = e
          /\ \A i \in 1 .. Len(E) : exps'[way][me][i] = E[i]
      BY <1>2, <1>5, Appended
    <3>2. Len(E) + 1 \in 1 .. Len(exps'[way][me]) /\ \A i \in 1 .. Len(E) : i \in 1 .. Len(exps'[way][me])
      BY <3>1
    <3>3. after(me)[Len(E) + 1] = S
      BY <1>5, <3>1, <3>2
    <3>4. \A i \in 1 .. Len(E) : after(me)[i] = beh(me)[i]
      <4> SUFFICES ASSUME NEW i \in 1 .. Len(E) PROVE after(me)[i] = beh(me)[i]
        OBVIOUS
      <4>1. exps'[way][me][i] = E[i] /\ i \in 1 .. Len(exps'[way][me])
        BY <3>1, <3>2
      <4>2. after(me)[i] = IF E[i].status \in Followed THEN queries'[<<way, E[i].node>>].neighbours ELSE {}
        BY <4>1
      <4>3. beh(me)[i] = Behind(way, E[i])
        OBVIOUS
      <4>4. QED
        BY <1>2, <1>6, <4>2, <4>3
    <3>5. depth[me] \in SUBSET (nodes \X Nat) /\ queue[me] \in SUBSET depth[me]
      BY <1>1, <1>2 DEF Walks
    <3>6. Layered(depth[me], queue[me], starts[way][me], E, beh(me))
      BY <1>2, <1>7
    <3> HIDE DEF after, beh
    <3>7. Layered(depth[me] \cup (New(S) \X {e.depth + 1}),
                  (queue[me] \ {<<e.node, e.depth>>}) \cup (New(S) \X {e.depth + 1}), starts[way][me], Append(E, e), after(me))
      <4>1. Onward(depth[me], queue[me], starts[way][me], E, beh(me), e, S, after(me), New(S))
        BY <1>2, <1>3, <1>5, <3>3, <3>4, <3>5, <3>6 DEF Onward
      <4> HIDE DEF E
      <4>2. QED
        BY <4>1, LayeredVisit
    <3>8. QED
      BY <1>2, <2>2, <3>7
  <2>3. QED
    BY <2>1, <2>2
<1>9. ASSUME NEW t \in Targets PROVE Walk(t)'
  <2>1. Layered(depth'[t], queue'[t], starts[way][t], exps'[way][t], after(t))
    BY <1>8
  <2>2. QED
    BY <1>1, <1>2, <2>1 DEF Walk, Behind
<1>10. QED
  BY <1>1, <1>4, <1>9 DEF Walks

\* The rotation: a target that still has a node waiting was visited as often as any other in this lap.
LEMMA VisitLap ==
    ASSUME AcquisitionInv, Waiting, NEW e, NEW S, Learned(e, S), NEW me, me = Turn, NEW way, way = at.d,
           Moved(e, S, me, way)
    PROVE  Lap'
<1>1. /\ Lap /\ Control /\ Targets' = Targets /\ Targets \subseteq Nat /\ at.t \in Nat /\ at.step = "visit"
  BY SameRequest, RequestFacts DEF AcquisitionInv, Learned, Control, Places, Waiting
<1>2. /\ me \in Targets /\ way \in Directions /\ queue[me] # {}
      /\ \A t \in Targets : t # me => exps'[way][t] = exps[way][t] /\ queue'[t] = queue[t]
      /\ at'.step = "visit" /\ at'.d = way /\ at'.t = me
  BY DEF Moved
<1>3. \A t \in Targets : exps[way][t] \in Seq(Expansions) /\ Len(exps[way][t]) \in Nat
  BY <1>2 DEF AcquisitionInv, Trail
<1>4. Len(exps'[way][me]) = Len(exps[way][me]) + 1
  BY <1>2, <1>3, Appended DEF Moved, Learned
<1>5. PICK k \in Nat : \A t \in Targets :
          /\ Len(exps[way][t]) <= (IF t <= at.t THEN k + 1 ELSE k)
          /\ queue[t] # {} => Len(exps[way][t]) = (IF t <= at.t THEN k + 1 ELSE k)
  BY <1>1 DEF Lap
<1>6. SUFFICES \E j \in Nat : \A t \in Targets :
          /\ Len(exps'[way][t]) <= (IF t <= me THEN j + 1 ELSE j)
          /\ queue'[t] # {} => Len(exps'[way][t]) = (IF t <= me THEN j + 1 ELSE j)
  <2>1. PICK j \in Nat : \A t \in Targets :
          /\ Len(exps'[way][t]) <= (IF t <= me THEN j + 1 ELSE j)
          /\ queue'[t] # {} => Len(exps'[way][t]) = (IF t <= me THEN j + 1 ELSE j)
    BY <1>6
  <2>2. \A t \in Targets' : LET turns == IF t <= at'.t THEN j + 1 ELSE j
                            IN  /\ Len(exps'[at'.d][t]) <= turns
                                /\ queue'[t] # {} => Len(exps'[at'.d][t]) = turns
    BY <1>1, <1>2, <2>1
  <2>3. QED
    BY <2>2 DEF Lap
<1>7. CASE me > at.t /\ \A t \in Targets : at.t < t /\ t < me => queue[t] = {}
  <2>1. ASSUME NEW t \in Targets
        PROVE  /\ Len(exps'[way][t]) <= (IF t <= me THEN k + 1 ELSE k)
               /\ queue'[t] # {} => Len(exps'[way][t]) = (IF t <= me THEN k + 1 ELSE k)
    <3>1. CASE t = me
      BY <1>1, <1>2, <1>3, <1>4, <1>5, <1>7, <3>1
    <3>2. CASE t # me
      BY <1>1, <1>2, <1>3, <1>5, <1>7, <3>2
    <3>3. QED
      BY <3>1, <3>2
  <2>2. QED
    BY <2>1
<1>8. CASE /\ me <= at.t /\ \A t \in Targets : t > at.t => queue[t] = {}
           /\ \A t \in Targets : t < me => queue[t] = {}
  <2>1. ASSUME NEW t \in Targets
        PROVE  /\ Len(exps'[way][t]) <= (IF t <= me THEN (k + 1) + 1 ELSE k + 1)
               /\ queue'[t] # {} => Len(exps'[way][t]) = (IF t <= me THEN (k + 1) + 1 ELSE k + 1)
    <3>1. CASE t = me
      <4>1. me \in Nat /\ me <= at.t /\ Len(exps[way][me]) = k + 1
        BY <1>1, <1>2, <1>5, <1>8
      <4>2. Len(exps'[way][me]) = (k + 1) + 1
        BY <1>4, <4>1
      <4>3. QED
        BY <3>1, <4>1, <4>2
    <3>2. CASE t # me
      <4>1. /\ exps'[way][t] = exps[way][t] /\ queue'[t] = queue[t] /\ t \in Nat /\ me \in Nat
            /\ t > at.t => queue[t] = {}
            /\ t < me => queue[t] = {}
            /\ me <= at.t
        BY <1>1, <1>2, <1>8, <3>2
      <4>2. /\ Len(exps[way][t]) <= (IF t <= at.t THEN k + 1 ELSE k)
            /\ queue[t] # {} => Len(exps[way][t]) = (IF t <= at.t THEN k + 1 ELSE k)
            /\ Len(exps[way][t]) \in Nat
        BY <1>3, <1>5
      <4>3. QED
        BY <1>1, <3>2, <4>1, <4>2
    <3>3. QED
      BY <3>1, <3>2
  <2>2. QED
    BY <2>1
<1>9. QED
  BY <1>1, <1>7, <1>8, TurnFacts

\* A visit in one direction leaves the other, already walked or not, as it was.
LEMMA VisitVerdict ==
    ASSUME AcquisitionInv, at.step = "visit", NEW e, NEW S, Learned(e, S), NEW me, NEW way, way = at.d,
           Moved(e, S, me, way)
    PROVE  Closed' /\ Verdict'
<1>1. /\ Trail /\ Closed /\ Verdict /\ Targets' = Targets /\ UNCHANGED <<request, res, adm, complete>>
      /\ \A k \in DOMAIN queries : k \in DOMAIN queries' /\ queries'[k] = queries[k]
  BY SameRequest DEF AcquisitionInv, Learned
<1>2. /\ \A d \in Directions, t \in Targets : d # way => exps'[d][t] = exps[d][t]
      /\ at'.step = "visit" /\ at'.d = way
  BY DEF Moved
<1>3. \A d \in Directions : (Traversed(d)' <=> Traversed(d)) /\ (Traversed(d) => d # way)
  BY <1>2 DEF Traversed
<1>4. ASSUME NEW d \in Directions, Traversed(d)', NEW t \in Targets, NEW i \in 1 .. Len(exps'[d][t])
      PROVE  Behind(d, exps[d][t][i])' \subseteq Expanded(d, t)'
  <2>1. exps'[d][t] = exps[d][t] /\ Traversed(d)
    BY <1>2, <1>3, <1>4
  <2>2. Behind(d, exps[d][t][i]) \subseteq Expanded(d, t)
    BY <1>1, <1>4, <2>1 DEF Closed
  <2>3. Behind(d, exps[d][t][i]) = (IF exps[d][t][i].status \in Followed
                                    THEN queries'[<<d, exps[d][t][i].node>>].neighbours ELSE {})
    BY <1>1, <1>4, <2>1, BehindKept
  <2>4. Behind(d, exps[d][t][i])' = (IF exps[d][t][i].status \in Followed
                                     THEN queries'[<<d, exps[d][t][i].node>>].neighbours ELSE {})
    BY <2>1 DEF Behind
  <2>5. Expanded(d, t)' = Expanded(d, t)
    BY <2>1 DEF Expanded
  <2>6. QED
    BY <2>2, <2>3, <2>4, <2>5
<1>5. Closed'
  BY <1>1, <1>4 DEF Closed
<1>6. \A d \in Directions, t \in Targets : d # way => Whole(d, t)' = Whole(d, t)
  BY <1>1, <1>2, WholeKept
<1>7. Verdict'
  <2>1. at.step \notin Early /\ at'.step \notin Early
    BY <1>2 DEF Early
  <2>2. AllWhole' <=> AllWhole
    BY <1>1, <1>3, <1>6 DEF AllWhole
  <2>3. QED
    BY <1>1, <2>1, <2>2 DEF Verdict
<1>8. QED
  BY <1>5, <1>7

\* The visitor gains the ends of the edges that its expansion's request observed,
\* and no other target does: no expansion of theirs names a new request.
LEMMA VisitJoined ==
    ASSUME AcquisitionInv, Ledger', NEW e, NEW S, Learned(e, S), NEW me, NEW way, way = at.d, Moved(e, S, me, way)
    PROVE  Joined'
<1>1. /\ Trail /\ Joined /\ Targets' = Targets /\ UNCHANGED <<request, res, adm>> /\ Len(records) \in Nat
  BY SameRequest DEF AcquisitionInv, Learned, Control
<1>2. /\ me \in Targets /\ way \in Directions
      /\ \A d \in Directions, t \in Targets : d # way \/ t # me => exps'[d][t] = exps[d][t]
      /\ exps[way][me] \in Seq(Expansions) /\ exps'[way][me] = Append(exps[way][me], e) /\ e \in Expansions
      /\ \A t \in Targets : t # me => members'[t] = members[t]
      /\ members'[me] = IF S = {} THEN members[me] ELSE members[me] \cup S \cup {e.node}
  BY DEF Moved, Learned
<1>3. /\ observed \subseteq observed' /\ \A o \in observed' : o \in observed \/ o[1] = Len(records) + 1
      /\ e.status \in Followed => \A x : <<e.req, x>> \in observed' <=> x \in Links(<<way, e.node>>, S)
      /\ e.status \notin Followed => S = {}
  BY DEF Learned
<1>4. \A o \in observed' : o = <<o[1], o[2]>>
  BY DEF Ledger
<1>5. \A t \in Targets : Own(t)' = Own(t)
  BY <1>1, SameRequest DEF Own, Identity
<1>6. ASSUME NEW t \in Targets, NEW o \in observed', Follows(t, o) PROVE o \in observed
  <2>0. PICK d \in Directions : \E i \in 1 .. Len(exps[d][t]) : exps[d][t][i].req = o[1]
    BY <1>6 DEF Follows
  <2>1. PICK i \in 1 .. Len(exps[d][t]) : exps[d][t][i].req = o[1]
    BY <2>0
  <2>2. Truthful(d, exps[d][t][i])
    BY <1>1, <2>1 DEF Trail
  <2>3. o[1] <= Len(records)
    BY <2>1, <2>2 DEF Truthful
  <2>4. QED
    BY <1>1, <1>3, <2>3
<1>7. ASSUME NEW t \in Targets, t # me PROVE \A n : n \in members'[t] <=>
        n \in Own(t)' \/ \E o \in observed' : Follows(t, o)' /\ (n = o[2][1] \/ n = o[2][2])
  <2>1. ASSUME NEW o PROVE Follows(t, o)' <=> Follows(t, o)
    BY <1>2, <1>7 DEF Follows
  <2>2. \A n : (\E o \in observed' : Follows(t, o)' /\ (n = o[2][1] \/ n = o[2][2]))
               <=> \E o \in observed : Follows(t, o) /\ (n = o[2][1] \/ n = o[2][2])
    <3>1. ASSUME NEW n, NEW o \in observed', Follows(t, o)', n = o[2][1] \/ n = o[2][2]
          PROVE  \E p \in observed : Follows(t, p) /\ (n = p[2][1] \/ n = p[2][2])
      <4>1. Follows(t, o)
        BY <2>1, <3>1
      <4>2. o \in observed
        BY <1>6, <3>1, <4>1
      <4>3. QED
        BY <3>1, <4>1, <4>2
    <3>2. ASSUME NEW n, NEW o \in observed, Follows(t, o), n = o[2][1] \/ n = o[2][2]
          PROVE  \E p \in observed' : Follows(t, p)' /\ (n = p[2][1] \/ n = p[2][2])
      <4>1. Follows(t, o)'
        BY <2>1, <3>2
      <4>2. QED
        BY <1>3, <3>2, <4>1
    <3>3. QED
      BY <3>1, <3>2, Zenon
  <2>3. \A n : n \in members[t] <=> n \in Own(t) \/ \E o \in observed : Follows(t, o) /\ (n = o[2][1] \/ n = o[2][2])
    BY <1>1, <1>7, Zenon DEF Joined
  <2>4. members'[t] = members[t] /\ Own(t)' = Own(t)
    BY <1>2, <1>5, <1>7
  <2>5. QED
    BY <2>2, <2>3, <2>4, Zenon
<1>8. ASSUME NEW o PROVE Follows(me, o)' <=> Follows(me, o) \/ (e.req = o[1] /\ e.status \in Followed)
  <2>1. /\ Len(exps'[way][me]) = Len(exps[way][me]) + 1 /\ Len(exps[way][me]) \in Nat
        /\ exps'[way][me][Len(exps[way][me]) + 1] = e
        /\ \A i \in 1 .. Len(exps[way][me]) : exps'[way][me][i] = exps[way][me][i]
    BY <1>2, Appended
  <2>2. ASSUME Follows(me, o) PROVE Follows(me, o)'
    <3>0. PICK d \in Directions : \E i \in 1 .. Len(exps[d][me]) :
             exps[d][me][i].req = o[1] /\ exps[d][me][i].status \in Followed
      BY <2>2 DEF Follows
    <3>1. PICK i \in 1 .. Len(exps[d][me]) : exps[d][me][i].req = o[1] /\ exps[d][me][i].status \in Followed
      BY <3>0
    <3>2. i \in 1 .. Len(exps'[d][me]) /\ exps'[d][me][i] = exps[d][me][i]
      <4>1. CASE d = way
        BY <2>1, <3>1, <4>1
      <4>2. CASE d # way
        BY <1>2, <3>1, <4>2
      <4>3. QED
        BY <4>1, <4>2
    <3>3. QED
      BY <3>1, <3>2 DEF Follows
  <2>3. ASSUME e.req = o[1], e.status \in Followed PROVE Follows(me, o)'
    <3>1. Len(exps[way][me]) + 1 \in 1 .. Len(exps'[way][me])
      BY <2>1
    <3>2. QED
      BY <1>2, <2>1, <2>3, <3>1 DEF Follows
  <2>4. ASSUME Follows(me, o)', ~(e.req = o[1] /\ e.status \in Followed) PROVE Follows(me, o)
    <3>0. PICK d \in Directions : \E i \in 1 .. Len(exps'[d][me]) :
             exps'[d][me][i].req = o[1] /\ exps'[d][me][i].status \in Followed
      BY <2>4 DEF Follows
    <3>1. PICK i \in 1 .. Len(exps'[d][me]) : exps'[d][me][i].req = o[1] /\ exps'[d][me][i].status \in Followed
      BY <3>0
    <3>2. i \in 1 .. Len(exps[d][me]) /\ exps'[d][me][i] = exps[d][me][i]
      <4>1. CASE d # way
        BY <1>2, <3>1, <4>1
      <4>2. CASE d = way
        <5>1. i # Len(exps[way][me]) + 1
          BY <2>1, <2>4, <3>1, <4>2
        <5>2. i \in 1 .. Len(exps[way][me])
          BY <2>1, <3>1, <4>2, <5>1
        <5>3. QED
          BY <2>1, <4>2, <5>2
      <4>3. QED
        BY <4>1, <4>2
    <3>3. QED
      BY <3>1, <3>2 DEF Follows
  <2>5. QED
    BY <2>2, <2>3, <2>4
<1>9. ASSUME NEW n PROVE n \in members'[me] <=>
        n \in Own(me)' \/ \E o \in observed' : Follows(me, o)' /\ (n = o[2][1] \/ n = o[2][2])
  <2>1. n \in members[me] <=> n \in Own(me) \/ \E o \in observed : Follows(me, o) /\ (n = o[2][1] \/ n = o[2][2])
    BY <1>1, <1>2 DEF Joined
  <2>2. (\E o \in observed' : Follows(me, o) /\ (n = o[2][1] \/ n = o[2][2]))
        <=> \E o \in observed : Follows(me, o) /\ (n = o[2][1] \/ n = o[2][2])
    BY <1>2, <1>3, <1>6
  <2>3. (\E o \in observed' : (e.req = o[1] /\ e.status \in Followed) /\ (n = o[2][1] \/ n = o[2][2]))
        <=> S # {} /\ (n \in S \/ n = e.node)
    <3>1. ASSUME NEW o \in observed', e.req = o[1], e.status \in Followed, n = o[2][1] \/ n = o[2][2]
          PROVE  S # {} /\ (n \in S \/ n = e.node)
      <4>1. o[2] \in Links(<<way, e.node>>, S)
        BY <1>3, <1>4, <3>1
      <4>2. PICK m \in S : o[2] = <<e.node, m>> \/ o[2] = <<m, e.node>>
        BY <4>1 DEF Links
      <4>3. QED
        BY <3>1, <4>2
    <3>2. ASSUME NEW m \in S
          PROVE  \E o \in observed' : /\ e.req = o[1] /\ e.status \in Followed
                                      /\ {o[2][1], o[2][2]} = {m, e.node}
      <4>1. e.status \in Followed
        BY <1>3, <3>2
      <4>2. PICK x : x \in Links(<<way, e.node>>, S) /\ (x = <<e.node, m>> \/ x = <<m, e.node>>)
        BY <3>2 DEF Links
      <4>3. <<e.req, x>> \in observed'
        BY <1>3, <4>1, <4>2
      <4>4. <<e.req, x>>[1] = e.req /\ {x[1], x[2]} = {m, e.node} /\ <<e.req, x>>[2] = x
        BY <4>2
      <4>5. QED
        BY <4>1, <4>3, <4>4
    <3>3. ASSUME S # {}, n \in S \/ n = e.node
          PROVE  \E o \in observed' : (e.req = o[1] /\ e.status \in Followed) /\ (n = o[2][1] \/ n = o[2][2])
      <4>1. PICK m \in S : n = m \/ n = e.node
        BY <3>3
      <4>2. PICK o \in observed' : /\ e.req = o[1] /\ e.status \in Followed
                                   /\ {o[2][1], o[2][2]} = {m, e.node}
        BY <3>2
      <4>3. n \in {o[2][1], o[2][2]}
        BY <4>1, <4>2
      <4>4. QED
        BY <4>2, <4>3
    <3>4. QED
      BY <3>1, <3>3
  <2>4. n \in members'[me] <=> n \in members[me] \/ (S # {} /\ (n \in S \/ n = e.node))
    BY <1>2
  <2>5. Own(me)' = Own(me)
    BY <1>2, <1>5
  <2>6. QED
    BY <1>8, <2>1, <2>2, <2>3, <2>4, <2>5
<1>10. QED
  BY <1>1, <1>7, <1>9 DEF Joined

\* So a visit that learns truly keeps the invariant.
LEMMA VisitStep ==
    ASSUME AcquisitionInv, Waiting, NEW e, NEW S, Extends(e, S), Learned(e, S), Ledger', Budget',
           ctx' \in {"open", "over"}, usage' \in Usages, records' \in Seq(Retained)
    PROVE  AcquisitionInv'
<1>1. PICK me : me = Turn
  OBVIOUS
<1>2. PICK way : way = at.d
  OBVIOUS
<1>3. Moved(e, S, me, way) /\ at.step = "visit"
  BY <1>1, <1>2, VisitFacts DEF Waiting
<1>4. Trail' /\ Walks' /\ Closed' /\ Verdict' /\ Lap' /\ Joined'
  BY <1>1, <1>2, <1>3, VisitTrail, VisitWalks, VisitVerdict, VisitLap, VisitJoined
<1>5. /\ Control /\ Resolved /\ UNCHANGED <<run, request, res, adm, complete, saved>>
      /\ nodes \subseteq nodes' /\ S \subseteq nodes'
  BY DEF AcquisitionInv, Learned
<1>6. /\ at' \in Places /\ at'.step = "visit" /\ at'.d = at.d /\ me \in Targets /\ e.node \in nodes
      /\ members'[me] = IF S = {} THEN members[me] ELSE members[me] \cup S \cup {e.node}
      /\ \A t \in Targets : t # me => members'[t] = members[t]
  BY <1>2, <1>3 DEF Moved
<1>7. Control'
  BY <1>3, <1>5, <1>6, SameRequest DEF Control, Calls
<1>8. members' \in [Targets -> SUBSET nodes']
  <2>1. members' = [t \in Targets |-> members'[t]]
    BY <1>5 DEF Resolved, Extends
  <2>2. \A t \in Targets : members'[t] \subseteq nodes'
    BY <1>5, <1>6 DEF Resolved
  <2>3. QED
    BY <2>1, <2>2
<1>9. Resolved'
  <2>1. \A t \in Targets : Identity(t)' = Identity(t)
    BY <1>5, SameRequest DEF Identity
  <2>2. QED
    BY <1>5, <1>6, <1>8, <2>1, SameRequest DEF Resolved, Early
<1>10. QED
  BY <1>4, <1>7, <1>9 DEF AcquisitionInv

-----------------------------------------------------------------------------
(* The three ways a visit ends *)

\* Visit is an extension by an expansion with the outcome's parts.
LEMMA VisitExtends ==
    ASSUME NEW status, NEW reason, NEW req, NEW hit, NEW S,
           Visit(Turn, NextIn(Turn), Outcome(status, reason, req, hit), S),
           NEW e, e = [node |-> NextIn(Turn), depth |-> DepthOf(Turn, NextIn(Turn)), status |-> status,
                       reason |-> reason, req |-> req, cached |-> hit]
    PROVE  Extends(e, S)
<1>1. Expansion(NextIn(Turn), DepthOf(Turn, NextIn(Turn)), Outcome(status, reason, req, hit)) = e
  BY DEF Outcome, Expansion
<1>2. e.node = NextIn(Turn) /\ e.depth = DepthOf(Turn, NextIn(Turn))
  OBVIOUS
<1>3. {m \in S : ~\E x \in depth[Turn] : x[1] = m} = New(S)
  BY DEF New
<1>4. QED
  BY <1>1, <1>2, <1>3 DEF Visit, Extends

\* The node a visit expands is admitted and known.
LEMMA VisitorFits ==
    ASSUME AcquisitionInv, Waiting, NEW status \in QueryStatuses \cup {"FRONTIER"}, NEW reason \in Reasons, NEW req \in Nat,
           NEW hit \in BOOLEAN,
           NEW e, e = [node |-> NextIn(Turn), depth |-> DepthOf(Turn, NextIn(Turn)), status |-> status,
                       reason |-> reason, req |-> req, cached |-> hit]
    PROVE  e \in Expansions /\ e.node \in nodes /\ e.node \in Nodes /\ at.d \in Directions
<1>1. Control /\ Budget /\ Walks /\ at.step = "visit" /\ nodes \subseteq Nodes /\ at.d \in Directions
  BY DEF AcquisitionInv, Waiting, Budget, Control, Places
<1>2. Turn \in Targets /\ queue[Turn] # {}
  BY <1>1, TurnFacts
<1>3. NextIn(Turn) \in nodes /\ DepthOf(Turn, NextIn(Turn)) \in Nat
  BY <1>1, <1>2, NextDepth
<1>4. QED
  BY <1>1, <1>3 DEF Expansions

\* A visit at the depth limit preserves the invariant.
LEMMA FrontierStep == ASSUME AcquisitionInv, VisitFrontier PROVE AcquisitionInv'
<1> USE DEF evidence, graph
<1>1. PICK e : e = [node |-> NextIn(Turn), depth |-> DepthOf(Turn, NextIn(Turn)), status |-> "FRONTIER",
                    reason |-> "", req |-> 0, cached |-> FALSE]
  OBVIOUS
<1>2. /\ Waiting /\ Visit(Turn, NextIn(Turn), Outcome("FRONTIER", "", 0, FALSE), {})
      /\ UNCHANGED <<run, request, ctx, usage, records, res, adm, nodes, edges, observed, queries, starts, complete, saved>>
  BY DEF VisitFrontier
<1>3. Extends(e, {})
  BY <1>1, <1>2, VisitExtends
<1>4. e \in Expansions
  BY <1>1, <1>2, VisitorFits DEF Reasons
<1>5. Control /\ Ledger /\ Budget /\ Len(records) \in Nat
  BY DEF AcquisitionInv, Control
<1>6. Learned(e, {})
  <2>1. e.status = "FRONTIER" /\ e.req = 0
    BY <1>1
  <2>2. e.status \notin Followed \cup Successful
    BY <2>1 DEF Followed, Successful
  <2>3. Len(records) \in Nat /\ Len(records') = Len(records)
    BY <1>2, <1>5
  <2>4. e.req <= Len(records') /\ Len(records') \in Nat /\ Len(records) <= Len(records')
    BY <2>1, <2>3
  <2>5. QED
    BY <1>2, <1>4, <2>2, <2>4 DEF Learned
<1>7. Ledger' /\ Budget'
  BY <1>2, <1>5, LedgerGrows, SameRequest DEF Control, Budget
<1>8. QED
  BY <1>2, <1>3, <1>5, <1>6, <1>7, VisitStep, SameRequest DEF Control

\* A cached query that has neighbours is one a walk goes on from.
LEMMA EntryFacts ==
    ASSUME Control, Ledger, NEW k \in DOMAIN queries, NEW q, q = queries[k]
    PROVE  /\ q.status \in QueryStatuses /\ q.reason \in Reasons /\ q.neighbours \subseteq nodes
           /\ q.req \in Nat /\ q.req <= Len(records) /\ Len(records) \in Nat
           /\ q.neighbours # {} => q.status \in Followed
           /\ \A x : <<q.req, x>> \in observed <=> x \in Links(k, q.neighbours)
<1>1. queries[k] \in Entries /\ Len(records) \in Nat
  BY DEF Ledger, Control
<1>2. /\ q.req \in 1 .. Len(records)
      /\ q.status = QueryStatus(records[q.req], q.neighbours)
      /\ q.neighbours # {} => records[q.req].outcome = "SUCCESS"
      /\ \A x : <<q.req, x>> \in observed <=> x \in Links(k, q.neighbours)
  BY Zenon DEF Ledger
<1>3. q.neighbours # {} => q.status \in Followed
  <2>1. SUFFICES ASSUME q.neighbours # {} PROVE QueryStatus(records[q.req], q.neighbours) \in Followed
    BY <1>2
  <2>2. records[q.req].outcome = "SUCCESS"
    BY <1>2, <2>1
  <2>3. QED
    BY <2>1, <2>2 DEF QueryStatus, Followed
<1>4. QED
  BY <1>1, <1>2, <1>3 DEF Entries

\* A visit the query cache answers preserves the invariant.
LEMMA CachedStep == ASSUME AcquisitionInv, VisitCached PROVE AcquisitionInv'
<1> USE DEF evidence, graph
<1>1. /\ Waiting /\ Cached(NextIn(Turn))
      /\ UNCHANGED <<run, request, usage, records, res, adm, nodes, edges, observed, queries, starts, complete, saved>>
      /\ ctx' \in {"open", "over"}
  BY DEF VisitCached
<1>2. Control /\ Ledger /\ Budget /\ Len(records) \in Nat
  BY DEF AcquisitionInv, Control
<1>3. PICK k \in DOMAIN queries : k = <<at.d, NextIn(Turn)>>
  BY <1>1 DEF Cached
<1>4. PICK q : q = queries[k]
  OBVIOUS
<1>5. /\ q.status \in QueryStatuses /\ q.reason \in Reasons /\ q.neighbours \subseteq nodes
      /\ q.req \in Nat /\ q.req <= Len(records)
      /\ q.neighbours # {} => q.status \in Followed
      /\ \A x : <<q.req, x>> \in observed <=> x \in Links(k, q.neighbours)
  BY <1>2, <1>4, EntryFacts
<1>6. Ledger' /\ Budget' /\ usage' \in Usages /\ records' \in Seq(Retained)
  BY <1>1, <1>2, LedgerGrows, SameRequest DEF Control, Budget
<1>7. CASE Visit(Turn, NextIn(Turn), Outcome("BUDGET_BLOCKED", "CANCELLED", q.req, TRUE), {})
  <2>1. PICK e : e = [node |-> NextIn(Turn), depth |-> DepthOf(Turn, NextIn(Turn)), status |-> "BUDGET_BLOCKED",
                      reason |-> "CANCELLED", req |-> q.req, cached |-> TRUE]
    OBVIOUS
  <2>2. Extends(e, {})
    BY <1>7, <2>1, VisitExtends
  <2>3. e \in Expansions
    BY <1>1, <1>5, <2>1, VisitorFits DEF Reasons, QueryStatuses
  <2>4. Learned(e, {})
    <3>1. e.status = "BUDGET_BLOCKED" /\ e.req = q.req
      BY <2>1
    <3>2. QED
      BY <1>1, <1>2, <1>5, <2>3, <3>1 DEF Learned, Followed, Successful
  <2>5. QED
    BY <1>1, <1>6, <2>2, <2>4, VisitStep
<1>8. CASE Visit(Turn, NextIn(Turn), Outcome(q.status, q.reason, q.req, TRUE), q.neighbours)
  <2>1. PICK e : e = [node |-> NextIn(Turn), depth |-> DepthOf(Turn, NextIn(Turn)), status |-> q.status,
                      reason |-> q.reason, req |-> q.req, cached |-> TRUE]
    OBVIOUS
  <2>2. Extends(e, q.neighbours)
    BY <1>8, <2>1, VisitExtends
  <2>3. e \in Expansions
    BY <1>1, <1>5, <2>1, VisitorFits
  <2>4. Learned(e, q.neighbours)
    <3>1. e.status = q.status /\ e.req = q.req /\ <<at.d, e.node>> = k
      BY <1>3, <2>1
    <3>2. q.neighbours = IF e.status \in Followed THEN queries[<<at.d, e.node>>].neighbours ELSE {}
      BY <1>4, <1>5, <3>1
    <3>3. QED
      BY <1>1, <1>2, <1>3, <1>4, <1>5, <2>3, <3>1, <3>2 DEF Learned
  <2>5. QED
    BY <1>1, <1>6, <2>2, <2>4, VisitStep
<1>9. QED
  BY <1>3, <1>4, <1>7, <1>8 DEF VisitCached

\* Neighbours are admitted in order while slots last, so the last one of them
\* that is new found fewer than MaxNodes before it.
LEMMA FittingFits ==
    ASSUME Control, Budget, NEW S, S \subseteq Nodes, NEW kept, kept = Fitting(S)
    PROVE  kept \subseteq S /\ Cardinality(nodes \cup kept) <= MaxNodes
<1>1. /\ Nodes \subseteq Nat /\ IsFiniteSet(Nodes) /\ MaxNodes \in Nat
      /\ nodes \subseteq Nodes /\ Cardinality(nodes) <= MaxNodes /\ kept \subseteq S
      /\ \A n \in kept : n \in nodes \/ Cardinality(nodes \cup {m \in S : m < n}) < MaxNodes
  BY RequestFacts DEF Control, Budget, Fitting
<1>2. PICK new : new = kept \ nodes
  OBVIOUS
<1>3. new \subseteq Nat /\ new \subseteq Nodes /\ nodes \cup kept \subseteq Nodes /\ nodes \cup kept = nodes \cup new
  BY <1>1, <1>2
<1>4. CASE new = {}
  <2>1. nodes \cup kept = nodes
    BY <1>3, <1>4
  <2>2. QED
    BY <1>1, <2>1
<1>5. CASE new # {}
  <2>1. IsFiniteSet(new)
    BY <1>1, <1>3, FS_Subset
  <2>2. PICK n \in new : \A y \in new : y <= n
    BY <1>3, <1>5, <2>1, GreatestOfFinite
  <2>3. PICK before : before = nodes \cup {m \in S : m < n}
    OBVIOUS
  <2>4. n \in kept /\ n \notin nodes /\ n \notin before /\ Cardinality(before) < MaxNodes
    <3>1. n \in kept /\ n \notin nodes /\ n \in Nat
      BY <1>2, <1>3
    <3>2. QED
      BY <1>1, <2>3, <3>1
  <2>5. nodes \cup kept \subseteq before \cup {n}
    <3>1. \A y \in new : y = n \/ y < n
      BY <1>3, <2>2
    <3>2. QED
      BY <1>1, <1>2, <2>3, <3>1
  <2>6. before \subseteq Nodes
    BY <1>1, <2>3
  <2>7. IsFiniteSet(before) /\ Cardinality(before) \in Nat
    BY <1>1, <2>6, FS_Subset, FS_CardinalityType
  <2>8. IsFiniteSet(before \cup {n}) /\ Cardinality(before \cup {n}) = Cardinality(before) + 1
    BY <2>4, <2>7, FS_AddElement
  <2>9. Cardinality(nodes \cup kept) <= Cardinality(before \cup {n}) /\ Cardinality(nodes \cup kept) \in Nat
    BY <1>1, <1>3, <2>5, <2>8, FS_Subset, FS_CardinalityType
  <2>10. QED
    BY <1>1, <2>4, <2>7, <2>8, <2>9
<1>6. QED
  BY <1>1, <1>4, <1>5

\* A query of n that rec answered: its cache entry q, its observations and the record.
Queried(way, n, rec, kept, q) ==
    /\ way \in Directions /\ n \in nodes /\ <<way, n>> \notin DOMAIN queries
    /\ rec.call[2] = way /\ rec.call[3] = n
    /\ kept \subseteq nodes' /\ nodes \subseteq nodes' /\ (kept # {} => rec.outcome = "SUCCESS")
    /\ q.req = Len(records) + 1 /\ q.neighbours = kept /\ q.status = QueryStatus(rec, kept) /\ q \in Entries'
    /\ Len(records') = Len(records) + 1 /\ records'[Len(records) + 1] = rec
    /\ \A i \in 1 .. Len(records) : records'[i] = records[i]
    /\ edges' = edges \cup Links(<<way, n>>, kept)
    /\ observed' = observed \cup ({Len(records) + 1} \X Links(<<way, n>>, kept))
    /\ queries' = [k \in DOMAIN queries \cup {<<way, n>>} |-> IF k = <<way, n>> THEN q ELSE queries[k]]

\* They are kept together, so the cache's account stays true.
LEMMA LedgerQuery ==
    ASSUME Ledger, records \in Seq(Retained), NEW way, NEW n, NEW rec, NEW kept, NEW q, Queried(way, n, rec, kept, q)
    PROVE  Ledger'
<1> USE DEF Queried
<1> DEFINE last == Len(records) + 1
           L == Links(<<way, n>>, kept)
<1>1. /\ Len(records) \in Nat /\ Len(records') = last /\ last \in 1 .. last
      /\ \A i \in 1 .. Len(records) : i \in 1 .. last /\ i # last
      /\ \A i \in 1 .. last : i \in 1 .. Len(records) \/ i = last
  OBVIOUS
<1>2. L \subseteq nodes' \X nodes'
  BY DEF Links
<1>3. /\ edges \subseteq nodes \X nodes /\ edges = {o[2] : o \in observed}
      /\ observed \subseteq (1 .. Len(records)) \X (nodes \X nodes)
      /\ DOMAIN queries \subseteq Directions \X nodes /\ queries \in [DOMAIN queries -> Entries]
  BY DEF Ledger
<1> HIDE DEF L, last
<1>4. edges' = edges \cup L /\ observed' = observed \cup ({last} \X L) /\ records'[last] = rec
  BY DEF L, last
<1>5. edges' \subseteq nodes' \X nodes'
  BY <1>2, <1>3, <1>4
<1>6. edges' = {o[2] : o \in observed'}
  <2>1. \A x \in L : <<last, x>> \in observed' /\ <<last, x>>[2] = x
    BY <1>4
  <2>2. \A o \in {last} \X L : o[2] \in L
    OBVIOUS
  <2>3. ASSUME NEW x \in edges' PROVE \E o \in observed' : x = o[2]
    <3>1. CASE x \in edges
      BY <1>3, <1>4, <3>1
    <3>2. CASE x \in L
      BY <2>1, <3>2
    <3>3. QED
      BY <1>4, <2>3, <3>1, <3>2
  <2>4. ASSUME NEW o \in observed' PROVE o[2] \in edges'
    BY <1>3, <1>4, <2>2, <2>4
  <2>5. QED
    BY <2>3, <2>4
<1>7. observed' \subseteq (1 .. Len(records')) \X (nodes' \X nodes')
  <2>1. observed \subseteq (1 .. last) \X (nodes' \X nodes')
    <3>1. 1 .. Len(records) \subseteq 1 .. last /\ nodes \X nodes \subseteq nodes' \X nodes'
      BY <1>1
    <3>2. QED
      BY <1>3, <3>1
  <2>2. {last} \X L \subseteq (1 .. last) \X (nodes' \X nodes')
    BY <1>1, <1>2
  <2>3. QED
    BY <1>1, <1>4, <2>1, <2>2
<1>8. DOMAIN queries' = DOMAIN queries \cup {<<way, n>>} /\ DOMAIN queries' \subseteq Directions \X nodes'
  BY <1>3
<1>9. queries'[<<way, n>>] = q /\ \A k \in DOMAIN queries : queries'[k] = queries[k] /\ k # <<way, n>>
  OBVIOUS
<1>10. queries' \in [DOMAIN queries' -> Entries']
  <2>1. Entries \subseteq Entries'
    BY DEF Entries
  <2>2. QED
    BY <1>3, <1>8, <1>9, <2>1
<1>11. ASSUME NEW i \in 1 .. Len(records'), records'[i].call[2] \in Directions
       PROVE  /\ <<records'[i].call[2], records'[i].call[3]>> \in DOMAIN queries'
              /\ queries'[<<records'[i].call[2], records'[i].call[3]>>].req = i
  <2>1. CASE i \in 1 .. Len(records)
    BY <1>8, <1>9, <1>11, <2>1 DEF Ledger
  <2>2. CASE i = last
    BY <1>4, <1>8, <1>9, <2>2 DEF last
  <2>3. QED
    BY <1>1, <1>11, <2>1, <2>2
<1>12. ASSUME NEW k \in DOMAIN queries'
       PROVE  LET p == queries'[k] IN
               /\ p.req \in 1 .. Len(records')
               /\ records'[p.req].call[2] = k[1] /\ records'[p.req].call[3] = k[2]
               /\ p.status = QueryStatus(records'[p.req], p.neighbours)
               /\ p.neighbours # {} => records'[p.req].outcome = "SUCCESS"
               /\ \A e : <<p.req, e>> \in observed' <=> e \in Links(k, p.neighbours)
  <2>1. CASE k \in DOMAIN queries
    <3>1. queries'[k] = queries[k]
      BY <1>9, <2>1
    <3>2. /\ queries[k].req \in 1 .. Len(records)
          /\ records[queries[k].req].call[2] = k[1] /\ records[queries[k].req].call[3] = k[2]
          /\ queries[k].status = QueryStatus(records[queries[k].req], queries[k].neighbours)
          /\ queries[k].neighbours # {} => records[queries[k].req].outcome = "SUCCESS"
          /\ \A e : <<queries[k].req, e>> \in observed <=> e \in Links(k, queries[k].neighbours)
      BY <2>1, Zenon DEF Ledger
    <3>3. /\ records'[queries[k].req] = records[queries[k].req] /\ queries[k].req \in 1 .. Len(records')
          /\ queries[k].req # last
      BY <1>1, <3>2
    <3>4. \A e : <<queries[k].req, e>> \in observed' <=> <<queries[k].req, e>> \in observed
      BY <1>4, <3>3
    <3>5. QED
      BY <3>1, <3>2, <3>3, <3>4
  <2>2. CASE k = <<way, n>>
    <3>1. queries'[k] = q /\ q.req = last /\ k[1] = way /\ k[2] = n
      BY <1>9, <2>2 DEF last
    <3>2. \A e : <<last, e>> \in observed' <=> e \in L
      <4>1. \A e : <<last, e>> \notin observed
        BY <1>1, <1>3
      <4>2. QED
        BY <1>4, <4>1
    <3>3. L = Links(k, q.neighbours)
      BY <2>2 DEF L
    <3>4. QED
      BY <1>1, <1>4, <3>1, <3>2, <3>3
  <2>3. QED
    BY <1>8, <2>1, <2>2
<1>13. QED
  BY <1>5, <1>6, <1>7, <1>8, <1>10, <1>11, <1>12 DEF Ledger

\* A visit that asks the server preserves the invariant.
LEMMA QueryStep == ASSUME AcquisitionInv, VisitQuery PROVE AcquisitionInv'
<1>1. /\ Waiting /\ ~Cached(NextIn(Turn))
      /\ UNCHANGED <<run, request, res, adm, candidates, starts, complete, saved>>
  BY DEF VisitQuery
<1>2. Control /\ Budget /\ Resolved /\ Ledger /\ Walks /\ records \in Seq(Retained) /\ Len(records) \in Nat /\ at.step = "visit"
      /\ at.d \in Directions
  BY <1>1 DEF AcquisitionInv, Control, Waiting, Places
<1>3. PICK n, way : n = NextIn(Turn) /\ way = at.d
  OBVIOUS
<1>4. PICK rec \in Invoked :
        LET kept == IF rec.outcome = "SUCCESS" THEN Fitting(rec.answer.items) ELSE {}
            req == Len(records) + 1
            status == QueryStatus(rec, kept)
        IN  /\ Keep(rec) /\ Context(rec)
            /\ nodes' = nodes \cup kept
            /\ edges' = edges \cup {Edge(NextIn(Turn), m) : m \in kept}
            /\ observed' = observed \cup ({req} \X {Edge(NextIn(Turn), m) : m \in kept})
            /\ Remember(NextIn(Turn), [status |-> status, reason |-> rec.reason, req |-> req, neighbours |-> kept])
            /\ Visit(Turn, NextIn(Turn), Outcome(status, rec.reason, req, FALSE), kept)
  BY DEF VisitQuery
<1>5. PICK kept : kept = IF rec.outcome = "SUCCESS" THEN Fitting(rec.answer.items) ELSE {}
  OBVIOUS
<1>6. PICK status : status = QueryStatus(rec, kept)
  OBVIOUS
<1>7. PICK q : q = [status |-> status, reason |-> rec.reason, req |-> Len(records) + 1, neighbours |-> kept]
  OBVIOUS
<1>8. /\ Keep(rec) /\ Context(rec)
      /\ nodes' = nodes \cup kept
      /\ edges' = edges \cup {Edge(n, m) : m \in kept}
      /\ observed' = observed \cup ({Len(records) + 1} \X {Edge(n, m) : m \in kept})
      /\ Remember(n, q)
      /\ Visit(Turn, NextIn(Turn), Outcome(status, rec.reason, Len(records) + 1, FALSE), kept)
  BY <1>3, <1>4, <1>5, <1>6, <1>7
<1>9. Due(rec) /\ rec \in Retained /\ rec.call = <<Turn, way, n>> /\ rec.reason \in Reasons
  <2>1. Due(rec)
    BY <1>1, <1>2, InvokedFits
  <2>2. Call = <<Turn, way, n>>
    BY <1>1, <1>2, <1>3, CallFits
  <2>3. QED
    BY <2>1, <2>2 DEF Due, Retained
<1>10. kept \subseteq Nodes /\ Cardinality(nodes \cup kept) <= MaxNodes /\ (kept # {} => rec.outcome = "SUCCESS")
  <2>1. CASE rec.outcome = "SUCCESS"
    <3>1. rec.answer.items \subseteq Nodes
      BY <1>2, <1>3, <1>9, <2>1 DEF Retained, Suits
    <3>2. kept = Fitting(rec.answer.items)
      BY <1>5, <2>1
    <3>3. kept \subseteq rec.answer.items /\ Cardinality(nodes \cup kept) <= MaxNodes
      BY <1>2, <3>1, <3>2, FittingFits
    <3>4. QED
      BY <2>1, <3>1, <3>3
  <2>2. CASE rec.outcome # "SUCCESS"
    <3>1. kept = {}
      BY <1>5, <2>2
    <3>2. nodes \cup kept = nodes
      BY <3>1
    <3>3. QED
      BY <1>2, <3>1, <3>2 DEF Budget
  <2>3. QED
    BY <2>1, <2>2
<1>11. status \in QueryStatuses
  BY <1>6 DEF QueryStatus, QueryStatuses
<1>12. /\ records' \in Seq(Retained) /\ Len(records') = Len(records) + 1
       /\ records'[Len(records) + 1] = rec /\ \A i \in 1 .. Len(records) : records'[i] = records[i]
       /\ usage' \in Usages
       /\ usage'.requests <= MaxRequests /\ usage'.probes <= MaxPrepareProbes /\ usage'.bytes <= MaxEvidence
  BY <1>1, <1>2, <1>8, <1>9, KeepFits
<1>13. PICK e : e = [node |-> NextIn(Turn), depth |-> DepthOf(Turn, NextIn(Turn)), status |-> status,
                     reason |-> rec.reason, req |-> Len(records) + 1, cached |-> FALSE]
  OBVIOUS
<1>14. Extends(e, kept)
  BY <1>8, <1>13, VisitExtends
<1>15. e \in Expansions /\ n \in nodes
  <2>1. Len(records) + 1 \in Nat /\ status \in QueryStatuses \cup {"FRONTIER"}
    BY <1>2, <1>11
  <2>2. e \in Expansions /\ e.node \in nodes
    BY <1>1, <1>9, <1>13, <2>1, VisitorFits
  <2>3. QED
    BY <1>3, <1>13, <2>2
<1>16. {Edge(n, m) : m \in kept} = Links(<<way, n>>, kept)
  BY <1>3 DEF Edge, Links
<1>17. nodes \subseteq nodes' /\ kept \subseteq nodes'
  BY <1>8
<1>18. q \in Entries'
  <2>1. Entries' = [status : QueryStatuses, reason : Reasons, req : Nat, neighbours : SUBSET nodes']
    BY DEF Entries
  <2>2. QED
    BY <1>2, <1>7, <1>9, <1>11, <1>17, <2>1
<1>19. queries' = [k \in DOMAIN queries \cup {<<way, n>>} |-> IF k = <<way, n>> THEN q ELSE queries[k]]
  BY <1>3, <1>8 DEF Remember
<1>20. <<way, n>> \notin DOMAIN queries
  BY <1>1, <1>3 DEF Cached
<1>21. edges' = edges \cup Links(<<way, n>>, kept) /\ observed' = observed \cup ({Len(records) + 1} \X Links(<<way, n>>, kept))
  BY <1>8, <1>16
<1>22. Ledger'
  <2>1. rec.call[2] = way /\ rec.call[3] = n
    BY <1>9
  <2>2. q.req = Len(records) + 1 /\ q.neighbours = kept /\ q.status = QueryStatus(rec, kept)
    BY <1>6, <1>7
  <2>3. QED
    <3>1. Queried(way, n, rec, kept, q)
      BY <1>2, <1>3, <1>10, <1>12, <1>15, <1>17, <1>18, <1>19, <1>20, <1>21, <2>1, <2>2 DEF Queried
    <3>2. QED
      BY <1>2, <3>1, LedgerQuery
<1>23. Budget'
  BY <1>1, <1>2, <1>8, <1>10, <1>12, SameRequest DEF Budget
<1>24. Learned(e, kept)
  <2>1. e.status = status /\ e.req = Len(records) + 1 /\ <<at.d, e.node>> = <<way, n>>
    BY <1>3, <1>13
  <2>2. queries'[<<way, n>>] = q /\ <<way, n>> \in DOMAIN queries' /\ q.status = status /\ q.req = e.req /\ q.neighbours = kept
    BY <1>7, <1>19, <2>1
  <2>3. \A k \in DOMAIN queries : k \in DOMAIN queries' /\ queries'[k] = queries[k]
    BY <1>19, <1>20
  <2>4. kept # {} => status \in Followed
    BY <1>6, <1>10 DEF QueryStatus, Followed
  <2>5. kept = IF e.status \in Followed THEN queries'[<<at.d, e.node>>].neighbours ELSE {}
    BY <2>1, <2>2, <2>4
  <2>6. observed \subseteq observed' /\ \A o \in observed' : o \in observed \/ o[1] = Len(records) + 1
    BY <1>21
  <2>7. \A x : <<e.req, x>> \in observed' <=> x \in Links(<<at.d, e.node>>, kept)
    <3>1. \A x : <<Len(records) + 1, x>> \notin observed
      BY <1>2 DEF Ledger
    <3>2. QED
      BY <1>21, <2>1, <3>1
  <2>8. Len(records') \in Nat /\ Len(records) <= Len(records') /\ e.req <= Len(records')
    BY <1>2, <1>12, <2>1
  <2>9. QED
    BY <1>1, <1>15, <1>17, <2>1, <2>2, <2>3, <2>5, <2>6, <2>7, <2>8 DEF Learned
<1>25. ctx' \in {"open", "over"} /\ Retained' = Retained
  BY <1>1, <1>2, <1>8, SameRequest DEF Control, Context
<1>26. QED
  BY <1>1, <1>12, <1>14, <1>22, <1>23, <1>24, <1>25, VisitStep

-----------------------------------------------------------------------------
(* A walk ends, a run ends *)

\* EndTraversal preserves the invariant.
LEMMA EndTraversalStep == ASSUME AcquisitionInv, EndTraversal PROVE AcquisitionInv'
<1> USE DEF evidence, graph, walk
<1>1. /\ Control /\ Budget /\ Resolved /\ Ledger /\ Trail /\ Walks /\ Closed /\ Verdict /\ Joined
      /\ at.step = "visit" /\ at.d \in Directions /\ request \in Requests
  BY DEF AcquisitionInv, EndTraversal, Control, Places
<1>2. /\ UNCHANGED <<run, request, ctx, usage, records, res, adm, nodes, edges, observed, candidates, queries, starts,
                     exps, queue, depth, members, saved>>
      /\ \A t \in Targets : queue[t] = {}
      /\ complete' = (complete /\ \A t \in Targets : Whole(at.d, t))
  BY DEF EndTraversal
<1>3. /\ at' \in Places
      /\ at.d = "outgoing" => at'.step = "begin" /\ at'.d = "incoming"
      /\ at.d = "incoming" => at'.step = "finish"
  <2>1. CASE at.d = "outgoing"
    <3>1. at' = [Here("begin", 0) EXCEPT !.d = "incoming"]
      BY <2>1 DEF EndTraversal
    <3>2. at' = [step |-> "begin", t |-> 0, d |-> "incoming", probe |-> 0, width |-> 1, flat |-> FALSE, left |-> 0]
      BY <3>1 DEF Here
    <3>3. QED
      BY <2>1, <3>2 DEF Places, Steps, Directions
  <2>2. CASE at.d = "incoming"
    <3>1. at' = Here("finish", 0)
      BY <2>2 DEF EndTraversal
    <3>2. QED
      BY <2>2, <3>1 DEF Here, Places, Steps, Directions
  <2>3. QED
    BY <1>1, <2>1, <2>2 DEF Directions
<1>4. at'.step \notin Early \cup Calls \cup {"siblings", "peer", "visit"} /\ at.step \notin Early
  BY <1>1, <1>3 DEF Early, Calls, Directions
<1>5. \A d \in Directions : Traversed(d)' <=> Traversed(d) \/ d = at.d
  BY <1>1, <1>3 DEF Traversed, Directions
<1>6. Control'
  BY <1>1, <1>2, <1>3, <1>4, SameRequest DEF Control, Directions
<1>7. Budget'
  BY <1>1, <1>2, SameRequest DEF Budget
<1>8. Resolved'
  <2>1. \A t \in Targets : Identity(t)' = Identity(t)
    BY <1>2, SameRequest DEF Identity
  <2>2. QED
    BY <1>1, <1>2, <1>4, <2>1, SameRequest DEF Resolved
<1>9. Ledger'
  BY <1>1, <1>2, LedgerGrows DEF Control
<1>10. Trail'
  <2>1. \A d \in Directions : Undone(d)' => Undone(d)
    BY <1>1, <1>2, <1>3 DEF Undone, Early, Directions
  <2>2. \A d \in Directions, t \in Targets : Undone(d)' => exps[d][t] = <<>>
    BY <1>1, <2>1 DEF Trail
  <2>3. Len(records) \in Nat /\ records' = records
    BY <1>1, <1>2 DEF Control
  <2>4. QED
    BY <1>1, <1>2, <2>2, <2>3, TrailGrows
<1>11. Walks'
  BY <1>1, <1>2, <1>4, SameRequest DEF Walks
<1>12. ASSUME NEW t \in Targets, NEW i \in 1 .. Len(exps[at.d][t])
       PROVE  Behind(at.d, exps[at.d][t][i]) \subseteq Expanded(at.d, t)
  <2>1. SUFFICES ASSUME NEW n \in Behind(at.d, exps[at.d][t][i]) PROVE n \in Expanded(at.d, t)
    OBVIOUS
  <2> DEFINE B == [j \in 1 .. Len(exps[at.d][t]) |-> Behind(at.d, exps[at.d][t][j])]
  <2>2. Layered(depth[t], queue[t], starts[at.d][t], exps[at.d][t], B)
    BY <1>1 DEF Walks, Walk
  <2>3. n \in B[i]
    BY <1>12, <2>1
  <2> HIDE DEF B
  <2>4. PICK x \in depth[t] : x[1] = n
    BY <1>12, <2>2, <2>3 DEF Layered
  <2>5. \E j \in 1 .. Len(exps[at.d][t]) : exps[at.d][t][j].node = n
    BY <1>2, <2>2, <2>4 DEF Layered
  <2>6. QED
    BY <2>5 DEF Expanded
<1>13. Closed'
  <2>1. ASSUME NEW d \in Directions, Traversed(d) \/ d = at.d, NEW t \in Targets, NEW i \in 1 .. Len(exps[d][t])
        PROVE  Behind(d, exps[d][t][i]) \subseteq Expanded(d, t)
    BY <1>1, <1>12, <2>1 DEF Closed
  <2>2. ASSUME NEW d, NEW t PROVE Expanded(d, t)' = Expanded(d, t)
    BY <1>2 DEF Expanded
  <2>3. ASSUME NEW d, NEW e PROVE Behind(d, e)' = Behind(d, e)
    BY <1>2 DEF Behind
  <2>4. QED
    BY <1>2, <1>5, <2>1, <2>2, <2>3, SameRequest DEF Closed
<1>14. Verdict'
  <2>1. \A d \in Directions, t \in Targets : Whole(d, t)' = Whole(d, t)
    BY <1>2, WholeKept
  <2>2. AllWhole' <=> AllWhole /\ \A t \in Targets : Whole(at.d, t)
    BY <1>1, <1>2, <1>5, <2>1, SameRequest DEF AllWhole
  <2>3. QED
    BY <1>1, <1>2, <1>4, <2>2 DEF Verdict
<1>15. Lap'
  BY <1>4 DEF Lap
<1>16. Joined'
  BY <1>1, <1>2, JoinedKept
<1>17. QED
  BY <1>6, <1>7, <1>8, <1>9, <1>10, <1>11, <1>13, <1>14, <1>15, <1>16 DEF AcquisitionInv

\* The replay begins where the live run began, with its records to go by.
LEMMA StartReplayStep == ASSUME AcquisitionInv, StartReplay PROVE AcquisitionInv'
<1>1. /\ request \in Requests /\ records \in Seq(Retained) /\ UNCHANGED request
      /\ run' = "replay" /\ saved'.records = records
  BY DEF AcquisitionInv, Control, StartReplay, Result
<1>2. Targets' = Targets /\ Locator' = Locator /\ Retained' = Retained /\ NotAdmitted' = NotAdmitted /\ Nothing' = Nothing
  BY <1>1, SameRequest
<1>3. /\ Here(FirstStep(1), 1)' = Here(FirstStep(1), 1) /\ Unresolved' = Unresolved
      /\ NoStarts' = NoStarts /\ NoExpansions' = NoExpansions
  BY <1>1, <1>2 DEF Here, FirstStep, Unresolved, NoStarts, NoExpansions
<1>4. Fresh'
  BY <1>2, <1>3 DEF Fresh, StartReplay
<1>5. Ready'
  BY <1>1, <1>2, <1>4 DEF Ready
<1>6. QED
  BY <1>5, FreshNext

\* Nothing depends on the context, or on whether the replay has ended.
LEMMA IdleStep ==
    ASSUME AcquisitionInv, UNCHANGED <<request, at, evidence, res, adm, graph, walk, complete, saved>>,
           run' \in {"live", "replay", "done"}, run' # "live" => run # "live", ctx' \in {"open", "over"}
    PROVE  AcquisitionInv'
<1> USE DEF evidence, graph, walk
<1>1. /\ Control /\ Budget /\ Resolved /\ Ledger /\ Trail /\ Walks /\ Closed /\ Verdict /\ Lap /\ Joined
      /\ Len(records) \in Nat
  BY DEF AcquisitionInv, Control
<1>2. Control' /\ Budget'
  BY <1>1, SameRequest DEF Control, Budget
<1>3. Resolved'
  <2>1. \A t \in Targets : Identity(t)' = Identity(t)
    BY SameRequest DEF Identity
  <2>2. QED
    BY <1>1, <2>1, SameRequest DEF Resolved
<1>4. Ledger'
  BY <1>1, LedgerGrows DEF Control
<1>5. Trail'
  <2>1. \A d \in Directions : Undone(d)' => Undone(d)
    BY DEF Undone
  <2>2. \A d \in Directions, t \in Targets : Undone(d)' => exps[d][t] = <<>>
    BY <1>1, <2>1 DEF Trail
  <2>3. QED
    BY <1>1, <2>2, TrailGrows
<1>6. Walks'
  <2>1. \A t \in Targets : Walk(t) => Walk(t)'
    BY DEF Walk, Behind
  <2>2. QED
    BY <1>1, <2>1, SameRequest DEF Walks
<1>7. \A d \in Directions : Traversed(d)' <=> Traversed(d)
  BY DEF Traversed
<1>8. Closed'
  BY <1>1, <1>7, ClosedKept
<1>9. Verdict'
  <2>1. \A d \in Directions, t \in Targets : Whole(d, t)' = Whole(d, t)
    BY WholeKept
  <2>2. AllWhole' <=> AllWhole
    BY <1>7, <2>1, SameRequest DEF AllWhole
  <2>3. QED
    BY <1>1, <2>2 DEF Verdict
<1>10. Lap'
  BY <1>1, SameRequest DEF Lap
<1>11. Joined'
  BY <1>1, JoinedKept
<1>12. QED
  BY <1>2, <1>3, <1>4, <1>5, <1>6, <1>8, <1>9, <1>10, <1>11 DEF AcquisitionInv

-----------------------------------------------------------------------------
(* The invariant, and what follows from it *)

\* Every step preserves the invariant.
LEMMA AcquisitionStep == AcquisitionInv /\ [AcquisitionNext]_vars => AcquisitionInv'
<1> SUFFICES ASSUME AcquisitionInv, [AcquisitionNext]_vars PROVE AcquisitionInv'
  OBVIOUS
<1>1. run \in {"live", "replay", "done"} /\ ctx \in {"open", "over"}
  BY DEF AcquisitionInv, Control
<1>2. CASE ResolveSupply \/ ResolveSymbol \/ ResolveProbe
  BY <1>2, SupplyStep, SymbolStep, ProbeStep
<1>3. CASE AdmitTargets \/ SiblingSymbols \/ SiblingProbe
  BY <1>3, AdmitStep, SiblingSymbolsStep, SiblingProbeStep
<1>4. CASE BeginTraversal \/ VisitFrontier \/ VisitCached
  BY <1>4, BeginStep, FrontierStep, CachedStep
<1>5. CASE VisitQuery \/ EndTraversal \/ StartReplay
  BY <1>5, QueryStep, EndTraversalStep, StartReplayStep
<1>6. CASE EndReplay
  BY <1>1, <1>6, IdleStep DEF EndReplay
<1>7. CASE Expire
  BY <1>1, <1>7, IdleStep DEF Expire
<1>8. CASE UNCHANGED vars
  BY <1>1, <1>8, IdleStep DEF vars
<1>9. QED
  BY <1>2, <1>3, <1>4, <1>5, <1>6, <1>7, <1>8 DEF AcquisitionNext, Step, Terminated

\* The inductive invariant of a run and its replay.
THEOREM AcquisitionInvariant == AcquisitionSpec => []AcquisitionInv
<1>1. AcquisitionInit => AcquisitionInv
  <2>1. AcquisitionInit => Ready
    BY DEF AcquisitionInit, Ready, Fresh
  <2>2. QED
    BY <2>1, FreshInv
<1>2. QED
  BY <1>1, AcquisitionStep, PTL DEF AcquisitionSpec

\* The budgets of a request bound all its targets together, and the server is asked
\* at most once about a node and a direction: a record of a query is the cache's.
THEOREM AcquisitionWithinBudget == AcquisitionSpec => []AskedWithinBudget
<1>1. AcquisitionInv => AskedWithinBudget
  <2> SUFFICES ASSUME AcquisitionInv PROVE AskedWithinBudget
    OBVIOUS
  <2>1. Control /\ Budget /\ Resolved /\ Ledger /\ Walks
    BY DEF AcquisitionInv
  <2>2. AcquisitionTypeOK
    BY <2>1 DEF AcquisitionTypeOK, Control, Budget, Resolved, Ledger, Walks
  <2>3. AskedOnce
    <3>1. SUFFICES ASSUME NEW i \in 1 .. Len(records), NEW j \in 1 .. Len(records), records[i].call[2] \in Directions,
                          records[i].call[2] = records[j].call[2], records[i].call[3] = records[j].call[3]
                   PROVE  i = j
      BY DEF AskedOnce
    <3>2. /\ queries[<<records[i].call[2], records[i].call[3]>>].req = i
          /\ queries[<<records[j].call[2], records[j].call[3]>>].req = j
      BY <2>1, <3>1 DEF Ledger
    <3>3. QED
      BY <3>1, <3>2
  <2>4. QED
    BY <2>2, <2>3 DEF AskedWithinBudget
<1>2. QED
  BY <1>1, AcquisitionInvariant, PTL

\* The rotation starves no target: while it has a node to visit no other target is
\* more than one visit ahead.
THEOREM AcquisitionRotates == AcquisitionSpec => []NoTargetStarved
<1>1. AcquisitionInv => NoTargetStarved
  <2> SUFFICES ASSUME AcquisitionInv, at.step = "visit", NEW t \in Targets, NEW u \in Targets, queue[t] # {}
               PROVE  Len(exps[at.d][u]) <= Len(exps[at.d][t]) + 1
    BY DEF NoTargetStarved
  <2>1. at.d \in Directions /\ Trail /\ Lap
    BY DEF AcquisitionInv, Control, Places
  <2>2. Len(exps[at.d][t]) \in Nat /\ Len(exps[at.d][u]) \in Nat
    <3>1. exps[at.d][t] \in Seq(Expansions) /\ exps[at.d][u] \in Seq(Expansions)
      BY <2>1 DEF Trail
    <3>2. QED
      BY <3>1
  <2>3. PICK k \in Nat : /\ Len(exps[at.d][t]) = (IF t <= at.t THEN k + 1 ELSE k)
                         /\ Len(exps[at.d][u]) <= (IF u <= at.t THEN k + 1 ELSE k)
    BY <2>1 DEF Lap
  <2>4. QED
    BY <2>2, <2>3
<1>2. QED
  BY <1>1, AcquisitionInvariant, PTL

\* Each target's layers are the shortest distances from its starts over what its
\* own visits saw, although other targets' visits fill the shared cache.
THEOREM AcquisitionLayers == AcquisitionSpec => []LayersAreDistances
<1>1. AcquisitionInv => LayersAreDistances
  <2> SUFFICES ASSUME AcquisitionInv, at.step = "visit", NEW t \in Targets
               PROVE  LET seen == {exps[at.d][t][i] : i \in 1 .. Len(exps[at.d][t])}
                          behind(e) == IF e.status \in {"SUCCESS_NONEMPTY", "PARTIAL"}
                                       THEN queries[<<at.d, e.node>>].neighbours ELSE {}
                      IN  /\ \A x \in depth[t] :
                                IF x[1] \in starts[at.d][t] THEN x[2] = 0
                                ELSE \E e \in seen : x[2] = e.depth + 1 /\ x[1] \in behind(e)
                          /\ \A e \in seen : \A n \in behind(e) : \E x \in depth[t] : x[1] = n /\ x[2] <= e.depth + 1
    BY DEF LayersAreDistances
  <2> DEFINE E == exps[at.d][t]
             B == [i \in 1 .. Len(exps[at.d][t]) |-> Behind(at.d, exps[at.d][t][i])]
  <2>1. Layered(depth[t], queue[t], starts[at.d][t], E, B)
    BY DEF AcquisitionInv, Walks, Walk
  <2>2. \A i \in 1 .. Len(E) : B[i] = IF E[i].status \in {"SUCCESS_NONEMPTY", "PARTIAL"}
                                      THEN queries[<<at.d, E[i].node>>].neighbours ELSE {}
    BY DEF Behind, Followed
  <2> HIDE DEF B, E
  <2>3. ASSUME NEW x \in depth[t], x[1] \in starts[at.d][t] PROVE x[2] = 0
    <3>1. <<x[1], 0>> \in depth[t] /\ <<x[1], 0>>[1] = x[1]
      BY <2>1, <2>3 DEF Layered
    <3>2. x = <<x[1], 0>>
      BY <2>1, <3>1 DEF Layered
    <3>3. <<x[1], 0>>[2] = 0
      OBVIOUS
    <3>4. QED
      BY <3>2, <3>3
  <2>4. \A x \in depth[t] : x[1] \notin starts[at.d][t] => \E i \in 1 .. Len(E) : x[2] = E[i].depth + 1 /\ x[1] \in B[i]
    BY <2>1 DEF Layered
  <2>5. \A i \in 1 .. Len(E) : \A n \in B[i] : \E x \in depth[t] : x[1] = n /\ x[2] <= E[i].depth + 1
    BY <2>1 DEF Layered
  <2> DEFINE seen == {E[i] : i \in 1 .. Len(E)}
             behind(e) == IF e.status \in {"SUCCESS_NONEMPTY", "PARTIAL"} THEN queries[<<at.d, e.node>>].neighbours ELSE {}
  <2>6. \A i \in 1 .. Len(E) : E[i] \in seen /\ B[i] = behind(E[i])
    BY <2>2
  <2>7. \A e \in seen : \E i \in 1 .. Len(E) : e = E[i]
    OBVIOUS
  <2> HIDE DEF seen, behind
  <2>8. \A x \in depth[t] : IF x[1] \in starts[at.d][t] THEN x[2] = 0
                           ELSE \E e \in seen : x[2] = e.depth + 1 /\ x[1] \in behind(e)
    BY <2>3, <2>4, <2>6
  <2>9. \A e \in seen : \A n \in behind(e) : \E x \in depth[t] : x[1] = n /\ x[2] <= e.depth + 1
    BY <2>5, <2>6, <2>7
  <2>10. QED
    BY <2>8, <2>9, Zenon DEF seen, behind, E
<1>2. QED
  BY <1>1, AcquisitionInvariant, PTL

\* The status of a direction is whole only if every expansion of it succeeded.
LEMMA WholeSucceeds ==
    ASSUME AcquisitionInv, NEW d \in Directions, NEW t \in Targets, Whole(d, t), NEW i \in 1 .. Len(exps[d][t])
    PROVE  exps[d][t][i].status \in Successful
<1> DEFINE S == Statuses(d, t)
<1>1. \A j \in 1 .. Len(exps[d][t]) : exps[d][t][j].status \in QueryStatuses \cup {"FRONTIER"}
  <2>1. exps[d][t] \in Seq(Expansions)
    BY DEF AcquisitionInv, Trail
  <2>2. \A j \in 1 .. Len(exps[d][t]) : exps[d][t][j] \in Expansions
    BY <2>1
  <2>3. QED
    BY <2>2 DEF Expansions
<1>2. S \subseteq QueryStatuses \cup {"FRONTIER"} /\ exps[d][t][i].status \in S
  BY <1>1 DEF Statuses
<1>3. IsFiniteSet(S)
  <2>1. IsFiniteSet({"BUDGET_BLOCKED"} \cup {"UNSUPPORTED"} \cup {"FAILED"} \cup {"PARTIAL"} \cup {"SUCCESS_EMPTY"}
                    \cup {"SUCCESS_NONEMPTY"} \cup {"FRONTIER"})
    BY FS_Singleton, FS_Union
  <2>2. S \subseteq {"BUDGET_BLOCKED"} \cup {"UNSUPPORTED"} \cup {"FAILED"} \cup {"PARTIAL"} \cup {"SUCCESS_EMPTY"}
                    \cup {"SUCCESS_NONEMPTY"} \cup {"FRONTIER"}
    BY <1>2 DEF QueryStatuses
  <2> HIDE DEF S
  <2>3. QED
    BY <2>1, <2>2, FS_Subset
<1>4. Aggregate(d, t) \in Successful \cup {"NOT_APPLICABLE"} /\ S # {}
  BY <1>2 DEF Whole
<1>5. CASE Cardinality(S) = 1
  <2>1. Aggregate(d, t) = CHOOSE s \in S : TRUE
    BY <1>4, <1>5 DEF Aggregate
  <2> HIDE DEF S
  <2>2. PICK s : S = {s}
    BY <1>3, <1>5, FS_Singleton
  <2>3. Aggregate(d, t) = s /\ exps[d][t][i].status = s
    BY <1>2, <2>1, <2>2
  <2>4. QED
    BY <1>2, <1>4, <2>2, <2>3 DEF QueryStatuses, Successful
<1>6. CASE Cardinality(S) # 1
  <2>1. S \subseteq Successful
    BY <1>4, <1>6 DEF Aggregate, Successful
  <2>2. QED
    BY <1>2, <2>1
<1>7. QED
  BY <1>5, <1>6

\* A complete result is closed: each node a target reached was asked about with
\* success, and every neighbour the server named is among the nodes it reached.
THEOREM AcquisitionCloses == AcquisitionSpec => []CompleteIsClosed
<1>1. AcquisitionInv => CompleteIsClosed
  <2> SUFFICES ASSUME AcquisitionInv, at.step = "finish", complete, NEW t \in Targets, NEW d \in Directions,
                      NEW n \in Expanded(d, t)
               PROVE  \E i \in 1 .. Len(records) :
                        /\ records[i].call[2] = d /\ records[i].call[3] = n
                        /\ records[i].outcome = "SUCCESS" /\ records[i].answer.kind = "items"
                        /\ records[i].answer.items \subseteq Expanded(d, t)
    BY DEF CompleteIsClosed
  <2>1. Control /\ Ledger /\ Trail /\ Closed /\ Verdict /\ Traversed(d)
    BY DEF AcquisitionInv, Traversed
  <2>2. Whole(d, t)
    <3>1. at.step \notin Early
      BY DEF Early
    <3>2. QED
      BY <2>1, <3>1 DEF Verdict, AllWhole
  <2>3. PICK i \in 1 .. Len(exps[d][t]) : exps[d][t][i].node = n
    BY DEF Expanded
  <2>4. PICK e : e = exps[d][t][i]
    OBVIOUS
  <2>5. e.status \in Successful /\ e.node = n
    BY <2>2, <2>3, <2>4, WholeSucceeds
  <2>6. PICK k : k = <<d, n>>
    OBVIOUS
  <2>7. k \in DOMAIN queries /\ queries[k].status = e.status
    <3>1. Truthful(d, e)
      BY <2>1, <2>3, <2>4 DEF Trail
    <3>2. QED
      BY <2>5, <2>6, <3>1 DEF Truthful
  <2>8. PICK r : r = queries[k].req
    OBVIOUS
  <2>9. /\ r \in 1 .. Len(records) /\ records[r].call[2] = d /\ records[r].call[3] = n
        /\ e.status = QueryStatus(records[r], queries[k].neighbours)
    <3>1. k[1] = d /\ k[2] = n
      BY <2>6
    <3>2. QED
      BY <2>1, <2>7, <2>8, <3>1 DEF Ledger
  <2>10. records[r] \in Retained
    <3>1. records \in Seq(Retained)
      BY <2>1 DEF Control
    <3>2. QED
      BY <2>9, <3>1
  <2>11. records[r].outcome = "SUCCESS"
    BY <2>5, <2>9, <2>10 DEF QueryStatus, Retained, Outcomes, Successful
  <2>12. records[r].answer.kind \in {"items", "INVALID_ITEM"}
    BY <2>9, <2>10, <2>11 DEF Retained, Suits
  <2>13. /\ records[r].answer.kind # "INVALID_ITEM" /\ queries[k].neighbours = records[r].answer.items
         /\ e.status = IF records[r].answer.items = {} THEN "SUCCESS_EMPTY" ELSE "SUCCESS_NONEMPTY"
    BY <2>5, <2>9, <2>11 DEF QueryStatus, Successful
  <2>14. records[r].answer.items \subseteq Expanded(d, t)
    <3>1. CASE records[r].answer.items = {}
      BY <3>1
    <3>2. CASE records[r].answer.items # {}
      <4>1. Behind(d, e) = records[r].answer.items
        BY <2>5, <2>6, <2>13, <3>2 DEF Behind, Followed
      <4>2. Behind(d, e) \subseteq Expanded(d, t)
        BY <2>1, <2>3, <2>4 DEF Closed
      <4>3. QED
        BY <4>1, <4>2
    <3>3. QED
      BY <3>1, <3>2
  <2>15. QED
    BY <2>9, <2>11, <2>12, <2>13, <2>14
<1>2. QED
  BY <1>1, AcquisitionInvariant, PTL

\* The validator accepts what a run returns: the memberships join with the
\* observations, and without sibling expansion completeness is the validator's own.
THEOREM AcquisitionValidates == AcquisitionSpec => []ValidatorAccepts
<1>1. AcquisitionInv => ValidatorAccepts
  <2> SUFFICES ASSUME AcquisitionInv, at.step = "finish" PROVE ValidatorAccepts
    BY DEF ValidatorAccepts, MembersJoin, CompletenessAgrees
  <2>1. Control /\ Ledger /\ Verdict /\ Joined /\ complete \in BOOLEAN
    BY DEF AcquisitionInv, Control
  <2>2. MembersJoin
    <3>1. edges = {o[2] : o \in observed}
      BY <2>1 DEF Ledger
    <3>2. ASSUME NEW t \in Targets
          PROVE  members[t] =
                   (IF adm[t] = "ADMITTED" THEN {Identity(t)} ELSE {})
                   \cup UNION {{o[2][1], o[2][2]} : o \in {p \in observed : \E d \in Directions :
                           \E i \in 1 .. Len(exps[d][t]) :
                               /\ exps[d][t][i].req = p[1]
                               /\ exps[d][t][i].status \in {"SUCCESS_NONEMPTY", "PARTIAL"}}}
      <4> DEFINE followed == {p \in observed : \E d \in Directions : \E i \in 1 .. Len(exps[d][t]) :
                               /\ exps[d][t][i].req = p[1]
                               /\ exps[d][t][i].status \in {"SUCCESS_NONEMPTY", "PARTIAL"}}
      <4>1. \A p : p \in followed <=> p \in observed /\ Follows(t, p)
        BY DEF Follows, Followed
      <4>2. \A n : n \in members[t] <=> n \in Own(t) \/ \E o \in observed : Follows(t, o) /\ (n = o[2][1] \/ n = o[2][2])
        BY <2>1, <3>2, Zenon DEF Joined
      <4> HIDE DEF followed
      <4>3. \A n : n \in UNION {{o[2][1], o[2][2]} : o \in followed} <=> \E o \in followed : n = o[2][1] \/ n = o[2][2]
        OBVIOUS
      <4>4. members[t] = Own(t) \cup UNION {{o[2][1], o[2][2]} : o \in followed}
        BY <4>1, <4>2, <4>3
      <4>5. QED
        BY <4>4 DEF followed, Own
    <3>3. QED
      BY <3>1, <3>2 DEF MembersJoin
  <2>3. CompletenessAgrees
    <3>1. SUFFICES ASSUME ~request.siblings PROVE complete = ValidatorComplete
      BY DEF CompletenessAgrees
    <3>2. at.step \notin Early /\ \A d \in Directions : Traversed(d)
      BY DEF Early, Traversed
    <3>3. complete <=> AllWhole
      BY <2>1, <3>1, <3>2 DEF Verdict
    <3>4. AllWhole <=> ValidatorComplete
      BY <3>1, <3>2 DEF AllWhole, ValidatorComplete
    <3>5. QED
      BY <2>1, <3>3, <3>4 DEF ValidatorComplete
  <2>4. QED
    BY <2>2, <2>3 DEF ValidatorAccepts
<1>2. QED
  BY <1>1, AcquisitionInvariant, PTL

-----------------------------------------------------------------------------
(* The records of a run, and the replay that reads them *)

\* Why a call at the usage u is refused under the request q while the context
\* lasts, and the record that refusal leaves.
Refusal(q, u, method) ==
    IF u.requests >= q.maxRequests THEN "MAX_REQUESTS"
    ELSE IF u.bytes >= q.maxEvidence THEN "EVIDENCE_BYTES"
    ELSE IF method = "prepare" /\ u.probes >= MaxPrepareProbes THEN "MAX_PREPARE_PROBES"
    ELSE IF u.bytes + 1 >= q.maxEvidence THEN "EVIDENCE_BYTES" ELSE "NO"
Refused(q, u, call) ==
    [call |-> call, before |-> u, outcome |-> "BUDGET_BLOCKED", reason |-> Refusal(q, u, call[2]), answer |-> NoAnswer,
     bytes |-> IF Refusal(q, u, call[2]) = "EVIDENCE_BYTES" /\ u.bytes < q.maxEvidence THEN 1 ELSE 0, attempted |-> FALSE]

\* A record says by itself why it is as it is: the context was over, the budget
\* refused the request, or it was attempted and fitted the room there was.
Sound(q, rec) ==
    IF Cancelling(rec) THEN ~rec.attempted /\ rec.bytes = 0
    ELSE IF Refusal(q, rec.before, rec.call[2]) # "NO" THEN rec = Refused(q, rec.before, rec.call)
    ELSE rec.attempted /\ rec.bytes <= 1 + Smaller(q.maxEvidence - rec.before.bytes - 1, MaxResponse)

\* What a record charges, and the usage before the i-th request of a run.
Charged(u, rec) ==
    [requests |-> u.requests + (IF rec.attempted THEN 1 ELSE 0),
     probes |-> u.probes + (IF rec.attempted /\ rec.call[2] = "prepare" THEN 1 ELSE 0),
     bytes |-> u.bytes + rec.bytes]
UsageBefore(R, u, i) == IF i <= Len(R) THEN R[i].before ELSE u

\* The records R of a run that has used u account for every charge.
Accounts(q, R, u) ==
    /\ UsageBefore(R, u, 1) = NoUsage
    /\ \A i \in 1 .. Len(R) : Sound(q, R[i]) /\ UsageBefore(R, u, i + 1) = Charged(R[i].before, R[i])

\* Inductive, with AcquisitionInv: the records account for the usage, and the
\* replay has kept a prefix of what the live run kept.
ReplayInv ==
    /\ Accounts(request, records, usage)
    /\ run # "live" =>
          /\ Accounts(request, saved.records, saved.usage)
          /\ Len(records) <= Len(saved.records)
          /\ \A i \in 1 .. Len(records) : records[i] = saved.records[i]

\* The replay refuses a retained record only for another request than its own, or
\* for an answer to a request it knows to have come after the cancellation: the
\* usage, the refusal and the size it checks are then the recorded ones, and the
\* charges up to any point are those of the live run (recordReplay.invoke).
ReplayAccounts ==
    run # "live" =>
        /\ \A i \in 1 .. Len(records) : i <= Len(saved.records) /\ records[i] = saved.records[i]
        /\ usage = UsageBefore(saved.records, saved.usage, Len(records) + 1)
        /\ Asking /\ Len(records) < Len(saved.records) =>
              LET rec == saved.records[Len(records) + 1]
              IN  rec.call = Call /\ (ctx = "open" \/ Cancelling(rec)) => Motivated(rec, Call)

\* While the context lasts a refusal depends on the usage alone.
LEMMA RefusalFacts ==
    ASSUME ctx = "open", NEW call
    PROVE  Blocked(call[2]) = Refusal(request, usage, call[2]) /\ BlockedRecord(call) = Refused(request, usage, call)
<1>1. ctx # "over"
  OBVIOUS
<1>2. Blocked(call[2]) = Refusal(request, usage, call[2])
  BY <1>1, Zenon DEF Blocked, Refusal, MaxRequests, MaxEvidence
<1>3. QED
  BY <1>2 DEF BlockedRecord, Refused, Record, MaxEvidence

\* Every record a live request may leave is sound, and says whether the context
\* was over.
LEMMA LiveSound ==
    ASSUME Control, Budget, NEW call, NEW rec \in LiveRecords(call)
    PROVE  /\ rec.before = usage /\ Sound(request, rec)
           /\ ctx = "over" => Cancelling(rec)
           /\ ctx = "open" => rec.reason # "CANCELLED"
<1> DEFINE left == Smaller(MaxEvidence - usage.bytes - 1, MaxResponse)
<1>1. ctx \in {"open", "over"} /\ usage \in Usages /\ MaxEvidence \in Nat /\ MaxResponse \in Nat \ {0}
  BY RequestFacts, AcquisitionConstants DEF Control, Positive
<1>2. CASE ctx = "over"
  <2>1. Blocked(call[2]) = "CANCELLED"
    BY <1>2 DEF Blocked
  <2>2. rec = BlockedRecord(call)
    BY <2>1 DEF LiveRecords
  <2>3. rec = Record(call, "BUDGET_BLOCKED", "CANCELLED", NoAnswer, 0)
    BY <2>1, <2>2 DEF BlockedRecord
  <2>4. QED
    BY <1>2, <2>3 DEF Record, Sound, Cancelling
<1>3. CASE ctx = "open" /\ Blocked(call[2]) # "NO"
  <2>1. rec = BlockedRecord(call)
    BY <1>3 DEF LiveRecords
  <2>2. rec = Refused(request, usage, call) /\ Refusal(request, usage, call[2]) # "NO"
    BY <1>3, <2>1, RefusalFacts
  <2>3. Refusal(request, usage, call[2]) # "CANCELLED"
    BY DEF Refusal
  <2>4. rec.before = usage /\ rec.call = call /\ rec.reason # "CANCELLED"
    BY <2>2, <2>3 DEF Refused
  <2>5. QED
    BY <1>3, <2>2, <2>4 DEF Sound, Cancelling
<1>4. CASE ctx = "open" /\ Blocked(call[2]) = "NO"
  <2>1. usage.bytes + 1 < MaxEvidence /\ Refusal(request, usage, call[2]) = "NO"
    BY <1>4, NotBlocked, RefusalFacts
  <2>2. usage.bytes \in Nat
    BY <1>1 DEF Usages
  <2>3. left \in Nat /\ 2 <= 1 + left /\ 1 <= 1 + left
    BY <1>1, <2>1, <2>2 DEF Smaller
  <2>4. PICK outcome, reason, answer, bytes :
            /\ rec = Record(call, outcome, reason, answer, bytes) /\ outcome # "BUDGET_BLOCKED"
            /\ reason # "CANCELLED" /\ bytes \in {1, 2, 1 + left}
    <3> DEFINE errors == ({"FAILED", "UNSUPPORTED"} \X {"error"}) \cup
                  (IF call[2] = "prepare" THEN {<<"FAILED", "identifier not found">>} ELSE {})
               raised == {e \in errors : (IF e[2] = "error" THEN e[1] ELSE "IDENTIFIER_MISS") \in Faults}
               RecA == {Record(call, "SUCCESS", "", a, 2) : a \in Answers(call[2], call[3], at.step = "siblings")}
               RecB == {Record(call, e[1], e[2], NoAnswer, 2) : e \in raised}
               RecC == {Record(call, "CAPTURE_INCOMPLETE", "EVIDENCE_BYTES", NoAnswer, 1 + left) : f \in {"OVERSIZE"} \cap Faults}
               RecD == {Record(call, f, "malformed", NoAnswer, 1) : f \in {"CAPTURE_FAILED"} \cap Faults}
    <3>1. rec \in RecA \cup RecB \cup RecC \cup RecD
      BY <1>4, Zenon DEF LiveRecords
    <3>2. CASE rec \in RecA
      <4>1. "SUCCESS" # "BUDGET_BLOCKED" /\ "" # "CANCELLED"
        OBVIOUS
      <4>2. QED
        BY <3>2, <4>1, Zenon
    <3>3. CASE rec \in RecB
      <4>1. PICK e \in raised : rec = Record(call, e[1], e[2], NoAnswer, 2)
        BY <3>3, Zenon
      <4>2. e[1] # "BUDGET_BLOCKED" /\ e[2] # "CANCELLED"
        <5>1. e \in {"FAILED", "UNSUPPORTED"} \X {"error"} \/ e = <<"FAILED", "identifier not found">>
          BY Zenon
        <5>2. \A x \in {"FAILED", "UNSUPPORTED"} \X {"error"} : x[1] # "BUDGET_BLOCKED" /\ x[2] # "CANCELLED"
          OBVIOUS
        <5>3. <<"FAILED", "identifier not found">>[1] # "BUDGET_BLOCKED" /\ <<"FAILED", "identifier not found">>[2] # "CANCELLED"
          OBVIOUS
        <5>4. QED
          BY <5>1, <5>2, <5>3, Zenon
      <4>3. QED
        BY <4>1, <4>2, Zenon
    <3>4. CASE rec \in RecC
      BY <3>4, Zenon
    <3>5. CASE rec \in RecD
      <4>1. PICK f \in {"CAPTURE_FAILED"} : rec = Record(call, f, "malformed", NoAnswer, 1)
        BY <3>5, Zenon
      <4>2. QED
        BY <4>1, Zenon
    <3>6. QED
      BY <3>1, <3>2, <3>3, <3>4, <3>5, Zenon
  <2>5. /\ rec.call = call /\ rec.before = usage /\ rec.attempted = TRUE /\ rec.outcome # "BUDGET_BLOCKED"
        /\ rec.bytes = bytes /\ rec.reason # "CANCELLED"
    BY <2>4 DEF Record
  <2>6. rec.bytes <= 1 + left
    BY <2>3, <2>4, <2>5
  <2>7. ~Cancelling(rec)
    BY <2>5 DEF Cancelling
  <2>8. QED
    BY <1>4, <2>1, <2>5, <2>6, <2>7 DEF Sound, MaxEvidence
<1>5. QED
  BY <1>1, <1>2, <1>3, <1>4

\* Records that account for the usage still do after one more sound request.
LEMMA AccountsAppend ==
    ASSUME NEW q, NEW R \in Seq(Retained), NEW u, Accounts(q, R, u), NEW rec \in Retained, rec.before = u, Sound(q, rec)
    PROVE  Accounts(q, Append(R, rec), Charged(u, rec))
<1> DEFINE T == Append(R, rec)
           v == Charged(u, rec)
<1>1. Len(R) \in Nat /\ T \in Seq(Retained) /\ Len(T) = Len(R) + 1
  OBVIOUS
<1>2. \A i \in 1 .. Len(R) : T[i] = R[i]
  OBVIOUS
<1>3. T[Len(R) + 1] = rec
  OBVIOUS
<1> HIDE DEF T
<1>4. \A i \in 1 .. Len(R) + 1 : UsageBefore(T, v, i) = UsageBefore(R, u, i)
  <2> SUFFICES ASSUME NEW i \in 1 .. Len(R) + 1 PROVE UsageBefore(T, v, i) = UsageBefore(R, u, i)
    OBVIOUS
  <2>1. CASE i <= Len(R)
    BY <1>1, <1>2, <2>1 DEF UsageBefore
  <2>2. CASE i = Len(R) + 1
    BY <1>1, <1>3, <2>2 DEF UsageBefore
  <2>3. QED
    BY <1>1, <2>1, <2>2
<1>5. UsageBefore(T, v, 1) = NoUsage
  BY <1>1, <1>4 DEF Accounts
<1>6. ASSUME NEW i \in 1 .. Len(T) PROVE Sound(q, T[i]) /\ UsageBefore(T, v, i + 1) = Charged(T[i].before, T[i])
  <2>1. CASE i <= Len(R)
    <3>1. i \in 1 .. Len(R) /\ i + 1 \in 1 .. Len(R) + 1
      BY <1>1, <2>1
    <3>2. QED
      BY <1>2, <1>4, <3>1 DEF Accounts
  <2>2. CASE i = Len(R) + 1
    <3>1. T[i] = rec
      BY <1>3, <2>2
    <3>2. UsageBefore(T, v, i + 1) = v
      BY <1>1, <2>2 DEF UsageBefore
    <3>3. QED
      BY <3>1, <3>2
  <2>3. QED
    BY <1>1, <2>1, <2>2
<1>7. QED
  BY <1>5, <1>6 DEF Accounts, T

\* A request leaves the records and the usage of ReplayInv as it should.
LEMMA AskedReplay ==
    ASSUME AcquisitionInv, ReplayInv, at.step \in Calls \/ Waiting, NEW rec \in Invoked, Keep(rec),
           UNCHANGED <<run, request, saved>>
    PROVE  ReplayInv'
<1>1. Control /\ Budget /\ Resolved /\ Walks
  BY DEF AcquisitionInv
<1>2. /\ records \in Seq(Retained) /\ run \in {"live", "replay", "done"}
      /\ run # "live" => saved.records \in Seq(Retained)
  BY <1>1 DEF Control
<1>3. rec \in Retained
  BY <1>1, InvokedFits DEF Due
<1>4. /\ rec.before = usage /\ Sound(request, rec)
      /\ run # "live" => Len(records) + 1 <= Len(saved.records) /\ rec = saved.records[Len(records) + 1]
  <2>1. CASE run = "live"
    BY <1>1, <2>1, LiveSound DEF Invoked
  <2>2. CASE run # "live"
    <3>1. PICK j : j = Len(records) + 1 /\ j <= Len(saved.records) /\ Motivated(saved.records[j], Call)
                   /\ rec = saved.records[j]
      BY <2>2 DEF Invoked, ReplayRecords
    <3>2. j \in 1 .. Len(saved.records)
      BY <1>2, <2>2, <3>1
    <3>3. Sound(request, rec)
      BY <2>2, <3>1, <3>2 DEF ReplayInv, Accounts
    <3>4. rec.before = usage
      BY <3>1 DEF Motivated
    <3>5. QED
      BY <3>1, <3>3, <3>4
  <2>3. QED
    BY <2>1, <2>2
<1>5. records' = Append(records, rec) /\ usage' = Charged(usage, rec)
  BY DEF Keep, Charged
<1>6. Accounts(request, Append(records, rec), Charged(usage, rec))
  BY <1>2, <1>3, <1>4, AccountsAppend DEF ReplayInv
<1>7. ASSUME run # "live"
      PROVE  /\ Len(Append(records, rec)) <= Len(saved.records)
             /\ \A i \in 1 .. Len(Append(records, rec)) : Append(records, rec)[i] = saved.records[i]
  <2>1. Len(Append(records, rec)) = Len(records) + 1 /\ Len(records) \in Nat
    BY <1>2
  <2>2. ASSUME NEW i \in 1 .. Len(records) + 1 PROVE Append(records, rec)[i] = saved.records[i]
    <3>1. CASE i = Len(records) + 1
      BY <1>2, <1>4, <1>7, <3>1
    <3>2. CASE i \in 1 .. Len(records)
      BY <1>2, <1>7, <3>2 DEF ReplayInv
    <3>3. QED
      BY <2>1, <3>1, <3>2
  <2>3. QED
    BY <1>4, <1>7, <2>1, <2>2
<1>8. run' = run /\ request' = request /\ saved' = saved
  OBVIOUS
<1>9. QED
  BY <1>5, <1>6, <1>7, <1>8 DEF ReplayInv

\* Every step preserves it.
LEMMA ReplayStep == AcquisitionInv /\ ReplayInv /\ [AcquisitionNext]_vars => ReplayInv'
<1> SUFFICES ASSUME AcquisitionInv, ReplayInv, [AcquisitionNext]_vars PROVE ReplayInv'
  OBVIOUS
<1>1. CASE \E rec \in Invoked : Keep(rec) /\ (at.step \in Calls \/ Waiting) /\ UNCHANGED <<run, request, saved>>
  BY <1>1, AskedReplay
<1>2. CASE UNCHANGED <<run, request, saved, usage, records>>
  BY <1>2 DEF ReplayInv
<1>3. CASE ResolveSupply \/ ResolveSymbol \/ ResolveProbe
  BY <1>1, <1>3 DEF ResolveSupply, ResolveSymbol, ResolveProbe, Calls
<1>4. CASE SiblingSymbols \/ SiblingProbe
  BY <1>1, <1>4 DEF SiblingSymbols, SiblingProbe, Calls
<1>5. CASE VisitQuery
  BY <1>1, <1>5 DEF VisitQuery
<1>6. CASE AdmitTargets \/ BeginTraversal \/ VisitFrontier \/ VisitCached \/ EndTraversal
  BY <1>2, <1>6 DEF AdmitTargets, BeginTraversal, VisitFrontier, VisitCached, EndTraversal, evidence
<1>7. CASE StartReplay
  <2>1. /\ run' = "replay" /\ saved'.records = records /\ saved'.usage = usage /\ request' = request
        /\ usage' = NoUsage /\ records' = <<>>
    BY <1>7 DEF StartReplay, Result
  <2>2. Accounts(request, <<>>, NoUsage)
    BY DEF Accounts, UsageBefore
  <2>3. records \in Seq(Retained)
    BY DEF AcquisitionInv, Control
  <2>4. Len(records') = 0 /\ 0 <= Len(records)
    BY <2>1, <2>3
  <2>5. QED
    BY <2>1, <2>2, <2>4 DEF ReplayInv
<1>8. CASE EndReplay
  <2>1. run = "replay" /\ run' = "done" /\ UNCHANGED <<request, saved, usage, records>>
    BY <1>8 DEF EndReplay, evidence
  <2>2. QED
    BY <2>1 DEF ReplayInv
<1>9. CASE Expire \/ UNCHANGED vars
  BY <1>2, <1>9 DEF Expire, vars, evidence
<1>10. QED
  BY <1>3, <1>4, <1>5, <1>6, <1>7, <1>8, <1>9 DEF AcquisitionNext, Step, Terminated

\* The replay keeps a prefix of the retained records, at each point has been charged
\* what the live run had been, and refuses the next record only for another request
\* or a cancellation (recordReplay.invoke).
THEOREM AcquisitionReplayAccounts == AcquisitionSpec => []ReplayAccounts
<1>1. AcquisitionInit => ReplayInv
  <2>1. Accounts(request, <<>>, NoUsage)
    BY DEF Accounts, UsageBefore
  <2>2. QED
    BY <2>1 DEF AcquisitionInit, ReplayInv
<1>2. AcquisitionInv /\ ReplayInv => ReplayAccounts
  <2> SUFFICES ASSUME AcquisitionInv, ReplayInv, run # "live"
               PROVE  /\ \A i \in 1 .. Len(records) : i <= Len(saved.records) /\ records[i] = saved.records[i]
                      /\ usage = UsageBefore(saved.records, saved.usage, Len(records) + 1)
                      /\ Asking /\ Len(records) < Len(saved.records) =>
                            LET rec == saved.records[Len(records) + 1]
                            IN  rec.call = Call /\ (ctx = "open" \/ Cancelling(rec)) => Motivated(rec, Call)
    BY DEF ReplayAccounts
  <2>1. /\ records \in Seq(Retained) /\ saved.records \in Seq(Retained) /\ ctx \in {"open", "over"}
        /\ Len(records) \in Nat /\ Len(saved.records) \in Nat /\ Len(records) <= Len(saved.records)
    BY DEF AcquisitionInv, Control, ReplayInv
  <2>2. \A i \in 1 .. Len(records) : i <= Len(saved.records) /\ records[i] = saved.records[i]
    BY <2>1 DEF ReplayInv
  <2>3. usage = UsageBefore(saved.records, saved.usage, Len(records) + 1)
    <3>1. CASE Len(records) = 0
      <4>1. usage = NoUsage
        BY <3>1 DEF ReplayInv, Accounts, UsageBefore
      <4>2. QED
        BY <3>1, <4>1 DEF ReplayInv, Accounts
    <3>2. CASE Len(records) > 0
      <4> DEFINE l == Len(records)
      <4>1. l \in 1 .. Len(records) /\ l \in 1 .. Len(saved.records) /\ ~(l + 1 <= Len(records))
        BY <2>1, <3>2
      <4>2. usage = Charged(records[l].before, records[l])
        BY <4>1 DEF ReplayInv, Accounts, UsageBefore
      <4>3. UsageBefore(saved.records, saved.usage, l + 1) = Charged(saved.records[l].before, saved.records[l])
        BY <4>1 DEF ReplayInv, Accounts
      <4>4. QED
        BY <2>2, <4>1, <4>2, <4>3
    <3>3. QED
      BY <2>1, <3>1, <3>2
  <2>4. ASSUME NEW rec, Len(records) < Len(saved.records), rec = saved.records[Len(records) + 1],
               rec.call = Call, ctx = "open" \/ Cancelling(rec)
        PROVE  Motivated(rec, Call)
    <3>1. Len(records) + 1 \in 1 .. Len(saved.records)
      BY <2>1, <2>4
    <3>2. Sound(request, rec)
      BY <2>4, <3>1 DEF ReplayInv, Accounts
    <3>3. rec.before = usage
      BY <2>1, <2>3, <2>4 DEF UsageBefore
    <3>4. CASE Cancelling(rec)
      BY <2>4, <3>2, <3>3, <3>4 DEF Sound, Motivated, Cancelling
    <3>5. CASE ~Cancelling(rec) /\ ctx = "open" /\ Refusal(request, usage, Call[2]) # "NO"
      <4>1. rec = Refused(request, usage, Call)
        BY <2>4, <3>2, <3>3, <3>5 DEF Sound
      <4>2. Blocked(Call[2]) # "NO" /\ rec = BlockedRecord(Call)
        BY <3>5, <4>1, RefusalFacts
      <4>3. QED
        BY <2>4, <3>3, <3>5, <4>2 DEF Motivated, Cancelling
    <3>6. CASE ~Cancelling(rec) /\ ctx = "open" /\ Refusal(request, usage, Call[2]) = "NO"
      <4>1. rec.attempted /\ rec.bytes <= 1 + Smaller(MaxEvidence - usage.bytes - 1, MaxResponse)
        BY <2>4, <3>2, <3>3, <3>6 DEF Sound, MaxEvidence
      <4>2. Blocked(Call[2]) = "NO"
        BY <3>6, RefusalFacts
      <4>3. QED
        BY <2>4, <3>3, <3>6, <4>1, <4>2 DEF Motivated, Cancelling
    <3>7. QED
      BY <2>4, <3>4, <3>5, <3>6
  <2>5. QED
    BY <2>2, <2>3, <2>4
<1>3. QED
  BY <1>1, <1>2, AcquisitionInvariant, AcquisitionStep, ReplayStep, PTL DEF AcquisitionSpec

-----------------------------------------------------------------------------
(* The replay repeats the run: every step as a function of the state before it, *)
(* of the record it kept and of whether it met a cancellation                   *)

\* The state but for the run, its context and what it is compared with.
State(a, e, r, m, g, w, b) ==
    [at |-> a, evidence |-> e, res |-> r, adm |-> m, graph |-> g, walk |-> w, complete |-> b]
Core == State(at, evidence, res, adm, graph, walk, complete)

\* The module's state functions, read in the state c of a run of the request q.
In(q, c) ==
    INSTANCE Acquisition WITH
        run <- "live", request <- q, ctx <- "open", saved <- 0,
        at <- c.at, usage <- c.evidence[1], records <- c.evidence[2], res <- c.res, adm <- c.adm,
        nodes <- c.graph[1], edges <- c.graph[2], observed <- c.graph[3], candidates <- c.graph[4],
        queries <- c.walk[1], starts <- c.walk[2], exps <- c.walk[3], queue <- c.walk[4], depth <- c.walk[5],
        members <- c.walk[6], complete <- c.complete

\* What a run of q starts from.
Origin(q) ==
    LET everyone(v) == [t \in DOMAIN q.locator |-> v]
    IN  State(Here(In(q, 0)!FirstStep(1), 1), <<NoUsage, <<>>>>,
              [l \in {q.locator[t] : t \in DOMAIN q.locator} |-> [status |-> "NONE", node |-> NoNode]],
              everyone("NOT_APPLICABLE"), <<{}, {}, {}, {}>>,
              <<NoQueries, [d \in Directions |-> everyone({})], [d \in Directions |-> everyone(<<>>)],
                everyone({}), everyone({}), everyone({})>>,
              TRUE)

\* Keep.
Kept(c, rec) == <<Charged(c.evidence[1], rec), Append(c.evidence[2], rec)>>

\* Settle and Continue.
SettledAs(q, c, rec, status, node) ==
    State(In(q, c)!AfterResolving(c.at.t), Kept(c, rec),
          [c.res EXCEPT ![q.locator[c.at.t]] = [status |-> status, node |-> node]], c.adm, c.graph, c.walk, c.complete)
Continued(c, rec, a) == State(a, Kept(c, rec), c.res, c.adm, c.graph, c.walk, c.complete)

\* ResolveSupply, ResolveSymbol and ResolveProbe.
Supplied(q, c, rec) ==
    IF rec.outcome # "SUCCESS" THEN SettledAs(q, c, rec, RecordResolution(rec), NoNode)
    ELSE IF rec.answer.kind = "other uri" THEN SettledAs(q, c, rec, "FAILED", NoNode)
    ELSE Continued(c, rec, [c.at EXCEPT !.step = IF q.locator[c.at.t] \in SymbolLocators THEN "symbols" ELSE "probe"])
Listed(q, c, rec) ==
    IF rec.outcome # "SUCCESS" THEN SettledAs(q, c, rec, RecordResolution(rec), NoNode)
    ELSE CASE rec.answer.kind = "absent" -> SettledAs(q, c, rec, "MISSING", NoNode)
           [] rec.answer.kind = "ambiguous" -> SettledAs(q, c, rec, "AMBIGUOUS", NoNode)
           [] rec.answer.kind = "malformed" -> SettledAs(q, c, rec, "FAILED", NoNode)
           [] OTHER -> Continued(c, rec, [c.at EXCEPT !.step = "probe", !.width = rec.answer.width])
Probed(q, c, rec) ==
    LET symbol == q.locator[c.at.t] \in SymbolLocators
        empty == (rec.outcome = "SUCCESS" /\ rec.answer.kind = "items" /\ rec.answer.items = {})
                 \/ (Missed(rec) /\ symbol)
    IN  IF empty
        THEN IF symbol /\ In(q, c)!MoreProbes THEN Continued(c, rec, [c.at EXCEPT !.probe = @ + 1])
             ELSE SettledAs(q, c, rec, IF symbol /\ c.at.width > MaxPrepareProbes THEN "BLOCKED" ELSE "MISSING", NoNode)
        ELSE IF rec.outcome # "SUCCESS" THEN SettledAs(q, c, rec, RecordResolution(rec), NoNode)
        ELSE IF rec.answer.kind = "mismatch" THEN SettledAs(q, c, rec, "FAILED", NoNode)
        ELSE IF Cardinality(rec.answer.items) > 1 THEN SettledAs(q, c, rec, "AMBIGUOUS", NoNode)
        ELSE SettledAs(q, c, rec, "RESOLVED", SetMin(rec.answer.items))

\* SiblingSymbols and SiblingProbe.
Enumerated(q, c, rec) ==
    State(IF ~(rec.outcome = "SUCCESS" /\ rec.answer.count > 0) THEN In(q, c)!AfterSeed(c.at.t, c.adm)
          ELSE [c.at EXCEPT !.step = "peer", !.flat = rec.answer.kind = "flat",
                            !.width = rec.answer.width, !.left = rec.answer.count],
          Kept(c, rec), c.res, c.adm, c.graph, c.walk,
          c.complete /\ rec.outcome = "SUCCESS" /\ ~rec.answer.stray)
Examined(q, c, rec) ==
    LET matches == IF rec.outcome = "SUCCESS" THEN rec.answer.items ELSE {}
        onward == c.at.flat /\ matches = {} /\ In(q, c)!MoreProbes /\ (rec.outcome = "SUCCESS" \/ Missed(rec))
        admitted == Cardinality(matches) = 1 /\ In(q, c)!Admittable(SetMin(matches))
        one == admitted /\ rec.answer.kind # "undeclared"
    IN  State(IF onward THEN [c.at EXCEPT !.probe = @ + 1] ELSE In(q, c)!NextPeer,
              Kept(c, rec), c.res, c.adm,
              <<c.graph[1] \cup (IF admitted THEN matches ELSE {}), c.graph[2], c.graph[3],
                c.graph[4] \cup (IF one THEN {<<In(q, c)!Identity(c.at.t), SetMin(matches)>>} ELSE {})>>,
              c.walk,
              c.complete /\ ~(c.at.flat /\ Missed(rec)) /\ (onward \/ one))

\* AdmitTargets.
Admission(q, c) ==
    LET T == DOMAIN q.locator
        id(t) == In(q, c)!Identity(t)
        resolved == {t \in T : c.res[q.locator[t]].status = "RESOLVED"}
        before(t) == {id(u) : u \in {v \in resolved : v = 1 \/ id(v) < id(t)}} \ {id(t)}
        ofRoot(t) == t = 1 \/ (1 \in resolved /\ id(t) = id(1))
        fits(t) == q.maxNodes > 0 /\ (ofRoot(t) \/ Cardinality(before(t)) < q.maxNodes)
        chosen == {t \in resolved : fits(t)}
        admission == [t \in T |-> IF t \in chosen THEN "ADMITTED"
                                  ELSE IF t \in resolved THEN "BUDGET_BLOCKED" ELSE "NOT_APPLICABLE"]
    IN  State(In(q, c)!AfterSeed(0, admission), c.evidence, c.res, admission,
              <<{id(t) : t \in chosen}, c.graph[2], c.graph[3], c.graph[4]>>,
              <<c.walk[1], c.walk[2], c.walk[3], c.walk[4], c.walk[5],
                [t \in T |-> IF t \in chosen THEN {id(t)} ELSE {}]>>,
              chosen = T)

\* BeginTraversal and EndTraversal.
Begun(q, c) ==
    LET first == [c.walk[2] EXCEPT ![c.at.d] =
                    [t \in DOMAIN q.locator |->
                        IF c.adm[t] # "ADMITTED" THEN {}
                        ELSE IF c.at.d = "incoming" /\ q.mode = "SLICE"
                             THEN In(q, c)!Results("outgoing", t, {"FRONTIER", "SUCCESS_EMPTY"})
                        ELSE {In(q, c)!Identity(t)}]]
        waiting == [t \in DOMAIN q.locator |-> first[c.at.d][t] \X {0}]
    IN  State([c.at EXCEPT !.step = "visit", !.t = 0], c.evidence, c.res, c.adm, c.graph,
              <<c.walk[1], first, c.walk[3], waiting, waiting, c.walk[6]>>, c.complete)
Ended(q, c) ==
    State(IF c.at.d = "outgoing" THEN [Here("begin", 0) EXCEPT !.d = "incoming"] ELSE Here("finish", 0),
          c.evidence, c.res, c.adm, c.graph, c.walk,
          c.complete /\ \A t \in DOMAIN q.locator : In(q, c)!Whole(c.at.d, t))

\* Visit, with the cache it leaves, and the three visits.
Toured(q, c, outcome, S, cache) ==
    LET t == In(q, c)!Turn
        n == In(q, c)!NextIn(t)
        d == In(q, c)!DepthOf(t, n)
        fresh == {m \in S : ~\E x \in c.walk[5][t] : x[1] = m} \X {d + 1}
    IN  <<cache, c.walk[2],
          [c.walk[3] EXCEPT ![c.at.d][t] = Append(@, Expansion(n, d, outcome))],
          [c.walk[4] EXCEPT ![t] = (@ \ {<<n, d>>}) \cup fresh],
          [c.walk[5] EXCEPT ![t] = @ \cup fresh],
          [c.walk[6] EXCEPT ![t] = IF S = {} THEN @ ELSE @ \cup S \cup {n}]>>
Passed(q, c, outcome, S) ==
    State([c.at EXCEPT !.t = In(q, c)!Turn], c.evidence, c.res, c.adm, c.graph,
          Toured(q, c, outcome, S, c.walk[1]), c.complete)
Hit(q, c, over) ==
    LET k == c.walk[1][<<c.at.d, In(q, c)!NextIn(In(q, c)!Turn)>>]
    IN  IF over THEN Passed(q, c, Outcome("BUDGET_BLOCKED", "CANCELLED", k.req, TRUE), {})
        ELSE Passed(q, c, Outcome(k.status, k.reason, k.req, TRUE), k.neighbours)
Extended(f, k, v) == [x \in DOMAIN f \cup {k} |-> IF x = k THEN v ELSE f[x]]
Gained(q, c, rec, n, kept, found) ==
    LET req == Len(c.evidence[2]) + 1
        status == QueryStatus(rec, kept)
        entry == [status |-> status, reason |-> rec.reason, req |-> req, neighbours |-> kept]
    IN  State([c.at EXCEPT !.t = In(q, c)!Turn], Kept(c, rec), c.res, c.adm,
              <<c.graph[1] \cup kept, c.graph[2] \cup found, c.graph[3] \cup ({req} \X found), c.graph[4]>>,
              Toured(q, c, Outcome(status, rec.reason, req, FALSE), kept, Extended(c.walk[1], <<c.at.d, n>>, entry)),
              c.complete)
Fetched(q, c, rec) ==
    LET n == In(q, c)!NextIn(In(q, c)!Turn)
        kept == IF rec.outcome = "SUCCESS" THEN In(q, c)!Fitting(rec.answer.items) ELSE {}
    IN  Gained(q, c, rec, n, kept, {In(q, c)!Edge(n, m) : m \in kept})

\* The step an asking state makes once it has its record, and the step of a state
\* that neither asks nor meets the cache.
Answered(q, c, rec) ==
    CASE c.at.step = "supply" -> Supplied(q, c, rec)
      [] c.at.step = "symbols" -> Listed(q, c, rec)
      [] c.at.step = "probe" -> Probed(q, c, rec)
      [] c.at.step = "siblings" -> Enumerated(q, c, rec)
      [] c.at.step = "peer" -> Examined(q, c, rec)
      [] OTHER -> Fetched(q, c, rec)
Silent(q, c) ==
    CASE c.at.step = "admit" -> Admission(q, c)
      [] c.at.step = "begin" -> Begun(q, c)
      [] OTHER -> IF In(q, c)!Waiting THEN Passed(q, c, Outcome("FRONTIER", "", 0, FALSE), {}) ELSE Ended(q, c)

Hits(q, c) == In(q, c)!Waiting /\ ~In(q, c)!AtFrontier /\ In(q, c)!Cached(In(q, c)!NextIn(In(q, c)!Turn))

After(q, c, rec, over) ==
    IF In(q, c)!Asking THEN Answered(q, c, rec) ELSE IF Hits(q, c) THEN Hit(q, c, over) ELSE Silent(q, c)

\* What Core holds.
LEMMA CoreFields ==
    /\ Core.at = at /\ Core.evidence = evidence /\ Core.res = res /\ Core.adm = adm
    /\ Core.graph = graph /\ Core.walk = walk /\ Core.complete = complete
    /\ Core.evidence[1] = usage /\ Core.evidence[2] = records
    /\ Core.graph[1] = nodes /\ Core.graph[2] = edges /\ Core.graph[3] = observed /\ Core.graph[4] = candidates
    /\ Core.walk[1] = queries /\ Core.walk[2] = starts /\ Core.walk[3] = exps /\ Core.walk[4] = queue
    /\ Core.walk[5] = depth /\ Core.walk[6] = members
BY DEF Core, State, evidence, graph, walk

\* The library's Cardinality, reached through the instance.
LEMMA InCardinality == ASSUME NEW q, NEW c, NEW S PROVE In(q, c)!Cardinality(S) = Cardinality(S)
BY DEF In!Cardinality, Cardinality

\* Read in the state itself, the state functions are what they are.
LEMMA CoreReads ==
    /\ In(request, Core)!Targets = Targets /\ In(request, Core)!MaxNodes = MaxNodes
    /\ \A t : In(request, Core)!Identity(t) = Identity(t)
    /\ \A t : In(request, Core)!AfterResolving(t) = AfterResolving(t)
    /\ \A t, a : In(request, Core)!AfterSeed(t, a) = AfterSeed(t, a)
    /\ In(request, Core)!MoreProbes = MoreProbes
    /\ In(request, Core)!NextPeer = NextPeer
    /\ \A n : In(request, Core)!Admittable(n) = Admittable(n)
<1>1. In(request, Core)!Targets = Targets /\ In(request, Core)!MaxNodes = MaxNodes
  BY DEF In!Targets, In!Locator, In!MaxNodes, Targets, Locator, MaxNodes
<1>2. \A t : In(request, Core)!Identity(t) = Identity(t)
  BY DEF In!Identity, In!Locator, Identity, Locator, Core, State, evidence, graph, walk
<1>3. \A t : In(request, Core)!AfterResolving(t) = AfterResolving(t)
  BY DEF In!AfterResolving, AfterResolving, In!Targets, In!Locator, In!FirstStep, Targets, Locator, FirstStep, In!Here, Here, In!SetMin, SetMin
<1>4. \A t, a : In(request, Core)!AfterSeed(t, a) = AfterSeed(t, a)
  BY DEF In!AfterSeed, AfterSeed, In!FirstDirection, FirstDirection, In!Here, Here, In!SetMin, SetMin, In!Targets, Targets,
         In!Locator, Locator, In!Identity, Identity, Core, State, evidence, graph, walk
<1>5. In(request, Core)!MoreProbes = MoreProbes
  BY DEF In!MoreProbes, MoreProbes, In!Smaller, Smaller, Core, State, evidence, graph, walk
<1>6. In(request, Core)!NextPeer = NextPeer
  BY <1>4 DEF In!NextPeer, NextPeer, Core, State, evidence, graph, walk
<1>7. \A n : In(request, Core)!Admittable(n) = Admittable(n)
  BY InCardinality DEF In!Admittable, Admittable, In!MaxNodes, MaxNodes, Core, State, evidence, graph, walk
<1>8. QED
  BY <1>1, <1>2, <1>3, <1>4, <1>5, <1>6, <1>7

\* So are those of a walk.
LEMMA WalkReads ==
    /\ In(request, Core)!Turn = Turn
    /\ \A t : In(request, Core)!NextIn(t) = NextIn(t)
    /\ \A t, n : In(request, Core)!DepthOf(t, n) = DepthOf(t, n)
    /\ In(request, Core)!Waiting = Waiting
    /\ In(request, Core)!AtFrontier = AtFrontier
    /\ \A n : In(request, Core)!Cached(n) = Cached(n)
    /\ In(request, Core)!Asking = Asking
    /\ Hits(request, Core) = (Waiting /\ ~AtFrontier /\ Cached(NextIn(Turn)))
    /\ In(request, Core)!Call = Call
    /\ \A S : In(request, Core)!Fitting(S) = Fitting(S)
    /\ \A n, m : In(request, Core)!Edge(n, m) = Edge(n, m)
    /\ \A d, t, S : In(request, Core)!Results(d, t, S) = Results(d, t, S)
    /\ \A d, t : In(request, Core)!Whole(d, t) = Whole(d, t)
<1>1. In(request, Core)!Turn = Turn
  BY DEF In!Turn, Turn, In!Targets, Targets, In!Locator, Locator, In!SetMin, SetMin, Core, State, evidence, graph, walk
<1>2. \A t : In(request, Core)!NextIn(t) = NextIn(t)
  BY DEF In!NextIn, NextIn, In!SetMin, SetMin, Core, State, evidence, graph, walk
<1>3. \A t, n : In(request, Core)!DepthOf(t, n) = DepthOf(t, n)
  BY DEF In!DepthOf, DepthOf, Core, State, evidence, graph, walk
<1>4. In(request, Core)!Waiting = Waiting
  BY DEF In!Waiting, Waiting, In!Targets, Targets, In!Locator, Locator, Core, State, evidence, graph, walk
<1>5. \A t : In(request, Core)!Limit(t) = Limit(t)
  BY DEF In!Limit, Limit, Core, State, evidence, graph, walk
<1>6. In(request, Core)!AtFrontier = AtFrontier
  BY <1>1, <1>2, <1>3, <1>5 DEF In!AtFrontier, AtFrontier
<1>7. \A n : In(request, Core)!Cached(n) = Cached(n)
  BY DEF In!Cached, Cached, Core, State, evidence, graph, walk
<1>8. In(request, Core)!Asking = Asking
  BY <1>1, <1>2, <1>4, <1>6, <1>7 DEF In!Asking, Asking, In!Calls, Calls, Core, State, evidence, graph, walk
<1>9. Hits(request, Core) = (Waiting /\ ~AtFrontier /\ Cached(NextIn(Turn)))
  BY <1>1, <1>2, <1>4, <1>6, <1>7 DEF Hits
<1>10. In(request, Core)!Call = Call
  BY <1>1, <1>2, CoreReads DEF In!Call, Call, In!NoNode, NoNode, Core, State, evidence, graph, walk
<1>11. \A S : In(request, Core)!Fitting(S) = Fitting(S)
  BY InCardinality DEF In!Fitting, Fitting, In!MaxNodes, MaxNodes, Core, State, evidence, graph, walk
<1>12. \A n, m : In(request, Core)!Edge(n, m) = Edge(n, m)
  BY DEF In!Edge, Edge, Core, State, evidence, graph, walk
<1>13. \A d, t, S : In(request, Core)!Results(d, t, S) = Results(d, t, S)
  BY DEF In!Results, Results, Core, State, evidence, graph, walk
<1>14. \A d, t : In(request, Core)!Whole(d, t) = Whole(d, t)
  <2> SUFFICES ASSUME NEW d, NEW t PROVE In(request, Core)!Whole(d, t) = Whole(d, t)
    OBVIOUS
  <2>1. In(request, Core)!Statuses(d, t) = Statuses(d, t)
    BY DEF In!Statuses, Statuses, Core, State, evidence, graph, walk
  <2>2. In(request, Core)!Cardinality(Statuses(d, t)) = Cardinality(Statuses(d, t))
    BY InCardinality
  <2>3. Core.adm = adm /\ Core.res = res
    BY CoreFields
  <2>4. In(request, Core)!Aggregate(d, t) = Aggregate(d, t)
    <3> DEFINE S == In(request, Core)!Statuses(d, t)
    <3>1. (CHOOSE s \in S : TRUE) = (CHOOSE s \in Statuses(d, t) : TRUE)
      BY <2>1, Zenon
    <3>2. S = Statuses(d, t) /\ In(request, Core)!Cardinality(S) = Cardinality(S)
      BY <2>1, <2>2, Zenon
    <3> HIDE DEF S
    <3>3. In(request, Core)!Aggregate(d, t) =
            IF S = {} THEN IF (adm[t] = "BUDGET_BLOCKED" \/ res[Locator[t]].status = "BLOCKED")
                              /\ (d = "incoming" \/ request.mode = "SLICE") THEN "BUDGET_BLOCKED" ELSE "NOT_APPLICABLE"
            ELSE IF Cardinality(S) = 1 THEN (CHOOSE s \in S : TRUE)
            ELSE IF S \subseteq Successful THEN "SUCCESS_NONEMPTY" ELSE "PARTIAL"
      BY <2>3, <3>2 DEF In!Aggregate, S, In!Successful, Successful, In!Locator, Locator
    <3>4. QED
      BY <3>1, <3>2, <3>3 DEF Aggregate
  <2>5. QED
    BY <2>4 DEF In!Whole, Whole, In!Successful, Successful
<1>15. QED
  BY <1>1, <1>2, <1>3, <1>4, <1>6, <1>7, <1>8, <1>9, <1>10, <1>11, <1>12, <1>13, <1>14

\* A request that settles a locator, or goes on to another step, as a function.
LEMMA SettleFunction ==
    ASSUME NEW rec, Keep(rec), NEW s, NEW n, Settle(s, n), UNCHANGED <<adm, graph, walk, complete>>
    PROVE  Core' = SettledAs(request, Core, rec, s, n)
<1>1. In(request, Core)!AfterResolving(Core.at.t) = AfterResolving(at.t) /\ Core.at = at
  BY CoreReads, CoreFields
<1>2. evidence' = Kept(Core, rec)
  BY CoreFields DEF Keep, Kept, Charged, evidence
<1>3. QED
  BY <1>1, <1>2, CoreFields DEF SettledAs, Settle, Locator, Core

\* Continue, with the record kept.
LEMMA ContinueFunction ==
    ASSUME NEW rec, Keep(rec), NEW a, Continue(a), UNCHANGED <<adm, graph, walk, complete>>
    PROVE  Core' = Continued(Core, rec, a)
<1>1. evidence' = Kept(Core, rec)
  BY CoreFields DEF Keep, Kept, Charged, evidence
<1>2. QED
  BY <1>1, CoreFields DEF Continued, Continue, Core

\* The requests of a resolution as functions.
LEMMA SupplyFunction ==
    ASSUME ResolveSupply
    PROVE  \E rec \in Invoked : Keep(rec) /\ Context(rec) /\ Core' = Supplied(request, Core, rec)
<1>1. PICK rec \in Invoked :
        /\ Keep(rec) /\ Context(rec)
        /\ IF rec.outcome # "SUCCESS" THEN Settle(RecordResolution(rec), NoNode)
           ELSE IF rec.answer.kind = "other uri" THEN Settle("FAILED", NoNode)
           ELSE Continue([at EXCEPT !.step = IF Locator[at.t] \in SymbolLocators THEN "symbols" ELSE "probe"])
  BY DEF ResolveSupply
<1>2. UNCHANGED <<adm, graph, walk, complete>>
  BY DEF ResolveSupply
<1>3. Core' = Supplied(request, Core, rec)
  <2>1. CASE rec.outcome # "SUCCESS"
    BY <1>1, <1>2, <2>1, SettleFunction DEF Supplied
  <2>2. CASE rec.outcome = "SUCCESS" /\ rec.answer.kind = "other uri"
    BY <1>1, <1>2, <2>2, SettleFunction DEF Supplied
  <2>3. CASE rec.outcome = "SUCCESS" /\ rec.answer.kind # "other uri"
    BY <1>1, <1>2, <2>3, ContinueFunction, CoreFields DEF Supplied, Locator
  <2>4. QED
    BY <2>1, <2>2, <2>3
<1>4. QED
  BY <1>1, <1>3

\* ResolveSymbol.
LEMMA SymbolFunction ==
    ASSUME ResolveSymbol
    PROVE  \E rec \in Invoked : Keep(rec) /\ Context(rec) /\ Core' = Listed(request, Core, rec)
<1>1. PICK rec \in Invoked :
        /\ Keep(rec) /\ Context(rec)
        /\ IF rec.outcome # "SUCCESS" THEN Settle(RecordResolution(rec), NoNode)
           ELSE CASE rec.answer.kind = "absent" -> Settle("MISSING", NoNode)
                  [] rec.answer.kind = "ambiguous" -> Settle("AMBIGUOUS", NoNode)
                  [] rec.answer.kind = "malformed" -> Settle("FAILED", NoNode)
                  [] OTHER -> Continue([at EXCEPT !.step = "probe", !.width = rec.answer.width])
  BY DEF ResolveSymbol
<1>2. UNCHANGED <<adm, graph, walk, complete>>
  BY DEF ResolveSymbol
<1>3. Core' = Listed(request, Core, rec)
  <2>1. CASE rec.outcome # "SUCCESS"
    BY <1>1, <1>2, <2>1, SettleFunction DEF Listed
  <2>2. CASE rec.outcome = "SUCCESS" /\ rec.answer.kind \in {"absent", "ambiguous", "malformed"}
    BY <1>1, <1>2, <2>2, SettleFunction DEF Listed
  <2>3. CASE rec.outcome = "SUCCESS" /\ rec.answer.kind \notin {"absent", "ambiguous", "malformed"}
    BY <1>1, <1>2, <2>3, ContinueFunction, CoreFields DEF Listed
  <2>4. QED
    BY <2>1, <2>2, <2>3
<1>4. QED
  BY <1>1, <1>3

\* ResolveProbe.
LEMMA ProbeFunction ==
    ASSUME ResolveProbe
    PROVE  \E rec \in Invoked : Keep(rec) /\ Context(rec) /\ Core' = Probed(request, Core, rec)
<1> DEFINE symbol == Locator[at.t] \in SymbolLocators
           empty(rec) == (rec.outcome = "SUCCESS" /\ rec.answer.kind = "items" /\ rec.answer.items = {})
                         \/ (Missed(rec) /\ symbol)
<1>1. PICK rec \in Invoked :
        /\ Keep(rec) /\ Context(rec)
        /\ IF empty(rec)
           THEN IF symbol /\ MoreProbes THEN Continue([at EXCEPT !.probe = @ + 1])
                ELSE Settle(IF symbol /\ at.width > MaxPrepareProbes THEN "BLOCKED" ELSE "MISSING", NoNode)
           ELSE IF rec.outcome # "SUCCESS" THEN Settle(RecordResolution(rec), NoNode)
           ELSE IF rec.answer.kind = "mismatch" THEN Settle("FAILED", NoNode)
           ELSE IF Cardinality(rec.answer.items) > 1 THEN Settle("AMBIGUOUS", NoNode)
           ELSE Settle("RESOLVED", SetMin(rec.answer.items))
  BY DEF ResolveProbe
<1>2. UNCHANGED <<adm, graph, walk, complete>>
  BY DEF ResolveProbe
<1>3. In(request, Core)!MoreProbes = MoreProbes /\ Core.at = at
  BY CoreReads, CoreFields
<1> DEFINE symbolC == request.locator[Core.at.t] \in SymbolLocators
<1>4. symbolC = symbol
  BY <1>3 DEF Locator
<1>5. Probed(request, Core, rec) =
        IF empty(rec)
        THEN IF symbol /\ MoreProbes THEN Continued(Core, rec, [at EXCEPT !.probe = @ + 1])
             ELSE SettledAs(request, Core, rec, IF symbol /\ at.width > MaxPrepareProbes THEN "BLOCKED" ELSE "MISSING", NoNode)
        ELSE IF rec.outcome # "SUCCESS" THEN SettledAs(request, Core, rec, RecordResolution(rec), NoNode)
        ELSE IF rec.answer.kind = "mismatch" THEN SettledAs(request, Core, rec, "FAILED", NoNode)
        ELSE IF Cardinality(rec.answer.items) > 1 THEN SettledAs(request, Core, rec, "AMBIGUOUS", NoNode)
        ELSE SettledAs(request, Core, rec, "RESOLVED", SetMin(rec.answer.items))
  BY <1>3, <1>4 DEF Probed
<1> HIDE DEF symbol, empty
<1>6. CASE empty(rec) /\ symbol /\ MoreProbes
  BY <1>1, <1>2, <1>5, <1>6, ContinueFunction
<1>7. CASE ~(empty(rec) /\ symbol /\ MoreProbes)
  BY <1>1, <1>2, <1>5, <1>7, SettleFunction
<1>8. QED
  BY <1>1, <1>6, <1>7

\* The requests of sibling discovery as functions.
LEMMA SiblingFunction ==
    ASSUME SiblingSymbols
    PROVE  \E rec \in Invoked : Keep(rec) /\ Context(rec) /\ Core' = Enumerated(request, Core, rec)
<1>1. PICK rec \in Invoked :
        /\ Keep(rec) /\ Context(rec) /\ complete' = (complete /\ rec.outcome = "SUCCESS" /\ ~rec.answer.stray)
        /\ at' = IF ~(rec.outcome = "SUCCESS" /\ rec.answer.count > 0) THEN AfterSeed(at.t, adm)
                 ELSE [at EXCEPT !.step = "peer", !.flat = rec.answer.kind = "flat",
                                 !.width = rec.answer.width, !.left = rec.answer.count]
  BY DEF SiblingSymbols
<1>2. UNCHANGED <<res, adm, graph, walk>>
  BY DEF SiblingSymbols
<1>3. evidence' = Kept(Core, rec)
  BY <1>1, CoreFields DEF Keep, Kept, Charged, evidence
<1>4. In(request, Core)!AfterSeed(Core.at.t, Core.adm) = AfterSeed(at.t, adm)
  BY CoreReads, CoreFields
<1>5. Core' = Enumerated(request, Core, rec)
  BY <1>1, <1>2, <1>3, <1>4, CoreFields DEF Enumerated, Core
<1>6. QED
  BY <1>1, <1>5

\* SiblingProbe.
LEMMA PeerFunction ==
    ASSUME SiblingProbe
    PROVE  \E rec \in Invoked : Keep(rec) /\ Context(rec) /\ Core' = Examined(request, Core, rec)
<1> DEFINE matches(rec) == IF rec.outcome = "SUCCESS" THEN rec.answer.items ELSE {}
           onward(rec) == at.flat /\ matches(rec) = {} /\ MoreProbes /\ (rec.outcome = "SUCCESS" \/ Missed(rec))
           admitted(rec) == Cardinality(matches(rec)) = 1 /\ Admittable(SetMin(matches(rec)))
           one(rec) == admitted(rec) /\ rec.answer.kind # "undeclared"
<1>1. PICK rec \in Invoked :
        /\ Keep(rec) /\ Context(rec)
        /\ at' = IF onward(rec) THEN [at EXCEPT !.probe = @ + 1] ELSE NextPeer
        /\ nodes' = nodes \cup (IF admitted(rec) THEN matches(rec) ELSE {})
        /\ candidates' = candidates \cup (IF one(rec) THEN {<<Identity(at.t), SetMin(matches(rec))>>} ELSE {})
        /\ complete' = (complete /\ ~(at.flat /\ Missed(rec)) /\ (onward(rec) \/ one(rec)))
  BY Zenon DEF SiblingProbe
<1>2. UNCHANGED <<res, adm, edges, observed, walk>>
  BY DEF SiblingProbe
<1>3. evidence' = Kept(Core, rec)
  BY <1>1, CoreFields DEF Keep, Kept, Charged, evidence
<1>4. /\ In(request, Core)!MoreProbes = MoreProbes /\ In(request, Core)!NextPeer = NextPeer
      /\ In(request, Core)!Admittable(SetMin(matches(rec))) = Admittable(SetMin(matches(rec)))
      /\ In(request, Core)!Identity(Core.at.t) = Identity(at.t)
  BY CoreReads, CoreFields
<1>5. Examined(request, Core, rec) =
        State(IF onward(rec) THEN [at EXCEPT !.probe = @ + 1] ELSE NextPeer, Kept(Core, rec), res, adm,
              <<nodes \cup (IF admitted(rec) THEN matches(rec) ELSE {}), edges, observed,
                candidates \cup (IF one(rec) THEN {<<Identity(at.t), SetMin(matches(rec))>>} ELSE {})>>,
              walk, complete /\ ~(at.flat /\ Missed(rec)) /\ (onward(rec) \/ one(rec)))
  BY <1>4, CoreFields, Zenon DEF Examined
<1> HIDE DEF onward, one, admitted, matches
<1>6. Core' = Examined(request, Core, rec)
  BY <1>1, <1>2, <1>3, <1>5 DEF Core, graph
<1>7. QED
  BY <1>1, <1>6

\* The steps that ask nothing as functions.
LEMMA AdmitFunction == ASSUME AdmitTargets PROVE Core' = Admission(request, Core)
<1> DEFINE resolved == {t \in Targets : res[Locator[t]].status = "RESOLVED"}
           before(t) == {Identity(u) : u \in {v \in resolved : v = 1 \/ Identity(v) < Identity(t)}} \ {Identity(t)}
           ofRoot(t) == t = 1 \/ (1 \in resolved /\ Identity(t) = Identity(1))
           fits(t) == MaxNodes > 0 /\ (ofRoot(t) \/ Cardinality(before(t)) < MaxNodes)
           chosen == {t \in resolved : fits(t)}
           admission == [t \in Targets |-> IF t \in chosen THEN "ADMITTED"
                                           ELSE IF t \in resolved THEN "BUDGET_BLOCKED" ELSE "NOT_APPLICABLE"]
           joined == [t \in Targets |-> IF t \in chosen THEN {Identity(t)} ELSE {}]
<1>1. /\ adm' = admission /\ nodes' = {Identity(t) : t \in chosen} /\ members' = joined
      /\ complete' = (chosen = Targets) /\ at' = AfterSeed(0, adm')
      /\ UNCHANGED <<evidence, res, edges, observed, candidates, queries, starts, exps, queue, depth>>
  BY DEF AdmitTargets
<1>2. /\ \A t : In(request, Core)!Identity(t) = Identity(t)
      /\ \A a : In(request, Core)!AfterSeed(0, a) = AfterSeed(0, a)
  BY CoreReads
<1>3. Admission(request, Core) =
        State(In(request, Core)!AfterSeed(0, admission), evidence, res, admission,
              <<{Identity(t) : t \in chosen}, edges, observed, candidates>>,
              <<queries, starts, exps, queue, depth, joined>>, chosen = Targets)
  BY DEF Admission, Targets, Locator, MaxNodes, In!Identity, Identity, In!Locator, Core, State, evidence, graph, walk
<1> HIDE DEF admission, joined, chosen
<1>4. In(request, Core)!AfterSeed(0, admission) = AfterSeed(0, admission)
  BY <1>2
<1>5. QED
  BY <1>1, <1>3, <1>4 DEF Core, graph, walk

\* BeginTraversal.
LEMMA BeginFunction == ASSUME BeginTraversal PROVE Core' = Begun(request, Core)
<1> DEFINE first == [starts EXCEPT ![at.d] =
          [t \in Targets |-> IF adm[t] # "ADMITTED" THEN {}
                             ELSE IF at.d = "incoming" /\ request.mode = "SLICE"
                                  THEN Results("outgoing", t, {"FRONTIER", "SUCCESS_EMPTY"})
                             ELSE {Identity(t)}]]
           waiting == [t \in Targets |-> first[at.d][t] \X {0}]
<1>1. /\ starts' = first /\ queue' = waiting /\ depth' = queue' /\ at' = [at EXCEPT !.step = "visit", !.t = 0]
      /\ UNCHANGED <<evidence, res, adm, graph, queries, exps, members, complete>>
  BY DEF BeginTraversal
<1>2. Begun(request, Core) =
        State([at EXCEPT !.step = "visit", !.t = 0], evidence, res, adm, graph,
              <<queries, first, exps, waiting, waiting, members>>, complete)
  BY DEF Begun, Targets, Locator, In!Identity, Identity, In!Locator, In!Results, Results, Core, State, evidence, graph, walk
<1> HIDE DEF first, waiting
<1>3. QED
  BY <1>1, <1>2 DEF Core, walk

\* EndTraversal.
LEMMA EndFunction == ASSUME EndTraversal PROVE Core' = Ended(request, Core)
<1>1. /\ complete' = (complete /\ \A t \in Targets : Whole(at.d, t))
      /\ at' = IF at.d = "outgoing" THEN [Here("begin", 0) EXCEPT !.d = "incoming"] ELSE Here("finish", 0)
      /\ UNCHANGED <<evidence, res, adm, graph, walk>>
  BY DEF EndTraversal
<1>2. (\A t \in DOMAIN request.locator : In(request, Core)!Whole(Core.at.d, t)) = (\A t \in Targets : Whole(at.d, t))
  BY WalkReads, CoreFields DEF Targets, Locator
<1>3. QED
  BY <1>1, <1>2, CoreFields DEF Ended, Core

\* The visits as functions.
LEMMA TourFunction ==
    ASSUME NEW o, NEW S, Visit(Turn, NextIn(Turn), o, S), NEW cache, queries' = cache, starts' = starts
    PROVE  walk' = Toured(request, Core, o, S, cache) /\ at' = [Core.at EXCEPT !.t = In(request, Core)!Turn]
<1> DEFINE n == NextIn(Turn)
           d == DepthOf(Turn, n)
           fresh == {m \in S : ~\E x \in depth[Turn] : x[1] = m} \X {d + 1}
<1>1. /\ exps' = [exps EXCEPT ![at.d][Turn] = Append(@, Expansion(n, d, o))]
      /\ queue' = [queue EXCEPT ![Turn] = (@ \ {<<n, d>>}) \cup fresh]
      /\ depth' = [depth EXCEPT ![Turn] = @ \cup fresh]
      /\ members' = [members EXCEPT ![Turn] = IF S = {} THEN @ ELSE @ \cup S \cup {n}]
      /\ at' = [at EXCEPT !.t = Turn]
  BY Zenon DEF Visit
<1>2. /\ In(request, Core)!Turn = Turn /\ In(request, Core)!NextIn(Turn) = n
      /\ In(request, Core)!DepthOf(Turn, n) = d
  BY WalkReads
<1>3. Toured(request, Core, o, S, cache) =
        <<cache, starts, [exps EXCEPT ![at.d][Turn] = Append(@, Expansion(n, d, o))],
          [queue EXCEPT ![Turn] = (@ \ {<<n, d>>}) \cup fresh], [depth EXCEPT ![Turn] = @ \cup fresh],
          [members EXCEPT ![Turn] = IF S = {} THEN @ ELSE @ \cup S \cup {n}]>>
  BY <1>2, CoreFields, Zenon DEF Toured
<1> HIDE DEF n, d, fresh
<1>4. QED
  BY <1>1, <1>2, <1>3, CoreFields, Zenon DEF walk

\* A visit that makes no request.
LEMMA PassFunction ==
    ASSUME NEW o, NEW S, Visit(Turn, NextIn(Turn), o, S), UNCHANGED <<evidence, res, adm, graph, queries, starts, complete>>
    PROVE  Core' = Passed(request, Core, o, S)
<1>1. walk' = Toured(request, Core, o, S, Core.walk[1]) /\ at' = [Core.at EXCEPT !.t = In(request, Core)!Turn]
  BY TourFunction, CoreFields
<1>2. QED
  BY <1>1, CoreFields DEF Passed, Core

\* VisitFrontier.
LEMMA FrontierFunction ==
    ASSUME VisitFrontier PROVE Core' = Passed(request, Core, Outcome("FRONTIER", "", 0, FALSE), {})
BY PassFunction DEF VisitFrontier

\* VisitCached: what it says of the context is all it needs to know.
LEMMA HitFunction ==
    ASSUME VisitCached
    PROVE  \E over \in BOOLEAN :
              /\ over <=> ctx = "over" \/ LearnsCancellation(Turn, NextIn(Turn))
              /\ ctx' = IF over THEN "over" ELSE "open"
              /\ Core' = Hit(request, Core, over)
<1> DEFINE n == NextIn(Turn)
           k == queries[<<at.d, n>>]
           over == ctx = "over" \/ LearnsCancellation(Turn, n)
<1>1. /\ ctx' = IF over THEN "over" ELSE "open"
      /\ IF over THEN Visit(Turn, n, Outcome("BUDGET_BLOCKED", "CANCELLED", k.req, TRUE), {})
         ELSE Visit(Turn, n, Outcome(k.status, k.reason, k.req, TRUE), k.neighbours)
      /\ UNCHANGED <<evidence, res, adm, graph, queries, starts, complete>>
  BY DEF VisitCached
<1>2. In(request, Core)!NextIn(In(request, Core)!Turn) = n /\ Core.at = at /\ Core.walk[1] = queries
  BY WalkReads, CoreFields
<1>3. Hit(request, Core, over) =
        IF over THEN Passed(request, Core, Outcome("BUDGET_BLOCKED", "CANCELLED", k.req, TRUE), {})
        ELSE Passed(request, Core, Outcome(k.status, k.reason, k.req, TRUE), k.neighbours)
  BY <1>2, Zenon DEF Hit
<1>4. over \in BOOLEAN
  OBVIOUS
<1> HIDE DEF over, k
<1>5. Core' = Hit(request, Core, over)
  BY <1>1, <1>3, PassFunction
<1>6. QED
  BY <1>1, <1>4, <1>5 DEF over

\* VisitQuery.
LEMMA FetchFunction ==
    ASSUME VisitQuery
    PROVE  \E rec \in Invoked : Keep(rec) /\ Context(rec) /\ Core' = Fetched(request, Core, rec)
<1> DEFINE n == NextIn(Turn)
           kept(rec) == IF rec.outcome = "SUCCESS" THEN Fitting(rec.answer.items) ELSE {}
           req == Len(records) + 1
           status(rec) == QueryStatus(rec, kept(rec))
           found(rec) == {Edge(n, m) : m \in kept(rec)}
           entry(rec) == [status |-> status(rec), reason |-> rec.reason, req |-> req, neighbours |-> kept(rec)]
           cache(rec) == Extended(queries, <<at.d, n>>, entry(rec))
<1>1. PICK rec \in Invoked :
        /\ Keep(rec) /\ Context(rec) /\ nodes' = nodes \cup kept(rec) /\ edges' = edges \cup found(rec)
        /\ observed' = observed \cup ({req} \X found(rec))
        /\ Remember(n, entry(rec))
        /\ Visit(Turn, n, Outcome(status(rec), rec.reason, req, FALSE), kept(rec))
  BY Zenon DEF VisitQuery
<1>2. UNCHANGED <<res, adm, candidates, starts, complete>> /\ queries' = cache(rec)
  BY <1>1 DEF VisitQuery, Remember, Extended
<1>3. evidence' = Kept(Core, rec)
  BY <1>1, CoreFields DEF Keep, Kept, Charged, evidence
<1>4. Fetched(request, Core, rec) = Gained(request, Core, rec, n, kept(rec), found(rec))
  <2> DEFINE nC == In(request, Core)!NextIn(In(request, Core)!Turn)
             keptC == IF rec.outcome = "SUCCESS" THEN In(request, Core)!Fitting(rec.answer.items) ELSE {}
             foundC == {In(request, Core)!Edge(nC, m) : m \in keptC}
  <2>1. Fetched(request, Core, rec) = Gained(request, Core, rec, nC, keptC, foundC)
    BY Zenon DEF Fetched
  <2>2. nC = n /\ keptC = kept(rec)
    BY WalkReads
  <2> HIDE DEF nC, keptC, kept
  <2>3. foundC = found(rec)
    BY <2>2, WalkReads
  <2> HIDE DEF foundC, found, n
  <2>4. QED
    BY <2>1, <2>2, <2>3, Zenon
<1>5. Fetched(request, Core, rec) =
        State([Core.at EXCEPT !.t = In(request, Core)!Turn], Kept(Core, rec), res, adm,
              <<nodes \cup kept(rec), edges \cup found(rec), observed \cup ({req} \X found(rec)), candidates>>,
              Toured(request, Core, Outcome(status(rec), rec.reason, req, FALSE), kept(rec), cache(rec)), complete)
  <2> HIDE DEF kept, found, n
  <2>1. QED
    BY <1>4, CoreFields, Zenon DEF Gained
<1>6. /\ walk' = Toured(request, Core, Outcome(status(rec), rec.reason, req, FALSE), kept(rec), cache(rec))
      /\ at' = [Core.at EXCEPT !.t = In(request, Core)!Turn]
  <2> DEFINE o == Outcome(status(rec), rec.reason, req, FALSE)
             C == cache(rec)
             S == kept(rec)
  <2>1. Visit(Turn, NextIn(Turn), o, S) /\ queries' = C /\ starts' = starts
    BY <1>1, <1>2
  <2> HIDE DEF o, C, S
  <2>2. walk' = Toured(request, Core, o, S, C) /\ at' = [Core.at EXCEPT !.t = In(request, Core)!Turn]
    BY <2>1, TourFunction
  <2>3. QED
    BY <2>2 DEF o, C, S
<1> HIDE DEF kept, found, cache, req, status
<1>7. Core' = Fetched(request, Core, rec)
  BY <1>1, <1>2, <1>3, <1>5, <1>6 DEF Core, graph
<1>8. QED
  BY <1>1, <1>7

\* A visit the cache answers.
Hitting == Waiting /\ ~AtFrontier /\ Cached(NextIn(Turn))

\* The step is After, with the record it keeps if it makes a request and what a cache
\* hit knows of the context.
Does(rec, over) ==
    /\ Core' = After(request, Core, rec, over) /\ over \in BOOLEAN
    /\ Asking => rec \in Invoked /\ Keep(rec) /\ Context(rec)
    /\ Hitting => /\ over <=> ctx = "over" \/ LearnsCancellation(Turn, NextIn(Turn))
                  /\ ctx' = IF over THEN "over" ELSE "open"
    /\ ~Asking /\ ~Hitting => ctx' = ctx

\* Every step of a run is After, given the record it kept and whether a cache hit
\* met a cancellation.
LEMMA StepFunction ==
    ASSUME Step, ~StartReplay, ~EndReplay
    PROVE  /\ UNCHANGED <<run, request, saved>> /\ at.step # "finish"
           /\ \E rec, over : Does(rec, over)
<1> USE DEF Does
<1>1. /\ In(request, Core)!Asking = Asking /\ Hits(request, Core) = Hitting
      /\ In(request, Core)!Waiting = Waiting /\ Core.at = at
  BY WalkReads, CoreFields DEF Hitting
<1>2. Asking => \A rec, over : After(request, Core, rec, over) = Answered(request, Core, rec)
  BY <1>1 DEF After
<1>3. ~Asking /\ Hitting => \A rec, over : After(request, Core, rec, over) = Hit(request, Core, over)
  BY <1>1 DEF After
<1>4. ~Asking /\ ~Hitting => \A rec, over : After(request, Core, rec, over) = Silent(request, Core)
  BY <1>1 DEF After
<1>5. Asking => ~Hitting
  BY DEF Asking, Hitting, Waiting, Calls
<1>6. ASSUME Asking, NEW rec \in Invoked, Keep(rec), Context(rec), Core' = Answered(request, Core, rec)
      PROVE  \E r, o : Does(r, o)
  <2>1. Does(rec, FALSE)
    BY <1>2, <1>5, <1>6
  <2>2. QED
    BY <2>1
<1>7. ASSUME ~Asking, ~Hitting, ctx' = ctx, Core' = Silent(request, Core)
      PROVE  \E r, o : Does(r, o)
  <2>1. Does(0, FALSE)
    BY <1>4, <1>7
  <2>2. QED
    BY <2>1
<1> DEFINE Goal == UNCHANGED <<run, request, saved>> /\ at.step # "finish" /\ \E rec, over : Does(rec, over)
<1> SUFFICES Goal
  OBVIOUS
<1> HIDE DEF Does
<1>8. CASE ResolveSupply
  <2>1. Asking /\ at.step = "supply"
    BY <1>8 DEF ResolveSupply, Asking, Calls
  <2>2. PICK rec \in Invoked : Keep(rec) /\ Context(rec) /\ Core' = Supplied(request, Core, rec)
    BY <1>8, SupplyFunction
  <2>3. Core' = Answered(request, Core, rec)
    BY <1>1, <2>1, <2>2 DEF Answered
  <2>4. QED
    BY <1>6, <1>8, <2>1, <2>2, <2>3 DEF ResolveSupply
<1>9. CASE ResolveSymbol
  <2>1. Asking /\ at.step = "symbols"
    BY <1>9 DEF ResolveSymbol, Asking, Calls
  <2>2. PICK rec \in Invoked : Keep(rec) /\ Context(rec) /\ Core' = Listed(request, Core, rec)
    BY <1>9, SymbolFunction
  <2>3. Core' = Answered(request, Core, rec)
    BY <1>1, <2>1, <2>2 DEF Answered
  <2>4. QED
    BY <1>6, <1>9, <2>1, <2>2, <2>3 DEF ResolveSymbol
<1>10. CASE ResolveProbe
  <2>1. Asking /\ at.step = "probe"
    BY <1>10 DEF ResolveProbe, Asking, Calls
  <2>2. PICK rec \in Invoked : Keep(rec) /\ Context(rec) /\ Core' = Probed(request, Core, rec)
    BY <1>10, ProbeFunction
  <2>3. Core' = Answered(request, Core, rec)
    BY <1>1, <2>1, <2>2 DEF Answered
  <2>4. QED
    BY <1>6, <1>10, <2>1, <2>2, <2>3 DEF ResolveProbe
<1>11. CASE SiblingSymbols
  <2>1. Asking /\ at.step = "siblings"
    BY <1>11 DEF SiblingSymbols, Asking, Calls
  <2>2. PICK rec \in Invoked : Keep(rec) /\ Context(rec) /\ Core' = Enumerated(request, Core, rec)
    BY <1>11, SiblingFunction
  <2>3. Core' = Answered(request, Core, rec)
    BY <1>1, <2>1, <2>2 DEF Answered
  <2>4. QED
    BY <1>6, <1>11, <2>1, <2>2, <2>3 DEF SiblingSymbols
<1>12. CASE SiblingProbe
  <2>1. Asking /\ at.step = "peer"
    BY <1>12 DEF SiblingProbe, Asking, Calls
  <2>2. PICK rec \in Invoked : Keep(rec) /\ Context(rec) /\ Core' = Examined(request, Core, rec)
    BY <1>12, PeerFunction
  <2>3. Core' = Answered(request, Core, rec)
    BY <1>1, <2>1, <2>2 DEF Answered
  <2>4. QED
    BY <1>6, <1>12, <2>1, <2>2, <2>3 DEF SiblingProbe
<1>13. CASE VisitQuery
  <2>1. Asking /\ at.step = "visit"
    BY <1>13 DEF VisitQuery, Asking, Waiting
  <2>2. PICK rec \in Invoked : Keep(rec) /\ Context(rec) /\ Core' = Fetched(request, Core, rec)
    BY <1>13, FetchFunction
  <2>3. Core' = Answered(request, Core, rec)
    BY <1>1, <2>1, <2>2 DEF Answered
  <2>4. QED
    BY <1>6, <1>13, <2>1, <2>2, <2>3 DEF VisitQuery
<1>14. CASE VisitCached
  <2>1. Hitting /\ ~Asking /\ at.step = "visit"
    BY <1>14 DEF VisitCached, Asking, Hitting, Waiting, Calls
  <2>2. PICK over \in BOOLEAN :
            /\ over <=> ctx = "over" \/ LearnsCancellation(Turn, NextIn(Turn))
            /\ ctx' = IF over THEN "over" ELSE "open"
            /\ Core' = Hit(request, Core, over)
    BY <1>14, HitFunction
  <2>3. Does(0, over)
    BY <1>3, <2>1, <2>2 DEF Does
  <2>4. QED
    BY <1>14, <2>1, <2>3 DEF VisitCached
<1>15. CASE VisitFrontier
  <2>1. Waiting /\ ~Hitting /\ ~Asking /\ at.step = "visit" /\ ctx' = ctx
    BY <1>15 DEF VisitFrontier, Asking, Hitting, Waiting, Calls
  <2>2. Core' = Silent(request, Core)
    BY <1>1, <1>15, <2>1, FrontierFunction DEF Silent
  <2>3. QED
    BY <1>7, <1>15, <2>1, <2>2 DEF VisitFrontier
<1>16. CASE EndTraversal
  <2>1. ~Waiting /\ ~Hitting /\ ~Asking /\ at.step = "visit" /\ ctx' = ctx
    BY <1>16 DEF EndTraversal, Asking, Hitting, Waiting, Calls
  <2>2. Core' = Silent(request, Core)
    BY <1>1, <1>16, <2>1, EndFunction DEF Silent
  <2>3. QED
    BY <1>7, <1>16, <2>1, <2>2 DEF EndTraversal
<1>17. CASE AdmitTargets
  <2>1. ~Hitting /\ ~Asking /\ at.step = "admit" /\ ctx' = ctx
    BY <1>17 DEF AdmitTargets, Asking, Hitting, Waiting, Calls
  <2>2. Core' = Silent(request, Core)
    BY <1>1, <1>17, <2>1, AdmitFunction DEF Silent
  <2>3. QED
    BY <1>7, <1>17, <2>1, <2>2 DEF AdmitTargets
<1>18. CASE BeginTraversal
  <2>1. ~Hitting /\ ~Asking /\ at.step = "begin" /\ ctx' = ctx
    BY <1>18 DEF BeginTraversal, Asking, Hitting, Waiting, Calls
  <2>2. Core' = Silent(request, Core)
    BY <1>1, <1>18, <2>1, BeginFunction DEF Silent
  <2>3. QED
    BY <1>7, <1>18, <2>1, <2>2 DEF BeginTraversal
<1>19. QED
  BY <1>8, <1>9, <1>10, <1>11, <1>12, <1>13, <1>14, <1>15, <1>16, <1>17, <1>18 DEF Step

-----------------------------------------------------------------------------
(* The live run as a trace, which the replay follows *)

\* A longer sequence.
Grown(a, b) == Len(a) <= Len(b) /\ \A i \in 1 .. Len(a) : b[i] = a[i]

\* The records and expansions of c are sequences.
Sized(q, c) ==
    Len(c.evidence[2]) \in Nat /\ \A way \in Directions, t \in DOMAIN q.locator : Len(c.walk[3][way][t]) \in Nat

\* From c to d records and expansions are only added.
Grows(q, c, d) ==
    /\ Grown(c.evidence[2], d.evidence[2])
    /\ \A way \in Directions, t \in DOMAIN q.locator : Grown(c.walk[3][way][t], d.walk[3][way][t])

\* A leg of a run: the state it leaves, the record it keeps and whether the context
\* was over.  The state `now` that the run has reached still shows the record and,
\* of a cache hit, whether it met the cancellation.
ShowsRecord(q, leg, now) ==
    LET k == Len(leg.from.evidence[2]) + 1
    IN  /\ leg.rec.call = In(q, leg.from)!Call /\ (Cancelling(leg.rec) <=> leg.over)
        /\ k \in 1 .. Len(now.evidence[2]) /\ now.evidence[2][k] = leg.rec
ShowsHit(q, leg, now) ==
    LET way == leg.from.at.d
        t == In(q, leg.from)!Turn
        k == Len(leg.from.walk[3][way][t]) + 1
        e == now.walk[3][way][t][k]
    IN  /\ way \in Directions /\ t \in DOMAIN q.locator /\ k \in 1 .. Len(now.walk[3][way][t])
        /\ e.node = In(q, leg.from)!NextIn(t)
        /\ leg.over <=> e.cached /\ e.status = "BUDGET_BLOCKED" /\ e.reason = "CANCELLED"
Leg(q, leg, next, now) ==
    /\ leg.over \in BOOLEAN /\ leg.from.at.step # "finish"
    /\ next = After(q, leg.from, leg.rec, leg.over)
    /\ In(q, leg.from)!Asking => ShowsRecord(q, leg, now)
    /\ Hits(q, leg.from) => ShowsHit(q, leg, now)

\* The i-th state of a run with the n legs of path that has reached now.
Nth(n, path, now, i) == IF i <= n THEN path[i].from ELSE now

\* path is a run of q to now, whose context was over from some leg on.
Trace(q, n, path, now) ==
    /\ Nth(n, path, now, 1) = Origin(q)
    /\ \A i \in 1 .. n : Leg(q, path[i], Nth(n, path, now, i + 1), now)
    /\ \A i, j \in 1 .. n : i <= j /\ path[i].over => path[j].over

\* Result, of the state c.
ResultOf(c) ==
    [res |-> c.res, adm |-> c.adm, nodes |-> c.graph[1], edges |-> c.graph[2], observed |-> c.graph[3],
     candidates |-> c.graph[4], starts |-> c.walk[2], exps |-> c.walk[3], members |-> c.walk[6],
     usage |-> c.evidence[1], complete |-> c.complete, records |-> c.evidence[2]]

\* A live run has a trace; while its context lasts no query was cancelled.
LiveTraced ==
    run = "live" =>
        /\ \E n \in Nat : \E path : Trace(request, n, path, Core) /\ \A i \in 1 .. n : path[i].over => ctx = "over"
        /\ ctx = "open" => \A k \in DOMAIN queries : queries[k].reason # "CANCELLED"

\* The state is the j-th of the trace of the run whose result the replay was given,
\* and the replay knows of a cancellation only where that run had met it.
Retraces(n, path, end, j) ==
    /\ Trace(request, n, path, end) /\ end.at.step = "finish" /\ Sized(request, end) /\ saved = ResultOf(end)
    /\ Core = Nth(n, path, end, j)
    /\ ctx = "over" /\ j <= n => path[j].over
    /\ run = "done" => j = n + 1

\* A replay follows the trace of the live run.
ReplayTraced == run # "live" => \E n \in Nat : \E path, end : \E j \in 1 .. n + 1 : Retraces(n, path, end, j)

\* A leg is still shown when the run has gone on.
LEMMA LegGrows ==
    ASSUME NEW q, NEW leg, NEW next, NEW c, NEW d, Leg(q, leg, next, c), Grows(q, c, d), Sized(q, c), Sized(q, d)
    PROVE  Leg(q, leg, next, d)
<1>1. ShowsRecord(q, leg, c) => ShowsRecord(q, leg, d)
  <2> DEFINE k == Len(leg.from.evidence[2]) + 1
  <2> HAVE ShowsRecord(q, leg, c)
  <2>1. /\ leg.rec.call = In(q, leg.from)!Call /\ (Cancelling(leg.rec) <=> leg.over)
        /\ k \in 1 .. Len(c.evidence[2]) /\ c.evidence[2][k] = leg.rec
    BY Zenon DEF ShowsRecord
  <2> HIDE DEF k
  <2>2. k \in 1 .. Len(d.evidence[2]) /\ d.evidence[2][k] = c.evidence[2][k]
    BY <2>1 DEF Grows, Grown, Sized
  <2>3. QED
    BY <2>1, <2>2, Zenon DEF ShowsRecord, k
<1>2. ShowsHit(q, leg, c) => ShowsHit(q, leg, d)
  <2> DEFINE way == leg.from.at.d
             t == In(q, leg.from)!Turn
             k == Len(leg.from.walk[3][way][t]) + 1
  <2> HAVE ShowsHit(q, leg, c)
  <2>1. /\ way \in Directions /\ t \in DOMAIN q.locator /\ k \in 1 .. Len(c.walk[3][way][t])
        /\ c.walk[3][way][t][k].node = In(q, leg.from)!NextIn(t)
        /\ leg.over <=> /\ c.walk[3][way][t][k].cached /\ c.walk[3][way][t][k].status = "BUDGET_BLOCKED"
                        /\ c.walk[3][way][t][k].reason = "CANCELLED"
    BY Zenon DEF ShowsHit
  <2> HIDE DEF k, way, t
  <2>2. k \in 1 .. Len(d.walk[3][way][t]) /\ d.walk[3][way][t][k] = c.walk[3][way][t][k]
    <3>1. PICK a, b : a = c.walk[3][way][t] /\ b = d.walk[3][way][t]
      OBVIOUS
    <3>2. Grown(a, b) /\ Len(a) \in Nat /\ Len(b) \in Nat /\ k \in 1 .. Len(a)
      BY <2>1, <3>1, Zenon DEF Grows, Sized
    <3>3. k \in 1 .. Len(b) /\ b[k] = a[k]
      BY <3>2 DEF Grown
    <3>4. QED
      BY <3>1, <3>3, Zenon
  <2>3. QED
    BY <2>1, <2>2, Zenon DEF ShowsHit, k, way, t
<1>3. QED
  BY <1>1, <1>2 DEF Leg

\* One more leg makes a longer trace.
LEMMA TraceExtends ==
    ASSUME NEW q, NEW n \in Nat, NEW path, NEW c, NEW d, NEW leg, Trace(q, n, path, c), leg.from = c,
           Leg(q, leg, d, d), Grows(q, c, d), \A i \in 1 .. n : path[i].over => leg.over, Sized(q, c), Sized(q, d),
           NEW longer, longer = [i \in 1 .. n + 1 |-> IF i <= n THEN path[i] ELSE leg]
    PROVE  Trace(q, n + 1, longer, d)
<1>1. (\A i \in 1 .. n : longer[i] = path[i]) /\ longer[n + 1] = leg
  OBVIOUS
<1>2. \A i \in 1 .. n + 1 : Nth(n + 1, longer, d, i) = Nth(n, path, c, i)
  BY <1>1 DEF Nth
<1>3. Nth(n + 1, longer, d, n + 2) = d
  BY DEF Nth
<1>4. Nth(n + 1, longer, d, 1) = Origin(q)
  BY <1>2 DEF Trace
<1>5. ASSUME NEW i \in 1 .. n + 1 PROVE Leg(q, longer[i], Nth(n + 1, longer, d, i + 1), d)
  <2>1. CASE i \in 1 .. n
    <3>1. Leg(q, path[i], Nth(n, path, c, i + 1), c)
      BY <2>1 DEF Trace
    <3>2. Nth(n + 1, longer, d, i + 1) = Nth(n, path, c, i + 1)
      BY <1>2, <2>1
    <3>3. QED
      BY <1>1, <2>1, <3>1, <3>2, LegGrows
  <2>2. CASE i = n + 1
    BY <1>1, <1>3, <2>2
  <2>3. QED
    BY <2>1, <2>2
<1>6. ASSUME NEW i \in 1 .. n + 1, NEW j \in 1 .. n + 1, i <= j, longer[i].over PROVE longer[j].over
  <2>1. CASE j \in 1 .. n
    BY <1>1, <1>6, <2>1 DEF Trace
  <2>2. CASE j = n + 1
    <3>1. CASE i = n + 1
      BY <1>1, <1>6, <2>2, <3>1
    <3>2. CASE i \in 1 .. n
      BY <1>1, <1>6, <2>2, <3>2
    <3>3. QED
      BY <3>1, <3>2
  <2>3. QED
    BY <2>1, <2>2
<1>7. QED
  BY <1>4, <1>5, <1>6 DEF Trace

\* A sequence grows when an element is appended.
LEMMA AppendGrows ==
    ASSUME NEW S, NEW s \in Seq(S), NEW x
    PROVE  Grown(s, Append(s, x)) /\ Append(s, x)[Len(s) + 1] = x /\ Len(Append(s, x)) = Len(s) + 1
<1>1. s \in Seq(S \cup {x}) /\ x \in S \cup {x}
  OBVIOUS
<1>2. QED
  BY <1>1, Appended DEF Grown

\* After does not look at the record unless the state asks, nor at the context unless
\* it hits the cache.
LEMMA AfterReads ==
    ASSUME NEW q, NEW c, NEW r1, NEW r2, NEW o1, NEW o2, In(q, c)!Asking => r1 = r2, Hits(q, c) => o1 = o2
    PROVE  After(q, c, r1, o1) = After(q, c, r2, o2)
BY Zenon DEF After

\* A visit only appends to the expansions of the target whose turn it is.
LEMMA VisitGrows ==
    ASSUME Trail, NEW t, NEW n, NEW o, NEW S, Visit(t, n, o, S)
    PROVE  \A way \in Directions, u \in Targets : Grown(exps[way][u], exps'[way][u])
<1> SUFFICES ASSUME NEW way \in Directions, NEW u \in Targets PROVE Grown(exps[way][u], exps'[way][u])
  OBVIOUS
<1>1. PICK x : exps' = [exps EXCEPT ![at.d][t] = Append(@, x)]
  BY Zenon DEF Visit
<1>2. exps \in [Directions -> [Targets -> Seq(Expansions)]] /\ exps[way][u] \in Seq(Expansions)
  BY DEF Trail
<1>3. exps'[way][u] = exps[way][u] \/ exps'[way][u] = Append(exps[way][u], x)
  <2>1. exps[way] \in [Targets -> Seq(Expansions)] /\ way \in DOMAIN exps /\ u \in DOMAIN exps[way]
    BY <1>2
  <2>2. CASE way # at.d
    BY <1>1, <2>1, <2>2
  <2>3. CASE way = at.d
    <3>1. exps'[way] = [exps[way] EXCEPT ![t] = Append(@, x)]
      BY <1>1, <2>1, <2>3
    <3>2. QED
      BY <2>1, <3>1
  <2>4. QED
    BY <2>2, <2>3
<1>4. Grown(exps[way][u], exps[way][u])
  BY <1>2 DEF Grown
<1>5. Grown(exps[way][u], Append(exps[way][u], x))
  BY <1>2, AppendGrows
<1>6. QED
  BY <1>3, <1>4, <1>5

\* Every step of a run only adds records and expansions.
LEMMA StepGrows ==
    ASSUME AcquisitionInv, Step, ~StartReplay, ~EndReplay
    PROVE  Grows(request, Core, Core')
<1>1. records \in Seq(Retained) /\ Trail
  BY DEF AcquisitionInv, Control
<1>2. Grown(records, records)
  BY <1>1 DEF Grown
<1>3. \A way \in Directions, t \in Targets : Grown(exps[way][t], exps[way][t])
  BY <1>1 DEF Trail, Grown
<1>4. Grown(records, records')
  <2>1. CASE \E rec : Keep(rec)
    BY <1>1, <2>1, AppendGrows DEF Keep
  <2>2. CASE UNCHANGED records
    BY <1>2, <2>2
  <2>3. QED
    BY <2>1, <2>2 DEF Step, ResolveSupply, ResolveSymbol, ResolveProbe, AdmitTargets, SiblingSymbols, SiblingProbe,
          BeginTraversal, VisitFrontier, VisitCached, VisitQuery, EndTraversal, evidence
<1>5. \A way \in Directions, t \in Targets : Grown(exps[way][t], exps'[way][t])
  <2>1. CASE \E t, n, o, S : Visit(t, n, o, S)
    BY <1>1, <2>1, VisitGrows
  <2>2. CASE UNCHANGED exps
    BY <1>3, <2>2
  <2>3. CASE VisitFrontier \/ VisitCached \/ VisitQuery
    BY <2>1, <2>3 DEF VisitFrontier, VisitCached, VisitQuery
  <2>4. QED
    BY <2>2, <2>3 DEF Step, ResolveSupply, ResolveSymbol, ResolveProbe, AdmitTargets, SiblingSymbols, SiblingProbe,
          BeginTraversal, EndTraversal, walk
<1>6. Core'.evidence[2] = records' /\ Core'.walk[3] = exps'
  BY DEF Core, State, evidence, walk
<1>7. QED
  BY <1>4, <1>5, <1>6, CoreFields DEF Grows, Targets, Locator

\* What a cache hit of a live run leaves shows whether the context was over.
LEMMA HitShows ==
    ASSUME AcquisitionInv, run = "live", VisitCached, ctx = "open" => \A k \in DOMAIN queries : queries[k].reason # "CANCELLED",
           NEW leg, leg.from = Core, leg.over = (ctx = "over")
    PROVE  ShowsHit(request, leg, Core')
<1> DEFINE n == NextIn(Turn)
           q == queries[<<at.d, n>>]
           k == Len(exps[at.d][Turn]) + 1
<1>1. Control /\ Trail /\ Waiting /\ <<at.d, n>> \in DOMAIN queries /\ ctx \in {"open", "over"} /\ at.d \in Directions
  BY DEF AcquisitionInv, VisitCached, Cached, Control, Places
<1>2. Turn \in Targets /\ exps \in [Directions -> [Targets -> Seq(Expansions)]]
  BY <1>1, TurnFacts DEF Trail
<1>3. ~LearnsCancellation(Turn, n)
  BY DEF LearnsCancellation
<1>4. PICK status, reason, S :
        /\ Visit(Turn, n, Outcome(status, reason, q.req, TRUE), S)
        /\ ctx = "over" => status = "BUDGET_BLOCKED" /\ reason = "CANCELLED"
        /\ ctx = "open" => reason = q.reason
  <2>1. CASE ctx = "over"
    BY <2>1 DEF VisitCached
  <2>2. CASE ctx = "open"
    BY <1>3, <2>2 DEF VisitCached
  <2>3. QED
    BY <1>1, <2>1, <2>2
<1>5. PICK e : e = Expansion(n, DepthOf(Turn, n), Outcome(status, reason, q.req, TRUE))
  OBVIOUS
<1>6. e.node = n /\ e.cached = TRUE /\ e.status = status /\ e.reason = reason
  BY <1>5 DEF Expansion, Outcome
<1>7. exps' = [exps EXCEPT ![at.d][Turn] = Append(@, e)]
  BY <1>4, <1>5, Zenon DEF Visit
<1>8. exps'[at.d][Turn] = Append(exps[at.d][Turn], e) /\ exps[at.d][Turn] \in Seq(Expansions)
  BY <1>1, <1>2, <1>7
<1>9. k \in 1 .. Len(exps'[at.d][Turn]) /\ exps'[at.d][Turn][k] = e
  BY <1>8, AppendGrows
<1>10. leg.over <=> e.cached /\ e.status = "BUDGET_BLOCKED" /\ e.reason = "CANCELLED"
  BY <1>1, <1>4, <1>6
<1>11. Core'.walk[3] = exps'
  BY DEF Core, State, walk
<1>12. /\ In(request, Core)!Turn = Turn /\ In(request, Core)!NextIn(Turn) = n /\ Core.at.d = at.d /\ Core.walk[3] = exps
       /\ DOMAIN request.locator = Targets
  BY WalkReads, CoreFields DEF Targets, Locator
<1> HIDE DEF n
<1>13. QED
  BY <1>1, <1>2, <1>6, <1>9, <1>10, <1>11, <1>12, Zenon DEF ShowsHit

\* While the context of a live run lasts, no query it makes is cancelled.
LEMMA LiveReasons ==
    ASSUME AcquisitionInv, run = "live", Step, ~StartReplay, ~EndReplay, ctx = "open",
           \A k \in DOMAIN queries : queries[k].reason # "CANCELLED"
    PROVE  \A k \in DOMAIN queries' : queries'[k].reason # "CANCELLED"
<1>1. CASE UNCHANGED queries
  BY <1>1
<1>2. CASE VisitQuery
  <2>1. PICK rec \in Invoked : \E kept : Remember(NextIn(Turn), [status |-> QueryStatus(rec, kept), reason |-> rec.reason,
                                                                req |-> Len(records) + 1, neighbours |-> kept])
    BY <1>2, Zenon DEF VisitQuery
  <2>2. rec.reason # "CANCELLED"
    BY LiveSound DEF AcquisitionInv, Invoked
  <2>3. QED
    BY <2>1, <2>2 DEF Remember
<1>3. QED
  BY <1>1, <1>2 DEF Step, ResolveSupply, ResolveSymbol, ResolveProbe, AdmitTargets, SiblingSymbols, SiblingProbe,
        BeginTraversal, VisitFrontier, VisitCached, EndTraversal, walk

\* What AcquisitionInv says of the sequences of a trace.
LEMMA CoreSized == ASSUME AcquisitionInv PROVE Sized(request, Core)
<1>1. records \in Seq(Retained) /\ exps \in [Directions -> [Targets -> Seq(Expansions)]]
  BY DEF AcquisitionInv, Control, Trail
<1>2. Len(records) \in Nat /\ \A way \in Directions, t \in Targets : Len(exps[way][t]) \in Nat
  BY <1>1
<1>3. QED
  BY <1>2, CoreFields DEF Sized, Targets, Locator

\* A step of a live run is one more leg of its trace.
LEMMA LiveStep ==
    ASSUME AcquisitionInv, AcquisitionInv', LiveTraced, run = "live", Step, ~StartReplay, ~EndReplay
    PROVE  LiveTraced'
<1>1. PICK n, path : n \in Nat /\ Trace(request, n, path, Core) /\ \A i \in 1 .. n : path[i].over => ctx = "over"
  BY DEF LiveTraced
<1>2. /\ UNCHANGED <<run, request, saved>> /\ at.step # "finish"
      /\ \E rec, over : Does(rec, over)
  BY StepFunction
<1>3. PICK rec, over : Does(rec, over)
  BY <1>2
<1>4. PICK leg : leg = [from |-> Core, rec |-> rec, over |-> ctx = "over"]
  OBVIOUS
<1>5. leg.from = Core /\ leg.rec = rec /\ leg.over = (ctx = "over")
  BY <1>4
<1>6. /\ Control /\ Budget /\ Resolved /\ Walks /\ ctx \in {"open", "over"} /\ records \in Seq(Retained)
      /\ ~LearnsCancellation(Turn, NextIn(Turn))
  BY DEF AcquisitionInv, Control, LearnsCancellation
<1>7. ctx' = ctx /\ (Hitting => over = leg.over)
  BY <1>3, <1>5, <1>6 DEF Does, Context
<1>8. In(request, Core)!Asking = Asking /\ Hits(request, Core) = Hitting /\ In(request, Core)!Call = Call
  BY WalkReads DEF Hitting
<1>9. Core' = After(request, leg.from, leg.rec, leg.over)
  BY <1>3, <1>5, <1>7, <1>8, AfterReads DEF Does
<1>10. Asking => ShowsRecord(request, leg, Core')
  <2> HAVE Asking
  <2>1. Due(rec)
    BY <1>3, <1>6, InvokedFits DEF Does, Asking
  <2>2. rec.call = Call /\ (Cancelling(rec) <=> ctx = "over")
    BY <1>3, <1>6, <2>1, LiveSound DEF Does, Due, Invoked, Cancelling
  <2>3. records' = Append(records, rec)
    BY <1>3 DEF Does, Keep
  <2>4. Len(records) + 1 \in 1 .. Len(records') /\ records'[Len(records) + 1] = rec
    BY <1>6, <2>3, AppendGrows
  <2>5. Core'.evidence[2] = records' /\ Core.evidence[2] = records
    BY CoreFields DEF Core, State, evidence
  <2>6. QED
    BY <1>5, <1>8, <2>2, <2>4, <2>5 DEF ShowsRecord
<1>11. Hitting => ShowsHit(request, leg, Core')
  <2>1. Hitting => VisitCached
    BY DEF Hitting, Step, VisitCached, ResolveSupply, ResolveSymbol, ResolveProbe, AdmitTargets, SiblingSymbols, SiblingProbe,
        BeginTraversal, VisitFrontier, VisitQuery, EndTraversal, Waiting
  <2>2. QED
    BY <1>5, <2>1, HitShows DEF LiveTraced
<1>12. Leg(request, leg, Core', Core')
  <2>1. leg.over \in BOOLEAN /\ leg.from.at.step # "finish"
    BY <1>2, <1>5, CoreFields
  <2>2. QED
    BY <1>5, <1>8, <1>9, <1>10, <1>11, <2>1 DEF Leg
<1>13. Grows(request, Core, Core')
  BY StepGrows
<1>14. Sized(request, Core')
  <2>1. records' \in Seq(Retained') /\ exps' \in [Directions -> [Targets' -> Seq(Expansions')]]
    BY DEF AcquisitionInv, Control, Trail
  <2>2. Targets' = DOMAIN request.locator
    BY <1>2 DEF Targets, Locator
  <2>3. Len(records') \in Nat /\ \A way \in Directions, t \in Targets' : Len(exps'[way][t]) \in Nat
    BY <2>1
  <2>4. Core'.evidence[2] = records' /\ Core'.walk[3] = exps'
    BY DEF Core, State, evidence, walk
  <2>5. QED
    BY <2>2, <2>3, <2>4 DEF Sized
<1>15. PICK longer : longer = [i \in 1 .. n + 1 |-> IF i <= n THEN path[i] ELSE leg]
  OBVIOUS
<1>16. Trace(request, n + 1, longer, Core')
  <2>1. \A i \in 1 .. n : path[i].over => leg.over
    BY <1>1, <1>5
  <2>2. QED
    BY <1>1, <1>5, <1>12, <1>13, <1>14, <1>15, <2>1, CoreSized, TraceExtends
<1>17. \A i \in 1 .. n + 1 : longer[i].over => ctx' = "over"
  <2>1. \A i \in 1 .. n : longer[i] = path[i]
    BY <1>1, <1>15
  <2>2. longer[n + 1] = leg
    BY <1>1, <1>15
  <2>3. \A i \in 1 .. n + 1 : i \in 1 .. n \/ i = n + 1
    BY <1>1
  <2>4. QED
    BY <1>1, <1>5, <1>7, <2>1, <2>2, <2>3, Zenon
<1>18. n + 1 \in Nat
  BY <1>1
<1>19. ctx' = "open" => \A k \in DOMAIN queries' : queries'[k].reason # "CANCELLED"
  BY <1>7, LiveReasons DEF LiveTraced
<1>20. request' = request
  BY <1>2
<1>21. QED
  BY <1>16, <1>17, <1>18, <1>19, <1>20 DEF LiveTraced

\* The origin of a run.
LEMMA FreshCore ==
    ASSUME at = Here(FirstStep(1), 1), usage = NoUsage, records = <<>>, res = Unresolved, adm = NotAdmitted,
           nodes = {}, edges = {}, observed = {}, candidates = {}, queries = NoQueries, starts = NoStarts,
           exps = NoExpansions, queue = Nothing, depth = Nothing, members = Nothing, complete = TRUE
    PROVE  Core = Origin(request)
<1>1. In(request, 0)!FirstStep(1) = FirstStep(1)
  BY DEF In!FirstStep, FirstStep, In!Locator, Locator
<1>2. QED
  BY <1>1 DEF Core, Origin, State, evidence, graph, walk, Unresolved, NotAdmitted, Nothing, NoStarts, NoExpansions, Targets, Locator

\* A live run starts with no legs.
LEMMA LiveInit == AcquisitionInit => LiveTraced /\ ReplayTraced
<1> SUFFICES ASSUME AcquisitionInit PROVE LiveTraced /\ ReplayTraced
  OBVIOUS
<1>1. Core = Origin(request)
  BY FreshCore DEF AcquisitionInit
<1>2. Trace(request, 0, <<>>, Core)
  BY <1>1 DEF Trace, Nth
<1>3. DOMAIN queries = {} /\ run = "live"
  BY DEF AcquisitionInit, NoQueries
<1>4. QED
  BY <1>2, <1>3 DEF LiveTraced, ReplayTraced

\* The replay starts where the live run did, with its trace.
LEMMA ReplayStarts ==
    ASSUME AcquisitionInv, LiveTraced, StartReplay
    PROVE  LiveTraced' /\ ReplayTraced'
<1>1. run = "live" /\ at.step = "finish" /\ run' = "replay" /\ request' = request /\ ctx' = "open" /\ saved' = Result
  BY DEF StartReplay
<1>2. PICK n, path : n \in Nat /\ Trace(request, n, path, Core)
  BY <1>1 DEF LiveTraced
<1>3. PICK end, q : end = Core /\ q = request
  OBVIOUS
<1>4. Core' = Origin(q)
  <2>1. In(request, 0)!FirstStep(1) = FirstStep(1)
    BY DEF In!FirstStep, FirstStep, In!Locator, Locator
  <2>2. QED
    BY <1>3, <2>1 DEF StartReplay, Core, Origin, State, evidence, graph, walk, Unresolved, NotAdmitted, Nothing, NoStarts,
          NoExpansions, Targets, Locator
<1>5. saved' = ResultOf(end) /\ end.at.step = "finish" /\ Sized(q, end)
  BY <1>1, <1>3, CoreFields, CoreSized DEF Result, ResultOf
<1>6. Trace(q, n, path, end) /\ Nth(n, path, end, 1) = Origin(q)
  BY <1>2, <1>3 DEF Trace
<1>7. request' = q /\ 1 \in 1 .. n + 1
  BY <1>1, <1>2, <1>3
<1>8. Retraces(n, path, end, 1)'
  BY <1>1, <1>4, <1>5, <1>6, <1>7 DEF Retraces
<1>9. QED
  BY <1>1, <1>2, <1>7, <1>8 DEF LiveTraced, ReplayTraced

\* Where the replay stands on the trace, the live run made the same request or the
\* same cache hit, and the saved result shows what came of it.
LEMMA OnTrace ==
    ASSUME AcquisitionInv, run = "replay", at.step # "finish", NEW n \in Nat, NEW path, NEW end, NEW j \in 1 .. n + 1,
           Retraces(n, path, end, j)
    PROVE  /\ j \in 1 .. n /\ path[j].over \in BOOLEAN /\ (ctx = "over" => path[j].over)
           /\ Nth(n, path, end, j + 1) = After(request, Core, path[j].rec, path[j].over)
           /\ Asking => /\ path[j].rec.call = Call /\ (Cancelling(path[j].rec) <=> path[j].over)
                        /\ Len(records) + 1 \in 1 .. Len(saved.records) /\ saved.records[Len(records) + 1] = path[j].rec
           /\ Hitting => (path[j].over <=> LearnsCancellation(Turn, NextIn(Turn)))
<1>1. /\ Trace(request, n, path, end) /\ end.at.step = "finish" /\ Core = Nth(n, path, end, j)
      /\ ctx = "over" /\ j <= n => path[j].over
      /\ saved.records = end.evidence[2] /\ saved.exps = end.walk[3] /\ Sized(request, end)
  BY DEF Retraces, ResultOf
<1>2. j \in 1 .. n
  <2>1. CASE j = n + 1
    <3>1. Core = end
      BY <1>1, <2>1 DEF Nth
    <3>2. QED
      BY <1>1, <3>1, CoreFields
  <2>2. QED
    BY <2>1
<1>3. PICK leg : leg = path[j]
  OBVIOUS
<1>4. leg.from = Core
  BY <1>1, <1>2, <1>3 DEF Nth
<1>5. Leg(request, leg, Nth(n, path, end, j + 1), end)
  BY <1>1, <1>2, <1>3 DEF Trace
<1>6. In(request, Core)!Asking = Asking /\ Hits(request, Core) = Hitting /\ In(request, Core)!Call = Call
  BY WalkReads DEF Hitting
<1>7. leg.over \in BOOLEAN /\ Nth(n, path, end, j + 1) = After(request, Core, leg.rec, leg.over)
  BY <1>4, <1>5 DEF Leg
<1>8. Asking => /\ leg.rec.call = Call /\ (Cancelling(leg.rec) <=> leg.over)
                /\ Len(records) + 1 \in 1 .. Len(saved.records) /\ saved.records[Len(records) + 1] = leg.rec
  <2> HAVE Asking
  <2>1. ShowsRecord(request, leg, end)
    BY <1>4, <1>5, <1>6 DEF Leg
  <2>2. Core.evidence[2] = records
    BY CoreFields
  <2>3. QED
    BY <1>1, <1>4, <1>6, <2>1, <2>2, Zenon DEF ShowsRecord
<1>9. Hitting => (leg.over <=> LearnsCancellation(Turn, NextIn(Turn)))
  <2> HAVE Hitting
  <2> DEFINE k == Len(exps[at.d][Turn]) + 1
             e == saved.exps[at.d][Turn][k]
  <2>1. ShowsHit(request, leg, end)
    BY <1>4, <1>5, <1>6 DEF Leg
  <2>2. /\ In(request, Core)!Turn = Turn /\ In(request, Core)!NextIn(Turn) = NextIn(Turn) /\ Core.at.d = at.d
        /\ Core.walk[3] = exps
    BY WalkReads, CoreFields
  <2>3. /\ k \in 1 .. Len(saved.exps[at.d][Turn]) /\ e.node = NextIn(Turn)
        /\ leg.over <=> e.cached /\ e.status = "BUDGET_BLOCKED" /\ e.reason = "CANCELLED"
    BY <1>1, <1>4, <2>1, <2>2, Zenon DEF ShowsHit
  <2>4. PICK a, b : a = Len(exps[at.d][Turn]) /\ b = Len(saved.exps[at.d][Turn])
    OBVIOUS
  <2>5. a \in Nat /\ b \in Nat /\ a + 1 \in 1 .. b
    <3>1. Control /\ Trail /\ Waiting /\ at.d \in Directions
      BY DEF AcquisitionInv, Control, Places, Hitting
    <3>2. Turn \in Targets
      BY <3>1, TurnFacts
    <3>3. exps[at.d][Turn] \in Seq(Expansions)
      BY <3>1, <3>2 DEF Trail
    <3>4. b \in Nat
      BY <1>1, <2>4, <3>1, <3>2 DEF Sized, Targets, Locator
    <3>5. QED
      BY <2>3, <2>4, <3>3, <3>4
  <2>6. b > a
    BY <2>5
  <2>7. Len(saved.exps[at.d][Turn]) > Len(exps[at.d][Turn])
    BY <2>4, <2>6
  <2>8. QED
    BY <2>3, <2>7, Zenon DEF LearnsCancellation
<1>10. QED
  BY <1>1, <1>2, <1>3, <1>7, <1>8, <1>9

\* A step of the replay is the next leg.
LEMMA ReplayFollows ==
    ASSUME AcquisitionInv, ReplayTraced, run = "replay", Step, ~StartReplay, ~EndReplay
    PROVE  ReplayTraced'
<1>1. PICK n \in Nat : \E path, end : \E j \in 1 .. n + 1 : Retraces(n, path, end, j)
  BY DEF ReplayTraced
<1>2. PICK path, end : \E j \in 1 .. n + 1 : Retraces(n, path, end, j)
  BY <1>1
<1>3. PICK j \in 1 .. n + 1 : Retraces(n, path, end, j)
  BY <1>2
<1>4. /\ UNCHANGED <<run, request, saved>> /\ at.step # "finish"
      /\ \E rec, over : Does(rec, over)
  BY StepFunction
<1>5. PICK rec, over : Does(rec, over)
  BY <1>4
<1>6. PICK leg : leg = path[j]
  OBVIOUS
<1>7. /\ j \in 1 .. n /\ leg.over \in BOOLEAN /\ (ctx = "over" => leg.over)
      /\ Nth(n, path, end, j + 1) = After(request, Core, leg.rec, leg.over)
      /\ Asking => /\ leg.rec.call = Call /\ (Cancelling(leg.rec) <=> leg.over)
                   /\ saved.records[Len(records) + 1] = leg.rec
      /\ Hitting => (leg.over <=> LearnsCancellation(Turn, NextIn(Turn)))
  BY <1>3, <1>4, <1>6, OnTrace
<1>8. Asking => rec = leg.rec
  BY <1>5, <1>7 DEF Does, Invoked, ReplayRecords
<1>9. Hitting => over = leg.over
  BY <1>5, <1>7 DEF Does
<1>10. Core' = Nth(n, path, end, j + 1)
  <2>1. In(request, Core)!Asking = Asking /\ Hits(request, Core) = Hitting
    BY WalkReads DEF Hitting
  <2>2. QED
    BY <1>5, <1>7, <1>8, <1>9, <2>1, AfterReads DEF Does
<1>11. ctx' = "over" => leg.over
  <2>1. CASE Asking
    BY <1>5, <1>7, <1>8, <2>1 DEF Does, Context
  <2>2. CASE Hitting
    BY <1>5, <1>7, <1>9, <2>2 DEF Does
  <2>3. CASE ~Asking /\ ~Hitting
    BY <1>5, <1>7, <2>3 DEF Does
  <2>4. QED
    BY <2>1, <2>2, <2>3
<1>12. ctx' = "over" /\ j + 1 <= n => path[j + 1].over
  <2>1. j + 1 <= n => j + 1 \in 1 .. n /\ j <= j + 1
    BY <1>7
  <2>2. \A i, k \in 1 .. n : i <= k /\ path[i].over => path[k].over
    BY <1>3 DEF Retraces, Trace
  <2>3. QED
    BY <1>6, <1>7, <1>11, <2>1, <2>2
<1>13. Trace(request, n, path, end) /\ end.at.step = "finish" /\ Sized(request, end) /\ saved = ResultOf(end)
  BY <1>3 DEF Retraces
<1>14. run' = "replay" /\ request' = request /\ saved' = saved
  BY <1>4
<1>15. Retraces(n, path, end, j + 1)'
  BY <1>10, <1>12, <1>13, <1>14 DEF Retraces
<1>16. j + 1 \in 1 .. n + 1
  BY <1>7
<1>17. QED
  BY <1>15, <1>16 DEF ReplayTraced

\* The replay ends where the live run did.
LEMMA ReplayEnds ==
    ASSUME AcquisitionInv, ReplayTraced, EndReplay
    PROVE  ReplayTraced'
<1>1. /\ run = "replay" /\ at.step = "finish" /\ run' = "done"
      /\ UNCHANGED <<request, at, ctx, evidence, res, adm, graph, walk, complete, saved>>
  BY DEF EndReplay
<1>2. PICK n \in Nat : \E path, end : \E j \in 1 .. n + 1 : Retraces(n, path, end, j)
  BY <1>1 DEF ReplayTraced
<1>3. PICK path, end : \E j \in 1 .. n + 1 : Retraces(n, path, end, j)
  BY <1>2
<1>4. PICK j \in 1 .. n + 1 : Retraces(n, path, end, j)
  BY <1>3
<1>5. Core' = Core
  BY <1>1 DEF Core, State
<1>6. j = n + 1
  <2>1. CASE j \in 1 .. n
    <3>1. Core = path[j].from /\ Leg(request, path[j], Nth(n, path, end, j + 1), end)
      BY <1>4, <2>1 DEF Retraces, Nth, Trace
    <3>2. Core.at.step # "finish"
      BY <3>1 DEF Leg
    <3>3. QED
      BY <1>1, <3>2, CoreFields
  <2>2. QED
    BY <2>1
<1>7. Retraces(n, path, end, j)'
  BY <1>1, <1>4, <1>5, <1>6 DEF Retraces
<1>8. QED
  BY <1>7 DEF ReplayTraced

\* Every step keeps the run on its trace.
LEMMA TracedStep ==
    AcquisitionInv /\ AcquisitionInv' /\ LiveTraced /\ ReplayTraced /\ [AcquisitionNext]_vars => LiveTraced' /\ ReplayTraced'
<1> SUFFICES ASSUME AcquisitionInv, AcquisitionInv', LiveTraced, ReplayTraced, [AcquisitionNext]_vars
             PROVE  LiveTraced' /\ ReplayTraced'
  OBVIOUS
<1>1. run \in {"live", "replay", "done"}
  BY DEF AcquisitionInv, Control
<1>2. CASE StartReplay
  BY <1>2, ReplayStarts
<1>3. CASE EndReplay
  BY <1>3, ReplayEnds DEF LiveTraced, EndReplay
<1>4. CASE Step /\ ~StartReplay /\ ~EndReplay
  <2>1. run' = run /\ run # "done"
    BY <1>4, StepFunction DEF Step
  <2>2. CASE run = "live"
    BY <1>4, <2>1, <2>2, LiveStep DEF ReplayTraced
  <2>3. CASE run = "replay"
    BY <1>4, <2>1, <2>3, ReplayFollows DEF LiveTraced
  <2>4. QED
    BY <1>1, <2>1, <2>2, <2>3
<1>5. CASE Expire
  <2>1. /\ run = "live" /\ run' = run /\ request' = request /\ ctx' = "over"
        /\ UNCHANGED <<at, evidence, res, adm, graph, walk, complete>>
    BY <1>5 DEF Expire
  <2>2. Core' = Core
    BY <2>1 DEF Core, State
  <2>3. QED
    BY <2>1, <2>2 DEF LiveTraced, ReplayTraced
<1>6. CASE UNCHANGED vars
  <2>1. UNCHANGED <<run, request, ctx, saved, queries>> /\ Core' = Core
    BY <1>6 DEF vars, walk, Core, State
  <2>2. LiveTraced'
    BY <2>1 DEF LiveTraced
  <2>3. ReplayTraced'
    BY <2>1 DEF ReplayTraced, Retraces
  <2>4. QED
    BY <2>2, <2>3
<1>7. QED
  BY <1>2, <1>3, <1>4, <1>5, <1>6 DEF AcquisitionNext, Terminated

\* The retained records determine the result: the replay asks for exactly the
\* recorded requests in their order, never meets one it refuses, and ends with the
\* result of the live run, whatever the server answered and wherever the context
\* ended (validateRecordReplay).
THEOREM AcquisitionReplays == AcquisitionSpec => []ReplayAgrees
<1>1. ASSUME AcquisitionInv, ReplayAccounts, ReplayTraced PROVE ReplayAgrees
  <2>1. ASSUME run = "replay", Asking PROVE Invoked # {}
    <3>1. PICK n \in Nat : \E path, end : \E j \in 1 .. n + 1 : Retraces(n, path, end, j)
      BY <1>1, <2>1 DEF ReplayTraced
    <3>2. PICK path, end : \E j \in 1 .. n + 1 : Retraces(n, path, end, j)
      BY <3>1
    <3>3. PICK j \in 1 .. n + 1 : Retraces(n, path, end, j)
      BY <3>2
    <3>4. at.step # "finish"
      BY <2>1 DEF Asking, Calls, Waiting
    <3>5. PICK rec : rec = saved.records[Len(records) + 1]
      OBVIOUS
    <3>6. /\ ctx = "over" => Cancelling(rec)
          /\ rec.call = Call /\ Len(records) + 1 \in 1 .. Len(saved.records)
      BY <1>1, <2>1, <3>3, <3>4, <3>5, OnTrace
    <3>7. ctx = "open" \/ Cancelling(rec)
      BY <1>1, <3>6 DEF AcquisitionInv, Control
    <3>8. Len(records) \in Nat /\ Len(saved.records) \in Nat
      BY <1>1, <2>1 DEF AcquisitionInv, Control
    <3>9. Len(records) + 1 <= Len(saved.records) /\ Motivated(rec, Call)
      BY <1>1, <2>1, <3>5, <3>6, <3>7, <3>8 DEF ReplayAccounts
    <3>10. rec \in ReplayRecords(Call)
      BY <3>5, <3>8, <3>9 DEF ReplayRecords
    <3>11. QED
      BY <2>1, <3>10 DEF Invoked
  <2>2. ASSUME run = "done" PROVE Result = saved
    <3>1. PICK n \in Nat : \E path, end : \E j \in 1 .. n + 1 : Retraces(n, path, end, j)
      BY <1>1, <2>2 DEF ReplayTraced
    <3>2. PICK path, end : \E j \in 1 .. n + 1 : Retraces(n, path, end, j)
      BY <3>1
    <3>3. PICK j \in 1 .. n + 1 : Retraces(n, path, end, j)
      BY <3>2
    <3>4. Core = end /\ saved = ResultOf(end)
      BY <2>2, <3>3 DEF Retraces, Nth
    <3>5. Result = ResultOf(Core)
      BY CoreFields DEF Result, ResultOf
    <3>6. QED
      BY <3>4, <3>5
  <2>3. QED
    BY <2>1, <2>2 DEF ReplayAgrees
<1>2. QED
  BY <1>1, LiveInit, TracedStep, AcquisitionInvariant, AcquisitionReplayAccounts, PTL DEF AcquisitionSpec
=============================================================================
