----------------------------- MODULE Acquisition -----------------------------
(***************************************************************************)
(* internal/acquisition: the coordinator that resolves several targets,    *)
(* admits their nodes under one budget, walks the call hierarchy of each   *)
(* in turn, and then validates its own result by interpreting the retained *)
(* request records a second time.                                          *)
(*                                                                         *)
(* The same actions describe the live run, whose requests the server       *)
(* answers as it likes, and the replay, whose requests are answered by the *)
(* records of the live run (record_replay.go).  Nodes are numbered in the  *)
(* order of their identities.                                              *)
(***************************************************************************)
EXTENDS Integers, Sequences, FiniteSets

CONSTANTS
    Locators,          \* what targets may be named by
    SymbolLocators,    \* locators that name a symbol, not a position
    Requests,          \* requests (and clients) to run
    Widths,            \* numbers of positions a symbol's range may have
    PeerCounts,        \* numbers of sibling declarations a document may have
    MaxResponse,       \* bytes a response may take; its usual size, and its parameters', is 1
    MaxPrepareProbes

Directions == {"outgoing", "incoming"}
NoNode == 0
FaultKinds == {"FAILED", "UNSUPPORTED", "IDENTIFIER_MISS", "CAPTURE_FAILED", "INVALID_ITEM", "OVERSIZE"}
Positive == Nat \ {0}

\* What ValidateRequest admits; a limit may be zero.  The root is the first target; supplier says
\* whether the client is a DocumentSupplier, faults how its server may fail, and
\* world which neighbours it may name for each node it knows.
ValidRequest(r) ==
    /\ r.mode \in {"SLICE", "INCOMING"} /\ r.siblings \in BOOLEAN /\ r.supplier \in BOOLEAN
    /\ r.locator \in Seq(Locators) /\ r.locator # <<>>
    /\ r.up \in [DOMAIN r.locator -> Nat] /\ r.down \in [DOMAIN r.locator -> Nat]
    /\ {r.maxNodes, r.maxRequests, r.maxEvidence} \subseteq Nat
    /\ r.faults \subseteq FaultKinds
    /\ DOMAIN r.world \subseteq Positive /\ IsFiniteSet(DOMAIN r.world)
    /\ \A n \in DOMAIN r.world : r.world[n] \subseteq DOMAIN r.world

ASSUME AcquisitionConstants ==
    /\ {MaxResponse, MaxPrepareProbes} \subseteq Positive
    /\ \A r \in Requests : ValidRequest(r)
    /\ Widths \subseteq Positive /\ PeerCounts \subseteq Nat

VARIABLES
    run,          \* "live", "replay" or "done"
    request,      \* the request being run
    at,           \* where acquireEvidence stands
    ctx,          \* "open", or "over" once cancelled or past the deadline
    usage,        \* requests, probes and evidence spent
    records,      \* the retained request records
    res,          \* locator -> its resolution
    adm,          \* target -> its admission
    nodes, edges, \* the admitted graph
    observed,     \* <<record, edge>> pairs
    candidates,   \* sibling candidates
    queries,      \* <<direction, node>> -> what the query cache holds, if anything
    starts, exps, \* direction -> target -> start set, expansions in order
    queue, depth, \* target -> <<node, depth>> pairs waiting, and ever queued
    members,      \* target -> nodes it reached
    complete,     \* Result.AcquisitionComplete
    saved         \* the result of the live run

evidence == <<usage, records>>
graph == <<nodes, edges, observed, candidates>>
walk == <<queries, starts, exps, queue, depth, members>>
vars == <<run, request, at, ctx, evidence, res, adm, graph, walk, complete, saved>>

Locator == request.locator
Targets == DOMAIN Locator
Nodes == DOMAIN request.world
MaxNodes == request.maxNodes
MaxRequests == request.maxRequests
MaxEvidence == request.maxEvidence
Faults == request.faults

SetMin(S) == CHOOSE x \in S : \A y \in S : x <= y
Smaller(a, b) == IF a < b THEN a ELSE b

-----------------------------------------------------------------------------
(* Where the run stands *)

Here(step, t) == [step |-> step, t |-> t, d |-> "outgoing", probe |-> 0, width |-> 1,
                  flat |-> FALSE, left |-> 0]

FirstStep(t) == IF request.supplier THEN "supply"
                ELSE IF Locator[t] \in SymbolLocators THEN "symbols" ELSE "probe"

\* A resolution is cached under its locator: only the first target with it asks.
AfterResolving(t) ==
    LET fresh == {u \in Targets : u > t /\ \A w \in 1 .. u - 1 : Locator[w] # Locator[u]}
    IN  IF fresh = {} THEN Here("admit", 0) ELSE Here(FirstStep(SetMin(fresh)), SetMin(fresh))

Identity(t) == res[Locator[t]].node
FirstDirection == IF request.mode = "SLICE" THEN "outgoing" ELSE "incoming"

\* The next admitted target whose identity no earlier admitted target has.
AfterSeed(t, admission) ==
    LET seeds == {u \in Targets : /\ u > t /\ admission[u] = "ADMITTED"
                                  /\ \A w \in 1 .. u - 1 : ~(admission[w] = "ADMITTED" /\ Identity(w) = Identity(u))}
    IN  IF request.siblings /\ seeds # {} THEN Here("siblings", SetMin(seeds))
        ELSE [Here("begin", 0) EXCEPT !.d = FirstDirection]

NoUsage == [requests |-> 0, probes |-> 0, bytes |-> 0]
Unresolved == [l \in {Locator[t] : t \in Targets} |-> [status |-> "NONE", node |-> NoNode]]
NotAdmitted == [t \in Targets |-> "NOT_APPLICABLE"]
Nothing == [t \in Targets |-> {}]
NoQueries == [k \in {} |-> 0]
NoStarts == [d \in Directions |-> Nothing]
NoExpansions == [d \in Directions |-> [t \in Targets |-> <<>>]]

AcquisitionInit ==
    /\ run = "live" /\ saved = [none |-> TRUE]
    /\ request \in Requests
    /\ at = Here(FirstStep(1), 1) /\ ctx = "open"
    /\ usage = NoUsage /\ records = <<>>
    /\ res = Unresolved /\ adm = NotAdmitted
    /\ nodes = {} /\ edges = {} /\ observed = {} /\ candidates = {}
    /\ queries = NoQueries /\ starts = NoStarts /\ exps = NoExpansions
    /\ queue = Nothing /\ depth = Nothing /\ members = Nothing
    /\ complete = TRUE

-----------------------------------------------------------------------------
(* One request: invoke, and its counterpart in the replay *)

\* Mutant: the queue is ordered by identity alone.
NextById(t) == SetMin({e[1] : e \in queue[t]})

\* A queue is ordered by depth, then by identity.
NextIn(t) == SetMin({e[1] : e \in {x \in queue[t] : \A y \in queue[t] : x[2] <= y[2]}})
DepthOf(t, n) == (CHOOSE x \in depth[t] : x[1] = n)[2]
Limit(t) == IF at.d = "outgoing" THEN request.down[t] ELSE request.up[t]

\* Mutant: a target keeps its turn after a visit the cache answered.
TurnKeptAfterHit ==
    LET waiting == {t \in Targets : queue[t] # {}}
        later == {t \in waiting : t > at.t}
        last == IF at.t = 0 THEN <<>> ELSE exps[at.d][at.t]
        kept == at.t \in waiting /\ Len(last) > 0 /\ last[Len(last)].cached
    IN  IF kept THEN at.t ELSE IF later # {} THEN SetMin(later) ELSE SetMin(waiting)

\* The target whose turn it is: the next one, round robin, with a node waiting.
Turn == LET waiting == {t \in Targets : queue[t] # {}}
            later == {t \in waiting : t > at.t}
        IN  IF later # {} THEN SetMin(later) ELSE SetMin(waiting)

\* The request acquireEvidence makes next: its target, method and node.
Call == CASE at.step = "supply" -> <<at.t, "supply", NoNode>>
          [] at.step = "symbols" -> <<at.t, "symbols", NoNode>>
          [] at.step = "probe" -> <<at.t, "prepare", NoNode>>
          [] at.step = "siblings" -> <<at.t, "symbols", Identity(at.t)>>
          [] at.step = "peer" -> <<at.t, "prepare", Identity(at.t)>>
          [] OTHER -> <<Turn, at.d, NextIn(Turn)>>

\* Why a request is not attempted; its parameters are captured first.
Blocked(method) ==
    IF ctx = "over" THEN "CANCELLED"
    ELSE IF usage.requests >= MaxRequests THEN "MAX_REQUESTS"
    ELSE IF usage.bytes >= MaxEvidence THEN "EVIDENCE_BYTES"
    ELSE IF method = "prepare" /\ usage.probes >= MaxPrepareProbes THEN "MAX_PREPARE_PROBES"
    ELSE IF usage.bytes + 1 >= MaxEvidence THEN "EVIDENCE_BYTES" ELSE "NO"

\* What a server may answer, as far as the coordinator tells answers apart.  Beside
\* the siblings to probe, a stray one starts outside its own range; a sibling is
\* undeclared if its one match gives it a declaration that is not valid.
Answers(method, node, sibling) ==
    CASE method = "supply" -> {[kind |-> k] : k \in {"same uri", "other uri"}}
      [] method = "symbols" /\ ~sibling ->
            {[kind |-> k, width |-> 1] : k \in {"absent", "ambiguous", "malformed"}}
            \cup [kind : {"one"}, width : Widths]
      [] method = "symbols" /\ sibling ->
            [kind : {"flat", "tree"}, width : Widths, count : PeerCounts, stray : BOOLEAN]
            \cup {[kind |-> "inexact", width |-> 1, count |-> 0, stray |-> FALSE]}
      [] method = "prepare" ->
            [kind : {"items"}, items : {{}} \cup {{n} : n \in Nodes} \cup {Nodes}]
            \cup {[kind |-> "mismatch", items |-> {}]}
            \cup {[kind |-> "undeclared", items |-> {n}] : n \in {m \in Nodes : node # NoNode}}
      [] OTHER -> [kind : {"items"} \cup ({"INVALID_ITEM"} \cap Faults), items : SUBSET request.world[node]]

Record(call, outcome, reason, answer, bytes) ==
    [call |-> call, before |-> usage, outcome |-> outcome, reason |-> reason,
     answer |-> answer, bytes |-> bytes, attempted |-> outcome # "BUDGET_BLOCKED"]

NoAnswer == [kind |-> "none"]
BlockedRecord(call) ==
    LET reason == Blocked(call[2])
    IN  Record(call, "BUDGET_BLOCKED", reason, NoAnswer,
               IF reason = "EVIDENCE_BYTES" /\ usage.bytes < MaxEvidence THEN 1 ELSE 0)

LiveRecords(call) ==
    LET left == Smaller(MaxEvidence - usage.bytes - 1, MaxResponse)
        errors == ({"FAILED", "UNSUPPORTED"} \X {"error"}) \cup
                  (IF call[2] = "prepare" THEN {<<"FAILED", "identifier not found">>} ELSE {})
        raised == {e \in errors : (IF e[2] = "error" THEN e[1] ELSE "IDENTIFIER_MISS") \in Faults}
    IN  IF Blocked(call[2]) # "NO" THEN {BlockedRecord(call)}
        ELSE {Record(call, "SUCCESS", "", a, 2) : a \in Answers(call[2], call[3], at.step = "siblings")}
             \cup {Record(call, e[1], e[2], NoAnswer, 2) : e \in raised}
             \cup {Record(call, "CAPTURE_INCOMPLETE", "EVIDENCE_BYTES", NoAnswer, 1 + left) : f \in {"OVERSIZE"} \cap Faults}
             \cup {Record(call, f, "malformed", NoAnswer, 1) : f \in {"CAPTURE_FAILED"} \cap Faults}

\* recordReplay.invoke: the record must be the one this request would have left.
Motivated(rec, call) ==
    /\ rec.call = call
    /\ rec.before = usage
    /\ LET over == ctx = "over" \/ (rec.outcome = "BUDGET_BLOCKED" /\ rec.reason = "CANCELLED")
           left == Smaller(MaxEvidence - usage.bytes - 1, MaxResponse)
       IN  IF over THEN ~rec.attempted /\ rec.reason = "CANCELLED" /\ rec.bytes = 0
           ELSE IF Blocked(call[2]) # "NO" THEN rec = BlockedRecord(call)
           ELSE rec.attempted /\ rec.bytes <= 1 + left

ReplayRecords(call) ==
    {saved.records[i] : i \in {j \in {Len(records) + 1} : j <= Len(saved.records)
                                                           /\ Motivated(saved.records[j], call)}}

Invoked == IF run = "live" THEN LiveRecords(Call) ELSE ReplayRecords(Call)

\* The effects of a request, whoever answered it.
Keep(rec) ==
    /\ records' = Append(records, rec)
    /\ usage' = [requests |-> usage.requests + (IF rec.attempted THEN 1 ELSE 0),
                 probes |-> usage.probes + (IF rec.attempted /\ rec.call[2] = "prepare" THEN 1 ELSE 0),
                 bytes |-> usage.bytes + rec.bytes]

Cancelling(rec) == rec.outcome = "BUDGET_BLOCKED" /\ rec.reason = "CANCELLED"

\* In the replay an unattempted record may declare the cancellation.
Context(rec) == ctx' = IF run = "replay" /\ Cancelling(rec) THEN "over" ELSE ctx

-----------------------------------------------------------------------------
(* Resolution *)

RecordResolution(rec) ==
    CASE rec.outcome \in {"BUDGET_BLOCKED", "CAPTURE_INCOMPLETE"} -> "BLOCKED"
      [] rec.outcome = "UNSUPPORTED" -> "UNSUPPORTED"
      [] OTHER -> "FAILED"

Settle(status, node) ==
    /\ res' = [res EXCEPT ![Locator[at.t]] = [status |-> status, node |-> node]]
    /\ at' = AfterResolving(at.t)

Continue(step) == at' = step /\ UNCHANGED res

ResolveSupply ==
    /\ at.step = "supply"
    /\ \E rec \in Invoked :
          /\ Keep(rec) /\ Context(rec)
          /\ IF rec.outcome # "SUCCESS" THEN Settle(RecordResolution(rec), NoNode)
             ELSE IF rec.answer.kind = "other uri" THEN Settle("FAILED", NoNode)
             ELSE Continue([at EXCEPT !.step = IF Locator[at.t] \in SymbolLocators THEN "symbols" ELSE "probe"])
    /\ UNCHANGED <<run, request, adm, graph, walk, complete, saved>>

ResolveSymbol ==
    /\ at.step = "symbols"
    /\ \E rec \in Invoked :
          /\ Keep(rec) /\ Context(rec)
          /\ IF rec.outcome # "SUCCESS" THEN Settle(RecordResolution(rec), NoNode)
             ELSE CASE rec.answer.kind = "absent" -> Settle("MISSING", NoNode)
                    [] rec.answer.kind = "ambiguous" -> Settle("AMBIGUOUS", NoNode)
                    [] rec.answer.kind = "malformed" -> Settle("FAILED", NoNode)
                    [] OTHER -> Continue([at EXCEPT !.step = "probe", !.width = rec.answer.width])
    /\ UNCHANGED <<run, request, adm, graph, walk, complete, saved>>

Missed(rec) == rec.outcome = "FAILED" /\ rec.reason = "identifier not found"
MoreProbes == at.probe + 1 < Smaller(at.width, MaxPrepareProbes)

\* One position of the symbol's range, or the one position of the locator.
ResolveProbe ==
    /\ at.step = "probe"
    /\ \E rec \in Invoked :
          LET symbol == Locator[at.t] \in SymbolLocators
              empty == (rec.outcome = "SUCCESS" /\ rec.answer.kind = "items" /\ rec.answer.items = {})
                       \/ (Missed(rec) /\ symbol)
          IN  /\ Keep(rec) /\ Context(rec)
              /\ IF empty
                 THEN IF symbol /\ MoreProbes THEN Continue([at EXCEPT !.probe = @ + 1])
                      ELSE Settle(IF symbol /\ at.width > MaxPrepareProbes THEN "BLOCKED" ELSE "MISSING", NoNode)
                 ELSE IF rec.outcome # "SUCCESS" THEN Settle(RecordResolution(rec), NoNode)
                 ELSE IF rec.answer.kind = "mismatch" THEN Settle("FAILED", NoNode)
                 ELSE IF Cardinality(rec.answer.items) > 1 THEN Settle("AMBIGUOUS", NoNode)
                 ELSE Settle("RESOLVED", SetMin(rec.answer.items))
    /\ UNCHANGED <<run, request, adm, graph, walk, complete, saved>>

-----------------------------------------------------------------------------
(* Admission: the root first, then the identities in order, while slots last *)

AdmitTargets ==
    /\ at.step = "admit"
    /\ LET resolved == {t \in Targets : res[Locator[t]].status = "RESOLVED"}
           before(t) == {Identity(u) : u \in {v \in resolved : v = 1 \/ Identity(v) < Identity(t)}} \ {Identity(t)}
           ofRoot(t) == t = 1 \/ (1 \in resolved /\ Identity(t) = Identity(1))
           fits(t) == MaxNodes > 0 /\ (ofRoot(t) \/ Cardinality(before(t)) < MaxNodes)
           chosen == {t \in resolved : fits(t)}
       IN  /\ adm' = [t \in Targets |-> IF t \in chosen THEN "ADMITTED"
                                        ELSE IF t \in resolved THEN "BUDGET_BLOCKED" ELSE "NOT_APPLICABLE"]
           /\ nodes' = {Identity(t) : t \in chosen}
           /\ members' = [t \in Targets |-> IF t \in chosen THEN {Identity(t)} ELSE {}]
           /\ complete' = (chosen = Targets)
           /\ at' = AfterSeed(0, adm')
    /\ UNCHANGED <<run, request, ctx, evidence, res, edges, observed, candidates, queries, starts, exps,
                   queue, depth, saved>>

Admittable(n) == n \in nodes \/ Cardinality(nodes) < MaxNodes

-----------------------------------------------------------------------------
(* expandTopmostSiblings *)

SiblingSymbols ==
    /\ at.step = "siblings"
    /\ \E rec \in Invoked :
          LET listed == rec.outcome = "SUCCESS" /\ rec.answer.count > 0
          IN  /\ Keep(rec) /\ Context(rec)
              /\ complete' = (complete /\ rec.outcome = "SUCCESS" /\ ~rec.answer.stray)
              /\ at' = IF ~listed THEN AfterSeed(at.t, adm)
                       ELSE [at EXCEPT !.step = "peer", !.flat = rec.answer.kind = "flat",
                                       !.width = rec.answer.width, !.left = rec.answer.count]
    /\ UNCHANGED <<run, request, res, adm, graph, walk, saved>>

NextPeer == IF at.left > 1 THEN [at EXCEPT !.left = @ - 1, !.probe = 0] ELSE AfterSeed(at.t, adm)

SiblingProbe ==
    /\ at.step = "peer"
    /\ \E rec \in Invoked :
          LET matches == IF rec.outcome = "SUCCESS" THEN rec.answer.items ELSE {}
              onward == at.flat /\ matches = {} /\ MoreProbes /\ (rec.outcome = "SUCCESS" \/ Missed(rec))
              admitted == Cardinality(matches) = 1 /\ Admittable(SetMin(matches))
              one == admitted /\ rec.answer.kind # "undeclared"
          IN  /\ Keep(rec) /\ Context(rec)
              /\ at' = IF onward THEN [at EXCEPT !.probe = @ + 1] ELSE NextPeer
              /\ nodes' = nodes \cup (IF admitted THEN matches ELSE {})
              /\ candidates' = candidates \cup (IF one THEN {<<Identity(at.t), SetMin(matches)>>} ELSE {})
              /\ complete' = (complete /\ ~(at.flat /\ Missed(rec)) /\ (onward \/ one))
    /\ UNCHANGED <<run, request, res, adm, edges, observed, walk, saved>>

-----------------------------------------------------------------------------
(* traverse: one breadth-first walk per target, one visit each in turn *)

Results(d, t, S) == {exps[d][t][i].node : i \in {j \in 1 .. Len(exps[d][t]) : exps[d][t][j].status \in S}}

BeginTraversal ==
    /\ at.step = "begin"
    /\ starts' = [starts EXCEPT ![at.d] =
          [t \in Targets |-> IF adm[t] # "ADMITTED" THEN {}
                             ELSE IF at.d = "incoming" /\ request.mode = "SLICE"
                                  THEN Results("outgoing", t, {"FRONTIER", "SUCCESS_EMPTY"})
                             ELSE {Identity(t)}]]
    /\ queue' = [t \in Targets |-> starts'[at.d][t] \X {0}]
    /\ depth' = queue'
    /\ at' = [at EXCEPT !.step = "visit", !.t = 0]
    /\ UNCHANGED <<run, request, ctx, evidence, res, adm, graph, queries, exps, members, complete, saved>>

Waiting == at.step = "visit" /\ \E t \in Targets : queue[t] # {}
Cached(n) == <<at.d, n>> \in DOMAIN queries
AtFrontier == DepthOf(Turn, NextIn(Turn)) >= Limit(Turn)

\* What came of a visit, and the expansion it leaves.
Outcome(status, reason, req, hit) == [status |-> status, reason |-> reason, req |-> req, cached |-> hit]
Expansion(n, d, outcome) ==
    [node |-> n, depth |-> d, status |-> outcome.status, reason |-> outcome.reason, req |-> outcome.req, cached |-> outcome.cached]

\* Mutant: a visit the cache answers adds nothing to the target's members.
VisitForgetsHits(t, n, outcome, neighbours) ==
    LET d == DepthOf(t, n)
        fresh == {m \in neighbours : ~\E x \in depth[t] : x[1] = m} \X {d + 1}
    IN  /\ exps' = [exps EXCEPT ![at.d][t] = Append(@, Expansion(n, d, outcome))]
        /\ queue' = [queue EXCEPT ![t] = (@ \ {<<n, d>>}) \cup fresh]
        /\ depth' = [depth EXCEPT ![t] = @ \cup fresh]
        /\ members' = [members EXCEPT ![t] = IF outcome.cached THEN @ ELSE @ \cup neighbours]
        /\ at' = [at EXCEPT !.t = t]

\* One visit: what is expanded, and what is queued behind it.
Visit(t, n, outcome, neighbours) ==
    LET d == DepthOf(t, n)
        fresh == {m \in neighbours : ~\E x \in depth[t] : x[1] = m} \X {d + 1}
    IN  /\ exps' = [exps EXCEPT ![at.d][t] = Append(@, Expansion(n, d, outcome))]
        /\ queue' = [queue EXCEPT ![t] = (@ \ {<<n, d>>}) \cup fresh]
        /\ depth' = [depth EXCEPT ![t] = @ \cup fresh]
        /\ members' = [members EXCEPT ![t] = IF neighbours = {} THEN @ ELSE @ \cup neighbours \cup {n}]
        /\ at' = [at EXCEPT !.t = t]

VisitFrontier ==
    /\ Waiting /\ AtFrontier
    /\ Visit(Turn, NextIn(Turn), Outcome("FRONTIER", "", 0, FALSE), {})
    /\ UNCHANGED <<run, request, ctx, evidence, res, adm, graph, queries, starts, complete, saved>>

\* Mutant: a cancellation that only a cache hit met is forgotten by the replay.
LearnsNothing(t, n) == FALSE

\* recordReplay.beforeQuery: the replay learns from the expansion it is about to
\* repeat that the context was over when the cache was hit.
LearnsCancellation(t, n) ==
    /\ run = "replay"
    /\ Len(saved.exps[at.d][t]) > Len(exps[at.d][t])
    /\ LET e == saved.exps[at.d][t][Len(exps[at.d][t]) + 1]
       IN  e.node = n /\ e.cached /\ e.status = "BUDGET_BLOCKED" /\ e.reason = "CANCELLED"

VisitCached ==
    /\ Waiting /\ ~AtFrontier /\ Cached(NextIn(Turn))
    /\ LET n == NextIn(Turn)
           q == queries[<<at.d, n>>]
           over == ctx = "over" \/ LearnsCancellation(Turn, n)
       IN  /\ ctx' = IF over THEN "over" ELSE "open"
           /\ IF over THEN Visit(Turn, n, Outcome("BUDGET_BLOCKED", "CANCELLED", q.req, TRUE), {})
              ELSE Visit(Turn, n, Outcome(q.status, q.reason, q.req, TRUE), q.neighbours)
    /\ UNCHANGED <<run, request, evidence, res, adm, graph, queries, starts, complete, saved>>

\* Candidates are admitted in order while slots last.
Fitting(S) == {n \in S : n \in nodes \/ Cardinality(nodes \cup {m \in S : m < n}) < MaxNodes}

\* Mutant: a neighbour refused for lack of slots does not make the query partial.
QueryStatusForgetsRefused(rec, kept) ==
    CASE rec.outcome \in {"BUDGET_BLOCKED", "CAPTURE_INCOMPLETE"} -> "BUDGET_BLOCKED"
      [] rec.outcome = "UNSUPPORTED" -> "UNSUPPORTED"
      [] rec.outcome \in {"FAILED", "CAPTURE_FAILED"} -> "FAILED"
      [] OTHER -> IF rec.answer.kind = "INVALID_ITEM" THEN "PARTIAL"
                  ELSE IF rec.answer.items = {} THEN "SUCCESS_EMPTY" ELSE "SUCCESS_NONEMPTY"

QueryStatus(rec, kept) ==
    CASE rec.outcome \in {"BUDGET_BLOCKED", "CAPTURE_INCOMPLETE"} -> "BUDGET_BLOCKED"
      [] rec.outcome = "UNSUPPORTED" -> "UNSUPPORTED"
      [] rec.outcome \in {"FAILED", "CAPTURE_FAILED"} -> "FAILED"
      [] OTHER -> IF rec.answer.kind = "INVALID_ITEM" \/ kept # rec.answer.items THEN "PARTIAL"
                  ELSE IF rec.answer.items = {} THEN "SUCCESS_EMPTY" ELSE "SUCCESS_NONEMPTY"

Edge(n, m) == IF at.d = "outgoing" THEN <<n, m>> ELSE <<m, n>>

\* Mutant: only a successful query is cached.
RememberSuccess(n, q) ==
    queries' = IF q.status \in {"FAILED", "UNSUPPORTED"} THEN queries
               ELSE [k \in DOMAIN queries \cup {<<at.d, n>>} |-> IF k = <<at.d, n>> THEN q ELSE queries[k]]

\* What the cache keeps of a query: failures are kept too.
Remember(n, q) == queries' = [k \in DOMAIN queries \cup {<<at.d, n>>} |-> IF k = <<at.d, n>> THEN q ELSE queries[k]]

VisitQuery ==
    /\ Waiting /\ ~AtFrontier /\ ~Cached(NextIn(Turn))
    /\ \E rec \in Invoked :
          LET n == NextIn(Turn)
              kept == IF rec.outcome = "SUCCESS" THEN Fitting(rec.answer.items) ELSE {}
              req == Len(records) + 1
              status == QueryStatus(rec, kept)
          IN  /\ Keep(rec) /\ Context(rec)
              /\ nodes' = nodes \cup kept
              /\ edges' = edges \cup {Edge(n, m) : m \in kept}
              /\ observed' = observed \cup ({req} \X {Edge(n, m) : m \in kept})
              /\ Remember(n, [status |-> status, reason |-> rec.reason, req |-> req, neighbours |-> kept])
              /\ Visit(Turn, n, Outcome(status, rec.reason, req, FALSE), kept)
    /\ UNCHANGED <<run, request, res, adm, candidates, starts, complete, saved>>

Successful == {"SUCCESS_EMPTY", "SUCCESS_NONEMPTY"}
Statuses(d, t) == {exps[d][t][i].status : i \in 1 .. Len(exps[d][t])}

\* The status of one direction of one target: aggregate, or what admission said.
Aggregate(d, t) ==
    LET S == Statuses(d, t)
    IN  IF S = {} THEN IF (adm[t] = "BUDGET_BLOCKED" \/ res[Locator[t]].status = "BLOCKED")
                          /\ (d = "incoming" \/ request.mode = "SLICE") THEN "BUDGET_BLOCKED" ELSE "NOT_APPLICABLE"
        ELSE IF Cardinality(S) = 1 THEN (CHOOSE s \in S : TRUE)
        ELSE IF S \subseteq Successful THEN "SUCCESS_NONEMPTY" ELSE "PARTIAL"

Whole(d, t) == Aggregate(d, t) \in Successful \cup {"NOT_APPLICABLE"}

EndTraversal ==
    /\ at.step = "visit"
    /\ \A t \in Targets : queue[t] = {}
    /\ complete' = (complete /\ \A t \in Targets : Whole(at.d, t))
    /\ at' = IF at.d = "outgoing" THEN [Here("begin", 0) EXCEPT !.d = "incoming"] ELSE Here("finish", 0)
    /\ UNCHANGED <<run, request, ctx, evidence, res, adm, graph, walk, saved>>

-----------------------------------------------------------------------------
(* The end of the live run, its replay, and the whole *)

Result == [res |-> res, adm |-> adm, nodes |-> nodes, edges |-> edges, observed |-> observed,
           candidates |-> candidates, starts |-> starts, exps |-> exps, members |-> members,
           usage |-> usage, complete |-> complete, records |-> records]

\* ValidateResult starts the replay with a fresh runner.
StartReplay ==
    /\ at.step = "finish" /\ run = "live"
    /\ run' = "replay" /\ saved' = Result
    /\ at' = Here(FirstStep(1), 1) /\ ctx' = "open"
    /\ usage' = NoUsage /\ records' = <<>>
    /\ res' = Unresolved /\ adm' = NotAdmitted
    /\ nodes' = {} /\ edges' = {} /\ observed' = {} /\ candidates' = {}
    /\ queries' = NoQueries /\ starts' = NoStarts /\ exps' = NoExpansions
    /\ queue' = Nothing /\ depth' = Nothing /\ members' = Nothing
    /\ complete' = TRUE
    /\ UNCHANGED request

EndReplay ==
    /\ at.step = "finish" /\ run = "replay"
    /\ run' = "done"
    /\ UNCHANGED <<request, at, ctx, evidence, res, adm, graph, walk, complete, saved>>

\* The deadline passes, or the caller cancels, between any two steps.
Expire ==
    /\ run = "live" /\ ctx = "open"
    /\ ctx' = "over"
    /\ UNCHANGED <<run, request, at, evidence, res, adm, graph, walk, complete, saved>>

Step ==
    /\ run # "done"
    /\ \/ ResolveSupply \/ ResolveSymbol \/ ResolveProbe \/ AdmitTargets
       \/ SiblingSymbols \/ SiblingProbe
       \/ BeginTraversal \/ VisitFrontier \/ VisitCached \/ VisitQuery \/ EndTraversal
       \/ StartReplay \/ EndReplay

Terminated == run = "done" /\ UNCHANGED vars

AcquisitionNext == Step \/ Expire \/ Terminated
AcquisitionSpec == AcquisitionInit /\ [][AcquisitionNext]_vars

-----------------------------------------------------------------------------
(* Properties *)

Calls == {"supply", "symbols", "probe", "siblings", "peer"}
Asking == at.step \in Calls \/ (Waiting /\ ~AtFrontier /\ ~Cached(NextIn(Turn)))
Expanded(d, t) == {exps[d][t][i].node : i \in 1 .. Len(exps[d][t])}

\* Every variable keeps its type, and the shared budgets of the request hold
\* whatever the server answers: validate.go checks the same bounds afterwards.
AcquisitionTypeOK ==
    /\ run \in {"live", "replay", "done"} /\ ctx \in {"open", "over"}
    /\ complete \in BOOLEAN
    /\ usage.requests <= MaxRequests /\ usage.probes <= MaxPrepareProbes /\ usage.bytes <= MaxEvidence
    /\ nodes \subseteq Nodes /\ Cardinality(nodes) <= MaxNodes
    /\ edges \subseteq nodes \X nodes
    /\ \A t \in Targets : members[t] \subseteq nodes /\ queue[t] \subseteq depth[t]
    /\ DOMAIN queries \subseteq Directions \X nodes

\* However many targets, aliases and cache hits lead to a node, the server is
\* asked at most once per direction for its calls, after a failure too
\* (runner.query, c.queries).
AskedOnce ==
    \A i, j \in 1 .. Len(records) :
        (i # j /\ records[i].call[2] \in Directions /\ records[i].call[2] = records[j].call[2])
            => records[i].call[3] # records[j].call[3]

\* One request's budgets bound all its targets together, and none of it is spent
\* on a question that was asked before.
AskedWithinBudget == AcquisitionTypeOK /\ AskedOnce

\* No target is starved of the shared request budget: while it has a node to
\* visit, no other target is more than one visit ahead ("targets rotate even
\* after cache hits", runner.traverse).
NoTargetStarved ==
    at.step = "visit" =>
        \A t, u \in Targets : queue[t] # {} => Len(exps[at.d][u]) <= Len(exps[at.d][t]) + 1

\* The layers of a target are its shortest distances from its starts over the
\* edges its own visits saw, although visits of other targets interleave and
\* fill the cache with neighbours admitted under a different depth.
LayersAreDistances ==
    at.step = "visit" =>
        \A t \in Targets :
            LET seen == {exps[at.d][t][i] : i \in 1 .. Len(exps[at.d][t])}
                behind(e) == IF e.status \in {"SUCCESS_NONEMPTY", "PARTIAL"}
                             THEN queries[<<at.d, e.node>>].neighbours ELSE {}
            IN  /\ \A x \in depth[t] :
                      IF x[1] \in starts[at.d][t] THEN x[2] = 0
                      ELSE \E e \in seen : x[2] = e.depth + 1 /\ x[1] \in behind(e)
                /\ \A e \in seen : \A n \in behind(e) : \E x \in depth[t] : x[1] = n /\ x[2] <= e.depth + 1

\* AcquisitionComplete is true only if every walk is closed: each node a target
\* reached was asked about with success in that direction, and every neighbour
\* the server named is among the nodes the target reached.
CompleteIsClosed ==
    (at.step = "finish" /\ complete) =>
        \A t \in Targets, d \in Directions : \A n \in Expanded(d, t) :
            \E i \in 1 .. Len(records) :
                /\ records[i].call[2] = d /\ records[i].call[3] = n
                /\ records[i].outcome = "SUCCESS" /\ records[i].answer.kind = "items"
                /\ records[i].answer.items \subseteq Expanded(d, t)

\* The members each target collected while it walked are the ones validateTargetJoins
\* recomputes from the edge observations of the requests its expansions name.
MembersJoin ==
    at.step = "finish" =>
        /\ edges = {o[2] : o \in observed}
        /\ \A t \in Targets :
              members[t] =
                (IF adm[t] = "ADMITTED" THEN {Identity(t)} ELSE {})
                \cup UNION {{o[2][1], o[2][2]} : o \in {p \in observed : \E d \in Directions :
                        \E i \in 1 .. Len(exps[d][t]) :
                            /\ exps[d][t][i].req = p[1]
                            /\ exps[d][t][i].status \in {"SUCCESS_NONEMPTY", "PARTIAL"}}}

\* ValidateResult's own verdict on completeness.
ValidatorComplete ==
    /\ \A t \in Targets : adm[t] = "ADMITTED" /\ \A d \in Directions : Whole(d, t)
    /\ request.siblings =>
          /\ Cardinality(nodes) < MaxNodes
          /\ \A i \in 1 .. Len(records) :
                records[i].call[2] \in {"symbols", "prepare"} => records[i].outcome = "SUCCESS"

\* Without sibling expansion the completeness the coordinator kept step by step is
\* the one its validator computes from the finished result: Acquire never turns
\* its own result into an error.
CompletenessAgrees ==
    (at.step = "finish" /\ ~request.siblings) => complete = ValidatorComplete

\* Acquire's own validation accepts its result: the memberships join and, without
\* sibling expansion, completeness is the validator's.
ValidatorAccepts == MembersJoin /\ CompletenessAgrees

\* coordinator.go: "Provider failures are result data; malformed requests and
\* internal invariant failures are errors": with sibling expansion too, the result
\* of a run passes the coordinator's own validation.
ProviderFailuresAreData == at.step = "finish" => complete = ValidatorComplete

\* The retained records determine the result: interpreting them again asks for
\* exactly those requests in that order, at the same usage, and ends with the
\* same targets, graph, usage and completeness, wherever the context ended.
ReplayAgrees ==
    /\ (run = "replay" /\ Asking) => Invoked # {}
    /\ run = "done" => Result = saved
=============================================================================
