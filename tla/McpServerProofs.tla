--------------------------- MODULE McpServerProofs ---------------------------
(***************************************************************************)
(* For any number of overlapping ServeContext and Shutdown calls, of lines *)
(* and of selectors: no call that is being served is out of reach; every   *)
(* line is answered once and in order, under numbers of its own; and what  *)
(* a reply says of its artifact is so.                                     *)
(***************************************************************************)
EXTENDS McpServer, TLAPS

\* The registration as the code keeps it: numbers given out once, the latest one to the
\* registered call.
Registration ==
    /\ serveGeneration \in Nat /\ generation \in [Serves -> Nat] /\ pc \in [Serves -> Stage]
    /\ serveCancel \in Serves \cup {None} /\ cancelled \subseteq Serves
    /\ stop \in [Stoppers -> {"idle", "called", "done"} \cup Serves]
    /\ \A s \in Serves : generation[s] <= serveGeneration
    /\ \A s, t \in Serves :
         pc[s] # "new" /\ pc[t] # "new" /\ generation[s] = generation[t] => s = t
    /\ serveCancel # None => generation[serveCancel] = serveGeneration

\* NewestReachable alone does not survive Clear: that the registered call is not the one
\* that leaves follows from the generations.
Inv == Registration /\ NewestReachable

\* The steps between registration and departure.
Serving(s) ==
    /\ UNCHANGED <<serveVars, cancelled, stop>>
    /\ pc[s] \notin {"new", "left", "returned"}
    /\ \E stage \in Stage \ {"new", "returned"} : pc' = [pc EXCEPT ![s] = stage]

\* Registration and departure apart, what a call does leaves the registration alone and
\* the call in the loop.
LEMMA LoopSteps ==
    ASSUME NEW s \in Serves,
           \/ EndInput(s) \/ Accept(s) \/ Install(s) \/ PublishGraph(s)
           \/ \E l \in Lines : ReadLine(s, l)
           \/ \E o \in Outcomes : Execute(s, o)
           \/ \E code \in {"OUTPUT_SELECTOR_UNSAFE", "PUBLICATION_ERROR"} : InstallFails(s, code)
           \/ \E code \in Code, there \in BOOLEAN : InstallGeneration(s, code, there)
           \/ \E ok \in BOOLEAN : SendReply(s, ok) \/ SendWrapped(s, ok)
    PROVE  Serving(s)
<1>0. ASSUME NEW stage \in Stage \ {"new", "returned"}, Goto(s, stage)
      PROVE  \E x \in Stage \ {"new", "returned"} : pc' = [pc EXCEPT ![s] = x]
  BY <1>0 DEF Goto
<1>d. Delivered(s) \in Stage \ {"new", "returned"}
  BY DEF Delivered, Stage
<1>b. ASSUME NEW o, NEW code, Bind(s, o, code)
      PROVE  \E x \in Stage \ {"new", "returned"} : pc' = [pc EXCEPT ![s] = x]
  BY <1>b, <1>d DEF Bind, Goto, Stage
<1>1. CASE EndInput(s)
  BY <1>1 DEF EndInput, Serving, Goto, Stage
<1>2. CASE Accept(s)
  <2>1. UNCHANGED <<serveVars, cancelled, stop>> /\ pc[s] \notin {"new", "left", "returned"}
    BY <1>2 DEF Accept
  <2>2. CASE Refusal(Current(s)) = ""
    BY <1>2, <2>1, <2>2 DEF Accept, Serving, Goto, Stage
  <2>3. CASE Refusal(Current(s)) # ""
    BY <1>2, <2>1, <2>3, <1>b DEF Accept, Serving
  <2> QED BY <2>2, <2>3
<1>3. CASE Install(s)
  <2>1. UNCHANGED <<serveVars, cancelled, stop>> /\ pc[s] \notin {"new", "left", "returned"}
    BY <1>3 DEF Install
  <2>2. \/ Goto(s, "verifying") \/ Bind(s, result[s], "PUBLISHED")
        \/ Bind(s, result[s], "RENAMED_ERROR")
    BY <1>3 DEF Install
  <2> QED BY <2>1, <2>2, <1>b, <1>0 DEF Serving, Stage
<1>4. CASE \E l \in Lines : ReadLine(s, l)
  <2> PICK l \in Lines : ReadLine(s, l) BY <1>4
  <2>1. AfterLine(l) \in Stage \ {"new", "returned"}
    BY DEF AfterLine, Stage
  <2> QED BY <2>1, <1>0 DEF ReadLine, Serving
<1>5. CASE \E o \in Outcomes : Execute(s, o)
  <2> PICK o \in Outcomes : Execute(s, o) BY <1>5
  <2>1. UNCHANGED <<serveVars, cancelled, stop>> /\ pc[s] \notin {"new", "left", "returned"}
    BY DEF Execute, MayReturn
  <2>2. Goto(s, "publishing") \/ Bind(s, o, Inline(Current(s), o))
    BY DEF Execute
  <2> QED BY <2>1, <2>2, <1>b, <1>0 DEF Serving, Stage
<1>6. CASE \E code \in {"OUTPUT_SELECTOR_UNSAFE", "PUBLICATION_ERROR"} : InstallFails(s, code)
  BY <1>6, <1>b DEF InstallFails, Serving
<1>7. CASE \E code \in Code, there \in BOOLEAN : InstallGeneration(s, code, there)
  BY <1>7, <1>b DEF InstallGeneration, Serving
<1>8. CASE \E ok \in BOOLEAN : SendReply(s, ok) \/ SendWrapped(s, ok)
  <2> PICK ok \in BOOLEAN : SendReply(s, ok) \/ SendWrapped(s, ok) BY <1>8
  <2>1. /\ UNCHANGED <<serveVars, cancelled, stop>> /\ pc[s] \notin {"new", "left", "returned"}
        /\ Goto(s, IF ok THEN "reading" ELSE "leaving")
    BY DEF SendReply, SendWrapped, WriteReply
  <2>2. (IF ok THEN "reading" ELSE "leaving") \in Stage \ {"new", "returned"}
    BY DEF Stage
  <2> QED BY <2>1, <2>2, <1>0 DEF Serving
<1>9. CASE PublishGraph(s)
  BY <1>9 DEF PublishGraph, Serving, Goto, Stage
<1> QED BY <1>1, <1>2, <1>3, <1>4, <1>5, <1>6, <1>7, <1>8, <1>9

\* Such a step keeps the invariant: the call was active and is.
LEMMA ServingKeeps ==
    ASSUME Inv, NEW s \in Serves, Serving(s)
    PROVE  Inv'
<1> PICK stage \in Stage \ {"new", "returned"} : pc' = [pc EXCEPT ![s] = stage]
  BY DEF Serving
<1>1. /\ serveCancel' = serveCancel /\ serveGeneration' = serveGeneration
      /\ generation' = generation /\ cancelled' = cancelled /\ stop' = stop
      /\ pc[s] \notin {"new", "returned"} /\ pc \in [Serves -> Stage]
  BY DEF Serving, serveVars, Inv, Registration
<1>2. \A t \in Serves : (pc'[t] = "new" <=> pc[t] = "new") /\ (Active(t)' <=> Active(t))
  BY <1>1 DEF Active
<1>3. Registration'
  BY <1>1, <1>2 DEF Inv, Registration
<1>4. NewestReachable'
  BY <1>1, <1>2 DEF Inv, Registration, NewestReachable, Active
<1> QED BY <1>3, <1>4 DEF Inv

\* A new call cancels the registered one and takes its place.
LEMMA RegisterKeeps ==
    ASSUME Inv, NEW s \in Serves, Register(s)
    PROVE  Inv'
<1> USE NoneAssumption
<1>1. /\ pc[s] = "new" /\ pc' = [pc EXCEPT ![s] = "reading"]
      /\ cancelled' = cancelled \cup ({serveCancel} \ {None})
      /\ serveGeneration' = serveGeneration + 1 /\ serveCancel' = s
      /\ generation' = [generation EXCEPT ![s] = serveGeneration + 1] /\ stop' = stop
  BY DEF Register, Goto
<1>2. Registration'
  BY <1>1 DEF Inv, Registration, Stage
<1>3. NewestReachable'
  BY <1>1 DEF Inv, Registration, NewestReachable, Active
<1> QED BY <1>2, <1>3 DEF Inv

\* A call on its way out cancels itself first and then clears its own registration only.
LEMMA DepartureKeeps ==
    ASSUME Inv, NEW s \in Serves, Leave(s) \/ Clear(s)
    PROVE  Inv'
<1> USE NoneAssumption
<1>1. CASE Leave(s)
  <2>1. /\ pc[s] = "leaving" /\ pc' = [pc EXCEPT ![s] = "left"]
        /\ cancelled' = cancelled \cup {s} /\ stop' = stop
        /\ serveCancel' = serveCancel /\ serveGeneration' = serveGeneration
        /\ generation' = generation
    BY <1>1 DEF Leave, Goto, serveVars
  <2>2. Registration'
    BY <2>1 DEF Inv, Registration, Stage
  <2>3. NewestReachable'
    BY <2>1 DEF Inv, Registration, NewestReachable, Active
  <2> QED BY <2>2, <2>3 DEF Inv
<1>2. CASE Clear(s)
  <2>1. /\ pc[s] = "left" /\ pc' = [pc EXCEPT ![s] = "returned"]
        /\ serveCancel' = IF serveGeneration = generation[s] THEN None ELSE serveCancel
        /\ serveGeneration' = serveGeneration /\ generation' = generation
        /\ cancelled' = cancelled /\ stop' = stop
    BY <1>2 DEF Clear, StillOwn, Goto
  <2>2. Registration'
    BY <2>1 DEF Inv, Registration, Stage
  <2>3. CASE serveGeneration = generation[s]
    <3>1. serveCancel # None => serveCancel = s
      BY <2>1, <2>3 DEF Inv, Registration, NewestReachable, Active
    <3>2. NewestReachable'
      BY <2>1, <2>3, <3>1 DEF Inv, Registration, NewestReachable, Active
    <3> QED BY <2>2, <3>2 DEF Inv
  <2>4. CASE serveGeneration # generation[s]
    <3>1. serveCancel # s /\ serveCancel' = serveCancel
      BY <2>1, <2>4 DEF Inv, Registration
    <3>2. NewestReachable'
      BY <2>1, <3>1 DEF Inv, Registration, NewestReachable, Active
    <3> QED BY <2>2, <3>2 DEF Inv
  <2> QED BY <2>3, <2>4
<1> QED BY <1>1, <1>2

\* Shutdown only adds to the cancelled contexts.
LEMMA ShutdownKeeps ==
    ASSUME Inv, NEW k \in Stoppers, CallShutdown(k) \/ Stopping(k)
    PROVE  Inv'
<1>1. /\ serveCancel' = serveCancel /\ serveGeneration' = serveGeneration
      /\ generation' = generation /\ pc' = pc
  BY DEF CallShutdown, Stopping, ReadCancel, RunCancel, serveVars
<1>2. /\ cancelled \subseteq cancelled' /\ cancelled' \subseteq Serves
      /\ stop' \in [Stoppers -> {"idle", "called", "done"} \cup Serves]
  BY DEF CallShutdown, Stopping, ReadCancel, RunCancel, Inv, Registration
<1>3. Registration'
  BY <1>1, <1>2 DEF Inv, Registration
<1>4. NewestReachable'
  BY <1>1, <1>2 DEF Inv, NewestReachable, Active
<1> QED BY <1>3, <1>4 DEF Inv

\* Shutdown, or the next ServeContext, reaches every call that is being served
\* (Server.ServeContext and Server.Shutdown under lifecycleMu): for any number of
\* overlapping calls, one that has registered and not returned is the registered one or
\* is cancelled already, and what is registered is a call that is still there.
THEOREM NewestIsReachable == Spec => []NewestReachable
<1>1. Init => Inv
  <2> SUFFICES ASSUME Init PROVE Inv OBVIOUS
  <2>1. /\ serveCancel = None /\ serveGeneration = 0 /\ cancelled = {}
        /\ generation = [s \in Serves |-> 0] /\ pc = [s \in Serves |-> "new"]
        /\ stop = [k \in Stoppers |-> "idle"]
    BY DEF Init
  <2>2. Registration
    BY <2>1 DEF Registration, Stage
  <2>3. NewestReachable
    BY <2>1 DEF NewestReachable, Active
  <2> QED BY <2>2, <2>3 DEF Inv
<1>2. Inv /\ [Next]_vars => Inv'
  <2> SUFFICES ASSUME Inv, [Next]_vars PROVE Inv' OBVIOUS
  <2>1. ASSUME NEW s \in Serves, Register(s) PROVE Inv'
    BY <2>1, RegisterKeeps
  <2>2. ASSUME NEW s \in Serves, Work(s) PROVE Inv'
    BY <2>2, LoopSteps, ServingKeeps, DepartureKeeps DEF Work
  <2>3. ASSUME NEW s \in Serves,
               \/ EndInput(s) \/ PublishGraph(s) \/ \E l \in Lines : ReadLine(s, l)
               \/ \E o \in Outcomes : Execute(s, o)
        PROVE Inv'
    BY <2>3, LoopSteps, ServingKeeps
  <2>4. ASSUME NEW k \in Stoppers, CallShutdown(k) \/ Stopping(k) PROVE Inv'
    BY <2>4, ShutdownKeeps
  <2>5. CASE UNCHANGED vars
    <3>1. /\ serveCancel' = serveCancel /\ serveGeneration' = serveGeneration
          /\ generation' = generation /\ pc' = pc /\ cancelled' = cancelled /\ stop' = stop
      BY <2>5 DEF vars, serveVars
    <3> QED BY <3>1 DEF Inv, Registration, NewestReachable, Active
  <2> QED BY <2>1, <2>2, <2>3, <2>4, <2>5 DEF Next, Returned
<1>3. Inv => NewestReachable
  BY DEF Inv
<1> QED BY <1>1, <1>2, <1>3, PTL DEF Spec

------------------------------------------------------------------------------
(* The replies.  What a reply says of the artifact is settled while its call is   *)
(* in hand, and stays true because a selector, once taken, is never taken again,  *)
(* and because no two calls share a number.                                       *)

\* The stages without a tool call in hand, and those with a line to answer.
Waiting == {"new", "reading", "called", "leaving", "left", "returned"}
Busy == {"called", "executing", "grouping", "publishing", "verifying", "wrapping", "replying"}

WorkType ==
    /\ requestSequence \in Nat /\ pc \in [Serves -> Stage]
    /\ lines \in [Serves -> Seq(Lines)] /\ request \in [Serves -> Nat]
    /\ answer \in [Serves -> Code] /\ replies \in [Serves -> Seq(Reply)]
    /\ outputs \in [Selectors -> Nat]

\* The numbers in hand, on the disk and in replies were given out, none of them twice.
Numbering ==
    /\ \A s \in Serves : request[s] <= requestSequence
    /\ \A s, t \in Serves : s # t /\ request[s] # 0 => request[s] # request[t]
    /\ \A x \in Selectors : outputs[x] <= requestSequence
    /\ \A t \in Serves : \A j \in 1..Len(replies[t]) :
         /\ \A n \in Numbers(replies[t][j]) : n <= requestSequence
         /\ \A s \in Serves : request[s] \notin Numbers(replies[t][j])
    /\ \A s, t \in Serves : \A i \in 1..Len(replies[s]), j \in 1..Len(replies[t]) :
         Numbers(replies[s][i]) \cap Numbers(replies[t][j]) # {} => s = t /\ i = j

\* What is known of the line in hand at each stage of callContext.
Hand(s) ==
    /\ pc[s] = "new" => lines[s] = << >>
    /\ pc[s] \in Waiting => request[s] = 0
    /\ pc[s] = "replying" /\ Current(s).gateway => request[s] = 0 \/ answer[s] = "INTERNAL"
    /\ pc[s] \in {"executing", "grouping", "publishing", "verifying"} =>
         /\ request[s] # 0 /\ request[s] \in executed
         /\ Current(s).selector # None => PublicationRoot
    /\ pc[s] \in {"executing", "publishing"} => \A x \in Selectors : outputs[x] # request[s]
    /\ pc[s] = "publishing" => Current(s).selector \in Selectors
    /\ pc[s] \in {"grouping", "verifying"} => Committed(Current(s), request[s])
    /\ pc[s] = "grouping" => Current(s).tool.delivers = "grouped"
    /\ pc[s] \in {"publishing", "verifying"} => Current(s).tool.delivers = "artifact"
    /\ pc[s] = "verifying" => Current(s).tool.verified
    /\ pc[s] \in {"wrapping", "replying"} => Tells(Current(s), request[s], answer[s])

InOrder(s) ==
    /\ \A i, j \in 1..Len(replies[s]) : i < j => replies[s][i].of < replies[s][j].of
    /\ Answered(s) \subseteq Due(s)
    /\ Due(s) \ Answered(s) \subseteq (IF pc[s] = "reading" THEN {} ELSE {Len(lines[s])})
    /\ pc[s] \in Busy => Len(lines[s]) \in Due(s) \ Answered(s)

Sent(s, i) ==
    LET r == replies[s][i]
        l == lines[s][r.of]
    IN  /\ Tells(l, r.request, r.answer)
        /\ l.gateway /\ r.request # 0 => r.answer = "INTERNAL" \/ r.wrapper > r.request

AllSent == \A s \in Serves : \A i \in 1..Len(replies[s]) : Sent(s, i)

ReplyInv ==
    /\ WorkType /\ Numbering /\ AllSent
    /\ \A s \in Serves : Hand(s) /\ InOrder(s)

\* The publication root only gains files: at most one selector is taken, by request m.
Gains(m) ==
    /\ generations \subseteq generations' /\ executed \subseteq executed'
    /\ \/ outputs' = outputs
       \/ m # 0 /\ \E x \in Selectors : outputs[x] = 0 /\ outputs' = [outputs EXCEPT ![x] = m]

\* What was said of another request stays true.
LEMMA TellsKept ==
    ASSUME WorkType, NEW m \in Nat, Gains(m), NEW l \in Line, NEW n \in Nat, NEW a,
           n # m \/ outputs' = outputs, Tells(l, n, a)
    PROVE  Tells(l, n, a)'
<1>1. Committed(l, n)' <=> Committed(l, n)
  <2>1. l.selector # None => l.selector \in Selectors BY DEF Line
  <2>. QED BY <2>1 DEF Committed, Gains, WorkType
<1>2. n \in generations => n \in generations' BY DEF Gains
<1>3. n \in executed => n \in executed' BY DEF Gains
<1>. QED BY <1>1, <1>2, <1>3 DEF Tells

LEMMA Appended ==
    ASSUME NEW S, NEW q \in Seq(S), NEW e \in S
    PROVE  /\ Append(q, e) \in Seq(S) /\ Len(q) \in Nat /\ Len(Append(q, e)) = Len(q) + 1
           /\ \A i \in 1..Len(q) : Append(q, e)[i] = q[i] /\ q[i] \in S
           /\ Append(q, e)[Len(q) + 1] = e
OBVIOUS

\* The line in hand is one the client wrote.
LEMMA InHand ==
    ASSUME ReplyInv, NEW s \in Serves, pc[s] \in Busy
    PROVE  /\ Len(lines[s]) \in Nat /\ Len(lines[s]) >= 1 /\ Current(s) \in Line
           /\ Current(s).selector # None => Current(s).selector \in Selectors
<1>1. lines[s] \in Seq(Lines) /\ Len(lines[s]) \in Nat BY DEF ReplyInv, WorkType
<1>2. Len(lines[s]) \in Due(s) BY DEF ReplyInv, InOrder
<1>3. Len(lines[s]) \in 1..Len(lines[s]) BY <1>2 DEF Due
<1>4. Current(s) \in Line BY <1>1, <1>3, LinesAssumption DEF Current
<1>. QED BY <1>1, <1>3, <1>4 DEF Line

\* A reply answers a line that was read, and is a record.
LEMMA ReplyOf ==
    ASSUME ReplyInv, NEW s \in Serves, NEW i \in 1..Len(replies[s])
    PROVE  /\ replies[s][i] \in Reply /\ replies[s][i].of \in 1..Len(lines[s])
           /\ lines[s][replies[s][i].of] \in Line
<1>1. replies[s] \in Seq(Reply) /\ lines[s] \in Seq(Lines) BY DEF ReplyInv, WorkType
<1>2. replies[s][i] \in Reply BY <1>1
<1>3. replies[s][i].of \in Answered(s) BY DEF Answered
<1>4. replies[s][i].of \in 1..Len(lines[s]) BY <1>3 DEF ReplyInv, InOrder, Due
<1>. QED BY <1>1, <1>2, <1>4, LinesAssumption

\* A reply that was sent stays true as lines are read and other requests published.
LEMMA SentKept ==
    ASSUME ReplyInv, NEW m \in Nat, Gains(m), NEW t \in Serves, NEW i \in 1..Len(replies[t]),
           m = 0 \/ m \notin Numbers(replies[t][i]),
           replies'[t][i] = replies[t][i],
           \A n \in 1..Len(lines[t]) : lines'[t][n] = lines[t][n]
    PROVE  Sent(t, i)'
<1>. PICK r : r = replies[t][i] OBVIOUS
<1>. PICK l : l = lines[t][r.of] OBVIOUS
<1>1. r \in Reply /\ r.of \in 1..Len(lines[t]) /\ l \in Line BY ReplyOf
<1>2. replies'[t][i] = r /\ lines'[t][r.of] = l BY <1>1
<1>3. Tells(l, r.request, r.answer) /\ (l.gateway /\ r.request # 0 => r.answer = "INTERNAL" \/ r.wrapper > r.request)
  BY DEF ReplyInv, AllSent, Sent
<1>4. r.request \in Nat BY <1>1 DEF Reply
<1>5. r.request # m \/ outputs' = outputs
  BY <1>4 DEF Numbers, Gains
<1>6. Tells(l, r.request, r.answer)'
  <2>. PICK n, a : n = r.request /\ a = r.answer OBVIOUS
  <2>1. Tells(l, n, a)' BY <1>1, <1>3, <1>4, <1>5, TellsKept DEF ReplyInv
  <2>. QED BY <2>1
<1>. QED BY <1>2, <1>3, <1>6 DEF Sent

\* A call that takes no step, while request m of another one may be published.
LEMMA HandKept ==
    ASSUME ReplyInv, NEW m \in Nat, Gains(m), NEW t \in Serves, m = 0 \/ m # request[t],
           pc'[t] = pc[t], lines'[t] = lines[t], request'[t] = request[t], answer'[t] = answer[t]
    PROVE  Hand(t)'
<1>. WorkType /\ Hand(t) BY DEF ReplyInv
<1>. PICK l, n, a : l = Current(t) /\ n = request[t] /\ a = answer[t] OBVIOUS
<1>1. Current(t)' = l BY DEF Current
<1>2. n \in Nat BY DEF WorkType
<1>3. n # m \/ outputs' = outputs BY DEF Gains
<1>4. \A x \in Selectors : outputs[x] # n => outputs'[x] # n \/ outputs' = outputs
  BY <1>3 DEF Gains, WorkType
<1>5. n \in executed => n \in executed' BY DEF Gains
<1>6. pc[t] \in {"grouping", "verifying"} => Committed(l, n)'
  <2>. SUFFICES ASSUME pc[t] \in {"grouping", "verifying"} PROVE Committed(l, n)' OBVIOUS
  <2>1. Committed(l, n) BY DEF Hand
  <2>2. l \in Line BY InHand DEF Busy
  <2>3. l.selector \in Selectors BY <2>1, <2>2 DEF Committed, Line
  <2>. QED BY <1>3, <2>1, <2>3 DEF Committed, Gains, WorkType
<1>7. pc[t] \in {"wrapping", "replying"} => Tells(l, n, a)'
  <2>. SUFFICES ASSUME pc[t] \in {"wrapping", "replying"} PROVE Tells(l, n, a)' OBVIOUS
  <2>1. l \in Line BY InHand DEF Busy
  <2>2. Tells(l, n, a) BY DEF Hand
  <2>. QED BY <1>2, <1>3, <2>1, <2>2, TellsKept
<1>8. request'[t] = n /\ answer'[t] = a /\ Current(t)' = l BY <1>1
<1>. QED BY <1>3, <1>4, <1>5, <1>6, <1>7, <1>8 DEF Hand

LEMMA InOrderKept ==
    ASSUME NEW t \in Serves, InOrder(t), replies'[t] = replies[t], lines'[t] = lines[t],
           pc'[t] = pc[t] \/ (pc[t] # "reading" /\ pc'[t] # "reading" /\ (pc'[t] \in Busy => pc[t] \in Busy))
    PROVE  InOrder(t)'
BY DEF InOrder, Answered, Due

LEMMA NumberingKept ==
    ASSUME Numbering, requestSequence' = requestSequence, request' = request,
           replies' = replies, outputs' = outputs
    PROVE  Numbering'
<1>1. ASSUME NEW t \in Serves, NEW j \in 1..Len(replies[t])
      PROVE  Numbers(replies[t][j])' = Numbers(replies[t][j])
  BY DEF Numbers
<1>2. /\ \A s \in Serves : request'[s] <= requestSequence'
      /\ \A s, t \in Serves : s # t /\ request'[s] # 0 => request'[s] # request'[t]
      /\ \A x \in Selectors : outputs'[x] <= requestSequence'
  BY DEF Numbering
<1>3. ASSUME NEW t \in Serves, NEW j \in 1..Len(replies[t])'
      PROVE  /\ \A n \in Numbers(replies[t][j])' : n <= requestSequence'
             /\ \A s \in Serves : request'[s] \notin Numbers(replies[t][j])'
  <2>1. j \in 1..Len(replies[t]) OBVIOUS
  <2>. QED BY <1>1, <2>1 DEF Numbering
<1>4. ASSUME NEW s \in Serves, NEW t \in Serves, NEW i \in 1..Len(replies[s])', NEW j \in 1..Len(replies[t])',
             Numbers(replies[s][i])' \cap Numbers(replies[t][j])' # {}
      PROVE  s = t /\ i = j
  <2>1. i \in 1..Len(replies[s]) /\ j \in 1..Len(replies[t]) OBVIOUS
  <2>. QED BY <1>1, <1>4, <2>1 DEF Numbering
<1>. QED BY <1>2, <1>3, <1>4 DEF Numbering

\* A step of s concerns s: what it must show of the rest is that the numbers stay apart.
Frame(s) ==
    \A t \in Serves \ {s} :
        /\ pc'[t] = pc[t] /\ lines'[t] = lines[t] /\ request'[t] = request[t]
        /\ answer'[t] = answer[t] /\ replies'[t] = replies[t]

LEMMA StepKeeps ==
    ASSUME ReplyInv, NEW s \in Serves, Frame(s), NEW m \in Nat, Gains(m), m \in {0, request[s]},
           WorkType', Numbering', Hand(s)', InOrder(s)',
           \A i \in 1..Len(replies'[s]) : Sent(s, i)'
    PROVE  ReplyInv'
<1>1. ASSUME NEW t \in Serves, t # s PROVE Hand(t)'
  <2>1. m = 0 \/ m # request[t] BY <1>1 DEF ReplyInv, Numbering, WorkType
  <2>. QED BY <1>1, <2>1, HandKept DEF Frame
<1>2. ASSUME NEW t \in Serves, t # s PROVE InOrder(t)'
  BY <1>2, InOrderKept DEF Frame, ReplyInv
<1>3. ASSUME NEW t \in Serves, t # s, NEW i \in 1..Len(replies'[t]) PROVE Sent(t, i)'
  <2>1. replies'[t] = replies[t] /\ lines'[t] = lines[t] BY <1>3 DEF Frame
  <2>2. i \in 1..Len(replies[t]) BY <2>1
  <2>3. m = 0 \/ m \notin Numbers(replies[t][i]) BY <2>2 DEF ReplyInv, Numbering
  <2>. QED BY <2>1, <2>2, <2>3, SentKept
<1>4. AllSent' BY <1>3 DEF AllSent
<1>. QED BY <1>1, <1>2, <1>4 DEF ReplyInv

\* The replies a call has sent, after a step that sends none.
LEMMA OwnSent ==
    ASSUME ReplyInv, NEW s \in Serves, NEW m \in Nat, Gains(m), m \in {0, request[s]},
           replies'[s] = replies[s], \A n \in 1..Len(lines[s]) : lines'[s][n] = lines[s][n]
    PROVE  \A i \in 1..Len(replies'[s]) : Sent(s, i)'
<1>. SUFFICES ASSUME NEW i \in 1..Len(replies'[s]) PROVE Sent(s, i)' OBVIOUS
<1>1. i \in 1..Len(replies[s]) OBVIOUS
<1>2. m = 0 \/ m \notin Numbers(replies[s][i]) BY <1>1 DEF ReplyInv, Numbering
<1>. QED BY <1>1, <1>2, SentKept

\* Steps between lines.
LEMMA IdleKeeps ==
    ASSUME ReplyInv, NEW s \in Serves, NEW stage \in Stage, Goto(s, stage),
           UNCHANGED <<requestSequence, lines, request, answer, replies, outputs, generations, executed>>,
           \/ pc[s] = "new" /\ stage = "reading"
           \/ pc[s] \in {"reading", "leaving", "left"} /\ stage \in {"leaving", "left", "returned"}
    PROVE  ReplyInv'
<1>. WorkType /\ Hand(s) /\ InOrder(s) BY DEF ReplyInv
<1>1. /\ pc' = [pc EXCEPT ![s] = stage] /\ pc'[s] = stage
      /\ lines' = lines /\ request' = request /\ answer' = answer /\ replies' = replies
      /\ outputs' = outputs /\ requestSequence' = requestSequence
  BY DEF Goto, WorkType
<1>2. WorkType' BY <1>1 DEF WorkType
<1>3. Numbering' BY <1>1, NumberingKept DEF ReplyInv
<1>4. Frame(s) BY <1>1 DEF Frame, WorkType
<1>5. Gains(0) BY DEF Gains
<1>6. Hand(s)' BY <1>1 DEF Hand, Waiting
<1>7. InOrder(s)'
  <2>1. CASE pc[s] = "new"
    <3>1. lines[s] = << >> BY <2>1 DEF Hand
    <3>2. Due(s)' = {} BY <1>1, <3>1 DEF Due
    <3>. QED BY <1>1, <2>1, <3>2 DEF InOrder, Answered, Due, Busy
  <2>2. CASE pc[s] # "new"
    BY <1>1, <2>2 DEF InOrder, Answered, Due, Busy
  <2>. QED BY <2>1, <2>2
<1>. QED BY <1>1, <1>2, <1>3, <1>4, <1>5, <1>6, <1>7, OwnSent, StepKeeps

\* A new line: the ones before it are answered, and it is answered before the next.
LEMMA ReadLineKeeps ==
    ASSUME ReplyInv, NEW s \in Serves, NEW l \in Lines, ReadLine(s, l)
    PROVE  ReplyInv'
<1>. WorkType /\ Hand(s) /\ InOrder(s) BY DEF ReplyInv
<1>. l \in Line BY LinesAssumption
<1>. PICK q, e : q = Append(lines[s], l) /\ e = Len(lines[s]) + 1 OBVIOUS
<1>1. /\ pc[s] = "reading" /\ pc' = [pc EXCEPT ![s] = AfterLine(l)]
      /\ lines' = [lines EXCEPT ![s] = q] /\ answer' = [answer EXCEPT ![s] = Immediate(l)]
      /\ request' = request /\ replies' = replies /\ outputs' = outputs
      /\ generations' = generations /\ executed' = executed /\ requestSequence' = requestSequence
  BY DEF ReadLine, Goto, diskVars
<1>2. /\ q \in Seq(Lines) /\ Len(lines[s]) \in Nat /\ Len(q) = e
      /\ \A i \in 1..Len(lines[s]) : q[i] = lines[s][i]
      /\ q[e] = l
  BY Appended DEF WorkType
<1>3. Immediate(l) \in Code /\ Immediate(l) \notin {"PUBLISHED", "COMPLETE", "PARTIAL"}
  BY DEF Immediate, Code
<1>4. AfterLine(l) \in {"reading", "called", "replying"} BY DEF AfterLine
<1>5. WorkType' BY <1>1, <1>2, <1>3, <1>4 DEF WorkType, Stage
<1>6. Numbering' BY <1>1, NumberingKept DEF ReplyInv
<1>7. Frame(s) BY <1>1 DEF Frame, WorkType
<1>8. Gains(0) BY <1>1 DEF Gains
<1>9. /\ pc'[s] = AfterLine(l) /\ lines'[s] = q /\ answer'[s] = Immediate(l)
      /\ request'[s] = 0 /\ Current(s)' = l
  BY <1>1, <1>2 DEF WorkType, Current, Hand, Waiting
<1>10. Hand(s)'
  <2>1. Tells(Current(s), request[s], answer[s])' BY <1>3, <1>9 DEF Tells, Committed
  <2>. QED BY <1>4, <1>9, <2>1 DEF Hand
<1>11. InOrder(s)'
  <2>1. Due(s) = Answered(s) /\ Answered(s)' = Answered(s) BY <1>1 DEF InOrder, Answered
  <2>2. Due(s)' = {n \in 1..e : q[n].kind # "notification"} BY <1>2, <1>9 DEF Due
  <2>3. 1..e = 1..Len(lines[s]) \cup {e} /\ e \notin 1..Len(lines[s]) BY <1>2
  <2>4. \A n \in 1..Len(lines[s]) : n \in Due(s)' <=> n \in Due(s) BY <1>2, <2>2, <2>3 DEF Due
  <2>5. e \in Due(s)' <=> l.kind # "notification" BY <1>2, <2>2, <2>3
  <2>6. pc'[s] = "reading" <=> l.kind = "notification" BY <1>9 DEF AfterLine
  <2>7. e \notin Due(s) BY <2>3 DEF Due
  <2>8. Due(s)' \ Due(s) \subseteq {e} /\ Due(s) \subseteq Due(s)'
    BY <2>2, <2>3, <2>4 DEF Due
  <2>9. Len(lines[s])' = e /\ (pc'[s] \in Busy => l.kind # "notification")
    BY <1>2, <1>9, <2>6 DEF Busy
  <2>10. \A i, j \in 1..Len(replies[s])' : i < j => (replies[s][i].of)' < (replies[s][j].of)'
    BY <1>1 DEF InOrder
  <2>11. Answered(s)' \subseteq Due(s)' BY <2>1, <2>8
  <2>12. Due(s)' \ Answered(s)' \subseteq (IF pc'[s] = "reading" THEN {} ELSE {Len(lines[s])'})
    BY <2>1, <2>5, <2>6, <2>8, <2>9
  <2>13. pc'[s] \in Busy => Len(lines[s])' \in Due(s)' \ Answered(s)'
    BY <2>1, <2>5, <2>7, <2>9
  <2>. QED BY <2>10, <2>11, <2>12, <2>13 DEF InOrder
<1>12. \A i \in 1..Len(replies'[s]) : Sent(s, i)'
  BY <1>1, <1>2, <1>8, <1>9, OwnSent
<1>. QED BY <1>5, <1>6, <1>7, <1>8, <1>10, <1>11, <1>12, StepKeeps

\* bindEnvelope: the code, wrapped for a gateway call, or an internal error that is not.
LEMMA Bound ==
    ASSUME WorkType, NEW s \in Serves, NEW o, NEW code \in Code, Bind(s, o, code)
    PROVE  \E stage \in {"wrapping", "replying"}, a \in {code, "INTERNAL"} :
              /\ pc' = [pc EXCEPT ![s] = stage] /\ answer' = [answer EXCEPT ![s] = a]
              /\ a = "INTERNAL" \/ (Current(s).gateway => stage = "wrapping")
BY DEF Bind, Goto, Delivered

\* An answer that is true of the disk may be delivered.
LEMMA DeliverKeeps ==
    ASSUME ReplyInv, NEW s \in Serves, NEW o, NEW code \in Code, pc[s] \in Busy, Bind(s, o, code),
           lines' = lines, replies' = replies, requestSequence' \in Nat, request' \in [Serves -> Nat],
           \A t \in Serves \ {s} : request'[t] = request[t],
           outputs' \in [Selectors -> Nat], Numbering', NEW m \in Nat, Gains(m), m \in {0, request[s]},
           Tells(Current(s), request[s], code)'
    PROVE  ReplyInv'
<1>. WorkType /\ Hand(s) /\ InOrder(s) BY DEF ReplyInv
<1>. PICK stage \in {"wrapping", "replying"}, a \in {code, "INTERNAL"} :
        /\ pc' = [pc EXCEPT ![s] = stage] /\ answer' = [answer EXCEPT ![s] = a]
        /\ a = "INTERNAL" \/ (Current(s).gateway => stage = "wrapping")
  BY Bound
<1>1. a \in Code /\ pc'[s] = stage /\ answer'[s] = a BY DEF WorkType, Code
<1>2. WorkType' BY <1>1 DEF WorkType, Stage
<1>3. Frame(s) BY DEF Frame, WorkType
<1>4. Current(s)' = Current(s) BY DEF Current
<1>5. Tells(Current(s), request[s], answer[s])' BY <1>1 DEF Tells, AfterLink
<1>6. Hand(s)' BY <1>1, <1>4, <1>5 DEF Hand, Waiting
<1>7. InOrder(s)' BY <1>1, InOrderKept DEF Busy
<1>8. \A i \in 1..Len(replies'[s]) : Sent(s, i)' BY OwnSent
<1>. QED BY <1>2, <1>3, <1>6, <1>7, <1>8, StepKeeps

\* The request of a call gets the next number.
LEMMA NumberTaken ==
    ASSUME WorkType, Numbering, NEW s \in Serves, request[s] = 0, requestSequence' = requestSequence + 1,
           request' = [request EXCEPT ![s] = requestSequence + 1],
           replies' = replies, outputs' = outputs
    PROVE  Numbering'
<1>1. ASSUME NEW t \in Serves, NEW j \in 1..Len(replies[t])
      PROVE  /\ Numbers(replies[t][j])' = Numbers(replies[t][j])
             /\ \A n \in Numbers(replies[t][j]) : n \in Nat /\ n <= requestSequence
  <2>1. Numbers(replies[t][j])' = Numbers(replies[t][j]) BY DEF Numbers
  <2>2. replies[t][j] \in Reply BY DEF WorkType
  <2>3. Numbers(replies[t][j]) \subseteq Nat BY <2>2 DEF Numbers, Reply
  <2>. QED BY <2>1, <2>3 DEF Numbering
<1>2. /\ \A t \in Serves : request'[t] <= requestSequence'
      /\ \A t, u \in Serves : t # u /\ request'[t] # 0 => request'[t] # request'[u]
      /\ \A x \in Selectors : outputs'[x] <= requestSequence'
  BY DEF Numbering, WorkType
<1>3. ASSUME NEW t \in Serves, NEW j \in 1..Len(replies[t])'
      PROVE  /\ \A n \in Numbers(replies[t][j])' : n <= requestSequence'
             /\ \A u \in Serves : request'[u] \notin Numbers(replies[t][j])'
  <2>. PICK N : N = Numbers(replies[t][j]) OBVIOUS
  <2>1. j \in 1..Len(replies[t]) OBVIOUS
  <2>2. Numbers(replies[t][j])' = N /\ \A n \in N : n \in Nat /\ n <= requestSequence
    BY <1>1, <2>1
  <2>3. \A u \in Serves : request[u] \notin N BY <2>1 DEF Numbering
  <2>4. requestSequence + 1 \notin N BY <2>2 DEF WorkType
  <2>5. \A u \in Serves : request'[u] \notin N BY <2>3, <2>4 DEF WorkType
  <2>6. \A n \in N : n <= requestSequence' BY <2>2 DEF WorkType
  <2>. QED BY <2>2, <2>5, <2>6
<1>4. ASSUME NEW t \in Serves, NEW u \in Serves, NEW i \in 1..Len(replies[t])', NEW j \in 1..Len(replies[u])',
             Numbers(replies[t][i])' \cap Numbers(replies[u][j])' # {}
      PROVE  t = u /\ i = j
  <2>1. i \in 1..Len(replies[t]) /\ j \in 1..Len(replies[u]) OBVIOUS
  <2>. QED BY <1>1, <1>4, <2>1 DEF Numbering
<1>. QED BY <1>2, <1>3, <1>4 DEF Numbering

LEMMA AcceptKeeps ==
    ASSUME ReplyInv, NEW s \in Serves, Accept(s)
    PROVE  ReplyInv'
<1>. WorkType /\ Hand(s) /\ InOrder(s) /\ Numbering BY DEF ReplyInv
<1>1. /\ pc[s] = "called" /\ requestSequence' = requestSequence + 1
      /\ request' = [request EXCEPT ![s] = requestSequence + 1]
      /\ lines' = lines /\ replies' = replies /\ outputs' = outputs /\ generations' = generations
  BY DEF Accept, diskVars
<1>2. request[s] = 0 BY <1>1 DEF Hand, Waiting
<1>3. Numbering' BY <1>1, <1>2, NumberTaken
<1>4. executed \subseteq executed' /\ Gains(0) BY <1>1 DEF Accept, Gains
<1>5. /\ request'[s] = requestSequence + 1 /\ request' \in [Serves -> Nat] /\ Current(s)' = Current(s)
      /\ \A x \in Selectors : outputs'[x] # request'[s]
  BY <1>1 DEF WorkType, Numbering, Current
<1>6. Current(s) \in Line /\ (Current(s).selector # None => Current(s).selector \in Selectors)
  BY <1>1, InHand DEF Busy
<1>7. CASE Refusal(Current(s)) = ""
  <2>1. pc' = [pc EXCEPT ![s] = "executing"] /\ answer' = answer /\ executed' = executed \cup {requestSequence + 1}
    BY <1>7 DEF Accept, Goto
  <2>2. Current(s).selector # None => PublicationRoot BY <1>7 DEF Refusal
  <2>3. WorkType' BY <1>1, <1>5, <2>1 DEF WorkType, Stage
  <2>4. Frame(s) BY <1>1, <2>1 DEF Frame, WorkType
  <2>5. pc'[s] = "executing" /\ request'[s] # 0 /\ request'[s] \in executed'
    BY <1>5, <2>1 DEF WorkType
  <2>6. Hand(s)' BY <1>5, <2>2, <2>5 DEF Hand, Waiting
  <2>7. InOrder(s)' BY <1>1, <2>5, InOrderKept DEF Busy
  <2>8. \A i \in 1..Len(replies'[s]) : Sent(s, i)' BY <1>1, <1>4, OwnSent
  <2>. QED BY <1>3, <1>4, <2>3, <2>4, <2>6, <2>7, <2>8, StepKeeps
<1>8. CASE Refusal(Current(s)) # ""
  <2>. PICK code : code = Refusal(Current(s)) OBVIOUS
  <2>1. Bind(s, "", code) BY <1>8 DEF Accept
  <2>2. code \in Code /\ code \notin {"PUBLISHED", "COMPLETE", "PARTIAL"} BY DEF Refusal, Code
  <2>3. ~ Committed(Current(s), request[s])' BY <1>5, <1>6 DEF Committed
  <2>4. Tells(Current(s), request[s], code)' BY <2>2, <2>3 DEF Tells
  <2>. QED BY <1>1, <1>3, <1>4, <1>5, <2>1, <2>2, <2>4, DeliverKeeps DEF Busy, WorkType
<1>. QED BY <1>7, <1>8

\* The executor's result is delivered or goes to the publication root.
LEMMA ExecuteKeeps ==
    ASSUME ReplyInv, NEW s \in Serves, NEW o, Execute(s, o)
    PROVE  ReplyInv'
<1>. WorkType /\ Hand(s) /\ InOrder(s) /\ Numbering BY DEF ReplyInv
<1>1. /\ pc[s] \in {"executing", "grouping"} /\ requestSequence' = requestSequence /\ request' = request
      /\ lines' = lines /\ replies' = replies /\ outputs' = outputs /\ generations' = generations
      /\ executed' = executed
      /\ pc[s] = "executing" /\ Current(s).tool.delivers = "grouped" => o = "failed"
  BY DEF Execute, MayReturn, diskVars
<1>2. Numbering' BY <1>1, NumberingKept
<1>3. Gains(0) BY <1>1 DEF Gains
<1>4. Current(s) \in Line /\ (Current(s).selector # None => Current(s).selector \in Selectors)
  BY <1>1, InHand DEF Busy
<1>5. Current(s)' = Current(s) BY <1>1 DEF Current
<1>6. CASE Publishes(Current(s), o)
  <2>1. /\ pc' = [pc EXCEPT ![s] = "publishing"] /\ answer' = answer /\ Current(s).selector # None
        /\ Current(s).tool.delivers = "artifact"
    BY <1>6 DEF Execute, Goto, Publishes
  <2>2. WorkType' BY <1>1, <2>1 DEF WorkType, Stage
  <2>3. Frame(s) BY <1>1, <2>1 DEF Frame, WorkType
  <2>4. pc'[s] = "publishing" BY <2>1 DEF WorkType
  <2>0. pc[s] = "executing" BY <1>1, <2>1 DEF Hand
  <2>5. Hand(s)' BY <1>1, <1>4, <1>5, <2>0, <2>1, <2>4 DEF Hand, Waiting
  <2>6. InOrder(s)' BY <1>1, <2>4, InOrderKept DEF Busy
  <2>7. \A i \in 1..Len(replies'[s]) : Sent(s, i)' BY <1>1, <1>3, OwnSent
  <2>. QED BY <1>2, <1>3, <2>2, <2>3, <2>5, <2>6, <2>7, StepKeeps
<1>7. CASE ~ Publishes(Current(s), o)
  <2>. PICK code : code = Inline(Current(s), o) OBVIOUS
  <2>1. Bind(s, o, code) BY <1>7 DEF Execute
  <2>2. code \in Code /\ code # "PUBLISHED"
    BY DEF Inline, FailureAnswer, ValueAnswer, ArtifactAnswer, Code
  <2>3. ASSUME pc[s] = "executing" PROVE Tells(Current(s), request[s], code)'
    <3>1. ~ Committed(Current(s), request[s])' BY <1>1, <1>4, <1>5, <2>3 DEF Committed, Hand
    <3>2. Current(s).tool.delivers = "grouped" => code = "DOMAIN_ERROR"
      BY <1>1, <2>3 DEF Inline, FailureAnswer
    <3>. QED BY <1>5, <2>2, <3>1, <3>2 DEF Tells
  <2>4. ASSUME pc[s] = "grouping" PROVE Tells(Current(s), request[s], code)'
    <3>1. /\ Committed(Current(s), request[s])' /\ Current(s).tool.delivers = "grouped"
          /\ request[s] \in executed /\ PublicationRoot
      BY <1>1, <1>5, <2>4 DEF Committed, Hand
    <3>. QED BY <1>1, <1>5, <2>2, <3>1 DEF Tells
  <2>5. Tells(Current(s), request[s], code)' BY <1>1, <2>3, <2>4
  <2>. QED BY <1>1, <1>2, <1>3, <2>1, <2>2, <2>5, DeliverKeeps DEF Busy, WorkType
<1>. QED BY <1>6, <1>7

\* An artifact is linked under the number of its request.
LEMMA NumberingLinked ==
    ASSUME WorkType, Numbering, NEW s \in Serves, NEW x \in Selectors,
           requestSequence' = requestSequence, request' = request, replies' = replies,
           outputs' = [outputs EXCEPT ![x] = request[s]]
    PROVE  Numbering'
<1>1. \A y \in Selectors : outputs'[y] <= requestSequence' BY DEF Numbering, WorkType
<1>2. ASSUME NEW t \in Serves, NEW j \in 1..Len(replies[t])
      PROVE  Numbers(replies[t][j])' = Numbers(replies[t][j])
  BY DEF Numbers
<1>3. /\ \A t \in Serves : request'[t] <= requestSequence'
      /\ \A t, u \in Serves : t # u /\ request'[t] # 0 => request'[t] # request'[u]
  BY DEF Numbering
<1>4. ASSUME NEW t \in Serves, NEW j \in 1..Len(replies[t])'
      PROVE  /\ \A n \in Numbers(replies[t][j])' : n <= requestSequence'
             /\ \A u \in Serves : request'[u] \notin Numbers(replies[t][j])'
  <2>1. j \in 1..Len(replies[t]) OBVIOUS
  <2>. QED BY <1>2, <2>1 DEF Numbering
<1>5. ASSUME NEW t \in Serves, NEW u \in Serves, NEW i \in 1..Len(replies[t])', NEW j \in 1..Len(replies[u])',
             Numbers(replies[t][i])' \cap Numbers(replies[u][j])' # {}
      PROVE  t = u /\ i = j
  <2>1. i \in 1..Len(replies[t]) /\ j \in 1..Len(replies[u]) OBVIOUS
  <2>. QED BY <1>2, <1>5, <2>1 DEF Numbering
<1>. QED BY <1>1, <1>3, <1>4, <1>5 DEF Numbering

\* The grouped slice links its graph under a vacant selector and goes on.
LEMMA PublishGraphKeeps ==
    ASSUME ReplyInv, NEW s \in Serves, PublishGraph(s)
    PROVE  ReplyInv'
<1>. WorkType /\ Hand(s) /\ InOrder(s) /\ Numbering BY DEF ReplyInv
<1>. PICK x : x = Current(s).selector OBVIOUS
<1>1. /\ pc[s] = "executing" /\ requestSequence' = requestSequence /\ request' = request
      /\ lines' = lines /\ replies' = replies /\ generations' = generations /\ executed' = executed
      /\ outputs[x] = 0 /\ outputs' = [outputs EXCEPT ![x] = request[s]] /\ x # None
      /\ pc' = [pc EXCEPT ![s] = "grouping"] /\ answer' = answer /\ Current(s).tool.delivers = "grouped"
  BY DEF PublishGraph, Vacant, Goto, workVars
<1>2. /\ x \in Selectors /\ request[s] # 0 /\ request[s] \in Nat
      /\ request[s] \in executed /\ PublicationRoot
  BY <1>1, InHand DEF Hand, WorkType, Busy
<1>3. Gains(request[s]) BY <1>1, <1>2 DEF Gains
<1>4. outputs' \in [Selectors -> Nat] /\ outputs'[x] = request[s] BY <1>1, <1>2 DEF WorkType
<1>5. Numbering' BY <1>1, <1>2, NumberingLinked
<1>6. Current(s)' = Current(s) /\ request'[s] = request[s] BY <1>1 DEF Current
<1>7. Committed(Current(s), request[s])' BY <1>1, <1>2, <1>4, <1>6 DEF Committed
<1>8. WorkType' BY <1>1, <1>4 DEF WorkType, Stage
<1>9. Frame(s) BY <1>1 DEF Frame, WorkType
<1>10. pc'[s] = "grouping" BY <1>1 DEF WorkType
<1>11. Hand(s)' BY <1>1, <1>2, <1>6, <1>7, <1>10 DEF Hand, Waiting
<1>12. InOrder(s)' BY <1>1, <1>10, InOrderKept DEF Busy
<1>13. \A i \in 1..Len(replies'[s]) : Sent(s, i)' BY <1>1, <1>2, <1>3, OwnSent
<1>. QED BY <1>2, <1>3, <1>5, <1>8, <1>9, <1>11, <1>12, <1>13, StepKeeps

\* The artifact goes under a vacant selector: no reply spoke of that one, and what this
\* call will say does.
LEMMA InstallKeeps ==
    ASSUME ReplyInv, NEW s \in Serves, Install(s)
    PROVE  ReplyInv'
<1>. WorkType /\ Hand(s) /\ InOrder(s) /\ Numbering BY DEF ReplyInv
<1>. PICK x : x = Current(s).selector OBVIOUS
<1>1. /\ pc[s] = "publishing" /\ requestSequence' = requestSequence /\ request' = request
      /\ lines' = lines /\ replies' = replies /\ generations' = generations /\ executed' = executed
      /\ outputs[x] = 0 /\ outputs' = [outputs EXCEPT ![x] = request[s]]
  BY DEF Install, Vacant
<1>2. /\ x \in Selectors /\ x # None /\ request[s] # 0 /\ request[s] \in Nat
      /\ request[s] \in executed /\ PublicationRoot /\ Current(s).tool.delivers = "artifact"
  BY <1>1, NoneAssumption DEF Hand, WorkType
<1>3. Gains(request[s]) BY <1>1, <1>2 DEF Gains
<1>4. outputs' \in [Selectors -> Nat] /\ outputs'[x] = request[s] BY <1>1, <1>2 DEF WorkType
<1>5. Numbering' BY <1>1, <1>2, NumberingLinked
<1>6. Current(s)' = Current(s) /\ request'[s] = request[s] BY <1>1 DEF Current
<1>7. Committed(Current(s), request[s])' BY <1>2, <1>4, <1>6 DEF Committed
<1>8. CASE Current(s).tool.verified /\ Goto(s, "verifying") /\ UNCHANGED answer
  <2>1. pc' = [pc EXCEPT ![s] = "verifying"] /\ answer' = answer BY <1>8 DEF Goto
  <2>2. WorkType' BY <1>1, <1>4, <2>1 DEF WorkType, Stage
  <2>3. Frame(s) BY <1>1, <2>1 DEF Frame, WorkType
  <2>4. pc'[s] = "verifying" BY <2>1 DEF WorkType
  <2>5. Hand(s)' BY <1>1, <1>2, <1>6, <1>7, <1>8, <2>4 DEF Hand, Waiting
  <2>6. InOrder(s)' BY <1>1, <2>4, InOrderKept DEF Busy
  <2>7. \A i \in 1..Len(replies'[s]) : Sent(s, i)' BY <1>1, <1>2, <1>3, OwnSent
  <2>. QED BY <1>2, <1>3, <1>5, <2>2, <2>3, <2>5, <2>6, <2>7, StepKeeps
<1>9. ASSUME NEW code \in {"PUBLISHED", "RENAMED_ERROR"}, Bind(s, result[s], code),
             code = "PUBLISHED" => ~ Current(s).tool.verified
      PROVE  ReplyInv'
  <2>1. Tells(Current(s), request[s], code)' BY <1>1, <1>2, <1>6, <1>7, <1>9 DEF Tells, AfterLink
  <2>2. code \in Code /\ pc[s] \in Busy BY <1>1, <1>9 DEF Code, Busy
  <2>3. Bind(s, result[s], code) BY <1>9
  <2>. QED BY <1>1, <1>2, <1>3, <1>4, <1>5, <2>1, <2>2, <2>3, DeliverKeeps DEF WorkType
<1>. QED BY <1>8, <1>9 DEF Install

\* A publication that fails before the link leaves nothing behind.
LEMMA InstallFailsKeeps ==
    ASSUME ReplyInv, NEW s \in Serves, NEW code, InstallFails(s, code)
    PROVE  ReplyInv'
<1>. WorkType /\ Hand(s) /\ InOrder(s) /\ Numbering BY DEF ReplyInv
<1>1. /\ pc[s] = "publishing" /\ requestSequence' = requestSequence /\ request' = request
      /\ lines' = lines /\ replies' = replies /\ outputs' = outputs /\ generations' = generations
      /\ executed' = executed /\ Bind(s, result[s], code)
      /\ code \in {"OUTPUT_SELECTOR_UNSAFE", "PUBLICATION_ERROR"}
  BY DEF InstallFails, diskVars
<1>2. Numbering' BY <1>1, NumberingKept
<1>3. Gains(0) BY <1>1 DEF Gains
<1>4. Current(s)' = Current(s) BY <1>1 DEF Current
<1>5. ~ Committed(Current(s), request[s])' BY <1>1, <1>4 DEF Committed, Hand
<1>6. Tells(Current(s), request[s], code)' BY <1>1, <1>5 DEF Tells
<1>7. code \in Code BY <1>1 DEF Code
<1>. QED BY <1>1, <1>2, <1>3, <1>6, <1>7, DeliverKeeps DEF Busy, WorkType

\* The verified generation follows the artifact, or the answer says it did not.
LEMMA GenerationKeeps ==
    ASSUME ReplyInv, NEW s \in Serves, NEW code, NEW there, InstallGeneration(s, code, there)
    PROVE  ReplyInv'
<1>. WorkType /\ Hand(s) /\ InOrder(s) /\ Numbering BY DEF ReplyInv
<1>1. /\ pc[s] = "verifying" /\ requestSequence' = requestSequence /\ request' = request
      /\ lines' = lines /\ replies' = replies /\ outputs' = outputs
      /\ executed' = executed /\ Bind(s, result[s], code)
      /\ code \in {"PUBLISHED", "PUBLICATION_ERROR", "OUTPUT_SELECTOR_UNSAFE"}
      /\ generations' = IF there THEN generations \cup {request[s]} ELSE generations
      /\ code = "PUBLISHED" => there
  BY DEF InstallGeneration
<1>2. Numbering' BY <1>1, NumberingKept
<1>3. Gains(0) BY <1>1 DEF Gains
<1>4. Current(s)' = Current(s) /\ request'[s] = request[s] BY <1>1 DEF Current
<1>5. /\ Committed(Current(s), request[s])' /\ Current(s).tool.verified
      /\ Current(s).tool.delivers = "artifact"
  BY <1>1, <1>4 DEF Committed, Hand
<1>6. request[s] \in executed /\ PublicationRoot BY <1>1 DEF Hand, Committed
<1>7. code = "PUBLISHED" => request[s] \in generations' BY <1>1
<1>8. Tells(Current(s), request[s], code)' BY <1>1, <1>4, <1>5, <1>6, <1>7 DEF Tells, AfterLink
<1>9. code \in Code BY <1>1 DEF Code
<1>. QED BY <1>1, <1>2, <1>3, <1>8, <1>9, DeliverKeeps DEF Busy, WorkType

\* The numbers after reply r to call s, whose request is no longer in hand.
LEMMA NumberingWritten ==
    ASSUME WorkType, Numbering, NEW s \in Serves, NEW w \in {0, 1}, NEW r \in Reply,
           r.request = request[s], r.wrapper \in {0, requestSequence + w},
           w = 0 => r.wrapper = 0,
           requestSequence' = requestSequence + w, outputs' = outputs,
           request' = [request EXCEPT ![s] = 0],
           replies' = [replies EXCEPT ![s] = Append(replies[s], r)]
    PROVE  Numbering'
<1>. PICK e : e = Len(replies[s]) + 1 OBVIOUS
<1>1. /\ replies[s] \in Seq(Reply) /\ Len(replies[s]) \in Nat
      /\ replies'[s] = Append(replies[s], r) /\ Len(replies'[s]) = e /\ replies'[s][e] = r
      /\ \A i \in 1..Len(replies[s]) : replies'[s][i] = replies[s][i]
      /\ \A t \in Serves \ {s} : replies'[t] = replies[t]
  BY Appended DEF WorkType
<1>2. ASSUME NEW t \in Serves, NEW j \in 1..Len(replies'[t])
      PROVE  \/ j \in 1..Len(replies[t]) /\ replies'[t][j] = replies[t][j]
             \/ t = s /\ j = e /\ replies'[t][j] = r
  BY <1>1
<1>3. ASSUME NEW t \in Serves, NEW j \in 1..Len(replies[t])
      PROVE  /\ Numbers(replies[t][j]) \subseteq Nat /\ r.request \notin Numbers(replies[t][j])
             /\ \A n \in Numbers(replies[t][j]) : n <= requestSequence
  <2>1. replies[t][j] \in Reply BY DEF WorkType
  <2>2. Numbers(replies[t][j]) \subseteq Nat BY <2>1 DEF Numbers, Reply
  <2>. QED BY <2>2 DEF Numbering
<1>4. Numbers(r) \subseteq {request[s], requestSequence + w} \ {0}
  <2>1. \A n \in Numbers(r) : n # 0 /\ (n = r.request \/ n = r.wrapper) BY DEF Numbers
  <2>. QED BY <2>1
<1>5. ASSUME NEW t \in Serves, NEW j \in 1..Len(replies[t])
      PROVE  Numbers(r) \cap Numbers(replies[t][j]) = {}
  <2>. PICK N : N = Numbers(replies[t][j]) OBVIOUS
  <2>1. /\ N \subseteq Nat /\ request[s] \notin N /\ \A n \in N : n <= requestSequence
    BY <1>3
  <2>2. w = 1 => requestSequence + w \notin N BY <2>1 DEF WorkType
  <2>3. Numbers(r) \subseteq {request[s]} \cup (IF w = 1 THEN {requestSequence + w} ELSE {}) BY DEF Numbers
  <2>. QED BY <2>1, <2>2, <2>3
<1>6. /\ \A t \in Serves : request'[t] <= requestSequence'
      /\ \A t, u \in Serves : t # u /\ request'[t] # 0 => request'[t] # request'[u]
      /\ \A x \in Selectors : outputs'[x] <= requestSequence'
  BY DEF Numbering, WorkType
<1>7. ASSUME NEW t \in Serves, NEW j \in 1..Len(replies[t])'
      PROVE  /\ \A n \in Numbers(replies[t][j])' : n <= requestSequence'
             /\ \A u \in Serves : request'[u] \notin Numbers(replies[t][j])'
  <2>. PICK N : N = Numbers(replies'[t][j]) OBVIOUS
  <2>1. Numbers(replies[t][j])' = N BY DEF Numbers
  <2>2. CASE j \in 1..Len(replies[t]) /\ replies'[t][j] = replies[t][j]
    <3>1. N \subseteq Nat /\ (\A n \in N : n <= requestSequence) /\ \A u \in Serves : request[u] \notin N
      BY <1>3, <2>2 DEF Numbering
    <3>2. 0 \notin N BY DEF Numbers
    <3>3. \A u \in Serves : request'[u] \notin N BY <3>1, <3>2 DEF WorkType
    <3>4. \A n \in N : n <= requestSequence' BY <3>1 DEF WorkType
    <3>. QED BY <2>1, <3>3, <3>4
  <2>3. CASE replies'[t][j] = r
    <3>1. N = Numbers(r) BY <2>3
    <3>2. \A n \in N : n \in {request[s], requestSequence + w} BY <1>4, <3>1
    <3>3. \A n \in N : n <= requestSequence'
      <4>1. request[s] <= requestSequence' /\ requestSequence + w <= requestSequence'
        BY DEF Numbering, WorkType
      <4>. QED BY <3>2, <4>1
    <3>4. ASSUME NEW u \in Serves PROVE request'[u] \notin N
      <4>1. CASE request'[u] = 0 BY <4>1 DEF Numbers
      <4>2. CASE request'[u] # 0
        <5>1. u # s /\ request'[u] = request[u] BY <4>2 DEF WorkType
        <5>2. request[u] # request[s] /\ request[u] <= requestSequence BY <4>2, <5>1 DEF Numbering
        <5>3. w = 0 => N \subseteq {request[s]} BY <3>1 DEF Numbers
        <5>4. w = 1 => request[u] # requestSequence + w BY <5>2 DEF WorkType
        <5>. QED BY <3>2, <5>1, <5>2, <5>3, <5>4
      <4>. QED BY <4>1, <4>2
    <3>. QED BY <2>1, <3>3, <3>4
  <2>. QED BY <1>2, <2>2, <2>3
<1>8. ASSUME NEW t \in Serves, NEW u \in Serves, NEW i \in 1..Len(replies[t])', NEW j \in 1..Len(replies[u])',
             Numbers(replies[t][i])' \cap Numbers(replies[u][j])' # {}
      PROVE  t = u /\ i = j
  <2>. PICK a, b : a = replies'[t][i] /\ b = replies'[u][j] OBVIOUS
  <2>1. Numbers(a) \cap Numbers(b) # {} BY <1>8 DEF Numbers
  <2>2. \/ i \in 1..Len(replies[t]) /\ a = replies[t][i]
        \/ t = s /\ i = e /\ a = r
    BY <1>2
  <2>3. \/ j \in 1..Len(replies[u]) /\ b = replies[u][j]
        \/ u = s /\ j = e /\ b = r
    BY <1>2
  <2>. QED BY <1>5, <2>1, <2>2, <2>3 DEF Numbering
<1>. QED BY <1>6, <1>7, <1>8 DEF Numbering

LEMMA NumberingUnwritten ==
    ASSUME WorkType, Numbering, NEW s \in Serves, NEW w \in {0, 1},
           requestSequence' = requestSequence + w, outputs' = outputs,
           request' = [request EXCEPT ![s] = 0], replies' = replies
    PROVE  Numbering'
<1>1. /\ \A t \in Serves : request'[t] <= requestSequence'
      /\ \A t, u \in Serves : t # u /\ request'[t] # 0 => request'[t] # request'[u]
      /\ \A x \in Selectors : outputs'[x] <= requestSequence'
  BY DEF Numbering, WorkType
<1>2. ASSUME NEW t \in Serves, NEW j \in 1..Len(replies[t])'
      PROVE  /\ \A n \in Numbers(replies[t][j])' : n <= requestSequence'
             /\ \A u \in Serves : request'[u] \notin Numbers(replies[t][j])'
  <2>. PICK N : N = Numbers(replies[t][j]) OBVIOUS
  <2>1. Numbers(replies[t][j])' = N /\ 0 \notin N BY DEF Numbers
  <2>2. (\A n \in N : n <= requestSequence) /\ \A u \in Serves : request[u] \notin N
    BY DEF Numbering
  <2>3. replies[t][j] \in Reply BY DEF WorkType
  <2>4. N \subseteq Nat BY <2>3 DEF Numbers, Reply
  <2>5. \A u \in Serves : request'[u] \notin N BY <2>1, <2>2 DEF WorkType
  <2>6. \A n \in N : n <= requestSequence' BY <2>2, <2>4 DEF WorkType
  <2>. QED BY <2>1, <2>5, <2>6
<1>3. ASSUME NEW t \in Serves, NEW u \in Serves, NEW i \in 1..Len(replies[t])', NEW j \in 1..Len(replies[u])',
             Numbers(replies[t][i])' \cap Numbers(replies[u][j])' # {}
      PROVE  t = u /\ i = j
  <2>1. i \in 1..Len(replies[t]) /\ j \in 1..Len(replies[u]) OBVIOUS
  <2>2. /\ Numbers(replies[t][i])' = Numbers(replies[t][i])
        /\ Numbers(replies[u][j])' = Numbers(replies[u][j])
    BY DEF Numbers
  <2>. QED BY <1>3, <2>1, <2>2 DEF Numbering
<1>. QED BY <1>1, <1>2, <1>3 DEF Numbering

\* Encode: the answer in hand becomes the reply to the line in hand, or is lost with it.
LEMMA WriteReplyKeeps ==
    ASSUME ReplyInv, NEW s \in Serves, NEW w \in BOOLEAN, NEW written \in BOOLEAN,
           WriteReply(s, w, written), pc[s] = IF w THEN "wrapping" ELSE "replying"
    PROVE  ReplyInv'
<1>. WorkType /\ Hand(s) /\ InOrder(s) /\ Numbering BY DEF ReplyInv
<1>. PICK l, e : l = Current(s) /\ e = Len(replies[s]) + 1 OBVIOUS
<1>. PICK stage, k, m : /\ stage = (IF written THEN "reading" ELSE "leaving")
                        /\ k = (IF w THEN 1 ELSE 0)
                        /\ m = (IF w THEN requestSequence + 1 ELSE 0)
  OBVIOUS
<1>. PICK r : r = [of |-> Len(lines[s]), answer |-> answer[s], request |-> request[s], wrapper |-> m]
  OBVIOUS
<1>0. /\ k \in {0, 1} /\ m \in {0, requestSequence + k} /\ m \in Nat /\ (k = 0 => m = 0)
      /\ stage \in {"reading", "leaving"} /\ (pc[s] = "wrapping" => m = requestSequence + 1)
      /\ pc[s] \in {"wrapping", "replying"}
  BY DEF WorkType
<1>1. /\ requestSequence' = requestSequence + k /\ pc' = [pc EXCEPT ![s] = stage]
      /\ replies' = (IF written THEN [replies EXCEPT ![s] = Append(replies[s], r)] ELSE replies)
      /\ request' = [request EXCEPT ![s] = 0] /\ answer' = [answer EXCEPT ![s] = ""]
      /\ lines' = lines /\ outputs' = outputs /\ generations' = generations /\ executed' = executed
  BY DEF WriteReply, Goto, diskVars
<1>2. pc[s] \in Busy /\ pc[s] # "reading" BY <1>0 DEF Busy
<1>3. /\ Len(lines[s]) \in Nat /\ Len(lines[s]) >= 1 /\ l \in Line /\ l = lines[s][Len(lines[s])]
  BY <1>2, InHand DEF Current
<1>4. /\ r \in Reply /\ r.of = Len(lines[s]) /\ r.answer = answer[s] /\ r.request = request[s]
      /\ r.wrapper = m
  BY <1>0, <1>3 DEF WorkType, Reply
<1>5. WorkType'
  <2>1. replies' \in [Serves -> Seq(Reply)]
    <3>1. Append(replies[s], r) \in Seq(Reply) BY <1>4, Appended DEF WorkType
    <3>. QED BY <1>1, <3>1 DEF WorkType
  <2>2. stage \in Stage BY <1>0 DEF Stage
  <2>4. pc' \in [Serves -> Stage] BY <1>1, <2>2 DEF WorkType
  <2>5. request' \in [Serves -> Nat] BY <1>1 DEF WorkType
  <2>6. requestSequence' \in Nat
    <3>1. k = 0 \/ k = 1 BY <1>0
    <3>2. requestSequence \in Nat /\ requestSequence' = requestSequence + k BY <1>1 DEF WorkType
    <3>. QED BY <3>1, <3>2
  <2>3. answer' \in [Serves -> Code] BY <1>1 DEF WorkType, Code
  <2>. QED BY <1>1, <2>1, <2>3, <2>4, <2>5, <2>6 DEF WorkType
<1>6. Numbering'
  <2>1. CASE written
    <3>1. replies' = [replies EXCEPT ![s] = Append(replies[s], r)] BY <1>1, <2>1
    <3>. QED BY <1>0, <1>1, <1>4, <3>1, NumberingWritten
  <2>2. CASE ~ written
    <3>1. replies' = replies BY <1>1, <2>2
    <3>. QED BY <1>0, <1>1, <3>1, NumberingUnwritten
  <2>. QED BY <2>1, <2>2
<1>7. Frame(s) BY <1>1 DEF Frame, WorkType
<1>8. Gains(0) BY <1>1 DEF Gains
<1>9. pc'[s] = stage /\ request'[s] = 0 /\ lines'[s] = lines[s]
  BY <1>1 DEF WorkType
<1>10. Hand(s)' BY <1>0, <1>9 DEF Hand
<1>11. CASE ~ written
  <2>1. replies' = replies BY <1>1, <1>11
  <2>2. InOrder(s)' BY <1>2, <1>9, <1>11, <2>1, InOrderKept DEF Busy
  <2>3. \A i \in 1..Len(replies'[s]) : Sent(s, i)' BY <1>8, <1>9, <2>1, OwnSent
  <2>. QED BY <1>5, <1>6, <1>7, <1>8, <1>10, <2>2, <2>3, StepKeeps
<1>12. CASE written
  <2>1. /\ Len(replies[s]) \in Nat /\ Len(replies'[s]) = e /\ replies'[s][e] = r
        /\ \A i \in 1..Len(replies[s]) : replies'[s][i] = replies[s][i]
    <3>1. replies'[s] = Append(replies[s], r) BY <1>1, <1>12 DEF WorkType
    <3>2. replies[s] \in Seq(Reply) BY DEF WorkType
    <3>. QED BY <1>4, <3>1, <3>2, Appended
  <2>2. ASSUME NEW i \in 1..Len(replies'[s]) PROVE i \in 1..Len(replies[s]) \/ i = e
    BY <2>1
  <2>3. Len(lines[s]) \in Due(s) \ Answered(s) BY <1>2 DEF InOrder
  <2>4. \A i \in 1..Len(replies[s]) : replies[s][i].of \in Nat /\ replies[s][i].of < Len(lines[s])
    <3>. SUFFICES ASSUME NEW i \in 1..Len(replies[s])
                  PROVE  replies[s][i].of \in Nat /\ replies[s][i].of < Len(lines[s])
      OBVIOUS
    <3>1. replies[s][i].of \in Answered(s) BY DEF Answered
    <3>2. replies[s][i].of \in 1..Len(lines[s]) /\ replies[s][i].of # Len(lines[s])
      BY <2>3, <3>1 DEF InOrder, Due
    <3>. QED BY <1>3, <3>2
  <2>5. Answered(s)' = Answered(s) \cup {Len(lines[s])}
    <3>1. \A i \in 1..Len(replies[s]) : i \in 1..e BY <2>1
    <3>2. e \in 1..e BY <2>1
    <3>. QED BY <1>4, <2>1, <2>2, <3>1, <3>2 DEF Answered
  <2>6. InOrder(s)'
    <3>1. ASSUME NEW i \in 1..Len(replies'[s]), NEW j \in 1..Len(replies'[s]), i < j
          PROVE  replies'[s][i].of < replies'[s][j].of
      <4>1. i \in 1..Len(replies[s]) BY <2>1, <3>1
      <4>2. CASE j \in 1..Len(replies[s]) BY <2>1, <3>1, <4>1, <4>2 DEF InOrder
      <4>3. CASE j = e BY <1>4, <2>1, <2>4, <4>1, <4>3
      <4>. QED BY <2>2, <4>2, <4>3
    <3>2. Due(s)' = Due(s) BY <1>1 DEF Due
    <3>3. Answered(s)' \subseteq Due(s)' BY <2>3, <2>5, <3>2 DEF InOrder
    <3>4. Due(s)' \ Answered(s)' = {} BY <1>2, <2>5, <3>2 DEF InOrder
    <3>. QED BY <1>9, <1>12, <3>1, <3>3, <3>4 DEF InOrder, Busy
  <2>7. ASSUME NEW i \in 1..Len(replies'[s]) PROVE Sent(s, i)'
    <3>1. CASE i \in 1..Len(replies[s]) BY <1>8, <1>9, <2>1, <3>1, SentKept
    <3>2. CASE i = e
      <4>1. replies'[s][i] = r /\ lines'[s][r.of] = l BY <1>3, <1>4, <1>9, <2>1, <3>2
      <4>2. Tells(l, request[s], answer[s]) BY <1>0 DEF Hand
      <4>3. Tells(l, r.request, r.answer)' BY <1>1, <1>4, <4>2 DEF Tells, Committed
      <4>4. l.gateway /\ r.request # 0 => r.answer = "INTERNAL" \/ r.wrapper > r.request
        <5>1. CASE pc[s] = "wrapping"
          <6>1. request[s] <= requestSequence /\ m = requestSequence + 1 BY <1>0, <5>1 DEF Numbering
          <6>. QED BY <1>4, <6>1 DEF WorkType
        <5>2. CASE pc[s] = "replying" BY <1>4, <5>2 DEF Hand
        <5>. QED BY <1>0, <5>1, <5>2
      <4>. QED BY <4>1, <4>3, <4>4 DEF Sent
    <3>. QED BY <2>2, <3>1, <3>2
  <2>. QED BY <1>5, <1>6, <1>7, <1>8, <1>10, <2>6, <2>7, StepKeeps
<1>. QED BY <1>11, <1>12

LEMMA RepliesInit == Init => ReplyInv
<1>. SUFFICES ASSUME Init PROVE ReplyInv OBVIOUS
<1>0. /\ requestSequence = 0 /\ pc = [s \in Serves |-> "new"] /\ lines = [s \in Serves |-> << >>]
      /\ request = [s \in Serves |-> 0] /\ answer = [s \in Serves |-> ""]
      /\ replies = [s \in Serves |-> << >>] /\ outputs = [x \in Selectors |-> 0]
  BY DEF Init
<1>1. WorkType
  <2>1. "new" \in Stage /\ "" \in Code BY DEF Stage, Code
  <2>2. << >> \in Seq(Lines) /\ << >> \in Seq(Reply) OBVIOUS
  <2>. QED BY <1>0, <2>1, <2>2 DEF WorkType
<1>2. ASSUME NEW t \in Serves, NEW j \in 1..Len(replies[t]) PROVE FALSE
  <2>1. replies[t] = << >> BY <1>0
  <2>2. Len(replies[t]) = 0 BY <2>1
  <2>. QED BY <2>2
<1>3. AllSent /\ Numbering
  <2>1. AllSent BY <1>2 DEF AllSent
  <2>2. /\ \A s \in Serves : request[s] <= requestSequence /\ request[s] = 0
        /\ \A x \in Selectors : outputs[x] <= requestSequence
    <3>1. requestSequence = 0 /\ request = [s \in Serves |-> 0] /\ outputs = [x \in Selectors |-> 0]
      BY <1>0
    <3>. QED BY <3>1
  <2>. QED BY <1>2, <2>1, <2>2 DEF Numbering
<1>4. ASSUME NEW s \in Serves PROVE Hand(s) /\ InOrder(s)
  <2>1. pc[s] = "new" /\ lines[s] = << >> /\ replies[s] = << >> /\ request[s] = 0 BY <1>0
  <2>2. Due(s) = {} /\ Answered(s) = {} BY <2>1 DEF Due, Answered
  <2>. QED BY <2>1, <2>2 DEF Hand, InOrder, Busy
<1>. QED BY <1>1, <1>3, <1>4 DEF ReplyInv

LEMMA RepliesNext == ReplyInv /\ [Next]_vars => ReplyInv'
<1>. SUFFICES ASSUME ReplyInv, [Next]_vars PROVE ReplyInv' OBVIOUS
<1>1. ASSUME NEW s \in Serves, Register(s) \/ EndInput(s) \/ Leave(s) \/ Clear(s) PROVE ReplyInv'
  <2>1. UNCHANGED <<requestSequence, lines, request, answer, replies, outputs, generations, executed>>
    BY <1>1 DEF Register, EndInput, Leave, Clear, workVars, diskVars
  <2>2. \/ pc[s] = "new" /\ Goto(s, "reading")
        \/ pc[s] = "reading" /\ Goto(s, "leaving")
        \/ pc[s] = "leaving" /\ Goto(s, "left")
        \/ pc[s] = "left" /\ Goto(s, "returned")
    BY <1>1 DEF Register, EndInput, Leave, Clear
  <2>3. {"reading", "leaving", "left", "returned"} \subseteq Stage BY DEF Stage
  <2>. QED BY <2>1, <2>2, <2>3, IdleKeeps
<1>2. ASSUME NEW s \in Serves, NEW ok \in BOOLEAN, SendReply(s, ok) \/ SendWrapped(s, ok) PROVE ReplyInv'
  BY <1>2, WriteReplyKeeps DEF SendReply, SendWrapped
<1>3. ASSUME UNCHANGED <<requestSequence, pc, lines, request, answer, replies, outputs, generations, executed>>
      PROVE  ReplyInv'
  <2>1. Gains(0) /\ WorkType' BY <1>3 DEF Gains, ReplyInv, WorkType
  <2>2. Numbering' BY <1>3, NumberingKept DEF ReplyInv
  <2>3. ASSUME NEW t \in Serves PROVE Hand(t)' BY <1>3, <2>1, HandKept
  <2>4. ASSUME NEW t \in Serves PROVE InOrder(t)' BY <1>3, InOrderKept DEF ReplyInv
  <2>5. ASSUME NEW t \in Serves PROVE \A i \in 1..Len(replies'[t]) : Sent(t, i)'
    BY <1>3, <2>1, OwnSent
  <2>6. AllSent' BY <2>5 DEF AllSent
  <2>. QED BY <2>1, <2>2, <2>3, <2>4, <2>6 DEF ReplyInv
<1>4. ASSUME NEW s \in Serves, Work(s) PROVE ReplyInv'
  BY <1>1, <1>2, <1>4, AcceptKeeps, InstallKeeps, InstallFailsKeeps, GenerationKeeps, ExecuteKeeps DEF Work
<1>5. ASSUME NEW k \in Stoppers, CallShutdown(k) \/ Stopping(k) PROVE ReplyInv'
  BY <1>3, <1>5 DEF CallShutdown, Stopping, ReadCancel, RunCancel, workVars, diskVars
<1>6. CASE UNCHANGED vars BY <1>3, <1>6 DEF vars, workVars, diskVars
<1>. QED BY <1>1, <1>4, <1>5, <1>6, ReadLineKeeps, ExecuteKeeps, PublishGraphKeeps DEF Next, Returned

\* For any number of overlapping calls, lines and selectors: every line but a
\* notification is answered once, in order and before the next is read
\* (Server.ServeContext), and no two envelopes carry the same request number
\* (Server.requestSequence), those of the gateway included.
THEOREM RepliesAreMatched == Spec => []RepliesMatch
<1>1. ReplyInv => RepliesMatch
  BY DEF ReplyInv, InOrder, Numbering, AllSent, Sent, RepliesMatch
<1>. QED BY <1>1, RepliesInit, RepliesNext, PTL DEF Spec

\* A reply tells what became of the artifact (callContext): a receipt means the bytes of
\* that request are under its selector for good, whoever else publishes there, and its
\* verified generation is installed where one is due; an inline result of the grouped
\* slice means its graph is there; and an artifact that was linked is answered with a
\* receipt, an error of the publication (of the verified generation's unsafe target too,
\* as OUTPUT_SELECTOR_UNSAFE) or an internal error.
THEOREM RepliesTellTheDisk == Spec => []RepliesTellPublication
<1>1. ReplyInv => RepliesTellPublication
  BY DEF ReplyInv, AllSent, Sent, RepliesTellPublication
<1>. QED BY <1>1, RepliesInit, RepliesNext, PTL DEF Spec
==============================================================================
