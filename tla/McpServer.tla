------------------------------ MODULE McpServer ------------------------------
(***************************************************************************)
(* The MCP server of internal/mcp/transport.go.  Several calls of          *)
(* ServeContext may overlap on one Server: each registers its cancel       *)
(* function (the latest wins and cancels its predecessor), answers the     *)
(* lines of its own input one at a time, and on its way out clears the     *)
(* registration only if it is still its own.  Shutdown cancels what it     *)
(* finds registered.  A tools/call runs callContext: refusals, then the    *)
(* executor, then the delivery inline or into the publication root, whose  *)
(* files are shared by all calls; the execute gateway wraps such a call.   *)
(*                                                                         *)
(* A line is abstracted to what the handlers tell apart, an envelope to    *)
(* its outcome and its request number.  The executor, the client and the   *)
(* writer of the replies are external.                                     *)
(***************************************************************************)
EXTENDS Naturals, Sequences, FiniteSets

CONSTANTS
    Serves,           \* calls of ServeContext
    Stoppers,         \* calls of Shutdown
    Selectors,        \* values of output_selector
    None,
    Lines,            \* what a client may write
    PublicationRoot,  \* is Server.PublicationRoot set
    Outcomes,         \* what an executor may return
    MaxLines          \* bound on the lines of all inputs

Kind == {"malformed", "notification", "invalid", "plain", "unknown", "call"}

\* A registered tool: its Availability, whether it has an executor, what it delivers
\* (a value in the envelope, an artifact, or the grouped slice, whose executor
\* publishes by itself) and supportsV1Verification of its artifact.
Tool == [enabled : BOOLEAN, executor : BOOLEAN,
         delivers : {"value", "artifact", "grouped"}, verified : BOOLEAN]

Line == [kind : Kind, valid : BOOLEAN, gateway : BOOLEAN, tool : Tool,
         selector : Selectors \cup {None}, compact : BOOLEAN]

ASSUME LinesAssumption == Lines \subseteq Line
ASSUME NoneAssumption == None \notin Serves \cup Selectors

VARIABLES
    serveCancel,      \* the call whose cancel function is s.serveCancel, or None
    serveGeneration,  \* s.serveGeneration
    generation,       \* the generation of each call
    cancelled,        \* the calls whose context is cancelled
    requestSequence,  \* s.requestSequence
    pc,               \* where each call of ServeContext is
    lines,            \* the lines it has read
    request,          \* the request number of the tool call in hand, 0 before
    result,           \* what the executor returned for it
    answer,           \* the answer in hand
    replies,          \* what was written, oldest first
    outputs,          \* selector -> request whose artifact is there, 0 if none
    generations,      \* requests whose verified generation is installed
    executed,         \* requests passed to an executor
    stop              \* each call of Shutdown: "idle", "called", "done" or the call it cancels

serveVars == <<serveCancel, serveGeneration, generation>>
workVars == <<request, result, answer>>
diskVars == <<outputs, generations>>
vars == <<serveVars, cancelled, requestSequence, pc, lines, workVars, replies, diskVars,
          executed, stop>>

Outcome == {"failed", "complete", "partial", "large", "foreign", "unsound"}

ASSUME BoundAssumption ==
    MaxLines \in Nat /\ PublicationRoot \in BOOLEAN /\ Outcomes \subseteq Outcome

Stage == {"new", "reading", "called", "executing", "grouping", "publishing", "verifying",
          "wrapping", "replying", "leaving", "left", "returned"}
Code == {"", "PARSE_ERROR", "INVALID_REQUEST", "INVALID_PARAMS", "METHOD_NOT_FOUND",
         "INTERNAL", "RESULT", "COMPLETE", "PARTIAL", "DOMAIN_ERROR",
         "TOOL_NOT_IMPLEMENTED", "OUTPUT_REQUIRES_SELECTOR", "OUTPUT_SELECTOR_UNSAFE",
         "OUTPUT_VALIDATION_FAILED", "PUBLISHED", "PUBLICATION_ERROR", "RENAMED_ERROR"}
Reply == [of : Nat, answer : Code, request : Nat, wrapper : Nat]

TypeOK ==
    /\ serveCancel \in Serves \cup {None} /\ serveGeneration \in Nat
    /\ generation \in [Serves -> Nat] /\ cancelled \subseteq Serves
    /\ requestSequence \in Nat /\ pc \in [Serves -> Stage]
    /\ lines \in [Serves -> Seq(Lines)] /\ request \in [Serves -> Nat]
    /\ result \in [Serves -> Outcome \cup {""}] /\ answer \in [Serves -> Code]
    /\ replies \in [Serves -> Seq(Reply)]
    /\ outputs \in [Selectors -> Nat] /\ generations \subseteq Nat /\ executed \subseteq Nat
    /\ stop \in [Stoppers -> {"idle", "called", "done"} \cup Serves]

Init ==
    /\ serveCancel = None /\ serveGeneration = 0
    /\ generation = [s \in Serves |-> 0] /\ cancelled = {}
    /\ requestSequence = 0 /\ pc = [s \in Serves |-> "new"]
    /\ lines = [s \in Serves |-> << >>] /\ request = [s \in Serves |-> 0]
    /\ result = [s \in Serves |-> ""] /\ answer = [s \in Serves |-> ""]
    /\ replies = [s \in Serves |-> << >>]
    /\ outputs = [x \in Selectors |-> 0] /\ generations = {} /\ executed = {}
    /\ stop = [k \in Stoppers |-> "idle"]

Active(s) == pc[s] \notin {"new", "returned"}

Goto(s, stage) == pc' = [pc EXCEPT ![s] = stage]

\* The line a call is working on: the last one it read.
Current(s) == lines[s][Len(lines[s])]

------------------------------------------------------------------------------
(* The registration of a call and its removal.                              *)

\* ServeContext under lifecycleMu: cancel the registered call, take its place.
Register(s) ==
    /\ pc[s] = "new" /\ Goto(s, "reading")
    /\ cancelled' = cancelled \cup ({serveCancel} \ {None})
    /\ serveGeneration' = serveGeneration + 1
    /\ generation' = [generation EXCEPT ![s] = serveGeneration + 1]
    /\ serveCancel' = s
    /\ UNCHANGED <<requestSequence, lines, workVars, replies, diskVars, executed, stop>>

\* The deferred function runs cancel before it takes the lock.
Leave(s) ==
    /\ pc[s] = "leaving" /\ Goto(s, "left")
    /\ cancelled' = cancelled \cup {s}
    /\ UNCHANGED <<serveVars, requestSequence, lines, workVars, replies, diskVars, executed, stop>>

StillOwn_Always(s) == TRUE

\* A later call has a later generation and keeps its registration.
StillOwn(s) == serveGeneration = generation[s]

Clear(s) ==
    /\ pc[s] = "left" /\ Goto(s, "returned")
    /\ serveCancel' = IF StillOwn(s) THEN None ELSE serveCancel
    /\ UNCHANGED <<serveGeneration, generation, cancelled, requestSequence, lines, workVars,
                   replies, diskVars, executed, stop>>

------------------------------------------------------------------------------
(* Shutdown reads the registration under the lock and cancels after it.     *)

CallShutdown(k) ==
    /\ stop[k] = "idle" /\ stop' = [stop EXCEPT ![k] = "called"]
    /\ UNCHANGED <<serveVars, cancelled, requestSequence, pc, lines, workVars, replies,
                   diskVars, executed>>

ReadCancel_Inverted(k) ==
    /\ stop[k] = "called" /\ stop' = [stop EXCEPT ![k] = "done"]
    /\ UNCHANGED <<serveVars, cancelled, requestSequence, pc, lines, workVars, replies,
                   diskVars, executed>>

ReadCancel(k) ==
    /\ stop[k] = "called"
    /\ stop' = [stop EXCEPT ![k] = IF serveCancel = None THEN "done" ELSE serveCancel]
    /\ UNCHANGED <<serveVars, cancelled, requestSequence, pc, lines, workVars, replies,
                   diskVars, executed>>

RunCancel(k) ==
    /\ stop[k] \in Serves
    /\ cancelled' = cancelled \cup {stop[k]}
    /\ stop' = [stop EXCEPT ![k] = "done"]
    /\ UNCHANGED <<serveVars, requestSequence, pc, lines, workVars, replies, diskVars, executed>>

------------------------------------------------------------------------------
(* The serving loop.                                                         *)

\* callContext refuses a call whose parameters, tool name or arguments are invalid, and
\* the gateway one whose target is unknown or the gateway itself.
InvalidParams(l) == l.kind = "call" /\ ~l.valid

\* What handleContext answers without a tool call; "" when callContext goes on.
Immediate(l) ==
    CASE l.kind = "malformed" -> "PARSE_ERROR"
      [] l.kind = "invalid" -> "INVALID_REQUEST"
      [] l.kind = "plain" -> "RESULT"
      [] l.kind = "unknown" -> "METHOD_NOT_FOUND"
      [] InvalidParams(l) -> "INVALID_PARAMS"
      [] OTHER -> ""

AfterLine_SkipsMalformed(l) ==
    IF l.kind \in {"notification", "malformed"} THEN "reading"
    ELSE IF Immediate(l) = "" THEN "called" ELSE "replying"

AfterLine(l) ==
    IF l.kind = "notification" THEN "reading"
    ELSE IF Immediate(l) = "" THEN "called" ELSE "replying"

LinesRead == {n \in Serves \X (1..MaxLines) : n[2] <= Len(lines[n[1]])}

\* One line of input; cancellation does not end the loop.
ReadLine(s, l) ==
    /\ pc[s] = "reading" /\ Cardinality(LinesRead) < MaxLines
    /\ lines' = [lines EXCEPT ![s] = Append(@, l)]
    /\ Goto(s, AfterLine(l))
    /\ answer' = [answer EXCEPT ![s] = Immediate(l)]
    /\ UNCHANGED <<serveVars, cancelled, requestSequence, request, result, replies, diskVars,
                   executed, stop>>

\* The input ends or cannot be scanned.
EndInput(s) ==
    /\ pc[s] = "reading" /\ Goto(s, "leaving")
    /\ UNCHANGED <<serveVars, cancelled, requestSequence, lines, workVars, replies, diskVars,
                   executed, stop>>

\* Encode writes the reply; when it fails the call returns.
WriteReply(s, w, written) ==
    /\ requestSequence' = requestSequence + (IF w THEN 1 ELSE 0)
    /\ Goto(s, IF written THEN "reading" ELSE "leaving")
    /\ replies' = IF written
                  THEN [replies EXCEPT ![s] = Append(@,
                         [of |-> Len(lines[s]), answer |-> answer[s], request |-> request[s],
                          wrapper |-> IF w THEN requestSequence + 1 ELSE 0])]
                  ELSE replies
    /\ request' = [request EXCEPT ![s] = 0]
    /\ result' = [result EXCEPT ![s] = ""] /\ answer' = [answer EXCEPT ![s] = ""]
    /\ UNCHANGED <<serveVars, cancelled, lines, diskVars, executed, stop>>

SendReply(s, written) == pc[s] = "replying" /\ WriteReply(s, FALSE, written)

\* callGatewayContext: a delegated envelope is wrapped in one with a number of its own.
SendWrapped(s, written) == pc[s] = "wrapping" /\ WriteReply(s, TRUE, written)

------------------------------------------------------------------------------
(* callContext.                                                              *)

\* Where an envelope goes: the gateway wraps it.
Delivered(s) == IF Current(s).gateway THEN "wrapping" ELSE "replying"

\* bindEnvelope refuses an envelope that does not satisfy its schema, which only what
\* the executor put into it can bring about; an RPC error is passed on unwrapped.
Bind(s, o, code) ==
    IF o = "unsound" /\ code \in {"COMPLETE", "PARTIAL", "PUBLISHED"}
    THEN answer' = [answer EXCEPT ![s] = "INTERNAL"] /\ Goto(s, "replying")
    ELSE answer' = [answer EXCEPT ![s] = code] /\ Goto(s, Delivered(s))

\* The refusals before execution, in the order of the code.
Refusal(l) ==
    CASE ~l.tool.enabled -> "TOOL_NOT_IMPLEMENTED"
      [] l.compact /\ l.selector = None -> "OUTPUT_REQUIRES_SELECTOR"
      [] l.selector # None /\ ~PublicationRoot -> "OUTPUT_SELECTOR_UNSAFE"
      [] ~l.tool.executor -> "OUTPUT_VALIDATION_FAILED"
      [] OTHER -> ""

\* The call gets its number and is refused or handed to the executor.
Accept(s) ==
    /\ pc[s] = "called"
    /\ requestSequence' = requestSequence + 1
    /\ request' = [request EXCEPT ![s] = requestSequence + 1]
    /\ IF Refusal(Current(s)) = ""
       THEN Goto(s, "executing") /\ executed' = executed \cup {requestSequence + 1}
            /\ UNCHANGED answer
       ELSE Bind(s, "", Refusal(Current(s))) /\ UNCHANGED executed
    /\ UNCHANGED <<serveVars, cancelled, lines, result, replies, diskVars, stop>>

\* Every failure of an executor is a domain error of the tool's family.
FailureAnswer == "DOMAIN_ERROR"

\* Families that answer with a value check it against the schema of their result.
ValueAnswer(o) == IF o = "foreign" THEN "DOMAIN_ERROR" ELSE "COMPLETE"

\* An artifact is checked, classified and returned inline up to a limit.
ArtifactAnswer(o) ==
    CASE o = "foreign" -> "OUTPUT_VALIDATION_FAILED"
      [] o = "large" -> "OUTPUT_REQUIRES_SELECTOR"
      [] o = "partial" -> "PARTIAL"
      [] OTHER -> "COMPLETE"

\* What the executor's result becomes when nothing is published.
Inline(l, o) ==
    IF o = "failed" THEN FailureAnswer
    ELSE IF l.tool.delivers = "value" THEN ValueAnswer(o) ELSE ArtifactAnswer(o)

\* A permitted artifact of a call with a selector goes to the publication root.
Publishes(l, o) == l.selector # None /\ l.tool.delivers = "artifact" /\ o \notin {"failed", "foreign"}

\* The grouped slice publishes its graph by itself before it goes on to the presentation:
\* until it has, it can only fail.
MayReturn(s, o) ==
    \/ pc[s] = "executing" /\ (Current(s).tool.delivers = "grouped" => o = "failed")
    \/ pc[s] = "grouping"

\* The executor returns; it may finish whether or not its context was cancelled.
Execute(s, o) ==
    /\ MayReturn(s, o)
    /\ result' = [result EXCEPT ![s] = o]
    /\ IF Publishes(Current(s), o)
       THEN Goto(s, "publishing") /\ UNCHANGED answer
       ELSE Bind(s, o, Inline(Current(s), o))
    /\ UNCHANGED <<serveVars, cancelled, requestSequence, lines, request, replies, diskVars,
                   executed, stop>>

Vacant_Assumed(x) == TRUE

Vacant(x) == outputs[x] = 0

\* The executor of the grouped slice links its graph under the caller's selector; what
\* it does next, the reread included, may still fail.
PublishGraph(s) ==
    /\ pc[s] = "executing" /\ Current(s).tool.delivers = "grouped"
    /\ Current(s).selector # None /\ Vacant(Current(s).selector)
    /\ outputs' = [outputs EXCEPT ![Current(s).selector] = request[s]]
    /\ Goto(s, "grouping")
    /\ UNCHANGED <<serveVars, cancelled, requestSequence, lines, workVars, replies, generations,
                   executed, stop>>

\* Publisher.Publish links the artifact under its selector unless something is there.
Install(s) ==
    /\ pc[s] = "publishing" /\ Vacant(Current(s).selector)
    /\ outputs' = [outputs EXCEPT ![Current(s).selector] = request[s]]
    /\ \/ /\ Current(s).tool.verified /\ Goto(s, "verifying") /\ UNCHANGED answer
       \/ /\ ~Current(s).tool.verified /\ Bind(s, result[s], "PUBLISHED")
       \/ Bind(s, result[s], "RENAMED_ERROR")                \* reread fails after the link
    /\ UNCHANGED <<serveVars, cancelled, requestSequence, lines, request, result, replies,
                   generations, executed, stop>>

\* It fails before the link: an unsafe selector, an occupied one, an I/O error.
InstallFails(s, code) ==
    /\ pc[s] = "publishing"
    /\ code \in {"OUTPUT_SELECTOR_UNSAFE", "PUBLICATION_ERROR"}
    /\ Bind(s, result[s], code)
    /\ UNCHANGED <<serveVars, cancelled, requestSequence, lines, request, result, replies,
                   diskVars, executed, stop>>

\* PublishVerifiedGeneration, after the artifact is already under its selector.  Each of
\* its own calls of Publish may find its target unsafe, the artifact's and the receipt's
\* too; any step may fail, the last sync when the generation is already there.
InstallGeneration(s, code, there) ==
    /\ pc[s] = "verifying"
    /\ code \in {"PUBLISHED", "PUBLICATION_ERROR", "OUTPUT_SELECTOR_UNSAFE"}
    /\ code = "PUBLISHED" => there
    /\ code = "OUTPUT_SELECTOR_UNSAFE" => ~there
    /\ Bind(s, result[s], code)
    /\ generations' = IF there THEN generations \cup {request[s]} ELSE generations
    /\ UNCHANGED <<serveVars, cancelled, requestSequence, lines, request, result, replies,
                   outputs, executed, stop>>

------------------------------------------------------------------------------
\* The steps a call takes by itself once it has a line; a cancelled executor returns.
Work(s) ==
    \/ Accept(s) \/ Install(s) \/ Leave(s) \/ Clear(s)
    \/ \E code \in {"OUTPUT_SELECTOR_UNSAFE", "PUBLICATION_ERROR"} : InstallFails(s, code)
    \/ \E code \in Code, there \in BOOLEAN : InstallGeneration(s, code, there)
    \/ \E ok \in BOOLEAN : SendReply(s, ok) \/ SendWrapped(s, ok)
    \/ s \in cancelled /\ \E o \in Outcomes : Execute(s, o)

Stopping(k) == ReadCancel(k) \/ RunCancel(k)

Returned == /\ \A s \in Serves : pc[s] = "returned"
            /\ \A k \in Stoppers : stop[k] = "done"
            /\ UNCHANGED vars

Next ==
    \/ \E s \in Serves :
          \/ Register(s) \/ EndInput(s) \/ Work(s) \/ PublishGraph(s)
          \/ \E l \in Lines : ReadLine(s, l)
          \/ \E o \in Outcomes : Execute(s, o)
    \/ \E k \in Stoppers : CallShutdown(k) \/ Stopping(k)
    \/ Returned

Spec == Init /\ [][Next]_vars

\* The goroutines are scheduled, publication and writing end, and an executor whose
\* context is cancelled returns; one whose context is not may run for ever, and no
\* client has to write a line.
FairSpec == /\ Spec
            /\ \A s \in Serves : WF_vars(Work(s))
            /\ \A k \in Stoppers : WF_vars(Stopping(k))

------------------------------------------------------------------------------
(* Properties.                                                               *)

\* Shutdown, or the next ServeContext, reaches every call that is being served: a call
\* that has registered and not returned is the registered one or has its context
\* cancelled already, whatever the order in which overlapping calls come and go; and
\* what is registered is a call that is still there.
NewestReachable ==
    /\ \A s \in Serves : Active(s) => s \in cancelled \/ serveCancel = s
    /\ serveCancel # None => Active(serveCancel)

\* The lines of an input that are to be answered, those that were, and the request
\* numbers of a reply: that of its call and that of the gateway's own envelope.
Due(s) == {n \in 1..Len(lines[s]) : lines[s][n].kind # "notification"}
Answered(s) == {replies[s][i].of : i \in 1..Len(replies[s])}
Numbers(r) == {r.request, r.wrapper} \ {0}

\* Every line but a notification is answered once, in order and before the next line is
\* read, malformed ones included; and the request numbers that replies carry, those of
\* the gateway's own envelopes too, are distinct over all the overlapping calls.
RepliesMatch ==
    /\ \A s \in Serves :
         /\ \A i, j \in 1..Len(replies[s]) : i < j => replies[s][i].of < replies[s][j].of
         /\ Answered(s) \subseteq Due(s)
         /\ Due(s) \ Answered(s) \subseteq (IF pc[s] = "reading" THEN {} ELSE {Len(lines[s])})
    /\ \A s, t \in Serves : \A i \in 1..Len(replies[s]), j \in 1..Len(replies[t]) :
         Numbers(replies[s][i]) \cap Numbers(replies[t][j]) # {} => s = t /\ i = j
    /\ \A s \in Serves : \A i \in 1..Len(replies[s]) :
         lines[s][replies[s][i].of].gateway /\ replies[s][i].request # 0
              => \/ replies[s][i].answer = "INTERNAL"
                 \/ replies[s][i].wrapper > replies[s][i].request

\* The bytes of request n are under the selector of its line l.
Committed(l, n) == l.selector # None /\ n # 0 /\ outputs[l.selector] = n

\* The answers that may follow the link of an artifact: a receipt, an error of the reread
\* or of the envelope, and, where a verified generation is due, its own errors.
AfterLink(l) ==
    {"PUBLISHED", "RENAMED_ERROR", "INTERNAL"} \cup
    (IF l.tool.verified THEN {"PUBLICATION_ERROR", "OUTPUT_SELECTOR_UNSAFE"} ELSE {})

\* What answer a to request n of line l says of the artifact is so.
Tells(l, n, a) ==
    /\ a = "PUBLISHED" => Committed(l, n) /\ (l.tool.verified => n \in generations)
    /\ l.tool.delivers = "grouped" /\ a \in {"COMPLETE", "PARTIAL"} => Committed(l, n)
    /\ Committed(l, n) => n \in executed /\ PublicationRoot
    /\ Committed(l, n) =>
         \/ l.tool.delivers = "grouped" /\ a # "PUBLISHED"
         \/ l.tool.delivers = "artifact" /\ a \in AfterLink(l)

\* A reply tells what became of the artifact.  A publication receipt means that the bytes
\* of that very request are under its selector, and its verified generation installed
\* where one is due; an inline result of the grouped slice means that its graph is under
\* the caller's selector; and an artifact under its selector is not answered as an inline
\* result, as too large or as a failed execution, but with a receipt, an error of the
\* publication or an internal error of the envelope.  A verified generation whose own
\* target is unsafe is answered OUTPUT_SELECTOR_UNSAFE with the artifact in place, and a
\* grouped slice may fail in any way after its graph is published.
RepliesTellPublication ==
    \A s \in Serves : \A i \in 1..Len(replies[s]) :
        Tells(lines[s][replies[s][i].of], replies[s][i].request, replies[s][i].answer)

\* Not so: that a refusal for the sake of the selector or of the output leaves no file of
\* its request behind (docs/adr/0003 line 286: OUTPUT_SELECTOR_UNSAFE "with no rename",
\* and an output validation failure "likewise performs no rename").
RefusalsLeaveNothing ==
    \A s \in Serves : \A i \in 1..Len(replies[s]) :
        replies[s][i].answer \in {"OUTPUT_SELECTOR_UNSAFE", "OUTPUT_REQUIRES_SELECTOR",
                                  "OUTPUT_VALIDATION_FAILED"}
            => ~Committed(lines[s][replies[s][i].of], replies[s][i].request)

\* A Shutdown ends every tool call that is being executed when it is called, whichever
\* of the overlapping ServeContext calls runs it, and its serve goes on to its next line
\* or returns.
ShutdownEndsCalls ==
    \A k \in Stoppers, s \in Serves :
        stop[k] = "called" /\ pc[s] \in {"executing", "grouping"}
            ~> pc[s] \in {"reading", "leaving", "left", "returned"}
==============================================================================
