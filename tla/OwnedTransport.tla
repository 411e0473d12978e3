--------------------------- MODULE OwnedTransport ---------------------------
(***************************************************************************)
(* The streams of one child and who may use them: RoundTrip,               *)
(* PrepareDocument and the teardown of Stop, one at a time under the lease *)
(* (SessionRuntime), each with I/O goroutines of its own, over             *)
(* ownedTransport (sessionruntime/owned_transport.go) and the managed      *)
(* process with its reap goroutine (internal/managedprocess/process.go).   *)
(* A frame is what one Write sends; the two pipes hold a number of them.   *)
(* The server reads, answers, floods, stalls and dies as it likes, and its *)
(* descendants share its process group and its stderr.                     *)
(***************************************************************************)
EXTENDS Integers, Sequences

CONSTANTS
    MaxRequests,   \* bound: requests begun on this child
    MaxMessages,   \* RoundTripRequest.MaxMessages
    Room,          \* frames a pipe holds
    Unasked,       \* what the server sends unasked: "other", "bad"
    Descendants,   \* processes the server may start
    None           \* no value (nil)

ASSUME TransportConstants ==
    /\ MaxRequests \in Nat /\ MaxMessages \in Nat \ {0} /\ Room \in Nat \ {0}
    /\ Unasked \subseteq {"other", "bad"}

VARIABLES
    lease,      \* the operation that owns the protocol, or None
    step,       \* where that operation is
    ctx,        \* whether the operation's context has ended
    state,      \* the record's state: READY, POISONED (and retired) or STOPPED
    begun,      \* requests begun; the newest one's id
    messages,   \* result.Messages
    writing,    \* the frame a Write has not finished sending, or None
    wrote,      \* what the last Write returned
    reading,    \* None, Outstanding, or what the Read returned
    buf, torn,  \* the reader's read-ahead: whole frames, and part of the next
    stdin, stdout,     \* frames in the pipes
    inOpen, outOpen,   \* the host's ends
    leader, group,     \* the child, and its living descendants
    started,    \* descendants ever started
    seen,       \* requests the server has read
    done,       \* the reap goroutine has closed p.done
    tear        \* the phase of Teardown

opVars == <<lease, step, ctx, state, begun, messages>>
ioVars == <<writing, wrote, reading, buf, torn>>
pipeVars == <<stdin, stdout, inOpen, outOpen>>
processVars == <<leader, group, started, seen, done>>
vars == <<opVars, ioVars, pipeVars, processVars, tear>>

IDs == 1 .. MaxRequests
Other == [kind |-> "other", id |-> 0]
Bad == [kind |-> "bad", id |-> 0]
Request(i) == [kind |-> "request", id |-> i]
Response(i) == [kind |-> "response", id |-> i]
Outstanding == [kind |-> "outstanding", id |-> 0]
Failed == [kind |-> "failed", id |-> 0]
Frames == [kind : {"request", "response", "other", "bad", "outstanding", "failed"}, id : 0 .. MaxRequests]

Operations == {"roundtrip", "document", "stop"}
Steps == {"idle", "run", "writing", "read", "cancel", "shutdown", "acknowledge", "exit",
          "retire", "answered", "teardown"}

ASSUME NoneAssumption == None \notin Operations \cup Frames

TypeOK ==
    /\ lease \in Operations \cup {None} /\ step \in Steps
    /\ ctx \in {"live", "over"} /\ state \in {"READY", "POISONED", "STOPPED"}
    /\ begun \in 0 .. MaxRequests /\ messages \in 0 .. MaxMessages
    /\ writing \in Frames \cup {None} /\ wrote \in {"nothing", "ok", "error"}
    /\ reading \in Frames \cup {None}
    /\ buf \in Seq(Frames) /\ torn \in BOOLEAN
    /\ stdin \in Seq(Frames) /\ stdout \in Seq(Frames)
    /\ inOpen \in BOOLEAN /\ outOpen \in BOOLEAN
    /\ leader \in {"running", "exited"} /\ group \subseteq Descendants
    /\ started \subseteq Descendants /\ seen \subseteq IDs
    /\ done \in BOOLEAN /\ tear \in {"none", "check", "signalled", "killed", "over"}

\* A child whose handshake is done; its reap goroutine runs (Manager.Start).
Init ==
    /\ lease = None /\ step = "idle" /\ ctx = "live" /\ state = "READY"
    /\ begun = 0 /\ messages = 0
    /\ writing = None /\ wrote = "nothing" /\ reading = None /\ buf = <<>> /\ torn = FALSE
    /\ stdin = <<>> /\ stdout = <<>> /\ inOpen = TRUE /\ outOpen = TRUE
    /\ leader = "running" /\ group = {} /\ started = {} /\ seen = {} /\ done = FALSE
    /\ tear = "none"

-----------------------------------------------------------------------------
\* Admission under the lease.

\* roundTrip begins a request; its owner has not written yet.
BeginRoundTrip ==
    /\ lease = None /\ state = "READY" /\ begun < MaxRequests
    /\ lease' = "roundtrip" /\ step' = "run" /\ ctx' \in {"live", "over"}
    /\ begun' = begun + 1
    /\ UNCHANGED <<state, messages, ioVars, pipeVars, processVars, tear>>

\* prepareDocument writes one notification.
BeginDocument ==
    /\ lease = None /\ state = "READY"
    /\ lease' = "document" /\ step' = "run" /\ ctx' \in {"live", "over"}
    /\ UNCHANGED <<state, begun, messages, ioVars, pipeVars, processVars, tear>>

\* runLifecycle of a session that was not retired: gracefulShutdown writes its
\* request itself, with no context and no goroutine.
BeginStop ==
    /\ lease = None /\ state = "READY" /\ begun < MaxRequests
    /\ lease' = "stop" /\ step' = "shutdown" /\ begun' = begun + 1
    /\ writing' = Request(begun + 1)
    /\ UNCHANGED <<ctx, state, messages, wrote, reading, buf, torn, pipeVars, processVars, tear>>

\* runLifecycle of a retired session reuses the retirement's observations.
StopRetired ==
    /\ lease = None /\ state = "POISONED"
    /\ state' = "STOPPED"
    /\ UNCHANGED <<lease, step, ctx, begun, messages, ioVars, pipeVars, processVars, tear>>

\* The deadline of the operation passes or its caller cancels it.
ContextEnds ==
    /\ lease \in {"roundtrip", "document"} /\ ctx = "live"
    /\ ctx' = "over"
    /\ UNCHANGED <<lease, step, state, begun, messages, ioVars, pipeVars, processVars, tear>>

-----------------------------------------------------------------------------
\* The I/O goroutines.

\* A Write sends its frame when the pipe has room, and fails when the host's end
\* was closed or nobody is left to read.
WriteEnds ==
    /\ writing # None
    /\ \/ /\ inOpen /\ leader = "running" /\ Len(stdin) < Room
          /\ stdin' = Append(stdin, writing) /\ wrote' = "ok"
       \/ /\ ~inOpen \/ leader = "exited"
          /\ wrote' = "error" /\ UNCHANGED stdin
    /\ writing' = None
    /\ UNCHANGED <<opVars, reading, buf, torn, stdout, inOpen, outOpen, processVars, tear>>

\* Reader.Read takes a frame it read ahead, or asks the pipe, which may hand over
\* several frames and a part of one more.
ReadBuffered ==
    /\ reading = Outstanding /\ buf # <<>>
    /\ reading' = Head(buf) /\ buf' = Tail(buf)
    /\ UNCHANGED <<opVars, writing, wrote, torn, pipeVars, processVars, tear>>

ReadAhead ==
    /\ reading = Outstanding /\ buf = <<>> /\ outOpen /\ stdout # <<>>
    /\ \E n \in 1 .. Len(stdout) :
          /\ buf' = SubSeq(stdout, 1, n) /\ stdout' = SubSeq(stdout, n + 1, Len(stdout))
          /\ torn' \in {FALSE, n < Len(stdout)}
    /\ UNCHANGED <<opVars, writing, wrote, reading, stdin, inOpen, outOpen, processVars, tear>>

ReadFails ==
    /\ reading = Outstanding /\ buf = <<>>
    /\ ~outOpen \/ (stdout = <<>> /\ leader = "exited" /\ group = {})
    /\ reading' = Failed
    /\ UNCHANGED <<opVars, writing, wrote, buf, torn, pipeVars, processVars, tear>>

\* NewReader: what an earlier reader had read ahead is gone, and the rest of a
\* frame it had begun is no frame.
NewReader ==
    /\ reading' = Outstanding /\ buf' = <<>> /\ torn' = FALSE
    /\ stdout' = IF torn THEN <<Bad>> \o Tail(stdout) ELSE stdout

-----------------------------------------------------------------------------
\* Retirement and teardown.

\* ownedTransport.retire closes the pipes before it tears the child down.
CloseFirst == inOpen' = FALSE /\ outOpen' = FALSE /\ tear' = "check"
Retire ==
    /\ step = "retire" /\ tear = "none"
    /\ CloseFirst
    /\ UNCHANGED <<opVars, ioVars, stdin, stdout, processVars>>

\* Teardown: a child that was reaped is left alone, another one is interrupted
\* (which it may ignore).
TeardownCheck ==
    /\ tear = "check"
    /\ tear' = IF done THEN "over" ELSE "signalled"
    /\ UNCHANGED <<opVars, ioVars, pipeVars, processVars>>

\* SIGKILL to the process group.
Killed_LeaderOnly == leader' = "exited" /\ UNCHANGED group
Killed == leader' = "exited" /\ group' = {}

\* The grace period passes, or the context is one that was cancelled already.
TeardownKill ==
    /\ tear = "signalled"
    /\ tear' = "killed"
    /\ Killed
    /\ UNCHANGED <<opVars, ioVars, pipeVars, started, seen, done>>

\* The reap goroutine has finished: Teardown returns.
TeardownReturns ==
    /\ tear \in {"signalled", "killed"} /\ done
    /\ tear' = "over"
    /\ UNCHANGED <<opVars, ioVars, pipeVars, processVars>>

-----------------------------------------------------------------------------
\* The operations.

\* ownedTransport.run refuses an ended context, or starts the Write.
Run ==
    /\ step = "run"
    /\ \/ ctx = "over" /\ step' = "retire" /\ UNCHANGED <<writing, wrote>>
       \/ /\ ctx = "live" /\ step' = "writing"
          /\ writing' = IF lease = "roundtrip" THEN Request(begun) ELSE Other
          /\ wrote' = "nothing"
    /\ UNCHANGED <<lease, ctx, state, begun, messages, reading, buf, torn, pipeVars, processVars, tear>>

\* The Write returned first: roundTrip goes on to read, prepareDocument looks at
\* its context once more.
Written ==
    /\ step = "writing" /\ writing = None
    /\ \/ /\ wrote = "ok" /\ lease = "roundtrip"
          /\ step' = "read" /\ NewReader
       \/ /\ wrote = "ok" /\ lease = "document"
          /\ step' = IF ctx = "live" THEN "answered" ELSE "retire"
          /\ UNCHANGED <<reading, buf, torn, stdout>>
       \/ /\ wrote = "error"
          /\ step' = "retire" /\ UNCHANGED <<reading, buf, torn, stdout>>
    /\ UNCHANGED <<lease, ctx, state, begun, messages, writing, wrote, stdin, inOpen, outOpen,
                   processVars, tear>>

\* The context ended first: run retires, and joins the Write afterwards.
RunExpires ==
    /\ step = "writing" /\ ctx = "over"
    /\ step' = "retire"
    /\ UNCHANGED <<lease, ctx, state, begun, messages, ioVars, pipeVars, processVars, tear>>

\* What roundTrip does with a message: its own response ends the loop, others are
\* kept until MaxMessages were read; one that is unreadable, or whose bytes exceed
\* maxBytes whatever it is, ends the stream.
Received ==
    /\ step = "read" /\ reading \notin {None, Outstanding}
    /\ \/ /\ reading = Response(begun)
          /\ step' = "answered" /\ reading' = None /\ UNCHANGED messages
       \/ step' = "retire" /\ reading' = None /\ UNCHANGED messages
       \/ /\ reading \notin {Failed, Bad, Response(begun)}
          /\ messages' = messages + 1
          /\ IF messages' < MaxMessages THEN reading' = Outstanding /\ UNCHANGED step
                                        ELSE reading' = None /\ step' = "retire"
    /\ UNCHANGED <<lease, ctx, state, begun, writing, wrote, buf, torn, pipeVars, processVars, tear>>

\* The context ends while a message is awaited: Pending.Cancel writes a
\* notification for at most five milliseconds; the stream is retired whatever
\* becomes of it.
Cancel ==
    /\ step = "read" /\ ctx = "over"
    /\ step' = "cancel" /\ writing' = Other /\ wrote' = "nothing"
    /\ UNCHANGED <<lease, ctx, state, begun, messages, reading, buf, torn, pipeVars, processVars, tear>>

CancelEnds ==
    /\ step = "cancel"
    /\ step' = "retire"
    /\ UNCHANGED <<lease, ctx, state, begun, messages, ioVars, pipeVars, processVars, tear>>

\* The operation returns and its locals are gone.
Leaves == lease' = None /\ step' = "idle" /\ ctx' = "live" /\ messages' = 0 /\ wrote' = "nothing"

\* finishRoundTrip and the end of prepareDocument: the lease is given back, after
\* a retirement with the outstanding Write and Read joined.
Joined_Write == writing = None
Joined == writing = None /\ reading # Outstanding
FinishAnswered ==
    /\ step = "answered"
    /\ Leaves /\ buf' = <<>>
    /\ UNCHANGED <<state, begun, writing, reading, torn, pipeVars, processVars, tear>>

FinishRetired ==
    /\ step = "retire" /\ tear = "over" /\ Joined
    /\ Leaves /\ state' = "POISONED" /\ buf' = <<>>
    /\ UNCHANGED <<begun, writing, reading, torn, pipeVars, processVars, tear>>

\* gracefulShutdown: the request was written, or not.
ShutdownWritten ==
    /\ step = "shutdown" /\ writing = None
    /\ \/ wrote = "ok" /\ step' = "acknowledge" /\ NewReader /\ UNCHANGED tear
       \/ /\ wrote = "error" /\ step' = "teardown" /\ tear' = "check"
          /\ UNCHANGED <<reading, buf, torn, stdout>>
    /\ UNCHANGED <<lease, ctx, state, begun, messages, writing, wrote, stdin, inOpen, outOpen, processVars>>

\* Its one message is the response, and the exit notification is written; or it
\* is something else.
Acknowledged ==
    /\ step = "acknowledge" /\ reading \notin {None, Outstanding}
    /\ reading' = None
    /\ \/ /\ reading = Response(begun)
          /\ step' = "exit" /\ writing' = Other /\ wrote' = "nothing" /\ UNCHANGED tear
       \/ /\ reading # Response(begun)
          /\ step' = "teardown" /\ tear' = "check" /\ UNCHANGED <<writing, wrote>>
    /\ UNCHANGED <<lease, ctx, state, begun, messages, buf, torn, pipeVars, processVars>>

\* The 250 ms pass first; nobody waits for the Read any more.
AcknowledgeExpires ==
    /\ step = "acknowledge"
    /\ step' = "teardown" /\ tear' = "check"
    /\ UNCHANGED <<lease, ctx, state, begun, messages, ioVars, pipeVars, processVars>>

ExitWritten ==
    /\ step = "exit" /\ writing = None
    /\ step' = "teardown" /\ tear' = "check"
    /\ UNCHANGED <<lease, ctx, state, begun, messages, ioVars, pipeVars, processVars>>

\* Teardown is over: Close, and the session is stopped.
FinishStop ==
    /\ step = "teardown" /\ tear = "over"
    /\ inOpen' = FALSE /\ outOpen' = FALSE
    /\ Leaves /\ state' = "STOPPED"
    /\ UNCHANGED <<begun, writing, reading, buf, torn, stdin, stdout, processVars, tear>>

-----------------------------------------------------------------------------
\* The server and the operating system.

ServerReads ==
    /\ leader = "running" /\ stdin # <<>>
    /\ stdin' = Tail(stdin)
    /\ seen' = seen \cup ({Head(stdin).id} \ {0})
    /\ UNCHANGED <<opVars, ioVars, stdout, inOpen, outOpen, leader, group, started, done, tear>>

\* A response, now or late, once or again; a notification or request of its own;
\* something that is not a frame or exceeds the limits.
ServerSends ==
    /\ leader = "running" /\ Len(stdout) < Room
    /\ \E f \in {Response(i) : i \in seen} \cup {[kind |-> k, id |-> 0] : k \in Unasked} : stdout' = Append(stdout, f)
    /\ UNCHANGED <<opVars, ioVars, stdin, inOpen, outOpen, processVars, tear>>

\* The server or one of its descendants starts another process.
Forks(d) ==
    /\ d \notin started /\ (leader = "running" \/ group # {})
    /\ started' = started \cup {d} /\ group' = group \cup {d}
    /\ UNCHANGED <<opVars, ioVars, pipeVars, leader, seen, done, tear>>

Exits ==
    /\ \/ leader = "running" /\ leader' = "exited" /\ UNCHANGED group
       \/ \E d \in group : group' = group \ {d} /\ UNCHANGED leader
    /\ UNCHANGED <<opVars, ioVars, pipeVars, started, seen, done, tear>>

\* Process.reap: Cmd.Wait returns when the child has exited and nobody holds its
\* stderr any more; it closes the host's ends of the pipes.
Reap ==
    /\ leader = "exited" /\ group = {} /\ ~done
    /\ done' = TRUE /\ inOpen' = FALSE /\ outOpen' = FALSE
    /\ UNCHANGED <<opVars, ioVars, stdin, stdout, leader, group, started, seen, tear>>

-----------------------------------------------------------------------------
Begin == BeginRoundTrip \/ BeginDocument \/ BeginStop \/ StopRetired
GoroutineIO == WriteEnds \/ ReadBuffered \/ ReadAhead \/ ReadFails
Teardown == Retire \/ TeardownCheck \/ TeardownKill \/ TeardownReturns
Operation ==
    \/ Run \/ Written \/ RunExpires \/ Received \/ Cancel \/ CancelEnds
    \/ FinishAnswered \/ FinishRetired
    \/ ShutdownWritten \/ Acknowledged \/ AcknowledgeExpires \/ ExitWritten \/ FinishStop
Server == ServerReads \/ ServerSends \/ (\E d \in Descendants : Forks(d)) \/ Exits

Next == Begin \/ ContextEnds \/ GoroutineIO \/ Teardown \/ Operation \/ Server \/ Reap

Spec == Init /\ [][Next]_vars

\* Goroutines that can go on do, timers fire and a dead child is reaped.  Of
\* callers, the server and its descendants nothing is assumed.
FairSpec ==
    /\ Spec
    /\ WF_vars(Operation) /\ WF_vars(Teardown) /\ WF_vars(Reap)
    /\ WF_vars(WriteEnds) /\ WF_vars(ReadBuffered \/ ReadAhead \/ ReadFails)

-----------------------------------------------------------------------------
\* Properties.

\* A lease is given back clean ("run joins the owned I/O goroutine on every path",
\* owned_transport.go): the next user of a READY child meets no Write and no Read
\* of an earlier one, and a child that was retired or stopped is reaped with its
\* group, its pipes closed, so that runLifecycle may reuse those observations.
LeaseReturnedClean ==
    /\ TypeOK
    /\ lease = None =>
          /\ writing = None
          /\ state = "READY" => reading = None /\ tear = "none"
          /\ state # "READY" => done /\ leader = "exited" /\ group = {} /\ ~inOpen /\ ~outOpen
          /\ state = "POISONED" => reading # Outstanding

\* Every exchange and every document supply ends once its context has, whatever
\* the server does: a full pipe, a silent server, one that floods or ignores the
\* interrupt, descendants that keep its stderr open.
ExchangesEnd == lease \in {"roundtrip", "document"} /\ ctx = "over" ~> lease = None

\* ADR 0003 gives every phase of a teardown a deadline.  The Write of the shutdown
\* request has none: a server that does not read, with a full pipe, holds a Stop
\* for ever.
StopsEnd == lease = "stop" ~> lease = None

\* What a server that sends only whole frames has sent stays whole.  The
\* read-ahead of one exchange's reader may take the head of a frame with it; the
\* next exchange's reader meets the rest, and the session is poisoned.
WholeFramesStayWhole == "bad" \notin Unasked => \A i \in DOMAIN stdout : stdout[i] # Bad
=============================================================================
