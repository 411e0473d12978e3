----------------------------- MODULE Connection -----------------------------
(***************************************************************************)
(* The connection of a one-shot command to its language server: Conn of    *)
(* internal/jsonrpc/conn.go over the pipes of a server.Process             *)
(* (internal/server/process.go), as cmd/lsp-trace uses them.               *)
(*                                                                         *)
(* Callers share a table of pending requests, one lock for writing and two *)
(* pipes of limited capacity; one goroutine reads, delivers responses and  *)
(* answers the server's own requests under the same lock.  A call watches  *)
(* its context only while it waits for its response, so what ends a call   *)
(* that is stuck in a write is the end of whoever holds the other end of   *)
(* the pipe: the server, or a descendant that inherited it and that nobody *)
(* kills.  The language server, which may stall, answer late, twice or not *)
(* at all, ask, send what cannot be parsed, leave its pipes to a           *)
(* descendant, or die, is external.  The transcript is left out.  The      *)
(* commands make one call at a time; Conn is written for several           *)
(* goroutines and is modelled with several.                                *)
(***************************************************************************)
EXTENDS Naturals, Sequences, FiniteSets

CONSTANTS
    Callers,      \* goroutines that use the connection
    Notifiers,    \* bound: those of them that send notifications
    Reader,       \* the goroutine of readLoop
    None,
    Legacies,     \* the sets of pipes that descendants of the server may hold
    Capacity,     \* frames that a pipe holds
    MaxCalls,     \* bound: calls made
    MaxSends      \* bound: frames the server sends besides first responses

Pipes == {"stdin", "stdout", "stderr"}

ASSUME ConnectionAssumption ==
    /\ Legacies \subseteq SUBSET Pipes /\ Notifiers \subseteq Callers
    /\ Reader \notin Callers /\ None \notin Callers \cup {Reader}
    /\ Capacity \in Nat \ {0} /\ MaxCalls \in Nat /\ MaxSends \in Nat

Ids == 1..MaxCalls
Kind == {"response", "request", "note", "garbage"}
Frame == [kind : Kind, id : Ids \cup {0}]

VARIABLES
    next,       \* c.next
    pending,    \* the keys of c.pending
    channel,    \* the channel of each request: the id of the response in it, 0 if empty
    done,       \* c.done is closed
    writer,     \* who holds c.writeMu
    pc,         \* where each caller is
    id,         \* the request of its call, 0 outside a call and for a notification
    expired,    \* the callers whose context has ended
    reader,     \* where readLoop is
    head,       \* the request whose response it has read, 0 if none
    toServer, toClient,   \* the frames in the two pipes
    owed,       \* requests the server has read and not answered
    sends,      \* frames the server sent of its own accord
    alive,      \* the process runs
    heirs,      \* the pipes that descendants hold, once the process is gone
    timeout,    \* the context of the command has ended
    stdin,      \* our end of the server's standard input is open
    stop        \* where Process.Stop is

tableVars == <<next, pending, channel>>
callerVars == <<pc, id, expired>>
readerVars == <<reader, head, done>>
serverVars == <<owed, sends, alive, heirs>>
processVars == <<timeout, stdin, stop>>
vars == <<tableVars, callerVars, readerVars, writer, toServer, toClient, serverVars, processVars>>

Message(kind, i) == [kind |-> kind, id |-> i]

Init ==
    /\ next = 0 /\ pending = {} /\ channel = [i \in Ids |-> 0] /\ done = FALSE
    /\ writer = None /\ pc = [c \in Callers |-> "idle"] /\ id = [c \in Callers |-> 0]
    /\ expired = {}
    /\ reader = "reading" /\ head = 0
    /\ toServer = << >> /\ toClient = << >> /\ owed = {} /\ sends = 0
    /\ alive = TRUE /\ heirs = {} /\ timeout = FALSE /\ stdin = TRUE /\ stop = "idle"

Return(c) ==
    /\ pc' = [pc EXCEPT ![c] = "idle"] /\ id' = [id EXCEPT ![c] = 0]
    /\ expired' = expired \ {c}

Goto(c, stage) == pc' = [pc EXCEPT ![c] = stage]
InCall(c) == pc[c] # "idle"

------------------------------------------------------------------------------
(* Conn.Call and Conn.Notify.                                               *)

\* Call takes the next id and enters it in the table.
BeginCall(c) ==
    /\ pc[c] = "idle" /\ next < MaxCalls /\ stop = "idle"
    /\ next' = next + 1 /\ pending' = pending \cup {next + 1}
    /\ id' = [id EXCEPT ![c] = next + 1] /\ Goto(c, "locking")
    /\ UNCHANGED <<channel, expired, readerVars, writer, toServer, toClient, serverVars,
                   processVars>>

BeginNotify(c) ==
    /\ c \in Notifiers /\ pc[c] = "idle" /\ stop = "idle"
    /\ Goto(c, "locking")
    /\ UNCHANGED <<tableVars, id, expired, readerVars, writer, toServer, toClient, serverVars,
                   processVars>>

Lock(c) ==
    /\ pc[c] = "locking" /\ writer = None
    /\ writer' = c /\ Goto(c, "writing")
    /\ UNCHANGED <<tableVars, id, expired, readerVars, toServer, toClient,
                   serverVars, processVars>>

\* Somebody else still has this pipe open.
Held(p) == alive \/ p \in heirs
Broken == ~Held("stdin") \/ ~stdin
Room == ~Broken /\ Len(toServer) < Capacity

\* The frame goes into the pipe when there is room; a notification is done.
Write(c) ==
    /\ pc[c] = "writing" /\ Room
    /\ toServer' = Append(toServer, Message(IF id[c] = 0 THEN "note" ELSE "request", id[c]))
    /\ writer' = None
    /\ Goto(c, IF id[c] = 0 THEN "idle" ELSE "waiting")
    /\ UNCHANGED <<tableVars, id, expired, readerVars, toClient, serverVars, processVars>>

AfterWriteError_Locked == writer

\* write releases the lock by defer, on an error too.
AfterWriteError == None

WriteFails(c) ==
    /\ pc[c] = "writing" /\ Broken
    /\ writer' = AfterWriteError
    /\ Goto(c, IF id[c] = 0 THEN "idle" ELSE "removing")
    /\ UNCHANGED <<tableVars, id, expired, readerVars, toServer, toClient, serverVars, processVars>>

\* The three ways out of the select; any that is ready may be taken.
Receive(c) ==
    /\ pc[c] = "waiting" /\ channel[id[c]] # 0
    /\ channel' = [channel EXCEPT ![id[c]] = 0]
    /\ Return(c)
    /\ UNCHANGED <<next, pending, readerVars, writer, toServer, toClient, serverVars,
                   processVars>>

GiveUp(c) ==
    /\ pc[c] = "waiting"
    /\ c \in expired \/ done
    /\ Goto(c, "removing")
    /\ UNCHANGED <<tableVars, id, expired, readerVars, writer, toServer, toClient,
                   serverVars, processVars>>

Removed_Nothing(c) == pending

Removed(c) == pending \ {id[c]}

\* The failing paths remove the entry and return.
Remove(c) ==
    /\ pc[c] = "removing"
    /\ pending' = Removed(c)
    /\ Return(c)
    /\ UNCHANGED <<next, channel, readerVars, writer, toServer, toClient,
                   serverVars, processVars>>

\* The context of the call ends: its own deadline passes or the command's does.  Nobody
\* looks at it before the call waits; a call made with context.Background never expires.
Expire(c) ==
    /\ pc[c] = "waiting" /\ c \notin expired
    /\ expired' = expired \cup {c}
    /\ UNCHANGED <<tableVars, pc, id, readerVars, writer, toServer, toClient,
                   serverVars, processVars>>

------------------------------------------------------------------------------
(* Conn.readLoop.                                                            *)

\* A frame is read; what cannot be parsed ends the loop.
ReadMessage ==
    /\ reader = "reading" /\ toClient # << >>
    /\ toClient' = Tail(toClient)
    /\ head' = IF Head(toClient).kind = "response" THEN Head(toClient).id ELSE 0
    /\ reader' = CASE Head(toClient).kind = "garbage" -> "closing"
                   [] Head(toClient).kind = "request" -> "locking"
                   [] Head(toClient).kind = "response" -> "delivering"
                   [] OTHER -> "reading"
    /\ UNCHANGED <<tableVars, callerVars, done, writer, toServer, serverVars, processVars>>

\* The pipe is at its end, or was closed by Wait.
ReadEnds ==
    /\ reader = "reading"
    /\ \/ ~Held("stdout") /\ toClient = << >>
       \/ stop = "stopped"
    /\ reader' = "closing"
    /\ UNCHANGED <<tableVars, callerVars, head, done, writer, toServer, toClient, serverVars,
                   processVars>>

CloseDone ==
    /\ reader = "closing" /\ reader' = "closed" /\ done' = TRUE
    /\ UNCHANGED <<tableVars, callerVars, head, writer, toServer, toClient, serverVars,
                   processVars>>

Taken_Kept(i) == pending

\* The entry leaves the table before the response enters its channel.
Taken(i) == pending \ {i}

\* A response of nobody, or of a call that has given up, is dropped.
Deliver ==
    /\ reader = "delivering"
    /\ pending' = Taken(head)
    /\ IF head \in pending THEN reader' = "sending" /\ UNCHANGED head
                            ELSE reader' = "reading" /\ head' = 0
    /\ UNCHANGED <<next, channel, callerVars, done, writer, toServer, toClient,
                   serverVars, processVars>>

\* The send, outside the lock, would block on a channel that is full.
Send ==
    /\ reader = "sending" /\ channel[head] = 0
    /\ channel' = [channel EXCEPT ![head] = head] /\ reader' = "reading"
    /\ head' = 0
    /\ UNCHANGED <<next, pending, callerVars, done, writer, toServer, toClient,
                   serverVars, processVars>>

\* A request of the server is refused in writing; an error of that write is ignored.
ReaderLocks ==
    /\ reader = "locking" /\ writer = None
    /\ writer' = Reader /\ reader' = "writing"
    /\ UNCHANGED <<tableVars, callerVars, head, done, toServer, toClient, serverVars,
                   processVars>>

ReaderWrites ==
    /\ reader = "writing" /\ (Room \/ Broken)
    /\ toServer' = IF Room THEN Append(toServer, Message("response", 0)) ELSE toServer
    /\ writer' = None /\ reader' = "reading"
    /\ UNCHANGED <<tableVars, callerVars, head, done, toClient, serverVars, processVars>>

------------------------------------------------------------------------------
(* The language server, or the descendant that has its pipes.                *)

ServerReads ==
    /\ Held("stdin") /\ toServer # << >>
    /\ toServer' = Tail(toServer)
    /\ owed' = owed \cup ({Head(toServer).id} \ {0})
    /\ UNCHANGED <<tableVars, callerVars, readerVars, writer, toClient, sends, alive, heirs,
                   processVars>>

ServerResponds(i) ==
    /\ Held("stdout") /\ i \in owed /\ Len(toClient) < Capacity
    /\ owed' = owed \ {i} /\ toClient' = Append(toClient, Message("response", i))
    /\ UNCHANGED <<tableVars, callerVars, readerVars, writer, toServer, sends, alive, heirs,
                   processVars>>

\* A response nobody waits for any more or nobody asked for, a request, garbage.
ServerSends(f) ==
    /\ Held("stdout") /\ sends < MaxSends /\ Len(toClient) < Capacity
    /\ sends' = sends + 1 /\ toClient' = Append(toClient, f)
    /\ UNCHANGED <<tableVars, callerVars, readerVars, writer, toServer, owed, alive, heirs,
                   processVars>>

\* What is in a pipe that nobody holds is never read, what nobody can write is not owed.
Inherit(rest) ==
    /\ heirs' = rest
    /\ toServer' = IF "stdin" \in rest THEN toServer ELSE << >>
    /\ owed' = IF "stdout" \in rest THEN owed ELSE {}

\* The process ends, not its group: descendants may have inherited any of its pipes.
Death ==
    /\ alive /\ alive' = FALSE
    /\ \E rest \in Legacies : Inherit(rest)
    /\ UNCHANGED <<tableVars, callerVars, readerVars, writer, toClient, sends, processVars>>

HeirsLeave ==
    /\ \E rest \in Legacies : rest # heirs /\ rest \subseteq heirs /\ Inherit(rest)
    /\ UNCHANGED <<tableVars, callerVars, readerVars, writer, toClient, sends, alive, processVars>>

ServerDies == Death

------------------------------------------------------------------------------
(* The process: its context and Stop.                                        *)

\* --timeout passes or a signal comes.
Timeout ==
    /\ ~timeout /\ timeout' = TRUE
    /\ UNCHANGED <<tableVars, callerVars, readerVars, writer, toServer, toClient, serverVars,
                   stdin, stop>>

\* exec.CommandContext kills the process.
ContextEnds == timeout /\ Death

\* Stop is deferred: no call is in progress when it closes the standard input.
StopBegins ==
    /\ stop = "idle" /\ \A c \in Callers : ~InCall(c)
    /\ stop' = "waiting" /\ stdin' = FALSE
    /\ UNCHANGED <<tableVars, callerVars, readerVars, writer, toServer, toClient, serverVars,
                   timeout>>

\* The grace period passes: Kill.
StopKills == stop = "waiting" /\ Death

\* Wait returns once the process has ended and its standard error, which a goroutine
\* copies into a buffer, is at its end; it closes our end of its standard output.
StopReturns ==
    /\ stop = "waiting" /\ ~Held("stderr") /\ stop' = "stopped"
    /\ UNCHANGED <<tableVars, callerVars, readerVars, writer, toServer, toClient, serverVars,
                   timeout, stdin>>

------------------------------------------------------------------------------
CallerStep(c) == Lock(c) \/ Write(c) \/ WriteFails(c) \/ Receive(c) \/ GiveUp(c) \/ Remove(c)
ReaderStep == ReadMessage \/ ReadEnds \/ CloseDone \/ Deliver \/ Send \/ ReaderLocks \/ ReaderWrites
StopStep == StopKills \/ StopReturns

OwnFrames == {Message(k, 0) : k \in {"request", "note", "garbage"}} \cup
             {Message("response", i) : i \in Ids}

Ended == stop = "stopped" /\ reader = "closed" /\ UNCHANGED vars

Next ==
    \/ \E c \in Callers : BeginCall(c) \/ BeginNotify(c) \/ CallerStep(c) \/ Expire(c)
    \/ ReaderStep \/ StopStep
    \/ ServerReads \/ (\E i \in Ids : ServerResponds(i)) \/ (\E f \in OwnFrames : ServerSends(f))
    \/ ServerDies \/ HeirsLeave \/ Timeout \/ ContextEnds \/ StopBegins \/ Ended

Spec == Init /\ [][Next]_vars

\* Our goroutines are scheduled, a sync.Mutex lets no waiter starve, the operating system
\* kills and reaps, the grace period passes.  Nothing is assumed of the server and of its
\* descendants, and no deadline of a call has to pass.
FairSpec == /\ Spec
            /\ \A c \in Callers : WF_vars(CallerStep(c)) /\ SF_vars(Lock(c))
            /\ WF_vars(ReaderStep) /\ SF_vars(ReaderLocks)
            /\ WF_vars(StopStep) /\ WF_vars(ContextEnds)
------------------------------------------------------------------------------
(* Properties.                                                               *)

Inherited(pipes) == heirs \cap pipes # {}

TypeOK ==
    /\ next \in 0..MaxCalls /\ pending \subseteq Ids /\ channel \in [Ids -> 0..MaxCalls]
    /\ done \in BOOLEAN /\ writer \in Callers \cup {Reader, None}
    /\ pc \in [Callers -> {"idle", "locking", "writing", "waiting", "removing"}]
    /\ id \in [Callers -> 0..MaxCalls] /\ expired \subseteq Callers
    /\ reader \in {"reading", "delivering", "sending", "locking", "writing", "closing",
                   "closed"}
    /\ head \in 0..MaxCalls /\ toServer \in Seq(Frame) /\ toClient \in Seq(Frame)
    /\ Len(toServer) <= Capacity /\ Len(toClient) <= Capacity
    /\ owed \subseteq Ids /\ sends \in 0..MaxSends
    /\ alive \in BOOLEAN /\ heirs \subseteq Pipes /\ timeout \in BOOLEAN /\ stdin \in BOOLEAN
    /\ stop \in {"idle", "waiting", "stopped"}

\* The table of pending requests keeps nothing of a call that has returned, whether by its
\* response, a failed write, its deadline or the end of the stream, and no two calls share
\* a request.
TableExact ==
    /\ TypeOK
    /\ \A i \in pending : \E c \in Callers : InCall(c) /\ id[c] = i
    /\ \A c, d \in Callers : InCall(c) /\ InCall(d) /\ id[c] = id[d] /\ id[c] # 0 => c = d

\* No response is lost or misplaced, although deadlines, duplicates and late answers race
\* the delivery: a call that waits is still in the table or its response is on its way to
\* or in its channel, a channel holds only its own response and is empty whenever the
\* table or the reader still promises one, so that the reader never blocks on a caller.
AnswersFit ==
    /\ \A c \in Callers : pc[c] = "waiting" =>
         \/ id[c] \in pending \/ channel[id[c]] = id[c]
         \/ reader = "sending" /\ head = id[c]
    /\ \A i \in Ids : channel[i] \in {0, i}
    /\ \A i \in pending : channel[i] = 0
    /\ reader = "sending" => channel[head] = 0 /\ head \notin pending

\* When the command's context ends or the server dies every call ends, also one that is
\* stuck in a write to a full pipe or behind the lock that the reader holds there, unless
\* a descendant that nobody kills is left with the server's standard input or output; and
\* Stop returns, unless a descendant is left with its standard error.  Once such a
\* descendant is gone, they end.
CommandEnds ==
    /\ \A c \in Callers :
          (timeout \/ ~alive) /\ InCall(c) /\ ~Inherited({"stdin", "stdout"})
              ~> ~InCall(c) \/ Inherited({"stdin", "stdout"})
    /\ stop = "waiting" /\ ~Inherited({"stderr"}) ~> stop = "stopped" \/ Inherited({"stderr"})

\* README.md:412 calls --timeout the "global command deadline"; it does not end a
\* command whose server leaves a descendant with its pipes behind: the descendant is
\* not killed, and keeps the writer, the reader or Wait (process.go:39, 50) waiting.
TimeoutEndsCommand ==
    /\ \A c \in Callers : timeout /\ InCall(c) ~> ~InCall(c)
    /\ stop = "waiting" ~> stop = "stopped"
=============================================================================
