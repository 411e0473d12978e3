------------------------ MODULE OwnedTransportProofs ------------------------
(***************************************************************************)
(* For any number of requests and messages, any capacity of the pipes, any *)
(* descendants and whatever the server does: a lease is given back clean.  *)
(*                                                                         *)
(* What is added to make it inductive: which steps belong to which         *)
(* operation (Admitted), how far the teardown is at each of them and what  *)
(* a reaped child means (Torn), at which steps a Write or a Read can be    *)
(* outstanding (Quiet), and that a reader which has begun a frame left the *)
(* rest of it in the pipe (Counted).                                       *)
(***************************************************************************)
EXTENDS OwnedTransport, TLAPS

Admitted ==
    /\ lease = None => step = "idle"
    /\ step = "idle" => lease = None
    /\ step # "idle" => state = "READY"

Torn ==
    /\ done => leader = "exited" /\ group = {} /\ ~inOpen /\ ~outOpen
    /\ tear = "over" => done
    /\ state # "READY" => tear = "over"
    /\ state = "READY" /\ step \notin {"retire", "teardown"} => tear = "none"

Quiet ==
    /\ step \in {"idle", "run", "read", "acknowledge", "answered", "teardown"} => writing = None
    /\ state = "READY" /\ step \in {"idle", "run", "writing", "shutdown", "exit", "answered"} => reading = None
    /\ state = "POISONED" => reading # Outstanding

Counted ==
    /\ step # "retire" => messages < MaxMessages
    /\ torn => stdout # << >>

Inv == TypeOK /\ Admitted /\ Torn /\ Quiet /\ Counted

USE TransportConstants DEF TransportConstants

\* No operation and no frame is nil.
LEMMA NoneDiffers == None \notin Operations /\ None # Outstanding
<1>1. Outstanding \in Frames BY DEF Outstanding, Frames
<1>. QED BY <1>1, NoneAssumption DEF NoneAssumption

\* Frames are built from a kind and a request's id.
LEMMA FrameTypes ==
    /\ Other \in Frames /\ Bad \in Frames /\ Outstanding \in Frames /\ Failed \in Frames
    /\ \A i \in 0 .. MaxRequests : Request(i) \in Frames /\ Response(i) \in Frames
    /\ \A k \in Unasked : [kind |-> k, id |-> 0] \in Frames
BY DEF Other, Bad, Outstanding, Failed, Request, Response, Frames

LEMMA InitInv == Init => Inv
<1>. SUFFICES ASSUME Init PROVE Inv OBVIOUS
<1>a. /\ inOpen \in BOOLEAN /\ outOpen \in BOOLEAN /\ done \in BOOLEAN /\ torn \in BOOLEAN
      /\ lease = None /\ writing = None /\ reading = None
  BY Zenon DEF Init
<1>b. buf \in Seq(Frames) /\ stdin \in Seq(Frames) /\ stdout \in Seq(Frames) BY DEF Init
<1>c. /\ begun \in 0 .. MaxRequests /\ messages \in 0 .. MaxMessages
      /\ group \subseteq Descendants /\ started \subseteq Descendants /\ seen \subseteq IDs
  BY DEF Init
<1>d. /\ step \in Steps /\ ctx \in {"live", "over"} /\ state \in {"READY", "POISONED", "STOPPED"}
      /\ wrote \in {"nothing", "ok", "error"} /\ leader \in {"running", "exited"}
      /\ tear \in {"none", "check", "signalled", "killed", "over"}
  BY DEF Init, Steps
<1>1. TypeOK BY <1>a, <1>b, <1>c, <1>d, Zenon DEF TypeOK
<1>2. Admitted /\ Torn /\ Counted BY DEF Init, Admitted, Torn, Counted
<1>3. Quiet BY Zenon DEF Init, Quiet
<1>. QED BY <1>1, <1>2, <1>3 DEF Inv

USE DEF opVars, ioVars, pipeVars, processVars

LEMMA BeginStep == ASSUME Inv, Begin PROVE Inv'
<1>1. TypeOK' BY FrameTypes DEF Inv, TypeOK, Operations, Steps, Begin, BeginRoundTrip, BeginDocument, BeginStop, StopRetired
<1>2. Admitted' /\ Counted'
  BY NoneDiffers DEF Inv, TypeOK, Operations, Admitted, Counted, Begin, BeginRoundTrip, BeginDocument, BeginStop, StopRetired
<1>3. Torn' BY DEF Inv, Admitted, Torn, Begin, BeginRoundTrip, BeginDocument, BeginStop, StopRetired
<1>4. Quiet' BY DEF Inv, Admitted, Quiet, Begin, BeginRoundTrip, BeginDocument, BeginStop, StopRetired
<1>. QED BY <1>1, <1>2, <1>3, <1>4 DEF Inv

LEMMA ContextStep == ASSUME Inv, ContextEnds PROVE Inv'
<1>1. TypeOK' BY DEF Inv, TypeOK, ContextEnds
<1>2. Admitted' /\ Counted' /\ Torn' /\ Quiet' BY DEF Inv, Admitted, Counted, Torn, Quiet, ContextEnds
<1>. QED BY <1>1, <1>2 DEF Inv

LEMMA WriteStep == ASSUME Inv, WriteEnds PROVE Inv'
<1>a. stdin' \in Seq(Frames)
  <2>1. CASE writing \in Frames /\ stdin' = Append(stdin, writing) BY <2>1 DEF Inv, TypeOK
  <2>2. CASE stdin' = stdin BY <2>2 DEF Inv, TypeOK
  <2>. QED BY <2>1, <2>2 DEF Inv, TypeOK, WriteEnds
<1>b. wrote' \in {"nothing", "ok", "error"} /\ writing' = None BY DEF WriteEnds
<1>1. TypeOK' BY <1>a, <1>b DEF Inv, TypeOK, WriteEnds
<1>2. Admitted' /\ Counted' /\ Torn' /\ Quiet' BY DEF Inv, Admitted, Counted, Torn, Quiet, WriteEnds
<1>. QED BY <1>1, <1>2 DEF Inv

LEMMA ReadStep == ASSUME Inv, ReadBuffered \/ ReadAhead \/ ReadFails PROVE Inv'
<1>1. CASE ReadBuffered
  <2>1. TypeOK' BY <1>1 DEF Inv, TypeOK, ReadBuffered
  <2>2. Admitted' /\ Counted' /\ Torn' BY <1>1 DEF Inv, Admitted, Counted, Torn, ReadBuffered
  <2>3. Quiet' BY <1>1, NoneDiffers DEF Inv, Quiet, ReadBuffered
  <2>. QED BY <2>1, <2>2, <2>3 DEF Inv
<1>2. CASE ReadAhead
  <2>1. PICK n \in 1 .. Len(stdout) :
          /\ buf' = SubSeq(stdout, 1, n) /\ stdout' = SubSeq(stdout, n + 1, Len(stdout))
          /\ torn' \in {FALSE, n < Len(stdout)}
    BY <1>2 DEF ReadAhead
  <2>2. stdout \in Seq(Frames) BY DEF Inv, TypeOK
  <2>3. buf' \in Seq(Frames) /\ stdout' \in Seq(Frames) BY <2>1, <2>2
  <2>c. (n < Len(stdout)) \in BOOLEAN OBVIOUS
  <2>4. torn' \in BOOLEAN BY <2>1, <2>c, Zenon
  <2>a. torn' => n < Len(stdout) BY <2>1, Zenon
  <2>b. n < Len(stdout) => SubSeq(stdout, n + 1, Len(stdout)) # << >>
    <3>. SUFFICES ASSUME n < Len(stdout) PROVE Len(SubSeq(stdout, n + 1, Len(stdout))) # 0 OBVIOUS
    <3>1. Len(stdout) \in Nat /\ n \in Nat BY <2>2
    <3>2. Len(SubSeq(stdout, n + 1, Len(stdout))) = Len(stdout) - n BY <2>2, <3>1
    <3>. QED BY <3>1, <3>2
  <2>5. torn' => stdout' # << >> BY <2>1, <2>a, <2>b, Zenon
  <2>6. TypeOK' BY <1>2, <2>3, <2>4 DEF Inv, TypeOK, ReadAhead
  <2>7. Counted' BY <1>2, <2>5 DEF Inv, Counted, ReadAhead
  <2>8. Admitted' /\ Torn' /\ Quiet' BY <1>2 DEF Inv, Admitted, Torn, Quiet, ReadAhead
  <2>. QED BY <2>6, <2>7, <2>8 DEF Inv
<1>3. CASE ReadFails
  <2>1. TypeOK' BY <1>3, FrameTypes DEF Inv, TypeOK, ReadFails
  <2>2. Admitted' /\ Counted' /\ Torn' BY <1>3 DEF Inv, Admitted, Counted, Torn, ReadFails
  <2>3. Quiet' BY <1>3, NoneDiffers DEF Inv, Quiet, ReadFails
  <2>. QED BY <2>1, <2>2, <2>3 DEF Inv
<1>. QED BY <1>1, <1>2, <1>3

LEMMA TeardownStep == ASSUME Inv, Teardown PROVE Inv'
<1>a. inOpen' \in BOOLEAN /\ outOpen' \in BOOLEAN /\ done' \in BOOLEAN /\ torn' \in BOOLEAN
  BY Zenon DEF Inv, TypeOK, Teardown, Retire, CloseFirst, TeardownCheck, TeardownKill, TeardownReturns
<1>1. TypeOK' BY <1>a DEF Inv, TypeOK, Teardown, Retire, CloseFirst, TeardownCheck, TeardownKill, Killed, TeardownReturns
<1>2. Admitted' /\ Counted' /\ Quiet'
  BY DEF Inv, Admitted, Counted, Quiet, Teardown, Retire, CloseFirst, TeardownCheck, TeardownKill, TeardownReturns
<1>3. Torn'
  BY DEF Inv, Admitted, Torn, Teardown, Retire, CloseFirst, TeardownCheck, TeardownKill, Killed, TeardownReturns
<1>. QED BY <1>1, <1>2, <1>3 DEF Inv

\* A new reader loses its predecessor's read-ahead and nothing else.
LEMMA ReaderTypes ==
    ASSUME Inv, NewReader
    PROVE  /\ reading' = Outstanding /\ buf' \in Seq(Frames) /\ torn' = FALSE /\ stdout' \in Seq(Frames)
<1>1. stdout \in Seq(Frames) BY DEF Inv, TypeOK
<1>2. CASE torn
  <2>1. stdout # << >> BY <1>2 DEF Inv, Counted
  <2>2. Tail(stdout) \in Seq(Frames) BY <1>1, <2>1
  <2>3. <<Bad>> \in Seq(Frames) BY FrameTypes
  <2>4. <<Bad>> \o Tail(stdout) \in Seq(Frames) BY <2>2, <2>3
  <2>. QED BY <1>2, <2>4 DEF NewReader
<1>3. CASE ~torn BY <1>1, <1>3 DEF NewReader
<1>. QED BY <1>2, <1>3 DEF Inv, TypeOK

LEMMA ExchangeStep ==
    ASSUME Inv, Run \/ Written \/ RunExpires \/ Cancel \/ CancelEnds
    PROVE  Inv'
<1>1. CASE Run
  <2>1. TypeOK' BY <1>1, FrameTypes DEF Inv, TypeOK, Steps, Run
  <2>2. Admitted' /\ Counted' /\ Torn' /\ Quiet' BY <1>1 DEF Inv, Admitted, Counted, Torn, Quiet, Run
  <2>. QED BY <2>1, <2>2 DEF Inv
<1>2. CASE Written
  <2>a. /\ reading' \in Frames \cup {None} /\ buf' \in Seq(Frames) /\ torn' \in BOOLEAN
        /\ stdout' \in Seq(Frames) /\ (torn' => stdout' # << >>)
    <3>1. CASE NewReader BY <3>1, ReaderTypes, FrameTypes
    <3>2. CASE UNCHANGED <<reading, buf, torn, stdout>> BY <3>2 DEF Inv, TypeOK, Counted
    <3>. QED BY <1>2, <3>1, <3>2 DEF Written
  <2>1. TypeOK' BY <1>2, <2>a DEF Inv, TypeOK, Steps, Written
  <2>2. Counted' BY <1>2, <2>a DEF Inv, Counted, Written
  <2>3. Admitted' /\ Torn' BY <1>2 DEF Inv, Admitted, Torn, Written
  <2>4. Quiet' BY <1>2 DEF Inv, Admitted, Quiet, Written
  <2>. QED BY <2>1, <2>2, <2>3, <2>4 DEF Inv
<1>3. CASE RunExpires \/ CancelEnds
  <2>1. TypeOK' BY <1>3 DEF Inv, TypeOK, Steps, RunExpires, CancelEnds
  <2>2. Admitted' /\ Counted' /\ Torn' /\ Quiet'
    BY <1>3 DEF Inv, Admitted, Counted, Torn, Quiet, RunExpires, CancelEnds
  <2>. QED BY <2>1, <2>2 DEF Inv
<1>4. CASE Cancel
  <2>1. TypeOK' BY <1>4, FrameTypes DEF Inv, TypeOK, Steps, Cancel
  <2>2. Admitted' /\ Counted' /\ Torn' /\ Quiet' BY <1>4 DEF Inv, Admitted, Counted, Torn, Quiet, Cancel
  <2>. QED BY <2>1, <2>2 DEF Inv
<1>. QED BY <1>1, <1>2, <1>3, <1>4

LEMMA ReceivedStep == ASSUME Inv, Received PROVE Inv'
<1>1. messages < MaxMessages BY DEF Inv, Counted, Received
<1>2. TypeOK' BY <1>1, FrameTypes DEF Inv, TypeOK, Steps, Received
<1>3. Admitted' /\ Torn' BY DEF Inv, Admitted, Torn, Received
<1>4. Counted' BY DEF Inv, TypeOK, Counted, Received
<1>5. Quiet' BY DEF Inv, Admitted, Quiet, Received
<1>. QED BY <1>2, <1>3, <1>4, <1>5 DEF Inv

LEMMA FinishStep == ASSUME Inv, FinishAnswered \/ FinishRetired PROVE Inv'
<1>a. buf' = << >> /\ messages' = 0 BY Zenon DEF FinishAnswered, FinishRetired, Leaves
<1>1. TypeOK' BY <1>a DEF Inv, TypeOK, Steps, FinishAnswered, FinishRetired, Leaves
<1>2. Admitted' /\ Counted' BY DEF Inv, Admitted, Counted, FinishAnswered, FinishRetired, Leaves
<1>3. Torn' BY DEF Inv, Admitted, Torn, FinishAnswered, FinishRetired, Leaves
<1>4. Quiet' BY DEF Inv, Admitted, Quiet, FinishAnswered, FinishRetired, Leaves, Joined
<1>. QED BY <1>1, <1>2, <1>3, <1>4 DEF Inv

LEMMA StopStep ==
    ASSUME Inv, ShutdownWritten \/ Acknowledged \/ AcknowledgeExpires \/ ExitWritten \/ FinishStop
    PROVE  Inv'
<1>1. CASE ShutdownWritten
  <2>a. /\ reading' \in Frames \cup {None} /\ buf' \in Seq(Frames) /\ torn' \in BOOLEAN
        /\ stdout' \in Seq(Frames) /\ (torn' => stdout' # << >>)
    <3>1. CASE NewReader BY <3>1, ReaderTypes, FrameTypes
    <3>2. CASE UNCHANGED <<reading, buf, torn, stdout>> BY <3>2 DEF Inv, TypeOK, Counted
    <3>. QED BY <1>1, <3>1, <3>2 DEF ShutdownWritten
  <2>1. TypeOK' BY <1>1, <2>a DEF Inv, TypeOK, Steps, ShutdownWritten
  <2>2. Counted' BY <1>1, <2>a DEF Inv, Counted, ShutdownWritten
  <2>3. Admitted' /\ Torn' BY <1>1 DEF Inv, Admitted, Torn, ShutdownWritten
  <2>4. Quiet' BY <1>1 DEF Inv, Admitted, Quiet, ShutdownWritten
  <2>. QED BY <2>1, <2>2, <2>3, <2>4 DEF Inv
<1>2. CASE Acknowledged
  <2>1. TypeOK' BY <1>2, FrameTypes DEF Inv, TypeOK, Steps, Acknowledged
  <2>2. Admitted' /\ Counted' /\ Torn' BY <1>2 DEF Inv, Admitted, Counted, Torn, Acknowledged
  <2>3. Quiet' BY <1>2 DEF Inv, Admitted, Quiet, Acknowledged
  <2>. QED BY <2>1, <2>2, <2>3 DEF Inv
<1>3. CASE AcknowledgeExpires \/ ExitWritten
  <2>1. TypeOK' BY <1>3 DEF Inv, TypeOK, Steps, AcknowledgeExpires, ExitWritten
  <2>2. Admitted' /\ Counted' /\ Torn' BY <1>3 DEF Inv, Admitted, Counted, Torn, AcknowledgeExpires, ExitWritten
  <2>3. Quiet' BY <1>3 DEF Inv, Admitted, Quiet, AcknowledgeExpires, ExitWritten
  <2>. QED BY <2>1, <2>2, <2>3 DEF Inv
<1>4. CASE FinishStop
  <2>a. inOpen' \in BOOLEAN /\ outOpen' \in BOOLEAN BY <1>4, Zenon DEF FinishStop
  <2>b. messages' = 0 BY <1>4 DEF FinishStop, Leaves
  <2>1. TypeOK' BY <1>4, <2>a, <2>b DEF Inv, TypeOK, Steps, FinishStop, Leaves
  <2>2. Admitted' /\ Counted' /\ Torn' BY <1>4 DEF Inv, Admitted, Counted, Torn, FinishStop, Leaves
  <2>3. Quiet' BY <1>4 DEF Inv, Admitted, Quiet, FinishStop, Leaves
  <2>. QED BY <2>1, <2>2, <2>3 DEF Inv
<1>. QED BY <1>1, <1>2, <1>3, <1>4

LEMMA ServerStep == ASSUME Inv, Server PROVE Inv'
<1>1. CASE ServerReads
  <2>1. stdin \in Seq(Frames) /\ stdin # << >> BY <1>1 DEF Inv, TypeOK, ServerReads
  <2>2. Tail(stdin) \in Seq(Frames) /\ Head(stdin) \in Frames BY <2>1
  <2>3. Head(stdin).id \in 0 .. MaxRequests BY <2>2 DEF Frames
  <2>a. {Head(stdin).id} \ {0} \subseteq IDs BY <2>3 DEF IDs
  <2>4. seen' \subseteq IDs BY <1>1, <2>a DEF Inv, TypeOK, ServerReads
  <2>5. TypeOK' BY <1>1, <2>2, <2>4 DEF Inv, TypeOK, ServerReads
  <2>6. Admitted' /\ Counted' /\ Torn' /\ Quiet' BY <1>1 DEF Inv, Admitted, Counted, Torn, Quiet, ServerReads
  <2>. QED BY <2>5, <2>6 DEF Inv
<1>2. CASE ServerSends
  <2>1. PICK f \in {Response(i) : i \in seen} \cup {[kind |-> k, id |-> 0] : k \in Unasked} :
            stdout' = Append(stdout, f)
    BY <1>2 DEF ServerSends
  <2>2. f \in Frames BY <2>1, FrameTypes DEF Inv, TypeOK, IDs
  <2>3. stdout' \in Seq(Frames) /\ stdout' # << >> BY <2>1, <2>2 DEF Inv, TypeOK
  <2>4. TypeOK' BY <1>2, <2>3 DEF Inv, TypeOK, ServerSends
  <2>5. Counted' BY <1>2, <2>3 DEF Inv, Counted, ServerSends
  <2>6. Admitted' /\ Torn' /\ Quiet' BY <1>2 DEF Inv, Admitted, Torn, Quiet, ServerSends
  <2>. QED BY <2>4, <2>5, <2>6 DEF Inv
<1>3. ASSUME NEW d \in Descendants, Forks(d) PROVE Inv'
  <2>1. TypeOK' BY <1>3 DEF Inv, TypeOK, Forks
  <2>2. Admitted' /\ Counted' /\ Torn' /\ Quiet' BY <1>3 DEF Inv, TypeOK, Admitted, Counted, Torn, Quiet, Forks
  <2>. QED BY <2>1, <2>2 DEF Inv
<1>4. CASE Exits
  <2>1. TypeOK' BY <1>4 DEF Inv, TypeOK, Exits
  <2>2. Admitted' /\ Counted' /\ Torn' /\ Quiet' BY <1>4 DEF Inv, Admitted, Counted, Torn, Quiet, Exits
  <2>. QED BY <2>1, <2>2 DEF Inv
<1>. QED BY <1>1, <1>2, <1>3, <1>4 DEF Server

LEMMA ReapStep == ASSUME Inv, Reap PROVE Inv'
<1>1. TypeOK' BY DEF Inv, TypeOK, Reap
<1>2. Admitted' /\ Counted' /\ Torn' /\ Quiet' BY DEF Inv, Admitted, Counted, Torn, Quiet, Reap
<1>. QED BY <1>1, <1>2 DEF Inv

LEMMA StutterStep == ASSUME Inv, UNCHANGED vars PROVE Inv'
<1>1. TypeOK' BY DEF Inv, TypeOK, vars
<1>2. Admitted' /\ Counted' /\ Torn' /\ Quiet' BY DEF Inv, Admitted, Counted, Torn, Quiet, vars
<1>. QED BY <1>1, <1>2 DEF Inv

LEMMA NextInv == Inv /\ [Next]_vars => Inv'
<1>. SUFFICES ASSUME Inv, [Next]_vars PROVE Inv' OBVIOUS
<1>1. CASE Operation
  BY <1>1, ExchangeStep, ReceivedStep, FinishStep, StopStep DEF Operation
<1>2. CASE GoroutineIO BY <1>2, WriteStep, ReadStep DEF GoroutineIO
<1>. QED BY <1>1, <1>2, BeginStep, ContextStep, TeardownStep, ServerStep, ReapStep, StutterStep DEF Next

\* RoundTrip, PrepareDocument and Stop give the protocol lease back clean: the next
\* operation on a READY child shares its streams with no goroutine of an earlier
\* one, and a poisoned or stopped child is reaped with its group and pipes.
THEOREM LeaseIsReturnedClean == Spec => []LeaseReturnedClean
<1>1. Inv => LeaseReturnedClean BY DEF Inv, Admitted, Torn, Quiet, LeaseReturnedClean
<1>. QED BY InitInv, NextInv, <1>1, PTL DEF Spec
=============================================================================
