-------------------------- MODULE ConnectionProofs --------------------------
(***************************************************************************)
(* For any number of goroutines, calls, frames and any capacity of the     *)
(* pipes: the table of pending requests is exact and no response is lost,  *)
(* misplaced or able to block the reader.                                  *)
(*                                                                         *)
(* Neither statement is inductive.  What is added: identifiers are handed  *)
(* out once, so that a new call finds an empty channel (Handed); a caller  *)
(* that owns a request has its response in exactly one of three places,    *)
(* from the moment it enters the table and not only while it waits, since  *)
(* a server may answer a request that was not sent yet (Promised).         *)
(***************************************************************************)
EXTENDS Connection, TLAPS

Owned ==
    /\ \A c \in Callers : pc[c] = "idle" => id[c] = 0
    /\ \A c \in Callers : pc[c] \in {"waiting", "removing"} => id[c] # 0
    /\ \A c, d \in Callers : id[c] = id[d] /\ id[c] # 0 => c = d
    /\ \A i \in pending : \E c \in Callers : id[c] = i

Handed ==
    /\ \A c \in Callers : id[c] <= next
    /\ \A i \in Ids : i > next => channel[i] = 0

Promised ==
    /\ \A c \in Callers : id[c] # 0 /\ pc[c] # "removing" =>
         \/ id[c] \in pending \/ channel[id[c]] = id[c]
         \/ reader = "sending" /\ head = id[c]
    /\ \A i \in Ids : channel[i] \in {0, i}
    /\ \A i \in pending : channel[i] = 0
    /\ reader = "sending" => /\ head \in Ids /\ head <= next
                             /\ channel[head] = 0 /\ head \notin pending

Inv == TypeOK /\ Owned /\ Handed /\ Promised

USE ConnectionAssumption DEF ConnectionAssumption, Ids

LEMMA InitInv == Init => Inv
<1>. SUFFICES ASSUME Init PROVE Inv OBVIOUS
<1>1. /\ next = 0 /\ pending = {} /\ channel = [i \in Ids |-> 0] /\ done = FALSE
      /\ writer = None /\ pc = [c \in Callers |-> "idle"] /\ id = [c \in Callers |-> 0]
      /\ expired = {} /\ reader = "reading" /\ head = 0
  BY Zenon DEF Init
<1>2. /\ toServer = << >> /\ toClient = << >> /\ owed = {} /\ sends = 0
      /\ alive = TRUE /\ heirs = {} /\ timeout = FALSE /\ stdin = TRUE /\ stop = "idle"
  BY Zenon DEF Init
<1>3. toServer \in Seq(Frame) /\ toClient \in Seq(Frame) /\ Len(toServer) = 0 /\ Len(toClient) = 0
  BY <1>2
<1>a. /\ next \in 0..MaxCalls /\ pending \subseteq Ids /\ channel \in [Ids -> 0..MaxCalls]
      /\ id \in [Callers -> 0..MaxCalls] /\ head \in 0..MaxCalls /\ sends \in 0..MaxSends
      /\ Len(toServer) <= Capacity /\ Len(toClient) <= Capacity
  BY <1>1, <1>2, <1>3
<1>b. /\ done \in BOOLEAN /\ writer \in Callers \cup {Reader, None}
      /\ pc \in [Callers -> {"idle", "locking", "writing", "waiting", "removing"}]
      /\ expired \subseteq Callers /\ reader = "reading" /\ owed \subseteq Ids
      /\ alive \in BOOLEAN /\ heirs \subseteq Pipes /\ timeout \in BOOLEAN /\ stdin \in BOOLEAN /\ stop = "idle"
  BY <1>1, <1>2
<1>4. TypeOK BY <1>a, <1>b, <1>3, Zenon DEF TypeOK
<1>5. Owned BY <1>1 DEF Owned
<1>6. Handed BY <1>1 DEF Handed
<1>7. Promised BY <1>1 DEF Promised
<1>. QED BY <1>4, <1>5, <1>6, <1>7 DEF Inv

\* Steps that leave the table, the callers' places and the reader alone.
LEMMA QuietStep ==
    ASSUME Owned, Handed, Promised, UNCHANGED <<next, pending, channel, pc, id, reader, head>>
    PROVE  Owned' /\ Handed' /\ Promised'
BY DEF Owned, Handed, Promised

USE DEF tableVars, callerVars, readerVars, serverVars, processVars

LEMMA BeginCallStep == ASSUME Inv, NEW c \in Callers, BeginCall(c) PROVE Inv'
<1>1. TypeOK' BY DEF Inv, TypeOK, BeginCall, Goto
<1>2. Owned' BY DEF Inv, TypeOK, Owned, Handed, BeginCall, Goto
<1>3. Handed' BY DEF Inv, TypeOK, Owned, Handed, BeginCall, Goto
<1>4. Promised' BY DEF Inv, TypeOK, Owned, Handed, Promised, BeginCall, Goto
<1>. QED BY <1>1, <1>2, <1>3, <1>4 DEF Inv

LEMMA BeginNotifyStep == ASSUME Inv, NEW c \in Callers, BeginNotify(c) PROVE Inv'
<1>1. TypeOK' BY DEF Inv, TypeOK, BeginNotify, Goto
<1>2. Owned' BY DEF Inv, TypeOK, Owned, Handed, BeginNotify, Goto
<1>3. Handed' BY DEF Inv, TypeOK, Owned, Handed, BeginNotify, Goto
<1>4. Promised' BY DEF Inv, TypeOK, Owned, Handed, Promised, BeginNotify, Goto
<1>. QED BY <1>1, <1>2, <1>3, <1>4 DEF Inv

LEMMA LockStep == ASSUME Inv, NEW c \in Callers, Lock(c) PROVE Inv'
<1>1. TypeOK' BY DEF Inv, TypeOK, Lock, Goto
<1>2. Owned' BY DEF Inv, TypeOK, Owned, Handed, Lock, Goto
<1>3. Handed' BY DEF Inv, TypeOK, Owned, Handed, Lock, Goto
<1>4. Promised' BY DEF Inv, TypeOK, Owned, Handed, Promised, Lock, Goto
<1>. QED BY <1>1, <1>2, <1>3, <1>4 DEF Inv

LEMMA WriteStep == ASSUME Inv, NEW c \in Callers, Write(c) PROVE Inv'
<1>0. Message(IF id[c] = 0 THEN "note" ELSE "request", id[c]) \in Frame
  BY DEF Inv, TypeOK, Message, Frame, Kind, Ids
<1>a. toServer' \in Seq(Frame) /\ Len(toServer') <= Capacity
  BY <1>0 DEF Inv, TypeOK, Write, Room
<1>b. pc' \in [Callers -> {"idle", "locking", "writing", "waiting", "removing"}]
  BY DEF Inv, TypeOK, Write, Goto
<1>1. TypeOK' BY <1>a, <1>b DEF Inv, TypeOK, Write
<1>2. Owned' BY DEF Inv, TypeOK, Owned, Handed, Write, Goto, Room
<1>3. Handed' BY DEF Inv, TypeOK, Owned, Handed, Write, Goto, Room
<1>4. Promised' BY DEF Inv, TypeOK, Owned, Handed, Promised, Write, Goto, Room
<1>. QED BY <1>1, <1>2, <1>3, <1>4 DEF Inv

LEMMA WriteFailsStep == ASSUME Inv, NEW c \in Callers, WriteFails(c) PROVE Inv'
<1>1. TypeOK' BY DEF Inv, TypeOK, WriteFails, Goto, AfterWriteError
<1>2. Owned' BY DEF Inv, TypeOK, Owned, Handed, WriteFails, Goto, AfterWriteError
<1>3. Handed' BY DEF Inv, TypeOK, Owned, Handed, WriteFails, Goto, AfterWriteError
<1>4. Promised' BY DEF Inv, TypeOK, Owned, Handed, Promised, WriteFails, Goto, AfterWriteError
<1>. QED BY <1>1, <1>2, <1>3, <1>4 DEF Inv

LEMMA ReceiveStep == ASSUME Inv, NEW c \in Callers, Receive(c) PROVE Inv'
<1>0. id[c] \in Ids /\ id[c] \notin pending
  BY DEF Inv, TypeOK, Owned, Promised, Receive
<1>1. TypeOK'
  <2>1. channel' \in [Ids -> 0..MaxCalls] BY <1>0 DEF Inv, TypeOK, Receive
  <2>2. pc' \in [Callers -> {"idle", "locking", "writing", "waiting", "removing"}]
    BY DEF Inv, TypeOK, Receive, Return
  <2>3. id' \in [Callers -> 0..MaxCalls] BY DEF Inv, TypeOK, Receive, Return
  <2>4. expired' \subseteq Callers BY DEF Inv, TypeOK, Receive, Return
  <2>. QED BY <2>1, <2>2, <2>3, <2>4 DEF Inv, TypeOK, Receive
<1>2. Owned' BY <1>0 DEF Inv, TypeOK, Owned, Receive, Return
<1>3. Handed' BY DEF Inv, TypeOK, Owned, Handed, Receive, Return
<1>4. Promised' BY DEF Inv, TypeOK, Owned, Handed, Promised, Receive, Return
<1>. QED BY <1>1, <1>2, <1>3, <1>4 DEF Inv

LEMMA GiveUpStep == ASSUME Inv, NEW c \in Callers, GiveUp(c) PROVE Inv'
<1>1. TypeOK' BY DEF Inv, TypeOK, GiveUp, Goto
<1>2. Owned' BY DEF Inv, TypeOK, Owned, Handed, GiveUp, Goto
<1>3. Handed' BY DEF Inv, TypeOK, Owned, Handed, GiveUp, Goto
<1>4. Promised' BY DEF Inv, TypeOK, Owned, Handed, Promised, GiveUp, Goto
<1>. QED BY <1>1, <1>2, <1>3, <1>4 DEF Inv

LEMMA RemoveStep == ASSUME Inv, NEW c \in Callers, Remove(c) PROVE Inv'
<1>1. TypeOK'
  <2>1. pending' \subseteq Ids BY DEF Inv, TypeOK, Remove, Removed
  <2>2. pc' \in [Callers -> {"idle", "locking", "writing", "waiting", "removing"}]
    BY DEF Inv, TypeOK, Remove, Return
  <2>3. id' \in [Callers -> 0..MaxCalls] BY DEF Inv, TypeOK, Remove, Return
  <2>4. expired' \subseteq Callers BY DEF Inv, TypeOK, Remove, Return
  <2>. QED BY <2>1, <2>2, <2>3, <2>4 DEF Inv, TypeOK, Remove
<1>2. Owned' BY DEF Inv, TypeOK, Owned, Handed, Remove, Removed, Return
<1>3. Handed' BY DEF Inv, TypeOK, Owned, Handed, Remove, Removed, Return
<1>4. Promised' BY DEF Inv, TypeOK, Owned, Handed, Promised, Remove, Removed, Return
<1>. QED BY <1>1, <1>2, <1>3, <1>4 DEF Inv

LEMMA ExpireStep == ASSUME Inv, NEW c \in Callers, Expire(c) PROVE Inv'
<1>1. TypeOK' BY DEF Inv, TypeOK, Expire
<1>. QED BY <1>1, QuietStep DEF Inv, Expire

LEMMA ReadMessageStep == ASSUME Inv, ReadMessage PROVE Inv'
<1>0. Head(toClient) \in Frame /\ Tail(toClient) \in Seq(Frame) /\ Len(Tail(toClient)) <= Capacity
  BY DEF Inv, TypeOK, ReadMessage
<1>a. head' \in 0..MaxCalls BY <1>0 DEF Frame, ReadMessage
<1>b. reader' \in {"reading", "delivering", "locking", "closing"} BY DEF ReadMessage
<1>1. TypeOK' BY <1>0, <1>a, <1>b DEF Inv, TypeOK, ReadMessage
<1>2. Owned' BY DEF Inv, TypeOK, Owned, Handed, ReadMessage
<1>3. Handed' BY DEF Inv, TypeOK, Owned, Handed, ReadMessage
<1>4. Promised' BY DEF Inv, TypeOK, Owned, Handed, Promised, ReadMessage
<1>. QED BY <1>1, <1>2, <1>3, <1>4 DEF Inv

LEMMA ReadEndsStep == ASSUME Inv, ReadEnds PROVE Inv'
<1>1. TypeOK' BY DEF Inv, TypeOK, ReadEnds
<1>2. Owned' BY DEF Inv, TypeOK, Owned, Handed, ReadEnds
<1>3. Handed' BY DEF Inv, TypeOK, Owned, Handed, ReadEnds
<1>4. Promised' BY DEF Inv, TypeOK, Owned, Handed, Promised, ReadEnds
<1>. QED BY <1>1, <1>2, <1>3, <1>4 DEF Inv

LEMMA CloseDoneStep == ASSUME Inv, CloseDone PROVE Inv'
<1>1. TypeOK' BY DEF Inv, TypeOK, CloseDone
<1>2. Owned' BY DEF Inv, TypeOK, Owned, Handed, CloseDone
<1>3. Handed' BY DEF Inv, TypeOK, Owned, Handed, CloseDone
<1>4. Promised' BY DEF Inv, TypeOK, Owned, Handed, Promised, CloseDone
<1>. QED BY <1>1, <1>2, <1>3, <1>4 DEF Inv

LEMMA DeliverStep == ASSUME Inv, Deliver PROVE Inv'
<1>1. TypeOK' BY DEF Inv, TypeOK, Deliver, Taken
<1>2. Owned' BY DEF Inv, TypeOK, Owned, Handed, Deliver, Taken
<1>3. Handed' BY DEF Inv, TypeOK, Owned, Handed, Deliver, Taken
<1>4. Promised' BY DEF Inv, TypeOK, Owned, Handed, Promised, Deliver, Taken
<1>. QED BY <1>1, <1>2, <1>3, <1>4 DEF Inv

LEMMA SendStep == ASSUME Inv, Send PROVE Inv'
<1>0. head \in Ids /\ head <= next BY DEF Inv, Promised, Send
<1>a. channel' \in [Ids -> 0..MaxCalls] BY <1>0 DEF Inv, TypeOK, Send
<1>1. TypeOK' BY <1>a DEF Inv, TypeOK, Send
<1>2. Owned' BY DEF Inv, TypeOK, Owned, Handed, Send
<1>3. Handed' BY <1>0 DEF Inv, TypeOK, Handed, Send
<1>4. Promised' BY DEF Inv, TypeOK, Owned, Handed, Promised, Send
<1>. QED BY <1>1, <1>2, <1>3, <1>4 DEF Inv

LEMMA ReaderLocksStep == ASSUME Inv, ReaderLocks PROVE Inv'
<1>1. TypeOK' BY DEF Inv, TypeOK, ReaderLocks
<1>2. Owned' BY DEF Inv, TypeOK, Owned, Handed, ReaderLocks
<1>3. Handed' BY DEF Inv, TypeOK, Owned, Handed, ReaderLocks
<1>4. Promised' BY DEF Inv, TypeOK, Owned, Handed, Promised, ReaderLocks
<1>. QED BY <1>1, <1>2, <1>3, <1>4 DEF Inv

LEMMA ReaderWritesStep == ASSUME Inv, ReaderWrites PROVE Inv'
<1>0. Message("response", 0) \in Frame BY DEF Message, Frame, Kind
<1>a. toServer' \in Seq(Frame) /\ Len(toServer') <= Capacity
  BY <1>0 DEF Inv, TypeOK, ReaderWrites, Room
<1>1. TypeOK' BY <1>a DEF Inv, TypeOK, ReaderWrites
<1>2. Owned' BY DEF Inv, TypeOK, Owned, Handed, ReaderWrites
<1>3. Handed' BY DEF Inv, TypeOK, Owned, Handed, ReaderWrites
<1>4. Promised' BY DEF Inv, TypeOK, Owned, Handed, Promised, ReaderWrites
<1>. QED BY <1>1, <1>2, <1>3, <1>4 DEF Inv

LEMMA ServerReadsStep == ASSUME Inv, ServerReads PROVE Inv'
<1>0. Head(toServer) \in Frame /\ Tail(toServer) \in Seq(Frame) /\ Len(Tail(toServer)) <= Capacity
  BY DEF Inv, TypeOK, ServerReads
<1>a. owed' \subseteq Ids BY <1>0 DEF Inv, TypeOK, Frame, ServerReads
<1>1. TypeOK' BY <1>0, <1>a DEF Inv, TypeOK, ServerReads
<1>. QED BY <1>1, QuietStep DEF Inv, ServerReads

LEMMA ServerRespondsStep == ASSUME Inv, NEW i \in Ids, ServerResponds(i) PROVE Inv'
<1>0. Message("response", i) \in Frame BY DEF Message, Frame, Kind
<1>a. toClient' \in Seq(Frame) /\ Len(toClient') <= Capacity
  BY <1>0 DEF Inv, TypeOK, ServerResponds
<1>b. owed' \subseteq Ids BY DEF Inv, TypeOK, ServerResponds
<1>1. TypeOK' BY <1>a, <1>b DEF Inv, TypeOK, ServerResponds
<1>. QED BY <1>1, QuietStep DEF Inv, ServerResponds

LEMMA ServerSendsStep == ASSUME Inv, NEW f \in Frame, ServerSends(f) PROVE Inv'
<1>a. toClient' \in Seq(Frame) /\ Len(toClient') <= Capacity
  BY DEF Inv, TypeOK, ServerSends
<1>b. sends' \in 0..MaxSends BY DEF Inv, TypeOK, ServerSends
<1>1. TypeOK' BY <1>a, <1>b DEF Inv, TypeOK, ServerSends
<1>. QED BY <1>1, QuietStep DEF Inv, ServerSends

\* Whatever pipes are left to descendants.
LEMMA InheritStep ==
    ASSUME Inv, NEW rest \in Legacies, Inherit(rest), alive' \in BOOLEAN,
           UNCHANGED <<tableVars, callerVars, readerVars, writer, toClient, sends, processVars>>
    PROVE  Inv'
<1>0. /\ toServer' \in Seq(Frame) /\ Len(toServer') <= Capacity
      /\ owed' \subseteq Ids /\ heirs' \subseteq Pipes
  BY DEF Inv, TypeOK, Inherit
<1>1. TypeOK' BY <1>0 DEF Inv, TypeOK
<1>. QED BY <1>1, QuietStep DEF Inv

LEMMA DeathStep == ASSUME Inv, Death PROVE Inv'
BY InheritStep DEF Death

LEMMA HeirsLeaveStep == ASSUME Inv, HeirsLeave PROVE Inv'
<1>1. alive' \in BOOLEAN BY DEF Inv, TypeOK, HeirsLeave
<1>. QED BY <1>1, InheritStep DEF HeirsLeave

LEMMA TimeoutStep == ASSUME Inv, Timeout PROVE Inv'
<1>1. TypeOK' BY DEF Inv, TypeOK, Timeout
<1>. QED BY <1>1, QuietStep DEF Inv, Timeout

LEMMA StopBeginsStep == ASSUME Inv, StopBegins PROVE Inv'
<1>1. TypeOK' BY DEF Inv, TypeOK, StopBegins
<1>. QED BY <1>1, QuietStep DEF Inv, StopBegins

LEMMA StopReturnsStep == ASSUME Inv, StopReturns PROVE Inv'
<1>1. TypeOK' BY DEF Inv, TypeOK, StopReturns
<1>. QED BY <1>1, QuietStep DEF Inv, StopReturns

\* Every step keeps the invariant.
LEMMA NextInv == Inv /\ [Next]_vars => Inv'
<1>. SUFFICES ASSUME Inv, [Next]_vars PROVE Inv' OBVIOUS
<1>1. ASSUME NEW c \in Callers, BeginCall(c) \/ BeginNotify(c) \/ CallerStep(c) \/ Expire(c)
      PROVE  Inv'
  BY <1>1, BeginCallStep, BeginNotifyStep, LockStep, WriteStep, WriteFailsStep, ReceiveStep,
     GiveUpStep, RemoveStep, ExpireStep DEF CallerStep
<1>2. CASE ReaderStep
  BY <1>2, ReadMessageStep, ReadEndsStep, CloseDoneStep, DeliverStep, SendStep,
     ReaderLocksStep, ReaderWritesStep DEF ReaderStep
<1>3. CASE StopStep
  BY <1>3, DeathStep, StopReturnsStep DEF StopStep, StopKills
<1>4. CASE ServerReads BY <1>4, ServerReadsStep
<1>5. ASSUME NEW i \in Ids, ServerResponds(i) PROVE Inv' BY <1>5, ServerRespondsStep
<1>6. ASSUME NEW f \in OwnFrames, ServerSends(f) PROVE Inv'
  <2>1. f \in Frame BY DEF OwnFrames, Message, Frame, Kind
  <2>. QED BY <1>6, <2>1, ServerSendsStep
<1>7. CASE ServerDies \/ ContextEnds \/ HeirsLeave
  BY <1>7, DeathStep, HeirsLeaveStep DEF ServerDies, ContextEnds
<1>8. CASE Timeout BY <1>8, TimeoutStep
<1>9. CASE StopBegins BY <1>9, StopBeginsStep
<1>10. CASE UNCHANGED vars
  BY <1>10 DEF vars, Inv, TypeOK, Owned, Handed, Promised
<1>11. CASE Ended BY <1>11, <1>10 DEF Ended
<1>. QED BY <1>1, <1>2, <1>3, <1>4, <1>5, <1>6, <1>7, <1>8, <1>9, <1>10, <1>11 DEF Next

LEMMA Invariant == Spec => []Inv
BY InitInv, NextInv, PTL DEF Spec

\* For any number of callers, calls and frames the table of pending requests holds no
\* request of a call that has returned (Conn.Call's remove and readLoop's delete).
THEOREM TableIsExact == Spec => []TableExact
<1>1. Inv => TableExact
  BY DEF Inv, Owned, TypeOK, TableExact, InCall
<1>. QED BY <1>1, Invariant, PTL

\* For any number of callers, calls and frames a waiting call's response is promised by
\* the table, on its way or in its channel, and the reader's send never blocks.
THEOREM AnswersAlwaysFit == Spec => []AnswersFit
<1>1. Inv => AnswersFit
  BY DEF Inv, Owned, Promised, AnswersFit
<1>. QED BY <1>1, Invariant, PTL
=============================================================================
