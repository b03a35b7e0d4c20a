--------------------------- MODULE SessionProofs ---------------------------
(***************************************************************************)
(* Proofs about Session, for any set of messages, any number of calls and  *)
(* either role: what the session does to its queue is what ConnQueue       *)
(* allows, so that the theorems of ConnQueueProofs hold of it, and the     *)
(* invariants that bind its timer, parser and connection together.         *)
(***************************************************************************)
EXTENDS Session, ConnQueueProofs

Kinds == {"timed_out", "read", "write", "shutdown", "handshake"}
Op    == Message \cup {"read"}

-----------------------------------------------------------------------------
(* The operations of the timer *)

LEMMA TimerTypes ==
  ASSUME NEW t \in TimerState
  PROVE  /\ Cancel(t) \in TimerState
         /\ ExpiresFromNow(t) \in TimerState
         /\ AsyncWait(t) \in TimerState
         /\ Elapsed(t) \in TimerState
         /\ Fired(t) \in TimerState
         /\ t.due.ok > 0 => TakeOk(t) \in TimerState
         /\ t.due.aborted > 0 => TakeAborted(t) \in TimerState
<1>1. /\ t.expiry \in {"never", "future", "past"} /\ t.waiting \in BOOLEAN
      /\ t.due.ok \in Nat /\ t.due.aborted \in Nat
  BY DEF TimerState
<1>2. Cancel(t) \in TimerState
  BY <1>1 DEF TimerState, Cancel
<1>3. ExpiresFromNow(t) \in TimerState
  BY <1>2 DEF TimerState, ExpiresFromNow
<1>4. AsyncWait(t) \in TimerState /\ Elapsed(t) \in TimerState
  BY DEF TimerState, AsyncWait, Elapsed
<1>5. Fired(t) \in TimerState
  BY <1>1 DEF TimerState, Fired
<1>6. t.due.ok > 0 => TakeOk(t) \in TimerState
  BY <1>1 DEF TimerState, TakeOk
<1>7. t.due.aborted > 0 => TakeAborted(t) \in TimerState
  BY <1>1 DEF TimerState, TakeAborted
<1> QED
  BY <1>2, <1>3, <1>4, <1>5, <1>6, <1>7

LEMMA TimerWaits ==
  ASSUME NEW t \in TimerState
  PROVE  /\ ~Cancel(t).waiting
         /\ ~Fired(t).waiting
         /\ Elapsed(t).waiting = t.waiting
         /\ t.due.ok > 0 => TakeOk(t).waiting = t.waiting
         /\ t.due.aborted > 0 => TakeAborted(t).waiting = t.waiting
  BY DEF TimerState, Cancel, Elapsed, Fired, TakeOk, TakeAborted

LEMMA NewTimerType == NewTimer \in TimerState /\ ~NewTimer.waiting
  BY DEF NewTimer, TimerState

-----------------------------------------------------------------------------
(* The functions handlers are made of *)

LEMMA ReportType ==
  ASSUME NEW errs \in SUBSET Kinds, NEW what \in Kinds
  PROVE  /\ Report(errs, what) \in SUBSET Kinds
         /\ errs \subseteq Report(errs, what)
         /\ HasOnError => what \in Report(errs, what)
  BY DEF Report

LEMMA DoEofEffect ==
  ASSUME NEW errs \in SUBSET Kinds, socket \in {"open", "shut", "closed"}, DoEof(errs)
  PROVE  /\ socket' \in {"shut", "closed"}
         /\ errors' \in SUBSET Kinds
         /\ errs \subseteq errors'
         /\ socket' = "closed" <=> socket = "closed"
  BY DEF DoEof, Report, Kinds

LEMMA DoTimerEffect ==
  ASSUME timer \in TimerState, deadlines \in SUBSET Op,
         NEW timed \in BOOLEAN, NEW op \in Op, DoTimer(timed, op)
  PROVE  timer' \in TimerState /\ deadlines' \in SUBSET Op
  BY TimerTypes DEF DoTimer, clock

LEMMA StopTimerEffect ==
  ASSUME timer \in TimerState, deadlines \in SUBSET Op,
         NEW op \in Op, StopTimerOf(op)
  PROVE  timer' \in TimerState /\ deadlines' \in SUBSET Op /\ ~timer'.waiting
  BY TimerTypes, TimerWaits DEF StopTimerOf

\* The head of the calls is a call of the type its op says.
LEMMA HeadCall ==
  ASSUME calls \in Seq(Call), calls # <<>>
  PROVE  /\ Tail(calls) \in Seq(Call)
         /\ Head(calls).timed \in BOOLEAN
         /\ Head(calls).op = "send" => Head(calls).msg \in Message
<1>1. Head(calls) \in Call /\ Tail(calls) \in Seq(Call)
  BY HeadTailProperties
<1> QED
  BY <1>1 DEF Call

-----------------------------------------------------------------------------
(* What a step does to the queue *)

LEMMA QueueStep ==
  ASSUME TypeOK, [Next]_vars
  PROVE  [QNext]_qvars
<1>1. fresh \subseteq Message
  BY DEF TypeOK
<1>2. CASE RunRecv \/ OnReadEof \/ OnReadDispatch \/ OnTimer
  BY <1>2 DEF RunRecv, Recv, DoRead, OnReadEof, OnReadDispatch, OnTimer
<1>3. CASE RunSend
  <2>1. Head(calls).msg \in Message
    BY <1>3, HeadCall DEF RunSend, TypeOK
  <2> QED
    BY <1>3, <2>1 DEF RunSend, Send, QNext
<1>4. ASSUME NEW w \in writes, OnWrite(w) PROVE QNext
  BY <1>4 DEF OnWrite, QNext
<1>5. CASE UserStep
  BY <1>1, <1>5 DEF UserStep, HandlerSend, PostSend, HandlerRecv, PostRecv, HandlerClose,
                    HandlerReturn, DropContext, Recv, Send, QNext
<1>6. ASSUME NEW w \in writes, WriteDone(w) \/ WriteFails(w) PROVE QNext
  BY <1>6 DEF WriteDone, WriteFails, WriteResult, QNext
<1>7. CASE EnvStep
  BY <1>6, <1>7 DEF EnvStep, PeerSends, PeerCloses, ReadEnds, Tick, WaitExpires
<1>8. CASE Destroy
  BY <1>8 DEF Destroy
<1>9. CASE UNCHANGED vars
  BY <1>9 DEF vars
<1> QED
  BY <1>2, <1>3, <1>4, <1>5, <1>7, <1>8, <1>9 DEF Next, StrandStep

-----------------------------------------------------------------------------
(* The inductive invariant *)

LEMMA InitSInv == Init => SInv
<1> SUFFICES ASSUME Init PROVE SInv
  OBVIOUS
<1>1. QInv
  BY QInitQInv DEF Init, InitContext, NewImpl
<1>2. calls \in Seq(Call) /\ fresh \in SUBSET Message /\ recvs \in 0 .. MaxRecvs
  <2>1. PICK d \in Timed, m \in Message :
          IF IsRequest
          THEN calls = <<RecvCall(d)>> /\ fresh = Message /\ recvs = 1
          ELSE calls = <<SendCall(m, d)>> /\ fresh = Message \ {m} /\ recvs = 0
    BY DEF Init, InitContext, NewImpl
  <2>2. RecvCall(d) \in Call /\ SendCall(m, d) \in Call
    BY SessionAssumption DEF Call, RecvCall, SendCall
  <2>3. <<RecvCall(d)>> \in Seq(Call) /\ <<SendCall(m, d)>> \in Seq(Call)
    BY <2>2
  <2>4. calls \in Seq(Call)
    BY <2>1, <2>3
  <2>5. 0 \in 0 .. MaxRecvs /\ 1 \in 0 .. MaxRecvs
    BY SessionAssumption
  <2> QED
    BY <2>1, <2>4, <2>5
<1>3. TypeOK
  <2>1. parser \in [got : Content, released : BOOLEAN]
    BY DEF Init, InitContext, NewImpl, Content
  <2>2. dispatched \in Seq(Content \cup {"moved"})
    BY EmptySeq DEF Init, InitContext, NewImpl
  <2> QED
    BY <1>1, <1>2, <2>1, <2>2, NewTimerType DEF Init, InitContext, NewImpl, QInv, TypeOK
<1> QED
  BY <1>1, <1>3, NewTimerType
     DEF Init, InitContext, NewImpl, SInv, NoIdleTimer, ShutdownHasCause, EofSeen, WholeDispatchedOnce, ParserSpent

\* The parts of SInv that a step has to keep, the queue's apart.
Links    == ShutdownHasCause /\ EofSeen
Parsing  == WholeDispatchedOnce /\ ParserSpent
SessInv  == TypeOK /\ NoIdleTimer /\ Links /\ Parsing

LEMMA StrandStepSessInv ==
  ASSUME SInv, QInv', StrandStep
  PROVE  SessInv'
<1>1. /\ TypeOK /\ QTypeOK' /\ NoLostWakeup'
      /\ timer \in TimerState /\ deadlines \in SUBSET Op /\ errors \in SUBSET Kinds
      /\ socket \in {"open", "shut", "closed"}
  BY QInvNoLostWakeup DEF SInv, QInv, TypeOK, Op, Kinds, NoLostWakeup, Idle, Dead, Writing
<1>2. CASE RunRecv
  <2>1. /\ Tail(calls) \in Seq(Call)
        /\ timer' \in TimerState /\ deadlines' \in SUBSET Op
    BY <1>1, <1>2, HeadCall, DoTimerEffect DEF RunRecv, Recv, DoRead, TypeOK, Op
  <2>2. TypeOK'
    BY <1>1, <1>2, <2>1 DEF RunRecv, Recv, DoRead, TypeOK, Op, user, link
  <2>3. NoIdleTimer' /\ Links' /\ Parsing'
    BY <1>2 DEF RunRecv, Recv, DoRead, SInv, NoIdleTimer, Links, ShutdownHasCause, EofSeen, Parsing,
                WholeDispatchedOnce, ParserSpent, user, link, qvars
  <2> QED
    BY <2>2, <2>3 DEF SessInv
<1>3. CASE RunSend
  <2>1. /\ Tail(calls) \in Seq(Call) /\ Head(calls).msg \in Op
        /\ timer' \in TimerState /\ deadlines' \in SUBSET Op
    BY <1>1, <1>3, HeadCall, DoTimerEffect DEF RunSend, Send, TypeOK, Op
  <2>2. TypeOK'
    BY <1>1, <1>3, <2>1 DEF RunSend, Send, TypeOK, Op, user, link, input
  <2>3. NoIdleTimer'
    <3>1. m_items' # <<>>
      BY <1>1, <1>3, HeadCall, AppendProperties DEF RunSend, Send, Push, TypeOK, QTypeOK
    <3> QED
      BY <1>1, <3>1 DEF NoIdleTimer, NoLostWakeup
  <2>4. Links' /\ Parsing'
    BY <1>3 DEF RunSend, Send, Push, SInv, Links, ShutdownHasCause, EofSeen, Parsing,
                WholeDispatchedOnce, ParserSpent, user, link, input
  <2> QED
    BY <2>2, <2>3, <2>4 DEF SessInv
<1>4. CASE OnReadEof
  <2>1. /\ timer' \in TimerState /\ deadlines' \in SUBSET Op /\ ~timer'.waiting
    BY <1>1, <1>4, StopTimerEffect DEF OnReadEof, Op
  <2>2. /\ socket' \in {"shut", "closed"} /\ errors' \in SUBSET Kinds /\ errors \subseteq errors'
        /\ socket' = "closed" <=> socket = "closed"
    BY <1>1, <1>4, DoEofEffect DEF OnReadEof
  <2>3. TypeOK'
    BY <1>1, <1>4, <2>1, <2>2 DEF OnReadEof, TypeOK, Op, Kinds, user
  <2>4. NoIdleTimer'
    BY <2>1 DEF NoIdleTimer
  <2>5. Links'
    BY <1>1, <1>4, <2>2 DEF OnReadEof, SInv, Links, ShutdownHasCause, EofSeen, qvars
  <2>6. Parsing'
    BY <1>4 DEF OnReadEof, SInv, Parsing, WholeDispatchedOnce, ParserSpent
  <2> QED
    BY <2>3, <2>4, <2>5, <2>6 DEF SessInv
<1>5. CASE OnReadDispatch
  <2> DEFINE what == IF parser.released THEN "moved" ELSE parser.got
  <2>1. timer' \in TimerState /\ deadlines' \in SUBSET Op /\ ~timer'.waiting
    BY <1>1, <1>5, StopTimerEffect DEF OnReadDispatch, Op
  <2>2. errors' \in SUBSET Kinds /\ errors \subseteq errors'
    BY <1>1, <1>5, ReportType DEF OnReadDispatch, Kinds
  <2>3. what \in Content \cup {"moved"} /\ dispatched \in Seq(Content \cup {"moved"})
    BY <1>1 DEF TypeOK, Content
  <2>4. /\ Append(dispatched, what) \in Seq(Content \cup {"moved"})
        /\ Len(dispatched) \in Nat
        /\ DOMAIN dispatched = 1 .. Len(dispatched)
        /\ DOMAIN Append(dispatched, what) = 1 .. Len(dispatched) + 1
        /\ \A i \in 1 .. Len(dispatched) : Append(dispatched, what)[i] = dispatched[i]
        /\ Append(dispatched, what)[Len(dispatched) + 1] = what
    BY <2>3, AppendProperties, LenProperties
  <2>5. dispatched' = Append(dispatched, what)
    BY <1>5 DEF OnReadDispatch
  <2>6. TypeOK'
    BY <1>1, <1>5, <2>1, <2>2, <2>4, <2>5 DEF OnReadDispatch, TypeOK, Op, Kinds
  <2>7. NoIdleTimer'
    BY <2>1 DEF NoIdleTimer
  <2>8. Links'
    BY <1>5, <2>2 DEF OnReadDispatch, SInv, Links, ShutdownHasCause, EofSeen, qvars
  <2>9. Parsing'
    <3>1. parser'.released
      BY <1>1, <1>5 DEF OnReadDispatch, TypeOK
    <3>2. what = "all" => Len(dispatched) = 0
      BY <2>3, EmptySeq DEF SInv, ParserSpent
    <3> HIDE DEF what
    <3>3. WholeDispatchedOnce'
      BY <2>4, <2>5, <3>2 DEF SInv, WholeDispatchedOnce
    <3> QED
      BY <3>1, <3>3 DEF Parsing, ParserSpent
  <2> QED
    BY <2>6, <2>7, <2>8, <2>9 DEF SessInv
<1>6. ASSUME NEW w \in writes, OnWrite(w) PROVE SessInv'
  <2>1. w.msg \in Op
    BY <1>1 DEF TypeOK, QTypeOK, Write, Op
  <2>2. timer' \in TimerState /\ deadlines' \in SUBSET Op /\ ~timer'.waiting
    BY <1>1, <1>6, <2>1, StopTimerEffect DEF OnWrite
  <2>3. /\ socket' \in {"open", "shut", "closed"}
        /\ errors' \in SUBSET Kinds /\ errors \subseteq errors'
        /\ UNCHANGED <<input, peer, dispatched>>
        /\ (socket' # socket => halted')
        /\ (halted => halted')
        /\ (socket # "open" => socket' # "open")
    <3>1. CASE DoEof(errors) /\ Abandon(w)
      BY <1>1, <1>6, <3>1, DoEofEffect DEF OnWrite, Abandon, input
    <3>2. CASE errors' = Report(errors, "write") /\ Abandon(w) /\ UNCHANGED socket
      BY <1>1, <1>6, <3>2, ReportType DEF OnWrite, Abandon, Kinds, input
    <3>3. CASE PopAndHandle(w) /\ UNCHANGED link
      BY <1>1, <1>6, <3>3 DEF OnWrite, PopAndHandle, link, input
    <3> QED
      BY <1>6, <3>1, <3>2, <3>3 DEF OnWrite
  <2>4. TypeOK'
    BY <1>1, <1>6, <2>2, <2>3 DEF OnWrite, TypeOK, Op, Kinds, user, input
  <2>5. NoIdleTimer'
    BY <2>2 DEF NoIdleTimer
  <2>6. Links' /\ Parsing'
    BY <2>3 DEF SInv, Links, ShutdownHasCause, EofSeen, Parsing, WholeDispatchedOnce,
                ParserSpent, input
  <2> QED
    BY <2>4, <2>5, <2>6 DEF SessInv
<1>7. CASE OnTimer
  <2>1. timer' \in TimerState /\ timer'.waiting = timer.waiting
    BY <1>1, <1>7, TimerTypes, TimerWaits DEF OnTimer
  <2>2. /\ socket' \in {"open", "shut", "closed"}
        /\ errors' \in SUBSET Kinds /\ errors \subseteq errors'
        /\ (socket' # socket /\ HasOnError => "timed_out" \in errors')
        /\ (socket # "open" => socket' # "open")
    BY <1>1, <1>7, DoEofEffect, ReportType DEF OnTimer, Kinds, link
  <2>3. TypeOK'
    BY <1>1, <1>7, <2>1, <2>2 DEF OnTimer, TypeOK, Op, Kinds, user, input
  <2>4. NoIdleTimer'
    BY <1>7, <2>1 DEF OnTimer, SInv, NoIdleTimer, qvars, input
  <2>5. Links' /\ Parsing'
    BY <1>7, <2>2 DEF OnTimer, SInv, Links, ShutdownHasCause, EofSeen, Parsing,
                      WholeDispatchedOnce, ParserSpent, qvars, input
  <2> QED
    BY <2>3, <2>4, <2>5 DEF SessInv
<1> QED
  BY <1>2, <1>3, <1>4, <1>5, <1>6, <1>7 DEF StrandStep

LEMMA UserStepSessInv ==
  ASSUME SInv, QInv', UserStep
  PROVE  SessInv'
<1>1. /\ TypeOK /\ QTypeOK' /\ NoLostWakeup'
      /\ timer \in TimerState /\ deadlines \in SUBSET Op
      /\ Timed \subseteq BOOLEAN /\ fresh \subseteq Message
  BY QInvNoLostWakeup, SessionAssumption
     DEF SInv, QInv, TypeOK, Op, NoLostWakeup, Idle, Dead, Writing
<1>2. ASSUME NEW d \in Timed, NEW m \in fresh, HandlerSend(m, d) PROVE SessInv'
  <2>1. /\ m \in Op /\ d \in BOOLEAN
        /\ timer' \in TimerState /\ deadlines' \in SUBSET Op
    BY <1>1, <1>2, DoTimerEffect DEF HandlerSend, Send, Op
  <2>2. TypeOK'
    BY <1>1, <1>2, <2>1 DEF HandlerSend, Send, TypeOK, Op, link, input
  <2>3. NoIdleTimer'
    <3>1. m_items' # <<>>
      BY <1>1, <1>2, AppendProperties DEF HandlerSend, Send, Push, TypeOK, QTypeOK
    <3> QED
      BY <1>1, <3>1 DEF NoIdleTimer, NoLostWakeup
  <2>4. Links' /\ Parsing'
    BY <1>2 DEF HandlerSend, Send, Push, SInv, Links, ShutdownHasCause, EofSeen, Parsing,
                WholeDispatchedOnce, ParserSpent, link, input
  <2> QED
    BY <2>2, <2>3, <2>4 DEF SessInv
<1>3. ASSUME NEW d \in Timed, HandlerRecv(d) PROVE SessInv'
  <2>1. d \in BOOLEAN /\ timer' \in TimerState /\ deadlines' \in SUBSET Op
    BY <1>1, <1>3, DoTimerEffect DEF HandlerRecv, Recv, DoRead, Op
  <2>2. recvs' \in 0 .. MaxRecvs
    BY <1>1, <1>3, SessionAssumption DEF HandlerRecv, TypeOK
  <2>3. TypeOK'
    BY <1>1, <1>3, <2>1, <2>2 DEF HandlerRecv, Recv, DoRead, TypeOK, Op, link
  <2>4. NoIdleTimer' /\ Links' /\ Parsing'
    BY <1>3 DEF HandlerRecv, Recv, DoRead, SInv, NoIdleTimer, Links, ShutdownHasCause, EofSeen,
                Parsing, WholeDispatchedOnce, ParserSpent, link, qvars
  <2> QED
    BY <2>3, <2>4 DEF SessInv
<1>4. ASSUME NEW d \in Timed, NEW m \in fresh, PostSend(m, d) PROVE SessInv'
  <2>1. SendCall(m, d) \in Call
    BY <1>1 DEF SendCall, Call
  <2>2. calls' \in Seq(Call)
    BY <1>1, <1>4, <2>1, AppendProperties DEF PostSend, TypeOK
  <2>3. TypeOK'
    BY <1>1, <1>4, <2>2 DEF PostSend, TypeOK, link, input, clock
  <2>4. NoIdleTimer' /\ Links' /\ Parsing'
    BY <1>4 DEF PostSend, SInv, NoIdleTimer, Links, ShutdownHasCause, EofSeen, Parsing,
                WholeDispatchedOnce, ParserSpent, link, input, clock, qvars
  <2> QED
    BY <2>3, <2>4 DEF SessInv
<1>5. ASSUME NEW d \in Timed, PostRecv(d) PROVE SessInv'
  <2>1. RecvCall(d) \in Call
    BY <1>1 DEF RecvCall, Call
  <2>2. calls' \in Seq(Call)
    BY <1>1, <1>5, <2>1, AppendProperties DEF PostRecv, TypeOK
  <2>3. recvs' \in 0 .. MaxRecvs
    BY <1>5, SessionAssumption DEF PostRecv
  <2>4. TypeOK'
    BY <1>1, <1>5, <2>2, <2>3 DEF PostRecv, TypeOK, link, input, clock
  <2>5. NoIdleTimer' /\ Links' /\ Parsing'
    BY <1>5 DEF PostRecv, SInv, NoIdleTimer, Links, ShutdownHasCause, EofSeen, Parsing,
                WholeDispatchedOnce, ParserSpent, link, input, clock, qvars
  <2> QED
    BY <2>4, <2>5 DEF SessInv
<1>6. CASE HandlerClose
  <2>1. TypeOK'
    BY <1>1, <1>6 DEF HandlerClose, TypeOK, user, input, clock
  <2>2. NoIdleTimer' /\ Links' /\ Parsing'
    BY <1>6 DEF HandlerClose, SInv, NoIdleTimer, Links, ShutdownHasCause, EofSeen, Parsing,
                WholeDispatchedOnce, ParserSpent, input, clock, qvars
  <2> QED
    BY <2>1, <2>2 DEF SessInv
<1>7. CASE HandlerReturn \/ DropContext
  <2>1. TypeOK'
    BY <1>1, <1>7 DEF HandlerReturn, DropContext, TypeOK, link, input, clock
  <2>2. NoIdleTimer' /\ Links' /\ Parsing'
    BY <1>7 DEF HandlerReturn, DropContext, SInv, NoIdleTimer, Links, ShutdownHasCause,
                EofSeen, Parsing, WholeDispatchedOnce, ParserSpent, link, input, clock, qvars
  <2> QED
    BY <2>1, <2>2 DEF SessInv
<1> QED
  BY <1>2, <1>3, <1>4, <1>5, <1>6, <1>7 DEF UserStep

LEMMA EnvStepSessInv ==
  ASSUME SInv, QInv', EnvStep \/ Destroy \/ UNCHANGED vars
  PROVE  SessInv'
<1>1. TypeOK /\ QTypeOK' /\ timer \in TimerState
  BY DEF SInv, QInv, TypeOK
<1>2. ASSUME NEW part \in Content \ {"nothing"}, PeerSends(part) PROVE SessInv'
  <2>1. parser' \in [got : Content, released : BOOLEAN] /\ parser'.released = parser.released
    BY <1>1, <1>2 DEF PeerSends, TypeOK
  <2>2. TypeOK'
    BY <1>1, <1>2, <2>1 DEF PeerSends, TypeOK, session, link, user, clock
  <2>3. NoIdleTimer' /\ Links' /\ Parsing'
    BY <1>2, <2>1 DEF PeerSends, SInv, NoIdleTimer, Links, ShutdownHasCause, EofSeen, Parsing,
                      WholeDispatchedOnce, ParserSpent, session, link, clock, qvars
  <2> QED
    BY <2>2, <2>3 DEF SessInv
<1>3. ASSUME NEW how \in {"eof", "reset"}, PeerCloses(how) PROVE SessInv'
  <2>1. TypeOK'
    BY <1>1, <1>3 DEF PeerCloses, TypeOK, session, link, user, clock, input
  <2>2. NoIdleTimer' /\ Links' /\ Parsing'
    BY <1>3 DEF PeerCloses, SInv, NoIdleTimer, Links, ShutdownHasCause, EofSeen, Parsing,
                WholeDispatchedOnce, ParserSpent, session, link, clock, input, qvars
  <2> QED
    BY <2>1, <2>2 DEF SessInv
<1>4. CASE ReadEnds
  <2>1. TypeOK'
    BY <1>1, <1>4 DEF ReadEnds, ReadDone, ReadEof, ReadFails, TypeOK, session, link, user, clock
  <2>2. NoIdleTimer' /\ Parsing'
    BY <1>4 DEF ReadEnds, ReadDone, ReadEof, ReadFails, SInv, NoIdleTimer, Parsing,
                WholeDispatchedOnce, ParserSpent, session, clock, qvars
  <2>3. Links'
    BY <1>4 DEF ReadEnds, ReadDone, ReadEof, ReadFails, SInv, Links, ShutdownHasCause,
                EofSeen, session, link, qvars
  <2> QED
    BY <2>1, <2>2, <2>3 DEF SessInv
<1>5. ASSUME NEW w \in writes, WriteDone(w) \/ WriteFails(w) PROVE SessInv'
  <2>1. writes' # {} /\ UNCHANGED <<halted, input, clock, session, peer>>
    BY <1>5 DEF WriteDone, WriteFails, WriteEnds
  <2>2. TypeOK'
    BY <1>1, <2>1 DEF TypeOK, session, link, user, clock, input
  <2>3. NoIdleTimer' /\ Links' /\ Parsing'
    BY <2>1 DEF SInv, NoIdleTimer, Links, ShutdownHasCause, EofSeen, Parsing,
                WholeDispatchedOnce, ParserSpent, session, link, clock, input
  <2> QED
    BY <2>2, <2>3 DEF SessInv
<1>6. CASE Tick \/ WaitExpires
  <2>1. timer' \in TimerState /\ (timer'.waiting => timer.waiting)
    <3>1. CASE timer' = Elapsed(timer)
      BY <1>1, <3>1, TimerTypes, TimerWaits
    <3>2. CASE timer' = Fired(timer)
      BY <1>1, <3>2, TimerTypes, TimerWaits
    <3> QED
      BY <1>6, <3>1, <3>2 DEF Tick, WaitExpires
  <2>2. TypeOK'
    BY <1>1, <1>6, <2>1 DEF Tick, WaitExpires, TypeOK, session, link, user, input
  <2>3. NoIdleTimer' /\ Links' /\ Parsing'
    BY <1>6, <2>1 DEF Tick, WaitExpires, SInv, NoIdleTimer, Links, ShutdownHasCause, EofSeen,
                      Parsing, WholeDispatchedOnce, ParserSpent, session, link, input, qvars
  <2> QED
    BY <2>2, <2>3 DEF SessInv
<1>7. CASE Destroy
  <2>1. TypeOK'
    BY <1>1, <1>7 DEF Destroy, TypeOK, user, input, clock
  <2>2. NoIdleTimer' /\ Links' /\ Parsing'
    BY <1>7 DEF Destroy, SInv, NoIdleTimer, Links, ShutdownHasCause, EofSeen, Parsing,
                WholeDispatchedOnce, ParserSpent, input, clock, qvars
  <2> QED
    BY <2>1, <2>2 DEF SessInv
<1>8. CASE UNCHANGED vars
  BY <1>8 DEF vars, SessInv, SInv, TypeOK, QTypeOK, NoIdleTimer, Links, ShutdownHasCause,
              EofSeen, Parsing, WholeDispatchedOnce, ParserSpent, link, user, input, clock, qvars
<1> QED
  BY <1>2, <1>3, <1>4, <1>5, <1>6, <1>7, <1>8 DEF EnvStep

-----------------------------------------------------------------------------
(* The theorems *)

LEMMA SInvStep == SInv /\ [Next]_vars => SInv' /\ [QNext]_qvars
<1> SUFFICES ASSUME SInv, [Next]_vars PROVE SInv' /\ [QNext]_qvars
  OBVIOUS
<1>1. [QNext]_qvars
  BY QueueStep DEF SInv
<1>2. QInv'
  BY <1>1, QNextStep DEF SInv
<1>3. SessInv'
  BY <1>2, StrandStepSessInv, UserStepSessInv, EnvStepSessInv DEF Next
<1> QED
  BY <1>1, <1>2, <1>3 DEF SInv, SessInv, Links, Parsing

\* Every part of the session's invariant holds, for either role, with or
\* without on_error, and however calls overlap (session.ipp:91-245).
THEOREM SessionInvariant == Spec => []SInv
  BY InitSInv, SInvStep, PTL DEF Spec

\* A session has only values of the types its declarations give.
THEOREM SessionTypeOK == Spec => []TypeOK
<1>1. SInv => TypeOK
  BY DEF SInv
<1> QED
  BY <1>1, SessionInvariant, PTL

\* No wait is left behind by what it was armed for (session.ipp:128-135,
\* 170 and 227).
THEOREM SessionNoIdleTimer == Spec => []NoIdleTimer
<1>1. SInv => NoIdleTimer
  BY DEF SInv
<1> QED
  BY <1>1, SessionInvariant, PTL

\* The connection is shut down only for a timeout that was reported, a peer
\* that closed, or a stream that ended (session.ipp:153, 173, 230 and 240).
THEOREM SessionShutdownHasCause == Spec => []ShutdownHasCause
<1>1. SInv => ShutdownHasCause
  BY DEF SInv
<1> QED
  BY <1>1, SessionInvariant, PTL

\* A received message reaches the dispatcher once (session.ipp:181).
THEOREM SessionWholeDispatchedOnce == Spec => []WholeDispatchedOnce
<1>1. SInv => WholeDispatchedOnce
  BY DEF SInv
<1> QED
  BY <1>1, SessionInvariant, PTL

\* What a session does to its queue is what ConnQueue describes: the handlers
\* and users of a session are one way to drive a queue.
THEOREM SessionUsesQueue == Spec => QSpec
<1>1. Init => QInit
  BY DEF Init, InitContext, NewImpl
<1> QED
  BY <1>1, SInvStep, SessionInvariant, PTL DEF Spec, QSpec

\* The messages of a session are written as MessageStream promises.
THEOREM SessionKeepsStreamPromise == Spec => StreamPromise
  BY SessionUsesQueue, QueueKeepsStreamPromise

\* No write of a session reads through a replaced serializer or a popped
\* message, whatever calls and handlers come in between (session.ipp:213-219).
THEOREM SessionWritesLiveMessages == Spec => []WriteUsesLiveMessage
  BY SessionUsesQueue, QueueWritesLiveMessages

\* A session never forgets a queued message (conn_queue.hpp:50-60).
THEOREM SessionNeverStalls == Spec => []NoLostWakeup
  BY SessionUsesQueue, QueueNeverStalls
=============================================================================
