-------------------------- MODULE TlsSessionProofs --------------------------
(***************************************************************************)
(* What is proved of a plain session holds of a TLS session: each of its   *)
(* steps is one of the plain session's, or one of the four below, which    *)
(* keep the plain session's invariants too.                                *)
(***************************************************************************)
EXTENDS TlsSession, SessionEndProofs

\* The steps that only a TLS session has.
TlsOnly == \/ OnHandshake \/ OnHandshakeError \/ TlsReadEnds
           \/ \E w \in writes : TlsWriteFails(w)

LEMMA PlainOrTls ==
  ASSUME [TlsNext]_tvars
  PROVE  [Next]_vars \/ TlsOnly
<1>1. CASE TlsStrandStep
  BY <1>1 DEF TlsStrandStep, DoHandshake, TlsOnly, Next
<1>2. CASE TlsUserStep \/ TlsDestroy
  BY <1>2 DEF TlsUserStep, TlsDestroy, UserStep, Next
<1>3. CASE Plain
  BY <1>3 DEF Plain, EnvStep, Next
<1>4. CASE HandshakeEnds \/ UNCHANGED tvars
  BY <1>4 DEF HandshakeEnds, tvars
<1> QED
  BY <1>1, <1>2, <1>3, <1>4 DEF TlsNext, TlsOnly

-----------------------------------------------------------------------------
(* What the handshake leads to *)

\* The call that func makes.
LEMMA FirstCallTypes ==
  ASSUME first \in Call
  PROVE  /\ first.timed \in BOOLEAN
         /\ first.op # "recv" => first.msg \in Message
         /\ FirstOp \in Op
<1>1. CASE first \in [op : {"recv"}, timed : BOOLEAN]
  BY <1>1 DEF FirstOp, Op
<1>2. CASE first \in [op : {"send"}, timed : BOOLEAN, msg : Message]
  BY <1>2 DEF FirstOp, Op
<1> QED
  BY <1>1, <1>2 DEF Call

LEMMA TlsQueueStep ==
  ASSUME TypeOK, first \in Call, TlsOnly
  PROVE  [QNext]_qvars
<1>1. CASE OnHandshake
  BY <1>1, FirstCallTypes DEF OnHandshake, FirstCall, QNext
<1>2. CASE OnHandshakeError \/ TlsReadEnds
  BY <1>2 DEF OnHandshakeError, TlsReadEnds
<1>3. ASSUME NEW w \in writes, TlsWriteFails(w) PROVE QNext
  BY <1>3 DEF TlsWriteFails, WriteResult, QNext
<1> QED
  BY <1>1, <1>2, <1>3 DEF TlsOnly

\* A wait that is started for the first call has that call to cut short.
LEMMA OnHandshakeSessInv ==
  ASSUME SInv, QInv', first \in Call, OnHandshake
  PROVE  SessInv'
<1>1. /\ TypeOK /\ QTypeOK' /\ NoLostWakeup'
      /\ timer \in TimerState /\ deadlines \in SUBSET Op
  BY QInvNoLostWakeup DEF SInv, QInv, TypeOK, Op, NoLostWakeup, Idle, Dead, Writing
<1>2. timer' \in TimerState /\ deadlines' \in SUBSET Op
  <2>1. Cancel(timer) \in TimerState
    BY <1>1, TimerTypes
  <2>2. ExpiresFromNow(Cancel(timer)) \in TimerState
    BY <2>1, TimerTypes
  <2>3. AsyncWait(ExpiresFromNow(Cancel(timer))) \in TimerState
    BY <2>2, TimerTypes
  <2> QED
    BY <1>1, <2>1, <2>3, FirstCallTypes DEF OnHandshake
<1>3. CASE first.op = "recv"
  <2>1. read' = "pending" /\ UNCHANGED <<qvars, parser, link>>
    BY <1>3 DEF OnHandshake, FirstCall
  <2>2. TypeOK'
    BY <1>1, <1>2, <2>1 DEF OnHandshake, TypeOK, Op, user, link
  <2>3. NoIdleTimer' /\ Links' /\ Parsing'
    BY <2>1 DEF OnHandshake, SInv, NoIdleTimer, Links, ShutdownHasCause, EofSeen, Parsing,
                WholeDispatchedOnce, ParserSpent, user, link, qvars
  <2> QED
    BY <2>2, <2>3 DEF SessInv
<1>4. CASE first.op # "recv"
  <2>1. Push(first.msg) /\ UNCHANGED <<input, link>> /\ first.msg \in Message
    BY <1>4, FirstCallTypes DEF OnHandshake, FirstCall
  <2>2. TypeOK'
    BY <1>1, <1>2, <2>1 DEF OnHandshake, TypeOK, Op, user, link, input
  <2>3. NoIdleTimer'
    <3>1. m_items' # <<>>
      BY <1>1, <2>1, AppendProperties DEF Push, TypeOK, QTypeOK
    <3> QED
      BY <1>1, <3>1 DEF NoIdleTimer, NoLostWakeup
  <2>4. Links' /\ Parsing'
    BY <2>1 DEF OnHandshake, Push, SInv, Links, ShutdownHasCause, EofSeen, Parsing,
                WholeDispatchedOnce, ParserSpent, user, link, input
  <2> QED
    BY <2>2, <2>3, <2>4 DEF SessInv
<1> QED
  BY <1>3, <1>4

LEMMA TlsOnlySessInv ==
  ASSUME SInv, QInv', first \in Call, TlsOnly
  PROVE  SessInv'
<1>1. TypeOK /\ QTypeOK' /\ timer \in TimerState /\ errors \in SUBSET Kinds
  BY DEF SInv, QInv, TypeOK, Kinds
<1>2. CASE OnHandshakeError
  <2>1. timer' \in TimerState /\ ~timer'.waiting
    BY <1>1, <1>2, TimerTypes, TimerWaits DEF OnHandshakeError
  <2>2. errors' \in SUBSET Kinds /\ errors \subseteq errors'
    BY <1>1, <1>2, ReportType DEF OnHandshakeError, Kinds
  <2>3. TypeOK'
    BY <1>1, <1>2, <2>1, <2>2 DEF OnHandshakeError, TypeOK, Kinds, user, input
  <2>4. NoIdleTimer'
    BY <2>1 DEF NoIdleTimer
  <2>5. Links' /\ Parsing'
    BY <1>2, <2>2 DEF OnHandshakeError, SInv, Links, ShutdownHasCause, EofSeen, Parsing,
                      WholeDispatchedOnce, ParserSpent, qvars, input
  <2> QED
    BY <2>3, <2>4, <2>5 DEF SessInv
<1>3. CASE TlsReadEnds
  <2> USE <1>3 DEF TlsReadEnds, ReadDone, TlsReadEof, ReadFails, Truncated
  <2>1. TypeOK'
    BY <1>1 DEF TypeOK, session, link, user, clock
  <2>2. NoIdleTimer' /\ Parsing'
    BY DEF SInv, NoIdleTimer, Parsing, WholeDispatchedOnce, ParserSpent, session, clock, qvars
  <2>3. Links'
    BY DEF SInv, Links, ShutdownHasCause, EofSeen, session, link, qvars
  <2> QED
    BY <2>1, <2>2, <2>3 DEF SessInv
<1>4. ASSUME NEW w \in writes, TlsWriteFails(w) PROVE SessInv'
  <2>1. writes' # {} /\ UNCHANGED <<halted, input, clock, session, peer>>
    BY <1>4 DEF TlsWriteFails, WriteEnds
  <2>2. TypeOK'
    BY <1>1, <2>1 DEF TypeOK, session, link, user, clock, input
  <2>3. NoIdleTimer' /\ Links' /\ Parsing'
    BY <2>1 DEF SInv, NoIdleTimer, Links, ShutdownHasCause, EofSeen, Parsing,
                WholeDispatchedOnce, ParserSpent, session, link, clock, input
  <2> QED
    BY <2>2, <2>3 DEF SessInv
<1> QED
  BY <1>2, <1>3, <1>4, OnHandshakeSessInv DEF TlsOnly

-----------------------------------------------------------------------------
(* The theorems *)

LEMMA TlsAliveKept ==
  ASSUME [TlsNext]_tvars, ~TlsDestroy
  PROVE  alive' = alive
BY DEF TlsNext, TlsStrandStep, DoHandshake, OnHandshake, OnHandshakeError, TlsUserStep,
  HandshakeEnds, TlsReadEnds, Plain, TlsWriteFails, tvars, vars, session, StrandStep, RunRecv,
  RunSend, OnReadEof, OnReadDispatch, OnWrite, OnTimer, DropContext, UserStep, HandlerSend,
  HandlerRecv, HandlerClose, HandlerReturn, PostSend, PostRecv, PeerSends, PeerCloses,
  WriteDone, Tick, WaitExpires

LEMMA TlsInvStep == TlsInv /\ [TlsNext]_tvars => TlsInv' /\ [QNext]_qvars
<1> SUFFICES ASSUME TlsInv, [TlsNext]_tvars PROVE TlsInv' /\ [QNext]_qvars
  OBVIOUS
<1>1. SInv' /\ [QNext]_qvars
  <2>1. CASE [Next]_vars
    BY <2>1, SInvStep DEF TlsInv
  <2>2. CASE TlsOnly
    <3>1. [QNext]_qvars
      BY <2>2, TlsQueueStep DEF TlsInv, SInv
    <3>2. QInv'
      BY <3>1, QNextStep DEF TlsInv, SInv
    <3>3. SessInv'
      BY <2>2, <3>2, TlsOnlySessInv DEF TlsInv
    <3> QED
      BY <3>1, <3>2, <3>3 DEF SInv, SessInv, Links, Parsing
  <2> QED
    BY <2>1, <2>2, PlainOrTls
<1>2. /\ shake' \in {"called", "pending", "ok", "error", "done", "failed"}
      /\ first' \in Call
      /\ Over => Over'
  BY DEF TlsInv, TlsNext, TlsStrandStep, DoHandshake, OnHandshake, OnHandshakeError, TlsUserStep,
         TlsDestroy, HandshakeEnds, TlsReadEnds, Plain, TlsWriteFails, Unshaken, Over, tvars
<1>3. ~alive' => Over'
  <2>1. CASE TlsDestroy
    BY <1>2, <2>1 DEF TlsDestroy
  <2>2. CASE ~TlsDestroy
    <3>1. alive' = alive
      BY <2>2, TlsAliveKept
    <3> QED
      BY <1>2, <3>1 DEF TlsInv
  <2> QED
    BY <2>1, <2>2
<1> QED
  BY <1>1, <1>2, <1>3 DEF TlsInv

LEMMA TlsInitInv == TlsInit => TlsInv /\ QInit
<1> SUFFICES ASSUME TlsInit PROVE TlsInv /\ QInit
  OBVIOUS
<1>1. PICK d \in Timed, m \in Message :
        IF IsRequest
        THEN first = RecvCall(d) /\ fresh = Message /\ recvs = 1
        ELSE first = SendCall(m, d) /\ fresh = Message \ {m} /\ recvs = 0
  BY DEF TlsInit
<1>2. first \in Call
  BY <1>1, SessionAssumption DEF Call, RecvCall, SendCall
<1>3. recvs \in 0 .. MaxRecvs /\ fresh \in SUBSET Message
  <2>1. 0 \in 0 .. MaxRecvs /\ 1 \in 0 .. MaxRecvs
    BY SessionAssumption
  <2> QED
    BY <1>1, <2>1
<1>4. QInit /\ QInv
  BY QInitQInv DEF TlsInit, InitContext, NewImpl
<1>5. TypeOK
  <2>1. parser \in [got : Content, released : BOOLEAN]
    BY DEF TlsInit, InitContext, NewImpl, Content
  <2>2. dispatched \in Seq(Content \cup {"moved"}) /\ calls \in Seq(Call)
    BY EmptySeq DEF TlsInit, InitContext, NewImpl
  <2> QED
    BY <1>3, <1>4, <2>1, <2>2, NewTimerType DEF TlsInit, InitContext, NewImpl, QInv, TypeOK
<1>6. SInv
  BY <1>4, <1>5, NewTimerType DEF TlsInit, InitContext, NewImpl, SInv, NoIdleTimer, ShutdownHasCause, EofSeen,
                                 WholeDispatchedOnce, ParserSpent
<1> QED
  BY <1>2, <1>4, <1>6 DEF TlsInit, InitContext, NewImpl, TlsInv

\* The invariant of a session, for TLS: timer, parser, connection and queue
\* agree whatever the handshake comes to (session.ipp:249-293).
THEOREM TlsInvariant == TlsSpec => []TlsInv
<1>1. TlsInit => TlsInv
  BY TlsInitInv
<1>2. TlsInv /\ [TlsNext]_tvars => TlsInv'
  BY TlsInvStep
<1> QED
  BY <1>1, <1>2, PTL DEF TlsSpec

\* What a TLS session writes is what a plain one would: each message once, in
\* the order of the calls of send(), none after the stream was given up.
THEOREM TlsKeepsStreamPromise == TlsSpec => StreamPromise
<1>1. TlsInit => QInit
  BY TlsInitInv
<1>2. TlsInv /\ [TlsNext]_tvars => [QNext]_qvars
  BY TlsInvStep
<1>3. TlsSpec => QSpec
  BY <1>1, <1>2, TlsInvariant, PTL DEF TlsSpec, QSpec
<1> QED
  BY <1>3, QueueKeepsStreamPromise, PTL

-----------------------------------------------------------------------------
(* Nothing before the handshake has succeeded *)

NotFirst(m) == m # first.msg

\* A server has not read, a client's first message is nobody's but func's.
NotStarted ==
  shake # "done" =>
    IF IsRequest
    THEN /\ read = "none" /\ dispatched = <<>> /\ ~handling
         /\ \A i \in DOMAIN calls : calls[i].op = "send"
    ELSE /\ \A m \in fresh : NotFirst(m)
         /\ \A i \in DOMAIN calls : calls[i].op = "send" => NotFirst(calls[i].msg)
         /\ \A i \in DOMAIN accepted : NotFirst(accepted[i])

LEMMA RunCallNotStarted ==
  ASSUME TlsInv, NotStarted, shake # "done", RunRecv \/ RunSend, Unshaken
  PROVE  NotStarted'
<1>1. /\ accepted \in Seq(Message) /\ calls \in Seq(Call)
  BY DEF TlsInv, SInv, QInv, QTypeOK, TypeOK
<1>2. /\ calls' = Tail(calls) /\ calls # <<>> /\ fresh' = fresh /\ first' = first
      /\ shake' = shake /\ handling' = handling /\ dispatched' = dispatched
      /\ \/ Head(calls).op = "recv" /\ accepted' = accepted
         \/ Head(calls).op = "send" /\ Push(Head(calls).msg) /\ read' = read
  BY DEF RunRecv, RunSend, Recv, Send, Unshaken, user, qvars, input
<1>3. /\ \A i \in DOMAIN calls' : \E j \in DOMAIN calls : calls'[i] = calls[j]
      /\ \E j \in DOMAIN calls : Head(calls) = calls[j]
  BY <1>1, <1>2, InTail
<1>4. CASE IsRequest
  BY <1>2, <1>3, <1>4 DEF NotStarted
<1>5. CASE ~IsRequest
  <2>1. CASE Head(calls).op = "recv" /\ accepted' = accepted
    BY <1>2, <1>3, <1>5, <2>1 DEF NotStarted, NotFirst
  <2>2. CASE Head(calls).op = "send" /\ Push(Head(calls).msg)
    <3>1. Head(calls).msg \in Message
      BY <1>1, <1>2, <2>2, HeadCall
    <3>2. \A i \in DOMAIN accepted' :
            accepted'[i] = Head(calls).msg \/ \E j \in DOMAIN accepted : accepted'[i] = accepted[j]
      BY <1>1, <2>2, <3>1, PushWhereabouts
    <3>3. NotFirst(Head(calls).msg)
      BY <1>3, <1>5, <2>2 DEF NotStarted
    <3>4. \A i \in DOMAIN accepted' : accepted'[i] # first.msg
      BY <1>5, <3>2, <3>3 DEF NotStarted, NotFirst
    <3> QED
      BY <1>2, <1>3, <1>5, <3>4 DEF NotStarted, NotFirst
  <2> QED
    BY <1>2, <2>1, <2>2
<1> QED
  BY <1>4, <1>5

LEMMA UserNotStarted ==
  ASSUME TlsInv, NotStarted, shake # "done", UserStep, Unshaken
  PROVE  NotStarted'
<1>1. /\ accepted \in Seq(Message) /\ calls \in Seq(Call) /\ fresh \subseteq Message
  BY DEF TlsInv, SInv, QInv, QTypeOK, TypeOK
<1>2. shake' = shake /\ first' = first
  BY DEF Unshaken
<1>3. ASSUME NEW d \in Timed, NEW m \in fresh, PostSend(m, d) PROVE NotStarted'
  <2>1. SendCall(m, d) \in Call /\ SendCall(m, d).op = "send" /\ SendCall(m, d).msg = m
    BY <1>1, SessionAssumption DEF SendCall, Call
  <2>2. /\ calls' = Append(calls, SendCall(m, d)) /\ fresh' = fresh \ {m}
        /\ UNCHANGED <<accepted, read, dispatched, handling>>
    BY <1>3 DEF PostSend, qvars, input
  <2>3. \A i \in DOMAIN calls' :
          calls'[i] = SendCall(m, d) \/ \E j \in DOMAIN calls : calls'[i] = calls[j]
    BY <1>1, <2>1, <2>2, AppendCall
  <2> QED
    BY <1>2, <2>1, <2>2, <2>3 DEF NotStarted, NotFirst
<1>4. ASSUME NEW d \in Timed, PostRecv(d) PROVE NotStarted'
  <2>1. RecvCall(d) \in Call /\ RecvCall(d).op = "recv"
    BY SessionAssumption DEF RecvCall, Call
  <2>2. /\ calls' = Append(calls, RecvCall(d)) /\ ~IsRequest
        /\ UNCHANGED <<accepted, fresh>>
    BY <1>4 DEF PostRecv, qvars
  <2>3. \A i \in DOMAIN calls' :
          calls'[i] = RecvCall(d) \/ \E j \in DOMAIN calls : calls'[i] = calls[j]
    BY <1>1, <2>1, <2>2, AppendCall
  <2> QED
    BY <1>2, <2>1, <2>2, <2>3 DEF NotStarted, NotFirst
<1>5. ASSUME NEW d \in Timed, NEW m \in fresh, HandlerSend(m, d) PROVE NotStarted'
  <2>1. Push(m) /\ m \in Message /\ fresh' = fresh \ {m} /\ calls' = calls /\ handling
    BY <1>1, <1>5 DEF HandlerSend, Send
  <2>2. \A i \in DOMAIN accepted' :
          accepted'[i] = m \/ \E j \in DOMAIN accepted : accepted'[i] = accepted[j]
    BY <1>1, <2>1, PushWhereabouts
  <2>3. ~IsRequest
    BY <2>1 DEF NotStarted
  <2> QED
    BY <1>2, <2>1, <2>2, <2>3 DEF NotStarted, NotFirst
<1>6. CASE HandlerClose
  BY <1>2, <1>6 DEF HandlerClose, NotStarted, NotFirst, user, input, qvars
<1>7. CASE HandlerReturn
  BY <1>2, <1>7 DEF HandlerReturn, NotStarted, NotFirst, input, qvars
<1>8. CASE DropContext
  BY <1>2, <1>8 DEF DropContext, NotStarted, NotFirst, input, qvars
<1>9. ASSUME NEW d \in Timed, HandlerRecv(d) PROVE NotStarted'
  BY <1>2, <1>9 DEF HandlerRecv, Recv, NotStarted, NotFirst, qvars
<1> QED
  BY <1>3, <1>4, <1>5, <1>6, <1>7, <1>8, <1>9 DEF UserStep

LEMMA NotStartedStep == TlsInv /\ NotStarted /\ [TlsNext]_tvars => NotStarted'
<1> SUFFICES ASSUME TlsInv, NotStarted, [TlsNext]_tvars PROVE NotStarted'
  OBVIOUS
<1>1. CASE shake = "done"
  <2>1. shake' = "done"
    BY <1>1 DEF TlsNext, TlsStrandStep, DoHandshake, OnHandshake, OnHandshakeError, TlsUserStep,
                TlsDestroy, HandshakeEnds, TlsReadEnds, Plain, TlsWriteFails, Unshaken, tvars
  <2> QED
    BY <2>1 DEF NotStarted
<1>2. CASE shake # "done" /\ shake' # "done"
  <2>1. CASE (RunRecv \/ RunSend) /\ Unshaken
    BY <1>2, <2>1, RunCallNotStarted
  <2>2. CASE UserStep /\ Unshaken
    BY <1>2, <2>2, UserNotStarted
  <2>3. CASE (OnReadEof \/ OnReadDispatch) /\ Unshaken
    BY <1>2, <2>3 DEF OnReadEof, OnReadDispatch, Unshaken, NotStarted, NotFirst, user, qvars
  <2>4. CASE TlsReadEnds
    BY <1>2, <2>4 DEF TlsReadEnds, session, user, NotStarted, NotFirst, qvars
  <2>5. CASE UNCHANGED <<fresh, calls, accepted, read, dispatched, handling, first>>
    BY <1>2, <2>5 DEF NotStarted, NotFirst
  <2> QED
    BY <1>2, <2>1, <2>2, <2>3, <2>4, <2>5
    DEF TlsNext, TlsStrandStep, StrandStep, DoHandshake, OnHandshake, OnHandshakeError,
        TlsUserStep, TlsDestroy, Destroy, HandshakeEnds, Plain, TlsWriteFails, Unshaken, tvars,
        vars, session, user, input, qvars, DropContext, UserStep, OnWrite, PopAndHandle,
        Abandon, OnTimer, PeerCloses, Tick, WaitExpires, WriteEnds
<1> QED
  BY <1>1, <1>2 DEF NotStarted

\* What was to follow the handshake does not follow one that failed: no
\* handler runs for the peer of a server, no request leaves a client
\* (session.ipp:255-258).
THEOREM TlsFailedHandshakeStartsNothing == TlsSpec => []FailedHandshakeStartsNothing
<1>1. TlsInit => NotStarted
  <2> SUFFICES ASSUME TlsInit PROVE NotStarted
    OBVIOUS
  <2>1. PICK d \in Timed, m \in Message :
          ~IsRequest => first = SendCall(m, d) /\ fresh = Message \ {m}
    BY DEF TlsInit
  <2>2. ~IsRequest => first.msg = m
    BY <2>1 DEF SendCall
  <2>3. DOMAIN calls = {} /\ DOMAIN accepted = {}
    BY DEF TlsInit, InitContext, NewImpl, QInit
  <2> QED
    BY <2>1, <2>2, <2>3 DEF TlsInit, InitContext, NewImpl, NotStarted, NotFirst
<1>2. NotStarted => FailedHandshakeStartsNothing
  BY DEF NotStarted, NotFirst, FailedHandshakeStartsNothing
<1> QED
  BY <1>1, <1>2, NotStartedStep, TlsInvariant, PTL DEF TlsSpec

-----------------------------------------------------------------------------
(* What is proved of a plain session's parts *)

\* What TlsInv says of timer, connection, parser and queue: a wait has an
\* operation to cut short, a shutdown has a cause, a message is dispatched
\* once, and a queued message has a write that will go on to it
\* (session.ipp:170, 184-195 and 227).
THEOREM TlsSessionParts ==
  TlsSpec => [](NoIdleTimer /\ ShutdownHasCause /\ WholeDispatchedOnce /\ NoLostWakeup)
<1>1. TlsInv => NoIdleTimer /\ ShutdownHasCause /\ WholeDispatchedOnce /\ NoLostWakeup
  BY QInvNoLostWakeup DEF TlsInv, SInv
<1> QED
  BY <1>1, TlsInvariant, PTL

\* A first message is not yet on the wire while its handshake goes on, and
\* what follows it goes through the queue of a plain session.
LEMMA TlsWireInvStep == TlsInv /\ WireInv /\ [TlsNext]_tvars => WireInv'
<1> SUFFICES ASSUME TlsInv, WireInv, [TlsNext]_tvars PROVE WireInv'
  OBVIOUS
<1>1. SInv /\ QInv /\ first \in Call
  BY DEF TlsInv, SInv
<1>2. CASE [Next]_vars
  BY <1>1, <1>2, WireInvStep
<1>3. CASE OnHandshake
  BY <1>1, <1>3, FirstCallTypes, PushWire
     DEF OnHandshake, FirstCall, qvars, WireInv, HaltOnlyOnClose
<1>4. CASE OnHandshakeError \/ TlsReadEnds
  BY <1>4 DEF OnHandshakeError, TlsReadEnds, qvars, WireInv, HaltOnlyOnClose
<1>5. ASSUME NEW w \in writes, TlsWriteFails(w) PROVE WireInv'
  BY <1>1, <1>5, WriteEndsWire DEF TlsWriteFails, WriteResult
<1> QED
  BY <1>2, <1>3, <1>4, <1>5, PlainOrTls DEF TlsOnly

\* Over TLS too, a failed write stops the queue only of a user who is told
\* (session.ipp:234).
THEOREM TlsHaltsOnlyOnClose == TlsSpec => []HaltOnlyOnClose
<1>1. TlsInit => WireInv
  BY DEF TlsInit, InitContext, NewImpl, QInit, WireInv, HaltOnlyOnClose
<1>2. WireInv => HaltOnlyOnClose
  BY DEF WireInv
<1> QED
  BY <1>1, <1>2, TlsWireInvStep, TlsInvariant, PTL DEF TlsSpec

LEMMA TlsToldInvStep == TlsInv /\ ToldInv /\ [TlsNext]_tvars => ToldInv'
<1> SUFFICES ASSUME TlsInv, ToldInv, [TlsNext]_tvars PROVE ToldInv'
  OBVIOUS
<1>1. SInv
  BY DEF TlsInv
<1>2. CASE [Next]_vars
  BY <1>1, <1>2, ToldInvStep
<1>3. CASE OnHandshake
  BY <1>3 DEF OnHandshake, FirstCall, link, input, ToldInv, FailedReadIsTold
<1>4. CASE OnHandshakeError
  <2>1. errors \subseteq errors'
    BY <1>1, <1>4, ReportType DEF OnHandshakeError, SInv, TypeOK, Kinds
  <2> QED
    BY <1>4, <2>1 DEF OnHandshakeError, input, ToldInv, FailedReadIsTold
<1>5. CASE TlsReadEnds
  BY <1>5 DEF TlsReadEnds, ReadDone, TlsReadEof, ReadFails, Truncated, session, link, ToldInv,
              FailedReadIsTold
<1>6. ASSUME NEW w \in writes, TlsWriteFails(w) PROVE ToldInv'
  BY <1>6 DEF TlsWriteFails, session, link, input, ToldInv, FailedReadIsTold
<1> QED
  BY <1>2, <1>3, <1>4, <1>5, <1>6, PlainOrTls DEF TlsOnly

\* The user is told of a TLS read that failed before a handler is run for what
\* it left (session.ipp:177-181).
THEOREM TlsFailedReadIsTold == TlsSpec => []FailedReadIsTold
<1>1. TlsInit => ToldInv
  BY DEF TlsInit, InitContext, NewImpl, ToldInv, FailedReadIsTold
<1>2. ToldInv => FailedReadIsTold
  BY DEF ToldInv
<1> QED
  BY <1>1, <1>2, TlsToldInvStep, TlsInvariant, PTL DEF TlsSpec

-----------------------------------------------------------------------------
(* What is left at the end *)

\* The first message of a client is with func until the handshake succeeds.
WithFunc(m) == ~IsRequest /\ shake # "done" /\ m = first.msg

TlsLiveInv ==
  /\ \A m \in Message : Whereabouts(m) \/ WithFunc(m)
  /\ IsRequest <=> first.op = "recv"
  /\ ~alive => Quiet

\* Nothing happens to an impl that is gone.
LEMMA TlsDeadIsQuiet ==
  ASSUME TlsInv, ~alive, Quiet, TlsNext
  PROVE  FALSE
<1>1. SInv /\ Over
  BY DEF TlsInv
<1>2. ~Next
  BY <1>1, DeadIsQuiet
<1>3. ~TlsOnly /\ ~DoHandshake /\ ~HandshakeEnds
  BY <1>1 DEF TlsOnly, OnHandshake, OnHandshakeError, TlsReadEnds, TlsWriteFails, DoHandshake,
              HandshakeEnds, Over, Quiet
<1> QED
  BY <1>2, <1>3 DEF TlsNext, TlsStrandStep, TlsUserStep, TlsDestroy, Plain, TlsOnly, Next,
                    UserStep, EnvStep

LEMMA TlsWhereaboutsStep ==
  ASSUME TlsInv, TlsLiveInv, TlsNext, NEW m \in Message
  PROVE  (Whereabouts(m) \/ WithFunc(m))'
<1>1. SInv /\ first \in Call /\ accepted \in Seq(Message)
  BY DEF TlsInv, SInv, QInv, QTypeOK
<1>2. CASE OnHandshake
  <2>1. UNCHANGED <<fresh, calls, first>> /\ shake' = "done"
    BY <1>2 DEF OnHandshake, user
  <2>2. CASE IsRequest
    <3>1. UNCHANGED accepted
      BY <1>2, <2>2 DEF OnHandshake, FirstCall, TlsLiveInv, qvars
    <3> QED
      BY <2>1, <2>2, <3>1 DEF TlsLiveInv, Whereabouts, WithFunc
  <2>3. CASE ~IsRequest
    <3>1. first.msg \in Message /\ Push(first.msg)
      BY <1>1, <1>2, <2>3, FirstCallTypes DEF OnHandshake, FirstCall, TlsLiveInv
    <3>2. /\ \E i \in DOMAIN accepted' : accepted'[i] = first.msg
          /\ \A j \in DOMAIN accepted : \E i \in DOMAIN accepted' : accepted'[i] = accepted[j]
      BY <1>1, <3>1, PushWhereabouts
    <3> QED
      BY <2>1, <2>3, <3>2 DEF TlsLiveInv, Whereabouts, WithFunc
  <2> QED
    BY <2>2, <2>3
<1>3. CASE ~OnHandshake
  <2>1. first' = first /\ (shake # "done" => shake' # "done")
    BY <1>3 DEF TlsNext, TlsStrandStep, DoHandshake, OnHandshakeError, TlsUserStep,
                TlsDestroy, HandshakeEnds, TlsReadEnds, Plain, TlsWriteFails, Unshaken
  <2>2. WithFunc(m) => WithFunc(m)'
    BY <2>1 DEF WithFunc
  <2>3. ASSUME Whereabouts(m) PROVE Whereabouts(m)'
    <3>1. CASE Next
      BY <1>1, <2>3, <3>1, WhereaboutsStep
    <3>2. CASE UNCHANGED <<fresh, calls, accepted>>
      BY <2>3, <3>2 DEF Whereabouts
    <3>3. CASE TlsOnly \/ UNCHANGED vars
      BY <1>3, <3>2, <3>3 DEF TlsOnly, OnHandshakeError, TlsReadEnds, TlsWriteFails, WriteEnds,
                              vars, user, session, qvars
    <3> QED
      BY <3>1, <3>3, PlainOrTls
  <2> QED
    BY <2>2, <2>3 DEF TlsLiveInv
<1> QED
  BY <1>2, <1>3

LEMMA TlsLiveInvStep == TlsInv /\ TlsLiveInv /\ [TlsNext]_tvars => TlsLiveInv'
<1> SUFFICES ASSUME TlsInv, TlsLiveInv, [TlsNext]_tvars PROVE TlsLiveInv'
  OBVIOUS
<1>1. CASE UNCHANGED tvars
  BY <1>1 DEF tvars, vars, TlsLiveInv, WithFunc, Whereabouts, Quiet, qvars, input, link, clock, user
<1>2. CASE TlsNext
  <2>1. alive
    BY <1>2, TlsDeadIsQuiet DEF TlsLiveInv
  <2>2. first' = first
    BY <1>2 DEF TlsNext, TlsStrandStep, DoHandshake, OnHandshake, OnHandshakeError, TlsUserStep,
                TlsDestroy, HandshakeEnds, TlsReadEnds, Plain, TlsWriteFails, Unshaken
  <2>3. ~alive' => Quiet'
    <3>1. CASE TlsDestroy
      BY <3>1 DEF TlsDestroy, Quiet, Destroy, qvars, input, clock, user
    <3>2. CASE ~TlsDestroy
      BY <1>2, <2>1, <3>2, TlsAliveKept
    <3> QED
      BY <3>1, <3>2
  <2> QED
    BY <1>2, <2>2, <2>3, TlsWhereaboutsStep DEF TlsLiveInv
<1> QED
  BY <1>1, <1>2

LEMMA TlsInitLiveInv == TlsInit => TlsLiveInv
<1> SUFFICES ASSUME TlsInit PROVE TlsLiveInv
  OBVIOUS
<1>1. PICK d \in Timed, m \in Message :
        IF IsRequest THEN first = RecvCall(d) /\ fresh = Message
        ELSE first = SendCall(m, d) /\ fresh = Message \ {m}
  BY DEF TlsInit
<1>2. IsRequest <=> first.op = "recv"
  BY <1>1 DEF RecvCall, SendCall
<1>3. ~IsRequest => first.msg = m
  BY <1>1 DEF SendCall
<1> QED
  BY <1>1, <1>2, <1>3 DEF TlsInit, InitContext, NewImpl, TlsLiveInv, Whereabouts, WithFunc

\* The impl of a TLS session outlives its work, the request of a client whose
\* handshake failed excepted: the handler of the handshake, the calls behind it
\* and each operation own it (session.ipp:132, 162, 217 and 252).
THEOREM TlsSessionDiesIdle == TlsSpec => []TlsDiesIdle
<1>1. TlsInv /\ TlsLiveInv => TlsDiesIdle
  <2> SUFFICES ASSUME TlsInv, TlsLiveInv, ~alive PROVE TlsDiesIdle
    BY DEF TlsDiesIdle
  <2>1. Quiet /\ SInv /\ Over
    BY DEF TlsLiveInv, TlsInv
  <2>2. wire = accepted \/ halted
    BY <2>1, QuietQueue
  <2>3. accepted \in Seq(Message) /\ fresh \subseteq Message /\ first \in Call
    BY DEF TlsInv, SInv, QInv, QTypeOK, TypeOK
  <2>4. \A i \in DOMAIN accepted : accepted[i] \in Message
    BY <2>3
  <2>5. DOMAIN calls = {}
    BY <2>1 DEF Quiet
  <2>6. \A m \in Message : \/ m \in fresh
                           \/ \E i \in DOMAIN accepted : accepted[i] = m
                           \/ ~IsRequest /\ shake = "failed" /\ m = first.msg
    BY <2>1, <2>5 DEF TlsLiveInv, Whereabouts, WithFunc, Over
  <2>7. ~IsRequest => first.msg \in Message
    BY <2>3, FirstCallTypes DEF TlsLiveInv
  <2>8. fresh \cup {accepted[i] : i \in DOMAIN accepted}
              \cup (IF shake = "failed" /\ ~IsRequest THEN {first.msg} ELSE {}) = Message
    BY <2>3, <2>4, <2>6, <2>7
  <2> QED
    BY <2>1, <2>2, <2>8 DEF TlsDiesIdle, Quiet
<1> QED
  BY <1>1, TlsInitLiveInv, TlsLiveInvStep, TlsInvariant, PTL DEF TlsSpec

\* Nothing happens to the impl of a TLS session that was destroyed
\* (session.ipp:132, 162, 217 and 252).
THEOREM TlsNothingAfterDeath == TlsSpec => NothingAfterDeath
<1>1. TlsInv /\ TlsLiveInv /\ [TlsNext]_tvars => [alive]_vars
  BY TlsDeadIsQuiet DEF TlsLiveInv, tvars
<1> QED
  BY <1>1, TlsInitLiveInv, TlsLiveInvStep, TlsInvariant, PTL DEF TlsSpec, NothingAfterDeath

-----------------------------------------------------------------------------
(* Deadlines: a user who waits for the handshake, and for each operation *)

\* Before the handshake is over nothing was begun.
UnshakenIdle ==
  ~Over => /\ calls = <<>> /\ read = "none" /\ writes = {} /\ ~handling
           /\ deadlines = {}

LEMMA UnshakenIdleStep ==
  ASSUME ~Overlap, TlsInv, UnshakenIdle, [TlsNext]_tvars
  PROVE  UnshakenIdle'
<1>1. CASE Over \/ OnHandshake \/ OnHandshakeError
  <2>1. Over'
    BY <1>1 DEF TlsNext, TlsStrandStep, DoHandshake, OnHandshake, OnHandshakeError, TlsUserStep,
                TlsDestroy, HandshakeEnds, TlsReadEnds, Plain, TlsWriteFails, Unshaken, Over, tvars
  <2> QED
    BY <2>1 DEF UnshakenIdle
<1>2. CASE ~Over /\ ~OnHandshake /\ ~OnHandshakeError
  <2>1. calls = <<>> /\ read = "none" /\ writes = {} /\ ~handling /\ deadlines = {}
    BY <1>2 DEF UnshakenIdle
  <2>2. \/ OnTimer \/ DropContext \/ Tick \/ WaitExpires
        \/ \E how \in {"eof", "reset"} : PeerCloses(how)
        \/ UNCHANGED vars
    BY <1>2, <2>1
    DEF TlsNext, TlsStrandStep, StrandStep, RunRecv, RunSend, OnReadEof, OnReadDispatch,
        DoHandshake, TlsUserStep, TlsDestroy, HandshakeEnds, TlsReadEnds, Plain, TlsWriteFails,
        Over, tvars
  <2>3. UNCHANGED <<calls, read, writes, handling, deadlines>>
    BY <2>2 DEF OnTimer, DropContext, Tick, WaitExpires, PeerCloses, vars, session, qvars, input,
                user, clock
  <2> QED
    BY <2>1, <2>3 DEF UnshakenIdle
<1> QED
  BY <1>1, <1>2

LEMMA OnHandshakeWatched ==
  ASSUME TlsInv, DeadlineInv, UnshakenIdle, OnHandshake
  PROVE  DeadlineInv'
<1>1. /\ SInv /\ first \in Call /\ timer \in TimerState
      /\ calls' = <<>> /\ read = "none" /\ writes = {}
  BY DEF TlsInv, SInv, TypeOK, UnshakenIdle, OnHandshake, Over
<1>2. \/ deadlines' = deadlines \cup {FirstOp} /\ timer'.waiting
      \/ deadlines' = deadlines
  <2>1. Cancel(timer) \in TimerState
    BY <1>1, TimerTypes
  <2>2. AsyncWait(ExpiresFromNow(Cancel(timer))).waiting
    BY <2>1, TimerArmed
  <2> QED
    BY <2>2 DEF OnHandshake
<1>3. CASE first.op = "recv"
  <2>1. read' = "pending" /\ UNCHANGED qvars /\ FirstOp = "read"
    BY <1>3 DEF OnHandshake, FirstCall, FirstOp
  <2> QED
    BY <1>1, <1>2, <2>1, BeginRead
<1>4. CASE first.op # "recv"
  <2>1. /\ Push(first.msg) /\ read' = read /\ FirstOp = first.msg
        /\ first.msg \in Message
    BY <1>1, <1>4, FirstCallTypes DEF OnHandshake, FirstCall, FirstOp, input
  <2> QED
    BY <1>1, <1>2, <2>1, BeginWrite
<1> QED
  BY <1>3, <1>4

LEMMA TlsDeadlineInvStep ==
  ASSUME ~Overlap
  PROVE  TlsInv /\ DeadlineInv /\ UnshakenIdle /\ [TlsNext]_tvars
           => DeadlineInv' /\ UnshakenIdle'
<1> SUFFICES ASSUME TlsInv, DeadlineInv, UnshakenIdle, [TlsNext]_tvars
             PROVE  DeadlineInv' /\ UnshakenIdle'
  OBVIOUS
<1>1. SInv
  BY DEF TlsInv
<1>2. CASE [Next]_vars
  BY <1>1, <1>2, DeadlineInvStep, UnshakenIdleStep
<1>3. CASE OnHandshake
  BY <1>3, OnHandshakeWatched, UnshakenIdleStep
<1>4. CASE OnHandshakeError
  <2>1. /\ UNCHANGED <<qvars, read, calls, deadlines>>
        /\ read = "none" /\ writes = {}
    BY <1>4 DEF OnHandshakeError, input, UnshakenIdle, Over
  <2>2. Outstanding' = {}
    BY <2>1 DEF Outstanding, qvars
  <2>3. DeadlineInv'
    BY <2>1, <2>2 DEF DeadlineInv, OneAtATime, DeadlinesOutstanding, DeadlineWatched, qvars
  <2> QED
    BY <2>3, UnshakenIdleStep
<1>5. CASE TlsReadEnds
  <2>1. /\ read = "pending" /\ read' \in {"ok", "end_of_stream", "error"}
        /\ UNCHANGED <<qvars, clock, session>>
    BY <1>5 DEF TlsReadEnds, ReadDone, TlsReadEof, ReadFails, Truncated
  <2>2. Outstanding' \subseteq Outstanding
    BY <2>1 DEF Outstanding, qvars
  <2>3. DeadlineInv'
    BY <2>1, <2>2 DEF DeadlineInv, OneAtATime, DeadlinesOutstanding, DeadlineWatched, qvars,
                      clock, session, link
  <2> QED
    BY <2>3, UnshakenIdleStep
<1>6. ASSUME NEW w \in writes, TlsWriteFails(w) PROVE DeadlineInv' /\ UnshakenIdle'
  BY <1>1, <1>6, WriteEndsWatched, UnshakenIdleStep
     DEF TlsWriteFails, WriteResult, session, link, input
<1> QED
  BY <1>2, <1>3, <1>4, <1>5, <1>6, PlainOrTls DEF TlsOnly

\* Over TLS the deadline of an operation is kept as well, that of the first
\* one included, which the handshake's own cancel() might have taken away
\* (session.ipp:254 and 282).
THEOREM TlsKeepsDeadlines ==
  ASSUME ~Overlap
  PROVE  TlsSpec => []DeadlineWatched
<1>1. TlsInit => DeadlineInv /\ UnshakenIdle
  <2> SUFFICES ASSUME TlsInit PROVE DeadlineInv /\ UnshakenIdle
    OBVIOUS
  <2>1. /\ m_items = <<>> /\ writes = {} /\ read = "none" /\ deadlines = {} /\ calls = <<>>
        /\ ~handling
    BY DEF TlsInit, InitContext, NewImpl, QInit
  <2>2. Len(m_items) = 0 /\ Len(calls) = 0
    BY <2>1, EmptySeq
  <2> QED
    BY <2>1, <2>2 DEF DeadlineInv, OneAtATime, DeadlinesOutstanding, DeadlineWatched, UnshakenIdle
<1>2. TlsInv /\ DeadlineInv /\ UnshakenIdle /\ [TlsNext]_tvars => DeadlineInv' /\ UnshakenIdle'
  BY TlsDeadlineInvStep
<1>3. DeadlineInv => DeadlineWatched
  BY DEF DeadlineInv
<1> QED
  BY <1>1, <1>2, <1>3, TlsInvariant, PTL DEF TlsSpec
=============================================================================
