-------------------------- MODULE SessionEndProofs --------------------------
(***************************************************************************)
(* How a session ends: what halts its queue, what is left when its last    *)
(* owner has gone, and that a deadline set for an operation is kept.       *)
(***************************************************************************)
EXTENDS SessionProofs

LEMMA LastOfAppend ==
  ASSUME NEW S, NEW u \in Seq(S), NEW x \in S
  PROVE  Append(u, x) # <<>> /\ Append(u, x)[Len(Append(u, x))] = x
<1>1. Len(Append(u, x)) = Len(u) + 1 /\ Append(u, x)[Len(u) + 1] = x /\ Len(u) \in Nat
  BY AppendProperties, LenProperties
<1> QED
  BY <1>1

LEMMA InAppend ==
  ASSUME NEW S, NEW u \in Seq(S), NEW x \in S
  PROVE  /\ \E i \in DOMAIN Append(u, x) : Append(u, x)[i] = x
         /\ \A j \in DOMAIN u : \E i \in DOMAIN Append(u, x) : Append(u, x)[i] = u[j]
         /\ \A i \in DOMAIN Append(u, x) :
              Append(u, x)[i] = x \/ \E j \in DOMAIN u : Append(u, x)[i] = u[j]
<1>1. /\ Len(u) \in Nat /\ DOMAIN u = 1 .. Len(u)
      /\ DOMAIN Append(u, x) = 1 .. (Len(u) + 1)
      /\ Append(u, x)[Len(u) + 1] = x
      /\ \A j \in 1 .. Len(u) : Append(u, x)[j] = u[j]
  BY AppendProperties, LenProperties
<1> QED
  BY <1>1

LEMMA InTail ==
  ASSUME NEW S, NEW u \in Seq(S), u # <<>>
  PROVE  /\ \A j \in DOMAIN u : u[j] = Head(u) \/ \E i \in DOMAIN Tail(u) : Tail(u)[i] = u[j]
         /\ \A i \in DOMAIN Tail(u) : \E j \in DOMAIN u : Tail(u)[i] = u[j]
         /\ \E j \in DOMAIN u : Head(u) = u[j]
<1>1. /\ Len(u) \in Nat \ {0} /\ DOMAIN u = 1 .. Len(u)
      /\ Head(u) = u[1] /\ Tail(u) \in Seq(S) /\ Len(Tail(u)) = Len(u) - 1
      /\ \A i \in 1 .. Len(Tail(u)) : Tail(u)[i] = u[i + 1]
  BY HeadTailProperties, EmptySeq, LenProperties
<1>2. DOMAIN Tail(u) = 1 .. (Len(u) - 1)
  BY <1>1, LenProperties
<1>3. ASSUME NEW j \in DOMAIN u, j # 1
      PROVE  \E i \in DOMAIN Tail(u) : Tail(u)[i] = u[j]
  <2>1. j - 1 \in 1 .. (Len(u) - 1) /\ (j - 1) + 1 = j
    BY <1>1, <1>3
  <2>2. Tail(u)[j - 1] = u[j]
    BY <1>1, <2>1
  <2> QED
    BY <1>2, <2>1, <2>2
<1>4. \A i \in 1 .. (Len(u) - 1) : i + 1 \in 1 .. Len(u)
  BY <1>1
<1>5. 1 \in 1 .. Len(u)
  BY <1>1
<1> QED
  BY <1>1, <1>2, <1>3, <1>4, <1>5

-----------------------------------------------------------------------------
(* What halts the queue *)

\* A write that is outstanding is that of the last message on the wire.
WireInv ==
  /\ \A w \in writes : wire # <<>> /\ wire[Len(wire)] = w.msg
  /\ \A w \in writes : w.res = "end_of_stream" => w.msg \in NeedEof
  /\ HaltOnlyOnClose

LEMMA PushWire ==
  ASSUME QInv, WireInv, NEW m \in Message, Push(m)
  PROVE  WireInv'
<1>1. /\ m_items \in Seq(Message) /\ wire \in Seq(Message)
      /\ Len(m_items) \in Nat /\ Len(m_items') = Len(m_items) + 1
  <2>1. m_items \in Seq(Message) /\ wire \in Seq(Message) /\ m_items' = Append(m_items, m)
    BY DEF QInv, QTypeOK, Push
  <2> QED
    BY <2>1, AppendProperties, LenProperties
<1>2. CASE Len(m_items') = 1
  <2>1. m_items = <<>>
    <3>1. Len(m_items) = 0
      <4> DEFINE n == Len(m_items)
      <4>1. n \in Nat /\ n + 1 = 1
        BY <1>1, <1>2
      <4> HIDE DEF n
      <4>2. n = 0
        BY <4>1
      <4> QED
        BY <4>2 DEF n
    <3> QED
      BY <1>1, <3>1, EmptySeq
  <2>2. writes = {} /\ ~halted
    BY <2>1 DEF QInv, Idle, Dead, Writing
  <2>3. /\ writes' = {[msg |-> m, res |-> "pending"]}
        /\ wire' = Append(wire, m) /\ ~halted'
    <3>1. Head(m_items') = m
      BY <2>1 DEF Push
    <3> QED
      BY <1>2, <2>2, <3>1 DEF Push, DoHandle, DoWrite
  <2>4. wire' # <<>> /\ wire'[Len(wire')] = m
    BY <1>1, <2>3, LastOfAppend
  <2> QED
    BY <2>3, <2>4 DEF WireInv, HaltOnlyOnClose
<1>3. CASE Len(m_items') # 1
  BY <1>3 DEF Push, WireInv, HaltOnlyOnClose
<1> QED
  BY <1>2, <1>3

LEMMA WriteEndsWire ==
  ASSUME QInv, WireInv, NEW w \in writes, NEW r \in WriteResult, WriteEnds(w, r),
         r = "end_of_stream" => w.msg \in NeedEof
  PROVE  WireInv'
<1>1. w \in Write
  BY DEF QInv, QTypeOK
<1>2. [w EXCEPT !.res = r].msg = w.msg /\ [w EXCEPT !.res = r].res = r
  BY <1>1 DEF Write
<1> QED
  BY <1>2 DEF WriteEnds, WireInv, HaltOnlyOnClose

LEMMA OnWriteWire ==
  ASSUME QInv, WireInv, NEW w \in writes, OnWrite(w)
  PROVE  WireInv'
<1>1. /\ writes = {w} /\ m_items # <<>> /\ ~halted /\ wire \in Seq(Message)
  BY DEF QInv, Idle, Dead, Writing, QTypeOK
<1>2. wire # <<>> /\ wire[Len(wire)] = w.msg
  BY DEF WireInv
<1>3. CASE Abandon(w)
  <2>1. writes' = {} /\ wire' = wire
    BY <1>1, <1>3 DEF Abandon
  <2>2. HasOnError \/ w.msg \in NeedEof
    <3>1. CASE w.res = "end_of_stream"
      BY <3>1 DEF WireInv
    <3>2. CASE w.msg \notin NeedEof /\ PopAndHandle(w)
      BY <1>1, <1>3, <3>2 DEF PopAndHandle, Abandon
    <3> QED
      BY <3>1, <3>2 DEF OnWrite
  <2> QED
    BY <1>2, <2>1, <2>2 DEF WireInv, HaltOnlyOnClose
<1>4. CASE PopAndHandle(w)
  <2>1. CASE Len(m_items') > 0
    <3>1. /\ writes' = {[msg |-> Head(m_items'), res |-> "pending"]}
          /\ wire' = Append(wire, Head(m_items')) /\ ~halted'
      BY <1>1, <1>4, <2>1 DEF PopAndHandle, DoHandle, DoWrite
    <3>2. Head(m_items') \in Message
      <4>1. m_items \in Seq(Message) /\ m_items' = Tail(m_items)
        BY <1>4 DEF PopAndHandle, QInv, QTypeOK
      <4>2. m_items' \in Seq(Message)
        BY <1>1, <4>1, HeadTailProperties
      <4>3. m_items' # <<>>
        BY <2>1, EmptySeq
      <4> QED
        BY <4>2, <4>3, HeadTailProperties
    <3>3. wire' # <<>> /\ wire'[Len(wire')] = Head(m_items')
      BY <1>1, <3>1, <3>2, LastOfAppend
    <3> QED
      BY <3>1, <3>3 DEF WireInv, HaltOnlyOnClose
  <2>2. CASE ~(Len(m_items') > 0)
    BY <1>1, <1>4, <2>2 DEF PopAndHandle, WireInv, HaltOnlyOnClose
  <2> QED
    BY <2>1, <2>2
<1> QED
  BY <1>3, <1>4 DEF OnWrite

LEMMA WireInvStep == SInv /\ WireInv /\ [Next]_vars => WireInv'
<1> SUFFICES ASSUME SInv, WireInv, [Next]_vars PROVE WireInv'
  OBVIOUS
<1>1. QInv /\ fresh \subseteq Message
  BY DEF SInv, TypeOK
<1>2. CASE RunSend
  <2>1. Head(calls).msg \in Message
    BY <1>2, HeadCall DEF RunSend, SInv, TypeOK
  <2> QED
    BY <1>1, <1>2, <2>1, PushWire DEF RunSend, Send
<1>3. ASSUME NEW d \in Timed, NEW m \in fresh, HandlerSend(m, d) PROVE WireInv'
  BY <1>1, <1>3, PushWire DEF HandlerSend, Send
<1>4. ASSUME NEW w \in writes, OnWrite(w) PROVE WireInv'
  BY <1>1, <1>4, OnWriteWire
<1>5. ASSUME NEW w \in writes, WriteDone(w) \/ WriteFails(w) PROVE WireInv'
  BY <1>1, <1>5, WriteEndsWire DEF WriteDone, WriteFails, WriteResult
<1>6. CASE UNCHANGED qvars
  BY <1>6 DEF qvars, WireInv, HaltOnlyOnClose
<1> QED
  BY <1>2, <1>3, <1>4, <1>5, <1>6
  DEF Next, StrandStep, UserStep, EnvStep, vars, session, RunRecv, Recv, OnReadEof,
      OnReadDispatch, OnTimer, Destroy, HandlerRecv, PostSend, PostRecv, HandlerClose,
      HandlerReturn, DropContext, PeerSends, PeerCloses, ReadEnds, Tick, WaitExpires

\* Without an on_error callback a failed write does not stop the queue: it is
\* given up only for a message that closes the connection (session.ipp:234).
THEOREM SessionHaltsOnlyOnClose == Spec => []HaltOnlyOnClose
<1>1. Init => WireInv
  BY DEF Init, InitContext, NewImpl, QInit, WireInv, HaltOnlyOnClose
<1>2. WireInv => HaltOnlyOnClose
  BY DEF WireInv
<1> QED
  BY <1>1, <1>2, WireInvStep, SessionInvariant, PTL DEF Spec

-----------------------------------------------------------------------------
(* What is left at the end *)

\* Where the messages are that the user may send: not sent yet, in a call on
\* its way to the strand, or accepted by the queue.
Whereabouts(m) ==
  \/ m \in fresh
  \/ \E i \in DOMAIN calls : calls[i].op = "send" /\ calls[i].msg = m
  \/ \E i \in DOMAIN accepted : accepted[i] = m

Quiet == /\ ~held /\ ~handling
         /\ calls = <<>> /\ read = "none" /\ writes = {} /\ NoWaiter(timer)

LiveInv == /\ \A m \in Message : Whereabouts(m)
           /\ ~alive => Quiet

\* Nothing happens to an impl that is gone.
LEMMA DeadIsQuiet ==
  ASSUME SInv, ~alive, Quiet, Next
  PROVE  FALSE
<1>1. calls = <<>> /\ ~held /\ ~handling /\ read = "none" /\ writes = {}
  BY DEF Quiet
<1>2. ~timer.waiting /\ timer.due.ok = 0 /\ timer.due.aborted = 0
  BY DEF Quiet, NoWaiter
<1>3. ~StrandStep
  <2>1. ~OnTimer
    BY <1>2 DEF OnTimer
  <2> QED
    BY <1>1, <2>1 DEF StrandStep, RunRecv, RunSend, OnReadEof, OnReadDispatch
<1>4. ~UserStep
  BY <1>1 DEF UserStep, HandlerSend, HandlerRecv, HandlerClose, HandlerReturn, PostSend,
              PostRecv, DropContext
<1>5. ~EnvStep
  BY <1>1, <1>2 DEF EnvStep, PeerSends, PeerCloses, ReadEnds, Tick, WaitExpires
<1> QED
  BY <1>3, <1>4, <1>5 DEF Next, Destroy

LEMMA PushWhereabouts ==
  ASSUME accepted \in Seq(Message), NEW m \in Message, Push(m)
  PROVE  /\ \E i \in DOMAIN accepted' : accepted'[i] = m
         /\ \A j \in DOMAIN accepted : \E i \in DOMAIN accepted' : accepted'[i] = accepted[j]
         /\ \A i \in DOMAIN accepted' :
              accepted'[i] = m \/ \E j \in DOMAIN accepted : accepted'[i] = accepted[j]
<1>1. accepted' = Append(accepted, m)
  BY DEF Push
<1> QED
  BY <1>1, InAppend

LEMMA AppendCall ==
  ASSUME calls \in Seq(Call), NEW c \in Call, calls' = Append(calls, c)
  PROVE  /\ \E i \in DOMAIN calls' : calls'[i] = c
         /\ \A j \in DOMAIN calls : \E i \in DOMAIN calls' : calls'[i] = calls[j]
         /\ \A i \in DOMAIN calls' :
              calls'[i] = c \/ \E j \in DOMAIN calls : calls'[i] = calls[j]
  BY InAppend

\* No call is dropped and no message leaves the queue's history.
LEMMA WhereaboutsStep ==
  ASSUME SInv, Next, NEW m \in Message, Whereabouts(m)
  PROVE  Whereabouts(m)'
<1>1. /\ accepted \in Seq(Message) /\ calls \in Seq(Call) /\ fresh \subseteq Message
  BY DEF SInv, QInv, QTypeOK, TypeOK
<1>2. CASE UNCHANGED <<fresh, calls, accepted>>
  BY <1>2 DEF Whereabouts
<1>3. CASE RunRecv \/ RunSend
  <2>1. /\ calls' = Tail(calls) /\ calls # <<>> /\ fresh' = fresh
        /\ \/ Head(calls).op = "recv" /\ accepted' = accepted
           \/ Head(calls).op = "send" /\ Push(Head(calls).msg)
    BY <1>3 DEF RunRecv, RunSend, Recv, Send, user, qvars
  <2>2. \A j \in DOMAIN calls :
          calls[j] = Head(calls) \/ \E i \in DOMAIN calls' : calls'[i] = calls[j]
    BY <1>1, <2>1, InTail
  <2>3. CASE Head(calls).op = "recv" /\ accepted' = accepted
    BY <2>1, <2>2, <2>3 DEF Whereabouts
  <2>4. CASE Head(calls).op = "send" /\ Push(Head(calls).msg)
    <3>1. Head(calls).msg \in Message
      BY <1>1, <2>1, <2>4, HeadCall
    <3>2. /\ \E i \in DOMAIN accepted' : accepted'[i] = Head(calls).msg
          /\ \A j \in DOMAIN accepted : \E i \in DOMAIN accepted' : accepted'[i] = accepted[j]
      BY <1>1, <2>4, <3>1, PushWhereabouts
    <3> QED
      BY <2>1, <2>2, <3>2 DEF Whereabouts
  <2> QED
    BY <2>1, <2>3, <2>4
<1>4. ASSUME NEW d \in Timed, NEW n \in fresh, HandlerSend(n, d) PROVE Whereabouts(m)'
  <2>1. Push(n) /\ n \in Message /\ fresh' = fresh \ {n} /\ calls' = calls
    BY <1>1, <1>4 DEF HandlerSend, Send
  <2>2. /\ \E i \in DOMAIN accepted' : accepted'[i] = n
        /\ \A j \in DOMAIN accepted : \E i \in DOMAIN accepted' : accepted'[i] = accepted[j]
    BY <1>1, <2>1, PushWhereabouts
  <2> QED
    BY <2>1, <2>2 DEF Whereabouts
<1>5. ASSUME NEW d \in Timed, NEW n \in fresh, PostSend(n, d) PROVE Whereabouts(m)'
  <2>1. SendCall(n, d) \in Call /\ SendCall(n, d).op = "send" /\ SendCall(n, d).msg = n
    BY <1>1, SessionAssumption DEF SendCall, Call
  <2>2. /\ calls' = Append(calls, SendCall(n, d))
        /\ fresh' = fresh \ {n} /\ accepted' = accepted
    BY <1>5 DEF PostSend, qvars
  <2>3. /\ \E i \in DOMAIN calls' : calls'[i] = SendCall(n, d)
        /\ \A j \in DOMAIN calls : \E i \in DOMAIN calls' : calls'[i] = calls[j]
    BY <1>1, <2>1, <2>2, AppendCall
  <2> QED
    BY <2>1, <2>2, <2>3 DEF Whereabouts
<1>6. ASSUME NEW d \in Timed, PostRecv(d) PROVE Whereabouts(m)'
  <2>1. RecvCall(d) \in Call
    BY SessionAssumption DEF RecvCall, Call
  <2>2. calls' = Append(calls, RecvCall(d)) /\ fresh' = fresh /\ accepted' = accepted
    BY <1>6 DEF PostRecv, qvars
  <2>3. \A j \in DOMAIN calls : \E i \in DOMAIN calls' : calls'[i] = calls[j]
    BY <1>1, <2>1, <2>2, AppendCall
  <2> QED
    BY <2>2, <2>3 DEF Whereabouts
<1> QED
  BY <1>2, <1>3, <1>4, <1>5, <1>6
  DEF Next, StrandStep, UserStep, EnvStep, session, user, qvars, OnReadEof, OnReadDispatch,
      OnWrite, PopAndHandle, Abandon, OnTimer, Destroy, HandlerRecv, Recv, HandlerClose,
      HandlerReturn, DropContext, PeerSends, PeerCloses, ReadEnds, WriteDone, WriteFails,
      WriteEnds, Tick, WaitExpires

LEMMA LiveInvStep == SInv /\ LiveInv /\ [Next]_vars => LiveInv'
<1> SUFFICES ASSUME SInv, LiveInv, [Next]_vars PROVE LiveInv'
  OBVIOUS
<1>1. CASE UNCHANGED vars
  BY <1>1 DEF vars, LiveInv, Whereabouts, Quiet, qvars, input, link, clock, user
<1>2. CASE Next
  <2>1. alive
    BY <1>2, DeadIsQuiet DEF LiveInv
  <2>2. \A m \in Message : Whereabouts(m)'
    BY <1>2, WhereaboutsStep DEF LiveInv
  <2>3. CASE Destroy
    BY <2>2, <2>3 DEF LiveInv, Quiet, Destroy, qvars, input, clock, user
  <2>4. CASE ~Destroy
    <3>1. alive' = alive
      BY <1>2, <2>4
      DEF Next, StrandStep, UserStep, EnvStep, session, RunRecv, RunSend, OnReadEof,
          OnReadDispatch, OnWrite, OnTimer, HandlerSend, HandlerRecv, HandlerClose,
          HandlerReturn, PostSend, PostRecv, DropContext, PeerSends, PeerCloses, ReadEnds,
          WriteDone, WriteFails, Tick, WaitExpires
    <3> QED
      BY <2>1, <2>2, <3>1 DEF LiveInv
  <2> QED
    BY <2>3, <2>4
<1> QED
  BY <1>1, <1>2

LEMMA InitLiveInv == Init => LiveInv
<1> SUFFICES ASSUME Init PROVE LiveInv
  OBVIOUS
<1>1. alive
  BY DEF Init, InitContext, NewImpl
<1>2. ASSUME NEW m \in Message PROVE Whereabouts(m)
  <2>1. PICK d \in Timed, n \in Message :
          IF IsRequest THEN fresh = Message
          ELSE calls = <<SendCall(n, d)>> /\ fresh = Message \ {n}
    BY DEF Init
  <2>2. CASE IsRequest
    BY <2>1, <2>2 DEF Whereabouts
  <2>3. CASE ~IsRequest
    <3>1. /\ 1 \in DOMAIN <<SendCall(n, d)>> /\ <<SendCall(n, d)>>[1] = SendCall(n, d)
          /\ SendCall(n, d).op = "send" /\ SendCall(n, d).msg = n
      BY DEF SendCall
    <3> QED
      BY <2>1, <2>3, <3>1 DEF Whereabouts
  <2> QED
    BY <2>2, <2>3
<1> QED
  BY <1>1, <1>2 DEF LiveInv

LEMMA QuietQueue ==
  ASSUME SInv, Quiet
  PROVE  wire = accepted \/ halted
<1>1. wire \in Seq(Message) /\ Fifo /\ (Idle \/ Dead)
  BY DEF SInv, QInv, QTypeOK, Writing, Quiet
<1>2. Idle => accepted = wire \o <<>>
  BY <1>1 DEF Idle, Fifo, Behind
<1> QED
  BY <1>1, <1>2, ConcatEmptySeq DEF Dead

\* The impl outlives its work: when its last owner has gone all that was
\* accepted was written or the stream was given up, no wait is due and no call
\* was dropped (session.ipp:132, 162 and 217).
THEOREM SessionDiesIdle == Spec => []DiesIdle
<1>1. SInv /\ LiveInv => DiesIdle
  <2> SUFFICES ASSUME SInv, LiveInv, ~alive PROVE DiesIdle
    BY DEF DiesIdle
  <2>1. Quiet
    BY DEF LiveInv
  <2>2. wire = accepted \/ halted
    BY <2>1, QuietQueue
  <2>3. accepted \in Seq(Message) /\ fresh \subseteq Message
    BY DEF SInv, QInv, QTypeOK, TypeOK
  <2>4. \A i \in DOMAIN accepted : accepted[i] \in Message
    BY <2>3
  <2>5. DOMAIN calls = {}
    BY <2>1 DEF Quiet
  <2>6. \A m \in Message : m \in fresh \/ \E i \in DOMAIN accepted : accepted[i] = m
    BY <2>5 DEF LiveInv, Whereabouts
  <2>7. fresh \cup {accepted[i] : i \in DOMAIN accepted} = Message
    BY <2>3, <2>4, <2>6
  <2> QED
    BY <2>1, <2>2, <2>7 DEF DiesIdle, Quiet
<1> QED
  BY <1>1, InitLiveInv, LiveInvStep, SessionInvariant, PTL DEF Spec

\* Nothing happens to an impl that was destroyed (session.ipp:132, 162, 217).
THEOREM SessionNothingAfterDeath == Spec => NothingAfterDeath
<1>1. SInv /\ LiveInv /\ [Next]_vars => [alive]_vars
  BY DeadIsQuiet DEF LiveInv
<1> QED
  BY <1>1, InitLiveInv, LiveInvStep, SessionInvariant, PTL DEF Spec, NothingAfterDeath

-----------------------------------------------------------------------------
(* What the user is told of a read *)

\* A read ends well only with a whole message in the parser.
ToldInv == /\ read = "ok" => parser.got = "all"
           /\ FailedReadIsTold

LEMMA ErrorsKept ==
  ASSUME SInv, Next
  PROVE  errors \subseteq errors'
<1>1. errors \in SUBSET Kinds /\ socket \in {"open", "shut", "closed"}
  BY DEF SInv, TypeOK, Kinds
<1>2. CASE OnReadEof
  BY <1>1, <1>2, DoEofEffect DEF OnReadEof
<1>3. CASE OnReadDispatch
  BY <1>1, <1>3, ReportType DEF OnReadDispatch, Kinds
<1>4. ASSUME NEW w \in writes, OnWrite(w) PROVE errors \subseteq errors'
  BY <1>1, <1>4, DoEofEffect, ReportType DEF OnWrite, link, Kinds
<1>5. CASE OnTimer
  BY <1>1, <1>5, DoEofEffect, ReportType DEF OnTimer, link, Kinds
<1>6. CASE UNCHANGED errors
  BY <1>6
<1> QED
  BY <1>2, <1>3, <1>4, <1>5, <1>6
  DEF Next, StrandStep, UserStep, EnvStep, RunRecv, RunSend, Recv, Send, Destroy, HandlerSend,
      HandlerRecv, HandlerClose, HandlerReturn, PostSend, PostRecv, DropContext, PeerSends,
      PeerCloses, ReadEnds, WriteDone, WriteFails, Tick, WaitExpires, session, link

LEMMA OnReadDispatchTold ==
  ASSUME SInv, ToldInv, OnReadDispatch
  PROVE  FailedReadIsTold'
<1> DEFINE what == IF parser.released THEN "moved" ELSE parser.got
<1>1. what \in Content \cup {"moved"} /\ dispatched \in Seq(Content \cup {"moved"})
  BY DEF SInv, TypeOK, Content
<1>2. dispatched' = Append(dispatched, what)
  BY DEF OnReadDispatch
<1>3. \A i \in DOMAIN dispatched' :
        dispatched'[i] = what \/ \E j \in DOMAIN dispatched : dispatched'[i] = dispatched[j]
  BY <1>1, <1>2, InAppend
<1>4. errors \subseteq errors' /\ (read = "error" /\ HasOnError => "read" \in errors')
  <2>1. errors \in SUBSET Kinds
    BY DEF SInv, TypeOK, Kinds
  <2> QED
    BY <2>1, ReportType DEF OnReadDispatch, Kinds
<1>5. what \in {"all", "moved"} \/ read = "error"
  BY DEF OnReadDispatch, ToldInv
<1> HIDE DEF what
<1> QED
  BY <1>3, <1>4, <1>5 DEF ToldInv, FailedReadIsTold

LEMMA ToldInvStep == SInv /\ ToldInv /\ [Next]_vars => ToldInv'
<1> SUFFICES ASSUME SInv, ToldInv, [Next]_vars PROVE ToldInv'
  OBVIOUS
<1>1. CASE OnReadDispatch
  BY <1>1, OnReadDispatchTold DEF ToldInv, OnReadDispatch
<1>2. CASE Next /\ ~OnReadDispatch
  <2>1. dispatched' = dispatched
    BY <1>2
    DEF Next, StrandStep, UserStep, EnvStep, RunRecv, RunSend, OnReadEof, OnWrite, OnTimer,
        Destroy, HandlerSend, HandlerRecv, HandlerClose, HandlerReturn, PostSend, PostRecv,
        DropContext, PeerSends, PeerCloses, ReadEnds, WriteDone, WriteFails, Tick, WaitExpires,
        session
  <2>2. FailedReadIsTold'
    BY <1>2, <2>1, ErrorsKept DEF ToldInv, FailedReadIsTold
  <2>3. CASE RunRecv \/ (\E d \in Timed : HandlerRecv(d)) \/ OnReadEof
    BY <2>2, <2>3 DEF ToldInv, RunRecv, HandlerRecv, Recv, DoRead, OnReadEof
  <2>4. CASE ReadEnds
    BY <2>2, <2>4 DEF ToldInv, ReadEnds, ReadDone, ReadEof, ReadFails
  <2>5. ASSUME NEW part \in Content \ {"nothing"}, PeerSends(part) PROVE ToldInv'
    BY <2>2, <2>5 DEF ToldInv, PeerSends
  <2>6. CASE UNCHANGED input
    BY <2>2, <2>6 DEF ToldInv, input
  <2> QED
    BY <1>2, <2>3, <2>4, <2>5, <2>6
    DEF Next, StrandStep, UserStep, EnvStep, RunSend, Send, OnWrite, OnTimer, Destroy,
        HandlerSend, HandlerClose, HandlerReturn, PostSend, PostRecv, DropContext, PeerCloses,
        WriteDone, WriteFails, Tick, WaitExpires, input
<1>3. CASE UNCHANGED vars
  BY <1>3 DEF vars, input, link, ToldInv, FailedReadIsTold
<1> QED
  BY <1>1, <1>2, <1>3

\* A handler that is run for what is no message comes after the report of the
\* read that failed, if the user can be told (session.ipp:177-181).
THEOREM SessionFailedReadIsTold == Spec => []FailedReadIsTold
<1>1. Init => ToldInv
  BY DEF Init, InitContext, NewImpl, ToldInv, FailedReadIsTold
<1>2. ToldInv => FailedReadIsTold
  BY DEF ToldInv
<1> QED
  BY <1>1, <1>2, ToldInvStep, SessionInvariant, PTL DEF Spec

-----------------------------------------------------------------------------
(* Deadlines: a user who waits for each operation before the next *)

\* One operation at a time: a call on its way to the strand, a read, or the
\* write of the only message that is queued.
OneAtATime ==
  /\ Len(calls) <= 1
  /\ calls # <<>> => read = "none" /\ writes = {}
  /\ read # "none" => writes = {}
  /\ Len(m_items) <= 1 \/ halted

\* A deadline belongs to an operation that has not ended, or to a message that
\* a halted queue keeps.
DeadlinesOutstanding ==
  \A op \in deadlines :
    IF op = "read" THEN read # "none" ELSE halted \/ \E w \in writes : w.msg = op

DeadlineInv == OneAtATime /\ DeadlinesOutstanding /\ DeadlineWatched

\* A timer that do_timer() armed, and what leaves a wait as it is.
LEMMA TimerArmed ==
  ASSUME NEW t \in TimerState
  PROVE  /\ AsyncWait(ExpiresFromNow(t)).waiting
         /\ Elapsed(t).waiting = t.waiting
         /\ t.waiting => Fired(t).due.ok > 0 /\ Fired(t).expiry = t.expiry
<1>1. ExpiresFromNow(t) \in TimerState
  BY TimerTypes
<1>2. AsyncWait(ExpiresFromNow(t)).waiting
  BY <1>1 DEF TimerState, AsyncWait
<1> QED
  BY <1>2 DEF TimerState, Elapsed, Fired

\* The two ways to begin an operation when nothing is outstanding.
LEMMA BeginRead ==
  ASSUME SInv, DeadlineInv, read = "none", writes = {},
         calls' = <<>>, read' = "pending", UNCHANGED qvars,
         \/ deadlines' = deadlines \cup {"read"} /\ timer'.waiting
         \/ deadlines' = deadlines
  PROVE  DeadlineInv'
<1>1. Len(calls') = 0
  BY EmptySeq
<1>2. OneAtATime' /\ DeadlinesOutstanding'
  BY <1>1 DEF DeadlineInv, OneAtATime, DeadlinesOutstanding, qvars
<1>3. "read" \notin deadlines
  BY DEF DeadlineInv, DeadlinesOutstanding
<1>4. Outstanding' \subseteq {"read"}
  BY DEF Outstanding, qvars
<1>5. DeadlineWatched'
  BY <1>3, <1>4 DEF DeadlineWatched
<1> QED
  BY <1>2, <1>5 DEF DeadlineInv

LEMMA BeginWrite ==
  ASSUME SInv, DeadlineInv, read = "none", writes = {}, NEW m \in Message,
         calls' = <<>>, read' = read, Push(m),
         \/ deadlines' = deadlines \cup {m} /\ timer'.waiting
         \/ deadlines' = deadlines
  PROVE  DeadlineInv'
<1>1. /\ Len(calls') = 0 /\ m # "read" /\ m_items \in Seq(Message)
      /\ m_items' = Append(m_items, m) /\ Len(m_items) \in Nat
      /\ Len(m_items') = Len(m_items) + 1 /\ halted' = halted
  <2>1. m_items \in Seq(Message) /\ m_items' = Append(m_items, m) /\ halted' = halted
    BY DEF SInv, QInv, QTypeOK, Push
  <2> QED
    BY <2>1, SessionAssumption, EmptySeq, AppendProperties, LenProperties
<1>2. CASE Idle
  <2>1. Len(m_items) = 0 /\ ~halted
    BY <1>2, EmptySeq DEF Idle
  <2>2. Len(m_items') = 1 /\ Head(m_items') = m
    <3>1. Head(m_items') = m
      BY <1>1, <1>2, AppendProperties DEF Idle
    <3> QED
      BY <1>1, <2>1, <3>1
  <2>3. writes' = {[msg |-> m, res |-> "pending"]}
    BY <2>2 DEF Push, DoHandle, DoWrite
  <2>4. deadlines = {}
    BY <2>1 DEF DeadlineInv, DeadlinesOutstanding
  <2>5. OneAtATime' /\ DeadlinesOutstanding'
    BY <1>1, <2>2, <2>3, <2>4 DEF OneAtATime, DeadlinesOutstanding
  <2>6. Outstanding' \subseteq {m}
    BY <2>3 DEF Outstanding
  <2>7. DeadlineWatched'
    BY <2>4, <2>6 DEF DeadlineWatched
  <2> QED
    BY <2>5, <2>7 DEF DeadlineInv
<1>3. CASE Dead
  <2>1. Len(m_items) # 0 /\ halted
    BY <1>1, <1>3, EmptySeq DEF Dead
  <2>2. writes' = {}
    <3>1. Len(m_items') # 1
      <4> DEFINE n == Len(m_items)
      <4>1. n \in Nat /\ n # 0 /\ Len(m_items') = n + 1
        BY <1>1, <2>1
      <4> HIDE DEF n
      <4> QED
        BY <4>1
    <3> QED
      BY <3>1 DEF Push
  <2>3. OneAtATime' /\ DeadlinesOutstanding'
    BY <1>1, <2>1, <2>2 DEF DeadlineInv, OneAtATime, DeadlinesOutstanding
  <2>4. Outstanding' = {}
    BY <2>2 DEF Outstanding
  <2> QED
    BY <2>3, <2>4 DEF DeadlineInv, DeadlineWatched
<1> QED
  BY <1>2, <1>3 DEF SInv, QInv, Writing

\* The handlers that end an operation leave none outstanding.
LEMMA EndOperation ==
  ASSUME SInv, DeadlineInv, OnReadEof \/ OnReadDispatch \/ \E w \in writes : OnWrite(w)
  PROVE  DeadlineInv'
<1>1. CASE OnReadEof \/ OnReadDispatch
  <2>1. /\ writes = {} /\ read' = "none" /\ deadlines' = deadlines \ {"read"}
        /\ UNCHANGED <<qvars, calls>>
    BY <1>1 DEF OnReadEof, OnReadDispatch, StopTimerOf, DeadlineInv, OneAtATime
  <2>2. OneAtATime' /\ DeadlinesOutstanding'
    BY <2>1 DEF DeadlineInv, OneAtATime, DeadlinesOutstanding, qvars
  <2>3. Outstanding' = {}
    BY <2>1 DEF Outstanding, qvars
  <2> QED
    BY <2>2, <2>3 DEF DeadlineInv, DeadlineWatched
<1>2. ASSUME NEW w \in writes, OnWrite(w) PROVE DeadlineInv'
  <2>1. /\ writes = {w} /\ ~halted /\ read = "none" /\ calls = <<>>
        /\ m_items # <<>> /\ m_items \in Seq(Message) /\ Len(m_items) <= 1
    BY DEF SInv, QInv, QTypeOK, Idle, Dead, Writing, DeadlineInv, OneAtATime
  <2>2. /\ UNCHANGED <<read, calls>> /\ deadlines' = deadlines \ {w.msg}
        /\ Abandon(w) \/ PopAndHandle(w)
    BY <1>2 DEF OnWrite, StopTimerOf, input
  <2>3. writes' = {} /\ (halted' \/ Len(m_items') <= 1)
    <3>1. CASE Abandon(w)
      BY <2>1, <3>1 DEF Abandon
    <3>2. CASE PopAndHandle(w)
      <4>1. Len(m_items') = Len(m_items) - 1 /\ Len(m_items) \in Nat
        BY <2>1, <3>2, HeadTailProperties, LenProperties DEF PopAndHandle
      <4> DEFINE n == Len(m_items)
      <4>2. n \in Nat /\ n <= 1 /\ Len(m_items') = n - 1
        BY <2>1, <4>1
      <4> HIDE DEF n
      <4>3. ~(Len(m_items') > 0) /\ Len(m_items') <= 1
        BY <4>2
      <4> QED
        BY <2>1, <3>2, <4>3 DEF PopAndHandle
    <3> QED
      BY <2>2, <3>1, <3>2
  <2>4. OneAtATime'
    BY <2>1, <2>2, <2>3, EmptySeq DEF OneAtATime
  <2>5. DeadlinesOutstanding'
    BY <2>1, <2>2 DEF DeadlineInv, DeadlinesOutstanding
  <2>6. Outstanding' = {}
    BY <2>1, <2>2, <2>3 DEF Outstanding
  <2> QED
    BY <2>4, <2>5, <2>6 DEF DeadlineInv, DeadlineWatched
<1> QED
  BY <1>1, <1>2

\* A write that ends takes its operation from the outstanding ones.
LEMMA WriteEndsWatched ==
  ASSUME SInv, DeadlineInv, NEW w \in writes, NEW r \in WriteResult, WriteEnds(w, r),
         UNCHANGED <<read, calls, clock, socket>>
  PROVE  DeadlineInv'
<1>1. writes = {w} /\ w \in Write
  BY DEF SInv, QInv, QTypeOK, Idle, Dead, Writing
<1>2. PICK v : writes' = {v} /\ v.msg = w.msg /\ v.res # "pending"
  <2>1. /\ [w EXCEPT !.res = r].msg = w.msg
        /\ [w EXCEPT !.res = r].res = r
    BY <1>1 DEF Write
  <2> QED
    BY <1>1, <2>1 DEF WriteEnds, WriteResult
<1>3. UNCHANGED <<m_items, halted>>
  BY DEF WriteEnds
<1>4. OneAtATime' /\ DeadlinesOutstanding'
  BY <1>1, <1>2, <1>3 DEF DeadlineInv, OneAtATime, DeadlinesOutstanding, clock
<1>5. Outstanding' \subseteq Outstanding
  BY <1>2 DEF Outstanding
<1> QED
  BY <1>4, <1>5 DEF DeadlineInv, DeadlineWatched, clock

\* on_timer, and the clock: a wait stays, or has an effect.
LEMMA TimerWatched ==
  ASSUME SInv, DeadlineInv, OnTimer \/ Tick \/ WaitExpires
  PROVE  DeadlineInv'
<1>1. timer \in TimerState /\ socket \in {"open", "shut", "closed"} /\ errors \in SUBSET Kinds
  BY DEF SInv, TypeOK, Kinds
<1>2. /\ UNCHANGED <<qvars, read, calls, deadlines>>
      /\ Outstanding' = Outstanding
  BY DEF OnTimer, Tick, WaitExpires, input, session, Outstanding, qvars
<1>3. OneAtATime' /\ DeadlinesOutstanding'
  BY <1>2 DEF DeadlineInv, OneAtATime, DeadlinesOutstanding, qvars
<1>4. CASE OnTimer
  <2>1. CASE timer.expiry = "past"
    <3>1. socket' # "open"
      BY <1>1, <1>4, <2>1, DoEofEffect, ReportType DEF OnTimer, Kinds
    <3> QED
      BY <1>3, <3>1 DEF DeadlineInv, DeadlineWatched
  <2>2. CASE timer.expiry # "past"
    <3>1. timer'.waiting = timer.waiting /\ socket' = socket
      BY <1>1, <1>4, <2>2, TimerWaits DEF OnTimer, link
    <3> QED
      BY <1>2, <1>3, <2>2, <3>1 DEF DeadlineInv, DeadlineWatched
  <2> QED
    BY <2>1, <2>2
<1>5. CASE Tick
  BY <1>1, <1>2, <1>3, <1>5, TimerArmed DEF Tick, session, link, DeadlineInv, DeadlineWatched
<1>6. CASE WaitExpires
  BY <1>1, <1>3, <1>6, TimerArmed DEF WaitExpires, DeadlineInv, DeadlineWatched
<1> QED
  BY <1>4, <1>5, <1>6

LEMMA UserStepWatched ==
  ASSUME ~Overlap, SInv, DeadlineInv, UserStep
  PROVE  DeadlineInv'
<1>1. /\ timer \in TimerState /\ calls \in Seq(Call) /\ fresh \subseteq Message
      /\ Timed \subseteq BOOLEAN /\ m_items \in Seq(Message)
  BY SessionAssumption DEF SInv, QInv, QTypeOK, TypeOK
<1>2. ASSUME NEW d \in Timed, NEW m \in fresh, HandlerSend(m, d) PROVE DeadlineInv'
  <2>1. /\ m \in Message /\ read = "none" /\ writes = {} /\ calls' = <<>> /\ read' = read
        /\ Push(m)
        /\ \/ deadlines' = deadlines \cup {m} /\ timer'.waiting
           \/ deadlines' = deadlines
    BY <1>1, <1>2, TimerArmed DEF HandlerSend, MayCall, Send, DoTimer, clock, input
  <2> QED
    BY <2>1, BeginWrite
<1>3. ASSUME NEW d \in Timed, HandlerRecv(d) PROVE DeadlineInv'
  <2>1. /\ read = "none" /\ writes = {} /\ calls' = <<>> /\ read' = "pending"
        /\ UNCHANGED qvars
        /\ \/ deadlines' = deadlines \cup {"read"} /\ timer'.waiting
           \/ deadlines' = deadlines
    BY <1>1, <1>3, TimerArmed DEF HandlerRecv, MayCall, Recv, DoRead, DoTimer, clock
  <2> QED
    BY <2>1, BeginRead
<1>4. ASSUME NEW d \in Timed,
             PostRecv(d) \/ \E m \in fresh : PostSend(m, d)
      PROVE  DeadlineInv'
  <2>1. PICK c \in Call : calls' = Append(calls, c)
    BY <1>1, <1>4 DEF PostRecv, PostSend, RecvCall, SendCall, Call
  <2>2. calls = <<>> /\ read = "none" /\ writes = {} /\ UNCHANGED <<qvars, input, link, clock>>
    BY <1>4 DEF PostRecv, PostSend, MayCall
  <2>3. Len(calls') = 1
    BY <2>1, <2>2, EmptySeq, AppendProperties
  <2>4. OneAtATime' /\ DeadlinesOutstanding' /\ DeadlineWatched'
    BY <2>2, <2>3 DEF DeadlineInv, OneAtATime, DeadlinesOutstanding, DeadlineWatched,
                      Outstanding, qvars, input, link, clock
  <2> QED
    BY <2>4 DEF DeadlineInv
<1>5. CASE HandlerClose
  BY <1>5 DEF HandlerClose, DeadlineInv, OneAtATime, DeadlinesOutstanding, DeadlineWatched,
              qvars, input, clock
<1>6. CASE HandlerReturn \/ DropContext
  BY <1>6 DEF HandlerReturn, DropContext, DeadlineInv, OneAtATime, DeadlinesOutstanding,
              DeadlineWatched, Outstanding, qvars, input, link, clock
<1> QED
  BY <1>2, <1>3, <1>4, <1>5, <1>6 DEF UserStep

LEMMA RunCallWatched ==
  ASSUME SInv, DeadlineInv, RunRecv \/ RunSend
  PROVE  DeadlineInv'
<1>1. timer \in TimerState /\ calls \in Seq(Call) /\ calls # <<>>
  BY DEF SInv, TypeOK, RunRecv, RunSend
<1>2. calls' = <<>> /\ read = "none" /\ writes = {}
  <2>1. /\ Len(calls) <= 1 /\ calls' = Tail(calls) /\ read = "none" /\ writes = {}
    BY <1>1 DEF RunRecv, RunSend, DeadlineInv, OneAtATime
  <2>2. /\ Tail(calls) \in Seq(Call) /\ Len(Tail(calls)) = Len(calls) - 1
        /\ Len(calls) \in Nat \ {0} /\ Len(Tail(calls)) \in Nat
    BY <1>1, HeadTailProperties, EmptySeq, LenProperties
  <2>3. Len(Tail(calls)) = 0
    <3> DEFINE n == Len(calls)
    <3>1. n \in Nat \ {0} /\ n <= 1 /\ Len(Tail(calls)) = n - 1
      BY <2>1, <2>2
    <3> HIDE DEF n
    <3> QED
      BY <3>1
  <2> QED
    BY <2>1, <2>2, <2>3, EmptySeq
<1>3. CASE RunRecv
  <2>1. /\ read' = "pending" /\ UNCHANGED qvars
        /\ \/ deadlines' = deadlines \cup {"read"} /\ timer'.waiting
           \/ deadlines' = deadlines
    BY <1>1, <1>3, TimerArmed DEF RunRecv, Recv, DoRead, DoTimer, clock
  <2> QED
    BY <1>2, <2>1, BeginRead
<1>4. CASE RunSend
  <2>1. /\ Head(calls).msg \in Message /\ Push(Head(calls).msg) /\ read' = read
        /\ \/ deadlines' = deadlines \cup {Head(calls).msg} /\ timer'.waiting
           \/ deadlines' = deadlines
    BY <1>1, <1>4, TimerArmed, HeadCall DEF RunSend, Send, DoTimer, clock, input
  <2> QED
    BY <1>2, <2>1, BeginWrite
<1> QED
  BY <1>3, <1>4

LEMMA DeadlineInvStep ==
  ASSUME ~Overlap
  PROVE  SInv /\ DeadlineInv /\ [Next]_vars => DeadlineInv'
<1> SUFFICES ASSUME SInv, DeadlineInv, [Next]_vars PROVE DeadlineInv'
  OBVIOUS
<1>1. CASE RunRecv \/ RunSend
  BY <1>1, RunCallWatched
<1>2. CASE OnReadEof \/ OnReadDispatch \/ \E w \in writes : OnWrite(w)
  BY <1>2, EndOperation
<1>3. CASE OnTimer \/ Tick \/ WaitExpires
  BY <1>3, TimerWatched
<1>4. CASE UserStep
  BY <1>4, UserStepWatched
<1>5. ASSUME NEW w \in writes, WriteDone(w) \/ WriteFails(w) PROVE DeadlineInv'
  BY <1>5, WriteEndsWatched DEF WriteDone, WriteFails, WriteResult, session, link, input
<1>6. CASE ReadEnds
  <2>1. /\ read = "pending" /\ read' \in {"ok", "end_of_stream", "error"}
        /\ UNCHANGED <<qvars, clock, session>>
    BY <1>6 DEF ReadEnds, ReadDone, ReadEof, ReadFails
  <2>2. Outstanding' \subseteq Outstanding
    BY <2>1 DEF Outstanding, qvars
  <2> QED
    BY <2>1, <2>2 DEF DeadlineInv, OneAtATime, DeadlinesOutstanding, DeadlineWatched, qvars,
                      clock, session, link
<1>7. ASSUME UNCHANGED <<qvars, read, calls, clock>>, socket' = socket \/ socket' # "open"
      PROVE  DeadlineInv'
  <2>1. Outstanding' = Outstanding
    BY <1>7 DEF Outstanding, qvars
  <2> QED
    BY <1>7, <2>1 DEF DeadlineInv, OneAtATime, DeadlinesOutstanding, DeadlineWatched, qvars, clock
<1> QED
  BY <1>1, <1>2, <1>3, <1>4, <1>5, <1>6, <1>7
  DEF Next, StrandStep, EnvStep, PeerSends, PeerCloses, Destroy, session, link, input, vars

\* When calls are made one after the other, the deadline of an operation is
\* never lost: neither the cancel() of another handler nor a late on_timer
\* leaves it without a wait (session.ipp:128-135, 170 and 227).
THEOREM SessionKeepsDeadlines ==
  ASSUME ~Overlap
  PROVE  Spec => []DeadlineWatched
<1>1. Init => DeadlineInv
  <2> SUFFICES ASSUME Init PROVE DeadlineInv
    OBVIOUS
  <2>1. /\ m_items = <<>> /\ writes = {} /\ read = "none" /\ deadlines = {}
    BY DEF Init, InitContext, NewImpl, QInit
  <2>2. Len(calls) = 1
    <3>1. \A x : Len(<<x>>) = 1
      OBVIOUS
    <3> QED
      BY <3>1 DEF Init
  <2>3. Len(m_items) = 0
    BY <2>1, EmptySeq
  <2> QED
    BY <2>1, <2>2, <2>3 DEF DeadlineInv, OneAtATime, DeadlinesOutstanding, DeadlineWatched
<1>2. SInv /\ DeadlineInv /\ [Next]_vars => DeadlineInv'
  BY DeadlineInvStep
<1>3. DeadlineInv => DeadlineWatched
  BY DEF DeadlineInv
<1> QED
  BY <1>1, <1>2, <1>3, SessionInvariant, PTL DEF Spec
=============================================================================
