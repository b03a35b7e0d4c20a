-------------------------- MODULE ConnQueueProofs --------------------------
(***************************************************************************)
(* Proofs about ConnQueue, for any set of messages: its inductive          *)
(* invariant, what follows from it, and that it keeps the promise of       *)
(* MessageStream.                                                          *)
(***************************************************************************)
EXTENDS ConnQueue, SequenceTheorems, TLAPS

-----------------------------------------------------------------------------
(* Facts about the sequences the queue is made of *)

LEMMA ShiftFront ==
  ASSUME NEW S, NEW u \in Seq(S), NEW v \in Seq(S), v # <<>>
  PROVE  u \o v = Append(u, Head(v)) \o Tail(v)
<1>1. /\ Head(v) \in S /\ Tail(v) \in Seq(S) /\ <<Head(v)>> \in Seq(S)
      /\ Len(v) \in Nat \ {0} /\ Len(Tail(v)) = Len(v) - 1
      /\ \A i \in 1 .. Len(Tail(v)) : Tail(v)[i] = v[i + 1]
  BY HeadTailProperties, EmptySeq
<1>2. v = <<Head(v)>> \o Tail(v)
  <2> DEFINE t == <<Head(v)>> \o Tail(v)
  <2>1. /\ t \in Seq(S) /\ Len(t) = Len(v)
        /\ \A i \in 1 .. Len(v) : t[i] = IF i <= 1 THEN Head(v) ELSE Tail(v)[i - 1]
    BY <1>1, ConcatProperties
  <2>2. \A i \in 1 .. Len(v) : t[i] = v[i]
    BY <1>1, <2>1
  <2> HIDE DEF t
  <2>3. t = v
    BY <2>1, <2>2, SeqEqual
  <2> QED
    BY <2>3 DEF t
<1>3. Append(u, Head(v)) = u \o <<Head(v)>>
  BY <1>1, AppendIsConcat
<1> QED
  BY <1>1, <1>2, <1>3, ConcatAssociative

LEMMA FirstBehind ==
  ASSUME NEW S, NEW u \in Seq(S), NEW v \in Seq(S), v # <<>>
  PROVE  /\ Len(u) < Len(u \o v)
         /\ (u \o v)[Len(u) + 1] = Head(v)
<1>1. Len(u) \in Nat /\ Len(v) \in Nat \ {0}
  BY EmptySeq, LenProperties
<1> QED
  BY <1>1, ConcatProperties

-----------------------------------------------------------------------------
(* One lemma per action: it keeps the invariant and is the abstract step *)

LEMMA PushStep ==
  ASSUME QInv, NEW m \in Message, Push(m)
  PROVE  QInv' /\ Stream!Accept(m)
<1> DEFINE items == Append(m_items, m)
<1>1. /\ items \in Seq(Message) /\ items # <<>> /\ Len(items) = Len(m_items) + 1
      /\ Len(m_items) \in Nat /\ (Len(m_items) = 0 <=> m_items = <<>>)
      /\ Append(accepted, m) \in Seq(Message)
      /\ Append(wire, m) \in Seq(Message)
      /\ Head(items) = IF m_items = <<>> THEN m ELSE Head(m_items)
      /\ Tail(items) = IF m_items = <<>> THEN <<>> ELSE Append(Tail(m_items), m)
  BY AppendProperties, HeadTailAppend, EmptySeq DEF QInv, QTypeOK
<1>2. m_items' = items /\ accepted' = Append(accepted, m) /\ halted' = halted
  BY DEF Push
<1> HIDE DEF items
<1>3. CASE Idle
  <2>1. /\ m_serializer' = {m} /\ wire' = Append(wire, m)
        /\ writes' = {[msg |-> m, res |-> "pending"]}
    BY <1>1, <1>2, <1>3 DEF Push, DoHandle, DoWrite, Idle
  <2>2. QTypeOK'
    BY <1>1, <1>2, <2>1 DEF QInv, QTypeOK, Write
  <2>3. Writing'
    BY <1>1, <1>2, <1>3, <2>1 DEF Writing, Idle
  <2>4. Fifo'
    <3>1. accepted = wire
      BY <1>3, ConcatEmptySeq DEF QInv, QTypeOK, Fifo, Behind, Idle
    <3>2. Behind' = <<>>
      BY <1>1, <1>2, <1>3 DEF Behind, Idle
    <3> QED
      BY <1>1, <1>2, <2>1, <3>1, <3>2, ConcatEmptySeq DEF Fifo
  <2>5. Stream!Accept(m)
    BY <1>2, <1>3, <2>1 DEF Stream!Accept, Idle
  <2> QED
    BY <2>2, <2>3, <2>4, <2>5 DEF QInv
<1>4. CASE Dead \/ Writing
  <2>1. UNCHANGED <<m_serializer, writes, wire>> /\ m_items # <<>>
    BY <1>1, <1>2, <1>4 DEF Push, Dead, Writing
  <2>2. QTypeOK'
    BY <1>1, <1>2, <2>1 DEF QInv, QTypeOK, Write
  <2>3. Dead' \/ Writing'
    BY <1>1, <1>2, <1>4, <2>1 DEF Dead, Writing
  <2>4. Fifo'
    <3> DEFINE rest == Tail(m_items)
    <3>1. rest \in Seq(Message) /\ wire \in Seq(Message)
      BY <2>1, HeadTailProperties DEF QInv, QTypeOK
    <3>2. accepted = wire \o rest /\ Behind' = Append(rest, m)
      BY <1>1, <1>2, <2>1 DEF QInv, Fifo, Behind
    <3> HIDE DEF rest
    <3>3. Append(wire \o rest, m) = wire \o Append(rest, m)
      <4>1. /\ wire \o rest \in Seq(Message) /\ <<m>> \in Seq(Message)
            /\ Append(wire \o rest, m) = (wire \o rest) \o <<m>>
            /\ Append(rest, m) = rest \o <<m>>
        BY <3>1, ConcatProperties, AppendIsConcat
      <4> QED
        BY <3>1, <4>1, ConcatAssociative
    <3> QED
      BY <1>2, <2>1, <3>2, <3>3 DEF Fifo
  <2>5. Stream!Accept(m)
    BY <1>2, <1>4, <2>1 DEF Stream!Accept, Dead, Writing
  <2> QED
    BY <2>2, <2>3, <2>4, <2>5 DEF QInv
<1> QED
  BY <1>3, <1>4 DEF QInv

LEMMA PopAndHandleStep ==
  ASSUME QInv, NEW w \in writes, PopAndHandle(w)
  PROVE  QInv' /\ Stream!Finish
<1> DEFINE rest == Tail(m_items)
<1>1. Writing
  BY DEF QInv, Idle, Dead
<1>2. /\ m_items # <<>> /\ ~halted /\ writes \ {w} = {}
  BY <1>1 DEF Writing
<1>3. /\ rest \in Seq(Message) /\ Len(rest) \in Nat /\ (Len(rest) = 0 <=> rest = <<>>)
      /\ accepted = wire \o rest
  <2>1. rest \in Seq(Message)
    BY <1>2, HeadTailProperties DEF QInv, QTypeOK
  <2>2. accepted = wire \o rest
    BY <1>2 DEF QInv, Fifo, Behind
  <2> HIDE DEF rest
  <2> QED
    BY <2>1, <2>2, EmptySeq, LenProperties
<1>4. m_items' = rest /\ UNCHANGED <<accepted, halted>>
  BY DEF PopAndHandle
<1> HIDE DEF rest
<1>5. CASE rest = <<>>
  <2>1. writes' = {} /\ UNCHANGED <<m_serializer, wire>>
    <3>1. ~(Len(m_items') > 0)
      BY <1>3, <1>4, <1>5
    <3> QED
      BY <1>2, <3>1 DEF PopAndHandle
  <2>2. accepted = wire
    BY <1>3, <1>5, ConcatEmptySeq DEF QInv, QTypeOK
  <2>3. QTypeOK' /\ Idle'
    BY <1>2, <1>3, <1>4, <1>5, <2>1 DEF QInv, QTypeOK, Idle
  <2>4. Fifo'
    BY <1>4, <1>5, <2>1, <2>2, ConcatEmptySeq DEF QInv, QTypeOK, Fifo, Behind
  <2>5. Stream!Finish
    BY <1>4, <2>1, <2>2 DEF Stream!Finish
  <2> QED
    BY <2>3, <2>4, <2>5 DEF QInv
<1>6. CASE rest # <<>>
  <2>1. /\ Head(rest) \in Message /\ Tail(rest) \in Seq(Message)
        /\ Append(wire, Head(rest)) \in Seq(Message)
    BY <1>3, <1>6, HeadTailProperties, AppendProperties DEF QInv, QTypeOK
  <2>2. /\ m_serializer' = {Head(rest)} /\ wire' = Append(wire, Head(rest))
        /\ writes' = {[msg |-> Head(rest), res |-> "pending"]}
    <3>1. Len(m_items') > 0
      BY <1>3, <1>4, <1>6
    <3> QED
      BY <1>2, <1>4, <3>1 DEF PopAndHandle, DoHandle, DoWrite
  <2>3. QTypeOK'
    BY <1>3, <1>4, <2>1, <2>2 DEF QInv, QTypeOK, Write
  <2>4. Writing'
    BY <1>2, <1>4, <1>6, <2>2 DEF Writing
  <2>5. Fifo'
    <3>1. Behind' = Tail(rest)
      BY <1>4, <1>6 DEF Behind
    <3> QED
      BY <1>3, <1>4, <1>6, <2>2, <3>1, ShiftFront DEF QInv, QTypeOK, Fifo
  <2>6. Stream!Finish
    <3>1. Len(wire) < Len(accepted) /\ accepted[Len(wire) + 1] = Head(rest)
      BY <1>3, <1>6, FirstBehind DEF QInv, QTypeOK
    <3> QED
      BY <1>4, <2>2, <3>1 DEF Stream!Finish
  <2> QED
    BY <2>3, <2>4, <2>5, <2>6 DEF QInv
<1> QED
  BY <1>5, <1>6

LEMMA AbandonStep ==
  ASSUME QInv, NEW w \in writes, Abandon(w)
  PROVE  QInv' /\ Stream!Close
<1>1. Writing
  BY DEF QInv, Idle, Dead
<1>2. /\ writes' = {} /\ halted' = TRUE
      /\ UNCHANGED <<m_items, m_serializer, accepted, wire>>
  BY <1>1 DEF Writing, Abandon
<1>3. QTypeOK' /\ Dead' /\ Fifo'
  BY <1>1, <1>2 DEF QInv, QTypeOK, Writing, Dead, Fifo, Behind
<1>4. Stream!Close
  BY <1>2 DEF Stream!Close
<1> QED
  BY <1>3, <1>4 DEF QInv

LEMMA WriteEndsStep ==
  ASSUME QInv, NEW w \in writes, NEW r \in WriteResult, WriteEnds(w, r)
  PROVE  QInv' /\ UNCHANGED <<accepted, wire, writes # {}, halted>>
<1>1. Writing
  BY DEF QInv, Idle, Dead
<1>2. w.msg = Head(m_items) /\ w = [msg |-> Head(m_items), res |-> w.res] /\ writes = {w}
  BY <1>1 DEF Writing
<1>3. /\ writes' = {[msg |-> Head(m_items), res |-> r]}
      /\ UNCHANGED <<m_items, m_serializer, accepted, wire, halted>>
  BY <1>2 DEF WriteEnds
<1>4. QTypeOK'
  BY <1>2, <1>3 DEF QInv, QTypeOK, Write
<1>5. Writing' /\ Fifo'
  BY <1>1, <1>3 DEF QInv, Writing, Fifo, Behind
<1> QED
  BY <1>2, <1>3, <1>4, <1>5 DEF QInv

-----------------------------------------------------------------------------
(* The theorems *)

LEMMA QInitQInv == QInit => QInv
  BY EmptySeq, ConcatEmptySeq DEF QInit, QInv, QTypeOK, Idle, Fifo, Behind

LEMMA QNextStep ==
  ASSUME QInv, [QNext]_qvars
  PROVE  QInv' /\ [Stream!StreamNext]_(Stream!svars)
<1>1. ASSUME NEW m \in Message, Push(m) PROVE QInv' /\ Stream!StreamNext
  BY <1>1, PushStep DEF Stream!StreamNext
<1>2. ASSUME NEW w \in writes, PopAndHandle(w) PROVE QInv' /\ Stream!StreamNext
  BY <1>2, PopAndHandleStep DEF Stream!StreamNext
<1>3. ASSUME NEW w \in writes, Abandon(w) PROVE QInv' /\ Stream!StreamNext
  BY <1>3, AbandonStep DEF Stream!StreamNext
<1>4. ASSUME NEW w \in writes, NEW r \in WriteResult, WriteEnds(w, r)
      PROVE  QInv' /\ UNCHANGED Stream!svars
  BY <1>4, WriteEndsStep DEF Stream!svars
<1>5. CASE UNCHANGED qvars
  <2>1. QInv'
    BY <1>5 DEF qvars, QInv, QTypeOK, Idle, Dead, Writing, Fifo, Behind
  <2> QED
    BY <1>5, <2>1 DEF qvars, Stream!svars
<1> QED
  BY <1>1, <1>2, <1>3, <1>4, <1>5 DEF QNext

\* The queue is idle, halted for good or writing its front, and the messages
\* accepted are those written followed by those waiting (conn_queue.hpp:29-68
\* with session.ipp:205-245).
THEOREM QueueInvariant == QSpec => []QInv
<1>1. QInv /\ [QNext]_qvars => QInv'
  BY QNextStep
<1> QED
  BY QInitQInv, <1>1, PTL DEF QSpec

LEMMA QInvLiveMessage == QInv => WriteUsesLiveMessage
  BY DEF QInv, Idle, Dead, Writing, WriteUsesLiveMessage

LEMMA QInvNoLostWakeup == QInv => NoLostWakeup
  BY DEF QInv, Idle, Dead, Writing, NoLostWakeup

\* No write ever reads through a serializer that was replaced, or a message
\* that was popped (session.ipp:213-219).
THEOREM QueueWritesLiveMessages == QSpec => []WriteUsesLiveMessage
  BY QueueInvariant, QInvLiveMessage, PTL

\* A queue that holds messages is being written or was given up
\* (conn_queue.hpp:50-60).
THEOREM QueueNeverStalls == QSpec => []NoLostWakeup
  BY QueueInvariant, QInvNoLostWakeup, PTL

\* The queue implements the stream: each message once, in the order of the
\* calls of send(), none after the stream was given up.
THEOREM QueueKeepsStreamPromise == QSpec => StreamPromise
<1>1. QInit => Stream!StreamInit
  BY DEF QInit, Stream!StreamInit
<1>2. QInv /\ [QNext]_qvars => [Stream!StreamNext]_(Stream!svars)
  BY QNextStep
<1> QED
  BY <1>1, <1>2, QueueInvariant, PTL DEF QSpec, StreamPromise, Stream!StreamSpec
=============================================================================
