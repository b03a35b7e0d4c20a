----------------------------- MODULE ConnQueue -----------------------------
(***************************************************************************)
(* The outgoing half of a session: base::conn_queue and the write it       *)
(* drives, session::impl::do_write and the end of on_write.                *)
(*                                                                         *)
(* m_items owns the messages.  do_write puts into m_serializer a           *)
(* serializer that refers to the message at the front of m_items, and      *)
(* starts an async_write that reads through it until the write ends, so    *)
(* that both must stay as they are while a write is outstanding.           *)
(*                                                                         *)
(* All of this runs on the session's strand; the module has one action     *)
(* per call of the queue, and Session.tla says when each is made.          *)
(***************************************************************************)
EXTENDS Naturals, Sequences

CONSTANTS
  Message,  \* message objects; each is handed to send() once
  NeedEof   \* those whose need_eof() holds: the connection ends after them

ASSUME MessageAssumption == NeedEof \subseteq Message

VARIABLES
  m_items,       \* conn_queue::m_items
  m_serializer,  \* the message m_serializer refers to: {} or a singleton
  writes,        \* async_writes whose on_write has not run yet
  accepted,      \* history: the messages pushed, in order
  wire,          \* history: the messages an async_write was started for
  halted         \* history: an on_write returned without m_queue.on_write()

qvars == <<m_items, m_serializer, writes, accepted, wire, halted>>

\* How async_write may end, as on_write distinguishes it.
WriteResult == {"ok", "end_of_stream", "error"}

Write == [msg : Message, res : {"pending"} \cup WriteResult]

-----------------------------------------------------------------------------

QInit == /\ m_items = <<>>
         /\ m_serializer = {}
         /\ writes = {}
         /\ accepted = <<>>
         /\ wire = <<>>
         /\ halted = FALSE

\* Definitions named ...Fault are seeded faults: each is a version of the
\* operator that follows it, wrong as the code could plausibly be, with which
\* a property of README.md's table does not hold.

\* Seeded fault: the serializer of the message before is not replaced.
DoWriteFault(m, others) ==
  /\ m_serializer' = IF m_serializer = {} THEN {m} ELSE m_serializer
  /\ writes' = others \cup {[msg |-> m, res |-> "pending"]}
  /\ wire' = Append(wire, m)

\* do_write(): an async_write of m through a new serializer.
DoWrite(m, others) ==
  /\ m_serializer' = {m}
  /\ writes' = others \cup {[msg |-> m, res |-> "pending"]}
  /\ wire' = Append(wire, m)

\* Seeded fault: the newest message is written, not the oldest.
DoHandleFault(items, others) == DoWrite(items[Len(items)], others)

\* do_handle() on the queue `items`: its front is written, the writes
\* `others` being outstanding already.
DoHandle(items, others) == DoWrite(Head(items), others)

\* Seeded fault: each push starts a write.
PushFault(m) ==
  /\ m_items' = Append(m_items, m)
  /\ accepted' = Append(accepted, m)
  /\ DoHandle(m_items', writes)
  /\ UNCHANGED halted

\* operator()(Response&&): the first message of an empty queue is written
\* at once, any other waits for the on_write of the one before it.
Push(m) ==
  /\ m_items' = Append(m_items, m)
  /\ accepted' = Append(accepted, m)
  /\ IF Len(m_items') = 1
     THEN DoHandle(m_items', writes)
     ELSE UNCHANGED <<m_serializer, writes, wire>>
  /\ UNCHANGED halted

\* Seeded fault: the size is tested as it is tested after a push.
PopAndHandleFault(w) ==
  /\ m_items' = Tail(m_items)
  /\ IF Len(m_items') > 1
     THEN DoHandle(m_items', writes \ {w})
     ELSE writes' = writes \ {w} /\ UNCHANGED <<m_serializer, wire>>
  /\ UNCHANGED <<accepted, halted>>

\* conn_queue::on_write(), reached at the end of on_write for the write w.
PopAndHandle(w) ==
  /\ m_items' = Tail(m_items)
  /\ IF Len(m_items') > 0
     THEN DoHandle(m_items', writes \ {w})
     ELSE writes' = writes \ {w} /\ UNCHANGED <<m_serializer, wire>>
  /\ UNCHANGED <<accepted, halted>>

\* Seeded fault: the return is missing, the queue goes on.
AbandonFault(w) ==
  /\ m_items' = Tail(m_items)
  /\ IF Len(m_items') > 0
     THEN DoHandle(m_items', writes \ {w})
     ELSE writes' = writes \ {w} /\ UNCHANGED <<m_serializer, wire>>
  /\ halted' = TRUE
  /\ UNCHANGED accepted

\* An early return of on_write for the write w: m_queue is not told.
Abandon(w) ==
  /\ writes' = writes \ {w}
  /\ halted' = TRUE
  /\ UNCHANGED <<m_items, m_serializer, accepted, wire>>

\* The asynchronous write w ends with the result r; on_write is due.
WriteEnds(w, r) ==
  /\ w.res = "pending"
  /\ writes' = (writes \ {w}) \cup {[w EXCEPT !.res = r]}
  /\ UNCHANGED <<m_items, m_serializer, accepted, wire, halted>>

QNext ==
  \/ \E m \in Message : Push(m)
  \/ \E w \in writes, r \in WriteResult : WriteEnds(w, r)
  \/ \E w \in writes : w.res # "pending" /\ (PopAndHandle(w) \/ Abandon(w))

QSpec == QInit /\ [][QNext]_qvars

-----------------------------------------------------------------------------

QTypeOK ==
  /\ m_items \in Seq(Message)
  /\ m_serializer \in SUBSET Message
  /\ writes \in SUBSET Write
  /\ accepted \in Seq(Message)
  /\ wire \in Seq(Message)
  /\ halted \in BOOLEAN

\* While an async_write is outstanding it is the only one, m_serializer is
\* the serializer it was started with, and the message that serializer refers
\* to is still owned by the queue: no send() and no on_write() in between may
\* replace the one or destroy the other (session.ipp:213-219).
WriteUsesLiveMessage ==
  \A w \in writes :
    /\ writes = {w}
    /\ m_serializer = {w.msg}
    /\ m_items # <<>> /\ w.msg = Head(m_items)

\* A queued message is never forgotten: unless an on_write gave up, a queue
\* that holds messages has a write outstanding that will go on to the next
\* (conn_queue.hpp:50-60: operator() starts nothing when size() > 1).
NoLostWakeup == m_items # <<>> => writes # {} \/ halted

\* The messages written are those accepted, in order, and the ones not yet
\* written are exactly those behind the front of the queue: none is lost,
\* duplicated or overtaken.
Behind == IF m_items = <<>> THEN <<>> ELSE Tail(m_items)

Fifo == accepted = wire \o Behind

\* What a session promises of the stream of its messages (MessageStream).
Stream == INSTANCE MessageStream
            WITH sent <- wire, busy <- (writes # {}), closed <- halted

StreamPromise == Stream!StreamSpec

-----------------------------------------------------------------------------

\* The inductive invariant: the queue is idle, halted for good, or writing
\* its front.
Idle    == m_items = <<>> /\ writes = {} /\ ~halted
Dead    == m_items # <<>> /\ writes = {} /\ halted
Writing == /\ m_items # <<>>
           /\ ~halted
           /\ m_serializer = {Head(m_items)}
           /\ \E r \in {"pending"} \cup WriteResult :
                writes = {[msg |-> Head(m_items), res |-> r]}

QInv == QTypeOK /\ (Idle \/ Dead \/ Writing) /\ Fifo
=============================================================================
