------------------------------ MODULE Session ------------------------------
(***************************************************************************)
(* One plain session: session::impl of session.hpp with its connection,    *)
(* timer, parser and outgoing queue, and the contexts users reach it by.   *)
(*                                                                         *)
(* Every handler of the session runs on its strand, one at a time, and     *)
(* calls made through a context are dispatched to that strand: at once if  *)
(* the caller is a handler of this session, else behind the calls posted   *)
(* before.  One action is one handler, except for on_read: the user's      *)
(* handler it runs takes time and makes calls of its own, so it begins     *)
(* with OnReadDispatch and ends with HandlerReturn, and holds the strand   *)
(* in between.  The completion handlers that are due run in any order.     *)
(*                                                                         *)
(* The peer, the clock and the two asynchronous socket operations are the  *)
(* environment.                                                            *)
(***************************************************************************)
EXTENDS ConnQueue, Timer

CONSTANTS
  IsRequest,   \* the session is a server's (it receives requests)
  HasOnError,  \* an on_error callback was given
  Overlap,     \* the user may call while an earlier operation is outstanding
  Timed,       \* whether calls are made with a duration: subset of BOOLEAN
  MaxRecvs     \* bound on the recv() calls of a behaviour

ASSUME SessionAssumption ==
  /\ IsRequest \in BOOLEAN
  /\ HasOnError \in BOOLEAN
  /\ Overlap \in BOOLEAN
  /\ Timed \subseteq BOOLEAN /\ Timed # {}
  /\ MaxRecvs \in Nat \ {0}
  /\ Message # {}
  /\ "read" \notin Message

VARIABLES
  calls,       \* context calls dispatched to the strand, not run yet
  handling,    \* a user's handler is running inside on_read
  held,        \* the user holds a context outside of a handler
  alive,       \* the impl object exists
  fresh,       \* the messages not handed to send() yet
  recvs,       \* number of recv() calls made
  read,        \* the asynchronous read: none, pending, or how it ended
  parser,      \* m_parser: what it was fed, and whether it was released
  timer,       \* m_timer
  socket,      \* this end of the connection
  peer,        \* what the other end did to it
  errors,      \* history: what on_error was told
  dispatched,  \* history: what was in the messages handed to the dispatcher
  deadlines    \* history: the outstanding operations called with a duration

input == <<read, parser>>
link  == <<socket, errors>>
clock == <<timer, deadlines>>
user  == <<handling, held, fresh, recvs>>

vars == <<qvars, input, link, clock, user, calls, alive, peer, dispatched>>

RecvCall(d)    == [op |-> "recv", timed |-> d]
SendCall(m, d) == [op |-> "send", timed |-> d, msg |-> m]

\* What the parser holds: no bytes of a message, an unfinished one, a whole
\* one, or bytes that are not HTTP.
Content == {"nothing", "some", "all", "bad"}

Call == [op : {"recv"}, timed : BOOLEAN]
        \cup [op : {"send"}, timed : BOOLEAN, msg : Message]

-----------------------------------------------------------------------------
(* The functions of impl that handlers are made of *)

\* m_on_error(ec, ...), if there is one.
Report(errs, what) == IF HasOnError THEN errs \cup {what} ELSE errs

\* do_eof(shutdown_both), with `errs` reported before.  is_open() stays true
\* after a shutdown; shutting down a connection that this end or the other
\* took down already may fail.
DoEof(errs) ==
  IF socket = "closed"
  THEN socket' = "closed" /\ errors' = errs
  ELSE /\ socket' = "shut"
       /\ \/ errors' = errs
          \/ /\ socket = "shut" \/ peer # "up"
             /\ errors' = Report(errs, "shutdown")

\* Seeded fault: the wait is started before the expiry is set, which ends it.
DoTimerFault(timed, op) ==
  IF timed THEN /\ timer' = ExpiresFromNow(AsyncWait(timer))
                /\ deadlines' = deadlines \cup {op}
           ELSE UNCHANGED clock

\* do_timer(), called by the overloads with a duration for the operation op.
DoTimer(timed, op) ==
  IF timed THEN /\ timer' = AsyncWait(ExpiresFromNow(timer))
                /\ deadlines' = deadlines \cup {op}
           ELSE UNCHANGED clock

\* Seeded fault: the wait is not cancelled.
StopTimerOfFault(op) == timer' = timer /\ deadlines' = deadlines \ {op}

\* m_timer.cancel() of the handler that ends the operation op.
StopTimerOf(op) == timer' = Cancel(timer) /\ deadlines' = deadlines \ {op}

DoRead == read' = "pending"

Recv(timed) == /\ DoTimer(timed, "read")
               /\ DoRead
               /\ UNCHANGED <<qvars, parser, link>>

Send(m, timed) == /\ DoTimer(timed, m)
                  /\ Push(m)
                  /\ UNCHANGED <<input, link>>

-----------------------------------------------------------------------------
(* The handlers of the strand *)

StrandFree == ~handling

RunRecv == /\ StrandFree
           /\ calls # <<>> /\ Head(calls).op = "recv"
           /\ Recv(Head(calls).timed)
           /\ calls' = Tail(calls)
           /\ UNCHANGED <<user, alive, peer, dispatched>>

RunSend == /\ StrandFree
           /\ calls # <<>> /\ Head(calls).op = "send"
           /\ Send(Head(calls).msg, Head(calls).timed)
           /\ calls' = Tail(calls)
           /\ UNCHANGED <<user, alive, peer, dispatched>>

OnReadEof == /\ StrandFree
             /\ read = "end_of_stream"
             /\ read' = "none"
             /\ StopTimerOf("read")
             /\ DoEof(errors)
             /\ UNCHANGED <<qvars, parser, user, calls, alive, peer, dispatched>>

\* Seeded fault: the message is copied out with get().
OnReadDispatchFault ==
  /\ StrandFree
  /\ read \in {"ok", "error"}
  /\ read' = "none"
  /\ StopTimerOf("read")
  /\ errors' = IF read = "error" THEN Report(errors, "read") ELSE errors
  /\ dispatched' = Append(dispatched, parser.got)
  /\ handling' = TRUE
  /\ UNCHANGED <<qvars, parser, socket, held, fresh, recvs, calls, alive, peer>>

\* Seeded fault: the error is not reported.
OnReadSilentFault ==
  /\ StrandFree
  /\ read \in {"ok", "error"}
  /\ read' = "none"
  /\ StopTimerOf("read")
  /\ dispatched' = Append(dispatched, IF parser.released THEN "moved" ELSE parser.got)
  /\ parser' = [parser EXCEPT !.released = TRUE]
  /\ handling' = TRUE
  /\ UNCHANGED <<qvars, link, held, fresh, recvs, calls, alive, peer>>

\* on_read with any other result: an error is reported, and the parser's
\* message is handed to the dispatcher all the same.  release() leaves a
\* moved-from message in the parser, which is not reset.
OnReadDispatch ==
  /\ StrandFree
  /\ read \in {"ok", "error"}
  /\ read' = "none"
  /\ StopTimerOf("read")
  /\ errors' = IF read = "error" THEN Report(errors, "read") ELSE errors
  /\ dispatched' = Append(dispatched, IF parser.released THEN "moved" ELSE parser.got)
  /\ parser' = [parser EXCEPT !.released = TRUE]
  /\ handling' = TRUE
  /\ UNCHANGED <<qvars, socket, held, fresh, recvs, calls, alive, peer>>

\* Seeded fault: any error ends on_write, whether it can be reported or not.
OnWriteFault(w) ==
  /\ StrandFree
  /\ w.res # "pending"
  /\ StopTimerOf(w.msg)
  /\ \/ w.res = "end_of_stream" /\ DoEof(errors) /\ Abandon(w)
     \/ /\ w.res = "error"
        /\ errors' = Report(errors, "write")
        /\ Abandon(w)
        /\ UNCHANGED socket
     \/ w.res = "ok" /\ w.msg \in NeedEof /\ DoEof(errors) /\ Abandon(w)
     \/ w.res = "ok" /\ w.msg \notin NeedEof /\ PopAndHandle(w) /\ UNCHANGED link
  /\ UNCHANGED <<input, user, calls, alive, peer, dispatched>>

\* on_write: the queue goes on to the next message, unless the write failed
\* or the message closes the connection.
OnWrite(w) ==
  /\ StrandFree
  /\ w.res # "pending"
  /\ StopTimerOf(w.msg)
  /\ \/ w.res = "end_of_stream" /\ DoEof(errors) /\ Abandon(w)
     \/ /\ w.res = "error" /\ HasOnError
        /\ errors' = Report(errors, "write")
        /\ Abandon(w)
        /\ UNCHANGED socket
     \/ /\ w.res = "ok" \/ (w.res = "error" /\ ~HasOnError)
        /\ w.msg \in NeedEof
        /\ DoEof(errors)
        /\ Abandon(w)
     \/ /\ w.res = "ok" \/ (w.res = "error" /\ ~HasOnError)
        /\ w.msg \notin NeedEof
        /\ PopAndHandle(w)
        /\ UNCHANGED link
  /\ UNCHANGED <<input, user, calls, alive, peer, dispatched>>

\* Seeded fault: the expiry decides on the report only.
OnTimerFault ==
  /\ StrandFree
  /\ \/ timer.due.ok > 0 /\ timer' = TakeOk(timer)
     \/ timer.due.aborted > 0 /\ timer' = TakeAborted(timer)
  /\ DoEof(IF timer.expiry = "past" THEN Report(errors, "timed_out") ELSE errors)
  /\ UNCHANGED <<qvars, input, deadlines, user, calls, alive, peer, dispatched>>

\* Seeded fault: the timeout is reported, the connection left as it is.
OnTimerReportsFault ==
  /\ StrandFree
  /\ \/ timer.due.ok > 0 /\ timer' = TakeOk(timer)
     \/ timer.due.aborted > 0 /\ timer' = TakeAborted(timer)
  /\ errors' = IF timer.expiry = "past" THEN Report(errors, "timed_out") ELSE errors
  /\ UNCHANGED <<qvars, input, socket, deadlines, user, calls, alive, peer, dispatched>>

\* on_timer, for a wait that ended in time or one that was cancelled: both
\* look at the expiry the timer has now.
OnTimer ==
  /\ StrandFree
  /\ \/ timer.due.ok > 0 /\ timer' = TakeOk(timer)
     \/ timer.due.aborted > 0 /\ timer' = TakeAborted(timer)
  /\ IF timer.expiry = "past"
     THEN DoEof(Report(errors, "timed_out"))
     ELSE UNCHANGED link
  /\ UNCHANGED <<qvars, input, deadlines, user, calls, alive, peer, dispatched>>

\* Seeded fault: the write handler does not own the impl.
DestroyFault ==
  /\ alive /\ ~held /\ ~handling
  /\ calls = <<>> /\ read = "none" /\ NoWaiter(timer)
  /\ alive' = FALSE
  /\ socket' = "closed"
  /\ UNCHANGED <<qvars, input, errors, clock, user, calls, peer, dispatched>>

\* Seeded fault: a call on its way to the strand does not own the impl.
DestroyCallsFault ==
  /\ alive /\ ~held /\ ~handling
  /\ read = "none" /\ writes = {} /\ NoWaiter(timer)
  /\ alive' = FALSE
  /\ socket' = "closed"
  /\ UNCHANGED <<qvars, input, errors, clock, user, calls, peer, dispatched>>

\* The last owner of the impl is gone: no context and no handler refers to it.
Destroy ==
  /\ alive /\ ~held /\ ~handling
  /\ calls = <<>> /\ read = "none" /\ writes = {} /\ NoWaiter(timer)
  /\ alive' = FALSE
  /\ socket' = "closed"
  /\ UNCHANGED <<qvars, input, errors, clock, user, calls, peer, dispatched>>

-----------------------------------------------------------------------------
(* The user: a handler on the strand, or a thread that holds a context *)

\* Without Overlap, calls are made only when nothing is outstanding.
MayCall == \/ Overlap
           \/ /\ calls = <<>> /\ read = "none" /\ writes = {}
              /\ m_items = <<>> \/ halted

HandlerSend(m, timed) ==
  /\ handling /\ MayCall
  /\ m \in fresh /\ fresh' = fresh \ {m}
  /\ Send(m, timed)
  /\ UNCHANGED <<handling, held, recvs, calls, alive, peer, dispatched>>

\* A read must not be started while another one uses the parser.
HandlerRecv(timed) ==
  /\ handling /\ MayCall
  /\ read = "none"
  /\ \A i \in DOMAIN calls : calls[i].op # "recv"
  /\ recvs < MaxRecvs /\ recvs' = recvs + 1
  /\ Recv(timed)
  /\ UNCHANGED <<handling, held, fresh, calls, alive, peer, dispatched>>

\* get_stream().close(): the outstanding operations will be aborted.
HandlerClose ==
  /\ handling
  /\ socket # "closed" /\ socket' = "closed"
  /\ UNCHANGED <<qvars, input, errors, clock, user, calls, alive, peer, dispatched>>

\* The handler returns; it may have kept a copy of its context.
HandlerReturn ==
  /\ handling /\ handling' = FALSE
  /\ held' \in {held, TRUE}
  /\ UNCHANGED <<qvars, input, link, clock, fresh, recvs, calls, alive, peer, dispatched>>

PostSend(m, timed) ==
  /\ held /\ MayCall
  /\ m \in fresh /\ fresh' = fresh \ {m}
  /\ calls' = Append(calls, SendCall(m, timed))
  /\ UNCHANGED <<qvars, input, link, clock, handling, held, recvs, alive, peer, dispatched>>

\* A client asks for the response once, behind the send() of its request.
PostRecv(timed) ==
  /\ held /\ MayCall
  /\ ~IsRequest /\ recvs = 0 /\ recvs' = 1
  /\ calls' = Append(calls, RecvCall(timed))
  /\ UNCHANGED <<qvars, input, link, clock, handling, held, fresh, alive, peer, dispatched>>

DropContext ==
  /\ held /\ held' = FALSE
  /\ UNCHANGED <<qvars, input, link, clock, handling, fresh, recvs, calls, alive, peer,
                 dispatched>>

-----------------------------------------------------------------------------
(* The environment *)

session == <<link, user, calls, alive, dispatched>>

\* Bytes of the peer reach the parser of the outstanding read.
PeerSends(part) ==
  /\ read = "pending" /\ socket # "closed" /\ peer # "reset"
  /\ parser.got \in {"nothing", "some"} /\ ~parser.released
  /\ parser' = [parser EXCEPT !.got = part]
  /\ UNCHANGED <<qvars, read, clock, session, peer>>

PeerCloses(how) ==
  /\ alive
  /\ peer \in {"up", "eof"} /\ peer # how /\ peer' = how
  /\ UNCHANGED <<qvars, input, clock, session>>

\* async_read ends as soon as the parser is done, and does so at once when it
\* was done before.
ReadDone == parser.got = "all" /\ read' = "ok"

ReadEof == /\ parser.got = "nothing" /\ ~parser.released
           /\ socket = "shut" \/ (socket = "open" /\ peer = "eof")
           /\ read' = "end_of_stream"

\* Bytes that are not HTTP, a connection that is gone, or an end of stream
\* amid a message.  A parser that failed fails again.
ReadFails == /\ parser.got # "all"
             /\ \/ parser.got = "bad" \/ parser.released
                \/ socket = "closed" \/ peer = "reset"
                \/ parser.got = "some" /\ (socket = "shut" \/ peer = "eof")
             /\ read' = "error"

ReadEnds == /\ read = "pending"
            /\ ReadDone \/ ReadEof \/ ReadFails
            /\ UNCHANGED <<qvars, parser, clock, session, peer>>

\* A message the peer cannot know the end of but by the end of the connection
\* may be reported as written with end_of_stream.
WriteDone(w) ==
  /\ socket = "open" /\ peer # "reset"
  /\ \/ WriteEnds(w, "ok")
     \/ w.msg \in NeedEof /\ WriteEnds(w, "end_of_stream")
  /\ UNCHANGED <<input, clock, session, peer>>

WriteFails(w) ==
  /\ socket # "open" \/ peer = "reset"
  /\ WriteEnds(w, "error")
  /\ UNCHANGED <<input, clock, session, peer>>

\* The clock reaches the expiry of the timer; then a wait for it ends.
Tick == /\ alive /\ timer.expiry = "future"
        /\ timer' = Elapsed(timer)
        /\ UNCHANGED <<qvars, input, deadlines, session, peer>>

WaitExpires == /\ timer.waiting /\ timer.expiry = "past"
               /\ timer' = Fired(timer)
               /\ UNCHANGED <<qvars, input, deadlines, session, peer>>

-----------------------------------------------------------------------------

\* A new impl.
NewImpl ==
  /\ QInit
  /\ handling = FALSE /\ alive = TRUE
  /\ read = "none" /\ parser = [got |-> "nothing", released |-> FALSE]
  /\ timer = NewTimer /\ deadlines = {}
  /\ socket = "open" /\ peer = "up"
  /\ errors = {} /\ dispatched = <<>>

\* init_context(): an impl is made, and the context it is owned by.
InitContext == NewImpl /\ held = TRUE

\* The static recv() of a server, the static send() of a client: an impl is
\* made, its first call dispatched, and the context returned to the user.
Init ==
  /\ InitContext
  /\ \E d \in Timed, m \in Message :
       IF IsRequest
       THEN calls = <<RecvCall(d)>> /\ fresh = Message /\ recvs = 1
       ELSE calls = <<SendCall(m, d)>> /\ fresh = Message \ {m} /\ recvs = 0

StrandStep == \/ RunRecv \/ RunSend
              \/ OnReadEof \/ OnReadDispatch
              \/ \E w \in writes : OnWrite(w)
              \/ OnTimer

UserStep == \/ \E d \in Timed, m \in fresh : HandlerSend(m, d) \/ PostSend(m, d)
            \/ \E d \in Timed : HandlerRecv(d) \/ PostRecv(d)
            \/ HandlerClose \/ HandlerReturn \/ DropContext

EnvStep == \/ \E part \in Content \ {"nothing"} : PeerSends(part)
           \/ \E how \in {"eof", "reset"} : PeerCloses(how)
           \/ ReadEnds
           \/ \E w \in writes : WriteDone(w) \/ WriteFails(w)
           \/ Tick \/ WaitExpires

Next == StrandStep \/ UserStep \/ EnvStep \/ Destroy

Spec == Init /\ [][Next]_vars

\* The pool runs what is due on the strand, the clock goes on, an operation on
\* a connection that is gone ends, handlers return and contexts are let go.
\* Nothing says that the peer sends, reads or closes, nor that anyone calls.
Fairness ==
  /\ WF_vars(StrandStep)
  /\ WF_vars(HandlerReturn) /\ WF_vars(DropContext) /\ WF_vars(Destroy)
  /\ WF_vars(ReadEnds) /\ WF_vars(\E w \in writes : WriteFails(w))
  /\ WF_vars(Tick) /\ WF_vars(WaitExpires)

FairSpec == Spec /\ Fairness

-----------------------------------------------------------------------------
(* Properties *)

TypeOK ==
  /\ QTypeOK
  /\ calls \in Seq(Call)
  /\ handling \in BOOLEAN /\ held \in BOOLEAN /\ alive \in BOOLEAN
  /\ fresh \in SUBSET Message
  /\ recvs \in 0 .. MaxRecvs
  /\ read \in {"none", "pending", "ok", "end_of_stream", "error"}
  /\ parser \in [got : Content, released : BOOLEAN]
  /\ timer \in TimerState
  /\ socket \in {"open", "shut", "closed"}
  /\ peer \in {"up", "eof", "reset"}
  /\ errors \in SUBSET {"timed_out", "read", "write", "shutdown", "handshake"}
  /\ dispatched \in Seq(Content \cup {"moved"})
  /\ deadlines \in SUBSET (Message \cup {"read"})

\* The timer never outlives what it was armed for: while a wait is
\* outstanding there is a read or a write it can still cut short, or a queue
\* that was given up (on_read, on_write: cancel() comes first on every path,
\* session.ipp:170 and 227).
NoIdleTimer == timer.waiting => read # "none" \/ writes # {} \/ halted

\* A session with an on_error callback shuts its connection down only for a
\* cause somebody can know of: a timeout it reported, a peer that closed, or a
\* write that ended the outgoing stream (the three callers of do_eof).
ShutdownHasCause ==
  (socket = "shut" /\ HasOnError) =>
     "timed_out" \in errors \/ peer # "up" \/ halted

\* The one message the parser yields is handed to the dispatcher at most once
\* and before anything else, however many reads the user asks for
\* (release() at session.ipp:181 moves it away).
WholeDispatchedOnce ==
  \A i \in DOMAIN dispatched : dispatched[i] = "all" => i = 1

\* The impl outlives its outgoing work: when the last owner has gone every
\* accepted message was written or the stream was given up, no handler of the
\* timer is due and no call was dropped (each operation binds shared_from_this(), session.ipp:132, 162, 217).
DiesIdle == ~alive => /\ wire = accepted \/ halted
                      /\ NoWaiter(timer)
                      /\ fresh \cup {accepted[i] : i \in DOMAIN accepted} = Message

\* Without an on_error callback a failed write does not stop the queue: it is
\* given up only for a message that closes the connection (session.ipp:234).
HaltOnlyOnClose ==
  (halted /\ ~HasOnError) => wire # <<>> /\ wire[Len(wire)] \in NeedEof

\* A user with an on_error callback whose handlers are run for what is no
\* message was told of a failed read before (session.ipp:177-181).
FailedReadIsTold ==
  HasOnError => \A i \in DOMAIN dispatched :
                  dispatched[i] \in {"all", "moved"} \/ "read" \in errors

\* An operation that was called with a deadline does not lose it: until the
\* operation ends its wait is outstanding, or on_timer is due with the expiry
\* in the past, or the connection is down already, which ends the operation.
\* It takes a user who waits for each operation before the next (Overlap), as
\* every handler cancels the one timer (session.ipp:128-135, 170, 227).
Outstanding == {op \in {"read"} : read = "pending"}
               \cup {w.msg : w \in {x \in writes : x.res = "pending"}}

DeadlineWatched ==
  Outstanding \cap deadlines # {} =>
    \/ timer.waiting
    \/ timer.expiry = "past" /\ timer.due.ok > 0
    \/ socket # "open"

\* Nothing happens to an impl that was destroyed: whoever may still act on it
\* owns it (the handlers bind shared_from_this(), session.ipp:132, 162, 217).
NothingAfterDeath == [][alive]_vars

\* What the inductive invariant adds: a read ends with end_of_stream only when
\* an end of the connection was taken down, and a parser that yielded its
\* message is known by its mark.
EofSeen     == read = "end_of_stream" => socket # "open" \/ peer # "up"
ParserSpent == dispatched # <<>> => parser.released

SInv == /\ QInv /\ TypeOK
        /\ NoIdleTimer
        /\ ShutdownHasCause /\ EofSeen
        /\ WholeDispatchedOnce /\ ParserSpent

\* Every session comes to an end when the user sets a deadline for each
\* operation, waits for it before the next, and lets the context go.
SessionEnds == <>~alive

\* A read that was asked for with a duration does not wait longer than that.
TimedReadEnds ==
  (read = "pending" /\ "read" \in deadlines) ~> read # "pending"

\* A message sent with a duration is written, or fails to be, within it, as
\* long as the queue was not given up before.
TimedWriteEnds ==
  \A m \in Message : (m \in deadlines /\ ~halted) ~> (m \notin deadlines \/ halted)

\* With a peer that is still there, on_error is told of a timeout only while an
\* operation that was called with a duration has not been completed.
TimeoutOnlyWhileOutstanding ==
  [][ (peer = "up" /\ "timed_out" \in errors' \ errors) => deadlines # {} ]_vars

\* The user's handlers are run for a message that was received, not for what
\* a failed read left behind.
HandlersOnlyForMessages ==
  \A i \in DOMAIN dispatched : dispatched[i] \in {"all", "moved"}

\* After a read that received a whole message, the next one receives a message
\* of its own, and does not hand the dispatcher the remains of the first.
EveryReadHasItsMessage ==
  (dispatched # <<>> /\ dispatched[1] = "all") =>
    \A i \in DOMAIN dispatched : dispatched[i] # "moved"
=============================================================================
