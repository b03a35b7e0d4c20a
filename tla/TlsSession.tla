----------------------------- MODULE TlsSession -----------------------------
(***************************************************************************)
(* One TLS session.  It is a plain session that starts with a handshake:   *)
(* the static recv() and send() dispatch handshake(func), and func, the    *)
(* first recv() or send(), is called when the handshake succeeded.  The    *)
(* handshake has no timeout: nobody calls do_handshake with a duration.    *)
(*                                                                         *)
(* A TLS stream tells less of its end: bytes that stop without the peer's  *)
(* close_notify, which neither side's shutdown() sends, are an error.      *)
(***************************************************************************)
EXTENDS Session

VARIABLES
  shake,  \* the handshake: dispatched, outstanding, its result, or over
  first   \* the call that func will make

tvars == <<vars, shake, first>>

-----------------------------------------------------------------------------

TlsInit ==
  /\ InitContext
  /\ calls = <<>>
  /\ shake = "called"
  /\ \E d \in Timed, m \in Message :
       IF IsRequest
       THEN first = RecvCall(d) /\ fresh = Message /\ recvs = 1
       ELSE first = SendCall(m, d) /\ fresh = Message \ {m} /\ recvs = 0

Unshaken == UNCHANGED <<shake, first>>

Over == shake \in {"done", "failed"}

\* do_handshake(), before any call that was dispatched behind it.
DoHandshake == /\ shake = "called" /\ shake' = "pending"
               /\ UNCHANGED <<vars, first>>

\* The peer does its part, or something else.
HandshakeEnds ==
  /\ shake = "pending"
  /\ \/ socket = "open" /\ peer = "up" /\ shake' = "ok"
     \/ shake' = "error"
  /\ UNCHANGED <<vars, first>>

\* func, on the strand: its call is dispatched and runs at once.
FirstCall ==
  IF first.op = "recv"
  THEN /\ read' = "pending" /\ UNCHANGED <<qvars, parser, link>>
  ELSE /\ Push(first.msg) /\ UNCHANGED <<input, link>>

FirstOp == IF first.op = "recv" THEN "read" ELSE first.msg

\* Seeded fault: the timer is cancelled last.
OnHandshakeFault ==
  /\ StrandFree
  /\ shake = "ok" /\ shake' = "done"
  /\ FirstCall
  /\ timer' = Cancel(IF first.timed THEN AsyncWait(ExpiresFromNow(timer)) ELSE timer)
  /\ deadlines' = IF first.timed THEN deadlines \cup {FirstOp} ELSE deadlines
  /\ UNCHANGED <<user, calls, alive, peer, dispatched, first>>

\* on_handshake without an error: the timer is cancelled, then func called.
OnHandshake ==
  /\ StrandFree
  /\ shake = "ok" /\ shake' = "done"
  /\ FirstCall
  /\ timer' = IF first.timed THEN AsyncWait(ExpiresFromNow(Cancel(timer))) ELSE Cancel(timer)
  /\ deadlines' = IF first.timed THEN deadlines \cup {FirstOp} ELSE deadlines
  /\ UNCHANGED <<user, calls, alive, peer, dispatched, first>>

\* Seeded fault: func is called whatever the error was.
OnHandshakeErrorFault ==
  /\ StrandFree
  /\ shake = "error" /\ shake' = "failed"
  /\ timer' = Cancel(timer)
  /\ errors' = Report(errors, "handshake")
  /\ read' = IF IsRequest THEN "pending" ELSE read
  /\ UNCHANGED <<qvars, parser, socket, deadlines, user, calls, alive, peer, dispatched, first>>

\* on_handshake with an error, which is never the end_of_stream of Beast: it
\* is reported, and the connection left as it is.
OnHandshakeError ==
  /\ StrandFree
  /\ shake = "error" /\ shake' = "failed"
  /\ timer' = Cancel(timer)
  /\ errors' = Report(errors, "handshake")
  /\ UNCHANGED <<qvars, input, socket, deadlines, user, calls, alive, peer, dispatched, first>>

-----------------------------------------------------------------------------
(* What the stream does differently *)

\* The peer's close_notify, with nothing before it.
TlsReadEof == /\ parser.got = "nothing" /\ ~parser.released
              /\ shake = "done" /\ socket # "closed" /\ peer = "eof"
              /\ read' = "end_of_stream"

\* An end without it, or a stream whose handshake failed.
Truncated == /\ parser.got # "all"
             /\ socket = "shut" \/ peer = "eof" \/ shake = "failed"
             /\ read' = "error"

TlsReadEnds == /\ read = "pending"
               /\ ReadDone \/ TlsReadEof \/ ReadFails \/ Truncated
               /\ UNCHANGED <<qvars, parser, clock, session, peer, shake, first>>

TlsWriteFails(w) ==
  /\ socket # "open" \/ peer = "reset" \/ shake = "failed"
  /\ WriteEnds(w, "error")
  /\ UNCHANGED <<input, clock, session, peer, shake, first>>

\* Bytes of messages pass only between the two ends of a handshake.
Plain ==
  /\ \/ shake = "done" /\ \/ \E part \in Content \ {"nothing"} : PeerSends(part)
                          \/ \E w \in writes : WriteDone(w)
     \/ \E how \in {"eof", "reset"} : PeerCloses(how)
     \/ Tick \/ WaitExpires
  /\ Unshaken

-----------------------------------------------------------------------------

TlsStrandStep == \/ DoHandshake \/ OnHandshake \/ OnHandshakeError
                 \/ /\ shake # "called" /\ StrandStep /\ Unshaken

\* Without Overlap, the user waits for the handshake too.
TlsUserStep == Unshaken /\ (DropContext \/ ((Over \/ Overlap) /\ UserStep))

TlsDestroy == Over /\ Destroy /\ Unshaken

TlsNext == \/ TlsStrandStep \/ TlsUserStep \/ TlsDestroy
           \/ HandshakeEnds \/ TlsReadEnds \/ Plain
           \/ \E w \in writes : TlsWriteFails(w)

TlsSpec == TlsInit /\ [][TlsNext]_tvars

\* As for a plain session.  Nothing ends a handshake the peer leaves alone,
\* but on a connection that is gone it fails.
TlsFairness ==
  /\ WF_tvars(TlsStrandStep)
  /\ WF_tvars(HandlerReturn /\ Unshaken) /\ WF_tvars(DropContext /\ Unshaken)
  /\ WF_tvars(TlsDestroy)
  /\ WF_tvars(TlsReadEnds) /\ WF_tvars(\E w \in writes : TlsWriteFails(w))
  /\ WF_tvars(Tick /\ Unshaken) /\ WF_tvars(WaitExpires /\ Unshaken)
  /\ WF_tvars((socket # "open" \/ peer # "up") /\ HandshakeEnds)

TlsFairSpec == TlsSpec /\ TlsFairness

-----------------------------------------------------------------------------
(* Properties *)

\* The invariant of a plain session holds of a TLS session: no wait of the
\* timer without an operation to cut short, a cause for every shutdown, at
\* most one dispatch of a message; and an impl lives until its handshake is
\* over (the handler of the handshake owns it, session.ipp:252).
TlsInv ==
  /\ SInv
  /\ shake \in {"called", "pending", "ok", "error", "done", "failed"}
  /\ first \in Call
  /\ ~alive => Over

\* What was to follow the handshake does not follow one that failed: a server
\* runs no handler for that peer, a client does not send its request
\* (session.ipp:255-258).
FailedHandshakeStartsNothing ==
  shake \in {"error", "failed"} =>
    IF IsRequest THEN read = "none" /\ dispatched = <<>>
    ELSE \A i \in DOMAIN accepted : accepted[i] # first.msg

\* The impl dies with its work done, but for the message of a client whose
\* handshake failed: what the user handed to send() was written, or the stream
\* was given up, and no handler of the timer is due (session.ipp:247-293).
TlsDiesIdle ==
  ~alive =>
    /\ wire = accepted \/ halted
    /\ NoWaiter(timer)
    /\ fresh \cup {accepted[i] : i \in DOMAIN accepted}
             \cup (IF shake = "failed" /\ ~IsRequest THEN {first.msg} ELSE {}) = Message

\* A TLS session whose handshake is over comes to an end when its user sets a
\* deadline for each operation, waits for it before the next, and lets the
\* context go: the handshake's cancel() takes no other timeout away
\* (session.ipp:282).
TlsSessionEnds == Over ~> ~alive
=============================================================================
