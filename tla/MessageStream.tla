--------------------------- MODULE MessageStream ---------------------------
(***************************************************************************)
(* What a session promises about the messages handed to send(): they are   *)
(* put on the connection in the order in which they were accepted, each of *)
(* them once, one at a time and without waiting for anything but the one   *)
(* before it, until the stream is closed; a closed stream accepts messages *)
(* and transmits none.                                                     *)
(***************************************************************************)
EXTENDS Naturals, Sequences

CONSTANT Message

VARIABLES
  accepted,  \* every message accepted so far, in order
  sent,      \* those whose transmission was started, in order
  busy,      \* a transmission is in progress
  closed     \* the stream was given up

svars == <<accepted, sent, busy, closed>>

StreamInit == /\ accepted = <<>>
              /\ sent = <<>>
              /\ busy = FALSE
              /\ closed = FALSE

Accept(m) ==
  /\ accepted' = Append(accepted, m)
  /\ \/ ~busy /\ ~closed /\ busy' = TRUE /\ sent' = Append(sent, m)
     \/ (busy \/ closed) /\ UNCHANGED <<busy, sent>>
  /\ UNCHANGED closed

\* The transmission ends: the next accepted message follows, if there is one.
Finish ==
  /\ busy
  /\ \/ /\ sent = accepted
        /\ busy' = FALSE
        /\ UNCHANGED sent
     \/ /\ Len(sent) < Len(accepted)
        /\ sent' = Append(sent, accepted[Len(sent) + 1])
        /\ UNCHANGED busy
  /\ UNCHANGED <<accepted, closed>>

Close == /\ busy
         /\ busy' = FALSE
         /\ closed' = TRUE
         /\ UNCHANGED <<accepted, sent>>

StreamNext == (\E m \in Message : Accept(m)) \/ Finish \/ Close

StreamSpec == StreamInit /\ [][StreamNext]_svars
=============================================================================
