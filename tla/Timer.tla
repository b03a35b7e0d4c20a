------------------------------- MODULE Timer -------------------------------
(***************************************************************************)
(* The session timer, class timer of common/timer.hpp around an Asio       *)
(* steady_timer.  Its state is a record, its operations are functions on   *)
(* that record, so that a handler that performs several of them in a row   *)
(* composes them.                                                          *)
(*                                                                         *)
(* Time is abstracted to what the code tests: whether the expiry lies in   *)
(* the future or has been reached ("never" is the time_point::max() of the *)
(* constructor).  A wait that ends leaves its handler in `due`, by the     *)
(* error code the handler will get, until the strand runs it.  Asio ends a *)
(* wait of a steady_timer with success or with operation_aborted only.     *)
(***************************************************************************)
EXTENDS Naturals

TimerState == [expiry  : {"never", "future", "past"},
               waiting : BOOLEAN,
               due     : [ok : Nat, aborted : Nat]]

NewTimer == [expiry  |-> "never",
             waiting |-> FALSE,
             due     |-> [ok |-> 0, aborted |-> 0]]

\* cancel(): the outstanding wait ends with operation_aborted; the expiry
\* time is left as it was.
Cancel(t) ==
  IF t.waiting
  THEN [expiry  |-> t.expiry,
        waiting |-> FALSE,
        due     |-> [ok |-> t.due.ok, aborted |-> t.due.aborted + 1]]
  ELSE t

\* expires_from_now(): cancels like cancel() and moves the expiry time.
ExpiresFromNow(t) == [Cancel(t) EXCEPT !.expiry = "future"]

\* async_wait(): one more outstanding wait, for the expiry set before.
AsyncWait(t) == [t EXCEPT !.waiting = TRUE]

\* The clock reaches the expiry time.
Elapsed(t) == [t EXCEPT !.expiry = "past"]

\* The expiry is in the past: the outstanding wait ends with success.
Fired(t) ==
  [expiry  |-> t.expiry,
   waiting |-> FALSE,
   due     |-> [ok |-> t.due.ok + 1, aborted |-> t.due.aborted]]

\* The strand takes a wait handler that ended in success, or one aborted.
TakeOk(t) == [t EXCEPT !.due = [ok |-> @.ok - 1, aborted |-> @.aborted]]

\* Seeded fault: the results are mixed up.
TakeAbortedFault(t) == TakeOk(t)
TakeAborted(t) == [t EXCEPT !.due = [ok |-> @.ok, aborted |-> @.aborted - 1]]

NoWaiter(t) == ~t.waiting /\ t.due.ok = 0 /\ t.due.aborted = 0
=============================================================================
