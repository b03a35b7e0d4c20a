----------------------------- MODULE EventLoop -----------------------------
(***************************************************************************)
(* event_loop: an io_context, the threads that run it, and the signals     *)
(* that stop it.  exec() makes one thread less than m_threads_num and runs *)
(* the loop itself; stop() may be called by a handler on any of them, or   *)
(* from outside.  What the handlers do is the business of App.tla; here a  *)
(* thread is in a handler or between two.                                  *)
(***************************************************************************)
EXTENDS Integers

CONSTANT m_threads_num

ASSUME ThreadsAssumption == m_threads_num \in Nat

VARIABLES
  stopped,  \* m_ioc.stopped()
  created,  \* the size of m_threads
  at,       \* per thread: where it is
  joins,    \* per thread in stop(): the thread that join_all waits for next
  signals,  \* m_sig_int_term: the wait for SIGINT and SIGTERM
  aborted   \* an exception left a thread of m_threads: std::terminate()

lvars == <<stopped, created, at, joins, signals, aborted>>

Main    == 0                       \* the thread that calls exec()
Pool    == 1 .. m_threads_num - 1  \* m_threads, in the order of creation
Outside == m_threads_num + 1       \* a thread that calls stop() from outside
Thread  == {Main} \cup Pool
Anybody == {Outside} \cup Thread

-----------------------------------------------------------------------------

\* Each thread is "out" before it enters the loop and "gone" after it.
LoopInit == /\ stopped = FALSE
            /\ created = 0
            /\ at = [t \in Anybody |-> "out"]
            /\ joins = [t \in Anybody |-> 1]
            /\ signals = "none"
            /\ aborted = FALSE

Moves(t, from, to) == at[t] = from /\ at' = [at EXCEPT ![t] = to]

\* exec(): the wait for signals, then the threads, then this thread.
Exec == /\ Moves(Main, "out", "exec")
        /\ signals' = "armed"
        /\ UNCHANGED <<stopped, created, joins, aborted>>

\* create_thread() and join_all() exclude each other by a mutex of the group.
CreateThread == /\ at[Main] = "exec" /\ created + 1 \in Pool
                /\ \A t \in Anybody : at[t] # "stop"
                /\ created' = created + 1
                /\ Moves(created', "out", "run")
                /\ UNCHANGED <<stopped, joins, signals, aborted>>

RunMain == /\ created + 1 \notin Pool
           /\ Moves(Main, "exec", "run")
           /\ UNCHANGED <<stopped, created, joins, signals, aborted>>

\* io_context::run() takes a handler that is due, unless it was stopped.
Begin(t) == /\ ~stopped
            /\ Moves(t, "run", "handler")
            /\ UNCHANGED <<stopped, created, joins, signals, aborted>>

End(t) == /\ Moves(t, "handler", "run")
          /\ UNCHANGED <<stopped, created, joins, signals, aborted>>

\* exec() returns with the run() of its thread and leaves the others to stop().
RunReturns(t) == /\ stopped
                 /\ Moves(t, "run", "gone")
                 /\ UNCHANGED <<stopped, created, joins, signals, aborted>>

Signal == /\ signals = "armed" /\ signals' = "due"
          /\ UNCHANGED <<stopped, created, at, joins, aborted>>

\* Seeded fault: the handler returns without stopping the context.
OnSignalFault(t) == /\ at[t] = "run" /\ ~stopped
                    /\ signals = "due" /\ signals' = "none"
                    /\ UNCHANGED <<stopped, at, created, joins, aborted>>

\* The handler of the signal, all of it.
OnSignal(t) == /\ at[t] = "run" /\ ~stopped
               /\ signals = "due" /\ signals' = "none"
               /\ stopped' = TRUE
               /\ UNCHANGED <<at, created, joins, aborted>>

\* Seeded fault: nobody is waited for.
StopFault(t) == /\ stopped' = TRUE
                /\ IF t = Outside THEN Moves(t, "out", "gone") ELSE Moves(t, "handler", "handler")
                /\ UNCHANGED <<created, joins, signals, aborted>>

\* Seeded fault: the context goes on while its threads are waited for.
StopGoesOnFault(t) == /\ Moves(t, IF t = Outside THEN "out" ELSE "handler", "stop")
                      /\ joins' = [joins EXCEPT ![t] = 1]
                      /\ UNCHANGED <<stopped, created, signals, aborted>>

\* stop(): the context is stopped; the thread goes on to join_all().
Stop(t) == /\ stopped' = TRUE
           /\ Moves(t, IF t = Outside THEN "out" ELSE "handler", "stop")
           /\ joins' = [joins EXCEPT ![t] = 1]
           /\ UNCHANGED <<created, signals, aborted>>

\* Seeded fault: a thread in a handler is not waited for.
JoinFault(t) == /\ at[t] = "stop" /\ joins[t] <= created /\ joins[t] # t
                /\ joins' = [joins EXCEPT ![t] = @ + 1]
                /\ UNCHANGED <<stopped, created, at, signals, aborted>>

\* join_all(), one thread after the other.
Join(t) == /\ at[t] = "stop" /\ joins[t] <= created /\ joins[t] # t
           /\ at[joins[t]] = "gone"
           /\ joins' = [joins EXCEPT ![t] = @ + 1]
           /\ UNCHANGED <<stopped, created, at, signals, aborted>>

StopReturns(t) == /\ joins[t] > created
                  /\ Moves(t, "stop", IF t = Outside THEN "gone" ELSE "handler")
                  /\ UNCHANGED <<stopped, created, joins, signals, aborted>>

\* A thread cannot join itself: join() throws in a thread of the pool, out of
\* stop() and, as no callback here catches it, out of the thread.
JoinSelf(t) == /\ at[t] = "stop" /\ joins[t] <= created /\ joins[t] = t
               /\ aborted' = TRUE
               /\ UNCHANGED <<stopped, created, at, joins, signals>>

\* Seeded fault: no thread can throw.
ThrowFault(t) == /\ at[t] = "handler"
                 /\ aborted' = TRUE
                 /\ UNCHANGED <<stopped, created, at, joins, signals>>

\* A handler throws: exec() throws too, a thread of the pool cannot.
Throw(t) == /\ at[t] = "handler"
            /\ IF t = Main THEN Moves(t, "handler", "gone") /\ UNCHANGED aborted
                           ELSE aborted' = TRUE /\ UNCHANGED at
            /\ UNCHANGED <<stopped, created, joins, signals>>

Starting == Exec \/ CreateThread \/ RunMain

Ending(t) == \/ t \in Thread /\ RunReturns(t)
             \/ Join(t) \/ StopReturns(t) \/ JoinSelf(t)

LoopStep == \/ Starting
            \/ \E t \in Thread : OnSignal(t)
            \/ \E t \in Anybody : Ending(t)

LoopNext == ~aborted /\ \/ LoopStep \/ Signal
                        \/ \E t \in Thread : Begin(t) \/ End(t) \/ Throw(t)
                        \/ \E t \in Anybody : Stop(t)

LoopSpec == LoopInit /\ [][LoopNext]_lvars

-----------------------------------------------------------------------------

LTypeOK == /\ stopped \in BOOLEAN /\ aborted \in BOOLEAN
           /\ created \in 0 .. m_threads_num
           /\ at \in [Anybody -> {"out", "exec", "run", "handler", "stop", "gone"}]
           /\ joins \in [Anybody -> 1 .. (m_threads_num + 1)]
           /\ signals \in {"none", "armed", "due"}

\* After a stop() from outside has returned no handler runs on a thread of
\* the pool, and none will: what the handlers use may be destroyed (but for
\* what the thread in exec() may still be running).  exec() may be making
\* threads all the while (event_loop.ipp:28-29 and 46-48).
StopJoins == at[Outside] = "gone" => \A t \in Pool : at[t] \notin {"handler", "stop"}

LInv == /\ LTypeOK
        /\ StopJoins
        /\ \A t \in Anybody : at[t] = "stop" => stopped
        /\ at[Outside] = "gone" => stopped
        /\ \A t \in Anybody : at[t] = "stop" =>
             \A j \in Pool : j < joins[t] => at[j] = "gone"
        /\ \A j \in Pool : j > created => at[j] = "out"
        /\ created + 1 \in Pool => at[Main] \in {"out", "exec"}
=============================================================================
