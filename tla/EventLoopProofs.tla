--------------------------- MODULE EventLoopProofs ---------------------------
(***************************************************************************)
(* LInv, and StopJoins with it, for any number of threads; and what        *)
(* becomes of a stop() on a thread of the pool.                            *)
(***************************************************************************)
EXTENDS EventLoop, TLAPS

\* The thread outside is no thread of the loop, and Main none of the pool.
LEMMA Threads == /\ Main \notin Pool /\ Outside \notin Thread
                 /\ Pool \subseteq Nat \ {0} /\ Thread \subseteq Anybody
                 /\ Pool \subseteq Thread /\ m_threads_num \in Nat /\ Main \in Thread /\ Outside \in Anybody
  BY ThreadsAssumption DEF ThreadsAssumption, Main, Pool, Outside, Thread, Anybody

\* The initial states satisfy the invariant.
LEMMA LoopInitInv == LoopInit => LInv
  <1> SUFFICES ASSUME LoopInit PROVE LInv
    OBVIOUS
  <1> USE DEF LoopInit
  <1>1. LTypeOK
    <2>1. 1 \in 1 .. (m_threads_num + 1) /\ 0 \in 0 .. m_threads_num
      BY Threads
    <2>2. at \in [Anybody -> {"out", "exec", "run", "handler", "stop", "gone"}]
      OBVIOUS
    <2> QED
      BY <2>1, <2>2 DEF LTypeOK
  <1>2. StopJoins
    BY Threads DEF StopJoins
  <1> QED
    BY <1>1, <1>2, Threads DEF LInv

\* Every step of exec() keeps the invariant.
LEMMA StartingInv == LInv /\ Starting => LInv'
  <1> SUFFICES ASSUME LInv, Starting PROVE LInv'
    OBVIOUS
  <1> USE DEF LInv, LTypeOK, StopJoins
  <1>1. CASE Exec
    BY <1>1, Threads DEF Exec, Moves
  <1>2. CASE CreateThread
    <2> USE <1>2 DEF CreateThread, Moves
    <2>1. created' \in Pool /\ at[created'] = "out" /\ created' = created + 1
      OBVIOUS
    <2>2. at' = [at EXCEPT ![created'] = "run"]
      OBVIOUS
    <2>3. LTypeOK'
      BY <2>1, <2>2, Threads DEF Pool
    <2>4. StopJoins'
      BY <2>1, <2>2, Threads
    <2>5. \A t \in Anybody : at'[t] = "stop" => at[t] = "stop"
      BY <2>1, <2>2, Threads
    <2>6. \A j \in Pool : j > created' => at'[j] = "out"
      BY <2>1, <2>2, Threads DEF Pool
    <2>7. created' + 1 \in Pool => at'[Main] \in {"out", "exec"}
      BY <2>1, <2>2, Threads
    <2> QED
      BY <2>1, <2>2, <2>3, <2>4, <2>5, <2>6, <2>7, Threads
  <1>3. CASE RunMain
    BY <1>3, Threads DEF RunMain, Moves
  <1> QED
    BY <1>1, <1>2, <1>3 DEF Starting

\* Every step towards an end keeps it.
LEMMA EndingInv == ASSUME NEW t \in Anybody PROVE LInv /\ Ending(t) => LInv'
  <1> SUFFICES ASSUME LInv, Ending(t) PROVE LInv'
    OBVIOUS
  <1> USE DEF LInv, LTypeOK, StopJoins
  <1>1. CASE t \in Thread /\ RunReturns(t)
    BY <1>1, Threads DEF RunReturns, Moves
  <1>2. CASE Join(t)
    <2> USE <1>2 DEF Join
    <2>1. joins[t] \in Nat /\ joins[t] + 1 <= m_threads_num + 1
      BY Threads
    <2>2. \A u \in Anybody : joins'[u] = IF u = t THEN joins[t] + 1 ELSE joins[u]
      OBVIOUS
    <2>3. LTypeOK'
      BY <2>1, <2>2
    <2>4. ASSUME NEW u \in Anybody, at'[u] = "stop", NEW j \in Pool, j < joins'[u]
          PROVE  at'[j] = "gone"
      <3>1. j < joins[u] \/ (u = t /\ j = joins[t])
        BY <2>1, <2>2, <2>4, Threads
      <3> QED
        BY <3>1, <2>4
    <2> QED
      BY <2>3, <2>4
  <1>3. CASE StopReturns(t)
    <2> USE <1>3 DEF StopReturns, Moves
    <2>1. \A j \in Pool : j < joins[t] \/ j > created
      BY Threads DEF Pool
    <2>2. t = Outside => \A j \in Pool : at[j] \in {"gone", "out"}
      BY <2>1
    <2>3. StopJoins'
      BY <2>2, Threads
    <2> QED
      BY <2>3, Threads
  <1>4. CASE JoinSelf(t)
    BY <1>4, Threads DEF JoinSelf
  <1> QED
    BY <1>1, <1>2, <1>3, <1>4 DEF Ending

\* Every step of a handler, of a signal and of a caller of stop() keeps it.
LEMMA HandlerInv == LInv /\ LoopNext => LInv'
  <1> SUFFICES ASSUME LInv, LoopNext PROVE LInv'
    OBVIOUS
  <1> USE DEF LInv, LTypeOK, StopJoins
  <1>1. CASE LoopStep
    <2>1. CASE \E t \in Thread : OnSignal(t)
      BY <2>1, Threads DEF OnSignal
    <2> QED
      BY <1>1, <2>1, StartingInv, EndingInv DEF LoopStep
  <1>2. CASE Signal
    BY <1>2 DEF Signal
  <1>3. ASSUME NEW t \in Thread, Begin(t) PROVE LInv'
    BY <1>3, Threads DEF Begin, Moves
  <1>4. ASSUME NEW t \in Thread, End(t) PROVE LInv'
    BY <1>4, Threads DEF End, Moves
  <1>5. ASSUME NEW t \in Thread, Throw(t) PROVE LInv'
    <2>1. CASE t = Main
      BY <1>5, <2>1, Threads DEF Throw, Moves
    <2>2. CASE t # Main
      BY <1>5, <2>2, Threads DEF Throw, Moves
    <2> QED
      BY <2>1, <2>2
  <1>6. ASSUME NEW t \in Anybody, Stop(t) PROVE LInv'
    <2> USE <1>6 DEF Stop, Moves
    <2>1. stopped' /\ at' = [at EXCEPT ![t] = "stop"] /\ at[t] \in {"out", "handler"}
      OBVIOUS
    <2>2. t \in Pool => at[t] = "handler"
      BY Threads
    <2>3. LTypeOK'
      BY <2>1, Threads
    <2>4. StopJoins'
      BY <2>1, <2>2, Threads
    <2>5. ASSUME NEW u \in Anybody, at'[u] = "stop", NEW j \in Pool, j < joins'[u]
          PROVE  at'[j] = "gone"
      <3>1. u # t
        BY <2>5, Threads
      <3> QED
        BY <3>1, <2>1, <2>5, Threads
    <2>6. \A j \in Pool : j > created => at'[j] = "out"
      BY <2>1, <2>2, Threads
    <2>7. created + 1 \in Pool => at'[Main] \in {"out", "exec"}
      BY <2>1, Threads
    <2> QED
      BY <2>1, <2>3, <2>4, <2>5, <2>6, <2>7, Threads
  <1> QED
    BY <1>1, <1>2, <1>3, <1>4, <1>5, <1>6 DEF LoopNext

\* The invariant of the event loop holds, for every number of threads
\* (event_loop.ipp:26-53).
THEOREM LoopInvariant == LoopSpec => []LInv
  <1>1. LInv /\ [LoopNext]_lvars => LInv'
    <2>1. CASE UNCHANGED lvars
      BY <2>1 DEF lvars, LInv, LTypeOK, StopJoins
    <2> QED
      BY <2>1, HandlerInv
  <1> QED
    BY <1>1, LoopInitInv, PTL DEF LoopSpec

\* When stop() has returned to a thread outside, no handler runs on the pool
\* any more (event_loop.ipp:28-29).
THEOREM LoopStopJoins == LoopSpec => []StopJoins
  <1>1. LInv => StopJoins
    BY DEF LInv
  <1> QED
    BY <1>1, LoopInvariant, PTL

-----------------------------------------------------------------------------
(* A stop() on a thread of the pool *)

\* A thread of the pool in join_all() has not gone past itself.
PoolJoins == \A t \in Pool : at[t] = "stop" => joins[t] <= t

LEMMA PoolJoinsStep == LInv /\ PoolJoins /\ [LoopNext]_lvars => PoolJoins'
<1> SUFFICES ASSUME LInv, PoolJoins, [LoopNext]_lvars PROVE PoolJoins'
  OBVIOUS
<1>1. /\ at \in [Anybody -> {"out", "exec", "run", "handler", "stop", "gone"}]
      /\ joins \in [Anybody -> 1 .. (m_threads_num + 1)]
      /\ Pool \subseteq Anybody
  BY Threads DEF LInv, LTypeOK
<1>2. ASSUME NEW t \in Anybody, Stop(t) PROVE PoolJoins'
  <2>1. /\ joins' = [joins EXCEPT ![t] = 1] /\ at' = [at EXCEPT ![t] = "stop"]
    BY <1>2 DEF Stop, Moves
  <2>2. \A u \in Pool : 1 <= u
    BY Threads DEF Pool
  <2> QED
    BY <1>1, <2>1, <2>2 DEF PoolJoins
<1>3. ASSUME NEW t \in Anybody, Join(t) PROVE PoolJoins'
  <2>1. /\ at' = at /\ joins[t] # t
        /\ \A u \in Anybody : joins'[u] = IF u = t THEN joins[t] + 1 ELSE joins[u]
    BY <1>1, <1>3 DEF Join
  <2>2. \A u \in Pool : u \in Int /\ joins[u] \in Int
    BY <1>1, Threads
  <2> QED
    BY <1>1, <2>1, <2>2 DEF PoolJoins
<1>4. ASSUME joins' = joins, \A t \in Pool : at'[t] = "stop" => at[t] = "stop"
      PROVE  PoolJoins'
  BY <1>4 DEF PoolJoins
<1>5. ASSUME joins' = joins, NEW t \in Anybody, NEW from, NEW to, Moves(t, from, to), to # "stop"
      PROVE  PoolJoins'
  BY <1>1, <1>4, <1>5 DEF Moves
<1>6. CASE Starting
  <2>1. CASE CreateThread
    <3>1. created' \in Anybody
      BY <1>1, <2>1 DEF CreateThread
    <3> QED
      BY <1>5, <2>1, <3>1 DEF CreateThread
  <2> QED
    BY <1>5, <1>6, <2>1, Threads DEF Starting, Exec, RunMain
<1>7. ASSUME NEW t \in Anybody, Ending(t) PROVE PoolJoins'
  BY <1>3, <1>4, <1>5, <1>7 DEF Ending, RunReturns, StopReturns, JoinSelf
<1>8. ASSUME NEW t \in Thread, Begin(t) \/ End(t) \/ Throw(t) \/ OnSignal(t) PROVE PoolJoins'
  BY <1>4, <1>5, <1>8, Threads DEF Begin, End, Throw, OnSignal
<1>9. CASE Signal \/ UNCHANGED lvars
  BY <1>4, <1>9 DEF Signal, lvars
<1> QED
  BY <1>2, <1>6, <1>7, <1>8, <1>9 DEF LoopNext, LoopStep

LEMMA PoolJoinsInvariant == LoopSpec => []PoolJoins
<1>1. LoopInit => PoolJoins
  BY Threads DEF LoopInit, PoolJoins
<1> QED
  BY <1>1, PoolJoinsStep, LoopInvariant, PTL DEF LoopSpec

\* A stop() that is called by a handler on a thread of the pool does not
\* return: sooner or later join_all() meets the calling thread, at the latest
\* when all others are done (event_loop.ipp:28-29).
THEOREM PoolStopNeverReturns ==
  LoopSpec => [][\A t \in Pool : at[t] = "stop" => at'[t] = "stop"]_lvars
<1>1. LInv /\ PoolJoins /\ [LoopNext]_lvars
        => [\A t \in Pool : at[t] = "stop" => at'[t] = "stop"]_lvars
  <2> SUFFICES ASSUME LInv, PoolJoins, LoopNext, NEW u \in Pool, at[u] = "stop"
               PROVE  at'[u] = "stop"
    OBVIOUS
  <2>1. /\ at \in [Anybody -> {"out", "exec", "run", "handler", "stop", "gone"}]
        /\ u \in Anybody
    BY Threads DEF LInv, LTypeOK
  <2>2. ~StopReturns(u)
    <3>1. u <= created /\ joins[u] <= u /\ u \in Int /\ created \in Int /\ joins[u] \in Int
      BY <2>1, Threads DEF LInv, LTypeOK, PoolJoins
    <3> QED
      BY <3>1 DEF StopReturns
  <2>3. ASSUME NEW t \in Anybody, NEW from, NEW to, Moves(t, from, to), t # u \/ from # "stop"
        PROVE  at'[u] = "stop"
    BY <2>1, <2>3 DEF Moves
  <2>4. CASE Starting
    <3>1. CASE CreateThread
      <4>1. created' \in Anybody
        BY <3>1, Threads DEF CreateThread
      <4> QED
        BY <2>3, <3>1, <4>1 DEF CreateThread
    <3> QED
      BY <2>3, <2>4, <3>1, Threads DEF Starting, Exec, RunMain
  <2>5. ASSUME NEW t \in Anybody, Ending(t) PROVE at'[u] = "stop"
    BY <2>2, <2>3, <2>5 DEF Ending, RunReturns, Join, StopReturns, JoinSelf
  <2>6. ASSUME NEW t \in Thread, Begin(t) \/ End(t) \/ Throw(t) \/ OnSignal(t) PROVE at'[u] = "stop"
    BY <2>3, <2>6, Threads DEF Begin, End, Throw, OnSignal
  <2>7. ASSUME NEW t \in Anybody, Stop(t) PROVE at'[u] = "stop"
    BY <2>3, <2>7 DEF Stop
  <2> QED
    BY <2>4, <2>5, <2>6, <2>7 DEF LoopNext, LoopStep, Signal
<1> QED
  BY <1>1, LoopInvariant, PoolJoinsInvariant, PTL DEF LoopSpec
=============================================================================
