------------------------------ MODULE AppProofs ------------------------------
(***************************************************************************)
(* A program on the library is one of the runs of EventLoop, for any       *)
(* number of threads and whatever its callbacks do, so what is proved of   *)
(* the loop holds of it; and the connector keeps its promises in it.       *)
(***************************************************************************)
EXTENDS App, EventLoopProofs, SequenceTheorems

\* Only threads of the loop run callbacks; a connector that is not done has
\* told nothing, and one that is has told its user, if it can report errors.
UInv ==
  /\ InUser \subseteq Thread
  /\ outcome \in {<<>>, <<"error">>, <<"socket">>}
  /\ stage # "ended" => outcome = <<>>
  /\ stage = "ended" /\ HasOnError => outcome # <<>>

\* A socket or an error, told to someone who had been told nothing.
LEMMA Tellings == /\ Append(<<>>, "error") = <<"error">>
                  /\ Append(<<>>, "socket") = <<"socket">>
                  /\ <<"error">> # <<>> /\ <<"socket">> # <<>>
  OBVIOUS

LEMMA FailInv ==
  ASSUME NEW t \in Thread, UInv, stage # "ended", stage' = "ended", Fail(t),
         UNCHANGED spawning
  PROVE  UInv'
  BY Tellings DEF UInv, Fail, InUser

\* The connector's own steps.
LEMMA ConnectorInv ==
  ASSUME UInv, UNCHANGED spawning,
         \/ Connect \/ Destroy \/ ResolveEnds \/ ConnectEnds
         \/ \E t \in Thread : \/ ResolveFailed(t) \/ Resolved(t)
                              \/ ConnectFailed(t) \/ Connected(t)
  PROVE  UInv'
  <1>1. CASE Connect \/ ResolveEnds
    BY <1>1 DEF UInv, InUser, Connect, DoResolve, ResolveEnds
  <1>2. CASE ConnectEnds
    BY <1>2, Tellings DEF UInv, InUser, ConnectEnds
  <1>3. CASE Destroy
    BY <1>3 DEF UInv, InUser, Destroy
  <1>4. ASSUME NEW t \in Thread, ResolveFailed(t) \/ ConnectFailed(t) PROVE UInv'
    BY <1>4, FailInv DEF ResolveFailed, ConnectFailed
  <1>5. ASSUME NEW t \in Thread, Resolved(t) PROVE UInv'
    BY <1>5 DEF UInv, InUser, Resolved
  <1>6. ASSUME NEW t \in Thread, Connected(t) PROVE UInv'
    BY <1>6, Tellings DEF UInv, InUser, Connected
  <1> QED
    BY <1>1, <1>2, <1>3, <1>4, <1>5, <1>6

\* A step of the listener gives callbacks to threads of the loop only.
LEMMA ListenerInv ==
  ASSUME UInv, UNCHANGED cvars, spawning' \subseteq spawning \cup Thread
  PROVE  UInv'
  BY DEF UInv, InUser, cvars

LEMMA AppStepInv == UInv /\ [Next]_vars => UInv'
  <1> SUFFICES ASSUME UInv, [Next]_vars PROVE UInv'
    OBVIOUS
  <1>1. CASE UNCHANGED <<avars, cvars>>
    BY <1>1, ListenerInv DEF avars, strand
  <1>2. CASE Setup
    <2>1. CASE Launch /\ UNCHANGED cvars
      BY <2>1, ListenerInv DEF Launch, strand
    <2>2. CASE Connect /\ UNCHANGED avars
      BY <2>2, ConnectorInv DEF avars, strand
    <2> QED
      BY <1>2, <2>1, <2>2 DEF Setup
  <1>3. CASE Network
    <2>1. CASE (Arrive \/ AcceptEnds \/ AcceptFails) /\ UNCHANGED cvars
      BY <2>1, ListenerInv DEF Arrive, AcceptEnds, AcceptFails, strand
    <2>2. CASE (ResolveEnds \/ ConnectEnds) /\ UNCHANGED avars
      BY <2>2, ConnectorInv DEF avars, strand
    <2> QED
      BY <1>3, <2>1, <2>2 DEF Network
  <1>4. CASE Owner
    BY <1>4, ConnectorInv DEF Owner, avars, strand
  <1>5. ASSUME NEW t \in Thread, RunAccept(t) \/ RunNextAccept(t) PROVE UInv'
    BY <1>5, ListenerInv DEF RunAccept, RunNextAccept, OnAccept, NextAccept, strand
  <1>6. ASSUME NEW t \in Thread, RunSpawn(t) PROVE UInv'
    <2>1. spawning' = spawning \cup {t}
      BY <1>6 DEF RunSpawn, OnSpawnConnect, Spawn
    <2> QED
      BY <1>6, <2>1, ListenerInv DEF RunSpawn
  <1>7. ASSUME NEW t \in Thread, RunConnector(t) PROVE UInv'
    BY <1>7, ConnectorInv DEF RunConnector, avars, strand
  <1>8. ASSUME NEW t \in Anybody, Leave(t) PROVE UInv'
    <2>1. CASE Spawned(t) /\ UNCHANGED cvars
      BY <2>1, ListenerInv DEF Spawned
    <2>2. CASE Told(t) /\ UNCHANGED avars
      BY <2>2 DEF Told, UInv, InUser, avars, strand
    <2> QED
      BY <1>8, <2>1, <2>2 DEF Leave
  <1>9. ASSUME NEW t \in Anybody, UserClose(t) PROVE UInv'
    BY <1>9, ListenerInv DEF UserClose, Close, strand
  <1> QED
    BY <1>1, <1>2, <1>3, <1>4, <1>5, <1>6, <1>7, <1>8, <1>9
    DEF Next, Loop, SomebodySignals, Work, Callback, UserStop, UserReturn, UserThrow, vars

\* What the program does to its loop is a step of the loop.
LEMMA AppUsesLoop == UInv /\ [Next]_vars => [LoopNext]_lvars
  <1> SUFFICES ASSUME UInv, Next PROVE LoopNext \/ UNCHANGED lvars
    BY DEF vars
  <1>1. ~aborted
    BY DEF Next
  <1>2. CASE Setup \/ Network \/ Owner
    BY <1>2 DEF Setup, Network, Owner
  <1>3. CASE Loop \/ SomebodySignals
    BY <1>1, <1>3 DEF Loop, SomebodySignals, LoopNext
  <1>4. ASSUME NEW t \in Thread, Work(t) PROVE LoopNext \/ UNCHANGED lvars
    BY <1>1, <1>4 DEF Work, RunAccept, RunNextAccept, RunSpawn, RunConnector, LoopNext
  <1>5. ASSUME NEW t \in Anybody, UserReturn(t) \/ UserThrow(t) PROVE LoopNext
    <2>1. t \in InUser
      BY <1>5 DEF UserReturn, UserThrow, Leave, Spawned, Told, InUser
    <2>2. t \in Thread
      BY <2>1 DEF UInv
    <2> QED
      BY <1>1, <1>5, <2>2 DEF UserReturn, UserThrow, LoopNext
  <1>6. ASSUME NEW t \in Anybody, UserStop(t) PROVE LoopNext
    BY <1>1, <1>6 DEF UserStop, LoopNext
  <1>7. ASSUME NEW t \in Anybody, UserClose(t) PROVE UNCHANGED lvars
    BY <1>7 DEF UserClose
  <1> QED
    BY <1>2, <1>3, <1>4, <1>5, <1>6, <1>7 DEF Next, Callback

LEMMA UserInvariant == Spec => []UInv
  <1>1. Init => UInv
    BY DEF Init, ListenerInit, ConnectorInit, UInv, InUser
  <1> QED
    BY <1>1, AppStepInv, PTL DEF Spec

-----------------------------------------------------------------------------
(* The order of connections *)

\* At most one accept exists: pending, with its result due, or about to be
\* started by the thread that is amid on_accept.
OneAccept ==
  /\ accepting # {} => accept = "none"
  /\ \A t, u \in accepting : t = u
  /\ acceptor = "none" => accept = "none" /\ accepting = {}

\* What waits on the strand, and the result that is due behind it, are in the
\* order in which they were accepted, after what was handed over.
OrderInv ==
  /\ spawns \in Seq(Nat) /\ handed \in Seq(Nat) /\ taken \in Nat /\ result \in Nat
  /\ \A i \in DOMAIN handed : handed[i] = i
  /\ Len(handed) <= taken
  /\ \A i \in DOMAIN spawns : spawns[i] # Failure => Len(handed) < spawns[i] /\ spawns[i] <= taken
  /\ \A i, j \in DOMAIN spawns :
       i < j /\ spawns[i] # Failure /\ spawns[j] # Failure => spawns[i] < spawns[j]
  /\ accept = "due" /\ result # Failure =>
       /\ result = taken /\ Len(handed) < taken
       /\ \A i \in DOMAIN spawns : spawns[i] < taken
  /\ \A n \in Nat : Len(handed) < n /\ n <= taken =>
       (accept = "due" /\ result = n) \/ \E i \in DOMAIN spawns : spawns[i] = n

\* The steps in which no result moves.
LEMMA SameOrder ==
  ASSUME OrderInv, UNCHANGED <<spawns, handed, taken>>,
         \/ UNCHANGED <<accept, result>>
         \/ accept # "due" /\ result' = Failure
  PROVE  OrderInv'
<1>1. CASE UNCHANGED <<accept, result>>
  BY <1>1 DEF OrderInv
<1>2. CASE accept # "due" /\ result' = Failure
  BY <1>2 DEF OrderInv, Failure
<1> QED
  BY <1>1, <1>2

LEMMA OnAcceptOrder ==
  ASSUME OrderInv, NEW t, OnAccept(t)
  PROVE  OrderInv'
<1>1. /\ spawns \in Seq(Nat) /\ handed \in Seq(Nat) /\ taken \in Nat /\ result \in Nat
      /\ spawns' = Append(spawns, result) /\ UNCHANGED <<handed, taken, result>>
      /\ accept = "due" /\ accept' = "none"
  BY DEF OrderInv, OnAccept, kernel
<1>2. /\ Len(spawns) \in Nat /\ DOMAIN spawns = 1 .. Len(spawns)
      /\ spawns' \in Seq(Nat) /\ DOMAIN spawns' = 1 .. (Len(spawns) + 1)
      /\ spawns'[Len(spawns) + 1] = result
      /\ \A i \in 1 .. Len(spawns) : spawns'[i] = spawns[i]
  BY <1>1, AppendProperties, LenProperties
<1>3. \A i \in DOMAIN spawns : spawns[i] \in Nat
  BY <1>1, LenProperties
<1>4. Len(handed) \in Nat
  BY <1>1, LenProperties
<1>5. ASSUME NEW i \in DOMAIN spawns', spawns'[i] # Failure
      PROVE  Len(handed) < spawns'[i] /\ spawns'[i] <= taken
  BY <1>1, <1>2, <1>3, <1>4, <1>5 DEF OrderInv
<1>6. ASSUME NEW i \in DOMAIN spawns', NEW j \in DOMAIN spawns', i < j,
             spawns'[i] # Failure, spawns'[j] # Failure
      PROVE  spawns'[i] < spawns'[j]
  <2>1. i \in DOMAIN spawns
    BY <1>2, <1>6
  <2>2. CASE j \in DOMAIN spawns
    BY <1>2, <1>6, <2>1, <2>2 DEF OrderInv
  <2>3. CASE j = Len(spawns) + 1
    BY <1>1, <1>2, <1>6, <2>1, <2>3 DEF OrderInv
  <2> QED
    BY <1>2, <2>2, <2>3
<1>7. ASSUME NEW n \in Nat, Len(handed) < n, n <= taken
      PROVE  \E i \in DOMAIN spawns' : spawns'[i] = n
  <2>1. CASE result = n
    BY <1>2, <2>1
  <2>2. CASE \E i \in DOMAIN spawns : spawns[i] = n
    BY <1>2, <2>2
  <2> QED
    BY <1>1, <1>7, <2>1, <2>2 DEF OrderInv
<1> QED
  BY <1>1, <1>2, <1>5, <1>6, <1>7 DEF OrderInv

\* The front of the strand is handed over: a connection there is the next.
LEMMA OnSpawnConnectOrder ==
  ASSUME OrderInv, NEW t, OnSpawnConnect(t)
  PROVE  OrderInv'
<1> DEFINE c == spawns[1]
           n == Len(handed)
<1>1. /\ spawns \in Seq(Nat) /\ handed \in Seq(Nat) /\ taken \in Nat /\ result \in Nat
      /\ spawns # <<>> /\ UNCHANGED <<taken, result, accept>>
      /\ handed' = IF c = Failure THEN handed ELSE Append(handed, c)
  BY DEF OrderInv, OnSpawnConnect, Spawn, kernel
<1>2. spawns' = Tail(spawns)
  <2>1. spawns' = SubSeq(spawns, 1, 1 - 1) \o SubSeq(spawns, 1 + 1, Len(spawns))
    BY DEF OnSpawnConnect, Spawn
  <2>2. SubSeq(spawns, 1, 0) = <<>>
    OBVIOUS
  <2>3. SubSeq(spawns, 2, Len(spawns)) = Tail(spawns) /\ Tail(spawns) \in Seq(Nat)
    BY <1>1, TailIsSubSeq, HeadTailProperties
  <2>4. 1 - 1 = 0 /\ 1 + 1 = 2
    OBVIOUS
  <2> QED
    BY <2>1, <2>2, <2>3, <2>4, ConcatEmptySeq
<1>3. /\ Len(spawns) \in Nat \ {0} /\ DOMAIN spawns = 1 .. Len(spawns)
      /\ spawns' \in Seq(Nat) /\ Len(spawns') = Len(spawns) - 1
      /\ \A i \in 1 .. Len(spawns') : spawns'[i] = spawns[i + 1]
      /\ \A i \in DOMAIN spawns : spawns[i] \in Nat
  BY <1>1, <1>2, HeadTailProperties, EmptySeq, LenProperties
<1>4. DOMAIN spawns' = 1 .. Len(spawns')
  BY <1>3, LenProperties
<1>5. n \in Nat /\ DOMAIN handed = 1 .. n /\ n <= taken
  BY <1>1, LenProperties DEF OrderInv
<1>6. 1 \in DOMAIN spawns /\ \A i \in DOMAIN spawns' : i + 1 \in DOMAIN spawns /\ 1 < i + 1
  BY <1>3, <1>4
<1>7. \A j \in DOMAIN spawns : j # 1 => j - 1 \in DOMAIN spawns' /\ spawns'[j - 1] = spawns[j]
  BY <1>3, <1>4
<1>8. CASE c = Failure
  <2>1. handed' = handed
    BY <1>1, <1>8
  <2>2. ASSUME NEW k \in Nat, n < k, k <= taken
        PROVE  (accept = "due" /\ result = k) \/ \E i \in DOMAIN spawns' : spawns'[i] = k
    <3>1. k # Failure
      BY <1>5, <2>2 DEF Failure
    <3> QED
      BY <1>7, <1>8, <2>2, <3>1 DEF OrderInv
  <2>3. \A i \in DOMAIN spawns' : spawns'[i] = spawns[i + 1]
    BY <1>3, <1>4
  <2>4. \A i, j \in DOMAIN spawns' : i < j => i + 1 < j + 1
    BY <1>4, <1>3
  <2> HIDE DEF c, n
  <2> QED
    BY <1>1, <1>3, <1>6, <2>1, <2>2, <2>3, <2>4 DEF OrderInv, n
<1>9. CASE c # Failure
  <2>1. n < c /\ c <= taken /\ c \in Nat
    BY <1>3, <1>6, <1>9 DEF OrderInv
  <2>2. ASSUME NEW i \in DOMAIN spawns, i # 1, spawns[i] # Failure
        PROVE  c < spawns[i]
    <3>1. 1 < i
      BY <1>3, <2>2
    <3>2. spawns[1] = c /\ c # Failure
      BY <1>9
    <3> QED
      BY <1>6, <2>2, <3>1, <3>2 DEF OrderInv
  <2>3. c = n + 1
    <3>1. SUFFICES ASSUME n + 1 < c PROVE FALSE
      BY <1>5, <2>1
    <3>2. n + 1 \in Nat /\ n < n + 1 /\ n + 1 <= taken /\ n + 1 # Failure
      BY <1>1, <1>5, <2>1, <3>1 DEF Failure
    <3>3. CASE accept = "due" /\ result = n + 1
      BY <1>6, <2>1, <3>1, <3>2, <3>3 DEF OrderInv
    <3>4. CASE \E i \in DOMAIN spawns : spawns[i] = n + 1
      BY <1>5, <2>1, <2>2, <3>1, <3>2, <3>4
    <3> QED
      BY <3>2, <3>3, <3>4 DEF OrderInv
  <2>4. /\ handed' = Append(handed, c) /\ handed' \in Seq(Nat) /\ Len(handed') = n + 1
        /\ DOMAIN handed' = 1 .. (n + 1) /\ handed'[n + 1] = c
        /\ \A i \in 1 .. n : handed'[i] = handed[i]
    BY <1>1, <1>9, <2>1, AppendProperties
  <2>5. \A i \in DOMAIN handed' : handed'[i] = i
    BY <1>5, <2>3, <2>4 DEF OrderInv
  <2>6. \A i \in DOMAIN spawns' : spawns'[i] = spawns[i + 1]
    BY <1>3, <1>4
  <2>7. ASSUME NEW k \in Nat, n + 1 < k, k <= taken
        PROVE  (accept = "due" /\ result = k) \/ \E i \in DOMAIN spawns' : spawns'[i] = k
    <3>1. n < k /\ k # c
      BY <1>5, <2>3, <2>7
    <3>2. (accept = "due" /\ result = k) \/ \E i \in DOMAIN spawns : spawns[i] = k
      BY <2>7, <3>1 DEF OrderInv
    <3> QED
      BY <1>7, <3>1, <3>2
  <2>8. ASSUME NEW i \in DOMAIN spawns', spawns'[i] # Failure
        PROVE  n + 1 < spawns'[i] /\ spawns'[i] <= taken
    <3>1. i + 1 \in DOMAIN spawns /\ i + 1 # 1 /\ spawns'[i] = spawns[i + 1]
      BY <1>6, <2>6
    <3>2. c < spawns[i + 1] /\ spawns[i + 1] <= taken
      BY <2>2, <2>8, <3>1 DEF OrderInv
    <3> QED
      BY <2>3, <3>1, <3>2
  <2>9. ASSUME NEW i \in DOMAIN spawns', NEW j \in DOMAIN spawns', i < j,
               spawns'[i] # Failure, spawns'[j] # Failure
        PROVE  spawns'[i] < spawns'[j]
    <3>1. i + 1 < j + 1
      BY <1>3, <1>4, <2>9
    <3> QED
      BY <1>6, <2>6, <2>9, <3>1 DEF OrderInv
  <2>10. ASSUME accept = "due", result # Failure
         PROVE  /\ result = taken /\ n + 1 < taken
                /\ \A i \in DOMAIN spawns' : spawns'[i] < taken
    <3>1. result = taken /\ \A i \in DOMAIN spawns : spawns[i] < taken
      BY <2>10 DEF OrderInv
    <3>2. c < taken
      BY <1>6, <3>1
    <3> QED
      BY <1>6, <2>3, <2>6, <3>1, <3>2
  <2>11. n + 1 <= taken
    BY <2>1, <2>3
  <2> HIDE DEF c, n
  <2> QED
    BY <1>1, <1>3, <2>4, <2>5, <2>7, <2>8, <2>9, <2>10, <2>11 DEF OrderInv
<1> QED
  BY <1>8, <1>9

LEMMA AcceptEndsOrder ==
  ASSUME OrderInv, AcceptEnds
  PROVE  OrderInv'
<1>1. /\ accept = "pending" /\ accept' = "due" /\ result' = taken + 1 /\ taken' = taken + 1
      /\ UNCHANGED <<spawns, handed>> /\ taken \in Nat
      /\ spawns \in Seq(Nat) /\ handed \in Seq(Nat)
  BY DEF AcceptEnds, OrderInv, strand
<1>2. Len(handed) \in Nat /\ \A i \in DOMAIN spawns : spawns[i] \in Nat
  BY <1>1, LenProperties
<1>3. \A i \in DOMAIN spawns : spawns[i] < taken + 1
  BY <1>1, <1>2 DEF OrderInv, Failure
<1>4. ASSUME NEW n \in Nat, Len(handed) < n, n <= taken + 1
      PROVE  taken + 1 = n \/ \E i \in DOMAIN spawns : spawns[i] = n
  <2>1. n = taken + 1 \/ n <= taken
    BY <1>1, <1>4
  <2> QED
    BY <1>1, <1>4, <2>1 DEF OrderInv
<1>5. /\ Len(handed) <= taken + 1 /\ Len(handed) < taken + 1 /\ taken + 1 \in Nat
      /\ \A i \in DOMAIN spawns : spawns[i] <= taken => spawns[i] <= taken + 1
  BY <1>1, <1>2 DEF OrderInv
<1> QED
  BY <1>1, <1>3, <1>4, <1>5 DEF OrderInv

LEMMA OrderStep == OneAccept /\ OrderInv /\ [Next]_vars => OneAccept' /\ OrderInv'
<1> SUFFICES ASSUME OneAccept, OrderInv, [Next]_vars PROVE OneAccept' /\ OrderInv'
  OBVIOUS
<1>1. CASE UNCHANGED avars
  BY <1>1, SameOrder DEF avars, kernel, strand, OneAccept
<1>2. CASE Launch \/ Close \/ Arrive \/ AcceptFails
  <2>1. OneAccept'
    BY <1>2 DEF OneAccept, Launch, Close, Arrive, AcceptFails, DoAccept
  <2>2. /\ UNCHANGED <<spawns, handed, taken>>
        /\ UNCHANGED <<accept, result>> \/ (accept # "due" /\ result' = Failure)
    BY <1>2 DEF Launch, Close, Arrive, AcceptFails, DoAccept, OneAccept, kernel, strand
  <2> QED
    BY <2>1, <2>2, SameOrder
<1>3. CASE AcceptEnds
  BY <1>3, AcceptEndsOrder DEF AcceptEnds, OneAccept
<1>4. ASSUME NEW t, OnAccept(t) PROVE OneAccept' /\ OrderInv'
  BY <1>4, OnAcceptOrder DEF OnAccept, OneAccept
<1>5. ASSUME NEW t, NextAccept(t) PROVE OneAccept' /\ OrderInv'
  <2>1. accept = "none" /\ result' = Failure /\ UNCHANGED <<spawns, handed, taken, acceptor>>
    BY <1>5 DEF NextAccept, DoAccept, OneAccept, kernel, strand
  <2>2. accepting' = {} /\ acceptor # "none"
    BY <1>5 DEF NextAccept, OneAccept
  <2> QED
    BY <2>1, <2>2, SameOrder DEF OneAccept
<1>6. ASSUME NEW t, OnSpawnConnect(t) PROVE OneAccept' /\ OrderInv'
  BY <1>6, OnSpawnConnectOrder DEF OnSpawnConnect, Spawn, OneAccept
<1>7. ASSUME NEW t, Spawned(t) PROVE OneAccept' /\ OrderInv'
  BY <1>7, SameOrder DEF Spawned, kernel, OneAccept
<1> QED
  BY <1>1, <1>2, <1>3, <1>4, <1>5, <1>6, <1>7
  DEF Next, Setup, Loop, SomebodySignals, Network, Owner, Work, RunAccept, RunNextAccept,
      RunSpawn, RunConnector, UserStop, Callback, UserReturn, UserThrow, UserClose, Leave, vars

LEMMA OrderInvariant == Spec => [](OneAccept /\ OrderInv)
<1>1. Init => OneAccept /\ OrderInv
  BY EmptySeq DEF Init, ListenerInit, OneAccept, OrderInv, Failure
<1> QED
  BY <1>1, OrderStep, PTL DEF Spec

\* The user gets every accepted connection once, in the order in which they
\* were accepted: on_accept posts before it starts the next accept, and the
\* strand runs what is posted in order (listener.ipp:77-80).
THEOREM AppAcceptedInOrder == Spec => []AcceptedInOrder
<1>1. OrderInv => AcceptedInOrder
  <2> SUFFICES ASSUME OrderInv PROVE Underway = (Len(handed) + 1) .. taken
    BY DEF OrderInv, AcceptedInOrder
  <2>1. /\ taken \in Nat /\ Len(handed) \in Nat /\ result \in Nat
        /\ \A i \in DOMAIN spawns : spawns[i] \in Nat
    BY LenProperties DEF OrderInv
  <2>2. ASSUME NEW n \in Underway PROVE n \in (Len(handed) + 1) .. taken
    <3>1. CASE accept = "due" /\ result = n
      BY <2>1, <2>2, <3>1 DEF OrderInv, Underway
    <3>2. CASE \E i \in DOMAIN spawns : spawns[i] = n
      BY <2>1, <2>2, <3>2 DEF OrderInv, Underway
    <3> QED
      BY <2>2, <3>1, <3>2 DEF Underway
  <2>3. ASSUME NEW n \in (Len(handed) + 1) .. taken PROVE n \in Underway
    <3>1. n \in Nat /\ Len(handed) < n /\ n <= taken /\ n # Failure
      BY <2>1, <2>3 DEF Failure
    <3> QED
      BY <3>1 DEF OrderInv, Underway
  <2> QED
    BY <2>2, <2>3
<1> QED
  BY <1>1, OrderInvariant, PTL

-----------------------------------------------------------------------------
(* Types, and which thread is where *)

\* A thread is in a handler, or in the stop() of one, exactly when it is amid
\* on_accept or in one callback of the user; a connector calls the user on one
\* thread, and on none before it is done.
WhereInv ==
  /\ accepting \subseteq Thread /\ InUser \subseteq Thread
  /\ accepting \cap InUser = {} /\ spawning \cap telling = {}
  /\ \A t \in Thread :
       aborted \/ (at[t] \in {"handler", "stop"} <=> t \in accepting \cup InUser)
  /\ \A t \in Thread : at[t] = "stop" => t \in InUser
  /\ stage # "ended" => telling = {}
  /\ \A t, u \in telling : t = u

LEMMA OutsideIsOutside == Outside \notin Thread /\ Thread \subseteq Anybody
  BY ThreadsAssumption DEF Outside, Thread, Main, Pool, Anybody

\* Threads that do not enter or leave a handler.
LEMMA StayWhere ==
  ASSUME WhereInv, UNCHANGED <<accepting, spawning, telling>>,
         stage' # "ended" => stage # "ended",
         \A t \in Thread : /\ at'[t] \in {"handler", "stop"} <=> at[t] \in {"handler", "stop"}
                           /\ at'[t] = "stop" => at[t] = "stop" \/ t \in InUser,
         aborted => aborted'
  PROVE  WhereInv'
  BY DEF WhereInv, InUser

\* A thread takes a handler.
LEMMA EnterWhere ==
  ASSUME WhereInv, LTypeOK, ~aborted, NEW t \in Thread, Begin(t),
         \/ accepting' = accepting \cup {t} /\ UNCHANGED <<spawning, telling, stage>>
         \/ spawning' = spawning \cup {t} /\ UNCHANGED <<accepting, telling, stage>>
         \/ /\ stage # "ended" /\ stage' = "ended"
            /\ telling' = {t} /\ UNCHANGED <<accepting, spawning>>
  PROVE  WhereInv'
<1>1. /\ at[t] = "run" /\ at' = [at EXCEPT ![t] = "handler"] /\ ~aborted'
      /\ at \in [Anybody -> {"out", "exec", "run", "handler", "stop", "gone"}]
  BY DEF Begin, Moves, LTypeOK
<1>2. t \notin accepting /\ t \notin InUser
  BY <1>1 DEF WhereInv
<1>3. at'[t] = "handler" /\ \A u \in Thread \ {t} : at'[u] = at[u]
  BY <1>1, OutsideIsOutside
<1>4. CASE accepting' = accepting \cup {t} /\ UNCHANGED <<spawning, telling, stage>>
  BY <1>1, <1>2, <1>3, <1>4 DEF WhereInv, InUser
<1>5. CASE spawning' = spawning \cup {t} /\ UNCHANGED <<accepting, telling, stage>>
  BY <1>1, <1>2, <1>3, <1>5 DEF WhereInv, InUser
<1>6. CASE /\ stage # "ended" /\ stage' = "ended"
           /\ telling' = {t} /\ UNCHANGED <<accepting, spawning>>
  <2>1. telling = {}
    BY <1>6 DEF WhereInv
  <2> QED
    BY <1>1, <1>2, <1>3, <1>6, <2>1 DEF WhereInv, InUser
<1> QED
  BY <1>4, <1>5, <1>6

\* A thread leaves its handler, by its end or by an exception.
LEMMA LeaveWhere ==
  ASSUME WhereInv, LTypeOK, ~aborted, NEW t \in Thread, End(t) \/ Throw(t),
         \/ /\ t \in accepting /\ accepting' = accepting \ {t}
            /\ UNCHANGED <<spawning, telling, stage>>
         \/ /\ t \in spawning /\ spawning' = spawning \ {t}
            /\ UNCHANGED <<accepting, telling, stage>>
         \/ /\ t \in telling /\ telling' = telling \ {t}
            /\ UNCHANGED <<accepting, spawning, stage>>
  PROVE  WhereInv'
<1>1. t \in accepting \cup InUser /\ t \notin (accepting' \cup spawning' \cup telling')
  BY DEF WhereInv, InUser
<1>2. \A u \in Thread \ {t} : /\ u \in accepting' <=> u \in accepting
                              /\ u \in spawning' <=> u \in spawning
                              /\ u \in telling' <=> u \in telling
  OBVIOUS
<1>3. at[t] = "handler" /\ at \in [Anybody -> {"out", "exec", "run", "handler", "stop", "gone"}]
  BY DEF End, Throw, Moves, LTypeOK
<1>4. /\ accepting' \subseteq Thread /\ InUser' \subseteq Thread
      /\ accepting' \cap InUser' = {} /\ spawning' \cap telling' = {}
      /\ stage' # "ended" => telling' = {}
      /\ \A u, v \in telling' : u = v
  BY DEF WhereInv, InUser
<1>5. CASE at' = at /\ aborted'
  BY <1>1, <1>2, <1>3, <1>4, <1>5 DEF WhereInv, InUser
<1>6. CASE /\ at' = [at EXCEPT ![t] = "run"] \/ at' = [at EXCEPT ![t] = "gone"]
           /\ ~aborted'
  <2>1. at'[t] \in {"run", "gone"} /\ \A u \in Thread \ {t} : at'[u] = at[u]
    BY <1>3, <1>6, OutsideIsOutside
  <2> QED
    BY <1>1, <1>2, <1>4, <1>6, <2>1 DEF WhereInv, InUser
<1> QED
  BY <1>5, <1>6 DEF End, Throw, Moves

\* A step of the loop that is no handler's.
LEMMA LoopWhere ==
  ASSUME WhereInv, LTypeOK, Loop \/ SomebodySignals
  PROVE  WhereInv'
<1>1. UNCHANGED <<accepting, spawning, telling, stage>>
  BY DEF Loop, SomebodySignals, avars, strand, cvars
<1>2. at \in [Anybody -> {"out", "exec", "run", "handler", "stop", "gone"}]
  BY DEF LTypeOK
<1>3. SUFFICES
        /\ \A t \in Thread : /\ at'[t] \in {"handler", "stop"} <=> at[t] \in {"handler", "stop"}
                             /\ at'[t] = "stop" => at[t] = "stop"
        /\ aborted => aborted'
  BY <1>1, StayWhere
<1>4. CASE UNCHANGED at
  BY <1>4 DEF Loop, SomebodySignals, LoopStep, Starting, Ending, Exec, CreateThread, RunMain,
      OnSignal, RunReturns, Join, StopReturns, JoinSelf, Signal
<1>5. CASE \E u \in Anybody : \E from, to :
             /\ Moves(u, from, to) /\ UNCHANGED aborted
             /\ \/ from \notin {"handler", "stop"} /\ to \notin {"handler", "stop"}
                \/ from = "stop" /\ to = "handler"
                \/ u = Outside
  BY <1>2, <1>5, OutsideIsOutside DEF Moves
<1>6. CASE Starting
  <2>1. Main \in Anybody /\ Pool \subseteq Anybody
    BY DEF Thread, Anybody
  <2> QED
    BY <1>5, <1>6, <2>1 DEF Starting, Exec, CreateThread, RunMain
<1>7. ASSUME NEW t \in Anybody, Ending(t)
      PROVE  UNCHANGED at \/ \E from, to :
               /\ Moves(t, from, to) /\ UNCHANGED aborted
               /\ \/ from \notin {"handler", "stop"} /\ to \notin {"handler", "stop"}
                  \/ from = "stop" /\ to = "handler"
                  \/ t = Outside
  BY <1>7 DEF Ending, RunReturns, Join, StopReturns, JoinSelf
<1> QED
  BY <1>4, <1>5, <1>6, <1>7 DEF Loop, SomebodySignals, LoopStep, OnSignal, Signal

LEMMA WhereStep == WhereInv /\ LTypeOK /\ [Next]_vars => WhereInv'
<1> SUFFICES ASSUME WhereInv, LTypeOK, [Next]_vars PROVE WhereInv'
  OBVIOUS
<1>1. CASE UNCHANGED vars
  BY <1>1, StayWhere DEF vars, lvars, avars, strand, cvars
<1>2. CASE Setup \/ Network \/ Owner
  <2>1. UNCHANGED <<accepting, spawning, telling, at, aborted>>
    BY <1>2 DEF Setup, Network, Owner, Launch, Connect, DoResolve, Arrive, AcceptEnds, AcceptFails,
        ResolveEnds, ConnectEnds, Destroy, lvars, avars, strand, cvars
  <2>2. stage' # "ended" => stage # "ended"
    BY <1>2 DEF Setup, Network, Owner, Connect, DoResolve, ResolveEnds, ConnectEnds, Destroy, cvars
  <2> QED
    BY <2>1, <2>2, StayWhere
<1>3. CASE Loop \/ SomebodySignals
  BY <1>3, LoopWhere
<1>4. ASSUME NEW t \in Thread, RunAccept(t), ~aborted PROVE WhereInv'
  BY <1>4, EnterWhere DEF RunAccept, OnAccept, cvars
<1>5. ASSUME NEW t \in Thread, RunNextAccept(t), ~aborted PROVE WhereInv'
  BY <1>5, LeaveWhere DEF RunNextAccept, NextAccept, strand, cvars
<1>6. ASSUME NEW t \in Thread, RunSpawn(t), ~aborted PROVE WhereInv'
  BY <1>6, EnterWhere DEF RunSpawn, OnSpawnConnect, Spawn, cvars
<1>7. ASSUME NEW t \in Thread, RunConnector(t), ~aborted PROVE WhereInv'
  <2>1. UNCHANGED <<accepting, spawning>> /\ stage # "ended" /\ telling = {}
    BY <1>7 DEF RunConnector, avars, strand, ResolveFailed, Resolved, ConnectFailed,
        Connected, WhereInv
  <2>2. CASE telling' = {}
    BY <1>7, <2>1, <2>2, StayWhere DEF RunConnector, lvars
  <2>3. CASE telling' # {}
    <3>1. stage' = "ended" /\ telling' = {t}
      BY <1>7, <2>1, <2>3 DEF RunConnector, ResolveFailed, Resolved, ConnectFailed,
          Connected, Fail
    <3> QED
      BY <1>7, <2>1, <2>3, <3>1, EnterWhere DEF RunConnector
  <2> QED
    BY <2>2, <2>3
<1>8. ASSUME NEW t \in Anybody, UserReturn(t) \/ UserThrow(t), ~aborted PROVE WhereInv'
  <2>1. \/ t \in spawning /\ spawning' = spawning \ {t} /\ UNCHANGED <<accepting, telling, stage>>
        \/ /\ t \in telling /\ telling' = telling \ {t} /\ UNCHANGED <<accepting, spawning, stage>>
    <3>1. CASE Spawned(t) /\ UNCHANGED cvars
      BY <3>1 DEF Spawned, cvars
    <3>2. CASE Told(t) /\ UNCHANGED avars
      <4>1. telling' = telling \ {t}
        BY <3>2 DEF Told, WhereInv
      <4> QED
        BY <3>2, <4>1 DEF Told, avars, strand
    <3> QED
      BY <1>8, <3>1, <3>2 DEF UserReturn, UserThrow, Leave
  <2>2. t \in Thread
    BY <2>1 DEF WhereInv, InUser
  <2> QED
    BY <1>8, <2>1, <2>2, LeaveWhere DEF UserReturn, UserThrow
<1>9. ASSUME NEW t \in Anybody, UserStop(t) PROVE WhereInv'
  <2>1. /\ at \in [Anybody -> {"out", "exec", "run", "handler", "stop", "gone"}]
        /\ UNCHANGED <<accepting, spawning, telling, stage, aborted>>
        /\ t \in InUser \/ t = Outside
        /\ at[t] = (IF t = Outside THEN "out" ELSE "handler")
        /\ at' = [at EXCEPT ![t] = "stop"]
    BY <1>9 DEF UserStop, Stop, Moves, avars, strand, cvars, LTypeOK
  <2> QED
    BY <2>1, OutsideIsOutside, StayWhere
<1>10. ASSUME NEW t \in Anybody, UserClose(t) PROVE WhereInv'
  BY <1>10, StayWhere DEF UserClose, Close, strand, lvars, cvars
<1> QED
  BY <1>1, <1>2, <1>3, <1>4, <1>5, <1>6, <1>7, <1>8, <1>9, <1>10 DEF Next, Work, Callback

LEMMA ListenerTypes == ListenerTypeOK /\ [Next]_vars => ListenerTypeOK'
<1> SUFFICES ASSUME ListenerTypeOK, [Next]_vars PROVE ListenerTypeOK'
  OBVIOUS
<1> USE ListenerAssumption DEF ListenerTypeOK, kernel, strand
<1>1. CASE UNCHANGED avars
  BY <1>1 DEF avars
<1>2. CASE Launch \/ Close \/ Arrive
  BY <1>2 DEF Launch, Close, Arrive, DoAccept, Failure
<1>3. CASE AcceptEnds \/ AcceptFails
  BY <1>3 DEF AcceptEnds, AcceptFails, Failure
<1>4. ASSUME NEW t, OnAccept(t) PROVE ListenerTypeOK'
  BY <1>4 DEF OnAccept
<1>5. ASSUME NEW t, NextAccept(t) PROVE ListenerTypeOK'
  BY <1>5 DEF NextAccept, DoAccept, Failure
<1>6. ASSUME NEW t, OnSpawnConnect(t) PROVE ListenerTypeOK'
  <2>1. /\ spawns' = SubSeq(spawns, 1, 1 - 1) \o SubSeq(spawns, 1 + 1, Len(spawns))
        /\ handed' = IF spawns[1] = Failure THEN handed ELSE Append(handed, spawns[1])
        /\ spawns # <<>>
        /\ UNCHANGED <<acceptor, accept, result, arrived, taken, failures>>
    BY <1>6 DEF OnSpawnConnect, Spawn
  <2>2. spawns[1] \in 0 .. MaxConns /\ Len(spawns) \in Nat
    BY <2>1
  <2>3. SubSeq(spawns, 1, 1 - 1) \in Seq(0 .. MaxConns)
    BY <2>2
  <2>4. SubSeq(spawns, 1 + 1, Len(spawns)) \in Seq(0 .. MaxConns)
    BY <2>2
  <2>5. spawns' \in Seq(0 .. MaxConns)
    BY <2>1, <2>3, <2>4
  <2>6. handed' \in Seq(1 .. MaxConns)
    <3>1. CASE spawns[1] = Failure
      BY <2>1, <3>1
    <3>2. CASE spawns[1] # Failure
      <4>1. spawns[1] \in 1 .. MaxConns /\ handed' = Append(handed, spawns[1])
        BY <2>1, <2>2, <3>2 DEF Failure
      <4>2. handed \in Seq(1 .. MaxConns)
        OBVIOUS
      <4> QED
        BY <4>1, <4>2, AppendProperties
    <3> QED
      BY <3>1, <3>2
  <2> QED
    BY <2>1, <2>5, <2>6
<1>7. ASSUME NEW t, Spawned(t) PROVE ListenerTypeOK'
  BY <1>7 DEF Spawned
<1> QED
  BY <1>1, <1>2, <1>3, <1>4, <1>5, <1>6, <1>7
  DEF Next, Setup, Loop, SomebodySignals, Network, Owner, Work, RunAccept, RunNextAccept,
      RunSpawn, RunConnector, UserStop, Callback, UserReturn, UserThrow, UserClose, Leave, vars

LEMMA ConnectorTypes == ConnectorTypeOK /\ [Next]_vars => ConnectorTypeOK'
<1> SUFFICES ASSUME ConnectorTypeOK, [Next]_vars PROVE ConnectorTypeOK'
  OBVIOUS
<1>1. CASE UNCHANGED cvars
  BY <1>1 DEF cvars, ConnectorTypeOK
<1>2. CASE Connect \/ Destroy \/ ResolveEnds \/ ConnectEnds
  BY <1>2 DEF Connect, DoResolve, Destroy, ResolveEnds, ConnectEnds, ConnectorTypeOK
<1>3. ASSUME NEW t, ResolveFailed(t) \/ Resolved(t) \/ ConnectFailed(t) \/ Connected(t)
      PROVE  ConnectorTypeOK'
  BY <1>3 DEF ResolveFailed, Resolved, ConnectFailed, Connected, ConnectorTypeOK
<1>4. ASSUME NEW t, Told(t) PROVE ConnectorTypeOK'
  BY <1>4 DEF Told, ConnectorTypeOK
<1> QED
  BY <1>1, <1>2, <1>3, <1>4
  DEF Next, Setup, Loop, SomebodySignals, Network, Owner, Work, RunAccept, RunNextAccept,
      RunSpawn, RunConnector, UserStop, Callback, UserReturn, UserThrow, UserClose, Leave, vars

-----------------------------------------------------------------------------

\* Whatever the callbacks of listener and connector do, the loop under them
\* goes through one of its own runs (event_loop.ipp:15-65).
THEOREM AppImplementsLoop == Spec => LoopSpec
  <1>1. Init => LoopInit
    BY DEF Init
  <1> QED
    BY <1>1, AppUsesLoop, UserInvariant, PTL DEF Spec, LoopSpec

\* The event loop's invariant, in every program on it: among others, a stop()
\* that has gone past a thread left it finished (event_loop.ipp:26-30).
THEOREM AppLoopInvariant == Spec => []LInv
  BY AppImplementsLoop, LoopInvariant, PTL

LEMMA WhereInvariant == Spec => []WhereInv
  <1>1. Init => WhereInv
    BY OutsideIsOutside DEF Init, LoopInit, ListenerInit, ConnectorInit, WhereInv, InUser
  <1>2. LInv => LTypeOK
    BY DEF LInv
  <1> QED
    BY <1>1, <1>2, WhereStep, AppLoopInvariant, PTL DEF Spec

\* Types, and that a thread is in a handler exactly when it is amid on_accept
\* or in one callback of the user (listener.ipp:77-80 and 83-90,
\* connector.ipp:47-83).
THEOREM AppTypes == Spec => []AppTypeOK
  <1>1. Init => ListenerTypeOK
    BY ListenerAssumption DEF Init, ListenerInit, ListenerTypeOK, Failure
  <1>2. Init => ConnectorTypeOK
    BY DEF Init, ConnectorInit, ConnectorTypeOK
  <1>3. LInv => LTypeOK
    BY DEF LInv
  <1>4. LTypeOK /\ WhereInv /\ ListenerTypeOK /\ ConnectorTypeOK => AppTypeOK
    BY DEF WhereInv, AppTypeOK
  <1> QED
    BY <1>1, <1>2, <1>3, <1>4, WhereInvariant, ListenerTypes, ConnectorTypes, AppLoopInvariant,
       PTL DEF Spec

\* When stop() has returned to a thread outside, no callback and no handler
\* runs on the pool, whatever they are amid (event_loop.ipp:28-29).
THEOREM AppStopJoins == Spec => []StopJoins
  BY AppImplementsLoop, LoopStopJoins, PTL

\* The user of a connector is told one outcome at most, after the attempt is
\* over (connector.ipp:51-56 and 75-82).
THEOREM AppOneOutcome == Spec => []OneOutcome
  <1>1. UInv => OneOutcome
    <2>1. Len(<<>>) = 0 /\ Len(<<"error">>) = 1 /\ Len(<<"socket">>) = 1
      OBVIOUS
    <2>2. ASSUME UInv, stage # "ended" PROVE Len(outcome) = 0
      BY <2>1, <2>2 DEF UInv
    <2>3. ASSUME UInv PROVE Len(outcome) = 0 \/ Len(outcome) = 1
      BY <2>1, <2>3 DEF UInv
    <2>4. 0 <= 0 /\ 0 <= 1 /\ 1 <= 1
      OBVIOUS
    <2>5. ASSUME UInv PROVE OneOutcome
      <3>1. CASE stage = "ended"
        BY <3>1, <2>3, <2>4, <2>5 DEF OneOutcome
      <3>2. CASE stage # "ended"
        BY <3>2, <2>2, <2>4, <2>5 DEF OneOutcome
      <3> QED
        BY <3>1, <3>2
    <2> QED
      BY <2>5
  <1> QED
    BY <1>1, UserInvariant, PTL

-----------------------------------------------------------------------------
(* What terminates the program *)

AbortInv == /\ AbortHasCause
            /\ \A t \in Anybody : at[t] = "stop" => t \in Stoppers

\* A step of the loop that is not a stop() puts nobody into one.
LEMMA NobodyStops ==
  ASSUME LTypeOK, LoopStep \/ Signal
  PROVE  \A t \in Anybody : at'[t] = "stop" => at[t] = "stop"
<1>1. /\ at \in [Anybody -> {"out", "exec", "run", "handler", "stop", "gone"}]
      /\ Main \in Anybody /\ Pool \subseteq Anybody
  BY DEF LTypeOK, Thread, Anybody
<1>2. CASE UNCHANGED at
  BY <1>2
<1>3. ASSUME NEW u \in Anybody, NEW from, NEW to, Moves(u, from, to), to # "stop"
      PROVE  \A t \in Anybody : at'[t] = "stop" => at[t] = "stop"
  BY <1>1, <1>3 DEF Moves
<1>4. CASE Starting
  <2>1. CASE CreateThread
    <3>1. created' \in Anybody
      BY <1>1, <2>1 DEF CreateThread
    <3> QED
      BY <1>3, <2>1, <3>1 DEF CreateThread
  <2> QED
    BY <1>1, <1>3, <1>4, <2>1 DEF Starting, Exec, RunMain
<1>5. ASSUME NEW u \in Anybody, Ending(u)
      PROVE  \A t \in Anybody : at'[t] = "stop" => at[t] = "stop"
  BY <1>2, <1>3, <1>5 DEF Ending, RunReturns, Join, StopReturns, JoinSelf
<1> QED
  BY <1>2, <1>4, <1>5 DEF LoopStep, OnSignal, Signal

\* join_all() meets its own thread on the pool only: the thread in exec() and
\* the one outside are no threads of the group.
LEMMA JoinSelfCause ==
  ASSUME LTypeOK, AbortInv, NEW t \in Anybody, JoinSelf(t), UNCHANGED at
  PROVE  AbortInv'
<1>1. /\ at[t] = "stop" /\ joins[t] = t /\ joins' = joins /\ joins[t] <= created
      /\ joins[t] \in 1 .. (m_threads_num + 1) /\ created \in 0 .. m_threads_num
  BY DEF JoinSelf, LTypeOK
<1>2. t \in Pool
  BY <1>1, ThreadsAssumption DEF Anybody, Thread, Main, Outside, Pool
<1>3. t \in Stoppers
  BY <1>1 DEF AbortInv
<1> QED
  BY <1>1, <1>2, <1>3 DEF AbortInv, AbortHasCause

LEMMA ThrowCause ==
  ASSUME LTypeOK, WhereInv, AbortInv, ~aborted, NEW t \in Anybody, UserThrow(t)
  PROVE  AbortInv'
<1>1. /\ at[t] = "handler" /\ MayThrow /\ Leave(t) /\ joins' = joins
      /\ at \in [Anybody -> {"out", "exec", "run", "handler", "stop", "gone"}]
  BY DEF UserThrow, Throw, LTypeOK
<1>2. t \in InUser /\ t \in Thread /\ t \notin (accepting' \cup InUser')
  <2>1. CASE Spawned(t) /\ UNCHANGED cvars
    BY <2>1 DEF Spawned, InUser, WhereInv, cvars
  <2>2. CASE Told(t) /\ UNCHANGED avars
    BY <2>2 DEF Told, InUser, WhereInv, avars, strand
  <2> QED
    BY <1>1, <2>1, <2>2 DEF Leave
<1>3. CASE t = Main
  <2>1. at' = [at EXCEPT ![t] = "gone"] /\ ~aborted'
    BY <1>3 DEF UserThrow, Throw, Moves
  <2> QED
    BY <1>1, <2>1 DEF AbortInv, AbortHasCause
<1>4. CASE t # Main
  <2>1. at' = at /\ t \in Pool
    BY <1>2, <1>4 DEF UserThrow, Throw, Thread
  <2> QED
    BY <1>1, <1>2, <2>1 DEF AbortInv, AbortHasCause
<1> QED
  BY <1>3, <1>4

LEMMA AbortStep == LInv /\ WhereInv /\ AbortInv /\ [Next]_vars => AbortInv'
<1> SUFFICES ASSUME LInv, WhereInv, AbortInv, [Next]_vars PROVE AbortInv'
  OBVIOUS
<1>1. /\ LTypeOK
      /\ at \in [Anybody -> {"out", "exec", "run", "handler", "stop", "gone"}]
      /\ Thread \subseteq Anybody
  BY OutsideIsOutside DEF LInv, LTypeOK
<1>2. CASE UNCHANGED vars
  BY <1>2 DEF vars, lvars, avars, strand, cvars, AbortInv, AbortHasCause, InUser
<1>3. ASSUME Next, ~aborted', \A t \in Anybody : at'[t] = "stop" => at[t] = "stop"
      PROVE  AbortInv'
  BY <1>3 DEF AbortInv, AbortHasCause
<1>4. CASE Next
  <2>1. ~aborted
    BY <1>4 DEF Next
  <2>2. CASE UNCHANGED lvars
    BY <1>3, <1>4, <2>1, <2>2 DEF lvars
  <2>3. CASE Loop \/ SomebodySignals
    <3>1. CASE \E t \in Anybody : JoinSelf(t)
      BY <1>1, <3>1, JoinSelfCause DEF JoinSelf
    <3>2. CASE ~\E t \in Anybody : JoinSelf(t)
      <4>1. ~aborted'
        BY <2>1, <2>3, <3>2
        DEF Loop, SomebodySignals, LoopStep, Starting, Ending, Exec, CreateThread, RunMain,
            OnSignal, RunReturns, Join, StopReturns, Signal
      <4> QED
        BY <1>1, <1>3, <1>4, <2>3, <4>1, NobodyStops DEF Loop, SomebodySignals
    <3> QED
      BY <3>1, <3>2
  <2>4. ASSUME NEW t \in Anybody, Begin(t) \/ End(t) PROVE AbortInv'
    BY <1>1, <1>3, <1>4, <2>1, <2>4 DEF Begin, End, Moves
  <2>5. ASSUME NEW t \in Anybody, UserThrow(t) PROVE AbortInv'
    BY <1>1, <2>1, <2>5, ThrowCause
  <2>6. ASSUME NEW t \in Anybody, UserStop(t) PROVE AbortInv'
    <3>1. t \in Stoppers /\ at' = [at EXCEPT ![t] = "stop"] /\ ~aborted'
      BY <2>1, <2>6 DEF UserStop, Stop, Moves
    <3> QED
      BY <1>1, <3>1 DEF AbortInv, AbortHasCause
  <2> QED
    BY <1>1, <1>4, <2>2, <2>3, <2>4, <2>5, <2>6
    DEF Next, Setup, Network, Owner, Work, RunAccept, RunNextAccept, RunSpawn, RunConnector,
        Callback, UserReturn, UserClose
<1> QED
  BY <1>2, <1>4

\* The program is terminated by a stop() that joins its own thread of the pool
\* or by a callback that throws on one, and by nothing else
\* (event_loop.ipp:26-30 and 46-50).
THEOREM AppAbortHasCause == Spec => []AbortHasCause
<1>1. Init => AbortInv
  BY DEF Init, LoopInit, AbortInv, AbortHasCause
<1>2. AbortInv => AbortHasCause
  BY DEF AbortInv
<1> QED
  BY <1>1, <1>2, AbortStep, WhereInvariant, AppLoopInvariant, PTL DEF Spec

\* stop() only stops the loop, as its documentation has it, for callers that
\* are not on a thread of the pool: from outside, or in a callback on the
\* thread that is in exec() (event_loop.hpp:59-63).
THEOREM AppStopOnlyStopsOffThePool ==
  ASSUME Stoppers \cap Pool = {}
  PROVE  Spec => []StopOnlyStops
<1>1. AbortHasCause => StopOnlyStops
  BY DEF AbortHasCause, StopOnlyStops
<1> QED
  BY <1>1, AppAbortHasCause, PTL

\* A callback of listener or connector on a thread of the pool that calls
\* stop() never gets to what follows the call (event_loop.ipp:28-29).
THEOREM AppPoolStopNeverReturns ==
  Spec => [][\A t \in Pool : at[t] = "stop" => at'[t] = "stop"]_lvars
  BY AppImplementsLoop, PoolStopNeverReturns

-----------------------------------------------------------------------------
(* Who owns the connector *)

GoneInv == ~exists => stage = "ended" /\ telling = {}

\* A step of the connector finds it in existence, and only Destroy ends it.
LEMMA ConnectorStep ==
  ASSUME GoneInv, [Next]_vars
  PROVE  GoneInv' /\ [exists]_cvars
<1>1. CASE UNCHANGED cvars
  BY <1>1 DEF cvars, GoneInv
<1>2. CASE Connect \/ ResolveEnds \/ ConnectEnds
  BY <1>2 DEF Connect, DoResolve, ResolveEnds, ConnectEnds, GoneInv
<1>3. CASE Destroy
  BY <1>3 DEF Destroy, GoneInv
<1>4. ASSUME NEW t, ResolveFailed(t) \/ Resolved(t) \/ ConnectFailed(t) \/ Connected(t)
      PROVE  GoneInv' /\ [exists]_cvars
  BY <1>4 DEF ResolveFailed, Resolved, ConnectFailed, Connected, GoneInv
<1>5. ASSUME NEW t, Told(t) PROVE GoneInv' /\ [exists]_cvars
  BY <1>5 DEF Told, GoneInv
<1> QED
  BY <1>1, <1>2, <1>3, <1>4, <1>5
  DEF Next, Setup, Loop, SomebodySignals, Network, Owner, Work, RunAccept, RunNextAccept,
      RunSpawn, RunConnector, UserStop, Callback, UserReturn, UserThrow, UserClose, Leave, vars

\* Resolver, network and callbacks act on a connector that still exists: it is
\* destroyed after all of them (connector.ipp:37-45 and 58-66).
THEOREM AppNothingAfterDestroy == Spec => NothingAfterDestroy
<1>1. Init => GoneInv
  BY DEF Init, ConnectorInit, GoneInv
<1> QED
  BY <1>1, ConnectorStep, PTL DEF Spec, NothingAfterDestroy

\* A connector with an on_error is destroyed only after it told its user one
\* outcome (connector.ipp:44, 51-56, 64-65 and 75-82).
THEOREM AppDiesTold == Spec => []DiesTold
<1>1. Init => GoneInv
  BY DEF Init, ConnectorInit, GoneInv
<1>2. UInv /\ GoneInv => DiesTold
  <2>1. Len(<<"error">>) = 1 /\ Len(<<"socket">>) = 1
    OBVIOUS
  <2> QED
    BY <2>1 DEF UInv, GoneInv, DiesTold
<1> QED
  BY <1>1, <1>2, ConnectorStep, UserInvariant, PTL DEF Spec
=============================================================================
