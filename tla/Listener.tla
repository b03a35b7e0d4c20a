------------------------------ MODULE Listener ------------------------------
(***************************************************************************)
(* The listener: an acceptor with one async_accept at a time.  on_accept   *)
(* runs on whatever thread takes it: it posts on_spawn_connect to the      *)
(* strand and starts the next accept, and other threads act between the    *)
(* two.  On the strand, on_spawn_connect calls the user: on_accept with    *)
(* the socket, or on_error.                                                *)
(*                                                                         *)
(* Connections are numbered as they are established.  Which thread runs    *)
(* what, and until when, is the business of App.tla.                       *)
(***************************************************************************)
EXTENDS Naturals, Sequences

CONSTANTS
  MaxConns,   \* bound on the connections of peers
  MaxErrors,  \* bound on the accepts that fail while the acceptor is open
  MaxSpawns   \* bound on what is posted to the strand and not run yet

ASSUME ListenerAssumption ==
  MaxConns \in Nat /\ MaxErrors \in Nat /\ MaxSpawns \in Nat \ {0}

VARIABLES
  acceptor,   \* m_acceptor
  accept,     \* the async_accept: none, pending, or a result that is due
  result,     \* that result: the number of a connection, or Failure
  arrived,    \* connections established by peers
  taken,      \* those that were accepted
  failures,   \* the accepts that failed on an open acceptor
  accepting,  \* threads amid on_accept
  spawns,     \* the strand: results posted to on_spawn_connect
  spawning,   \* the thread that runs on_spawn_connect
  handed      \* history: the connections given to the user

kernel == <<arrived, taken, failures>>
strand == <<spawns, spawning, handed>>

avars == <<acceptor, accept, result, kernel, accepting, strand>>

Failure == 0

-----------------------------------------------------------------------------

ListenerInit == /\ acceptor = "none"
                /\ accept = "none" /\ result = Failure
                /\ arrived = 0 /\ taken = 0 /\ failures = 0
                /\ accepting = {}
                /\ spawns = <<>> /\ spawning = {} /\ handed = <<>>

\* do_accept().  On an acceptor that is not open it fails at once.
DoAccept(opened) == /\ accept' = IF opened THEN "pending" ELSE "due"
                    /\ result' = Failure

\* launch(), with loop(): one of its four steps fails, which is reported, and
\* nothing more happens; or the acceptor listens and the first accept starts.
Launch == /\ acceptor = "none"
          /\ \/ acceptor' = "failed" /\ UNCHANGED <<accept, result>>
             \/ acceptor' = "listening" /\ DoAccept(TRUE)
          /\ UNCHANGED <<kernel, accepting, strand>>

\* close().  An accept that is pending is aborted.
Close == /\ acceptor = "listening" /\ acceptor' = "closed"
         /\ IF accept = "pending" THEN DoAccept(FALSE) ELSE UNCHANGED <<accept, result>>
         /\ UNCHANGED <<kernel, accepting, strand>>

\* Seeded fault: after an error there is no next accept.
OnAcceptFault(t) == /\ accept = "due" /\ accept' = "none"
                    /\ Len(spawns) < MaxSpawns
                    /\ spawns' = Append(spawns, result)
                    /\ accepting' = IF result = Failure THEN accepting ELSE accepting \cup {t}
                    /\ UNCHANGED <<acceptor, result, kernel, spawning, handed>>

\* on_accept: the result, an error as well, is posted to the strand ...
OnAccept(t) == /\ accept = "due" /\ accept' = "none"
               /\ Len(spawns) < MaxSpawns
               /\ spawns' = Append(spawns, result)
               /\ accepting' = accepting \cup {t}
               /\ UNCHANGED <<acceptor, result, kernel, spawning, handed>>

\* ... and the next accept is started.
NextAccept(t) == /\ t \in accepting /\ accepting' = accepting \ {t}
                 /\ DoAccept(acceptor = "listening")
                 /\ UNCHANGED <<acceptor, kernel, strand>>

\* on_spawn_connect of the i-th result that is posted.
Spawn(t, i) ==
  /\ spawns' = SubSeq(spawns, 1, i - 1) \o SubSeq(spawns, i + 1, Len(spawns))
  /\ spawning' = spawning \cup {t}
  /\ handed' = IF spawns[i] = Failure THEN handed ELSE Append(handed, spawns[i])
  /\ UNCHANGED <<acceptor, accept, result, kernel, accepting>>

\* Seeded fault: it is posted to the io_context instead of the strand.
OnSpawnConnectFault(t) == \E i \in DOMAIN spawns : Spawn(t, i)

\* on_spawn_connect calls the user.
OnSpawnConnect(t) == spawns # <<>> /\ spawning = {} /\ Spawn(t, 1)

\* The user's callback ends, by a return or by an exception.
Spawned(t) == /\ t \in spawning /\ spawning' = spawning \ {t}
              /\ UNCHANGED <<acceptor, accept, result, kernel, accepting, spawns, handed>>

-----------------------------------------------------------------------------
(* The environment *)

\* A peer connects; the acceptor holds connections nobody accepts yet.
Arrive == /\ acceptor = "listening" /\ arrived < MaxConns
          /\ arrived' = arrived + 1
          /\ UNCHANGED <<acceptor, accept, result, taken, failures, accepting, strand>>

AcceptEnds == /\ accept = "pending" /\ taken < arrived
              /\ accept' = "due" /\ result' = taken + 1 /\ taken' = taken + 1
              /\ UNCHANGED <<acceptor, arrived, failures, accepting, strand>>

\* A connection that is gone before it was accepted, no more descriptors.
AcceptFails == /\ accept = "pending" /\ failures < MaxErrors
               /\ failures' = failures + 1
               /\ accept' = "due" /\ result' = Failure
               /\ UNCHANGED <<acceptor, arrived, taken, accepting, strand>>

-----------------------------------------------------------------------------

\* The connections that were accepted and are on their way to the user.
Underway == ({spawns[i] : i \in DOMAIN spawns}
               \cup (IF accept = "due" THEN {result} ELSE {})) \ {Failure}

\* Connections are given to the user each once, in the order in which they
\* were accepted, and none is dropped on the way, though on_accept runs on any
\* thread and a thread may be overtaken amid it (listener.ipp:77-80).
AcceptedInOrder == /\ \A i \in DOMAIN handed : handed[i] = i
                   /\ Underway = (Len(handed) + 1) .. taken

\* Types: who runs what is in the invariant of App.
ListenerTypeOK ==
  /\ acceptor \in {"none", "failed", "listening", "closed"}
  /\ accept \in {"none", "pending", "due"}
  /\ result \in 0 .. MaxConns
  /\ taken \in 0 .. arrived /\ arrived \in 0 .. MaxConns
  /\ failures \in 0 .. MaxErrors
  /\ spawns \in Seq(0 .. MaxConns) /\ handed \in Seq(1 .. MaxConns)
=============================================================================
