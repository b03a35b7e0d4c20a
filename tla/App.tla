-------------------------------- MODULE App --------------------------------
(***************************************************************************)
(* A program on the library: one event loop whose threads run the handlers *)
(* of a listener and of a connector.  The user's code launches, connects   *)
(* and calls exec(); its callbacks may stop the loop, close the listener,  *)
(* throw, or just return, and another thread may stop the loop or close    *)
(* the listener meanwhile.                                                 *)
(*                                                                         *)
(* A thread in a handler is amid on_accept or in a callback of the user;   *)
(* handlers that end without either are one step.                          *)
(***************************************************************************)
EXTENDS EventLoop, Listener, Connector

CONSTANTS
  Stoppers,  \* who may call stop()
  MayThrow,  \* callbacks may throw
  MayBoth    \* the program may be a server and a client at a time

ASSUME AppAssumption ==
  Stoppers \subseteq Anybody /\ MayThrow \in BOOLEAN /\ MayBoth \in BOOLEAN

vars == <<lvars, avars, cvars>>

InUser == spawning \cup telling

-----------------------------------------------------------------------------
(* The program's own thread, before exec() *)

Setup == /\ at[Main] = "out"
         /\ MayBoth \/ (acceptor = "none" /\ stage = "none")
         /\ \/ Launch /\ UNCHANGED cvars
            \/ Connect /\ UNCHANGED avars
         /\ UNCHANGED lvars

-----------------------------------------------------------------------------
(* The handlers *)

RunAccept(t) == OnAccept(t) /\ Begin(t) /\ UNCHANGED cvars

RunNextAccept(t) == NextAccept(t) /\ End(t) /\ UNCHANGED cvars

RunSpawn(t) == OnSpawnConnect(t) /\ Begin(t) /\ UNCHANGED cvars

\* A handler of the connector that calls the user, or is over at once.
RunConnector(t) ==
  /\ at[t] = "run" /\ ~stopped
  /\ ResolveFailed(t) \/ Resolved(t) \/ ConnectFailed(t) \/ Connected(t)
  /\ IF telling' = {} THEN UNCHANGED lvars ELSE Begin(t)
  /\ UNCHANGED avars

-----------------------------------------------------------------------------
(* The user's callbacks *)

Leave(t) == \/ Spawned(t) /\ UNCHANGED cvars
            \/ Told(t) /\ UNCHANGED avars

UserReturn(t) == Leave(t) /\ End(t)

\* An exception leaves the handler; in a thread of the pool it ends the
\* program.
UserThrow(t) == MayThrow /\ Leave(t) /\ Throw(t)

UserStop(t) == /\ t \in (InUser \cup {Outside}) \cap Stoppers
               /\ Stop(t)
               /\ UNCHANGED <<avars, cvars>>

UserClose(t) == /\ t = Outside \/ (t \in InUser /\ at[t] = "handler")
                /\ Close
                /\ UNCHANGED <<lvars, cvars>>

-----------------------------------------------------------------------------

Loop == LoopStep /\ UNCHANGED <<avars, cvars>>

SomebodySignals == Signal /\ UNCHANGED <<avars, cvars>>

\* What the network does once the loop was stopped nobody is told of.
Network == /\ ~stopped
           /\ \/ (Arrive \/ AcceptEnds \/ AcceptFails) /\ UNCHANGED cvars
              \/ (ResolveEnds \/ ConnectEnds) /\ UNCHANGED avars
           /\ UNCHANGED lvars

Owner == Destroy /\ UNCHANGED <<lvars, avars>>

Work(t) == RunAccept(t) \/ RunNextAccept(t) \/ RunSpawn(t) \/ RunConnector(t)

Callback(t) == UserReturn(t) \/ UserThrow(t) \/ UserClose(t)

Init == LoopInit /\ ListenerInit /\ ConnectorInit

Next == ~aborted /\ \/ Setup \/ Loop \/ SomebodySignals \/ Network \/ Owner
                    \/ \E t \in Thread : Work(t)
                    \/ \E t \in Anybody : UserStop(t) \/ Callback(t)

Spec == Init /\ [][Next]_vars

\* The program calls exec(); threads go on; what is due gets its turn, as the
\* queue of the io_context is first in, first out; callbacks return or throw;
\* the kernel hands over what arrived, the resolver and the network answer.
\* Nobody has to connect, to signal or to stop, and nothing is closed.
Fairness ==
  /\ WF_vars(~aborted /\ Starting /\ UNCHANGED <<avars, cvars>>)
  /\ \A t \in Anybody : WF_vars(~aborted /\ Ending(t) /\ UNCHANGED <<avars, cvars>>)
  /\ \A t \in Thread : /\ WF_vars(~aborted /\ RunNextAccept(t))
                       /\ SF_vars(~aborted /\ (UserReturn(t) \/ UserThrow(t)))
  /\ SF_vars(~aborted /\ \E t \in Thread : RunAccept(t))
  /\ SF_vars(~aborted /\ \E t \in Thread : RunSpawn(t))
  /\ SF_vars(~aborted /\ \E t \in Thread : RunConnector(t))
  /\ SF_vars(~aborted /\ (\E t \in Thread : OnSignal(t)) /\ UNCHANGED <<avars, cvars>>)
  /\ WF_vars(~aborted /\ ~stopped /\ AcceptEnds /\ UNCHANGED <<lvars, cvars>>)
  /\ WF_vars(~aborted /\ ~stopped /\ (ResolveEnds \/ ConnectEnds) /\ UNCHANGED <<lvars, avars>>)

FairSpec == Spec /\ Fairness

-----------------------------------------------------------------------------
(* Properties *)

AppTypeOK ==
  /\ LTypeOK /\ ListenerTypeOK /\ ConnectorTypeOK
  /\ accepting \subseteq Thread /\ InUser \subseteq Thread
  /\ accepting \cap InUser = {} /\ spawning \cap telling = {}
  /\ \A t \in Thread :
       aborted \/ (at[t] \in {"handler", "stop"} <=> t \in accepting \cup InUser)
  /\ \A t \in Thread : at[t] = "stop" => t \in InUser

\* Nobody runs the handlers any more.
Ended == stopped \/ aborted \/ at[Main] = "gone"

\* A connection that the acceptor took in reaches the user, whatever errors
\* other accepts meet, unless the listener is closed or the loop ends
\* (listener.ipp:77-80).
ConnectionsHanded ==
  \A n \in 1 .. MaxConns :
    arrived >= n ~> Len(handed) >= n \/ acceptor = "closed" \/ Ended

\* A connector with on_error tells the user an outcome (connector.ipp:47-83).
ConnectTold ==
  HasOnError => (stage # "none" ~> outcome # <<>> \/ Ended)

Stopping == {t \in Anybody : at[t] = "stop"}

\* stop() returns, though it waits for threads that may themselves call it:
\* or the program was ended by an exception (event_loop.ipp:28-29).
StopEnds == Stopping # {} ~> Stopping = {} \/ aborted

\* SIGINT and SIGTERM end exec() (event_loop.ipp:41-50).
SignalEnds == signals = "due" ~> at[Main] = "gone" \/ aborted

\* The program is terminated by nothing but a stop() on a thread of the pool,
\* which joins itself, or a callback on such a thread that threw: never by a
\* stop() from outside or on the thread in exec(), nor by an exception there
\* (event_loop.ipp:26-30 and 46-50).
AbortHasCause ==
  aborted => \E t \in Pool :
    \/ t \in Stoppers /\ at[t] = "stop" /\ joins[t] = t
    \/ MayThrow /\ at[t] = "handler" /\ t \notin accepting \cup InUser

\* stop() stops the loop, and not the program: without exceptions of the
\* user's no thread is terminated (event_loop.hpp:59-63).
StopOnlyStops == ~MayThrow => ~aborted
=============================================================================
