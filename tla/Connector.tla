----------------------------- MODULE Connector -----------------------------
(***************************************************************************)
(* The connector: resolve, connect, and one callback of the user with the  *)
(* outcome.  on_resolve runs on any thread, on_connect on the connector's  *)
(* strand, which runs nothing else.  The connector owns a connection,      *)
(* which shuts an open socket down when it is destroyed.                   *)
(***************************************************************************)
EXTENDS Naturals, Sequences

CONSTANT HasOnError  \* the user gave an on_error callback

ASSUME ConnectorAssumption == HasOnError \in BOOLEAN

VARIABLES
  stage,    \* the operation: outstanding, or ended with its handler due
  socket,   \* the socket of m_connection
  telling,  \* the thread that runs the user's callback
  exists,   \* the object does
  outcome   \* history: what the user was told

cvars == <<stage, socket, telling, exists, outcome>>

-----------------------------------------------------------------------------

ConnectorInit == /\ stage = "none" /\ socket = "closed"
                 /\ telling = {} /\ exists = TRUE /\ outcome = <<>>

DoResolve == stage' = "resolving"

\* connect(): the connector is made and resolves; the user gets a pointer.
Connect == /\ stage = "none" /\ DoResolve
           /\ UNCHANGED <<socket, telling, exists, outcome>>

\* m_on_error, if there is one.
Fail(t) == IF HasOnError
           THEN telling' = {t} /\ outcome' = Append(outcome, "error")
           ELSE UNCHANGED <<telling, outcome>>

\* Seeded fault: the return after the report is missing.
ResolveFailedFault(t) == /\ stage = "unresolved" /\ stage' = "connecting"
                         /\ Fail(t)
                         /\ UNCHANGED <<socket, exists>>

\* on_resolve with an error, and without.
ResolveFailed(t) == /\ stage = "unresolved" /\ stage' = "ended"
                    /\ Fail(t)
                    /\ UNCHANGED <<socket, exists>>

Resolved(t) == /\ stage = "resolved" /\ stage' = "connecting"
               /\ UNCHANGED <<socket, telling, exists, outcome>>

\* Seeded fault: the error is not reported.
ConnectFailedFault(t) == /\ stage = "unconnected" /\ stage' = "ended"
                         /\ UNCHANGED <<socket, telling, exists, outcome>>

\* on_connect with an error, and without.
ConnectFailed(t) == /\ stage = "unconnected" /\ stage' = "ended"
                    /\ Fail(t)
                    /\ UNCHANGED <<socket, exists>>

\* release() moves the socket out of the connection.
Connected(t) == /\ stage = "connected" /\ stage' = "ended"
                /\ telling' = {t} /\ outcome' = Append(outcome, "socket")
                /\ socket' = "user"
                /\ UNCHANGED exists

Told(t) == /\ t \in telling /\ telling' = {}
           /\ UNCHANGED <<stage, socket, exists, outcome>>

\* Seeded fault: the handler of async_connect does not own the connector.
DestroyFault == /\ exists /\ stage \in {"connecting", "ended"} /\ telling = {}
                /\ exists' = FALSE
                /\ socket' = IF socket = "open" THEN "shut" ELSE socket
                /\ UNCHANGED <<stage, telling, outcome>>

\* The handlers own the connector, as may the user: the last owner is gone.
Destroy == /\ exists /\ stage = "ended" /\ telling = {}
           /\ exists' = FALSE
           /\ socket' = IF socket = "open" THEN "shut" ELSE socket
           /\ UNCHANGED <<stage, telling, outcome>>

-----------------------------------------------------------------------------
(* The environment: the resolver and the network.  A connect that failed   *)
(* leaves the socket as it was opened for the last endpoint, if any.       *)

ResolveEnds == /\ stage = "resolving"
               /\ stage' \in {"resolved", "unresolved"}
               /\ UNCHANGED <<socket, telling, exists, outcome>>

ConnectEnds == /\ stage = "connecting"
               /\ \/ stage' = "connected" /\ socket' = "open"
                  \/ stage' = "unconnected" /\ socket' \in {"closed", "open"}
               /\ UNCHANGED <<telling, exists, outcome>>

-----------------------------------------------------------------------------

ConnectorTypeOK ==
  /\ stage \in {"none", "resolving", "resolved", "unresolved", "connecting",
                "connected", "unconnected", "ended"}
  /\ socket \in {"closed", "open", "user", "shut"}
  /\ exists \in BOOLEAN

\* The user is told one outcome at most, and none before the attempt is over
\* (connector.ipp:51-56 and 75-82).
OneOutcome == Len(outcome) <= (IF stage = "ended" THEN 1 ELSE 0)

\* Nothing happens to a connector that was destroyed: the resolver, the
\* connection and the user's callback act on one that a handler owns
\* (connector.ipp:37-45 and 58-66).
NothingAfterDestroy == [][exists]_cvars

\* A connector with an on_error does not go in silence: when its last owner is
\* gone it has told the user its one outcome, a socket or an error, at
\* whichever step the attempt failed and whoever gave up the pointer
\* (connector.ipp:44, 51-56, 64-65 and 75-82).
DiesTold == (HasOnError /\ ~exists) => Len(outcome) = 1
=============================================================================
