----------------------------- MODULE RouteTable -----------------------------
(***************************************************************************)
(* What a router promises to the sessions that dispatch through it: a      *)
(* message gets the chains of one state of the table, the one it found     *)
(* when it came.  It runs the chain of every route it wants that is in the *)
(* table, or the fallback chain if there is none, each chain once, from    *)
(* its first handler and one handler after the other, whatever is          *)
(* registered meanwhile.                                                   *)
(***************************************************************************)
EXTENDS Naturals

CONSTANTS
  Session,   \* who dispatches
  Key,       \* the places of the table
  Fallback,  \* the one for messages that want no other
  Chain,     \* records with the length `len` of the chain
  NoChain    \* what an empty place holds

VARIABLES
  table,    \* what is registered at each place
  serving,  \* the sessions that serve a message
  due,      \* per session, the chains it has to run yet
  now       \* per session, the chain it runs and the handler that is next

tvars == <<table, serving, due, now>>

\* The chains of the table for a message that wants the places `wanted`.
Selected(wanted) ==
  LET hits == {k \in wanted : table[k] # NoChain}
  IN  {<<k, table[k]>> : k \in IF hits = {} THEN {Fallback} ELSE hits}

Register(k, c) == /\ table' = [table EXCEPT ![k] = c]
                  /\ UNCHANGED <<serving, due, now>>

Take(s, wanted) == /\ s \notin serving
                   /\ serving' = serving \cup {s}
                   /\ due' = [due EXCEPT ![s] = Selected(wanted)]
                   /\ UNCHANGED <<table, now>>

Start(s, r) == /\ now[s] = {} /\ r \in due[s]
               /\ due' = [due EXCEPT ![s] = @ \ {r}]
               /\ now' = [now EXCEPT ![s] = {[chain |-> r[2], at |-> 1]}]
               /\ UNCHANGED <<table, serving>>

Handle(s) == \E r \in now[s] :
               /\ r.at <= r.chain.len
               /\ now' = [now EXCEPT ![s] = {[chain |-> r.chain, at |-> r.at + 1]}]
               /\ UNCHANGED <<table, serving, due>>

End(s) == \E r \in now[s] :
            /\ r.at > r.chain.len
            /\ now' = [now EXCEPT ![s] = {}]
            /\ UNCHANGED <<table, serving, due>>

Answered(s) == /\ s \in serving /\ now[s] = {} /\ due[s] = {}
               /\ serving' = serving \ {s}
               /\ UNCHANGED <<table, due, now>>

\* An exception takes the message away.
Fail(s) == /\ s \in serving /\ serving' = serving \ {s}
           /\ now' = [now EXCEPT ![s] = {}]
           /\ due' = [due EXCEPT ![s] = {}]
           /\ UNCHANGED table

Serve(s) == \/ \E wanted \in SUBSET Key : Take(s, wanted)
            \/ \E r \in due[s] : Start(s, r)
            \/ Handle(s) \/ End(s) \/ Answered(s) \/ Fail(s)

TableInit == /\ table \in [Key -> Chain \cup {NoChain}]
             /\ serving = {}
             /\ due = [s \in Session |-> {}]
             /\ now = [s \in Session |-> {}]

TableNext == \/ \E k \in Key, c \in Chain : Register(k, c)
             \/ \E s \in Session : Serve(s)

TableSpec == TableInit /\ [][TableNext]_tvars
=============================================================================
