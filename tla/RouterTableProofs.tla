-------------------------- MODULE RouterTableProofs --------------------------
(***************************************************************************)
(* The router implements RouteTable: each of its steps is a step of the    *)
(* table as its users see it, or none at all.                              *)
(***************************************************************************)
EXTENDS RouterProofs

\* The refinement mapping.
dues == [t \in Session |-> Due(t)]
nows == [t \in Session |-> Now(t)]

\* What one session does changes nothing in what another has to run.
LEMMA Others ==
  ASSUME NEW s \in Session, UNCHANGED m_method_map,
         \A t \in Session : t # s =>
           /\ phase'[t] = phase[t] /\ request'[t] = request[t] /\ todo'[t] = todo[t]
           /\ is_handled'[t] = is_handled[t] /\ entry'[t] = entry[t] /\ idx'[t] = idx[t]
  PROVE  /\ dues' = [dues EXCEPT ![s] = Due(s)']
         /\ nows' = [nows EXCEPT ![s] = Now(s)']
  <1>1. ASSUME NEW t \in Session, t # s PROVE Due(t)' = Due(t) /\ Now(t)' = Now(t)
    BY <1>1 DEF Due, Wanted, Now
  <1> QED
    BY <1>1 DEF dues, nows

LEMMA AtSession == \A s \in Session : dues[s] = Due(s) /\ nows[s] = Now(s)
  BY DEF dues, nows

\* A session that is done with a step that changes none of its duties.
LEMMA SameDuties ==
  ASSUME NEW s \in Session, dues' = [dues EXCEPT ![s] = Due(s)'],
         nows' = [nows EXCEPT ![s] = Now(s)'],
         Due(s)' = Due(s), Now(s)' = Now(s), UNCHANGED <<m_method_map, readers>>
  PROVE  UNCHANGED Table!tvars
  BY AtSession DEF Table!tvars, dues, nows

\* What a session has to run, and runs, in each phase.
DutiesOf(s) ==
  /\ phase[s] \notin {"lookup", "chain"} => Due(s) = {}
  /\ phase[s] = "chain" \/ (phase[s] = "lookup" /\ (is_handled[s] \/ Wanted(s) # {})) =>
       Due(s) = {<<k, m_method_map[k]>> : k \in Wanted(s)}
  /\ phase[s] = "lookup" /\ ~is_handled[s] /\ Wanted(s) = {} =>
       Due(s) = {<<NotFound, m_method_map[NotFound]>>}
  /\ phase[s] # "chain" => Now(s) = {}
  /\ phase[s] = "chain" =>
       Now(s) = {[chain |-> m_method_map[entry[s]], at |-> idx[s]]}

LEMMA Duties ==
  ASSUME NEW s \in Session
  PROVE  DutiesOf(s) /\ DutiesOf(s)'
  BY DEF DutiesOf, Due, Now

-----------------------------------------------------------------------------
(* Registration *)

\* With the mutex held exclusively nobody dispatches, and has a chain to run.
LEMMA AddResourceTable ==
  ASSUME NEW w \in Thread, RInv, AddResource(w)
  PROVE  Table!TableNext
  <1> USE DEF AddResource, UnchangedByCalls, loop, exec, RInv
  <1>1. call[w].key \in Key /\ call[w].chain \in Chain
    BY Calls DEF LockWhileUsed
  <1>2. InLookup = {}
    BY DEF Exclusive, LockWhileUsed
  <1>3. ASSUME NEW s \in Session
        PROVE  Due(s)' = Due(s) /\ Now(s)' = Now(s)
    BY <1>2, Duties DEF DutiesOf, InLookup
  <1>4. Table!Register(call[w].key, call[w].chain)
    BY <1>3 DEF Table!Register
  <1> QED
    BY <1>1, <1>4 DEF Table!TableNext

LEMMA RegistrationTable ==
  ASSUME NEW w \in Thread, RInv, Registration(w)
  PROVE  [Table!TableNext]_Table!tvars
  <1>1. CASE AddResource(w)
    BY <1>1, AddResourceTable
  <1>2. CASE UNCHANGED <<m_method_map, readers, phase, request, loop, exec>>
    BY <1>2 DEF Table!tvars, loop, exec, Due, Now, Wanted
  <1> QED
    BY <1>1, <1>2 DEF Registration, AddRoute, AddNotFound, HandleResponse, Register,
                      EnterToWrite, UnchangedByCalls, lock

-----------------------------------------------------------------------------
(* Dispatch *)

\* A message takes what the table holds when the mutex is granted.
LEMMA EnterToReadTable ==
  ASSUME NEW s \in Session, RInv, EnterToRead(s)
  PROVE  Table!Serve(s)
  <1> DEFINE wanted == IF is_request
                       THEN {k \in Key : k[1] = request[s].method /\ k[2] \in request[s].matches}
                       ELSE {}
             hits == {k \in wanted : m_method_map[k] # NoChain}
  <1> USE DEF EnterToRead, UnchangedByDispatch, exec, RInv
  <1>1. s \notin readers
    BY DEF LockWhileUsed, InLookup
  <1>2. wanted \in SUBSET Key
    OBVIOUS
  <1>3. phase'[s] = "lookup" /\ ~is_handled'[s] /\ request' = request
    BY DEF TypeOK
  <1>4. Wanted(s)' = hits
    BY <1>3 DEF Wanted, Entries, TypeOK
  <1>5. Due(s)' = Table!Selected(wanted)
    <2>1. CASE hits = {}
      BY <1>3, <1>4, <2>1, Duties DEF DutiesOf, Table!Selected
    <2>2. CASE hits # {}
      BY <1>3, <1>4, <2>2, Duties DEF DutiesOf, Table!Selected
    <2> QED
      BY <2>1, <2>2
  <1>6. Now(s)' = {} /\ Now(s) = {}
    BY <1>3, Duties DEF DutiesOf
  <1>7. /\ dues' = [dues EXCEPT ![s] = Due(s)']
        /\ nows' = [nows EXCEPT ![s] = Now(s)']
    BY Others DEF TypeOK
  <1>8. nows' = nows
    BY <1>6, <1>7, AtSession DEF nows
  <1>9. Table!Take(s, wanted)
    BY <1>1, <1>5, <1>7, <1>8 DEF Table!Take, dues, nows
  <1> QED
    BY <1>2, <1>9 DEF Table!Serve

\* An entry the message wants is due; one it does not want never was.
LEMMA TryEntryTable ==
  ASSUME NEW s \in Session, NEW k \in todo[s], RInv, TryEntry(s, k)
  PROVE  Table!Serve(s) \/ UNCHANGED Table!tvars
  <1> USE DEF TryEntry, UnchangedByDispatch, exec, RInv
  <1>1. UNCHANGED <<m_method_map, readers>> /\ phase[s] = "lookup"
    OBVIOUS
  <1>2. todo'[s] = todo[s] \ {k} /\ request' = request /\ is_handled' = is_handled
    BY DEF TypeOK
  <1>3. CASE k[2] \in request[s].matches
    <2> USE <1>3 DEF StartChain
    <2>1. phase'[s] = "chain" /\ entry'[s] = k /\ idx'[s] = 1
      BY DEF TypeOK
    <2>2. k \in Wanted(s) /\ Wanted(s)' = Wanted(s) \ {k}
      BY <1>2 DEF Wanted
    <2>3. Due(s) = {<<j, m_method_map[j]>> : j \in Wanted(s)}
      BY <1>1, <2>2, Duties DEF DutiesOf
    <2>4. Due(s)' = {<<j, m_method_map[j]>> : j \in Wanted(s) \ {k}}
      BY <1>1, <2>1, <2>2, Duties DEF DutiesOf
    <2>5. <<k, m_method_map[k]>> \in Due(s) /\ Due(s)' = Due(s) \ {<<k, m_method_map[k]>>}
      BY <2>2, <2>3, <2>4
    <2>6. Now(s) = {} /\ Now(s)' = {[chain |-> m_method_map[k], at |-> 1]}
      BY <1>1, <2>1, Duties DEF DutiesOf
    <2>7. /\ dues' = [dues EXCEPT ![s] = Due(s)']
          /\ nows' = [nows EXCEPT ![s] = Now(s)']
      BY Others DEF TypeOK
    <2>8. Table!Start(s, <<k, m_method_map[k]>>)
      BY <1>1, <2>5, <2>6, <2>7, AtSession DEF Table!Start, dues, nows
    <2> QED
      BY <2>5, <2>8 DEF Table!Serve
  <1>4. CASE k[2] \notin request[s].matches
    <2> USE <1>4
    <2>1. phase' = phase /\ entry' = entry /\ idx' = idx
      OBVIOUS
    <2>2. Wanted(s)' = Wanted(s)
      BY <1>2 DEF Wanted
    <2>3. Due(s)' = Due(s) /\ Now(s)' = Now(s)
      BY <1>1, <1>2, <2>1, <2>2 DEF Due, Now
    <2>4. /\ dues' = [dues EXCEPT ![s] = Due(s)']
          /\ nows' = [nows EXCEPT ![s] = Now(s)']
      BY Others DEF TypeOK
    <2> QED
      BY <1>1, <2>3, <2>4, SameDuties
  <1> QED
    BY <1>3, <1>4

\* No result of a handler ends its chain (ReturnType).
LEMMA RunHandlerTable ==
  ASSUME NEW s \in Session, NEW declared, NEW said \in BOOLEAN, NEW sets \in BOOLEAN,
         RInv, RunHandler(s, declared, said, sets)
  PROVE  Table!Serve(s)
  <1> DEFINE r == [chain |-> m_method_map[entry[s]], at |-> idx[s]]
  <1> USE DEF RunHandler, UnchangedByDispatch, RInv
  <1>1. idx' = [idx EXCEPT ![s] = @ + 1] /\ UNCHANGED <<phase, is_handled>>
    BY DEF CallbackResult, ReturnType
  <1>2. idx'[s] = idx[s] + 1
    BY <1>1 DEF TypeOK
  <1>3. Due(s)' = Due(s)
    BY <1>1 DEF Due, Wanted
  <1>4. Now(s) = {r} /\ Now(s)' = {[chain |-> r.chain, at |-> r.at + 1]}
    BY <1>1, <1>2 DEF Now
  <1>5. /\ dues' = [dues EXCEPT ![s] = Due(s)']
        /\ nows' = [nows EXCEPT ![s] = Now(s)']
    BY <1>1, Others DEF TypeOK
  <1>6. dues' = dues
    BY <1>3, <1>5, AtSession DEF dues
  <1>7. Table!Handle(s)
    BY <1>4, <1>5, <1>6, AtSession DEF Table!Handle, dues, nows
  <1> QED
    BY <1>7 DEF Table!Serve

\* The chain of NotFound leaves nothing due, as it is run last.
LEMMA ChainEndsTable ==
  ASSUME NEW s \in Session, RInv, ChainEnds(s)
  PROVE  Table!Serve(s)
  <1> DEFINE r == [chain |-> m_method_map[entry[s]], at |-> idx[s]]
  <1> USE DEF ChainEnds, EndChain, UnchangedByDispatch, exec, RInv
  <1>1. is_handled'[s] /\ phase'[s] = IF entry[s] = NotFound THEN "leave" ELSE "lookup"
    BY DEF TypeOK
  <1>2. Wanted(s)' = Wanted(s)
    BY DEF Wanted
  <1>3. Due(s) = {<<k, m_method_map[k]>> : k \in Wanted(s)}
    BY Duties DEF DutiesOf
  <1>4. Due(s)' = Due(s)
    <2>1. CASE entry[s] = NotFound
      <3>1. Wanted(s) = {}
        BY <2>1 DEF NotFoundLast, Wanted
      <3> QED
        BY <1>1, <1>3, <2>1, <3>1, Duties DEF DutiesOf
    <2>2. CASE entry[s] # NotFound
      BY <1>1, <1>2, <1>3, <2>2, Duties DEF DutiesOf
    <2> QED
      BY <2>1, <2>2
  <1>5. Now(s) = {r} /\ Now(s)' = {}
    BY <1>1, Duties DEF DutiesOf
  <1>6. /\ dues' = [dues EXCEPT ![s] = Due(s)']
        /\ nows' = [nows EXCEPT ![s] = Now(s)']
    BY Others DEF TypeOK
  <1>7. dues' = dues
    BY <1>4, <1>6, AtSession DEF dues
  <1>8. Table!End(s)
    BY <1>5, <1>6, <1>7, AtSession DEF Table!End, dues, nows
  <1> QED
    BY <1>8 DEF Table!Serve

LEMMA ServeNotFoundTable ==
  ASSUME NEW s \in Session, RInv, ServeNotFound(s)
  PROVE  Table!Serve(s)
  <1> DEFINE r == <<NotFound, m_method_map[NotFound]>>
  <1> USE DEF ServeNotFound, StartChain, UnchangedByDispatch, loop, RInv
  <1>1. phase'[s] = "chain" /\ entry'[s] = NotFound /\ idx'[s] = 1
    BY DEF TypeOK
  <1>2. Wanted(s) = {} /\ Wanted(s)' = {}
    BY DEF Wanted
  <1>3. Due(s) = {r} /\ Due(s)' = {}
    BY <1>1, <1>2, Duties DEF DutiesOf
  <1>4. Now(s) = {} /\ Now(s)' = {[chain |-> m_method_map[NotFound], at |-> 1]}
    BY <1>1, Duties DEF DutiesOf
  <1>5. /\ dues' = [dues EXCEPT ![s] = Due(s)']
        /\ nows' = [nows EXCEPT ![s] = Now(s)']
    BY Others DEF TypeOK
  <1>6. Table!Start(s, r)
    BY <1>3, <1>4, <1>5, AtSession DEF Table!Start, dues, nows
  <1> QED
    BY <1>3, <1>6 DEF Table!Serve

\* However a dispatch ends, the table has nothing due for its session then.
LEMMA QuitTable ==
  ASSUME NEW s \in Session, RInv, Quit(s)
  PROVE  /\ readers' = readers \ {s} /\ m_method_map' = m_method_map
         /\ dues' = [dues EXCEPT ![s] = {}] /\ nows' = [nows EXCEPT ![s] = {}]
  <1> USE DEF Quit, UnchangedByDispatch, RInv
  <1>1. phase'[s] = "idle"
    BY DEF TypeOK
  <1>2. Due(s)' = {} /\ Now(s)' = {}
    BY <1>1, Duties DEF DutiesOf
  <1>3. /\ dues' = [dues EXCEPT ![s] = Due(s)']
        /\ nows' = [nows EXCEPT ![s] = Now(s)']
    BY Others DEF TypeOK
  <1> QED
    BY <1>2, <1>3

LEMMA ReturnTable ==
  ASSUME NEW s \in Session, RInv, Return(s)
  PROVE  Table!Serve(s)
  <1>1. s \in readers
    BY DEF RInv, LockWhileUsed, InLookup, Return
  <1>2. Due(s) = {} /\ Now(s) = {}
    <2>1. CASE phase[s] = "leave"
      BY <2>1, Duties DEF DutiesOf
    <2>2. CASE phase[s] = "lookup" /\ todo[s] = {} /\ is_handled[s]
      <3>1. Wanted(s) = {}
        BY <2>2 DEF Wanted
      <3> QED
        BY <2>2, <3>1, Duties DEF DutiesOf
    <2> QED
      BY <2>1, <2>2 DEF Return
  <1>3. UNCHANGED <<m_method_map, dues, nows>> /\ readers' = readers \ {s}
    BY <1>2, QuitTable, AtSession DEF Return, dues, nows
  <1>4. Table!Answered(s)
    BY <1>1, <1>2, <1>3, AtSession DEF Table!Answered, dues, nows
  <1> QED
    BY <1>4 DEF Table!Serve

LEMMA ThrowTable ==
  ASSUME NEW s \in Session, RInv, Throw(s)
  PROVE  Table!Serve(s)
  <1>1. s \in readers
    BY DEF RInv, LockWhileUsed, InLookup, Throw, RegexThrows, HandlerThrows
  <1>2. Table!Fail(s)
    BY <1>1, QuitTable DEF Throw, RegexThrows, HandlerThrows, Table!Fail, dues, nows
  <1> QED
    BY <1>2 DEF Table!Serve

\* A message that comes has nothing due yet.
LEMMA ReceiveTable ==
  ASSUME NEW s \in Session, NEW rq \in Request, RInv, Receive(s, rq)
  PROVE  UNCHANGED Table!tvars
  <1> USE DEF Receive, UnchangedByDispatch, loop, exec, RInv
  <1>1. phase'[s] = "enter"
    BY DEF TypeOK
  <1>2. Due(s)' = Due(s) /\ Now(s)' = Now(s)
    BY <1>1, Duties DEF DutiesOf
  <1>3. /\ dues' = [dues EXCEPT ![s] = Due(s)']
        /\ nows' = [nows EXCEPT ![s] = Now(s)']
    BY Others DEF TypeOK
  <1> QED
    BY <1>2, <1>3, SameDuties

-----------------------------------------------------------------------------

LEMMA InitTable == Init => Table!TableInit
  <1> SUFFICES ASSUME Init PROVE Table!TableInit
    OBVIOUS
  <1>1. RInv
    BY InitInv
  <1>2. ASSUME NEW s \in Session PROVE Due(s) = {} /\ Now(s) = {}
    BY <1>2, Duties DEF DutiesOf, Init
  <1> QED
    BY <1>1, <1>2 DEF Table!TableInit, RInv, TypeOK, Init

LEMMA StepTable == RInv /\ [Next]_vars => [Table!TableNext]_Table!tvars
  <1> SUFFICES ASSUME RInv, [Next]_vars PROVE [Table!TableNext]_Table!tvars
    OBVIOUS
  <1>1. CASE UNCHANGED vars
    BY <1>1 DEF vars, lock, loop, exec, Table!tvars, Due, Now, Wanted
  <1>2. ASSUME NEW w \in Thread, Registration(w) PROVE [Table!TableNext]_Table!tvars
    BY <1>2, RegistrationTable
  <1>3. ASSUME NEW s \in Session, NEW rq \in Request, Receive(s, rq)
        PROVE  [Table!TableNext]_Table!tvars
    BY <1>3, ReceiveTable
  <1>4. ASSUME NEW s \in Session, Dispatch(s) PROVE [Table!TableNext]_Table!tvars
    <2>1. ASSUME NEW k \in todo[s], TryEntry(s, k) PROVE [Table!TableNext]_Table!tvars
      BY <2>1, TryEntryTable DEF Table!TableNext
    <2>2. CASE Handler(s)
      BY <2>2, RunHandlerTable DEF Handler, Table!TableNext
    <2> QED
      BY <1>4, <2>1, <2>2, EnterToReadTable, ChainEndsTable, ServeNotFoundTable, ReturnTable
      DEF Dispatch, Table!TableNext
  <1>5. ASSUME NEW s \in Session, Throw(s) PROVE [Table!TableNext]_Table!tvars
    BY <1>5, ThrowTable DEF Table!TableNext
  <1> QED
    BY <1>1, <1>2, <1>3, <1>4, <1>5 DEF Next

\* A message runs the chains that were registered when its session got the
\* mutex, all of them, each once and from its first handler to its last,
\* whatever is registered meanwhile (dispatcher.hpp:55-90).
THEOREM RouterImplementsTable == Spec => RoutePromise
  <1>1. Init => Table!TableInit
    BY InitTable
  <1>2. RInv /\ [Next]_vars => [Table!TableNext]_Table!tvars
    BY StepTable
  <1> QED
    BY <1>1, <1>2, RouterInvariant, PTL DEF Spec, RoutePromise, Table!TableSpec

==============================================================================
