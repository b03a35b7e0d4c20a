---------------------------- MODULE RouterProofs ----------------------------
(***************************************************************************)
(* RInv, with the parts a reader asks for, for any sets of sessions,       *)
(* threads, methods and patterns and chains of any length.                 *)
(***************************************************************************)
EXTENDS Router, TLAPS

\* The length of a chain is a number, and no chain is empty.
LEMMA Lengths == /\ MaxLen \in Nat /\ MaxLen >= 1
                 /\ 0 \notin 1 .. MaxLen /\ 1 \in 1 .. MaxLen
                 /\ 1 \in 1 .. (MaxLen + 1)
                 /\ \A n \in 1 .. MaxLen : n \in 0 .. MaxLen
  <1>1. MaxLen \in Nat \ {0}
    BY RouterAssumption
  <1>2. MaxLen \in Nat /\ MaxLen >= 1
    BY <1>1
  <1> QED
    BY <1>2

\* What is registered is no empty place.
LEMMA Chains ==
  /\ NoChain \notin Chain
  /\ \A c \in Chain : c.len \in 1 .. MaxLen
  /\ \A c \in Chain \cup {NoChain} : c.len \in 0 .. MaxLen
  <1>1. \A c \in Chain : c.len \in 1 .. MaxLen
    BY DEF Chain
  <1>2. NoChain.len = 0
    BY DEF NoChain
  <1>3. NoChain \notin Chain
    BY <1>1, <1>2, Lengths
  <1>4. 0 \in 0 .. MaxLen
    BY Lengths
  <1>5. ASSUME NEW c \in Chain \cup {NoChain}
        PROVE  c.len \in 0 .. MaxLen
    <2>1. CASE c \in Chain
      BY <2>1, <1>1, Lengths
    <2>2. CASE c = NoChain
      BY <2>2, <1>2, <1>4
    <2> QED
      BY <2>1, <2>2
  <1> QED
    BY <1>1, <1>3, <1>5

\* The place of NotFound, which no pattern has.
LEMMA Places == NotFound \in Key /\ NotFound[2] = "" /\ "" \notin Pattern
  <1>1. "" \notin Pattern
    BY RouterAssumption
  <1>2. NotFound \in Key
    BY DEF Key
  <1>3. NotFound[2] = ""
    BY DEF NotFound
  <1> QED
    BY <1>1, <1>2, <1>3

\* The states of a call differ.
LEMMA Calls == /\ NoCall \notin Call /\ [op |-> "done"] \notin Call
               /\ NoCall.op = "none" /\ [op |-> "done"].op = "done"
               /\ \A c \in Call : c.op = "add" /\ c.key \in Key /\ c.chain \in Chain
  BY DEF NoCall, Call

\* A response is a message.
LEMMA Messages == Response \in Request
  BY DEF Response, Request

\* NotFound is the only place of its method.
LEMMA Alone == \A k \in Key : k[1] = NotFound[1] => k = NotFound
  <1>1. NotFound[1] = "unknown" /\ "unknown" \notin Method
    BY RouterAssumption DEF NotFound
  <1>2. ASSUME NEW k \in Method \X Pattern
        PROVE  k[1] \in Method
    OBVIOUS
  <1> QED
    BY <1>1, <1>2 DEF Key

\* The initial states satisfy the invariant.
LEMMA InitInv == Init => RInv
  <1> SUFFICES ASSUME Init PROVE RInv
    OBVIOUS
  <1> USE DEF Init
  <1>1. [by |-> "router", len |-> 1] \in Chain
    BY Lengths DEF Chain
  <1>2. TypeOK
    <2>1. 1 \in 1 .. (MaxLen + 1)
      BY Lengths
    <2>2. m_method_map \in [Key -> Chain \cup {NoChain}]
      BY <1>1
    <2>3. call \in [Thread -> {NoCall, [op |-> "done"]} \cup Call]
      OBVIOUS
    <2>4. request \in [Session -> Request] /\ entry \in [Session -> Key]
      BY Messages, Places
    <2>5. phase \in [Session -> {"idle", "enter", "lookup", "chain", "leave"}]
      OBVIOUS
    <2>6. idx \in [Session -> 1 .. (MaxLen + 1)]
      BY <2>1
    <2>7. /\ todo \in [Session -> SUBSET Key] /\ is_handled \in [Session -> BOOLEAN]
          /\ data \in [Session -> BOOLEAN] /\ is_request \in BOOLEAN
          /\ readers \in SUBSET Session /\ writers \in SUBSET Thread
      OBVIOUS
    <2> QED
      BY <2>2, <2>3, <2>4, <2>5, <2>6, <2>7 DEF TypeOK
  <1>3. EntriesExist
    BY <1>1, Chains, Places DEF EntriesExist
  <1> QED
    BY <1>2, <1>3 DEF RInv, Exclusive, LockWhileUsed, InLookup, ContextPerChain, TodoOfMethod, NotFoundLast

-----------------------------------------------------------------------------
(* Registration: one lemma for each of its three steps *)

LEMMA RegisterInv ==
  ASSUME NEW w \in Thread, NEW k \in Key, NEW n \in 1 .. MaxLen
  PROVE  RInv /\ Register(w, k, n) => RInv'
  <1> SUFFICES ASSUME RInv, Register(w, k, n) PROVE RInv'
    OBVIOUS
  <1> USE DEF RInv, Register, UnchangedByCalls, loop, exec, lock
  <1>1. w \notin writers
    BY Calls DEF LockWhileUsed, Idle
  <1>2. [op |-> "add", key |-> k, chain |-> [by |-> w, len |-> n]] \in Call
    BY DEF Call, Chain
  <1>3. TypeOK'
    BY <1>2 DEF TypeOK
  <1>4. LockWhileUsed'
    BY <1>1 DEF LockWhileUsed, InLookup, TypeOK
  <1> QED
    BY <1>3, <1>4 DEF Exclusive, EntriesExist, ContextPerChain, TodoOfMethod, InLookup, NotFoundLast

LEMMA EnterToWriteInv ==
  ASSUME NEW w \in Thread
  PROVE  RInv /\ EnterToWrite(w) => RInv'
  <1> SUFFICES ASSUME RInv, EnterToWrite(w) PROVE RInv'
    OBVIOUS
  <1> USE DEF RInv, EnterToWrite, UnchangedByCalls, loop, exec
  <1>1. call[w] \in Call
    BY Calls DEF TypeOK
  <1>2. TypeOK'
    BY DEF TypeOK
  <1>3. LockWhileUsed'
    BY <1>1 DEF LockWhileUsed, InLookup
  <1>4. Exclusive'
    BY DEF Exclusive
  <1> QED
    BY <1>2, <1>3, <1>4 DEF EntriesExist, ContextPerChain, TodoOfMethod, InLookup, NotFoundLast

LEMMA AddResourceInv ==
  ASSUME NEW w \in Thread
  PROVE  RInv /\ AddResource(w) => RInv'
  <1> SUFFICES ASSUME RInv, AddResource(w) PROVE RInv'
    OBVIOUS
  <1> USE DEF RInv, AddResource, UnchangedByCalls, loop, exec
  <1>1. call[w].key \in Key /\ call[w].chain \in Chain
    BY Calls DEF LockWhileUsed
  <1>2. TypeOK'
    BY <1>1 DEF TypeOK
  <1>3. \A k \in Key : m_method_map[k] # NoChain => m_method_map'[k] # NoChain
    BY <1>1, Chains DEF TypeOK
  <1>4. LockWhileUsed'
    BY DEF LockWhileUsed, InLookup, Exclusive, TypeOK
  <1>5. Exclusive'
    BY DEF Exclusive
  <1>6. EntriesExist'
    <2>1. is_request' => m_method_map'[NotFound] # NoChain
      BY <1>3, Places DEF EntriesExist
    <2>2. ASSUME NEW s \in Session
          PROVE  /\ phase'[s] # "idle" => m_method_map'[NotFound] # NoChain
                 /\ phase'[s] \in {"lookup", "chain"} =>
                      \A k \in todo'[s] : m_method_map'[k] # NoChain
                 /\ phase'[s] = "chain" => m_method_map'[entry'[s]] # NoChain
      <3>1. todo[s] \subseteq Key /\ entry[s] \in Key
        BY DEF TypeOK
      <3> QED
        BY <1>3, <3>1, Places DEF EntriesExist
    <2> QED
      BY <2>1, <2>2 DEF EntriesExist
  <1> QED
    BY <1>2, <1>4, <1>5, <1>6 DEF ContextPerChain, TodoOfMethod, InLookup, NotFoundLast

-----------------------------------------------------------------------------
(* Dispatch: one lemma for each step of a session *)

LEMMA ReceiveInv ==
  ASSUME NEW s \in Session, NEW rq \in Request
  PROVE  RInv /\ Receive(s, rq) => RInv'
  <1> SUFFICES ASSUME RInv, Receive(s, rq) PROVE RInv'
    OBVIOUS
  <1> USE DEF RInv, Receive, UnchangedByDispatch, loop, exec
  <1>1. m_method_map[NotFound] # NoChain
    BY DEF EntriesExist, TypeOK
  <1>2. TypeOK'
    BY DEF TypeOK
  <1>3. InLookup' = InLookup
    BY DEF InLookup, TypeOK
  <1>4. EntriesExist'
    BY <1>1 DEF EntriesExist, TypeOK
  <1>5. ContextPerChain' /\ TodoOfMethod' /\ NotFoundLast'
    BY DEF ContextPerChain, TodoOfMethod, InLookup, NotFoundLast, TypeOK
  <1> QED
    BY <1>2, <1>3, <1>4, <1>5 DEF Exclusive, LockWhileUsed

LEMMA EnterToReadInv ==
  ASSUME NEW s \in Session
  PROVE  RInv /\ EnterToRead(s) => RInv'
  <1> SUFFICES ASSUME RInv, EnterToRead(s) PROVE RInv'
    OBVIOUS
  <1> USE DEF RInv, EnterToRead, UnchangedByDispatch, exec
  <1>1. \A m : /\ Entries(m) \subseteq Key
               /\ \A k \in Entries(m) : m_method_map[k] # NoChain /\ k[1] = m
    BY DEF Entries
  <1>2. TypeOK'
    BY <1>1 DEF TypeOK
  <1>3. InLookup' = InLookup \cup {s}
    BY DEF InLookup, TypeOK
  <1>4. EntriesExist'
    BY <1>1 DEF EntriesExist, TypeOK
  <1>5. ContextPerChain' /\ NotFoundLast'
    BY DEF ContextPerChain, NotFoundLast, TypeOK
  <1>6. TodoOfMethod'
    BY <1>1, <1>3 DEF TodoOfMethod, TypeOK
  <1> QED
    BY <1>2, <1>3, <1>4, <1>5, <1>6 DEF Exclusive, LockWhileUsed

\* Where an entry is tried the chain at it exists, and behind the entry of
\* NotFound there is no other.
LEMMA TryEntryInv ==
  ASSUME NEW s \in Session, NEW k \in todo[s]
  PROVE  RInv /\ TryEntry(s, k) => RInv'
  <1> SUFFICES ASSUME RInv, TryEntry(s, k) PROVE RInv'
    OBVIOUS
  <1> USE DEF RInv, TryEntry, UnchangedByDispatch, exec
  <1>1. m_method_map[k] # NoChain /\ k \in Key
    BY DEF EntriesExist, TypeOK
  <1>2. CASE k[2] \in request[s].matches
    <2> USE <1>2 DEF StartChain
    <2>1. k = NotFound => todo'[s] = {}
      <3>1. todo[s] \subseteq Key /\ \A j \in todo[s] : j[1] = k[1]
        BY DEF TypeOK, TodoOfMethod
      <3>2. k = NotFound => \A j \in todo[s] : j = k
        BY <3>1, Alone
      <3> QED
        BY <3>2 DEF TypeOK
    <2>2. TypeOK'
      BY <1>1, Lengths DEF TypeOK
    <2>3. InLookup' = InLookup
      BY DEF InLookup, TypeOK
    <2>4. EntriesExist'
      BY <1>1 DEF EntriesExist, TypeOK
    <2>5. ContextPerChain' /\ TodoOfMethod' /\ NotFoundLast'
      BY <2>1 DEF ContextPerChain, TodoOfMethod, InLookup, NotFoundLast, TypeOK
    <2> QED
      BY <2>2, <2>3, <2>4, <2>5 DEF Exclusive, LockWhileUsed
  <1>3. CASE k[2] \notin request[s].matches
    <2> USE <1>3
    <2>1. TypeOK'
      BY DEF TypeOK
    <2>2. InLookup' = InLookup
      BY DEF InLookup, TypeOK
    <2>3. EntriesExist'
      BY DEF EntriesExist, TypeOK
    <2>4. ContextPerChain' /\ TodoOfMethod' /\ NotFoundLast'
      BY DEF ContextPerChain, TodoOfMethod, InLookup, NotFoundLast, TypeOK
    <2> QED
      BY <2>1, <2>2, <2>3, <2>4 DEF Exclusive, LockWhileUsed
  <1> QED
    BY <1>2, <1>3

\* A step that ends a chain and leaves the entries alone; the message's last
\* chain is that of NotFound, so nothing is left to do after it.
LEMMA EndChainInv ==
  ASSUME NEW s \in Session, NEW result \in BOOLEAN,
         RInv, phase[s] = "chain", EndChain(s, result),
         data' \in [Session -> BOOLEAN], \A t \in Session : t # s => data'[t] = data[t],
         UNCHANGED <<readers, request, todo, entry, idx>>, UnchangedByDispatch
  PROVE  RInv'
  <1> USE DEF RInv, EndChain, UnchangedByDispatch
  <1>1. TypeOK'
    BY DEF TypeOK
  <1>2. InLookup' = InLookup
    BY DEF InLookup, TypeOK
  <1>3. EntriesExist'
    BY DEF EntriesExist, TypeOK
  <1>4. TodoOfMethod' /\ NotFoundLast'
    BY DEF TodoOfMethod, InLookup, NotFoundLast, TypeOK
  <1>5. ContextPerChain'
    <2>1. phase'[s] # "chain"
      BY DEF TypeOK
    <2>2. ASSUME NEW t \in Session, t # s
          PROVE  phase'[t] = phase[t]
      BY <2>2 DEF TypeOK
    <2>3. ASSUME NEW t \in Session, phase'[t] = "chain", idx'[t] = 1
          PROVE  ~data'[t]
      <3>1. t # s /\ phase[t] = "chain" /\ idx[t] = 1
        BY <2>1, <2>2, <2>3
      <3>2. ~data[t] /\ data'[t] = data[t]
        BY <3>1 DEF ContextPerChain
      <3> QED
        BY <3>1, <3>2
    <2> QED
      BY <2>3 DEF ContextPerChain
  <1> QED
    BY <1>1, <1>2, <1>3, <1>4, <1>5 DEF Exclusive, LockWhileUsed

\* A handler that runs is one of its chain: the index stays within what idx
\* may be, and is no more 1 when there may be data in the context.
LEMMA RunHandlerInv ==
  ASSUME NEW s \in Session, NEW declared, NEW said \in BOOLEAN, NEW sets \in BOOLEAN
  PROVE  RInv /\ RunHandler(s, declared, said, sets) => RInv'
  <1> SUFFICES ASSUME RInv, RunHandler(s, declared, said, sets) PROVE RInv'
    OBVIOUS
  <1> USE DEF RInv, RunHandler, UnchangedByDispatch
  <1>1. data' \in [Session -> BOOLEAN] /\ \A t \in Session : t # s => data'[t] = data[t]
    BY DEF TypeOK
  <1>2. CASE CallbackResult(declared, said)
    <2> USE <1>2
    <2>1. m_method_map[entry[s]].len \in 0 .. MaxLen
      BY Chains DEF TypeOK
    <2>2. idx[s] \in 1 .. (MaxLen + 1)
      BY DEF TypeOK
    <2>3. idx[s] + 1 \in 1 .. (MaxLen + 1) /\ idx[s] + 1 # 1
      BY <2>1, <2>2, Lengths
    <2>4. TypeOK'
      BY <1>1, <2>3 DEF TypeOK
    <2>5. InLookup' = InLookup
      BY DEF InLookup
    <2>6. EntriesExist' /\ TodoOfMethod' /\ NotFoundLast'
      BY DEF EntriesExist, TodoOfMethod, InLookup, NotFoundLast
    <2>7. ContextPerChain'
      BY <2>3 DEF ContextPerChain, TypeOK
    <2> QED
      BY <2>4, <2>5, <2>6, <2>7 DEF Exclusive, LockWhileUsed
  <1>3. CASE ~CallbackResult(declared, said)
    BY <1>1, <1>3, EndChainInv
  <1> QED
    BY <1>2, <1>3

LEMMA ChainEndsInv ==
  ASSUME NEW s \in Session
  PROVE  RInv /\ ChainEnds(s) => RInv'
  BY EndChainInv DEF ChainEnds, exec, RInv, TypeOK

LEMMA ServeNotFoundInv ==
  ASSUME NEW s \in Session
  PROVE  RInv /\ ServeNotFound(s) => RInv'
  <1> SUFFICES ASSUME RInv, ServeNotFound(s) PROVE RInv'
    OBVIOUS
  <1> USE DEF RInv, ServeNotFound, StartChain, UnchangedByDispatch, loop
  <1>1. TypeOK'
    BY Places, Lengths DEF TypeOK
  <1>2. InLookup' = InLookup
    BY DEF InLookup, TypeOK
  <1>3. EntriesExist'
    BY DEF EntriesExist, TypeOK
  <1>4. ContextPerChain' /\ TodoOfMethod' /\ NotFoundLast'
    BY DEF ContextPerChain, TodoOfMethod, InLookup, NotFoundLast, TypeOK
  <1> QED
    BY <1>1, <1>2, <1>3, <1>4 DEF Exclusive, LockWhileUsed

\* However a dispatch ends, its session leaves the readers with it.
LEMMA QuitInv ==
  ASSUME NEW s \in Session
  PROVE  RInv /\ Quit(s) => RInv'
  <1> SUFFICES ASSUME RInv, Quit(s) PROVE RInv'
    OBVIOUS
  <1> USE DEF RInv, Quit, UnchangedByDispatch
  <1>1. TypeOK'
    BY Places, Messages, Lengths DEF TypeOK
  <1>2. InLookup' = InLookup \ {s}
    BY DEF InLookup, TypeOK
  <1>3. EntriesExist'
    BY DEF EntriesExist, TypeOK
  <1>4. ContextPerChain' /\ TodoOfMethod' /\ NotFoundLast'
    BY DEF ContextPerChain, TodoOfMethod, InLookup, NotFoundLast, TypeOK
  <1> QED
    BY <1>1, <1>2, <1>3, <1>4 DEF Exclusive, LockWhileUsed

-----------------------------------------------------------------------------

LEMMA RegistrationInv ==
  ASSUME NEW w \in Thread
  PROVE  RInv /\ Registration(w) => RInv'
  <1> SUFFICES ASSUME RInv, Registration(w) PROVE RInv'
    OBVIOUS
  <1>1. ASSUME NEW n \in 1 .. MaxLen, NEW m \in Method, NEW p \in Pattern,
               AddRoute(w, m, p, n)
        PROVE  RInv'
    <2>1. <<m, p>> \in Key
      BY DEF Key
    <2> QED
      BY <1>1, <2>1, RegisterInv DEF AddRoute
  <1>2. ASSUME NEW n \in 1 .. MaxLen, AddNotFound(w, n) \/ HandleResponse(w, n)
        PROVE  RInv'
    BY <1>2, Places, RegisterInv DEF AddNotFound, HandleResponse
  <1> QED
    BY <1>1, <1>2, EnterToWriteInv, AddResourceInv DEF Registration

LEMMA DispatchInv ==
  ASSUME NEW s \in Session
  PROVE  RInv /\ (Dispatch(s) \/ Throw(s)) => RInv'
  <1> SUFFICES ASSUME RInv, Dispatch(s) \/ Throw(s) PROVE RInv'
    OBVIOUS
  <1>1. ASSUME NEW k \in todo[s], TryEntry(s, k) PROVE RInv'
    BY <1>1, TryEntryInv
  <1>2. CASE Handler(s)
    BY <1>2, RunHandlerInv DEF Handler
  <1>3. CASE Return(s) \/ Throw(s)
    BY <1>3, QuitInv DEF Return, Throw, RegexThrows, HandlerThrows
  <1> QED
    BY <1>1, <1>2, <1>3, EnterToReadInv, ChainEndsInv, ServeNotFoundInv DEF Dispatch

LEMMA StepInv == RInv /\ [Next]_vars => RInv'
  <1> SUFFICES ASSUME RInv, [Next]_vars PROVE RInv'
    OBVIOUS
  <1>1. CASE UNCHANGED vars
    BY <1>1 DEF vars, lock, loop, exec, RInv, TypeOK, Exclusive, LockWhileUsed,
                InLookup, EntriesExist, ContextPerChain, TodoOfMethod, NotFoundLast
  <1>2. CASE Next
    BY <1>2, RegistrationInv, ReceiveInv, DispatchInv DEF Next
  <1> QED
    BY <1>1, <1>2

\* The invariant of the router: the mutex excludes a registration from every
\* dispatch, everything the dispatch loop dereferences is there, every chain
\* has a context of its own and the fallback runs last.
THEOREM RouterInvariant == Spec => []RInv
  <1>1. Init => RInv
    BY InitInv
  <1>2. RInv /\ [Next]_vars => RInv'
    BY StepInv
  <1> QED
    BY <1>1, <1>2, PTL DEF Spec

\* The types, with them that no step of begin_execute goes past a chain.
THEOREM RouterTypes == Spec => []TypeOK
  <1>1. RInv => TypeOK
    BY DEF RInv
  <1> QED
    BY <1>1, RouterInvariant, PTL

\* The map is as a session found it for as long as the session refers to it:
\* no route comes, is replaced or destroyed meanwhile (dispatcher.hpp:55-76,
\* storage.hpp:72-81, router.ipp:42-46).
THEOREM RouterMapStandsStill == Spec => MapStandsStill
  <1>1. ASSUME RInv, NEW w \in Thread, Registration(w), NEW s \in Session,
               phase[s] \in {"lookup", "chain"}
        PROVE  m_method_map' = m_method_map
    <2>1. writers = {}
      BY <1>1 DEF RInv, LockWhileUsed, InLookup, Exclusive
    <2>2. ~AddResource(w)
      BY <2>1 DEF AddResource
    <2> QED
      BY <1>1, <2>2 DEF Registration, AddRoute, AddNotFound, HandleResponse, Register, EnterToWrite
  <1>2. ASSUME NEW s \in Session, Dispatch(s) \/ Throw(s) \/ \E rq \in Request : Receive(s, rq)
        PROVE  m_method_map' = m_method_map
    BY <1>2 DEF Dispatch, Throw, Receive, EnterToRead, TryEntry, Handler, RunHandler, ChainEnds,
                ServeNotFound, Return, RegexThrows, HandlerThrows, Quit, UnchangedByDispatch
  <1>3. RInv /\ [Next]_vars
          => [\A s \in Session :
                phase[s] \in {"lookup", "chain"} => m_method_map' = m_method_map]_vars
    BY <1>1, <1>2 DEF Next
  <1> QED
    BY <1>3, RouterInvariant, PTL DEF Spec, MapStandsStill
==============================================================================
