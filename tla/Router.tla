------------------------------- MODULE Router -------------------------------
(***************************************************************************)
(* The router, the dispatchers of the sessions that use it, the chains of  *)
(* handlers (base::storage) and the mutex that all of them share.          *)
(*                                                                         *)
(* A session dispatches a message inside its on_read, on whatever thread   *)
(* runs its strand: it holds the mutex shared from the lookup to the end   *)
(* of the last handler and goes through the map while it runs what it      *)
(* finds.  Other threads register chains, holding the mutex exclusively.   *)
(* One action is what happens between two points at which another thread's *)
(* step may matter: a lock is granted, a pattern tried, a handler run.     *)
(*                                                                         *)
(* A pattern stands for its regular expression and a message carries the   *)
(* set of the patterns its target matches.                                 *)
(***************************************************************************)
EXTENDS Naturals

CONSTANTS
  Session,  \* the sessions, each with its dispatcher
  Thread,   \* the threads that register, each with one call
  Method,   \* the methods that routes are registered for
  Pattern,  \* the patterns of routes
  Invalid,  \* those that are no regular expressions
  MaxLen    \* bound on the handlers of a chain

ASSUME RouterAssumption ==
  /\ Invalid \subseteq Pattern
  /\ MaxLen \in Nat \ {0}
  /\ "unknown" \notin Method
  /\ "" \notin Pattern
  /\ "router" \notin Thread

VARIABLES
  is_request,    \* the router of a server (true) or of a client; never changes
  m_method_map,  \* the chain registered for each method and path
  readers,       \* m_mutex: who holds it shared,
  writers,       \*          and who holds it exclusively
  call,          \* per thread: its call of the router
  phase,         \* per session: where do_process_request is
  request,       \* the message being dispatched
  todo,          \* the entries of resource_map for_each has not come to
  is_handled,    \* the variable of that name
  entry,         \* the entry whose chain is being executed
  idx,           \* the variable of that name in begin_execute, from 1
  data           \* the context holds user data

lock == <<readers, writers>>
loop == <<todo, is_handled>>
exec == <<entry, idx, data>>

vars == <<is_request, m_method_map, lock, call, phase, request, loop, exec>>

-----------------------------------------------------------------------------

\* not_found() and handle_response() register at this place.
NotFound == <<"unknown", "">>

Key == (Method \X Pattern) \cup {NotFound}

\* A chain: who registered it, and its number of handlers.
Chain == [by : Thread \cup {"router"}, len : 1 .. MaxLen]

NoChain == [by |-> "nobody", len |-> 0]

NoCall == [op |-> "none"]

Call == [op : {"add"}, key : Key, chain : Chain]

\* A message of a server: of a method that has routes, with what its target
\* matches, or of any other.  A read that failed before its start line yields
\* a message as it was constructed, of method unknown and with an empty
\* target: the path "" of NotFound matches that, and no other target.
Other  == [method |-> "unknown", matches |-> {}]
Unread == [method |-> "unknown", matches |-> {""}]

Request == [method : Method, matches : SUBSET (Pattern \ Invalid)] \cup {Other, Unread}

\* A message of a client.
Response == Other

\* return_type of callback_impl.  The handler's type reaches func_traits as a
\* reference, which no specialisation but the one for functions fits.
ReturnType(declared) == "void"

\* What operator() of callback_impl returns for a handler of that type.
CallbackResult(declared, said) == IF ReturnType(declared) = "bool" THEN said ELSE TRUE

-----------------------------------------------------------------------------
(* Registration *)

Idle(w) == call[w] = NoCall

UnchangedByCalls == UNCHANGED <<is_request, phase, request, loop, exec>>

Register(w, k, n) ==
  /\ Idle(w)
  /\ call' = [call EXCEPT ![w] =
                [op |-> "add", key |-> k, chain |-> [by |-> w, len |-> n]]]
  /\ UNCHANGED <<m_method_map, lock>> /\ UnchangedByCalls

\* get(), put(), post() and delete_().  The path is not looked at.
AddRoute(w, m, p, n) == is_request /\ Register(w, <<m, p>>, n)

AddNotFound(w, n) == is_request /\ Register(w, NotFound, n)

HandleResponse(w, n) == ~is_request /\ Register(w, NotFound, n)

\* Seeded fault: those who hold the mutex shared are not waited for.
EnterToWriteFault(w) ==
  /\ call[w] # NoCall /\ call[w].op = "add" /\ w \notin writers
  /\ writers = {}
  /\ writers' = {w}
  /\ UNCHANGED <<m_method_map, readers, call>> /\ UnchangedByCalls

\* add_resource() gets the mutex.
EnterToWrite(w) ==
  /\ call[w] # NoCall /\ call[w].op = "add" /\ w \notin writers
  /\ writers = {} /\ readers = {}
  /\ writers' = {w}
  /\ UNCHANGED <<m_method_map, readers, call>> /\ UnchangedByCalls

\* Seeded fault: the mutex is not given back.
AddResourceFault(w) ==
  /\ w \in writers /\ call[w].op = "add"
  /\ m_method_map' = [m_method_map EXCEPT ![call[w].key] = call[w].chain]
  /\ call' = [call EXCEPT ![w] = [op |-> "done"]]
  /\ UNCHANGED lock /\ UnchangedByCalls

\* add_resource(): the chain is inserted, or replaces and destroys the one
\* that was registered for the method and path, and the mutex is released.
AddResource(w) ==
  /\ w \in writers
  /\ m_method_map' = [m_method_map EXCEPT ![call[w].key] = call[w].chain]
  /\ writers' = writers \ {w}
  /\ call' = [call EXCEPT ![w] = [op |-> "done"]]
  /\ UNCHANGED readers /\ UnchangedByCalls

-----------------------------------------------------------------------------
(* Dispatch: do_process_request *)

UnchangedByDispatch == UNCHANGED <<is_request, m_method_map, writers, call>>

\* The entries of the resource map of a method.
Entries(m) == {k \in Key : k[1] = m /\ m_method_map[k] # NoChain}

\* on_read hands a message to the dispatcher.  That a client registers its
\* handler of responses first is up to the user.
Receive(s, rq) ==
  /\ phase[s] = "idle"
  /\ ~is_request => rq = Response /\ m_method_map[NotFound] # NoChain
  /\ phase' = [phase EXCEPT ![s] = "enter"]
  /\ request' = [request EXCEPT ![s] = rq]
  /\ UNCHANGED <<readers, loop, exec>> /\ UnchangedByDispatch

\* The mutex is granted, the method looked up.  A client goes to its one
\* chain at once.
EnterToRead(s) ==
  /\ phase[s] = "enter"
  /\ writers = {}
  /\ readers' = readers \cup {s}
  /\ todo' = [todo EXCEPT ![s] = IF is_request THEN Entries(request[s].method) ELSE {}]
  /\ is_handled' = [is_handled EXCEPT ![s] = FALSE]
  /\ phase' = [phase EXCEPT ![s] = "lookup"]
  /\ UNCHANGED <<request, exec>> /\ UnchangedByDispatch

\* Seeded fault: one context serves all chains of a message.
StartChainFault(s, k) ==
  /\ phase' = [phase EXCEPT ![s] = "chain"]
  /\ entry' = [entry EXCEPT ![s] = k]
  /\ idx' = [idx EXCEPT ![s] = 1]
  /\ UNCHANGED data

\* begin_execute of the chain at k, with a new context.
StartChain(s, k) ==
  /\ phase' = [phase EXCEPT ![s] = "chain"]
  /\ entry' = [entry EXCEPT ![s] = k]
  /\ idx' = [idx EXCEPT ![s] = 1]
  /\ data' = [data EXCEPT ![s] = FALSE]

\* for_each comes to the entry k, in the order of an unordered map.
TryEntry(s, k) ==
  /\ phase[s] = "lookup"
  /\ k \in todo[s] /\ k[2] \notin Invalid
  /\ todo' = [todo EXCEPT ![s] = @ \ {k}]
  /\ IF k[2] \in request[s].matches THEN StartChain(s, k) ELSE UNCHANGED <<phase, exec>>
  /\ UNCHANGED <<readers, request, is_handled>> /\ UnchangedByDispatch

\* begin_execute returns.  The chain of NotFound is the last, in the loop also:
\* it is the only entry of its method, and the message is handled by it.
EndChain(s, result) ==
  /\ is_handled' = [is_handled EXCEPT ![s] = @ \/ result]
  /\ phase' = [phase EXCEPT ![s] = IF entry[s] = NotFound THEN "leave" ELSE "lookup"]

\* Seeded fault: the loop goes one handler too far.
RunHandlerFault(s, declared, said, sets) ==
  /\ phase[s] = "chain"
  /\ idx[s] <= m_method_map[entry[s]].len + 1
  /\ data' = [data EXCEPT ![s] = @ \/ sets]
  /\ IF CallbackResult(declared, said)
     THEN idx' = [idx EXCEPT ![s] = @ + 1] /\ UNCHANGED <<phase, is_handled>>
     ELSE EndChain(s, FALSE) /\ UNCHANGED idx
  /\ UNCHANGED <<readers, request, todo, entry>> /\ UnchangedByDispatch

\* The next handler of the chain runs to its end.  It may leave data in its
\* context; declared and said are the type and the value of its result.
RunHandler(s, declared, said, sets) ==
  /\ phase[s] = "chain"
  /\ idx[s] <= m_method_map[entry[s]].len
  /\ data' = [data EXCEPT ![s] = @ \/ sets]
  /\ IF CallbackResult(declared, said)
     THEN idx' = [idx EXCEPT ![s] = @ + 1] /\ UNCHANGED <<phase, is_handled>>
     ELSE EndChain(s, FALSE) /\ UNCHANGED idx
  /\ UNCHANGED <<readers, request, todo, entry>> /\ UnchangedByDispatch

ChainEnds(s) ==
  /\ phase[s] = "chain"
  /\ idx[s] > m_method_map[entry[s]].len
  /\ EndChain(s, TRUE)
  /\ UNCHANGED <<readers, request, todo, exec>> /\ UnchangedByDispatch

ServeNotFound(s) ==
  /\ phase[s] = "lookup" /\ todo[s] = {} /\ ~is_handled[s]
  /\ StartChain(s, NotFound)
  /\ UNCHANGED <<readers, request, loop>> /\ UnchangedByDispatch

\* The end of the scope: the shared lock goes, with everything local.
Quit(s) ==
  /\ readers' = readers \ {s}
  /\ phase' = [phase EXCEPT ![s] = "idle"]
  /\ request' = [request EXCEPT ![s] = Response]
  /\ todo' = [todo EXCEPT ![s] = {}]
  /\ is_handled' = [is_handled EXCEPT ![s] = FALSE]
  /\ entry' = [entry EXCEPT ![s] = NotFound]
  /\ idx' = [idx EXCEPT ![s] = 1]
  /\ data' = [data EXCEPT ![s] = FALSE]
  /\ UnchangedByDispatch

Return(s) == /\ \/ phase[s] = "lookup" /\ todo[s] = {} /\ is_handled[s]
                \/ phase[s] = "leave"
             /\ Quit(s)

\* The pattern of an entry is made a std::regex only now, and throws.
RegexThrows(s) == /\ phase[s] = "lookup"
                  /\ \E k \in todo[s] : k[2] \in Invalid
                  /\ Quit(s)

HandlerThrows(s) == /\ phase[s] = "chain"
                    /\ idx[s] <= m_method_map[entry[s]].len
                    /\ Quit(s)

-----------------------------------------------------------------------------

\* The constructor: a server's router has its not_found_handler from the
\* start, a client's has nothing.
Init ==
  /\ is_request \in BOOLEAN
  /\ m_method_map = [k \in Key |-> IF is_request /\ k = NotFound
                                   THEN [by |-> "router", len |-> 1] ELSE NoChain]
  /\ readers = {} /\ writers = {}
  /\ call = [w \in Thread |-> NoCall]
  /\ phase = [s \in Session |-> "idle"]
  /\ request = [s \in Session |-> Response]
  /\ todo = [s \in Session |-> {}]
  /\ is_handled = [s \in Session |-> FALSE]
  /\ entry = [s \in Session |-> NotFound]
  /\ idx = [s \in Session |-> 1]
  /\ data = [s \in Session |-> FALSE]

Registration(w) ==
  \/ \E n \in 1 .. MaxLen :
       \/ \E m \in Method, p \in Pattern : AddRoute(w, m, p, n)
       \/ AddNotFound(w, n) \/ HandleResponse(w, n)
  \/ EnterToWrite(w) \/ AddResource(w)

Handler(s) == \E declared \in {"void", "bool"}, said, sets \in BOOLEAN :
                RunHandler(s, declared, said, sets)

Dispatch(s) == \/ EnterToRead(s)
               \/ \E k \in todo[s] : TryEntry(s, k)
               \/ Handler(s) \/ ChainEnds(s) \/ ServeNotFound(s) \/ Return(s)

Throw(s) == RegexThrows(s) \/ HandlerThrows(s)

Next ==
  \/ \E w \in Thread : Registration(w)
  \/ \E s \in Session, rq \in Request : Receive(s, rq)
  \/ \E s \in Session : Dispatch(s) \/ Throw(s)

Spec == Init /\ [][Next]_vars

\* The threads run, handlers return, and the mutex is granted to a session
\* when nobody holds it or asks for it exclusively any more.  A thread that
\* registers may wait for as long as sessions keep the mutex between them.
Fairness == /\ \A s \in Session : WF_vars(Dispatch(s) \/ Throw(s))
            /\ \A w \in Thread : WF_vars(AddResource(w))

FairSpec == Spec /\ Fairness

-----------------------------------------------------------------------------
(* Properties *)

TypeOK ==
  /\ is_request \in BOOLEAN
  /\ m_method_map \in [Key -> Chain \cup {NoChain}]
  /\ readers \in SUBSET Session /\ writers \in SUBSET Thread
  /\ call \in [Thread -> {NoCall, [op |-> "done"]} \cup Call]
  /\ phase \in [Session -> {"idle", "enter", "lookup", "chain", "leave"}]
  /\ request \in [Session -> Request]
  /\ todo \in [Session -> SUBSET Key]
  /\ is_handled \in [Session -> BOOLEAN]
  /\ entry \in [Session -> Key]
  /\ idx \in [Session -> 1 .. (MaxLen + 1)]
  /\ data \in [Session -> BOOLEAN]

\* The mutex: a thread that registers is alone.
Exclusive == /\ writers # {} => readers = {}
             /\ \A v, w \in writers : v = w

\* Whoever uses the map holds the mutex, and nobody keeps it who has left by
\* a return or by an exception.
InLookup == {s \in Session : phase[s] \in {"lookup", "chain", "leave"}}

LockWhileUsed == /\ readers = InLookup
                 /\ \A w \in writers : call[w] \in Call

\* What the code never tests: an entry that is visited is in the map, and so
\* is the one for messages that match nothing (dispatcher.hpp:66, 82, 108).
EntriesExist ==
  /\ is_request => m_method_map[NotFound] # NoChain
  /\ \A s \in Session :
       /\ phase[s] # "idle" => m_method_map[NotFound] # NoChain
       /\ phase[s] \in {"lookup", "chain"} =>
            \A k \in todo[s] : m_method_map[k] # NoChain
       /\ phase[s] = "chain" => m_method_map[entry[s]] # NoChain

\* What a handler finds in its context was left there by a handler before it
\* in its own chain: each chain is given a context of its own
\* (dispatcher.hpp:71).
ContextPerChain ==
  \A s \in Session : (phase[s] = "chain" /\ idx[s] = 1) => ~data[s]

\* What the loop has to come to is of the message's method, and there is none
\* of it where no loop is under way.
TodoOfMethod ==
  \A s \in Session : \A k \in todo[s] : s \in InLookup /\ k[1] = request[s].method

\* The chain of not_found is run last.
NotFoundLast ==
  \A s \in Session :
    (phase[s] \in {"chain", "leave"} /\ entry[s] = NotFound) => todo[s] = {}

RInv == /\ TypeOK /\ Exclusive /\ LockWhileUsed /\ EntriesExist
        /\ ContextPerChain /\ TodoOfMethod /\ NotFoundLast

\* A session runs, for each message, the chains that were registered at one
\* moment (RouteTable): the lock is held from the lookup to the last handler
\* (dispatcher.hpp:55), so that no replacement of a route is seen halfway.
Wanted(s) == {k \in todo[s] : k[2] \in request[s].matches}

Due(s) ==
  {<<k, m_method_map[k]>> : k \in
     IF phase[s] \notin {"lookup", "chain"} THEN {}
     ELSE IF phase[s] = "lookup" /\ ~is_handled[s] /\ Wanted(s) = {} THEN {NotFound}
     ELSE Wanted(s)}

Now(s) == IF phase[s] = "chain"
          THEN {[chain |-> m_method_map[entry[s]], at |-> idx[s]]}
          ELSE {}

Table == INSTANCE RouteTable
           WITH Fallback <- NotFound,
                table <- m_method_map,
                serving <- readers,
                due <- [s \in Session |-> Due(s)],
                now <- [s \in Session |-> Now(s)]

RoutePromise == Table!TableSpec

\* No route is inserted, replaced or destroyed while a session goes through
\* the map or runs a chain in it, which it refers to without owning it
\* (dispatcher.hpp:55-76, storage.hpp:72-81, router.ipp:42-46).
MapStandsStill ==
  [][\A s \in Session : phase[s] \in {"lookup", "chain"} => m_method_map' = m_method_map]_vars

\* Every message that is dispatched is done with: no session waits for the
\* mutex for ever, and no loop over chains goes on for ever.
DispatchEnds == \A s \in Session : phase[s] = "enter" ~> phase[s] = "idle"

\* A handler of type bool that returns false, and is not the last of its
\* chain, ends it: the handlers behind it are not run (the promise of
\* router.hpp:126-129).
ChainBreaks ==
  [][\A s \in Session, sets \in BOOLEAN :
       RunHandler(s, "bool", FALSE, sets) /\ idx[s] < m_method_map[entry[s]].len
         => phase'[s] # "chain"]_vars
=============================================================================
