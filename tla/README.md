# A specification of beast-router

beast-router is a header-only C++ library: HTTP sessions over Boost.Beast, a
router that maps methods and patterns to chains of handlers, a listener, a
connector and an event loop. This directory holds TLA+ modules of it, the TLC
configurations that check them, and TLAPS proofs. Paths below are relative to
`include/beast_router/`.

## 1. The system

| Part | State | Operations | Talks to |
|---|---|---|---|
| session (`session.hpp`, `impl/session.ipp`) | connection, one timer, buffer, parser, serializer, queue, dispatcher, `on_error` | static `recv`/`send`; contexts: `recv`, `send`, `get_stream`, `is_open`; handlers `on_read`, `on_write`, `on_timer`, `on_handshake` | everything below, on its strand |
| outgoing queue (`base/conn_queue.hpp`) | `m_items` | push, `on_write`, `do_handle` | calls `do_write` of the session |
| timer (`common/impl/timer.ipp`) | expiry, outstanding wait | `expires_from_now`, `async_wait`, `cancel`, `expiry` | completes into the strand |
| connection (`common/impl/connection.ipp`, `base/impl/connection.ipp`; TLS under `common/ssl`) | socket | `async_read`, `async_write`, `shutdown`, `close`, `async_connect`, `async_handshake` | completes into the strand |
| dispatcher (`base/dispatcher.hpp`) | references the router's map and mutex | `do_process_request` | runs chains under the shared lock |
| storage (`base/storage.hpp`) | a chain of handlers | `begin_execute` | user handlers |
| router (`router.hpp`, `impl/router.ipp`) | method map, shared mutex (`base/lockable.hpp`) | `get`, `put`, `post`, `delete_`, `not_found`, `handle_response` | exclusive lock |
| listener (`listener.hpp`, `impl/listener.ipp`) | acceptor | `launch`, `close`, `on_accept`, `on_spawn_connect` | hands sockets to the user |
| connector (`connector.hpp`, `impl/connector.ipp`) | resolver, connection | `connect`, `on_resolve`, `on_connect` | hands a socket to the user |
| event loop (`common/impl/event_loop.ipp`) | io_context, threads, signal set | `exec`, `stop`, `is_running` | runs all handlers |
| http_utility, utility | none | message constructors, type traits | - |

Sessions, connectors and listeners own a strand each; the threads of the event
loop run what is due on the strands. A call through a context is *dispatched*:
it runs at once when the caller is a handler of that session, and is queued on
the strand otherwise. Handlers of the user run inside `on_read`, under the
router's shared lock.

What makes this hard: one timer serves every operation of a session; a
cancelled wait still calls its handler; the serializer is shared by successive
writes, which refer into it; only handlers and contexts keep a session alive;
errors are reported and then not always acted upon; calls of other threads come
between any two handlers; user handlers run under a lock.

What has to be right, per part: *session* - its operations end, its timeouts
strike the operation they were set for, a handler sees each message once and
whole, the connection is shut down for a cause; *queue* - order, no loss, one
write at a time through live objects; *router and dispatcher* - a request gets
the chain registered for it, chains break when told to, no deadlock on the
mutex; *listener* - each connection is handed over once, `close()` ends the
loop; *connector* - exactly one outcome; *event loop* - `exec` returns when
stopped, with all threads.

## 2. Modules

| Module | What it is |
|---|---|
| `MessageStream` | abstract: what a session promises of the messages given to `send()` |
| `ConnQueue` | `conn_queue`, `do_write` and the end of `on_write`; implements `MessageStream` |
| `Timer` | the operations of the timer, as functions on a record |
| `Session` | one plain session; extends `ConnQueue` and `Timer` |
| `TlsSession` | one TLS session; extends `Session` with the handshake and the TLS stream |
| `RouteTable` | abstract: what a router promises to a session that dispatches a message |
| `Router` | router, dispatchers, chains and their mutex; implements `RouteTable` |
| `EventLoop` | `event_loop`: its threads, `exec`, `stop`, signals, exceptions |
| `Listener`, `Connector` | the handlers of those two, on a thread that is a parameter |
| `App` | a program: `EventLoop`, `Listener` and `Connector` together |
| `*Proofs` | theorems and proofs, section 4 |

`Session` and `Router` meet at one point: `OnReadDispatch` hands a message to the
dispatcher and `handling` stands for all of `do_process_request`; in `Router`
that is everything from `Receive` to `Return`. `App` gives the threads on which
all of it runs. The three are separate because nothing of one changes what the
others may do next, but for the strand and the mutex, which each has.

### Session and the code

| Variable | Code |
|---|---|
| `m_items`, `m_serializer`, `writes` | the members of those names; the outstanding `async_write` with the result it ended with |
| `calls` | calls dispatched to the strand by other threads, in order |
| `handling` | a user's handler runs inside `on_read`; the strand is busy |
| `read`, `parser` | the outstanding `async_read`; what `m_parser` was fed, and whether `release()` moved the message out |
| `timer` | `m_timer`: expiry never, future or past; a wait outstanding; the waits ended whose `on_timer` is due |
| `socket`, `peer` | this end open, shut down or closed; the other up, at its end of stream, or reset |
| `held`, `alive` | a user's context; the `impl` object |
| `accepted`, `wire`, `halted`, `errors`, `dispatched`, `deadlines` | histories for the properties; no guard of the code's actions reads them |

One action is one handler: `RunRecv` and `RunSend` are a dispatched call with
everything it calls, `OnReadEof` and `OnReadDispatch` the branches of `on_read`,
`OnWrite` and `OnTimer` the handlers of those names with `do_eof` and the
queue's `on_write` in them. `OnReadDispatch` leaves `handling` set; until
`HandlerReturn` the user's handler calls `HandlerSend`, `HandlerRecv` and
`HandlerClose`, which act at once, and no other handler of the strand runs.
`PostSend` and `PostRecv` are other threads. `Destroy` is the end of the last
`shared_ptr`.

Abstractions: a message is a model value (whether it ends the connection is
`NeedEof`); the parser holds nothing, a part, a whole message or bytes that are
not HTTP; the handlers that are due on the strand run in any order, which
includes the order of Asio; data may still be read after a shutdown, as from a
kernel's buffer; a shutdown that finds the connection taken down may or may
not report an error.

Preconditions of the user's side, which the code has but does not check: no
`recv()` while a read is outstanding; the stream is closed from handlers only; a
message is a new object for each `send()`. A client asks for its response from
outside once.

### TlsSession and the code

`shake` is the handshake: dispatched by the static `recv()` or `send()`
(`called`), outstanding, ended with its handler due, or over; `first` is the call
in `func`, which `on_handshake` makes when there was no error (`FirstCall`). All
actions of `Session` are actions here too. What differs is the stream: bytes pass
only after the handshake; an end of stream needs the peer's `close_notify`, which
`shutdown()` does not send (it shuts the socket below TLS), so that an own
shutdown ends a read with an error; a handshake may fail at any point, and one
that the peer leaves alone stays.

### Router and the code

| Variable | Code |
|---|---|
| `is_request` | which of `router<true>` and `router<false>` |
| `m_method_map` | the map, as one chain (who registered it, how many handlers) per method and path, `NoChain` where there is none |
| `readers`, `writers` | who holds `m_mutex` shared and who exclusively |
| `call` | per thread, its call of `get`, `not_found` ... until `add_resource` is done |
| `phase`, `request` | per session, where `do_process_request` is, and its message |
| `todo`, `is_handled` | the entries `for_each` has not come to; the variable |
| `entry`, `idx`, `data` | the chain in `begin_execute`, its `idx` (from 1), and whether its context holds user data |

`AddRoute`, `AddNotFound` and `HandleResponse` are the calls, `EnterToWrite` and
`AddResource` the two ends of the exclusive section. A dispatch is `EnterToRead`
(lock, lookup), `TryEntry` (one turn of the loop), `RunHandler` and `ChainEnds`
(`begin_execute`), `ServeNotFound`, and `Return`; `RegexThrows` and
`HandlerThrows` leave it by an exception, which gives the lock back. Each is what
happens between two points at which a step of another thread may matter.

Abstractions: a message carries the set of patterns its target matches, and may be
the empty one that a failed read dispatches (`Unread`: method unknown and no target,
which the loop finds the chain of `not_found` for); the map of maps is one function; a handler's declared type and its result are inputs of
`RunHandler`, and `CallbackResult` is what `callback_impl::operator()` makes of
them. Preconditions: a handler does not register routes (it would lock the mutex
it holds); a client registers `handle_response` before it dispatches.

### EventLoop, Listener, Connector, App and the code

| Variable | Code |
|---|---|
| `stopped`, `created` | `m_ioc.stopped()`; the size of `m_threads` |
| `at` | per thread: before the loop, in `exec`, between handlers (`run`), in a handler, in `stop()`, gone |
| `joins` | per thread in `stop()`, the thread `join_all` waits for |
| `signals` | the wait of `m_sig_int_term`: none, armed, handler due |
| `aborted` | an exception left a thread of `m_threads` |
| `acceptor`, `accept`, `result` | `m_acceptor`; the `async_accept`, and what it ended with (a connection's number or `Failure`) |
| `accepting`, `spawns`, `spawning` | threads amid `on_accept`; results posted to the strand; the thread in `on_spawn_connect` |
| `arrived`, `taken`, `failures` | the kernel: connections established, accepted; accepts that failed |
| `stage`, `socket`, `exists` | the connector's operation, the socket of `m_connection`, the object |
| `telling` | the thread in the connector's `on_connect` or `on_error` |
| `handed`, `outcome` | histories: what the users of listener and connector were given |

Thread 0 is the one that calls `exec()`, 1 and up are `m_threads`, and the last
number is a thread outside. `on_accept` is two actions, `OnAccept` (the post) and
`NextAccept` (the next accept), as the handler runs on no strand. The actions
`Run...` of `App` put a handler on a thread, which is in it (`Begin`) until the
callback of the user ends (`UserReturn`, `UserThrow`); amid a callback the user may
call `stop()` or `close()`. Nothing of the network is told to a stopped loop.

Abstractions: `launch()` is one step, as nothing runs before `exec()`; `close()` is
one step; the resolver and the network answer with success or failure only; a
callback that catches what `join()` throws out of its `stop()` is left out, and so are
handlers that are discarded with a destroyed `io_context`.

Operators whose name ends in `Fault` are seeded faults: wrong versions of the
operator after them (a dropped cancel, a size test off by one, a missing owner)
that show the properties to be sensitive; nothing else uses them.

## 3. What is checked

| Run | Instance | Shows |
|---|---|---|
| `MCServer` | server, `on_error`, 2 messages, 2 reads, overlapping calls with and without duration | type invariant, inductive invariant `SInv`, the safety invariants, `NothingAfterDeath`, refinement of `MessageStream` (1.6 million states) |
| `MCClient` | client, no `on_error`, 4 requests, overlapping calls | order and wake-ups of a deep queue, `HaltOnlyOnClose` |
| `MCTimedServer` | server, each operation with a duration and awaited, fair | `DeadlineWatched`, `SessionEnds`, `TimedReadEnds`, `TimedWriteEnds` |
| `MCTls` | TLS server, the rest as the one before | `TlsInv` (with `SInv` in it), `FailedHandshakeStartsNothing`, `DeadlineWatched`, `TlsDiesIdle`, `TlsSessionEnds` (82 thousand states) |
| `MCRouter` | server or client, 2 sessions, 2 threads that register, patterns `p`, `q` and an invalid one, chains of 1 and 2, fair | `RInv`, refinement of `RouteTable`, `MapStandsStill`, `DispatchEnds` |
| `MCApp` | listener or connector, `exec()` with 2 threads, a third outside; `stop()` from each of them, exceptions, signals, fair | the invariants, `NothingAfterDestroy` and the four liveness properties of `App` (23 thousand states) |
| `MCLateTimeout`, `MCChainedCalls`, `MCFailedRead`, `MCSecondRead`, `MCChainBreaks`, `MCSelfStop` | small | the findings below |

Properties of sessions: `WriteUsesLiveMessage` (one write at a time, through the
current serializer and a message the queue owns), `NoLostWakeup` (a queue with
messages is being written or was given up), `StreamPromise` (the queue implements
`MessageStream`), `NoIdleTimer` (no wait without something it can cut short),
`ShutdownHasCause`, `WholeDispatchedOnce`, `DiesIdle` (the impl dies with no
work left), `HaltOnlyOnClose` (without `on_error` a failed write does not stop
the queue), `FailedHandshakeStartsNothing` (no handler for a peer that failed its
handshake, no request to it), `TlsDiesIdle` (as `DiesIdle`, but for the request of a
client whose handshake failed, which goes with the impl). `NothingAfterDeath` is an
action property: no step of any actor follows the destruction of the impl.
`FailedReadIsTold` is what is left of "handlers run for messages", which finding 3
refutes: a handler that runs for what is no message comes after the report of the
read that failed. `DeadlineWatched` is the safety side of `TimedReadEnds`: until an
operation with a duration ends, its wait is outstanding, or `on_timer` is due with
the expiry in the past, or the connection is down already. It is false where calls
overlap (finding 2) and so is checked under `Overlap = FALSE`.

Of the router: `RoutePromise` (each message runs, once and to the end, the chains
that one state of the table holds for it, though other threads replace them
meanwhile; "to the end" is what the code does, finding 5, and not what
`router.hpp:126-129` says of handlers that return `false`), `RInv` (mutual exclusion, no missing entry is dereferenced, no user
data passes between the chains that serve one message), `MapStandsStill` (no
route comes, is replaced or destroyed while a session refers to the map),
`DispatchEnds`.

Of programs: `AcceptedInOrder` (each accepted connection is handed over once, in
order, or is on its way), `OneOutcome` (a connector), `DiesTold` (one with
`on_error` is destroyed only after it told its user, whoever let the pointer go),
`StopJoins` (after `stop()` from outside no callback runs on the pool), `LInv` (the
loop's inductive invariant), `AbortHasCause` (only a `stop()` or an exception on a
thread of the pool terminates the program), `NothingAfterDestroy` (nobody acts on a
connector that was destroyed); and `ConnectionsHanded`, `ConnectTold`, `StopEnds`,
`SignalEnds`.

Bounds. Sessions: `Message` and `MaxRecvs`. Two messages make one wait behind
another, with and without a closing one; four fill the queue three deep. The
second read is the first with a used parser, and a third meets the same state as
the second. Waits that are due are bounded by the calls. Router: `MaxLen` and one
call per thread; two threads let a route be replaced while it runs and while
another waits, two patterns let two chains serve one message, and a chain of two
has a handler that is followed and one that is not. App: two connections, one
failed accept, two posted results are the least that could be swapped or lost; a
pool of two has the thread of `exec()` and one that can stop itself, and three
threads pass too (86 thousand states). Deadlock is not checked: a session ends, a
user may hold one for ever, and a program stops.

Fairness. `Session`: the strand's handlers run because the pool runs what is
due; the clock goes on; an operation on a socket that is shut, closed or reset
ends, as the kernel's does; user handlers return; contexts are let go. The peer
owes nothing: no fairness on its bytes, its close, or a write that needs it to
read. `SessionEnds` needs the discipline of `Overlap = FALSE`: with overlapping
calls it is false, which is finding 2. `TlsSession`: the same, and nothing for a
handshake that the peer leaves alone, so `TlsSessionEnds` speaks of sessions whose
handshake is over. `Router`: sessions go on and handlers return or throw; a thread
that registers is not promised the mutex, which `std::shared_mutex` does not
promise either, but gives it back. `App`: what is due gets its turn (strong
fairness, as the queue of an `io_context` is first in, first out, and threads come
back to it), callbacks return or throw, `exec()` and `stop()` go on, the kernel hands
over what arrived, resolver and network answer; nobody has to connect, to signal,
to close or to stop.

### Findings

1. `MCLateTimeout`: `on_timer` of a *cancelled* wait looks only at the expiry,
   which `cancel()` does not move. If it runs after the deadline - behind a
   handler that took that long - a read that was completed in time is reported as
   timed out and the connection shut down, a response in progress with it.
2. `MCChainedCalls`: `on_write` cancels the only timer. After
   `send(request, 1s)` and `recv(1s)`, the sequence of `examples/client`, the end
   of the write takes the read's timeout; a silent peer keeps the session.
3. `MCFailedRead`: `on_read` reports an error and dispatches regardless.
4. `MCSecondRead`: the parser is not reset. After a read that received a whole
   message, a second `recv()` reads nothing, ends without an error and dispatches
   the moved-from message.
5. `MCChainBreaks`: a handler that returns `false`, and has another behind it, does
   not end its chain.
   `callback_impl` is instantiated with a reference type, for which
   `func_traits` has no specialisation, so that the result of every handler is
   taken for `void` (`base/storage.hpp:93`).
6. `MCSelfStop`: `stop()` called by a handler on a thread of the pool joins that
   thread itself; `join()` throws, the exception leaves the thread and the program is
   terminated (`event_loop.ipp:29`). `examples/client` stops its loop in a handler,
   which is harmless there: its loop has no pool, and its one thread is in `exec()`.

## 4. What is proved

For every value of the constants: any set of messages, any number of reads,
either role, with or without `on_error`, overlapping or not; any sessions, threads,
methods, patterns and lengths of chains; any number of threads, connections and
errors. Assumptions: `MessageAssumption`, `SessionAssumption`, `RouterAssumption`,
`ThreadsAssumption`, `ListenerAssumption`, `ConnectorAssumption`, `AppAssumption`,
which give the constants their types and keep marks apart from members.

`ConnQueueProofs`: `QInv` says that the queue is idle, halted for good, or writing
its front through the serializer for it, and that `accepted` is `wire` followed
by the items behind the front. `WriteUsesLiveMessage` alone is not inductive: a
push must know that a non-empty queue has its write, a pop that the write popped
is the front's. One lemma per action proves both that `QInv` is kept and that the
action is the abstract one, which gives the invariant and the refinement.

`SessionProofs`: every session step is a `ConnQueue` step or leaves the queue
alone (`SessionUsesQueue`), so the queue's theorems hold of sessions. `SInv` adds
the session's own parts: `NoIdleTimer` needs `QInv` (after a push with a
duration there is a write to cut short), `ShutdownHasCause` needs `EofSeen` (a
read ends with end_of_stream only on a connection taken down),
`WholeDispatchedOnce` needs `ParserSpent`. One lemma for each of strand, user and
environment, a step per action, a sub-step per part that it can disturb.

`SessionEndProofs`: `HaltOnlyOnClose` follows from `WireInv` (the outstanding write
is that of the last message on the wire); `DiesIdle` from `LiveInv` (each message
is with the user, in a call or accepted, and an impl that is gone left nothing
behind), where the queue being empty or given up comes from `SInv`. `LiveInv` also gives
`NothingAfterDeath`: an impl that is gone is `Quiet` - no call, handler, context,
operation or wait - and `DeadIsQuiet` shows that then no action of the model is
possible, though no handler, call or completion asks for `alive`.
`FailedReadIsTold` needs `ToldInv`: a read that is due with success has parsed the
whole message.

`SessionKeepsDeadlines` proves `DeadlineWatched` for users that issue one operation
at a time; `~Overlap` is a hypothesis of the theorem, not an assumption on the
module, and finding 2 shows that it cannot be dropped. Its invariant
`DeadlineInv` adds `OneAtATime` (a call on its way, a read, or one write, and never
two of them, which is what keeps another operation's `cancel()` away) and
`DeadlinesOutstanding` (a deadline belongs to an operation that has not ended). The
delicate steps are `do_timer()` while the handler of an earlier wait is still due,
and that handler itself: it either shuts the connection down or, as the expiry has
moved, leaves the new wait alone.

`TlsSessionProofs`: a TLS step is a step of the plain session or one of four more
(`TlsOnly`); the first kind keeps `SInv` by what was proved, the second is shown
to. `FailedHandshakeStartsNothing` needs `NotStarted`: before the handshake is done
a server has no read outstanding and a client's first message is nowhere but in
`func`. The plain session's other theorems are carried over in the same way
(`TlsSessionParts`, `TlsHaltsOnlyOnClose`, `TlsFailedReadIsTold`,
`TlsNothingAfterDeath`). `TlsSessionDiesIdle` needs a place more for a message,
`WithFunc`. `TlsKeepsDeadlines` needs `UnshakenIdle` (nothing is begun before the
handshake is over), for `on_handshake` cancels the timer *before* it makes the
first call; the wrong order is the seeded fault of that property.

`RouterProofs`: `RInv` is inductive as it stands: that entries are never missing
needs the mutual exclusion (nobody writes while somebody visits), and that needs
`LockWhileUsed` (the lock is held exactly in the phases that use the map); that
`not_found` runs last needs `TodoOfMethod`, as a message of no method finds its chain
in the loop. The same
invariant gives `MapStandsStill`: of the steps that change the map each has a
writer, and a session that refers to the map is a reader.
`RouterTableProofs`: every step is one of `RouteTable` or a stutter, under a mapping
that computes what is due from the table as it is *now*; `RInv` is what makes that
the table as it was when the message came.

`EventLoopProofs`: `StopJoins` needs to know that the threads `join_all` has gone
past are finished and that no thread is made after that; so `LInv` relates `joins`,
`created` and `at`. `AppProofs`: a program's steps are the loop's or leave it alone
(`AppImplementsLoop`, from `UInv`: callbacks run on threads of the loop only), so
`StopJoins` holds of programs. `AppTypes` rests on `WhereInv`, which says of each
thread whether it is in a handler; `AcceptedInOrder` on `OneAccept` (one accept
outstanding or about to be started) and `OrderInv` (what is posted and what is due
are in order, and all after what was handed over). `NothingAfterDestroy` rests on
`GoneInv` (a connector that is gone had its attempt ended and tells nobody), `DiesTold`
on that and on `UInv` (an attempt that ended has its outcome), `AbortHasCause` on itself with the rule that only `Stoppers` are in `stop()`.

Two theorems answer finding 6, and state no property of a passing run.
`PoolStopNeverReturns`: a thread of the pool that called `stop()` stays in it, as
`PoolJoins` (on such a thread `join_all` has not gone past the thread itself) leaves
it only its own join to come to; so what a callback has behind its `stop()` is dead
code (`AppPoolStopNeverReturns`). `AppStopOnlyStopsOffThePool`: the promise that
finding 6 refutes holds under the precondition that the documentation lacks, that
no thread of the pool calls `stop()`.

Model-checked only: liveness (`SessionEnds`, `TimedReadEnds`, `TimedWriteEnds`,
`TlsSessionEnds`, `DispatchEnds`, `ConnectionsHanded`, `ConnectTold`, `StopEnds`,
`SignalEnds`), which is out of the prover's reach, and the findings, which are
counterexamples. Every invariant, every refinement and every action property of the
passing runs is proved, `DeadlineWatched` for users that do not overlap their calls.

## 5. Not modelled

- `http_utility` (constructors of messages, no state), the rest of `utility`
  (compile-time checks), the examples and tests as programs of their own; the text
  of messages and patterns; `router`'s `swap`, which cannot be instantiated.
- An `on_error` that throws inside a session: the exception leaves the handler
  and goes to the thread, which `App` has for callbacks in general.
- A client that dispatches without `handle_response`: the code goes through the end
  iterator of its map (`dispatcher.hpp:107`), which has no defined outcome.
- What no behaviour is defined for: two reads at once, the socket or the acceptor
  used by two threads at once, a handler that registers a route, the write of the
  signal's handler to a local of an `exec()` that was left by an exception.
- `do_handshake` with a duration, which the library never calls.
- No promise of the repository speaks of an acceptor that was closed: in the model,
  as in the code, its accepts fail at once and start the next, without end
  (`listener.ipp:70`), while the other handlers make progress beside it.

Possible next steps: a session and the router in one model, for handlers that send
from inside a chain while routes are replaced; a run of a TLS client.
