# A TLA+ model of onbnet

onbnet is a C++ rewrite of skynet: a server made of *services*, actors that each
own a Lua state, exchange messages, sleep on timers and talk to sockets. A few
operating-system threads run all of them. This directory models the code that
has to be right for any of it to work: who runs a service and when, how services
begin, which timer fires when, which coroutine a message resumes, what a buffer gives
back, how an event of a socket reaches the coroutine that waits for it, how bytes
leave, how coroutines share a connection, and what the libraries make of the values
they are given.

Paths below are relative to `src/`; `cc`/`h` files without a directory are in
`core/src` and `core/include`.

## 1. The system

| component | state | operations | talks to |
|---|---|---|---|
| **scheduler** (`producer_consumer_queue.h`, `service.cc`, `service_manager.cc`, `message_worker.cc`, `onbnet.cc`, `main.cc`) | the global queue of services, one queue of messages and one flag `Invoke_` per service, `is_stop_` per worker | `send`, `WaitAndPop`, `service::start`, `stop`/`Cancel` | every thread calls `send`; workers enter Lua |
| **timing wheel and timer thread** (`timer/timewheel.cc`, `timer/timer.cc`) | the clock, 256 near slots, 4 levels of 64 slots, a spinlock | `timer_wheel_add`, `timer_shift`, `timerExecute`, `stop` | workers add timers (`lsleep`), callbacks `send` a RESPONSE |
| **Lua coroutine runtime** (`lualib/onbnet.lua`) | tables from sessions to coroutines, from tokens to sessions, from coroutines to requests; wakeup and fork queues; the pool | `dispatch_message`, `call`, `ret`, `response`, `sleep`, `wait`, `wakeup`, `fork`, `timeout` | runs inside `service::start`, one message at a time |
| service registration (`service_manager.cc`, `service.cc`) | `service_vector_`, `max_service_id` | `new_service`, look-up in `send` | any Lua state may create services |
| chain buffer (`buffer/chain_buffer.cc`) | a list of chunks with offsets, the search position, a spinlock | add, remove (copy, then drain), search | socket worker and message workers share one |
| sockets (`net/*.cc`, `connect_*.cc`, `net_worker_manager.cc`, `socket_worker.cc`, `service/lua_socket.cc`) | connections by descriptor, service by descriptor, epoll interest, two buffers per socket | accept, read, write, close events; send, async_send, recv, start, connect | events become messages (`send`) |
| `socket.lua` (`lualib/onbnet/`) | a record per descriptor | start, open, recv, recvline; handlers of CONNECT, DATA, SERVER_CONNECT | `wait`/`wakeup` of the runtime, `lua_socket.cc` |
| `socketchannel.lua` | the connection, requests and those who wait for answers, for the connection, for authentication | connect, request, response, close, changehost; a dispatch coroutine per connection | `socket.lua`, the runtime; used by the drivers |
| redis, mysql and mongo drivers (`lualib/onbnet/db/`, `service/lua_mongo.cc`) | subscriptions of a watch; session numbers | commands, pipelines, watch; OP_MSG | `socketchannel.lua` |
| other timer structures (`minheap.cc`, `rbtree.cc`, `zkiplist.cc`) | a heap, a tree, a skip list | add, take the earliest | alternatives to the wheel, not chosen by `onbnet.cc` |
| hot reload (`lualib/onbnet/hotfix.lua`, `internal/`) | `package.loaded`, tables and upvalues | compare two versions, replace functions | a watch of the scripts sends HOTFIX messages |
| serialisation and cryptography (`base/serialize.c`, `lua-crypt.c`, `lsha1.c`) | a chain of blocks, a context | pack, append, unpack; DES, hex, base64, digests, key exchange | called by a service on its own thread |
| configuration, string helpers, message, logger, vendored Lua | - | sequential code | - |

**Behaviours that are hard to test.** A service is guarded by one flag that senders
and the worker change without a common lock. Shutdown deletes services while
threads hold pointers to them. The wheel moves nodes between slots on rare ticks and
wraps after 2^32 of them; its lock is dropped while callbacks run, and callbacks add
timers. A sleep has two ways to end, and the late one must be dropped. Coroutines
are reused, fail, and share tokens. A service can be sent to only when its script has
run, while the timer that starts it is already going. Connections break while
requests are on their way and others wait for them. Values are cut by block ends
wherever they fall. `PROJECT.json` lists each hazard at its line.

**What makes each component correct.** *Scheduler*: no two workers in one Lua state,
no message handled twice, none lost or starved, no worker in a deleted service,
every worker stops. *Timers*: each fires once, at its tick, in order, whatever the
path of its node through the wheel. *Runtime*: a message resumes exactly the
coroutine that waits for it, nobody becomes unreachable, tables do not leak, a
request is answered once. *Buffers*: a FIFO of bytes. *Sockets*: bytes leave in
order, every event reaches its service, a waiting coroutine is told when its
connection is gone. *Registration*: a number names one service, and it is run by one
thread, the one that loads its script included. *Channel*: everyone gets the answer to
its own request or an error. *Libraries*: what is encoded is decoded to the same, within
the memory reserved; what is reloaded keeps its data and loses its old functions.

Not all of this holds. Where the code does not give it, the model has the case and the
property says what it leaves out, and section 3 names a configuration in which the full
statement fails.

## 2. The modules

| module | models | role |
|---|---|---|
| `ServiceDispatch` | the scheduler | detailed |
| `ActorModel` | an actor takes one message at a time | abstract; `ServiceDispatch` implements it |
| `TimerWheel` | the wheel and the timer thread | detailed |
| `TimerService` | a timer fires after its delay, ties in order | abstract; `TimerWheel` implements it |
| `LuaActor` | `onbnet.lua` | detailed |
| `ChainBuffer` | `buffer/chain_buffer.cc` | detailed |
| `ByteStream` | one side appends bytes, the other takes them in order | abstract; `ChainBuffer` with one remover implements it |
| `SocketRead` | the reading half of `net/`, `connect_*.cc`, `net_worker_manager.cc`, `socket_worker.cc`, `lua_socket.cc` and `socket.lua` | composition of worker and service |
| `SocketWrite` | the writing half: `send`, `async_send`, `socket::send`, the write handler | composition of worker and service |
| `QueueLocks` | `producer_consumer_queue.h` with its mutex and condition variable | detailed |
| `AtomicQueue` | the queue whose operations are single steps | abstract; `QueueLocks` implements it |
| `SocketChannel` | `socketchannel.lua` | detailed |
| `ServiceStart` | `new_service`, `onbnet.start` and the messages meanwhile | detailed |
| `MinHeap`, `RbTree`, `SkipList` | the structures of `minheap.cc`, `rbtree.cc`, `zkiplist.cc` | operators |
| `AltTimer` | the timer thread over each of the three | composition |
| `Serialize`, `Crypt`, `Digest` | `serialize.c`, `lua-crypt.c`, `lsha1.c` | operators and calls |
| `Hotfix` | `hotfix.lua`, `module_update.lua`, `functions_replace.lua` | detailed |
| `Redis`, `RedisWatch`, `Mongo` | `db/redis.lua`, `db/mongo.lua` with `lua_mongo.cc` | detailed, servers external |
| `MCShared` | `SocketChannel`, `SocketWrite`, `QueueLocks` and `ServiceStart`: one of them per behaviour; it instantiates the `_proofs` modules of two | for TLC |
| `MCCodecs` | the libraries and `AltTimer`, one at a time, and their inputs | for TLC |
| other `MC*` | instances for TLC | symmetry sets, sequences |
| `ServiceDispatch_proofs`, `LuaActor_proofs`, `SocketRead_proofs`, `QueueLocks_proofs`, `SocketChannel_proofs`, `ChainBuffer_proofs`, `TimerWheel_proofs` | - | theorems about the module of that name, for all constants |
| `MCShared_proofs` | - | theorems about `SocketWrite` and `ServiceStart`, and those of all four parts for the composition that TLC runs |

`ServiceDispatch` and `TimerWheel` are what the other two levels stand on:
`LuaActor` and `SocketRead` handle one message at a time because `ServiceDispatch`
shows it, and `LuaActor` gets the RESPONSE of a sleep because `TimerWheel` fires.
`ServiceDispatch` takes each operation of a queue as one step because `QueueLocks`
implements `AtomicQueue`, which has the same steps.
`SocketRead` has `recv`, `buffer_search` and the position it keeps as `ChainBuffer`
shows them to be for one remover.

### ServiceDispatch

`gqueue`, `shutdown` and `asleep` are the global `producer_consumer_queue`: its
items, `_shutdown`, and the workers blocked in the condition variable. The messages
of a service are numbered in arrival order, so its own queue is the interval between
`popped[s]` and `pushed[s]`. `wpc`, `cur` and `left` are each worker's place in
`message_worker::start`/`service::start`, the service it has popped and what is left
of the loop `for (i < n)`. `spc` and `target` are a thread's place in
`service_manager::send`; workers send from inside a handler, `Posters` (the timer and
the socket worker) at any time. `toStop`, `is_stop`, `cancelling` and `freed` are the
signal handler's progress through `onbnet_server::stop`.

Each action is one critical section, one atomic operation or one local step:
`PushMessage`, `CompareExchange`, `QueuePush` are the three steps of `send`;
`ReadSize`, `PopMessage`/`PopNull`, `EndHandler`, `CheckEmpty`, `Requeue`/`ClearInvoke`
are `service::start` in its order. That `Empty()` and `Invoke_.store(false)` are two
steps is the point of the model. `SendRaw` is the overload `send(msg)` that never looks
at `Invoke_`; only posters in `Acceptors` use it (`connect_listen.cc:44`).
A service that `Cancel` has deleted is still in `service_vector_`, so a send that began
before or begins later uses it: what it finds in the count and in `Invoke_` is any value
(`SizeRead`, `FlagRead`), what it pushes is nowhere, and it may queue the dead service
(`Stray`). `FreedIsNotRun` says that no worker gets one; that nobody uses one does not hold
(`ServiceDispatch_stop.cfg`).
`compare_exchange_weak` is taken not to fail spuriously: it is one locked
instruction on the x86-64 the shipped libraries are built for.

### TimerWheel

The clock counts up to `Span`, the product of the numbers of slots on the near wheel and
on the four levels. `wheel` maps `<<level, index>>` to the node list of that slot (level 0
is the near wheel), `expire` is each node's tick, `batch` is the list
`link_clear` took and the thread runs without the lock, `pc` says in which of the two
`timerExecute` passes it is. `AddNode`, `MoveList` and `SlotToMove` are `add_node`,
`move_list` and the choice in `timer_shift`. `pending` is a history variable: the
timers in the order asked for, with the ticks each still has to go; it is the state
of `TimerService` under the refinement mapping.

### LuaActor

The tables keep the source's names. A Lua state runs on one thread, so an action is
one API call of the running coroutine or one step of `dispatch_message`. `status`
and `held` are the coroutines' own control state (suspended in which operation, with
which session). `due` is the set of sessions whose RESPONSE message is under way,
`calls` those a peer has not answered. `arrived` is what of `due` is on the service's
queue, and `scheduled` whether the service is scheduled: a message that comes while the
flag is cleared (`FindsEmpty`, `ClearsFlag`) is not dispatched until another comes, as in
`dispatch_lost`. Messages come in any order, which
`ServiceDispatch` and the timer thread allow. `suspend_sleep` registers its session before it
asserts that the token is free; a coroutine that catches the error goes on (`survivors`) with
the session registered, and its RESPONSE resumes it in whatever it does then
(`LuaActor_open.cfg`). A coroutine of the pool that is resumed that way is spoiled: the next
function given to it kills it (`ResumeFails`, `Created`). Of errors that are caught this is
the one that matters to the tables. Arguments, packing and logging are left out.

### ChainBuffer

`chain` is the list from `first` on, each chunk with its capacity, `misalign` and data;
`lastData` is the chunk `last_with_datap` leads to. `BufferAdd` is `buffer_add` whole
(its limit, the chunk that has room, the realignment, the size of a new chunk), as it
holds the lock throughout. `buffer_remove` takes the lock twice, so it is two actions,
`CopyOut` and `Drain`; `copied` is what a remover has between them. `Search` is
`buffer_search` with `last_read_pos`; `found` is what it returned last and `byLine` a
history variable: whether a reader has only removed what it found.

### SocketRead

The kernel and the peers are a model of how the code uses them (external in the map):
the bytes in a socket, `interest` and `et` of each descriptor, epoll's `ready` list.
`Poll` fills `batch`, and the worker takes its events one by one: `OnAccept`,
`OnConnected`, `OnRead`, `Ignore`. `socket::recv` is several steps (`RecvSome`,
`RecvBlocks`, `EventClose`), for peers and service go on between two `::recv`; so is
the DATA message (`Tell`) that follows it. On the service's side a call into
`socket.lua` is one step: the Lua state is the service's own, and of what it shares
with the worker a call looks at the read buffer once, from which only the service
removes. `Open` is `::connect` that goes on, `OpenAtOnce` one that succeeds at once, after
which nothing watches the descriptor and nobody is told (`SocketRead_opener.cfg`), `OpenFails`
one that fails. The message of `OnAccept` is sent by `send(msg)`: here it reaches the mailbox
like any other, and what queueing the service twice does is `ServiceDispatch`'s
(`dispatch_accept`). `co`, `read_required`, `connected` and `callback` are the fields of a record
in `socket_pool`, `waits` says what the coroutine behind `s.co` is suspended for.

### SocketWrite

`wbuffer` holds the numbers of the bytes pushed and not drained, `copied` what each
thread has between copy and drain, `out` what the kernel has taken and `held` how much
of it the peer has not read. `CopyOut`, `Drain` and `Write` are the three steps of one
turn of the loop in `socket::send`; the service goes through them itself (`send`), or
the socket worker after `Poll` (`async_send`, whose `WatchWrite` is the `epoll_ctl`).
`out_event` and `armed` are EPOLLOUT and epoll's ready list.

### QueueLocks

Each function is split where another thread could see the difference: at the mutex,
the queue, the count (which `Size` reads without the mutex), the notification. `use`
chooses the functions: those of the global queue or those of a service's. `on` is the
thread whose stack the signal handler is on. A push becomes an atomic step when it
notifies, a cancel when it has emptied the queue: that is the refinement mapping.

### SocketChannel

An action is a piece of the run of one coroutine; `running` is the one that runs, so
that a coroutine gives way only where the code waits. `pending` is `__request` and
`__thread`, `__connecting` begins with `Busy` when somebody connects. The dispatch
coroutine of a connection is named by its descriptor. The run's `EarlyClose = FALSE`
is a precondition: no `close` or `changehost` comes between the fork of a dispatch
coroutine and its start. Without it `SocketChannel_open.cfg` shows a channel with a
connection nobody reads (`socketchannel.lua:333`, `:372`).
`abandoned` is a history variable: whether a coroutine that made the connection has ended
with an error (`:387`, `:421`, `socket.lua:249`) or has come to wait in `__connecting` itself
(`__auth` that makes requests of its own while the socket is down, `:444`). The list is then left as it is and
those in it wait for ever (`SocketChannel_open.cfg`); `WaiterListed` is for channels to
which that has not happened.

### ServiceStart

`stage` is how far `new_service` has got for each service, `creating` per thread the
stack of services it creates (a script may create others). `max_service_id++` is two
steps. `cb_context_`, `proto`, `timer` and `begun` are what the script has done: set
the callback, set the dispatch function, asked for the start timer, run its start
function.

### MinHeap, RbTree, SkipList, AltTimer

The structures are records of arrays, with the pointers of the code as numbers; each
operation is an operator that loops as the code does. `AltTimer` lets the thread sleep,
fire one timer and compute its next sleep (`update_min_heap_timer` and its like), and
callbacks and other threads add timers. An addition comes between two steps of the timer
thread: `add_*` takes no lock (`timer.cc:138`), and what two operations on a structure at the
same moment leave of it is outside the model. A node of the skip list is allocated for the
levels of one draw and linked on those of another (`timer.cc:155`, `zkiplist.cc:72`), both
chosen freely; `fault` is set when that passes the end of the block malloc gives, and when the
tree dereferences a null sibling. `Faulted` ends the behaviour, `NoFault` is that it never
comes to that, which does not hold (`AltTimer_six.cfg`, `Codecs_open.cfg`). Keys are times to go instead of times of the clock.

### Serialize, Crypt, Digest, Hotfix, Redis, RedisWatch, Mongo

Pure code: a call takes an input, and the answer is what the code's loops compute.
Widths are scaled so that every case falls within short inputs. In `Serialize` a block has 7
cells, numbers are in base 4, cookies reach 3 and tables nest twice. In `Crypt` a byte
has 4 bits, a DES block is 4 bytes, a base64 digit has 3 bits; what a round does to
the bits and how subkeys are derived is replaced, their order is not. In `Digest` a
block has 8 bytes, 2 of them for the length, and hashing one appends it to the state,
so that two digests are equal only if the same blocks were hashed; the exchange is
modulo 13 with words of 4 bits. In `Mongo` a byte has 2 bits and a number 3 bytes. In
`Redis` a number is one character. In `Hotfix` the heap is tables, functions,
upvalue cells and coroutines with what is on their stacks (a userdata is like one of
these: not searched), `text` is what `tostring` gives for each object and `equal` which pairs
`__eq` takes for equal; the two recursions keep what they must still visit in `todo`. The
servers of redis and mongo are external.

Three of the properties are conditional, each with a configuration that shows why:
`ReloadSound` leaves out what coroutines, userdata and protected objects hold, and replaced
functions where `__tostring` or `__eq` makes two objects seem one; `DriversSound` leaves out
nulls in a command of a pipeline and numbers of mongo from 2^31 on (WIDTH / 2 here). A pipeline
without `resp` gives its last reply only, so an error before that is not reported; that
is what its comment says (`redis.lua:248`) and what `OwnReply` states.

## 3. The runs

| run | question | bounds |
|---|---|---|
| `dispatch_safety` | `ScheduledOnce`, `InvokeIsScheduled`, `OneWorkerPerService`, `PopNeverNull`, `FreedIsNotRun`, implements `ActorModel` | 2 services, 2 workers, 1 poster, 4 messages in all, 1 deleted service on the queue |
| `dispatch_live` | a scheduled message is handled; every worker stops | 2 services, 2 workers, 1 poster that may accept, 2 messages in all |
| `dispatch_lost` | *violated*: every accepted message is handled | 1 service, 1 worker, 1 poster |
| `dispatch_accept` | *violated*: the loop never pops null | 1 service, 2 workers, 1 accepting poster |
| `timers` | `SlotsSound`: the wheel loses no node (`OnePlace`, `NearIsAhead`); `FiresOnTimeInOrder`: it implements `TimerService`; `EveryTimerFires` | 5-bit clock, 2 timers, delays 0, 3 and 15, all start times, wrap |
| `actor` | `ResumesItsWaiter`, `SleepersReachable` (`TokenHasSleeper`, `NobodyLost`), `TablesDrained` (`BreakIsCleared`, `WakeupsDrained`), `AnsweredOnce` | 2 coroutines, 1 shared token, 3 sessions, 2 requests, 2 wakeups |
| `actor_live` | `EverySleepEnds` | 2 coroutines, 1 shared token, 2 sessions, 2 requests, 1 wakeup |
| `buffer_safety` | `ChainShape`, `NoSeparatorSkipped`, `InOrder`: implements `ByteStream`, and what is added comes behind | chunk sizes scaled down (below), one remover |
| `socket_read` | `NothingUnnoticed` (`NoForgottenBytes`, `NoStuckReader`, `NoStuckOpener`), `RecordsInTime` (`HandlersAssert`, `WaiterIsKnown`), `OnlyPeersClose` | 1 accepted and 1 opened connection, 2 bytes, 1 hang-up |
| `socket_close` | *violated*: a waiting reader hears that its connection is gone | 1 accepted connection |
| `shared` | a channel: `OwnAnswer`, `NobodyForgotten`, `ConnectionOwned` (one reader, ended by its own signal, authentication first); a write buffer: `BytesLeave` (in order, lost only if refused, at once); a queue: `QueueIsAtomic` implements `AtomicQueue`, `QueueServed` (no item beside sleepers, `Size` is there); the start of services: `StartsSafely` (one thread in a Lua state, numbers, `onbnet.start`) | 2 callers, 2 connections, 3 requests, 1 close; 6 bytes, kernel room 3; 2 consumers, 2 producers, 3 items, 2 cancels; 2 workers and main, 3 services, 1 message |
| `codecs` | `SerializeSound` (round trip, lengths, blocks freed once), `CryptSound` (round trips, buffers, SHA-1 and HMACs against their definitions, key exchange), `ReloadSound` (old functions gone, data and upvalues kept), `DriversSound` (commands, replies, subscriptions and frames match); `TimersSound`: heap, tree and skip list keep their order and entries (`KeepsOrder`, `HoldsAsked`), fire the earliest first and none early (`FiresEarliest`), none late without a queue (`LateByQueue`) | the values, texts, heaps and commands of `MCCodecs`; 4 timers in heap and tree and 3 in the list, with delays 0 and 2, heap of 2 that grows, 3 levels, room for 2; 34 numbers of mongo, of which 31 are below half the width |

Every passing run also checks its module's `TypeOK`. A run whose module holds several
systems starts in one of them and stays there, or runs one call of one library at a
time: they share nothing, so this is the sum of their state spaces. A property of a run
that has parts is the conjunction of named properties of its modules; the parts are
stated one by one where they are defined.

**Why the bounds are enough.** The scheduler's races are between one worker that
leaves a service, one that enters it and one sender: two workers and a poster have all
of them, two services the interference through the shared queue; the proofs remove
the bound. `MaxMsgs` bounds the messages sent in all: with four, each service has one
that is handled while another arrives in any window of `send` and `service::start`,
and one is requeued with a message left; stopping needs two. `MaxStray` bounds how often
the deleted services are queued, which is without end in the code: once is enough to be
handed out. Starvation by a service that always has messages takes more messages than
any bound allows and is not exercised. The wheel
with one bit per level has every kind of slot and every cascade, all of them several
times before the wrap; the delays begin in the present slot, on a middle level and on
the top one; two timers give order and interference within a slot. In the runtime
two coroutines allow one that sleeps and one that wakes it, is forked or is
reused; three sessions allow a stale response against a new operation; for liveness two do, one for
a sleep and one for what comes between. `MaxSession`,
`MaxRequests`, `MaxWakeups` cap counters that grow in the program. The buffer's sizes
keep the order of the real ones (header 1, least chunk 2, largest chunk that doubling
reaches 4, realignment up to 2, limit 6), so that each branch on a size is taken both
ways. In `SocketRead` a `::recv` takes one byte and the peers send two, so one pass of
`socket::recv` may need several calls, a line may come in parts, and two DATA messages
can be on their way; the two connections are the two kinds there are (edge-triggered
and accepted, level-triggered and opened) and share only the worker and the mailbox.
In `SocketWrite` a turn of the loop takes two bytes and a push three, and the kernel
has room for three: a push needs two turns, and may be taken in part. In
`SocketChannel` two connections are one and its successor, three requests
two of which are pending while a third is made, or one of `__auth` before another.
Over heap and tree four timers (`MaxHeap`, `MaxTree`) take every branch of insertion, and of
removal but those of a tree of six: `rbtree.cc:251`
dereferences a null sibling, shown by `AltTimer_six.cfg`. The skip list has three (`MaxList`)
on up to three levels, for each of which two draws are free; blocks have room for two
levels at least (`Block`: what malloc rounds up to), so the third is where a draw may go past
the end, which ends what `TimersSound` claims. `MaxId` lets the numbers of mongo pass
half the width. `QueueLocks` has two of
each side and three items, so that two items can wait for two sleepers. In `ServiceStart` three
services allow one created by main and two by scripts that run at the same time.

**Deadlock** is switched off where the system may stop: the scheduler after shutdown
and when the bound on messages is used up, the wheel after `close`, the runtime when
every coroutine is suspended for good, the buffer when the bytes are used up, the
sockets when peers and coroutines have nothing left to do, the rest when their bounds
are used up.

**Fairness.** Weak fairness of each worker's steps, of each thread's progress inside
`send` and of the stop sequence: the kernel runs runnable threads and a handler
returns. No fairness makes a thread send, a signal arrive or a condition variable
wake up spuriously. The timer thread is weakly fair. In the runtime the dispatcher
goes on, a coroutine ends or yields, timers fire and what is sent is queued; a RESPONSE
that is queued is dispatched if the service is idle and scheduled again and again (strong
fairness: the queue is first in, first out). Nothing makes a peer answer, and nothing
schedules a service on whose queue a message was left over.
`EveryTimerFires` has the premise that the timer thread sleeps again and again: with
timers of delay 0 added faster than it runs them it does not (`timer.cc:222`).
`EverySleepEnds` has the premise that the service waits for a message again and again:
coroutines that fork one another without end keep it in `dispatch_message` for ever
(`onbnet.lua:185`); and that a message comes whenever one was left on the queue of the
service unscheduled (`dispatch_lost`), without which a sleep may last for ever
(`LuaActor_open.cfg`). The others have no fairness: that a waiting
coroutine is told is stated as "the message is on its way", which is stronger.

**What the violated runs show.**

- `dispatch_lost`: `service::start` sees its queue empty (`service.cc:46`); a sender
  pushes and finds `Invoke_` still set (`service_manager.cc:139`); then the flag is
  cleared (`service.cc:51`). The message waits until another one comes.
- `dispatch_accept`: two accepts put the listening service on the global queue twice;
  two workers run it at once, and one pops the message the other counted. The same
  trace has two threads in one Lua state.
- `socket_close`: `delete_connect` erases the service of a descriptor just before
  `event_close_hander` asks for it (`connect_client.cc:65`), so no DISCONNECT is ever
  sent and the reader sleeps for ever. The same holds in `connect_server.cc:131`.

**Configurations beside the runs.** They show what no doc of the repository promises
and the code does not give. TLC stops at the first formula that is violated: to see another
one of the same configuration, leave the others out.

| configuration | shows |
|---|---|
| `SocketWrite_open.cfg` | `WillBeSent`: `async_send` pushes while the socket worker ends its send and gives up EPOLLOUT (`connect_client.cc:55`), the bytes stay. `NothingLost`: what the kernel refuses has left the buffer (`socket.cc:110`). `LeavesInOrder`: with both calls on one connection two threads copy the same bytes (`chain_buffer.cc:121`) |
| `QueueLocks_signal.cfg` | `HandlerReturns`: a signal on the stack of a thread that holds the mutex (`main.cc:10`) |
| `ServiceStart_open.cfg` | `StartArrives`: the timer of 0 ticks may be faster than the registration, and the service never starts. `RequestHeard`: a request before `dispatch` is set is dropped, its caller waits for ever. `NoSharedNumber`: two workers in `max_service_id++`. `ScriptMayFail`: a service whose script failed has no callback, and the next message crashes |
| `SocketChannel_open.cfg` | `SignalEndsItsOwn` without the precondition above. `MakerWorks`: the coroutine that makes the connection ends with an error, or waits in the list itself, and those in the list are never woken |
| `ServiceDispatch_stop.cfg` | `DeletedIsUnused`: a send between its push and its exchange, or after `Cancel`, uses a deleted service (`service_manager.cc:134`); the next `Cancel` deletes it again (`producer_consumer_queue.h:109`) |
| `LuaActor_open.cfg` | `AllAwaited`: a coroutine that has caught "token duplicative" is resumed by the RESPONSE of that sleep while it waits for something else, or when it has ended (`onbnet.lua:324`). `SleepEndsAlone`: the RESPONSE of a timer comes between `service.cc:46` and `:51`, and the sleep does not end |
| `SocketRead_opener.cfg` | `EveryOpenerTold`: `::connect` returns 0, nothing watches the descriptor, SERVER_CONNECT is never sent (`connect_server.cc:78-91`) |
| `ChainBuffer_crash.cfg` | `SearchStaysInside`: the buffer holds fewer bytes than the separator has, all of them its beginning (just a "\r" for "\r\n"). `total_len - seplen` wraps (`chain_buffer.cc:209`), so the search begins, and `check_sep` follows the null pointer behind the last chunk (`:430`) |
| `AltTimer_six.cfg` | `NoFault`: a null sibling, from six timers in the tree (`rbtree.cc:251`) |
| `Codecs_open.cfg` | `ListInBounds`: a node of the skip list linked on more levels than it was allocated for (`zkiplist.cc:72`). `ReloadedHeld`: a suspended coroutine keeps old functions (`functions_replace.lua:71`). `ReloadedAll`: two pairs of objects with the same texts are compared once (`module_update.lua:15`). `DriversAnyCommand`: a null in a command of a pipeline is counted and not written, nor what is behind it, so the count reaches into the next command (`redis.lua:214`). `DriversAnyNumber`: the number of a request as an int is negative, and the answer finds no request (`mongo.lua:187`, `lua_mongo.cc:176`) |

## 4. What is proved

Every theorem below holds for all values of the constants: any sets of threads,
connections and coroutines and any value of the bounds. What it needs of the constants is
the named assumption of its module (which TLC evaluates in every run) and, where the
table says so, a condition that the run has too and without which a configuration shows
the theorem false.

| module | theorems | condition |
|---|---|---|
| `ServiceDispatch_proofs` | `TypeCorrect`, `OnePlace` (`ScheduledOnce`), `FlagMeansScheduled` (`InvokeIsScheduled`), `MutualExclusion` (`OneWorkerPerService`), `NoNullPop` (`PopNeverNull`), `NoDeletedRun` (`FreedIsNotRun`), `Refinement` (`ActorSpec`) | `Acceptors = {}`: nobody uses the overload `send(msg)` (`dispatch_accept`) |
| `LuaActor_proofs` | `TypeCorrect`, `ResponseResumesWaiter` (`ResumesItsWaiter`), `Reachable` (`SleepersReachable`), `Drained` (`TablesDrained`), `OneAnswer` (`AnsweredOnce`) | - (in `ResumesItsWaiter`: but for who has caught "token duplicative") |
| `SocketRead_proofs` | `TypeCorrect`, `Noticed` (`NothingUnnoticed`), `InTime` (`RecordsInTime`), `ClosedByPeers` (`OnlyPeersClose`, an action property) | - (in `NothingUnnoticed`: but for who opens a connection that `::connect` makes at once) |
| `QueueLocks_proofs` | `TypeCorrect`, `SizeHolds` (`SizeIsThere`), `NoLostWakeup` (`ItemHasTaker`), `Refinement` (`QueueIsAtomic`) | the signal handler interrupts the main thread only (in `QueueLocksAssumption`; `QueueLocks_signal.cfg`) |
| `SocketChannel_proofs` | `TypeCorrect`, `ResultsAreAnswers` (`AnswerMatches`, `WokenHasResult`), `NobodyIsForgotten` (`NobodyForgotten`, `WaiterListed`), `ConnectionIsOwned` (`OneReader`, `SignalEndsItsOwn`, `AuthFirst`) | `~EarlyClose`: no close between the fork of a dispatch coroutine and its start (`SocketChannel_open.cfg`); in `WaiterListed`: no maker has left the list (`SocketChannel_open.cfg`) |
| `ChainBuffer_proofs` | `TypeCorrect`, `KeepsShape` (`ChainShape`), `SkipsNothing` (`NoSeparatorSkipped`), `AddsBehind` (`AddedBehind`, an action property), `LeavesInOrder` (`InOrder`: the refinement of `ByteStream` and `AddedBehind`) | `LeavesInOrder`: one remover |
| `TimerWheel_proofs` | `TypeCorrect`, `SlotsAreSound` (`SlotsSound`), `WheelImplementsService` (`FiresOnTimeInOrder`, the refinement of `TimerService`) | delays below half the span of the clock (in `WheelAssumption`): `lsleep` passes an `int`, taken not to be negative |
| `MCShared_proofs`, the write buffer | `WriteTypes`, `BytesInOrder` (`LeavesInOrder`), `BytesAtOnce` (`SentAtOnce`), `NoByteLost` (`LostOnlyIfRefused`) | `OneCall`: no connection is used with both `send` and `async_send` (`SocketWrite_open.cfg`) |
| `MCShared_proofs`, the run `shared` | `TypeCorrect`, `OwnAnswers`, `NobodyIsForgotten`, `ConnectionIsOwned`, `BytesDoLeave`, `Served`, `QueueRefines`, `ServicesStartSafely` (`StartsSafely`) | those of the parts |

Each module states its inductive invariant (`IInv`, `Inv`, `WriteInv`, `BirthInv`), proves
that it always holds (`Invariance`, `WriteInvariance`, `BirthInvariance`) and gets the rest
from it.

**`ServiceDispatch`.** A service is *scheduled* when it is on the global queue, in a
worker's hands or in those of a sender about to queue it. `ScheduledOnce` alone is not
inductive, for a `CompareExchange` could add a second place. With
`InvokeIsScheduled` it is: the exchange succeeds only when the flag is clear, so only
when the service is at no place; every other step moves the service from one place to
the next, and only `ClearInvoke`, which takes it from its only place, clears the
flag. All this is for services that are not deleted: a sender may put a deleted one on the
queue any number of times. No worker takes it, for the queue is shut down before the first
deletion is over and `WaitAndPop` looks at that first, and what a worker has in hand is not
on the queue that `Cancel` deletes (`ScheduledOnce`).
`PopNeverNull` then follows from a count: only the worker that holds a service pops
its messages, so what it counted stays. Mutual exclusion, null pops, that no deleted service
is run and the refinement of `ActorModel` are corollaries.

**`LuaActor`.** That a response resumes its waiter rests on two facts about sessions: who
is suspended holds one that nobody else holds (`HeldByWaiters`, `NobodyLost`), and the next
one is nowhere yet (`FreshSession`). One coroutine runs at a time (`OneRuns`), what is forked is ready
once (`ForksReady`), what is left in `wakeup_queue` when the service is idle was left by
a failure (`WakeupsLeft`), and a coroutine that has a request to answer is the only one
that has it (`OwnerAnswers`), however it is reused.

A session left registered by a caught assertion leads to one of `survivors`, who are left out of
the claim; nothing the late RESPONSE does to such a coroutine (resumed in another operation,
in the pool, or dead) touches the session, token or request of another.

**`SocketRead`.** `NothingUnnoticed` says that bytes which have arrived have an event,
a `::recv` or a message ahead of them. An event in a batch must still be true when it is
dispatched (`EventsTrue`), there is one per descriptor and the worker is in one place
(`BatchOnce`), what epoll and the worker deal with has its records on both sides
(`OnlyServed`, `Watched`, `AcceptedOnce`), who waits has a record that says what for
(`Waiters`, `Openers`), and the position kept by a search has no line before it (`Lines`).

**`QueueLocks`.** The holder of the mutex is in one critical section (`Roles`), owes the count at
most one (`Counted`), and two uses of the class do not mix (`UsesApart`). No wakeup is
lost because beside a sleeper there is a consumer on its way for each item, or a
producer that still has to notify (`TakersCome`): a sum over sets of threads, for which
the proof counts cardinalities. The refinement maps a push to its notification.

**`SocketWrite`.** The write buffer, the hands of the sender between copy, drain and
write, and the kernel hold all bytes between them, in order (`Bytes`, `Kernel`), as one
thread sends (`OneSender`).

**`SocketChannel`.** One coroutine makes a connection, and the others know it (`OneMaker`).
A dispatch coroutine is known as long as it is there and belongs to the connection in
use (`Dispatched`). Who has an entry sleeps for the answer to that very request and has
no other (`Entries`), who sleeps without a result has an entry (`Asking`), who is woken
is so once and finds what it waited for (`Woken`). By order, the answers that have
arrived or are on their way are those of the entries, from the first on (`InOrder`):
this is why an answer, which carries no number, is taken by its own request. A new
connection empties the entries of the old one before it sends, so the match cannot
shift. Who waits for the connection is in the list, and the list has somebody who will go
through it as long as no maker has left (`Kept`): each way in which one leaves sets
`abandoned` (`CallerAbandons`), and every other step keeps it making (`CallerKeeps`).

**`ChainBuffer`.** Most of the proof is about the list. `Joined(list)[i]` is what the first `i`
chunks hold, a function defined by recursion over `0 .. Len(list)`. That there is such a
function (`Recursion`), that lists with the same data hold the same bytes (`JoinedSame`),
and what the rest of a list holds after a drain (`PartDrained`) would each be an induction;
they are proved by taking the least counterexample instead (`LeastOf`). From them follow what each
call does to the bytes: `buffer_add` appends, in place, after a realignment or over two
chunks (`InPlaceAdds`, `ChunkAdds`), `buffer_drain` takes from the front
(`DrainTakes`), and both leave the shape they start from, so `ChainShape` is inductive
with the types. It needs that a new chunk has room for what is asked of it: the loop of `buf_chain_new`
doubles until it does (`DoubledFits`).
`NoSeparatorSkipped` is not inductive: a separator may arrive in two parts. `Looked` adds
that no part of one that ends the data begins before `last_read_pos` either, and
`Found` that the line found last is still at the front, for a search that failed after
it would move the position. With one remover, what it has copied is never longer than the buffer
(`Held`), so the drain takes just what was copied.

**`TimerWheel`.** The invariant says where a node is: in the list that is run, or in the slot
that `add_node` would choose for it *now* (`Located`, `Somewhere`), though it was put there
under an earlier clock. That survives a tick because the choice changes only for the nodes
of the slot `timer_shift` moves (`TickSlots`, the centre of the proof); a time that has
wrapped lies on the top level until the clock does, too (`WrappedIsLast`), and the tick to 0
moves slot 0 of that level. A delay below half the span keeps a node ahead of the clock
(`DueTime`), and the arithmetic of windows that it takes (`DivDiv`, `Multiples`, `Between`)
is done for any `NEAR` and `LEVEL`, 256 and 64 included. Nodes of one time lie in one slot in the order in
which they were added, as `move_list` adds them again in order (`Ordered`, `MoveListIs`),
and what has come into the slot of the list that runs was added later (`BatchOrdered`):
so the head of that list is the oldest timer that is due (`OldestFires`), which is what
`TimerService` asks of a firing. `OnePlace` and `NearIsAhead` are corollaries; neither is
inductive, for they say nothing of where on the upper levels a node is.
`Moved` is a recursive function: that there is one is `MovedIs`, again by the least
counterexample (`Recursion`).

**`ServiceStart`.** Services come in turn and numbers are drawn below `max_service_id`
(`InTurn`, `Counted`): unless two threads are in the increment at once, one at most has
read it and not yet gone on. A thread creates the services whose scripts are not over, and
only the innermost may still be without a number (`Created`). Who is in the vector is ready, and
only who is ready has messages or is run (`Registered`): that no worker is in a Lua state
whose script still runs follows.

**Only model-checked.**

- All liveness: `EveryMessageHandled`, `ScheduledMessagesHandled`, `StopTerminates`,
  `EveryTimerFires`, `EverySleepEnds`. The prover has no rule for fairness.
- The five properties of the run `codecs`: `SerializeSound`, `CryptSound`, `ReloadSound`,
  `DriversSound` and `TimersSound`. The libraries and the other timer structures use recursive operators,
  which the prover cannot reason about, and what these compute for every input would need
  induction over data.

Every other property of a passing run is the statement of a theorem.

## 5. Plan

The models and the theorems of the plan are written. What could come next: the mysql
driver if it were the repository's own, and the tables `connects_` and `service_map_`
once they have a lock.

## 6. Not modelled

- Real time: the wheel counts ticks; how long one takes is the kernel's business.
- Memory allocation failure and logging.
- The configuration reader and the string helpers: sequential parsing at start-up.
- Vendored and third-party code: the mysql driver, the bson library, luasocket,
  LuaPanda, md5, spdlog, lfs.
- Of `socketchannel.lua`: backup hosts, the callback `overload`, answers in several
  parts; requests without a response (line 530), which redis uses to subscribe, mysql to
  close a statement and mongo to send: they leave no entry; the path of a write that fails
  (524-527), which is taken for an empty request only, as `lsocket_send` returns the length it was
  given (`lua_socket.cc:94-110`); and the padding of a request (511), which no driver of the
  repository gives and which raises an error for want of a third argument
  (`lua_socket.cc:112-115`).
- Of errors that a Lua function catches with `pcall`: all but the one of a token in use
  (`LuaActor`) and those of `__auth` (`SocketChannel`).
- Of the libraries: real numbers and pointers in `serialize.c`; `randomkey`, `hashkey`,
  `hmac64`, `hmac_hash` and the tables of DES and the rounds of the digests, whose
  correctness is a matter of constants.
- Of mongo: cursors, collections, authentication.
- `service_manager::close_service`, `chain_buffer::buffer_write_atmost`,
  `producer_consumer_queue::Pop`: nothing calls them.
- Operations on heap, tree or skip list by two threads at the same moment: `add_*` takes no
  lock (`timer.cc:138`). The wheel, which the server uses, has one.
- Data races on C++ containers: `workers_` during start-up (`onbnet.cc:51`), `connects_`
  and `service_map_` (`net_worker_manager.cc:33`). What the memory of a container holds
  then is outside what a state machine over its contents can say.
