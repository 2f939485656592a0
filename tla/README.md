# zig-bun-jsc: TLA+ models and proofs

A verification development for the code of this repository: TLA+ modules translated from the source,
TLC configurations that check them on small instances, and TLAPS proofs for every value of the
constants. All source paths below are relative to the repository root.

The repository is what is left of Bun's tree after it was trimmed to an embedding bridge for
JavaScriptCore (`bridge/`), together with the runtime support code the bridge may link (`src/`).
Most of `src/` is sequential library code (strings, parsers, system call wrappers). The code whose
correctness depends on the order in which several actors act is small and dense: the bridge's life
cycle, the threading primitives and the thread pool on them, the SIGINT watcher, foreign functions
and their callbacks, the I/O loop, the file watcher, the counted pointers and the pipes. That is
where the models go.

## 1. Inventory

### Components, their state, operations and correctness

| Component | State | Operations | What must hold | Module |
|---|---|---|---|---|
| **Bridge lifecycle** `bridge/src/runtime.zig` | atomic `initialized`; `state = {vm, global, owns_vm}`; `eval_backend` | `init`, `adoptHandles`, `shutdown`, `resetForTesting`, `installEvalHandler`, `evalUtf8`, `globalObject` | down means unwound; an owned VM is deinitialised exactly once and only if owned; init and shutdown are idempotent | `Bridge` |
| **Host functions** `bridge/src/hostfn.zig` | `registry` (list of `*StoredRegistration`), `registry_mutex`; JS functions hold a raw pointer to their registration | `expose`, `callFromJS`, `hostTrampoline`, `reset` | each registration has one owner on every error path; a call never follows a freed registration | `Bridge` |
| **Bridge API** `bridge/src/api.zig` | none of its own | forwards; `shutdown` = `hostfn.reset` then `runtime.shutdown` | the order of the two | `Bridge` |
| **Mutex** `src/threading/Mutex.zig` | futex word; debug owner | `lock`, `tryLock`, `unlock` | exclusion, no lost wake-up, the debug checks accuse nobody innocent | `Mutex` |
| **Futex** `src/threading/Futex.zig` | kernel wait queues | `wait`, `waitForever`, `wake`, `Deadline` | compare and block is one step | in its users |
| **Condition** `src/threading/Condition.zig` | `state` (waiters, signals), `epoch` | `wait`, `timedWait`, `signal`, `broadcast` | no signal is missed or counted twice, also against time-outs | `Condition` |
| **WaitGroup** `src/threading/WaitGroup.zig` | `raw_count`, mutex, condition | `initWithCount`, `add`, `finish`, `wait` | `wait` returns after the last `finish` | `WaitGroup` |
| **Channel** | mutex, two conditions, FIFO, `is_closed` | `writeItems`, `readItems`, `close` | each item delivered once, in order; `close` releases everybody | planned |
| **ThreadPool** `src/threading/ThreadPool.zig` | packed `sync` word {idle, spawned, notified, state}; `idle_event`, `join_event`; the stack `threads`; run queue and per-thread buffers; wait group | `schedule`, `warm`, `wait`, `notify`, `shutdown`, `register`, `unregister`, `join` | every task runs once; the counters follow the threads; deinit returns and frees nothing in use | `ThreadPool` |
| **UnboundedQueue** `src/threading/unbounded_queue.zig` | `front`, `back`, intrusive `next` | `push`, `popBatch` (`pop`, `pushBatch`) | FIFO, nothing lost, by several producers and one consumer | `IOLoop`, `BatchQueue` |
| **I/O loop and waker** `src/io/io.zig`, `io_darwin.cpp`, `src/async/posix_event_loop.zig` | pending queue, waker (eventfd or Mach port), kqueue change list, kernel interest list, flags of each poll | `schedule`, `wake`, `tickEpoll`, `tickKqueue`, poll, close | a scheduled request is handled; nothing is said to a request that was let go | `IOLoop` |
| **SigintWatcher** `src/vm/` | `m_installed`, `m_waiting`, semaphore, registered globals and receivers, ref count | holders (hold, move, destroy), `ref`, `deref`, `install`, `uninstall`, `signalReceived`, watcher thread | a SIGINT reaches what is held; nobody is terminated without one; uninstall ends the thread | `SigintWatcher` |
| **FFI** `src/bun.js/api/ffi.zig`, `FFI.h`, `src/bun.js/bindings/JSFFIFunction.cpp` | `Function` structs, callback wrappers, `JSFFIFunction` cells, posted tasks, the call stack | compile, call in both directions, post, close, conversions | what is called is alive; each wrapper is freed once and not read after; a value crosses unchanged | `FFI`, `FFIValues` |
| **bun:jsc module** `src/bun.js/modules/BunJSCModule.h` | the VM's one sampling profiler, its options | `profile`, `startSamplingProfiler`, `samplingProfilerStackTraces` | sampling ends with the last call; a report accounts for its own samples | `Profiler` |
| **File watcher** `src/Watcher.zig`, `src/watcher/` | watch list, eviction list, `running`, `watchloop_handle`, inotify buffer and `read_ptr` | `init`, `start`, `deinit`, add / remove, `flushEvictions`, `watchLoopCycle` | indices stay valid under eviction; events are delivered once; deinit frees once | planned |
| **Counted pointers** `src/ptr/shared.zig`, `ref_count.zig`, ... | strong and weak counts | clone, upgrade, deinit | the value dies at the last strong, the block at the last weak | planned |
| **Pipes** `src/io/PipeReader.zig`, `PipeWriter.zig` | reader / writer state, buffers, FilePoll flags | read, write, partial write, EAGAIN, close, error callbacks | bytes in order and once; `onClose` once | planned |
| **Collections** hive array, LinearFifo, heap, bit sets | sequential data structures | their usual operations | reference definitions | planned |
| **JSC stubs, handles** | engine objects (external) | thin wrappers | what `Bridge` assumes of them | none |
| **The rest**: strings, parsers, paths, semver, source maps, `sys`, `windows`, allocators, logging, crash handler, executable formats | sequential | pure functions and I/O | out of a model checker's useful reach | none |

`PROJECT.json` lists all of them with their files and their status.

### Interactions

* `api.shutdown` calls `hostfn.reset` (under `registry_mutex`) and then `runtime.shutdown`. Scripts
  run by the eval handler call host functions, which may call the bridge again (re-entrance). A JS
  function's data pointer goes from the engine straight into memory that the registry frees.
* `hostfn.zig` uses `std.Thread.Mutex`, the rest of the tree `bun.Mutex` (`Mutex.zig`), which is on
  `Futex.zig`. `Condition` releases a mutex around its futex; `WaitGroup` and `Channel` use both.
* `ThreadPool` threads share the `sync` word; `Event` objects are futexes of their own; each exiting
  thread waits for the one that registered after it; `waitForAll` is a `WaitGroup`.
* Any thread pushes requests into the I/O loop's `UnboundedQueue` and then wakes it; the loop's one
  thread pops a batch, hands polls to the kernel and runs the callbacks of requests and polls.
* The SIGINT handler runs at any instruction, on any thread, and talks to the watcher thread by an
  atomic flag and a semaphore; the watcher's thread reads lists that the JavaScript thread edits.
* Scripts call native code, native code calls callbacks, callbacks call native code, throw, or close
  themselves; other threads post threadsafe callbacks to the event loop; the collector may run
  between any two of these.
* The sampling thread adds samples to the profiler while a report is being read from it.
* `Watcher` runs its own thread against `add*` / `remove` / `deinit` calls under one mutex.

### Hard behaviours

Races between entry points (bridge, pool); stale pointers after a release (host functions, closed
callbacks, pool memory after `deinit`, polls after a close); error paths in the middle of a sequence
(`expose`, failed `spawn`, a callback that throws under native frames); hand-over of a status
between threads (the pool's *waking* thread); lost wake-ups (futexes, the condition's epoch, the
SIGINT flag, the I/O waker); time-outs racing wake-ups (idle event, timed condition); interrupted
waits; a chain of exits; sequences of legal calls (`init` / `adoptHandles` / `shutdown` / `init`,
holders that are moved and overwritten, profiles that nest); numbers at the boundary of an encoding.
`PROJECT.json` has each hazard at its line with the property that watches it, or why none does.

## 2. Modules

| Module | What it is |
|---|---|
| `AbstractLock` | what callers of a mutex rely on: who wants it, who holds it, progress |
| `Mutex` | `FutexImpl` under `DebugImpl` or alone, one atomic access per step |
| `Condition` | `FutexImpl` of the condition variable over `Mutex`, one access per step |
| `WaitGroup` | the wait group over both, among other users of its mutex and condition |
| `MCWaitGroup` | the instance: which thread calls what |
| `WaitGroupProofs`, `MutexProofs` | TLAPS: safety of the three, and that the mutex implements `AbstractLock` alone and in use |
| `Bridge` | runtime, hostfn and api as one state machine, one statement or one locked section per step |
| `BridgeUse` | `Bridge` with a history of the choices by which a registration or a VM leaves the bridge's keeping |
| `MCBridge`, `MCBridgeUse` | the instances: which entry points, whose VMs |
| `BridgeProofs` | TLAPS: one owner per registration, unwinding, what is kept, and which calls dangle |
| `ThreadPool` | the scheduling half of the pool with its threads, events and task counts |
| `ThreadPoolProofs` | TLAPS: one waking thread, the word's counts, no task lost, the code's assertions |
| `SigintWatcher` | holders, handler and watcher thread |
| `SigintProofs` | TLAPS: no signal is stranded or forged; counter and lists follow the holders |
| `FFIValues` | how a value crosses between C and JavaScript, as operators |
| `FFI` | symbols, callbacks, wrappers, calls, threadsafe posts and the collector |
| `MCFFI` | the instance: small integers, the values that are passed, the signatures |
| `FFIProofs` | TLAPS: conversions at every width; life cycle, arguments and numbers for any program |
| `BatchQueue` | what `UnboundedQueue` promises its consumer |
| `IOLoop` | `UnboundedQueue` access by access, the waker, and the loop on epoll and on kqueue |
| `IOLoopProofs` | TLAPS: no wake-up is lost, the list is a `BatchQueue`, `onDone` is last |
| `Profiler` | the three functions of `bun:jsc` that share the profiler, and the sampling thread |
| `ProfilerProofs` | TLAPS: it ends switched off; a report accounts for its samples |

Constants have named assumptions (`MutexAssumption`, `ConditionAssumption`, `WaitGroupAssumption`,
`BridgeAssumption`, `PoolAssumption`, `SigintAssumption`, `WidthAssumption`, `FFIAssumption`,
`IOLoopAssumption`, `ProfilerAssumption`) that TLC evaluates in every run. Operators marked `mutant`
are plausible bugs, one per property and run; replacing the definition they mutate must make TLC
find the property violated. Variables marked *history* record what happened and are read by
properties (and by the guards that bound the instances), never by an action of the code.

### Mutex, Condition, WaitGroup

`state` is the futex word (0, 1, 3), `locking_thread` DebugImpl's owner, `pc` says before which
access each thread stands. `FastPath` / `TryPath` are `FutexImpl.tryLock` in its two forms: `lock
bts` sets bit 0 of whatever word is there, `cmpxchgWeak` may fail for no reason. `Check`, `Swap` and
`Sleep` are `lockSlow`; `Release` and `Wake` are `unlock`. `Sleep` compares and blocks in one step,
as the kernel does, and `SpuriousWake` may end it. `Enter` and `BeginUnlock` are DebugImpl's store
after, and its assertion and store before. A thread that calls `lock` while holding is not modelled
(DebugImpl panics on it by design, ReleaseImpl deadlocks).

`AbstractLock` has `Request`, `Acquire`, `GiveUp` (a `tryLock` that fails) and `Release`. The
refinement maps *wanting* to the threads from `lock`/`tryLock` up to the acquisition and *holding*
to those from it to the release.

`Condition` adds `word` (`FutexImpl.state`, waiters and signals), and for each thread whether the
epoch it has read is still the epoch (`current`), so the 2^32 wrap-around that the comment in `wake`
accepts is not represented. `AddWaiter` ... `Relock` are the statements of `wait`, with the time-out
path (`Expire`); `BeginWake`, `Reserve`, `Bump`, `FutexWake` those of `wake`. A compare and exchange
may fail spuriously (`Refuse`).

`WaitGroup` has `raw_count`; `Finish`, `FinishLock`, `FinishUnlock`, `FinishSignal` are `finish`,
`WaitLock` ... `WaitLeave` are `wait`. The other threads of the instance lock, try, wait with a
time-out, broadcast and add in between: the mutex and the condition are checked under use, not
alone.

### Bridge

The variables are the source's globals: `initialized`; `vm`, `global`, `owns_vm` (`state`);
`backend` (`eval_backend`); `registry`, `mutex` (`registry_mutex`). Added: `stored` (whether a
StoredRegistration's memory is unused, live or freed), `fn` (on whose global the JS function sits),
`alive` (VMs not deinitialised), `given` (VMs whose ownership the bridge got), and each thread's
`pc` and locals `loc`. `state` and `eval_backend` are plain globals, so every read and write of
theirs is a step; `expose` allocates, installs and remembers in three steps with its `errdefer` as
`ExposeDestroy`; `reset` holds the lock while it frees item by item.

A thread may begin an operation whenever it is idle, and also, in a script run by the eval handler
(`EvalHandler` ... `EvalReturn`), inside another. `Ops` is the set of entry points the embedder uses
and `Reentrant` says whether scripts reach those that change the life cycle. `BridgeUse` adds
histories for an embedder that is inside the bridge from one thread at a time, whatever it calls and
whatever fails: `orphans` (registrations whose function outlives their keeping: its VM was let go
without being the bridge's, or was replaced by `adoptHandles`; `append` failed after the function
was installed; `hostfn.reset` was called by itself), `dropped` (VMs that `adoptHandles` replaced)
and `spared` (registrations that `resetForTesting` or `runtime.shutdown` passed by). `raced` ends
them: of a history in which two threads were inside, only `OneOwner` is claimed. Nothing here says
that an embedder who keeps to the bridge's README is safe: it recommends `owns_vm = false`, which is
the first way to an orphan. Abstracted: names and argument counts (validation failures happen before
any state change), the callbacks' bodies, the evaluator's result, re-use of freed memory by a later
allocation (each allocation is a new `Regs` element, so a stale pointer is seen), a global object
that differs from its VM's. The two stores of an early return in `releaseVmHandlesIfPresent` are one
step. `JSC.initialize` and `VM.deinit` are external.

### ThreadPool

`sync` is the packed word. A cmpxchg loop is the step of its successful cmpxchg: the decision was
taken on the value it replaced. `idle_event` has the four words of `Event`; `join_event` and
`exit_event[w]` (each thread's `join_event`) are one-token events, each with one waiter. `pc` walks
`Thread.run`: `register`, `wait` (one iteration of the pool's `wait()` per step), `event`/`sleep`/
`asleep` (`Event.wait` with its ten-second first time-out), `pop` (own buffer, global queue through
the consumer bit, stealing along the stack), `found` (notify if it moved tasks or is waking), `run`,
`finish`. `notify` is `Notify` (fast path), `NotifySlow`, then `Post`/`Wake` or `Spawn`. `shutdown`
is `Shutdown`, `PostAll`, `WakeAll`; `join` is `Join`, `JoinWait`, `Kick`; `unregister` is
`Unregister`, `Tell`, `Linger`. The iteration of `wait()` that makes a thread idle goes on with the
word its cmpxchg replaced, hence straight to the event (`BecomeIdle`). `Warm` has the loop of
`warm()` as it is written: `orelse break` leaves when the cmpxchg **succeeds**, after a thread was
counted and before it is spawned. `phantoms` counts such threads, so that the counting properties
can be stated about the rest; `late` records whether a sleeper's time-out was spent when the pool
was shut down.

Abstracted: `Node.Queue` and `Node.Buffer` are task counts (a later module), overflow from a full
buffer (256 tasks) to the local queue, the idle-queue callbacks, batches (one task per `schedule`),
`WaitGroup.wait` (an atomic guard here), the Zig thread's own resources.

### SigintWatcher

`refCount`, `installed`, `waiting`, `tokens` (the semaphore's value, 1 at first), `globals` and
`receivers` are the class's members; `heldGlobal` and `heldReceivers` are those of each holder.
There are three kinds of process. The JavaScript thread constructs, moves and destroys holders,
which runs `ref` / `deref` and with them `install` and `uninstall`, one call or critical section per
step (`js.at`). A handler tests and sets the flag and then posts (`handler` counts those before each
step; a handler may come while another is between the two, on any thread). The watcher's thread goes
through its loop (`thread`). Both clearings of the flag, after a hit and after a miss, are steps of
their own, as is the restoration of the previous handler in `uninstall`. A handler that runs on the
watcher's own thread interrupts its `sem_wait`, which goes on as if it had been posted. History:
`owed` (a SIGINT was received and its delivery has not begun), `accepted` (and not between the two
accesses of a look in vain, where it is dropped), `serving` (the delivery under way answers one),
`lapse` (two holders shared an object, or one was overwritten).

### FFIValues and FFI

In `FFIValues` an encoded value is a record of the tag its upper bits spell and of what the lower
ones hold. The limits of `FFI.h` (`MAX_INT32`, which is 2^31 there, `MAX_INT52`, 2^64) are
constants, so the instance can be small and the theorems hold at any width. `ToJS` and `ToC` are the
two formatters of `ffi.zig` that pick a conversion; all the narrow integer types behave as
`int32_t`, pointers, functions and C strings as `ptr`, and doubles are the integers among them.
Reading a double by its lower half gives `LowBits`, reading anything else as a double gives `NaN`.

In `FFI`, `function` is the `Function` struct of each callback, `wrapped` and `deletes` what became
of its `FFICallbackFunctionWrapper`, `data` and `tracked` the `JSFFIFunction` cells, `stack` the
JavaScript thread's nested calls, `thread` a call on another thread between filling its arguments
and posting, `tasks` the posted ones. Each of `FFI_Callback_call_0` ... `_7` and the general one are
operators of their own, as in the source. `Drop` and `Collect` are the program letting go of a cell
and the garbage collector; what the collector keeps is `Rooted`. A BigInt is a cell of the heap
(`cell` of a value that crosses), and nothing roots those that a posted call carries, on the other
thread or in its task: a collection takes them (`Swept`), and the task's script is called with what
`Arriving` says. C may call a further callback while the exception of another is pending, and the
script that then runs may meet it (`CatchPending`, the engine's). The JavaScript half of `bun:ffi`
(`ffi.ts`) is not in the tree: `Wrapped` says what it has to hand to a symbol's trampoline and is
marked external, as are the conversions of the engine itself. C never calls a callback that was
closed before, which is the program's duty.

### IOLoop and BatchQueue

`front`, `back` and `next` are `UnboundedQueue`'s; `push` is `PushSwap`, `PushLink`; `popBatch` is
`PopFront`, `PopBack`, and `Walk`, which spins on a link that is not set yet. `Wake` is
`LinuxWaker.wake` or `io_darwin_schedule_wakeup`, `signal` what either leaves. The four system calls
that create the Mach port may each fail. The loop's thread handles one request per step
(`HandleEpollPoll`, `HandleEpollClose`, `HandleKqueuePoll`, `HandleKqueueClose`, the callback's
answer is `wants`), waits, and handles one event per step. The kernel is `armed` (one-shot
interest), `changes` (kqueue's change list) and `Wait`, which chooses what is ready and what it
refuses. An owner schedules a request again only once it was called back, or to close it.
`QueueInOrder` maps the linked list, with the gaps its producers have yet to close, to the sequence
of `BatchQueue`; the definition `Path` walks it. Left out: the loop's `active` count (`io.zig:113`,
`:123`, `:134`), which nothing reads.

### Profiler

`exists`, `on`, `data` are the engine's profiler (external), which samples at any moment while on.
Each call of `profile()` goes through `phase`: inside the profiled function (`stack`, calls nest),
waiting for its promise, then the four steps of `report`, between which the sampling thread runs but
no script. Reactions of the promise run when no script does, or below a `drainMicrotasks` inside
another call. `shared` marks calls that had not the profiler to themselves, `left` that it was left
on by `startSamplingProfiler` or by an exception of the engine between the call and the reaction.

## 3. Runs

| Run | Question | Bounds | Result |
|---|---|---|---|
| `waitgroup` | exclusion, sleepers and signals not forgotten, debug checks, refinement of `AbstractLock` with progress, `wait` returns | 3 threads: one waiter, two that finish two tasks; and lock, try, timed wait, add, broadcast | holds |
| `bridge` | one owner per registration, whatever races; with one thread inside at a time: unwinding, VMs kept, and what may dangle | 2 threads, 2 VMs, 2 registrations, allocation failures, re-entrant scripts, symmetry | holds |
| `bridge_dangling` | no call follows a freed registration, for an embedder that keeps its VM | 1 thread, 2 VMs, 2 registrations | **violated** |
| `pool` | the sync word, the task counts, the code's assertions; everything runs, and `deinit` ends if it comes before a sleeper's time-out | 2 workers, 2 root + 1 child tasks, 1 failing spawn, weak cmpxchg, `warm(1)`, shutdown at any time | holds |
| `pool_sleeper` | `waitAndDeinit` ends | 2 workers, 2 root tasks | **violated** |
| `pool_deinit` | nothing touches the pool after `deinit` | 1 worker, 1 task | **violated** |
| `sigint` | an accepted SIGINT is not stranded and reaches what is held, none is forged, the watcher follows its holders, uninstalling ends | 2 holders, 2 globals, 1 receiver, 2 SIGINTs | holds |
| `sigint_lost` | every SIGINT reaches what is held | 1 holder, 1 global, 1 SIGINT | **violated** |
| `ffi` | life cycle, argument order (posted BigInts excepted), exact numbers but for one value | 2 callbacks (one of arities 0 to 8 and every result type, one threadsafe), 2 functions, 1 symbol, depth 4, 2 tasks, 12 values, 5 and 10 bit integers | holds |
| `ffi_boundary` | every number that crosses is the same on both sides | 2 callbacks, depth 2, 1 task, 12 values | **violated** |
| `ioloop` | the list is a queue of batches, no lost wake-up, nothing after `onDone`, everything scheduled is handled | 2 requests, 2 threads, both platforms, no buffers | holds |
| `profiler` | sampling ends, reports account for their samples | 3 calls, 2 samples | holds |

**Why the bounds suffice.**

* *waitgroup*: three threads give one holder, one sleeper and one that barges in, which is all the
  word can tell apart, and a waiter with two threads that finish, one of them late. The roles of
  `MCUses` put every entry point in some thread's hands and keep the state space at what TLC
  finishes; the theorems cover any number and any roles. A spurious failure of `cmpxchgWeak`, the
  debug build and spurious wake-ups include the x86 `tryLock` and the release build.
* *bridge*: two VMs are needed to adopt one over another, two registrations for one that is in the
  registry while another is being built or freed, two threads for every pairwise race. `RaceBound`
  lets histories with a race have one VM: what two threads do to the plain globals does not depend
  on how many VMs they might hold.
* *pool*: two workers are the least that have a waking thread and a sleeping one, or a victim and a
  thief; one child task makes a worker schedule into its own buffer, two roots make a second
  `schedule` meet every state of the first. `Roots`, `Children`, `SpawnFailures` bound what would
  otherwise run for ever; a worker exits once, so the number of workers bounds spawns. `PoolBound`
  cuts two things off: after a `warm` the owner has one task and no child, and a pool in which a
  task has scheduled another is not followed through its shutdown, where `notify` does the same
  whoever calls it. `pool_sleeper` has two roots and no more: without the condition on the time-outs
  `DeinitEnds` fails in the code, with it (`DeinitEndsInTime`) it holds for two workers. With three,
  a late `notify` that overwrites SHUTDOWN (section 4) may strand a thread in the same way, so the
  condition is not claimed to be enough in general.
* *sigint*: two holders nest, overlap, share an object and are assigned over one another; two global
  objects are the least with one that a loop could miss; two signals are one that coalesces with the
  other, and one that comes while the other is delivered. `MaxTokens` keeps leftover tokens of the
  semaphore at two before a new holder is made; three in the semaphore differ from two only in how
  often the watcher looks in vain. While a receiver is held only one signal comes (`ReceiverBound`):
  its list is walked before that of the global objects and holds nothing up.
* *ffi*: depth 4 is script, symbol, callback, symbol: a callback that closes itself, throws or
  returns below native frames and above them. Two tasks are one that runs and one that waits while
  its callback is closed; the two values of a posted call are one BigInt and one that is none. With
  one callback, every arity and type is had with values on both sides of each limit; the arguments
  are taken from these in order, eight of them, so that any swap shows. Once the second callback is
  there, `ValuesBound` leaves two signatures for the first and four values.
* *ioloop*: two requests are one ahead of the other in every place of the list (the case of a link
  that is not set needs two), two threads are two producers between swap and link.
* *profiler*: three calls are one inside another, with a third whose promise is pending.

`CHECK_DEADLOCK FALSE` stands in all configurations but `waitgroup`'s: an embedder, a script or the
owner of a request may stop calling, registrations, tasks, signals and samples run out at their
bounds, and a pool ends.

**Symmetry** is used in `bridge` only, on threads and registrations (no liveness there, and no
definition chooses among them).

### Fairness

* `WgSpec`: weak fairness of each thread's `GoOn`: a thread that is inside a call and not asleep is
  scheduled eventually, and a caller that holds the mutex gives it back. Not assumed: that anybody
  calls anything, or that the kernel or a clock ends a sleep. `AbstractLock` promises only that
  *some* waiting thread gets a free lock: the mutex barges, and one thread may starve. `WaitReturns`
  is therefore claimed once the others leave the mutex alone (`Alone`), and for a single waiter.
* `ThreadPool`: weak fairness of the owner and of each thread. Callbacks return, the owner goes on
  after its calls return, and the time-out of the first sleep expires (`Timeout` is part of
  `WorkerStep`, since the clock goes on). Spurious wake-ups are never required, nor that an owner
  shuts down a pool that still has tasks (`MayRest`). Nothing stronger is assumed of contended
  cmpxchg loops, because each loop is one step.
* `SigintWatcher`: weak fairness of the JavaScript thread inside an operation (`JsStep`), of
  handlers that have begun, and of the watcher's thread. Neither signals nor scripts have to come.
  (A watcher that meets a token each time it looks is not starved: its steps are always enabled.)
* `IOLoop`: weak fairness of each thread that has begun a push, of the loop's thread, and of the
  kernel's return from a wait that has something to return.
* `Bridge`, `FFI` and `Profiler` have no liveness property: nothing in them waits, except for
  `registry_mutex`, whose holders never wait for anything.

### Refinements

`LockSpec` says that `Mutex`, used by `Condition` and `WaitGroup` and by callers of its own,
implements `AbstractLock` with its progress; `QueueInOrder` that the I/O loop's linked list, with
its producers between swap and link, implements `BatchQueue`.

## 4. What the violated runs show

* `bridge_dangling`: `hostfn.reset` frees each registration but leaves the JS function on the global
  object. If the embedder keeps the VM (`owns_vm = false`, which the bridge's README recommends) a
  script that calls the function after `api.shutdown` makes the trampoline read freed memory.
  `OnlyOrphansDangle` shows by which other choices that can happen, and that there are no more.
* `pool_sleeper`: `Event.wake` wakes sleepers only if the word it replaces is WAITING. If a `notify`
  has just replaced WAITING by NOTIFIED and woken one of two sleepers, `shutdown` replaces NOTIFIED
  by SHUTDOWN and wakes nobody. The woken thread sees SHUTDOWN and leaves; the other one, whose ten
  seconds are over, sleeps with no time-out, and `join` waits for it.
* `pool_deinit`: the last thread's `fetchSub` in `unregister` lets `join` return, and the owner free
  the pool, before that thread calls `self.join_event.notify()`.
* `sigint_lost`: the semaphore starts at 1, so after the first `install` the watcher looks once in
  vain, and so it does for each token left over. Between the two accesses of such a look
  (`test_and_set`, `clear`) the flag is set for no signal. A SIGINT that arrives there finds it set,
  posts nothing and is dropped: what is held is not terminated, nor is the signal passed on.
* `ffi_boundary`: `UINT32_TO_JSVALUE` and `INT64_TO_JSVALUE` test `val <= MAX_INT32` where
  `MAX_INT32` is 2^31, so 2^31 is tagged as an int32 and the script reads -2^31.

Further observations made with the same models, by changing constants or properties, and not kept as
runs.

Bridge and pool:

* `adoptHandles` over an owned VM drops it without deinitialising it. `expose` frees a registration
  whose `append` has failed although its function is on the global object.
* `expose` looks at `initialized` once, and `shutdown` clears it after the reset. An `expose` on
  another thread adds its registration to the emptied registry and leaves it in a bridge that is
  down. `resetForTesting`, which the bridge's README offers in the place of `api.shutdown`, releases
  the VM but no registration (`spared`).
* `warm` leaves its loop when the cmpxchg has succeeded, one thread counted and none spawned; it
  spawns, uncounted, when the cmpxchg fails. `warm(2)` may thus come back with no thread at all.
  `phantoms` carries the error, so that the other counting properties can be stated about the rest.
* After a failed `std.Thread.spawn`, `sync` stays signaled and notified with no thread, so every
  later `schedule` returns by the fast path and `waitForAll` never returns.
* A `notify` that is late overwrites the idle event's SHUTDOWN with NOTIFIED, although the event's
  documentation promises that all future waits return.

Condition and WaitGroup:

* A thread that starts to wait after `signal` may take the signal; the waiter it was reserved for
  sleeps on, though `Condition.zig:69` says that at least one *blocked* thread is unblocked.
* `finish` signals once, so of two threads in `WaitGroup.wait` one may sleep for ever.

SigintWatcher:

* `ASSERT(success)` after the watcher's wait fails when the handler runs on the watcher's own thread
  and ends its `sem_wait` with EINTR; a release build looks at the flag all the same.
* A flag that is still set when the last holder goes is delivered to the next one.
* Two holders that register the same object share one entry of the list; the first to go removes it.
  A holder assigned over another leaks the reference of the one it replaces. `m_refCount` is not
  atomic and relies on there being one JavaScript thread.

FFI:

* A `uint32_t` from 2^31 up that a callback returns is a double, and the callback's conversion reads
  the lower half of its mantissa; an integer returned where `double` is declared reads as NaN; a
  `ptr` given as an int32 reads as garbage. `ffi.ts`, which guards symbols against all three, does
  not guard results (`Meant` says which results the conversions are written for).
* `UINT64_TO_JSVALUE` uses a BigInt for `MAX_INT52` itself although it is exact (and is read the
  same).
* `ffi.zig:1348` reads `function.threadsafe` of the struct it is about to set. A compilation that
  fails leaks its wrapper. The BigInts among the arguments of a posted call are not rooted while
  they wait, and may be collected before the script sees them (`ArgumentsArrive` excepts just
  these). Closing a threadsafe callback while another thread is in its trampoline reads a deleted
  wrapper (`raced`). After a callback has thrown, C goes on with a null result.

I/O loop:

* `io_darwin_schedule_wakeup` takes a kernel that has no buffer for the message for one whose port
  is full ("No space means it will wake up"). Nothing is then pending that would wake the loop, and
  the request waits until something else ends the wait. `starved` excuses this in the properties.
* A failing step of the port's setup leaks the port.
* On kqueue `onDone` comes before the `kevent64` that deletes the poll, and the flag that says the
  poll is registered survives a one-shot event, so an error event may name a request that is gone.
  `NothingAfterDone` is claimed of epoll only.
* `tickKqueue` never takes back `request.scheduled`, so the assertion at `io.zig:72` would fail at
  the next `schedule` of the same request. `KEventWaker.has_pending_wake` is written and never read.

Profiler:

* Calls that overlap shut the profiler down under each other and take or clear each other's samples.
  Samples taken between the stack traces and `shutdown` stay and appear in the next report.
* An exception of the engine after `profiledCall` leaves the profiler on (`left`, which
  `OffWhenSettled` excuses: nothing in the repository says otherwise). The path option points into a
  `CString` that dies at the end of its block.

## 5. What is proved

TLAPS checks the following for every value of the constants, from the modules' named assumptions
only. Each inductive invariant was checked by TLC on the run's instance before it was proved. Every
invariant that a passing run checks is stated by a theorem.

* **MutexProofs**, any set of threads, both targets and builds. `TypeCorrect`; `Exclusion` and
  `DebugChecksSound`: `MutualExclusion` is nearly inductive, its second half, that the word is
  Unlocked exactly if no thread is critical, is what lets an acquiring swap conclude that nobody is
  inside. The debug checks need `OwnerRecorded` as well: the owner word names only threads inside
  `cs`, and all of them. `SleepersRemembered`: the step that takes the word away from Contended
  while somebody sleeps is `Release`, which leaves its thread at `wake`; `Wake` leaves the thread it
  wakes at `swap`; and a swap puts Contended back. `ImplementsLock`: every step maps to a step of
  `AbstractLock` or a stutter.
* **WaitGroupProofs**, any finite set of threads in any roles. A step of the wait group is a step of
  `Mutex` or leaves it alone (`StepOfMutex`), so the theorems of `MutexProofs` carry over
  (`ExclusionInUse`, `SleepersRememberedInUse`, `DebugChecksSoundInUse`, `LockInUse`).
  `WaitersAlwaysCounted` and `TypeCorrectInUse`: the cardinality of the waiting threads changes by
  one where the word does, and the copy a compare and exchange succeeds on is the word (`CountInv`).
  `NoSignalMissed` says that *some* thread notices while a signal is out, which is not inductive:
  that thread may take one signal while a second is out. So each signal is given a noticer of its
  own: an alert thread, or a wake that a poster has yet to make (`EnoughNotices`). A poster may find
  fewer sleepers than it has reserved, and then everybody who sleeps is awake: `EnoughChances`
  counts the sleepers too, but no poster that has changed the epoch already.
* **BridgeProofs**, any threads, VMs, registrations and entry points. `TypeCorrect`;
  `RegistrationsOwned`: `OneOwner` strengthened by `LocalsMatch` (a thread in the middle of `expose`
  has a registration in hand, the thread at `free` holds `registry_mutex` and what it has left is
  part of the registry). Most actions move between places that own nothing; the lemma `Elsewhere`
  handles them at once. `ShutdownUnwinds`, `CallsFollowKept` and `OwnedNotLost` are about
  `BridgeUse`, through every entry point, failure and call from a script. While nobody races, one
  thread is inside the bridge (`OneInside`), and what the globals are follows from where it stands:
  `Calm` says what of the handles has been taken apart at each statement of `adoptHandles`, `reset`
  and `releaseVmHandlesIfPresent`, and that a bridge that is down has no registrations but the
  spared. `Kept` adds that a VM handed over is the one the bridge holds, unless it was dropped, and
  that every function a script can still call is in that VM with its registration live, until the VM
  is about to go, or is an orphan. While no thread is inside, both hold of the globals as they do of
  a thread at `idle`.
* **ThreadPoolProofs**, any finite set of workers, any number of tasks and failing spawns, `warm`
  with any target, a shutdown at any time. `TypeCorrect` (no count below zero, `spawned` never above
  `max_threads`; that they fit the word's 14-bit fields is not stated), `WakerUnique`,
  `SyncFollowsThreads`, `TasksNeverLost`, `AssertionsHold`. `Fits` ties each worker's locals, its
  buffer and the consumer bit to its place; `Ending` says what holds after a shutdown. The counted
  sets (`Idlers`, `Live`, `Spawning`, `InHand`) each lose or win at most the thread that moves, so
  their sizes change as the word does (`OneChange`, `AloneChanges`). A thread that meets a wrong
  count panics with a task in its hands; so `LostKnown` speaks of what is lost besides, and `Safe`
  says that nothing panics unless `phantoms` is below zero: `warm` can make `spawned` too high for
  ever, and only a count that is too low is ever tested.
* **SigintProofs**, any holders, objects and number of signals. `SignalsNotStranded`,
  `NothingForged`: the flag is set only while an accepted signal waits or the watcher is between the
  two accesses of a look in vain (`FlagMeansAccepted`), an accepted signal is covered by a token, a
  post to come or a watcher that is awake (`Covered`, which has to leave a token over for the join
  of `uninstall`), and there is no thread while nothing is installed. `TypeCorrect`,
  `HoldersFollowed`: the counter is at least the number of holders with an object (equal, unless one
  was overwritten: `Counted`), `installed` is what the counter says but between an `install` or
  `uninstall` and its last step (`Installation`), and the lists are what the holders hold, but for
  the holder in the script's hands (`Halfway`), as long as no two hold the same (`Apart`).
* **FFIProofs**, any callbacks, functions, signatures, depth and program, and any widths that
  satisfy `WidthAssumption`. `ReadExactly`, `SlipsNegate`, `RoundTrip` are about the conversions:
  case distinctions over the types, the arithmetic on `%` in lemmas. `CallsLive`, `DeletedUnread`,
  `ClosedLetGo`: `FInv` says of each callback how its struct, its wrapper and the number of
  deletions go together (`Wrapping`), that a wrapper is missing under a call on the other thread
  only if its close raced it (`Racing`), that calls nest on the script (`Nesting`), and that
  everything the stack, the tasks, the wrappers and the program hold is alive (`Living`).
  `ArgumentsDelivered`, `NumbersExact`, `TypeCorrect`: what is posted, in a trampoline or crossing
  was exact when it was encoded and is what was sent, or what a collection has left of it in a task
  (`Carrying`); whatever runs, is called or waits in a task has been compiled (`Started`), so the
  signature its values are converted by is there (`Signed`).
* **IOLoopProofs**, any finite set of requests and any threads. `WakeUpsKept`: a non-empty queue has
  its head in `front` or in the hands of the thread that is about to link it (`FrontComing`), and if
  the loop is at its wait, that thread or another has yet to wake it, or the signal is set
  (`WakeUpComing`). `ListIsAQueue` shows the refinement of `BatchQueue` (`QueueInOrder`). `Shape(q,
  b)` says that the list is the sequence q, with a gap after an element exactly if the thread that
  swapped in the next one has yet to link it, and that b is the part of a batch that is not handed
  out; every step leads from a shape to a shape of the same q and b, or of those that a step of
  `BatchQueue` makes of them (`Moves`). `PathIs` then shows that the walk the refinement mapping
  takes reads exactly q and b off the pointers. This is the one place that needs an induction over a
  sequence; it is made at first order, by the least place at which the walk and the sequence differ
  (the minimal element of a set, `WFMin`), and a walk cannot be longer than the requests (`Short`, a
  pigeonhole). `DoneIsLast`: with epoll no armed poll and no event still to be handled is that of a
  request whose `onDone` ran (`Heard`), and what is in the list is `scheduled` (`Members`).
  `TypeCorrect`.
* **ProfilerProofs**, any calls and number of samples. `TypeCorrect`, `OffAfterwards`,
  `AlwaysAccounted`: a call that is alone is the only open one, what was sampled during it is in
  `data` or in its report, and no other call's report contains it.

What the theorems assume besides the modelling itself: finitely many workers (`PoolAssumption`),
holders (`SigintAssumption`) and requests (`IOLoopAssumption`), since the model counts them; `None`
outside the sets it is a value beside; 64-bit words that are wider than the doubles' mantissa, which
is wider than 32 bits, and which hold the tags (`WidthAssumption`).

**Only model-checked.** All liveness (fairness and ENABLED are outside the prover's reach):
`WaitReturns`, the progress half of `LockSpec`, `TasksRun`, `DeinitEndsInTime`,
`AcceptedReachesHolder`, `UninstallReturns`, `ScheduledIsHandled`. The violated properties, which
are false for some constants and need no proof.

## 6. Plan

Done: `AbstractLock`, `Mutex`, `Condition`, `WaitGroup`; `Bridge`; `ThreadPool`; `SigintWatcher`;
`FFI`; `BatchQueue` and `IOLoop`; `Profiler`; with the proofs above. Next, in this order:

1. More by proof: an abstract specification of the SIGINT watcher (a signal is accepted, then
   delivered once to what is held) and of the pool (a task is scheduled, then run once), refined by
   the modules there are.
2. `NodeQueue` / `NodeBuffer`: the consumer bit, cache and stack of `Node.Queue` and the ring of
   `Node.Buffer` at the level of their accesses, refining the counters of `ThreadPool`.
3. `Channel` over `Mutex` and `Condition` (`writeItems` writes the whole slice once per item).
4. `SharedPointer` (weak upgrade against the last release), with a proof that the value is freed
   once; `Watcher` with `INotify`.
5. `PipeWriter` over `FilePoll`; opening and closing of a library in `FFI`.
6. Pure modules: `HiveArray`, `LinearFifo`, the pairing heap, against reference definitions.

## 7. Not modelled

System call wrappers, parsers, string and path functions, allocators, logging and file formats:
sequential code whose hazards lie in its input texts, which a small instance does not reach. The JSC
binding files are declarations and test stubs of external code. `WindowsImpl` and `DarwinImpl` of
the mutex and `WindowsImpl` of the condition delegate to the operating system; so do the Windows
console handler and the Mach semaphore of the SIGINT watcher, and the Windows event loop. Of `FFI`:
`dlopen`, `linkSymbols`, `close` of a library with live symbols, napi values and buffers, and raw
reads and writes (`FFIObject.zig`). `ffi-stdatomic.h` and `ffi-stdbool.h` declare the compiler's
atomics and booleans for user code. The remaining functions of `BunJSCModule.h` each call one
function of the engine and keep no state. `UnboundedQueue.pop` is called by nothing in the tree.
Memory orders weaker than sequential consistency are not represented: every atomic access is a step
on a single shared state.

## Running

    tlc -workers 2 -config MCWaitGroup.cfg MCWaitGroup
    tlc -workers 2 -config MCBridgeUse.cfg MCBridgeUse
    tlc -workers 2 -config MCBridgeDangling.cfg MCBridge
    tlc -workers 2 -config ThreadPool.cfg ThreadPool   (also ThreadPoolSleeper, ThreadPoolDeinit)
    tlc -workers 2 -config SigintWatcher.cfg SigintWatcher       (also SigintLost)
    tlc -workers 2 -config MCFFI.cfg MCFFI                   (also MCFFIBoundary)
    tlc -workers 2 -config IOLoop.cfg IOLoop
    tlc -workers 2 -config Profiler.cfg Profiler
    for m in *Proofs.tla; do tlapm $m; done
