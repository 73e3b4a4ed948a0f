# A TLA+ development of asyop

asyop is a small C++ library for chains of asynchronous operations: promises
with cancellation. These modules model how operations are linked, completed,
cancelled and aborted, by one thread or by several, what the compound operations
(`when_all` and its relatives) build from them, how the executor finds the
handler that runs a functor, and what the Asio event loop and the computations of
`thread::fy` make of all this. TLC checks small instances. TLAPS proves the safety properties of
contexts, compound operations, timers, executor and event loops for any number of contexts,
operations, threads and loops, that the contexts with mutexes do not deadlock, that they
and those under an executor that invokes at once implement the atomic ones, and that with
one thread a compound operation settles on the result that it promises.

Paths are relative to the repository, `lib/` stands for `lib/include/asy/`.

## 1. The system

### Components

| component | state | operations | interacts with |
|---|---|---|---|
| operation context, `lib/core/basic_context.hpp` | `m_pending`: nothing, two callbacks, a success, a failure, or `done_t`; `m_parent`; `m_mutex` | `async_success`, `async_failure`, `async_return`, `cancel`, `abort`, `set_continuation`, `is_done`, `post` | posts functors to the executor; asks it whether to lock; `cancel` and `abort` call the parent while the mutex is locked |
| operation handle, `lib/core/basic_op_handle.hpp` | a shared pointer to a context | constructors (root, with parent), `then` with one and two functors, `on_failure`, `cancel`, `abort` | makes a child context and gives the parent its callbacks |
| continuation adapters, `lib/core/continuation.hpp`, `lib/common/*_continuation.hpp`, `safe_invoke` in `lib/common/util.hpp` | none | `deferred` (run a functor, complete a context), `to_handle` (the operation of a functor) | run by the executor; complete, or hand out, a context |
| operation factory, `lib/op.hpp`, `lib/basic_op.hpp` | none | `op` from a value, an error, a functor, a handle | makes contexts without parent |
| executor, `lib/core/executor.hpp`, `lib/src/executor.cpp` | the registry from threads to handlers, `reg_mutex`, the thread-local `this_impl` | `schedule_execution`, `should_sync`, `set_impl` | calls the handler of a thread, which defers a functor or invokes it |
| compound operations, `lib/basic_ops.hpp` | a shared counter and tuple of results | `add_cancel`, `when_all`, `when_success`, `when_any` | client of handles and contexts |
| threads, `lib/thread.hpp` | a worker thread | `thread::fy` | the worker posts its result to the executor of another thread |
| Asio integration, `include_asio`, `src_asio` | a map from threads to loops, timers | `set_event_loop`, `get_event_loop`, `fy`, `adapt`, `sleep`, `timed_op` | registers handlers that post to an `io_service` |
| concepts, `lib/core/support/concept.hpp` | none | none, compile-time | |

### What is hard

*Order.* `async_return()`, `then()`, `cancel()` and `abort()` come in any order,
several times, before and after each other. A result has to meet its callbacks
exactly once. The single variant `m_pending` carries all of it: a late result
overwrites an earlier one that nobody has taken, a second `then()` overwrites
the callbacks of the first, everything after `done_t` is dropped.

*Chains.* `cancel()` and `abort()` of a handle concern the oldest unfinished
operation above it. A functor may return the handle of yet another operation, whose
result then goes through a temporary operation to the outer one.

*Threads.* With `require_sync` each method locks its context. `cancel()` and
`abort()` lock a parent while the child is locked, and they look at the parent
(`is_done()`) and act on it (`cancel()`) in two critical sections.

*Functors.* A functor that runs in the event loop calls many methods and shares
data, such as the counter of `when_all`, with functors on other threads.

*The executor.* A handler runs functors that call the executor again, so calls
nest under `reg_mutex`; a thread caches its handler in a thread-local. Nothing keeps
a handler from invoking a functor in the call itself; the context that posted it is
then in the middle of its method.

*Time.* A timer may expire, be stopped, or be stopped when its handler is already
posted; the operation it guards may finish, fail or be cancelled meanwhile.

*Lifetimes.* A computation ends in its own thread, when the event loop that waits
for its result may run, have returned, or be destroyed. The handler for that loop
stays registered.

### What makes each component correct

- contexts: a result is delivered at most once and is not lost; `abort()` silences
  its chain; an operation never gets ahead of the one it continues; cancellation
  reaches the oldest unfinished operation and is not lost; every method returns;
  everything settles if the client completes what it holds; the locked methods
  implement the atomic ones.
- compound operations: the first result wins a race; a collected result is complete;
  the counter reaches zero exactly when all have finished; nothing is left running; a
  deciding result is enough.
- executor: the handler in use is the one set last; no thread locks itself out;
  `reg_mutex` is released on every return.
- an executor that invokes at once: it does nothing that a deferring one could not do.
- threads, event loops: a context stays in the thread of its loop; no loop is used
  after its end; a result arrives while the loop runs; joining a computation ends.
- timers: a timeout or a cancellation is reported with reason only; the end of the
  race leaves neither timer nor operation behind, and comes.

The hazards, line by line, with the properties that cover them or the reason why
none does, are the list `hazards` of PROJECT.json.

## 2. Modules

    OpChain ────────────── contexts, handles, continuations; methods atomic
      │  └ OpChainLive       the same under a well-behaved client, with fairness
      │  └ OpChain_proofs    TLAPS
      ├─ AsyContext ─────── threads and mutexes; implements OpChain
      │    └ AsyContextLive  ... with fairness
      │    └ AsyContext_proofs
      ├─ InlineChain ────── functors invoked in the call that posts them; implements OpChain
      │    └ InlineChain_proofs
      └─ Compound ───────── when_all, when_success, when_any, add_cancel
           │  └ Compound_proofs
           ├─ CompoundPromise  with one thread, implements Promise
           │    └ CompoundPromise_proofs
           └─ Timed ───────── sleep and timed_op: Compound with a timer
                └ Timed_proofs
    Promise ─────────────── what a compound operation promises its caller
    Executor ────────────── handlers, reg_mutex, this_impl
      │  └ Executor_proofs
      └─ EventLoop ──────── set_event_loop and thread::fy: Executor with loops and workers
           └ EventLoop_proofs

`MCx.tla` only adds the symmetry sets; the `.cfg` files give the constants.

### OpChain

Every method is one step: the meaning of the library for a program with one
thread, and the abstract specification of the threaded one.

| model | code |
|---|---|
| `m_pending[c]` | the variant: `"unborn"` before the constructor, `"empty"` = `monostate`, `"callbacks"`, a result, `"done"` |
| `callee[c]` | what the stored callbacks are: the context that they complete |
| `m_parent[c]` | kept after `reset()` as history; the code's pointer is `Parent(c)` |
| `kind[c]`, `outer[c]` | which `then()` made `c`, and for the temporary operation of a returned handle, the outer context its callbacks captured |
| `held` | contexts whose shared pointer client code has received from an asynchronous functor |
| `tasks` | the functors that the executor has been given and has not run |
| `posts`, `aborted` | history variables of the properties |

`Settle`, `Post` and `SetContinuation` are the three critical sections of
`basic_context`; the actions are made of them. `NewOp` covers `op()`, `Then` the
three ways to continue, and `AsyncReturn`, `Cancel`, `Abort` the other methods.
`Cancel` and `Abort` find the open chain, the set of unfinished operations from
`c` up, in one step. `RunDefault`, `RunSimple`, `RunValueOrError`, `RunAsync`,
`RunCaught` and `RunARet` are what running a posted functor does for each
kind of functor; `RunForward` runs the callbacks of a temporary operation, which
complete the outer context *and*, because they return nothing, their own.

Abstracted: payloads are one of value, error, canceled. The executor defers a
functor (the Asio loop does) and runs the posted ones in any order, which
includes the order of the queue. A client may do at any time what its functors do
at the end of a step, so functors take one step here. `m_parent` links to
done contexts have no effect, so the chain does not contain them.

### AsyContext

`Threads` share the contexts, `lock[c]` is `m_mutex`. A method that takes one
mutex is a step of OpChain, enabled while the mutex is free. `cancel()` and
`abort()` are split where they take a mutex: `Call`, `CancelEnter`,
`CancelIsDone` and `AbortEnter`, `AbortIsDone`, `AbortClose`. Between `is_done()`
and the recursive call the parent's mutex is free, as in the code. `AbortClose`
happens once per context, the oldest first, each releasing its mutex; the
recursive returns of `cancel()` do nothing but unlock and are one step with its
end. Threads are either one thread or threads which all have a handler with
`require_sync`; contexts shared between a thread that locks and one that does not
would be a data race and are outside of the documented use.

### Compound

`Ctx` is fixed: an operation `Op(i)` and its watcher `Watch(i)` for each argument,
`Joint` whose handle is continued, `Guard` whose handle is returned. The functors
are not atomic here: a thread runs `running[t]` and is at `label[t]`; each method it
calls, the read and the write of `--(*counter)`, and each turn of the loops that
cancel are steps. With one thread nothing can interleave, with two everything
can. Methods are steps of OpChain: `ImplementsOpChain` justifies that, except for the
cancellation that is lost (section 6), which is an additional outcome of
`Cancel` and concerns handles with parents only. In the runs of Compound the arguments
are operations without parent; each has left a result or kept its context when `Start`
is over. Client code completes, cancels and aborts the operations and cancels and aborts the
handle of `Guard` (`Client`), whenever a thread is idle. An operation that is aborted calls
neither of its functors: it is never counted and no result of it decides anything, so that
`when_all` and `when_success` of it do not return unless something else settles them. Timed
adds an argument with parents.

### Promise and CompoundPromise

Promise says what the three functions promise to a program with one thread, without
contexts, functors, counter or loops: `arrived` are the results of the operations, `told`
is the result that is sent to the caller. `Arrive` sends him, in the same step, the first
result that decides (any for `when_any`, a failure for `when_success`), or a success with the
last one; `Cancel` and `Abort` are his, and nothing else is sent afterwards. What is sent is
not in his hands yet: like any operation, the one he was given may be cancelled or aborted
before its continuation runs, and what he gets then is what OpChain says of contexts. An
operation that he aborts never arrives.

CompoundPromise is Compound with the history variable `given`, which remembers the result a
functor was posted with. A result has arrived (`Arrived`) when its functor has done with
it what it does: afterwards it only cancels the others and returns. What is sent to the
caller (`Told`) is what the functors of `add_cancel()` are given, or `"aborted"` if `abort()`
has closed `Joint` before; a `cancel()` or `abort()` of `Guard` that comes between these
functors and the caller's own continuation concerns `Guard` only and sends nothing here. So
the write of the counter that leaves operations to come (`StoreCounter`), the steps that pass a result to `Joint` (`SettleCounted`, `SettleEarly`)
and the caller's `cancel()` and `abort()` are steps of Promise; that functors are taken,
read the counter, cancel others and return, and that the caller aborts an operation, is
stuttering.

### Executor

A thread is a stack of frames. `Use` calls `schedule_execution()` or
`should_sync()`, `SetThisImpl` and `SetRegistry` are `set_impl()` before and after
it takes `reg_mutex`; `ScheduleExecution` finds the handler; `Handle` defers the
functor or, for a thread in `AtOnce`, turns into the functor in the same frame
and under the same guard; `RunDeferred` is the loop. What functors do beyond calls
to the executor is not part of this module. A call for an id without entry is the
asserted error of the code, so `Use` requires an entry. `DropDeferred` is for the
user of this module whose loops end.

### InlineChain

The contexts of OpChain with one thread and the executor that `lib/core/executor.hpp`
line 31 describes and `tests/util.cpp` line 218 installs: `[](auto&& f){ f(); }`. The
thread is a stack with a frame for each functor that is running. `PostNow` pushes the
frame; the context which posted remains as it is until the functor is at its end, and
`ReturnNow` is what the interrupted method does then (`m_pending = done_t{}`). In
between the functor is client code and calls anything (`InClientCode`), also contexts
that are further out on the stack. `HandleNow` keeps it from using the handle of a
`then()` that has not returned.

A functor that calls the very context which is delivering to it finds `m_pending`
undelivered, and so does one that completes an operation that such a context waits for
(`WaitsFor`), because the result is passed on in the same call. `MayCall` keeps clients
from both; `Reentrant` is the set of methods for which the model permits them, and
`abort()` is permitted always. With `Reentrant = {}` the refinement
`InlineImplementsOpChain` holds; its mapping shows a context on the stack as done and
a functor that has not begun to act as a posted one. Section 6 says what happens with
`Reentrant = {"cancel"}`.

### Timed

`timed_op(dur, f)` is `when_any(op(f), sleep(dur).then(...)).then(...)`, and `sleep` is
`add_cancel` over a timer. So this module is Compound with `N = 2`, in which the second
operation continues `SleepGuard`, which continues `Sleep`, the context that the handler
of the timer completes. Cancelling the loser therefore climbs (`CancelNext` of Compound
calls `Cancel` of OpChain, which finds `Sleep` or `SleepGuard` or the operation itself).

| model | code |
|---|---|
| `timer` | `steady_timer`: `"waiting"`; `"expired"` or `"stopped"` with its handler posted; `"over"` when the handler has run |
| `index` | `input.index()`: which alternative the variant of `when_any` holds |
| `Final` | the handle `timed_op` returns |
| `outcome`, `expired` | history: what the caller was told; whether the time is over |

`TimerHandler` is the handler of `asio::fy` with its error code, `StopTimer` the two
functors of the `add_cancel` in `sleep`, `TimerOp` the functor that turns a `sleep` into
a value, `TimedResult` the last functor. The caller may complete, cancel and abort its own
operation and cancel or abort `Final`, at any time the loop is not in a functor.

### EventLoop

Origins are threads that construct an `io_service`, bind it with `set_event_loop()`,
run it until it has no work, join their computations and destroy it, perhaps several
times; works are computations of `thread::fy`. Every call of the executor is made of
steps of Executor, with the functor that is passed in `passing`.

| model | code |
|---|---|
| `loop_of` | the map `registry` of `src_asio/evloop_asio.cpp` |
| `io[o]`, `alive`, `queue[l]`, `kept[l]` | the loop of a thread; which loops exist; what is posted to one; whether a timer or socket keeps it running |
| `phase[o]` | where the thread is; `"binding"` is the write to the map |
| `worker[w]`, `origin[w]` | the thread of a computation; `origin_id` |
| `pending[w]`, `outcome[w]` | `m_pending` of the context of `fy`; what its continuation got |

`PostToLoop` is the handler of `set_event_loop`: it looks the loop up when it runs, in the
thread that called `schedule_execution()`, with `reg_mutex` locked if that is the worker.
`Settle` is the functor the worker has posted; it completes the context in the thread of
origin, which posts the continuation. `Fy` stands for both overloads and for a functor or
a future; `Joins` says whether the program keeps the thread handle and joins. A context of
`fy` has no parent, so only its state is modelled here; the rest is OpChain.

## 3. Runs

Passing runs:

| run | instance | shows |
|---|---|---|
| `chain` | 4 contexts, value and error | delivery, order and silence after `abort()` in every program of one thread over 4 contexts |
| `threads` | 3 contexts, 2 threads | at every point inside the climbs of two threads: no deadlock; no mutex left locked; what a climb has read stays true; AsyContext implements OpChain, and so delivers, orders and silences as it does |
| `chain_live` | 4 contexts | everything settles, whatever is cancelled |
| `threads_live` | 3 contexts, 2 threads | everything settles and every `cancel()` returns |
| `compound` | 3 operations, 1 thread | it keeps its promise: what is passed on to `add_cancel()` is what the results decide by their order, at once; the counter; nothing left running; a deciding result is enough, and so are all results |
| `compound_threads` | 2 operations, 2 threads | what of this survives a shared loop |
| `executor` | 3 threads, 2 handlers, 3 nested calls | with own handlers the cache is never stale and nobody locks himself out |
| `inline` | 4 contexts, errors, 4 nested functors | an executor that invokes at once implements the deferring one; no context is entered twice |
| `timed` | an operation and a timer | `timed_op` always ends, reports nothing without reason, and leaves nothing waiting |
| `loops` | 2 threads with loops, 3 loops, 1 computation | no loop is used after its end; contexts stay in their thread; results arrive; joins end |

Runs that TLC has to find violated are in section 6.

*Why the bounds are enough.* Every property of contexts relates a context, its
parent and their callbacks, or two children of one parent. Four contexts hold a
chain of three with a sibling, and an outer operation with a returned one, its
temporary and a continuation; three hold a chain whose middle is climbed from
below while a thread completes or climbs from above, and two children that climb
to one parent. Two threads suffice for the races: each conflict is over one
mutex. What the proofs of section 5 cover does not depend on these bounds: in `chain`,
`threads`, `compound`, `compound_threads`, `executor`, `inline`, `timed` and `loops` they
are all safety properties.
For compound operations, three arguments distinguish first, middle and last in
the loops that skip the caller's own index, and two have every race on the
counter and on `Joint`. `compound` completes operations with values only, so that its
liveness check stays small; its failures are cancelled operations. Errors of other kinds
are in `compound_threads`, whose behaviours include those of one thread. In the executor
one thread has a handler that invokes at once, the others defer; depth three is a call
within a functor within a call. With two handlers a replaced one differs from its
replacement.

`DeliveredOnce`, `ResultDelivered`, `AbortSilences` and `ParentFirst` are checked in
`chain` only: for threads they are theorems (section 5), and the refinement that `threads`
checks carries them over.

In `inline` each nested functor belongs to an operation of its own, so that four
operations never reach the bound of four frames; the results are values and errors, which
is what selects a functor or its default continuation. In `timed` nothing is bounded:
two operations, one timer. `loops` has two threads that bind loops, so that the handler of
one may be looked up while the other binds, and three loops, so that one thread begins
again while the entry of its destroyed loop is still in the map; with one computation
there is nothing two computations add except waiting for `reg_mutex`, for which the other
origin stands in.

Symmetry is used for model values only and never with liveness.
`ImplementsOpChain` and `InlineImplementsOpChain` are safety refinements (no fairness),
for which it is sound: the refinement mappings are symmetric.

Deadlock is checked everywhere except in `threads_live`, whose client, which
cancels each handle once and creates at most three contexts, may have nothing left
to do, and in `loops`, where a program ends when each loop has been constructed once. In
the other modules client code can always make a call, so a deadlock would be one of
mutexes that stops every thread; that two threads block each other while a third can move
is excluded by `CallsReturn`, and by `JoinReturns` and `ResultArrives` in `loops`, for the
instances, and by the theorems `NoDeadlock` and `JoinsAreServed` for all.

*Mutants.* Definitions marked "Mutant" are changed copies of their neighbour, with a
slip one could make in the code: a dropped early return, a missing store, a
wrong order. Each property is violated when one of them takes the place of the
original; PROJECT.json has the pairs. They are not part of the specification.

## 4. Liveness and fairness

`OpChainLive` restricts the client by `WellBehaved`: one continuation per handle, no
`abort()`, a functor returns the handle of an operation without parent (so that
operations do not wait for themselves in a circle). Each of these is needed: without
it the library leaves an operation without result by design. Fairness is weak:

- the client completes what it keeps (`lib/core` documentation: the functor "must
  call one of the context methods"),
- the event loop runs each posted functor (`io.run()`),
- a thread in `cancel()` goes on when the mutex it waits for is free.

The last is weak fairness of the step, which is all one may assume of
`std::mutex`; it suffices because the client of `AsyContextLive` cancels each
handle at most once, so a mutex cannot be taken again and again ahead of a
waiting thread. In Compound functors run to their end and the loop is served;
nothing is assumed about the client, and therefore the two liveness properties
speak only of results that have already arrived. In `ReturnsAtLast` these are the results
of operations that were not aborted: one that was would never be counted.

In Timed the loop runs what is posted to it, functors run to their end, and time
passes: the timer expires unless it is stopped. Nothing is assumed about the caller,
whose operation may never finish; `TimedReturns` and `StoppedInTime` hold in spite of it.

In EventLoop computations end, an origin runs the functors of its loop, and one that has
joined its computations goes on. Fairness of the calls that wait for `reg_mutex` is weak
again; it suffices because a program of bounded length takes this mutex only so many times
ahead of a waiting thread. Nothing is assumed about
`io.run()` returning or other work of the loop ending, so `ResultArrives` says that the
result comes *or* the loop has returned before.

## 5. Proofs

Each theorem is `Spec => []P`, or that one specification implies another, for every value
of the constants that meets the assumptions named here and in the modules. The latter
say that null values such as `NoCtx` are not members of the sets, that `Returned` holds
results, in Compound that there is at least one operation and that the contexts of
the operations are in `Ctx`, and in Timed that there are two operations and one thread. Theorems are proved from an inductive invariant: `Init`
establishes it, every step keeps it, and it implies the property.

### Contexts: `OpChain_proofs`

`ChainInv` is inductive. The properties are not alone: that a result is delivered once
needs that whoever may complete a context does so after the operation it continues, and
that stored callbacks lead to a child of the context that stores them. `Linked` and
`Completable` add this. The proof shows that each critical section (`SettleStep`,
`SetContinuationStep`, `AttachStep` and the like) preserves the invariant, with its
preconditions, and then that each action meets the preconditions. `ChainTypeCorrect`,
`DeliveryCorrect` and `ChainOrder` follow.

### Contexts with threads and mutexes: `AsyContext_proofs`

`ContextInv` is `ChainInv` and `ClimbInv`, which says what a thread inside `cancel()` or
`abort()` knows: the context it is at has a handle; if it has looked at it, it owns it, and
it is unfinished and has the parent that was read; if it is about to close it, the context
it continues is done. The critical sections are covered by the lemmas of `OpChain_proofs`,
so only the climbs are new. `TypeCorrect`, `ThreadsDeliverOnce`, `ThreadsKeepOrder`.

`PathsInv` adds what a climb leaves behind: the mutexes a thread owns are the contexts of
one path from where it began to the parent of the last. `ClimbsReadNothingStale` and
`LocksReleased` need it, because the mutexes are released from the other end, one by one.

`NoDeadlock`: a thread in a climb waits for the mutex of a parent while it owns those of
children, and the parent may be owned by a thread that came from another child. Among any
threads there is one that does not wait for a mutex of these threads (itself included,
since `std::mutex` is not recursive). The argument is the order of locks: by
`ClimbedStaysOpen` the parent of each context that a waiting thread owns is owned by it or
is what it waits for, so threads that wait in a circle would own a set of contexts which
contains the parent of each member. `ParentsAreAcyclic` says that there is no such set; it
is kept because a context gets its parent when it is constructed and nothing has been linked
to it yet. `CallsGoOn` follows with `NoLockLeak`: while threads are in `cancel()` or
`abort()`, one of them needs no locked mutex for its next step. These two are formulas of
this module, not properties of a run; what they say of the instance of `threads` is in the
runs' deadlock check and in `CallsReturn`.

`LockedContextsAreAtomic` is the refinement `ImplementsOpChain`: `cancel()` takes effect in
its last step and `abort()` in the step in which it meets the end of the chain, and the
others, also those in which it closes one context after the other, are stuttering steps.

### Immediate invocation: `InlineChain_proofs`

`InlineTypes` holds for every `Reentrant`. The other theorems are about
`Reentrant = {}`, that is about clients whose functors do not call `async_return()`,
`then()` or `cancel()` on a context that is delivering, or that finishing would complete
one. This is what `MayCall` says; section 6 shows that both halves are needed.

`InlineInv`: the order in which operations wait for each other, `Awaits`, has no cycle,
and the contexts on the stack are entered along it (`Stacked`): none waits for one that was
entered later. `Awaits` is a closure (through parents and returned operations), and the
proofs argue with closed sets instead of paths. With that no context is entered twice
(`NoneIsReentered`), although it is not done while its functor runs, and none invokes two
functors (`NoneIsInvokedTwice`).

`DeferredInv` adds two facts for the refinement `InlineIsDeferred`: a context whose functor
kept it is in `held` (`KeptHeld`), and contexts are attached when they are constructed, so
that descending from child to child ends (`Rooted`: in no non-empty set of contexts does each
have a child in the set). The second is for `abort()` of a context that is delivering: it
closes only contexts that deliver as well, and so does nothing that a deferring executor
would show. The mapping shows a context on the stack as done and a functor that has not
begun to act as a posted one, so that invoking a functor is a step that posts, and beginning
to act is the loop that runs it.

### Executor and event loops: `Executor_proofs`, `EventLoop_proofs`

`CallInv` describes a thread's stack of calls: only functors have frames above them, a
`lock_guard` belongs to the owner of `reg_mutex`, which has locked it in exactly one of its
calls. `ExecutorTypeOK` (with "a handler that is called exists") and `MutexOwnedInCall`
follow for every program. `OwnInv` adds, for `OwnHandlers` (set_impl() is called for the
calling thread only, as everywhere in the repository), that outside of `set_impl()` the
thread-local and the registry agree, so that `schedule_execution()` locks for the
handler of another thread only: `HandlerStaysCurrent`, `NeverRelocks`, at any depth.

`LoopImplementsExecutor` is `LoopSpec => Spec` of Executor, and `CallInv` is used in the
proof of the loops. `LoopInv` relates the phase of an origin, its loop, the map entry it has
left behind and the computations that refer to it. `ContextsConfined` needs that a passed
functor belongs to the thread that the call is for. `LoopOutlives` and `MapIsNotRaced` assume
`Joins` (the program joins the threads of its computations), `MapIsNotRaced` in the form
`NoMapRace` has, for one event loop thread.

In Executor a call requires a registered handler, where the code only asserts one, so a call
without handler would go unnoticed as a step that does not happen. `AssertionHolds` says that
there is none: whenever a loop, its client code or a computation is about to call the
executor, the thread it calls for has a handler. `HandlerInv` says why: `set_event_loop()`
returns after it has registered one, entries are not removed, and a computation starts in a
thread which is past that point. `JoinsAreServed` is the absence of a circular wait in
`join()`, for every number of origins and computations: a computation that is not over can
take its next step, or waits for `reg_mutex` and its owner is in a handler (`KindsInv`: it is
kept locked nowhere else), which posts and returns without needing anything that an origin
holds.

### Compound operations: `Compound_proofs`

For any number of operations and threads: `CompoundInv` has the contexts and their links,
what each thread is doing, that each functor is posted, taken and run once, and
- `CountInv`: the counter, and each value of it that a thread has read, is at least the
  number of results that are not counted. Threads may lose decrements; then the counter is
  too high, never too low. So whoever finds zero has all results: `SuccessIsComplete`;
- `StopInv`: once `Joint` has a result, either every operation has one, or a functor that
  will cancel those that have none is running or posted: `NoneIsLeftRunning`;
- `ChainInv`, since every step keeps it: `CompoundDelivers`, that is the properties of
  OpChain for the contexts of a compound operation.

For one thread (`OneThread`) and any number of operations: `ReturnInv` (the counter is
exact) gives `AllReturn`; `FirstInv` (no functor runs before `add_cancel()` watches `Joint`,
and while its callbacks wait there has been no result) gives `FirstResultWins`. For two
threads the first is lost with a decrement, and the second is the run `race_overwritten`.

`CompoundPromise_proofs` has the refinement, `CompoundKeepsPromise`, also for one thread. To
these invariants `PromiseInv` adds what has been made of the results: each functor has its
own; those that have arrived and count are stored; the first that has arrived and does not
count has finished `Joint`. The critical step is the one in which the counter reaches zero:
that all others have arrived then follows from `CountInv` (nothing is left to count) and
`PromiseInv` (nobody else is between storing and counting); that the counter is zero with
the last of them, from `ReturnInv`. With two threads the refinement fails where `AllReturn`
and `FirstResultWins` do.

### Timers: `Timed_proofs`

Contexts and the one thread are fixed by the code; what the theorems add to the run is every
set of results and the reason why it works. `TimedInv` is inductive:
- `TreeInv`: each context continues the one that `Above` names, from its construction on, so
  there are three lines (the operation, the timer's operation, the joint one), and what can be
  cancelled or aborted at once lies within one of them (`OpenLine`). A context that is
  continued keeps no result, it passes it on;
- `SetupInv`: until the caller has his handle nothing happens but that his operation leaves a
  result and that the time passes. This is where the order of the calls in `when_any` and
  `timed_op` matters;
- `WordInv`: every result in flight is `Justified`: a success of the timer's operation only
  after the time, a cancellation only if the caller asked or there is a first result, and what
  goes to the caller is the first result, or his own cancellation. `ResultInv` has the same for
  the results that have arrived, and says that `index` belongs to the first one;
- `TimerInv`: while the timer waits nobody has been told that the sleep is over, unless the
  functor that will stop the timer is posted;
- `HaltInv`: once `Joint` has delivered, both operations are finished or (the timer's) on its
  way, or a functor is running or posted that will cancel them.

`OutcomesJustified` is part of `ResultInv`. `NothingWaits` follows from `HaltInv` when the loop
is empty: nobody is left to cancel, so `Sleep` is done, and by `TimerInv` and `ResultDelivered`
so is all that continues it, and the timer is over. The lines are linked by `ChainInv`, so
`TimedDelivers` holds of them.

### Only model-checked

- Liveness (`EverythingSettles`, `CallsReturn`, `DecidesEarly`, `ReturnsAtLast`,
  `TimedReturns`, `StoppedInTime`, `ResultArrives`, `JoinReturns`): the prover has no rule
  for fairness and ENABLED. What is proved of them is the part that is an invariant: nobody
  waits in a circle (`NoDeadlock`, `JoinsAreServed`), and when nothing is left to run, nothing
  is left to do (`NoneIsLeftRunning`, `NothingWaits`).

The other property without a theorem is `AbortPreventsInvocation` of section 6, which does not
hold.

## 6. Where the code does something else

Each of these is a run that states the sentence of a document, comment or test and
that TLC refutes; PROJECT.json quotes them.

| run | property | what happens |
|---|---|---|
| `abort_too_late` | `AbortPreventsInvocation` | a functor that is already posted runs after `abort()` of its operation |
| `race_overwritten` | `FirstWins` | two threads: the failure of a cancelled loser replaces the winner's stored result before `add_cancel()` has continued the joint operation |

These effects are visible in the modules too, without a run of their own:

- A cancellation can be lost. Between `is_done()` and `cancel()` of the parent
  (`basic_context.hpp` line 167) another thread may deliver the parent's result; nothing
  is cancelled then although the operation is unfinished (`CancelIsDone`, `CancelEnter`).
- A second `then()` on an unfinished operation replaces the callbacks of the first, whose
  operation then never gets a result (`SetContinuation`).
- A result that comes after `cancel()` and before a continuation replaces the stored
  cancellation (`Settle`; `docs/library/core.md` line 31 says that future continuations
  get the failure).
- `when_all()` and `when_success()` wait for ever for an operation whose own handle was
  aborted: it calls neither functor and is not counted (`ReturnsAtLast` without its condition
  `Op(i) \notin aborted` is violated).
- With two threads `--(*counter)` can lose a decrement, and `when_all()` never returns
  (`WhenAllReturns` with the constants of `compound_threads`). It is undefined behaviour
  there; the model shows the mildest outcome.
- `set_impl()` for another thread does not reach the handler which that thread has
  cached, and a thread without cached handler runs its own under `reg_mutex`: with
  `OwnHandlers = FALSE`, `HandlerIsCurrent` and `NoRelock` are violated.
- Under an executor that invokes at once, a functor that calls `cancel()` on the handle of
  the operation it continues, while that operation is delivering to it, gets the failure
  continuation invoked as well: `DeliveredOnce` fails in InlineChain with
  `Reentrant = {"cancel"}`. `executor.hpp` line 31 says that immediate invocation is
  expected.
- Under the same executor it is not enough that functors leave the delivering context
  alone. Let the functor of `c = then(p)` return the operation `i`, and let `c` have a
  continuation `d`. Client code cancels `c` before `i` has a result: `d` is invoked in
  `cancel()`, with `c` not yet done. If `d` now completes `i`, the temporary operation
  passes that result to `c`, which invokes `d` a second time. This takes five contexts, one
  more than the run `inline` has; it came up in the proof of `NoneIsReentered`, and
  `MayCall` excludes it.
- `io.run()` does not know of computations in other threads. It returns when nothing
  else keeps it, and the result of `thread::fy` is lost (`ResultArrives` ends in
  `"returned"` then).
- A program that does not join destroys the loop under the worker: with `Joins = FALSE`,
  `LoopOutlivesPosts` is violated. The overload with a thread handle exists for that
  (`docs/library/thread.md`).
- With two event loop threads one of them writes to the map of loops while the worker of
  the other reads it. `NoMapRace` is stated for one such thread, as `docs/library/asio.md`
  expects; `docs/library/core.md` line 62 speaks of several event loops.

`race_overwritten` and the lost decrement assume an executor that runs functors of one
chain on several threads, as the load-balance test of `tests/asio.cpp` sets it up.

## 7. What is not modelled

- InlineChain together with threads: functors invoked at once while another thread waits
  for the mutex of the context that is delivering. InlineChain has no mutexes: with
  `require_sync` a functor that calls `abort()` on the context which is delivering to it
  would lock `m_mutex` twice.
- Threads with and without `require_sync` that share contexts: a data race by design.
- Compound operations of Compound operations, beyond the one `timed_op` is made of.
- A new thread that gets the id of an ended one, and with it its entries in the maps.
- Exceptions of the functor of `thread::fy`, which end the program.
- Sockets and the other asynchronous methods of Asio: to the library they are a handler
  that is called once, as the one of the timer.
- Types: overload selection, the concepts, the value-or-error traits. Payloads are
  told apart only as far as a property needs.
- Lifetimes of contexts (shared pointers); a context nobody can reach has no effect.
- Compound operations over an empty argument list.

## 8. Plan

Done: the modules of section 2 and the proofs of section 5. What one would add next is
InlineChain together with the mutexes of AsyContext (section 7), which needs a stack in each
thread of AsyContext.
