------------------------------ MODULE Executor ------------------------------
(***************************************************************************)
(* The global executor: a handler for every thread, kept in a registry     *)
(* behind reg_mutex and, for the thread that set its own, in the           *)
(* thread-local this_impl.  A handler defers the functor it is given to    *)
(* the loop of its thread, or invokes it at once.  A functor is client     *)
(* code and context code, which call the executor again: calls nest, so a  *)
(* thread is a stack of frames, the innermost one at the end.              *)
(***************************************************************************)
EXTENDS Naturals, SequencesExt

CONSTANTS Threads,
          NoThread,     \* the owner of a free reg_mutex
          Impls,        \* handlers
          AtOnce,       \* the threads whose handlers invoke a functor in the call itself
          NoImpl,       \* no entry in the registry, no value in this_impl
          OwnHandlers,  \* TRUE: set_impl() is only called for the calling thread
          MaxDepth      \* bound: nested calls of one thread

ASSUME AtOnceAssumption == AtOnce \subseteq Threads
ASSUME NullAssumption  == NoThread \notin Threads /\ NoImpl \notin Impls
ASSUME DepthAssumption == MaxDepth \in Nat

VARIABLES
    registry,   \* registry[id]
    this_impl,  \* this_impl[t], the thread-local of t
    reg_mutex,  \* the owner of reg_mutex
    stack,      \* stack[t]: the frames of t
    waiting     \* the threads whose loop has deferred functors to run

vars == <<registry, this_impl, reg_mutex, stack, waiting>>

Methods == {"schedule_execution", "should_sync", "set_impl"}
Frames  == [at : Methods \cup {"handler", "functor"}, id : Threads,
            impl : Impls \cup {NoImpl}, guard : BOOLEAN]

Frame(at, id, impl, guard) == [at |-> at, id |-> id, impl |-> impl, guard |-> guard]
In(t, at)  == stack[t] # <<>> /\ Last(stack[t]).at = at
Push(t, f) == stack' = [stack EXCEPT ![t] = Append(@, f)]
Pop(t)     == stack' = [stack EXCEPT ![t] = Front(@)]
Replace(t, f) == stack' = [stack EXCEPT ![t] = Append(Front(@), f)]

TypeOK ==
    /\ registry  \in [Threads -> Impls \cup {NoImpl}]
    /\ this_impl \in [Threads -> Impls \cup {NoImpl}]
    /\ reg_mutex \in Threads \cup {NoThread}
    /\ \A t \in Threads :
         /\ Range(stack[t]) \subseteq Frames
         /\ In(t, "handler") => Last(stack[t]).impl # NoImpl
    /\ waiting   \subseteq Threads

Init ==
    /\ registry  = [t \in Threads |-> NoImpl]
    /\ this_impl = [t \in Threads |-> NoImpl]
    /\ reg_mutex = NoThread
    /\ stack     = [t \in Threads |-> <<>>]
    /\ waiting   = {}
-----------------------------------------------------------------------------
(* Client code and functors call the executor.                             *)

RunsClientCode(t) == stack[t] = <<>> \/ In(t, "functor")

\* The handler that a call of t for id finds.
Cached(t, id) == id = t /\ this_impl[t] # NoImpl

\* Mutant: without the assertion that id is registered.
UseUnregistered(t, method, id) ==
    /\ RunsClientCode(t)
    /\ Len(stack[t]) < MaxDepth
    /\ (method = "schedule_execution" /\ id # t) => id \notin AtOnce
    /\ Push(t, Frame(method, id, NoImpl, FALSE))
    /\ UNCHANGED <<registry, this_impl, reg_mutex, waiting>>

\* schedule_execution() and should_sync() of an id that has a handler; a handler that
\* invokes the functor at once does so on its own thread only.
Use(t, method, id) ==
    /\ RunsClientCode(t)
    /\ Len(stack[t]) < MaxDepth
    /\ registry[id] # NoImpl
    /\ (method = "schedule_execution" /\ id # t) => id \notin AtOnce
    /\ Push(t, Frame(method, id, NoImpl, FALSE))
    /\ UNCHANGED <<registry, this_impl, reg_mutex, waiting>>

\* set_impl(), up to the lock.
SetThisImpl(t, id, impl) ==
    /\ RunsClientCode(t)
    /\ Len(stack[t]) < MaxDepth
    /\ OwnHandlers => id = t
    /\ this_impl' = IF id = t THEN [this_impl EXCEPT ![t] = impl] ELSE this_impl
    /\ Push(t, Frame("set_impl", id, impl, FALSE))
    /\ UNCHANGED <<registry, reg_mutex, waiting>>

\* Mutant: registry.emplace() for registry[id] =.
SetRegistryOnce(t) ==
    /\ In(t, "set_impl")
    /\ reg_mutex = NoThread
    /\ LET f == Last(stack[t])
       IN  registry' = [registry EXCEPT ![f.id] = IF @ = NoImpl THEN f.impl ELSE @]
    /\ Pop(t)
    /\ UNCHANGED <<this_impl, reg_mutex, waiting>>

\* Mutant: a lock that nobody releases.
SetRegistryLocked(t) ==
    /\ In(t, "set_impl")
    /\ reg_mutex = NoThread
    /\ LET f == Last(stack[t]) IN registry' = [registry EXCEPT ![f.id] = f.impl]
    /\ Pop(t)
    /\ reg_mutex' = t
    /\ UNCHANGED <<this_impl, waiting>>

\* The rest of set_impl().
SetRegistry(t) ==
    /\ In(t, "set_impl")
    /\ reg_mutex = NoThread
    /\ LET f == Last(stack[t]) IN registry' = [registry EXCEPT ![f.id] = f.impl]
    /\ Pop(t)
    /\ UNCHANGED <<this_impl, reg_mutex, waiting>>

ShouldSync(t) ==
    /\ In(t, "should_sync")
    /\ Cached(t, Last(stack[t]).id) \/ reg_mutex = NoThread
    /\ Pop(t)
    /\ UNCHANGED <<registry, this_impl, reg_mutex, waiting>>

\* Mutant: this_impl is not used.
ScheduleLocked(t) ==
    /\ In(t, "schedule_execution")
    /\ reg_mutex = NoThread
    /\ reg_mutex' = t
    /\ LET id == Last(stack[t]).id IN Replace(t, Frame("handler", id, registry[id], TRUE))
    /\ UNCHANGED <<registry, this_impl, waiting>>

\* The handler of this thread is called without reg_mutex, any other one under it.
ScheduleExecution(t) ==
    /\ In(t, "schedule_execution")
    /\ LET id == Last(stack[t]).id
       IN  \/ /\ Cached(t, id)
              /\ Replace(t, Frame("handler", id, this_impl[t], FALSE))
              /\ UNCHANGED reg_mutex
           \/ /\ ~Cached(t, id)
              /\ reg_mutex = NoThread
              /\ reg_mutex' = t
              /\ Replace(t, Frame("handler", id, registry[id], TRUE))
    /\ UNCHANGED <<registry, this_impl, waiting>>

\* Mutant: a lock without lock_guard.
ReturnLocked(t) ==
    /\ Pop(t)
    /\ UNCHANGED reg_mutex

\* The frame is left, and with it the lock_guard it holds.
Return(t) ==
    /\ Pop(t)
    /\ reg_mutex' = IF Last(stack[t]).guard THEN NoThread ELSE reg_mutex

\* The handler posts the functor to its loop, or invokes it in this very call.
Handle(t) ==
    /\ In(t, "handler")
    /\ LET f == Last(stack[t])
       IN  \/ /\ f.id \notin AtOnce
              /\ waiting' = waiting \cup {f.id}
              /\ Return(t)
           \/ /\ f.id \in AtOnce
              /\ Replace(t, Frame("functor", f.id, f.impl, f.guard))
              /\ UNCHANGED <<waiting, reg_mutex>>
    /\ UNCHANGED <<registry, this_impl>>

\* The loop of t runs a deferred functor, perhaps the last one.
RunDeferred(t) ==
    /\ stack[t] = <<>>
    /\ t \in waiting
    /\ waiting' \in {waiting, waiting \ {t}}
    /\ Push(t, Frame("functor", t, NoImpl, FALSE))
    /\ UNCHANGED <<registry, this_impl, reg_mutex>>

\* The loop of t is destroyed with functors that it has not run.
DropDeferred(t) ==
    /\ stack[t] = <<>>
    /\ t \in waiting
    /\ waiting' = waiting \ {t}
    /\ UNCHANGED <<registry, this_impl, reg_mutex, stack>>

FunctorReturns(t) ==
    /\ In(t, "functor")
    /\ Return(t)
    /\ UNCHANGED <<registry, this_impl, waiting>>

Next ==
    \E t \in Threads :
        \/ \E method \in {"schedule_execution", "should_sync"}, id \in Threads :
             Use(t, method, id)
        \/ \E id \in Threads, impl \in Impls : SetThisImpl(t, id, impl)
        \/ SetRegistry(t)
        \/ ShouldSync(t)
        \/ ScheduleExecution(t)
        \/ Handle(t)
        \/ RunDeferred(t)
        \/ DropDeferred(t)
        \/ FunctorReturns(t)

Spec == Init /\ [][Next]_vars
-----------------------------------------------------------------------------
(* Properties.                                                             *)

\* The handler which was set last for a thread is the one in use, whichever thread
\* asks: outside of its own set_impl() no thread has a stale one.
HandlerIsCurrent ==
    \A t \in Threads :
        (this_impl[t] # NoImpl /\ \A f \in Range(stack[t]) : f.at # "set_impl")
            => this_impl[t] = registry[t]

\* No thread waits for the reg_mutex that it owns itself: not even a functor that a
\* handler invokes at once calls the executor while schedule_execution() has it locked.
NoRelock ==
    \A t \in Threads :
        reg_mutex = t =>
            /\ ~In(t, "set_impl")
            /\ ~(In(t, "should_sync") \/ In(t, "schedule_execution"))
                 \/ Cached(t, Last(stack[t]).id)

\* reg_mutex is owned exactly while a call that has locked it is active.
OwnedInCall ==
    \A t \in Threads :
        reg_mutex = t <=> \E f \in Range(stack[t]) : f.guard
=============================================================================
