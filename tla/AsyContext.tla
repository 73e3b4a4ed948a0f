----------------------------- MODULE AsyContext -----------------------------
(***************************************************************************)
(* The contexts of OpChain shared by threads.  Each method of a context    *)
(* locks its m_mutex.  cancel() and abort() climb m_parent and keep the    *)
(* mutex of every context they leave behind locked until they return, so   *)
(* they are split here where a mutex is taken; a critical section that     *)
(* takes no further mutex is one step, enabled while the mutex is free.    *)
(* Threads is one thread, or threads that all registered an executor with  *)
(* require_sync.                                                           *)
(***************************************************************************)
EXTENDS OpChain

CONSTANTS Threads,   \* the threads that run client code and posted functors
          NoThread   \* the owner of a free mutex

ASSUME NullThreadAssumption == NoThread \notin Threads

VARIABLES
    lock,  \* lock[c]: the thread that owns m_mutex of c
    op,    \* op[t]: the handle method thread t is in
    at,    \* at[t]: the context this method has reached
    pc     \* pc[t]: what this method does next

climbVars == <<lock, op, at, pc>>
vars      == <<chainVars, climbVars>>

Free(c)  == lock[c] = NoThread
Idle(t)  == pc[t] = "idle"
Owned(t) == {c \in Ctx : lock[c] = t}

TypeOK ==
    /\ ChainTypeOK
    /\ lock \in [Ctx -> Threads \cup {NoThread}]
    /\ op   \in [Threads -> {"none", "cancel", "abort"}]
    /\ at   \in [Threads -> Ctx \cup {NoCtx}]
    /\ pc   \in [Threads -> {"idle", "enter", "is_done", "close"}]

Init ==
    /\ ChainInit
    /\ lock = [c \in Ctx |-> NoThread]
    /\ op   = [t \in Threads |-> "none"]
    /\ at   = [t \in Threads |-> NoCtx]
    /\ pc   = [t \in Threads |-> "idle"]
-----------------------------------------------------------------------------
(* cancel() and abort() climb the chain.                                   *)

\* cancel() or abort() on the handle of c, called by t.
Call(t, method, c) ==
    /\ Handle(c)
    /\ op' = [op EXCEPT ![t] = method]
    /\ at' = [at EXCEPT ![t] = c]
    /\ pc' = [pc EXCEPT ![t] = "enter"]
    /\ UNCHANGED <<chainVars, lock>>

Goto(t, c, label) ==
    /\ at' = [at EXCEPT ![t] = c]
    /\ pc' = [pc EXCEPT ![t] = label]
    /\ UNCHANGED op

\* t leaves the method it was in.
Leave(t) ==
    /\ op' = [op EXCEPT ![t] = "none"]
    /\ at' = [at EXCEPT ![t] = NoCtx]
    /\ pc' = [pc EXCEPT ![t] = "idle"]

\* Mutant: only the innermost call unlocks its mutex.
ReleaseInnermost(t) == lock' = [lock EXCEPT ![at[t]] = IF @ = t THEN NoThread ELSE @]

\* All recursive calls of cancel() return, each unlocking its mutex.
ReleaseAll(t) == lock' = [c \in Ctx |-> IF lock[c] = t THEN NoThread ELSE lock[c]]

CancelAt(t, x) ==
    /\ Settle(x, "canceled", m_pending, tasks)
    /\ ReleaseAll(t)
    /\ Leave(t)

\* cancel() locks the context.  Done(x) is its early return: Settle does nothing.
CancelEnter(t) ==
    LET x == at[t]
    IN  /\ op[t] = "cancel"
        /\ pc[t] = "enter"
        /\ Free(x)
        /\ \/ /\ Parent(x) = NoCtx
              /\ CancelAt(t, x)
           \/ /\ Parent(x) # NoCtx
              /\ lock' = [lock EXCEPT ![x] = t]
              /\ Goto(t, x, "is_done")
              /\ UNCHANGED <<m_pending, tasks, posts>>
        /\ UNCHANGED <<held, aborted, pairVars>>

\* is_done() locks and unlocks the parent; cancel() of an unfinished parent locks
\* it again, later.
CancelIsDone(t) ==
    LET x == at[t]
    IN  /\ op[t] = "cancel"
        /\ pc[t] = "is_done"
        /\ Free(Parent(x))
        /\ \/ /\ Done(Parent(x))
              /\ CancelAt(t, x)
           \/ /\ ~Done(Parent(x))
              /\ Goto(t, Parent(x), "enter")
              /\ UNCHANGED <<m_pending, tasks, posts, lock>>
        /\ UNCHANGED <<held, aborted, pairVars>>

\* abort() locks the context, done or not.
AbortEnter(t) ==
    LET x == at[t]
    IN  /\ op[t] = "abort"
        /\ pc[t] = "enter"
        /\ Free(x)
        /\ lock' = [lock EXCEPT ![x] = t]
        /\ Goto(t, x, IF Parent(x) = NoCtx THEN "close" ELSE "is_done")
        /\ UNCHANGED chainVars

AbortIsDone(t) ==
    LET x == at[t]
    IN  /\ op[t] = "abort"
        /\ pc[t] = "is_done"
        /\ Free(Parent(x))
        /\ IF Done(Parent(x)) THEN Goto(t, x, "close") ELSE Goto(t, Parent(x), "enter")
        /\ UNCHANGED <<chainVars, lock>>

\* Mutant: abort() unlocks a parent's mutex and returns, the child stays open.
AbortOldestOnly(t) ==
    LET x == at[t]
    IN  /\ op[t] = "abort"
        /\ pc[t] = "close"
        /\ m_pending' = [m_pending EXCEPT ![x] = "done"]
        /\ aborted' = IF Done(x) THEN aborted ELSE aborted \cup {x}
        /\ lock' = [c \in Ctx |-> IF lock[c] = t THEN NoThread ELSE lock[c]]
        /\ Leave(t)
        /\ UNCHANGED <<held, tasks, posts, pairVars>>

\* The context is done and its mutex unlocked; the abort() of the child that called
\* this one goes on.
AbortClose(t) ==
    LET x == at[t]
        Callers == {y \in Owned(t) \ {x} : m_parent[y] = x}
    IN  /\ op[t] = "abort"
        /\ pc[t] = "close"
        /\ m_pending' = [m_pending EXCEPT ![x] = "done"]
        /\ aborted' = IF Done(x) THEN aborted ELSE aborted \cup {x}
        /\ lock' = [lock EXCEPT ![x] = NoThread]
        /\ \/ /\ Callers = {}
              /\ Leave(t)
           \/ \E y \in Callers : Goto(t, y, "close")
        /\ UNCHANGED <<held, tasks, posts, pairVars>>
-----------------------------------------------------------------------------
(* The other methods lock one mutex: the context they work on.             *)

\* Mutant: async_return() without synchronize().
UnlockedClientCode ==
    \/ \E c \in Ctx : NewOp(c)
    \/ \E x, c \in Ctx, k \in {"then", "then_both", "on_failure"} :
         Free(x) /\ Then(x, c, k)
    \/ \E c \in Ctx, r \in Returned : AsyncReturn(c, r)

LockedClientCode ==
    \/ \E c \in Ctx : NewOp(c)
    \/ \E x, c \in Ctx, k \in {"then", "then_both", "on_failure"} :
         Free(x) /\ Then(x, c, k)
    \/ \E c \in Ctx, r \in Returned : Free(c) /\ AsyncReturn(c, r)

LockedRunTask(task) ==
    \/ Free(task.child) /\ RunDefault(task)
    \/ Free(task.child) /\ RunSimple(task)
    \/ \E r \in Returned : Free(task.child) /\ RunValueOrError(task, r)
    \/ RunAsync(task)
    \/ Free(task.child) /\ RunCaught(task)
    \/ \E i, j \in Ctx : Free(i) /\ RunARet(task, i, j)
    \/ RunForward(task) /\ Free(outer[task.child])

Climb(t) ==
    \/ CancelEnter(t)
    \/ CancelIsDone(t)
    \/ AbortEnter(t)
    \/ AbortIsDone(t)
    \/ AbortClose(t)

\* A thread that is in no handle method runs client code or a posted functor.
Next ==
    \E t \in Threads :
        \/ /\ Idle(t)
           /\ \/ LockedClientCode
              \/ \E task \in tasks : LockedRunTask(task)
           /\ UNCHANGED climbVars
        \/ /\ Idle(t)
           /\ \E method \in {"cancel", "abort"}, c \in Ctx : Call(t, method, c)
        \/ Climb(t)

Spec == Init /\ [][Next]_vars
-----------------------------------------------------------------------------
(* Properties.                                                             *)

\* While a thread climbs, every context it keeps locked is as it read it: not
\* done, and with the parent it went to.  What cancel() checked under the mutex is
\* not stale when it acts after the recursive call.
ClimbedStaysOpen ==
    \A t \in Threads : pc[t] \in {"enter", "is_done"} =>
        \A c \in Owned(t) :
            /\ ~Done(c)
            /\ m_parent[c] # NoCtx
            /\ \/ c = at[t] /\ pc[t] = "is_done"
               \/ m_parent[c] \in Owned(t)
               \/ m_parent[c] = at[t] /\ pc[t] = "enter"

\* Every mutex is released again: a thread outside of cancel() and abort() owns
\* none, on every way through their early returns.
NoLockLeak == \A t \in Threads : Idle(t) => Owned(t) = {}

\* abort() takes effect when it starts to close contexts: those it has still to
\* close are locked, and nobody can tell them from closed ones.
Closing == {c \in Ctx : lock[c] # NoThread /\ pc[lock[c]] = "close"}

\* (The comparison only has TLC tabulate the function, which a step may update twice.)
AtomicPending ==
    LET closed == [c \in Ctx |-> IF c \in Closing THEN "done" ELSE m_pending[c]]
    IN  IF closed = m_pending THEN m_pending ELSE closed

Atomic == INSTANCE OpChain WITH
    m_pending <- AtomicPending,
    aborted   <- aborted \cup {c \in Closing : ~Done(c)}

\* The handle methods are linearizable: with any number of threads, each cancel()
\* that is not lost fails exactly the oldest unfinished operation of its chain, and
\* each abort() closes the whole unfinished chain at once.
ImplementsOpChain == Atomic!ChainSpec
-----------------------------------------------------------------------------
(* The inductive invariant.                                                *)

\* A climb is on contexts that have handles; it owns the context it is to leave or
\* to close, and nobody else changes this context meanwhile.
ClimbInv ==
    /\ \A c \in Ctx : ~Free(c) => Handle(c)
    /\ \A t \in Threads :
         /\ ~Idle(t) => (at[t] \in Ctx /\ Handle(at[t]))
         /\ pc[t] \in {"is_done", "close"} => lock[at[t]] = t
         /\ pc[t] = "is_done" => (~Done(at[t]) /\ m_parent[at[t]] # NoCtx)
         /\ pc[t] = "close" => Ready(at[t])

ContextInv == TypeOK /\ ChainInv /\ ClimbInv
=============================================================================
