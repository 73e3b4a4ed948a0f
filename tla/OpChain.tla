------------------------------- MODULE OpChain ------------------------------
(***************************************************************************)
(* Operation contexts (basic_context), the handles that link them into     *)
(* chains (basic_op_handle), and the functors the executor runs for them,  *)
(* with every method atomic: the sequential meaning of the library, which  *)
(* a program with one thread sees.                                         *)
(*                                                                         *)
(* A context holds, in m_pending, nothing, the callbacks of its            *)
(* continuation, an undelivered result, or the mark that it is done.       *)
(* then() makes a child context, points its m_parent to the context it     *)
(* continues, and stores callbacks that complete the child.  A result that *)
(* meets callbacks is posted to the executor, which runs it later.  The    *)
(* executor of this module defers a functor, as the Asio event loop does.  *)
(***************************************************************************)
EXTENDS Naturals, FiniteSets

CONSTANTS Ctx,      \* the contexts that client code may create
          NoCtx,    \* a null m_parent
          Returned  \* the results that client code completes contexts with

ASSUME NullCtxAssumption  == NoCtx \notin Ctx
ASSUME ReturnedAssumption == Returned \subseteq {"value", "error"}

VARIABLES
    m_pending, \* m_pending[c]: the variant of c, "unborn" before c is constructed
    callee,    \* callee[c]: the context completed by the callbacks c stores
    m_parent,  \* m_parent[c]: the context c continues; reset when c is done, see Parent
    kind,      \* kind[c]: which member function attached c to its parent
    outer,     \* outer[c]: the context a "forward" c passes its result to
    held,      \* contexts whose shared_ptr client code holds
    tasks,     \* functors waiting in the executor: a callee and its result
    posts,     \* history: how often callbacks that complete c have been posted
    aborted    \* history: contexts that abort() closed before they were done

pairVars  == <<callee, m_parent, kind, outer>>
chainVars == <<m_pending, held, tasks, posts, aborted, pairVars>>

Results == {"value", "error", "canceled"}
Kinds   == {"root", "then", "then_both", "on_failure", "forward"}
Tasks   == [child : Ctx, result : Results]

Born(c) == m_pending[c] # "unborn"
Done(c) == m_pending[c] = "done"
\* The handle of a "forward" context is a temporary that nobody keeps.
Handle(c) == Born(c) /\ kind[c] # "forward"
\* m_parent.reset() follows every m_pending = done_t{}, in the same critical section.
Parent(c) == IF Done(c) THEN NoCtx ELSE m_parent[c]

ChainTypeOK ==
    /\ m_pending \in [Ctx -> {"unborn", "empty", "callbacks", "done"} \cup Results]
    /\ callee    \in [Ctx -> Ctx \cup {NoCtx}]
    /\ m_parent  \in [Ctx -> Ctx \cup {NoCtx}]
    /\ kind      \in [Ctx -> Kinds]
    /\ outer     \in [Ctx -> Ctx \cup {NoCtx}]
    /\ held      \in SUBSET Ctx
    /\ tasks     \in SUBSET Tasks
    /\ posts     \in [Ctx -> Nat]
    /\ aborted   \in SUBSET Ctx

ChainInit ==
    /\ m_pending = [c \in Ctx |-> "unborn"]
    /\ callee    = [c \in Ctx |-> NoCtx]
    /\ m_parent  = [c \in Ctx |-> NoCtx]
    /\ kind      = [c \in Ctx |-> "root"]
    /\ outer     = [c \in Ctx |-> NoCtx]
    /\ held      = {}
    /\ tasks     = {}
    /\ posts     = [c \in Ctx |-> 0]
    /\ aborted   = {}
-----------------------------------------------------------------------------
(* The critical sections of basic_context.  pend and queue are m_pending   *)
(* and tasks as the enclosing step has already changed them.               *)

\* Mutant: post() without m_pending = done_t{}.
PostStaysOpen(x, child, r, pend, queue) ==
    /\ m_pending' = pend
    /\ tasks' = queue \cup {[child |-> child, result |-> r]}
    /\ posts' = [posts EXCEPT ![child] = @ + 1]

\* post() the callbacks that complete child; x is done.
Post(x, child, r, pend, queue) ==
    /\ m_pending' = [pend EXCEPT ![x] = "done"]
    /\ tasks' = queue \cup {[child |-> child, result |-> r]}
    /\ posts' = [posts EXCEPT ![child] = @ + 1]

\* async_success(), async_failure() and the end of cancel(): the result goes to
\* the stored callbacks, or is kept for them, or comes too late.
Settle(x, r, pend, queue) ==
    \/ /\ pend[x] = "callbacks"
       /\ Post(x, callee[x], r, pend, queue)
    \/ /\ pend[x] \in {"empty"} \cup Results
       /\ m_pending' = [pend EXCEPT ![x] = r]
       /\ tasks' = queue
       /\ UNCHANGED posts
    \/ /\ pend[x] = "done"
       /\ m_pending' = pend
       /\ tasks' = queue
       /\ UNCHANGED posts

\* Mutant: a stored result is dropped, not posted, when its continuation arrives.
SetContinuationDrops(x, child, pend, queue) ==
    /\ m_pending' = [pend EXCEPT ![x] = "done"]
    /\ tasks' = queue
    /\ UNCHANGED <<callee, posts>>

\* Mutant: a stored result is overwritten by the callbacks that should receive it.
SetContinuationOverwrites(x, child, pend, queue) ==
    /\ m_pending' = [pend EXCEPT ![x] = IF @ = "done" THEN "done" ELSE "callbacks"]
    /\ callee' = [callee EXCEPT ![x] = child]
    /\ tasks' = queue
    /\ UNCHANGED posts

\* Mutant: no early return for a context that is done.
SetContinuationReopens(x, child, pend, queue) ==
    \/ /\ pend[x] \in Results
       /\ Post(x, child, pend[x], pend, queue)
       /\ UNCHANGED callee
    \/ /\ pend[x] \notin Results
       /\ m_pending' = [pend EXCEPT ![x] = "callbacks"]
       /\ callee' = [callee EXCEPT ![x] = child]
       /\ tasks' = queue
       /\ UNCHANGED posts

\* Mutant: the pair of callbacks is tagged but not stored.
SetContinuationForgets(x, child, pend, queue) ==
    \/ /\ pend[x] \in Results
       /\ Post(x, child, pend[x], pend, queue)
       /\ UNCHANGED callee
    \/ /\ pend[x] \notin Results
       /\ m_pending' = [pend EXCEPT ![x] = IF @ = "done" THEN "done" ELSE "callbacks"]
       /\ tasks' = queue
       /\ UNCHANGED <<callee, posts>>

\* set_continuation() on x, with callbacks that complete child.
SetContinuation(x, child, pend, queue) ==
    \/ /\ pend[x] \in Results
       /\ Post(x, child, pend[x], pend, queue)
       /\ UNCHANGED callee
    \/ /\ pend[x] \in {"empty", "callbacks"}
       /\ m_pending' = [pend EXCEPT ![x] = "callbacks"]
       /\ callee' = [callee EXCEPT ![x] = child]
       /\ tasks' = queue
       /\ UNCHANGED posts
    \/ /\ pend[x] = "done"
       /\ m_pending' = pend
       /\ tasks' = queue
       /\ UNCHANGED <<callee, posts>>

\* The constructor "with parent" of basic_op_handle: child is constructed with
\* parent x, and then x is given its continuation.
Attach(x, child, k, target, queue) ==
    /\ ~Born(child)
    /\ m_parent' = [m_parent EXCEPT ![child] = x]
    /\ kind' = [kind EXCEPT ![child] = k]
    /\ outer' = [outer EXCEPT ![child] = target]
    /\ SetContinuation(x, child, [m_pending EXCEPT ![child] = "empty"], queue)
-----------------------------------------------------------------------------
(* Client code.                                                            *)

\* An operation without parent: its functor keeps the context, or leaves a result.
NewOp(c) ==
    /\ ~Born(c)
    /\ \/ /\ m_pending' = [m_pending EXCEPT ![c] = "empty"]
          /\ held' = held \cup {c}
       \/ \E r \in Returned :
            /\ m_pending' = [m_pending EXCEPT ![c] = r]
            /\ UNCHANGED held
    /\ UNCHANGED <<tasks, posts, aborted, pairVars>>

\* then(fn), then(s, f) and on_failure(fn) on the handle of x.
Then(x, child, k) ==
    /\ Handle(x)
    /\ Attach(x, child, k, NoCtx, tasks)
    /\ UNCHANGED <<held, aborted>>

\* async_return() on a context the client holds.
AsyncReturn(c, r) ==
    /\ c \in held
    /\ Settle(c, r, m_pending, tasks)
    /\ UNCHANGED <<held, aborted, pairVars>>

\* The operations that cancel() and abort() of c concern: c, its parent, and so on
\* up to the oldest that is unfinished.
IsOpenChain(S, c) ==
    /\ c \in S
    /\ \A x \in S : /\ ~Done(x)
                    /\ m_parent[x] \in S \cup {NoCtx} \cup {p \in Ctx : Done(p)}
    /\ \A x \in S \ {c} : \E y \in S : m_parent[y] = x

\* Mutant: cancel() does not ask whether the parent is unfinished.
CancelSelf(c) ==
    /\ Handle(c)
    /\ Settle(c, "canceled", m_pending, tasks)
    /\ UNCHANGED <<held, aborted, pairVars>>

\* cancel() of c fails the oldest unfinished operation of the chain.
Cancel(c) ==
    /\ Handle(c)
    /\ \/ Done(c) /\ UNCHANGED <<m_pending, tasks, posts>>
       \/ \E S \in SUBSET Ctx :
            /\ IsOpenChain(S, c)
            /\ \E x \in S : m_parent[x] \notin S /\ Settle(x, "canceled", m_pending, tasks)
    /\ UNCHANGED <<held, aborted, pairVars>>

\* abort() of c closes all of them.
Abort(c) ==
    /\ Handle(c)
    /\ \/ Done(c) /\ UNCHANGED <<m_pending, aborted>>
       \/ \E S \in SUBSET Ctx :
            /\ IsOpenChain(S, c)
            /\ m_pending' = [x \in Ctx |-> IF x \in S THEN "done" ELSE m_pending[x]]
            /\ aborted' = aborted \cup S
    /\ UNCHANGED <<held, tasks, posts, pairVars>>
-----------------------------------------------------------------------------
(* The executor runs a posted functor.                                     *)

\* A client functor runs, or the default continuation for this result.
RunsFunctor(k, r) ==
    \/ k = "then_both"
    \/ k = "then" /\ r = "value"
    \/ k = "on_failure" /\ r # "value"

\* default_void_cont and default_skip_failcont.
RunDefault(task) ==
    LET c == task.child
    IN  /\ kind[c] \in {"then", "on_failure"}
        /\ ~RunsFunctor(kind[c], task.result)
        /\ Settle(c, task.result, m_pending, tasks \ {task})
        /\ UNCHANGED <<held, aborted, pairVars>>

\* A functor that returns a plain value.
RunSimple(task) ==
    LET c == task.child
    IN  /\ RunsFunctor(kind[c], task.result)
        /\ Settle(c, "value", m_pending, tasks \ {task})
        /\ UNCHANGED <<held, aborted, pairVars>>

\* A functor that returns a value or an error, a value or none, none or an error.
RunValueOrError(task, r) ==
    LET c == task.child
    IN  /\ RunsFunctor(kind[c], task.result)
        /\ Settle(c, r, m_pending, tasks \ {task})
        /\ UNCHANGED <<held, aborted, pairVars>>

\* A functor that takes the context and keeps it.
RunAsync(task) ==
    /\ RunsFunctor(kind[task.child], task.result)
    /\ held' = held \cup {task.child}
    /\ tasks' = tasks \ {task}
    /\ UNCHANGED <<m_pending, posts, aborted, pairVars>>

\* safe_invoke() of a functor that throws, perhaps after it has kept the context.
RunCaught(task) ==
    LET c == task.child
    IN  /\ RunsFunctor(kind[c], task.result)
        /\ "error" \in Returned
        /\ held' \in {held, held \cup {c}}
        /\ Settle(c, "error", m_pending, tasks \ {task})
        /\ UNCHANGED <<aborted, pairVars>>

\* A functor that returns the handle of i: then() with two callbacks that pass the
\* result of i on; the context of that then() is j.
RunARet(task, i, j) ==
    /\ RunsFunctor(kind[task.child], task.result)
    /\ Handle(i)
    /\ Attach(i, j, "forward", task.child, tasks \ {task})
    /\ UNCHANGED <<held, aborted>>

\* These callbacks complete the outer context and then, returning, their own.
RunForward(task) ==
    LET j == task.child
        c == outer[j]
    IN  /\ kind[j] = "forward"
        /\ Settle(c, task.result, [m_pending EXCEPT ![j] = "value"], tasks \ {task})
        /\ UNCHANGED <<held, aborted, pairVars>>
-----------------------------------------------------------------------------
ClientCode ==
    \/ \E c \in Ctx : NewOp(c)
    \/ \E x, c \in Ctx, k \in {"then", "then_both", "on_failure"} : Then(x, c, k)
    \/ \E c \in Ctx, r \in Returned : AsyncReturn(c, r)

RunTask(task) ==
    \/ RunDefault(task)
    \/ RunSimple(task)
    \/ \E r \in Returned : RunValueOrError(task, r)
    \/ RunAsync(task)
    \/ RunCaught(task)
    \/ \E i, j \in Ctx : RunARet(task, i, j)
    \/ RunForward(task)

ChainNext ==
    \/ ClientCode
    \/ \E c \in Ctx : Cancel(c) \/ Abort(c)
    \/ \E task \in tasks : RunTask(task)

ChainSpec == ChainInit /\ [][ChainNext]_chainVars
-----------------------------------------------------------------------------
(* Properties.                                                             *)

\* A result reaches at most one continuation, once: among the contexts attached
\* to one parent, at most one has ever had its callbacks posted, and only once,
\* in whatever order then(), async_return(), cancel() and abort() come.
DeliveredOnce ==
    \A c, d \in Ctx :
        /\ m_parent[c] = NoCtx => posts[c] = 0
        /\ (m_parent[c] = m_parent[d] /\ posts[c] > 0 /\ posts[d] > 0)
                => (c = d /\ posts[c] = 1)

\* A result is not lost: a context becomes done only by posting a continuation
\* of its own, or by abort().
ResultDelivered ==
    \A x \in Ctx : (Done(x) /\ x \notin aborted)
                       => \E c \in Ctx : m_parent[c] = x /\ posts[c] = 1

\* abort() silences a chain: no continuation of a context that it closed is ever
\* posted, also when a result or a then() comes later; and no continuation is
\* posted for a context that is not done.
AbortSilences ==
    \A c \in Ctx : posts[c] > 0 => (Done(m_parent[c]) /\ m_parent[c] \notin aborted)

\* An operation never has a result, and is never closed, while the operation it
\* continues is unfinished: cancel() and abort() of a handle settle the chain
\* from its oldest unfinished operation down, and a result that is passed on by
\* a returned operation arrives after the functor that returned it has run.
ParentFirst ==
    \A c \in Ctx : (m_parent[c] # NoCtx /\ m_pending[c] \in Results \cup {"done"})
                       => Done(m_parent[c])

\* After abort() of an operation, the functor of this operation is not invoked.
AbortPreventsInvocation ==
    [][\A task \in tasks \ tasks' :
         task.child \in aborted => ~RunsFunctor(kind[task.child], task.result)]_chainVars
-----------------------------------------------------------------------------
(* The inductive invariant.                                                *)

\* Nothing keeps c from having a result: what it continues is done.
Ready(c) == m_parent[c] = NoCtx \/ Done(m_parent[c])

\* Links between contexts lead to constructed contexts, none from a context that
\* is still to be constructed, and none to a temporary.
Linked ==
    \A c \in Ctx :
        /\ ~Born(c) => (m_parent[c] = NoCtx /\ posts[c] = 0 /\ c \notin held /\ kind[c] = "root")
        /\ m_parent[c] # NoCtx => (Born(m_parent[c]) /\ kind[m_parent[c]] # "forward")
        /\ m_pending[c] = "callbacks" => (callee[c] \in Ctx /\ m_parent[callee[c]] = c)

\* Whoever is able to complete a context does so after the context it continues:
\* client code that holds it, a functor that waits to run, or the temporary that
\* passes on the result of a returned operation.
Completable ==
    /\ \A c \in held : Ready(c) /\ kind[c] # "forward"
    /\ \A task \in tasks : posts[task.child] > 0
    /\ \A j \in Ctx : kind[j] = "forward" =>
          /\ m_pending[j] \in {"empty", "value"}
          /\ outer[j] \in Ctx
          /\ Born(outer[j]) /\ Ready(outer[j]) /\ kind[outer[j]] # "forward"

ChainInv ==
    /\ ChainTypeOK
    /\ Linked
    /\ Completable
    /\ \A x \in aborted : Done(x)
    /\ DeliveredOnce
    /\ ResultDelivered
    /\ AbortSilences
    /\ ParentFirst
=============================================================================
