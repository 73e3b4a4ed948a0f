----------------------------- MODULE InlineChain -----------------------------
(***************************************************************************)
(* The contexts and handles of OpChain under an executor that invokes a    *)
(* functor in the call that posts it, as executor.hpp expects and as the   *)
(* tests of safe_invoke() set it up: one thread, no mutexes.               *)
(*                                                                         *)
(* post() then returns after the functor has run, and only afterwards does *)
(* the context become done.  The functor calls other contexts, whose       *)
(* functors run in turn, so the thread is a stack: one frame for each      *)
(* functor, together with the context whose method has posted it.          *)
(***************************************************************************)
EXTENDS OpChain, SequencesExt

CONSTANTS Reentrant,  \* the calls that functors make although they concern a context that is
                      \* still delivering its result, see MayCall
          MaxDepth    \* bound: nested functors

ASSUME ReentrantAssumption == Reentrant \subseteq {"then", "async_return", "cancel", "return"}
ASSUME DepthAssumption     == MaxDepth \in Nat

VARIABLE stack   \* the functors that are running, the innermost one at the end

inlineVars == <<chainVars, stack>>

\* ctx posted the functor, which completes child; attaching: ctx is in set_continuation(),
\* so that client code has no handle of child yet.
Frames == [ctx : Ctx, child : Ctx, result : Results, attaching : BOOLEAN,
           at : {"body", "kept", "returned"}]

Top     == Last(stack)
Move(l) == [stack EXCEPT ![Len(stack)].at = l]

\* The contexts that have invoked a continuation and are not done yet.
Delivering == {stack[n].ctx : n \in DOMAIN stack}

InlineTypeOK ==
    /\ ChainTypeOK
    /\ Range(stack) \subseteq Frames
    /\ Len(stack) \in 0 .. MaxDepth

InlineInit == ChainInit /\ stack = <<>>
-----------------------------------------------------------------------------
(* The critical sections.  pend and frames are m_pending and stack as the  *)
(* enclosing step has already changed them.                                *)

\* post() calls the functor; m_pending = done_t{} comes when it returns.
PostNow(x, child, r, attaching, pend, frames) ==
    /\ Len(frames) < MaxDepth
    /\ m_pending' = pend
    /\ stack' = Append(frames, [ctx |-> x, child |-> child, result |-> r,
                                attaching |-> attaching, at |-> "body"])
    /\ posts' = [posts EXCEPT ![child] = @ + 1]

SettleNow(x, r, pend, frames) ==
    \/ /\ pend[x] = "callbacks"
       /\ PostNow(x, callee[x], r, FALSE, pend, frames)
    \/ /\ pend[x] \in {"empty"} \cup Results
       /\ m_pending' = [pend EXCEPT ![x] = r]
       /\ stack' = frames
       /\ UNCHANGED posts
    \/ /\ pend[x] = "done"
       /\ m_pending' = pend
       /\ stack' = frames
       /\ UNCHANGED posts

\* Mutant: the pair of callbacks is tagged but not stored.
SetContinuationForgetsNow(x, child, pend, frames) ==
    \/ /\ pend[x] \in Results
       /\ PostNow(x, child, pend[x], TRUE, pend, frames)
       /\ UNCHANGED callee
    \/ /\ pend[x] \notin Results
       /\ m_pending' = [pend EXCEPT ![x] = IF @ = "done" THEN "done" ELSE "callbacks"]
       /\ stack' = frames
       /\ UNCHANGED <<callee, posts>>

SetContinuationNow(x, child, pend, frames) ==
    \/ /\ pend[x] \in Results
       /\ PostNow(x, child, pend[x], TRUE, pend, frames)
       /\ UNCHANGED callee
    \/ /\ pend[x] \in {"empty", "callbacks"}
       /\ m_pending' = [pend EXCEPT ![x] = "callbacks"]
       /\ callee' = [callee EXCEPT ![x] = child]
       /\ stack' = frames
       /\ UNCHANGED posts
    \/ /\ pend[x] = "done"
       /\ m_pending' = pend
       /\ stack' = frames
       /\ UNCHANGED <<callee, posts>>

AttachNow(x, child, k, target, frames) ==
    /\ ~Born(child)
    /\ m_parent' = [m_parent EXCEPT ![child] = x]
    /\ kind' = [kind EXCEPT ![child] = k]
    /\ outer' = [outer EXCEPT ![child] = target]
    /\ SetContinuationNow(x, child, [m_pending EXCEPT ![child] = "empty"], frames)

\* The method that posted the functor goes on: m_pending = done_t{}.
ReturnNow ==
    /\ stack # <<>>
    /\ Top.at = "returned"
    /\ m_pending' = [m_pending EXCEPT ![Top.ctx] = "done"]
    /\ stack' = Front(stack)
    /\ UNCHANGED <<held, tasks, posts, aborted, pairVars>>
-----------------------------------------------------------------------------
(* Client code, outside of any functor or in the innermost one.            *)

Body == stack # <<>> /\ Top.at = "body"

InClientCode ==
    \/ stack = <<>>
    \/ Body /\ RunsFunctor(kind[Top.child], Top.result)
    \/ stack # <<>> /\ Top.at = "kept"

\* i has its result only after c: it continues c, or one that it continues, or that it
\* has returned, does.
WaitsFor(i, c) ==
    \A S \in SUBSET Ctx :
        /\ i \in S
        /\ \A x \in S : m_parent[x] \in S \cup {NoCtx}
        /\ \A j \in Ctx : outer[j] \in S => m_parent[j] \in S
        => c \in S

\* Whether client code may make a call that concerns the contexts in S, which it may not
\* if a context that is delivering its result could get another one by it, either because
\* it is in S or because it waits for one that is.
MayCall(method, S) ==
    method \in Reentrant \/ \A x \in S, d \in Delivering : WaitsFor(d, x) => Done(x)

HandleNow(c) == Handle(c) /\ \A f \in Range(stack) : ~(f.attaching /\ f.child = c)

ThenNow(x, child, k) ==
    /\ HandleNow(x)
    /\ AttachNow(x, child, k, NoCtx, stack)
    /\ MayCall("then", {x})
    /\ UNCHANGED <<held, tasks, aborted>>

AsyncReturnNow(c, r) ==
    /\ c \in held
    /\ MayCall("async_return", {c})
    /\ SettleNow(c, r, m_pending, stack)
    /\ UNCHANGED <<held, tasks, aborted, pairVars>>

CancelNow(c) ==
    /\ HandleNow(c)
    /\ \/ Done(c) /\ UNCHANGED <<m_pending, posts, stack>>
       \/ \E S \in SUBSET Ctx :
            /\ IsOpenChain(S, c)
            /\ MayCall("cancel", S)
            /\ \E x \in S : m_parent[x] \notin S /\ SettleNow(x, "canceled", m_pending, stack)
    /\ UNCHANGED <<held, tasks, aborted, pairVars>>

AbortNow(c) ==
    /\ HandleNow(c)
    /\ \/ Done(c) /\ UNCHANGED <<m_pending, aborted>>
       \/ \E S \in SUBSET Ctx :
            /\ IsOpenChain(S, c)
            /\ m_pending' = [x \in Ctx |-> IF x \in S THEN "done" ELSE m_pending[x]]
            /\ aborted' = aborted \cup (S \ Delivering)
    /\ UNCHANGED <<held, tasks, posts, pairVars, stack>>
-----------------------------------------------------------------------------
(* The innermost functor ends.                                             *)

\* Mutant: a default continuation completes the operation it continues.
RunDefaultUp ==
    /\ Body
    /\ kind[Top.child] \in {"then", "on_failure"}
    /\ ~RunsFunctor(kind[Top.child], Top.result)
    /\ SettleNow(Top.ctx, Top.result, m_pending, Move("returned"))
    /\ UNCHANGED <<held, tasks, aborted, pairVars>>

RunDefaultNow ==
    /\ Body
    /\ kind[Top.child] \in {"then", "on_failure"}
    /\ ~RunsFunctor(kind[Top.child], Top.result)
    /\ SettleNow(Top.child, Top.result, m_pending, Move("returned"))
    /\ UNCHANGED <<held, tasks, aborted, pairVars>>

\* The functor returns a value, or a value or an error.
RunValueNow(r) ==
    /\ Body
    /\ RunsFunctor(kind[Top.child], Top.result)
    /\ SettleNow(Top.child, r, m_pending, Move("returned"))
    /\ UNCHANGED <<held, tasks, aborted, pairVars>>

\* The functor takes its context; it goes on, and may complete it before it returns.
KeepContext ==
    /\ Body
    /\ RunsFunctor(kind[Top.child], Top.result)
    /\ held' = held \cup {Top.child}
    /\ stack' = Move("kept")
    /\ UNCHANGED <<m_pending, tasks, posts, aborted, pairVars>>

LeaveKept ==
    /\ stack # <<>>
    /\ Top.at = "kept"
    /\ stack' = Move("returned")
    /\ UNCHANGED chainVars

\* The functor throws; safe_invoke() catches.
RunCaughtNow ==
    /\ InClientCode
    /\ stack # <<>>
    /\ "error" \in Returned
    /\ SettleNow(Top.child, "error", m_pending, Move("returned"))
    /\ UNCHANGED <<held, tasks, aborted, pairVars>>

RunARetNow(i, j) ==
    /\ Body
    /\ RunsFunctor(kind[Top.child], Top.result)
    /\ HandleNow(i)
    /\ AttachNow(i, j, "forward", Top.child, Move("returned"))
    /\ "return" \in Reentrant \/ ~WaitsFor(i, Top.child)
    /\ MayCall("return", {i})
    /\ UNCHANGED <<held, tasks, aborted>>

\* The callbacks of a temporary operation complete the outer context, and its own.
RunForwardNow ==
    /\ Body
    /\ kind[Top.child] = "forward"
    /\ SettleNow(outer[Top.child], Top.result, [m_pending EXCEPT ![Top.child] = "value"],
                 Move("returned"))
    /\ UNCHANGED <<held, tasks, aborted, pairVars>>
-----------------------------------------------------------------------------
InlineClientCode ==
    /\ InClientCode
    /\ \/ \E c \in Ctx : NewOp(c) /\ UNCHANGED stack
       \/ \E x, c \in Ctx, k \in {"then", "then_both", "on_failure"} : ThenNow(x, c, k)
       \/ \E c \in Ctx, r \in Returned : AsyncReturnNow(c, r)
       \/ \E c \in Ctx : CancelNow(c) \/ AbortNow(c)

InlineNext ==
    \/ InlineClientCode
    \/ RunDefaultNow
    \/ \E r \in {"value"} \cup Returned : RunValueNow(r)
    \/ KeepContext
    \/ LeaveKept
    \/ RunCaughtNow
    \/ \E i, j \in Ctx : RunARetNow(i, j)
    \/ RunForwardNow
    \/ ReturnNow

InlineSpec == InlineInit /\ [][InlineNext]_inlineVars
-----------------------------------------------------------------------------
(* Properties.                                                             *)

\* A functor that is running counts as posted until it ends, and the context that
\* posted it as done.  (The comparison only has TLC tabulate the function, which a step
\* may update twice.)
DeferredPending ==
    LET contexts == Delivering
        delivered == [c \in Ctx |-> IF c \in contexts THEN "done" ELSE m_pending[c]]
    IN  IF stack = <<>> \/ delivered = m_pending THEN m_pending ELSE delivered

DeferredTasks ==
    {[child |-> stack[n].child, result |-> stack[n].result] :
        n \in {i \in DOMAIN stack : stack[i].at = "body"}}

Deferred == INSTANCE OpChain WITH m_pending <- DeferredPending, tasks <- DeferredTasks

\* An executor that invokes functors at once is as good as one that defers them, for
\* a program whose functors neither call the contexts that are delivering to them nor
\* complete what these wait for: whatever it then does is something it could do under an
\* event loop.
InlineImplementsOpChain == Deferred!ChainSpec

\* No context delivers twice at the same time: its method is not entered again by the
\* functor that it has invoked, nor by any functor nested in that one.
DeliversOneAtATime ==
    \A m, n \in DOMAIN stack : stack[m].ctx = stack[n].ctx => m = n
=============================================================================
