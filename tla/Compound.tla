------------------------------ MODULE Compound ------------------------------
(***************************************************************************)
(* when_all(), when_success() and when_any(): N operations run in          *)
(* parallel, a then() with two functors watches each of them, and these    *)
(* functors complete one context, Joint, whose handle the caller gets      *)
(* through add_cancel().                                                   *)
(*                                                                         *)
(* The contexts are those of OpChain, and each of their methods is one     *)
(* step here.  A functor is not: it takes as many steps as it calls        *)
(* methods or touches the shared counter.  With one thread nothing         *)
(* happens between these steps; threads that share an event loop, as in    *)
(* the load-balance test, interleave them.                                 *)
(***************************************************************************)
EXTENDS OpChain, FiniteSetsExt

CONSTANTS N,         \* the number of parallel operations
          Forms,     \* the functions that may be called
          Threads    \* the threads that run client code and posted functors

Ops      == 1 .. N
Op(i)    == <<"op", i>>       \* the context of an operation
Watch(i) == <<"watch", i>>    \* the context of the then() that watches it
Joint    == <<"joint", 0>>    \* the context that these functors complete
Guard    == <<"guard", 0>>    \* the context of add_cancel(), whose handle is returned

CompoundCtx == {Op(i) : i \in Ops} \cup {Watch(i) : i \in Ops} \cup {Joint, Guard}

ASSUME SizeAssumption  == N \in Nat \ {0}
ASSUME FormsAssumption == Forms \subseteq {"when_all", "when_success", "when_any"}
ASSUME CtxAssumption   == CompoundCtx \subseteq Ctx

VARIABLES
    form,     \* the function that was called, "none" before
    counter,  \* *counter
    res,      \* res[i]: element i of *res
    running,  \* running[t]: the context whose functor t runs, NoCtx if t is idle
    input,    \* input[t]: the result that was given to this functor
    label,    \* label[t]: what the functor does next
    left,     \* left[t]: operations that the loop of this functor has still to visit
    loaded,   \* loaded[t]: the counter as t has read it
    first,    \* history: the first result that a functor passed to Joint
    asked     \* history: whether the client has canceled a handle

localVars    == <<running, input, label, left, loaded>>
sharedVars   == <<form, counter, res>>
historyVars  == <<first, asked>>
compoundVars == <<chainVars, localVars, sharedVars, historyVars>>

Idle(t) == running[t] = NoCtx

TypeOK ==
    /\ ChainTypeOK
    /\ form    \in {"none"} \cup Forms
    /\ counter \in 0 .. N
    /\ res     \in [Ops -> {"none"} \cup Results]
    /\ running \in [Threads -> Ctx \cup {NoCtx}]
    /\ input   \in [Threads -> {"none"} \cup Results]
    /\ label   \in [Threads -> {"idle", "attach", "call", "store", "settle", "cancel", "return"}]
    /\ left    \in [Threads -> SUBSET Ops]
    /\ loaded  \in [Threads -> 0 .. N]
    /\ first   \in {"none"} \cup Results
    /\ asked   \in BOOLEAN

Init ==
    /\ ChainInit
    /\ form = "none"
    /\ counter = N
    /\ res     = [i \in Ops |-> "none"]
    /\ running = [t \in Threads |-> NoCtx]
    /\ input   = [t \in Threads |-> "none"]
    /\ label   = [t \in Threads |-> "idle"]
    /\ left    = [t \in Threads |-> {}]
    /\ loaded  = [t \in Threads |-> 0]
    /\ first = "none"
    /\ asked = FALSE
-----------------------------------------------------------------------------
Goto(t, l) == label' = [label EXCEPT ![t] = l]

\* t begins to run code of context c.
Begin(t, c, r, l) ==
    /\ Idle(t)
    /\ running' = [running EXCEPT ![t] = c]
    /\ input' = [input EXCEPT ![t] = r]
    /\ Goto(t, l)

\* t is idle again.
Finish(t) ==
    /\ running' = [running EXCEPT ![t] = NoCtx]
    /\ input' = [input EXCEPT ![t] = "none"]
    /\ Goto(t, "idle")
    /\ left' = [left EXCEPT ![t] = {}]
    /\ loaded' = [loaded EXCEPT ![t] = 0]

\* The caller's functors run, each leaving a result or keeping its context; then Joint
\* is constructed.
Start(t, f) ==
    /\ form = "none"
    /\ Begin(t, Joint, "none", "attach")
    /\ form' = f
    /\ left' = [left EXCEPT ![t] = Ops]
    /\ \E r \in [Ops -> {"empty"} \cup Returned] :
         /\ m_pending' = [c \in Ctx |-> CASE c \in {Op(i) : i \in Ops} -> r[c[2]]
                                          [] c = Joint -> "empty"
                                          [] OTHER     -> m_pending[c]]
         /\ held' = {Op(i) : i \in {j \in Ops : r[j] = "empty"}}
    /\ UNCHANGED <<tasks, posts, aborted, pairVars, counter, res, loaded, historyVars>>

\* The functor of Joint watches the operations one after the other, and at last
\* add_cancel() continues Joint.
AttachWatch(t) ==
    /\ label[t] = "attach"
    /\ IF left[t] # {}
       THEN LET i == Min(left[t])
            IN  /\ Attach(Op(i), Watch(i), "then_both", NoCtx, tasks)
                /\ left' = [left EXCEPT ![t] = @ \ {i}]
                /\ UNCHANGED <<running, input, label, loaded>>
       ELSE Attach(Joint, Guard, "then_both", NoCtx, tasks) /\ Finish(t)
    /\ UNCHANGED <<held, aborted, sharedVars, historyVars>>

\* t takes a functor from the event loop.
Take(t, task) ==
    /\ Begin(t, task.child, task.result, "call")
    /\ tasks' = tasks \ {task}
    /\ UNCHANGED <<m_pending, held, posts, aborted, pairVars, left, loaded,
                   sharedVars, historyVars>>
-----------------------------------------------------------------------------
(* The functors that watch an operation.                                   *)

\* Mutant: when_success() counts a failure as when_all() does.
CountsFailures(r) == form \in {"when_all", "when_success"}

\* when_all() counts every result, when_success() the successful ones.
Counts(r) == form = "when_all" \/ (form = "when_success" /\ r = "value")

\* The result is stored, and --(*counter) reads the counter.
CountResult(t) ==
    /\ label[t] = "call"
    /\ \E i \in Ops :
         /\ running[t] = Watch(i)
         /\ Counts(input[t])
         /\ res' = [res EXCEPT ![i] = input[t]]
    /\ loaded' = [loaded EXCEPT ![t] = counter]
    /\ Goto(t, "store")
    /\ UNCHANGED <<chainVars, running, input, left, form, counter, historyVars>>

\* Mutant: the counter is compared before it is decremented.
StoreCounterLate(t) ==
    /\ label[t] = "store"
    /\ counter' = IF loaded[t] = 0 THEN 0 ELSE loaded[t] - 1
    /\ Goto(t, IF loaded[t] = 0 THEN "settle" ELSE "return")
    /\ UNCHANGED <<chainVars, running, input, left, loaded, form, res, historyVars>>

\* Mutant: one result too few is waited for.
StoreCounterEarly(t) ==
    /\ label[t] = "store"
    /\ counter' = loaded[t] - 1
    /\ Goto(t, IF loaded[t] - 1 <= 1 THEN "settle" ELSE "return")
    /\ UNCHANGED <<chainVars, running, input, left, loaded, form, res, historyVars>>

\* --(*counter) writes it.
StoreCounter(t) ==
    /\ label[t] = "store"
    /\ counter' = loaded[t] - 1
    /\ Goto(t, IF loaded[t] - 1 = 0 THEN "settle" ELSE "return")
    /\ UNCHANGED <<chainVars, running, input, left, loaded, form, res, historyVars>>

\* Mutant: a context delivers whatever it is given, also when it is done.
ConcludeAgain(r) ==
    /\ IF Done(Joint)
       THEN Post(Joint, callee[Joint], r, m_pending, tasks)
       ELSE Settle(Joint, r, m_pending, tasks)
    /\ first' = IF first = "none" THEN r ELSE first

\* Joint gets a result.
Conclude(r) ==
    /\ Settle(Joint, r, m_pending, tasks)
    /\ first' = IF first = "none" THEN r ELSE first

\* The counter is zero: Joint succeeds.
SettleCounted(t) ==
    /\ label[t] = "settle"
    /\ Conclude("value")
    /\ Goto(t, "return")
    /\ UNCHANGED <<held, aborted, pairVars, running, input, left, loaded, sharedVars, asked>>

\* Mutant: only the operations that come later in the list are canceled.
SettleEarlyForward(t) ==
    /\ label[t] = "call"
    /\ \E i \in Ops :
         /\ running[t] = Watch(i)
         /\ ~Counts(input[t])
         /\ left' = [left EXCEPT ![t] = {j \in Ops : j > i}]
    /\ Conclude(input[t])
    /\ Goto(t, "cancel")
    /\ UNCHANGED <<held, aborted, pairVars, running, input, loaded, sharedVars, asked>>

\* Joint gets this result, and the loop over the other operations begins.
SettleEarly(t) ==
    /\ label[t] = "call"
    /\ \E i \in Ops :
         /\ running[t] = Watch(i)
         /\ ~Counts(input[t])
         /\ left' = [left EXCEPT ![t] = Ops \ {i}]
    /\ Conclude(input[t])
    /\ Goto(t, "cancel")
    /\ UNCHANGED <<held, aborted, pairVars, running, input, loaded, sharedVars, asked>>
-----------------------------------------------------------------------------
\* Mutant: the loop of add_cancel() starts at 0.
GuardResultFromZero(t) ==
    /\ label[t] = "call"
    /\ running[t] = Guard
    /\ IF input[t] = "canceled"
       THEN left' = [left EXCEPT ![t] = 0 .. N] /\ Goto(t, "cancel")
       ELSE Goto(t, "return") /\ UNCHANGED left
    /\ UNCHANGED <<chainVars, running, input, loaded, sharedVars, historyVars>>

\* The functors of add_cancel(): an operation that was canceled cancels them all.
GuardResult(t) ==
    /\ label[t] = "call"
    /\ running[t] = Guard
    /\ IF input[t] = "canceled"
       THEN left' = [left EXCEPT ![t] = Ops] /\ Goto(t, "cancel")
       ELSE Goto(t, "return") /\ UNCHANGED left
    /\ UNCHANGED <<chainVars, running, input, loaded, sharedVars, historyVars>>

\* cancel() of the next operation of the loop.
CancelNext(t) ==
    /\ label[t] = "cancel"
    /\ left[t] # {}
    /\ Cancel(Op(Min(left[t])))
    /\ left' = [left EXCEPT ![t] = @ \ {Min(left[t])}]
    /\ UNCHANGED <<running, input, label, loaded, sharedVars, historyVars>>

\* The functor completes its own context: the one of add_cancel() with the result
\* it was given, the others, by returning, with success.
Return(t) ==
    /\ \/ label[t] = "return"
       \/ label[t] = "cancel" /\ left[t] = {}
    /\ Settle(running[t], IF running[t] = Guard THEN input[t] ELSE "value", m_pending, tasks)
    /\ Finish(t)
    /\ UNCHANGED <<held, aborted, pairVars, sharedVars, historyVars>>

Body(t) ==
    \/ AttachWatch(t)
    \/ CountResult(t)
    \/ StoreCounter(t)
    \/ SettleCounted(t)
    \/ SettleEarly(t)
    \/ GuardResult(t)
    \/ CancelNext(t)
    \/ Return(t)
-----------------------------------------------------------------------------
\* Client code: it completes operations, and cancels or aborts the handles it has, that
\* of the compound operation and those of the operations.
Client ==
    /\ \E t \in Threads : Idle(t)
    /\ \/ /\ \E i \in Ops, r \in Returned : AsyncReturn(Op(i), r)
          /\ UNCHANGED asked
       \/ \E c \in {Guard} \cup {Op(i) : i \in Ops} :
            \/ Cancel(c) /\ asked' = TRUE
            \/ Abort(c) /\ UNCHANGED asked
    /\ UNCHANGED <<localVars, sharedVars, first>>

Next ==
    \/ \E t \in Threads :
         \/ \E f \in Forms : Start(t, f)
         \/ \E task \in tasks : Take(t, task)
         \/ Body(t)
    \/ Client

Spec == Init /\ [][Next]_compoundVars

\* The event loop runs what is posted to it, and functors run to their end.
Fairness ==
    /\ \A t \in Threads : WF_compoundVars(Body(t))
    /\ WF_compoundVars(\E t \in Threads, task \in tasks : Take(t, task))

FairSpec == Spec /\ Fairness
-----------------------------------------------------------------------------
(* Properties.                                                             *)

Quiescent == tasks = {} /\ \A t \in Threads : Idle(t)

\* The result of a race is the first one: what the functors of add_cancel() are given
\* for the caller is the result that the first functor to finish passed on, never that
\* of an operation which was canceled because it lost.
FirstWins ==
    \A task \in tasks : task.child = Guard =>
        \/ task.result = first
        \/ task.result = "canceled" /\ asked

\* A success of when_all() holds a result of every operation, and a success of
\* when_success() a value of every operation.
CollectsAll ==
    \A task \in tasks :
        (task.child = Guard /\ task.result = "value") =>
            /\ form = "when_all" => \A i \in Ops : res[i] # "none"
            /\ form = "when_success" => \A i \in Ops : res[i] = "value"

\* when_all() returns when all operations are finished: if every functor that watches
\* one has returned, there is a result.
WhenAllReturns ==
    (form = "when_all" /\ \A i \in Ops : m_pending[Watch(i)] = "value")
        => m_pending[Joint] \in Results \cup {"done"}

\* Nothing is left running: once the compound operation has delivered its result, was
\* it the first, a failure or a cancellation, and every functor has run, none of the
\* operations is unfinished.
NothingLeftRunning ==
    (Done(Joint) /\ Joint \notin aborted /\ Quiescent) => \A i \in Ops : Done(Op(i))

\* A result that decides a race or fails a when_success() settles the returned
\* operation, although other operations may never finish.
Decided ==
    \E i \in Ops, task \in tasks :
        /\ task.child = Watch(i)
        /\ form = "when_any" \/ (form = "when_success" /\ task.result # "value")

GuardSettled == Born(Guard) /\ m_pending[Guard] \in Results \cup {"done"}

DecidesEarly == Decided ~> GuardSettled

\* So do the results of all operations.  All of them: an operation that the client has
\* aborted never calls the functor that counts it, and a when_all() of it waits for ever.
ReturnsAtLast ==
    (form # "none" /\ \A i \in Ops : Done(Op(i)) /\ Op(i) \notin aborted) ~> GuardSettled
=============================================================================
