--------------------------- MODULE CompoundPromise ---------------------------
(***************************************************************************)
(* Compound with a history variable, and the promise that it keeps.        *)
(***************************************************************************)
EXTENDS Compound

VARIABLE given \* history: given[c]: the result that the functor of c was posted with

promisedVars == <<compoundVars, given>>

PromisedInit ==
    /\ Init
    /\ given = [c \in Ctx |-> "none"]

\* The results that a step posts.
Given ==
    given' = [c \in Ctx |->
                IF \E task \in tasks' \ tasks : task.child = c
                THEN (CHOOSE task \in tasks' \ tasks : task.child = c).result
                ELSE given[c]]

PromisedSpec     == PromisedInit /\ [][Next /\ Given]_promisedVars
PromisedFairSpec == PromisedSpec /\ Fairness
-----------------------------------------------------------------------------
(* Properties.                                                             *)

\* The result of operation i has arrived when its functor has done what it does with it:
\* from then on it only cancels other operations, and returns.
Arrived(i) ==
    /\ given[Watch(i)] # "none"
    /\ \A task \in tasks : task.child # Watch(i)
    /\ \A t \in Threads : running[t] = Watch(i) => label[t] \in {"cancel", "return"}

Arrivals == [i \in Ops |-> IF Arrived(i) THEN given[Watch(i)] ELSE "none"]

\* What is sent to the caller is what the functors of add_cancel() are given.  Between
\* these and his own continuation, Guard may be canceled or aborted as any context.
Told == IF Joint \in aborted THEN "aborted" ELSE given[Guard]

Promised == INSTANCE Promise WITH arrived <- Arrivals, told <- Told

\* With one thread, the functors with their shared counter, the loops that cancel, and
\* the two contexts between them and the caller keep the promise: what is passed on to
\* add_cancel() is decided by the results of the operations in the order in which their
\* functors run, at once, and nothing else is passed on later.
PromiseKept == Promised!PromiseSpec
=============================================================================
