------------------------------- MODULE Promise -------------------------------
(***************************************************************************)
(* What when_all(), when_success() and when_any() promise to a program     *)
(* with one thread: they settle on one result for the caller.  Which one   *)
(* depends on the results of the operations and on their order only, and   *)
(* it is settled in the step in which they decide it, unless the caller    *)
(* has canceled or aborted before.  It is not yet in his hands then: like  *)
(* any operation, the one he was given may still be canceled or aborted    *)
(* before it has the result, and he gets a cancellation or nothing.        *)
(***************************************************************************)
EXTENDS Naturals

CONSTANTS N,       \* the number of operations
          Forms,   \* the functions that may be called
          Results  \* the results of operations

Ops == 1 .. N

VARIABLES
    form,    \* the function that was called, "none" before
    arrived, \* arrived[i]: the result of operation i, "none" before
    told,    \* the result that is sent to the caller; "aborted" if there will be none
    asked    \* whether the caller has canceled anything

promiseVars == <<form, arrived, told, asked>>

PromiseInit ==
    /\ form    = "none"
    /\ arrived = [i \in Ops |-> "none"]
    /\ told    = "none"
    /\ asked   = FALSE

Call(f) ==
    /\ form = "none"
    /\ form' = f
    /\ UNCHANGED <<arrived, told, asked>>

\* One result is enough: any for when_any(), a failure for when_success().
Decides(r) == form = "when_any" \/ (form = "when_success" /\ r # "value")

\* What is sent to the caller when r is the next result.
Verdict(r, all) ==
    CASE told # "none"                   -> told
      [] told = "none" /\ Decides(r)     -> r
      [] told = "none" /\ ~Decides(r)    -> IF all THEN "value" ELSE "none"

\* Operation i has the result r.  Nothing says that this ever happens: it does not if the
\* caller has aborted the operation.
Arrive(i, r) ==
    /\ form # "none"
    /\ arrived[i] = "none"
    /\ arrived' = [arrived EXCEPT ![i] = r]
    /\ told' = Verdict(r, \A j \in Ops \ {i} : arrived[j] # "none")
    /\ UNCHANGED <<form, asked>>

\* The caller cancels an operation, whose result is then still to come, or the handle he
\* was given.
Cancel ==
    /\ form # "none"
    /\ asked' = TRUE
    /\ told' \in {told, IF told = "none" THEN "canceled" ELSE told}
    /\ UNCHANGED <<form, arrived>>

\* The caller aborts the handle he was given.
Abort ==
    /\ form # "none"
    /\ told = "none"
    /\ told' = "aborted"
    /\ UNCHANGED <<form, arrived, asked>>

PromiseNext ==
    \/ \E f \in Forms : Call(f)
    \/ \E i \in Ops, r \in Results : Arrive(i, r)
    \/ Cancel
    \/ Abort

PromiseSpec == PromiseInit /\ [][PromiseNext]_promiseVars
=============================================================================
