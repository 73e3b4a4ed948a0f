-------------------------------- MODULE Timed -------------------------------
(***************************************************************************)
(* timed_op() of the Asio integration: when_any() over the operation of    *)
(* the caller and sleep(), in the thread of one event loop.                *)
(*                                                                         *)
(* sleep() is a timer whose completion handler completes the context       *)
(* Sleep, and an add_cancel() that stops the timer.  The second operation  *)
(* of when_any() is a then() over it: it has parents, so that cancelling   *)
(* it means cancelling Sleep.  Final is the context of the handle that the *)
(* caller gets.                                                            *)
(***************************************************************************)
EXTENDS Compound

Sleep      == <<"sleep", 0>>
SleepGuard == <<"sleepguard", 0>>
Final      == <<"final", 0>>

TimedCtx == CompoundCtx \cup {Sleep, SleepGuard, Final}

ASSUME TwoOpsAssumption    == N = 2
ASSUME RaceAssumption      == "when_any" \in Forms
ASSUME OneThreadAssumption == \E t \in Threads : Threads = {t}
ASSUME TimedCtxAssumption  == Ctx = TimedCtx

VARIABLES
    timer,    \* the steady_timer; "expired" and "stopped": its handler is posted
    index,    \* input.index() + 1: whose value Joint has been given
    outcome,  \* history: what the functor after when_any() gave to Final
    expired   \* history: whether the time is over

timerVars == <<timer, index, outcome, expired>>
timedVars == <<compoundVars, timerVars>>

TimedTypeOK ==
    /\ TypeOK
    /\ timer   \in {"none", "waiting", "expired", "stopped", "over"}
    /\ index   \in 0 .. 2
    /\ outcome \in {"none", "timed_out"} \cup Results
    /\ expired \in BOOLEAN

TimedInit ==
    /\ Init
    /\ timer = "none"
    /\ index = 0
    /\ outcome = "none"
    /\ expired = FALSE
-----------------------------------------------------------------------------
\* The caller's functor and sleep() have run: the timer is started, SleepGuard continues
\* Sleep, and the second operation continues SleepGuard; when_any() begins.
TimedStart(t) ==
    /\ form = "none"
    /\ Begin(t, Joint, "none", "attach")
    /\ form' = "when_any"
    /\ left' = [left EXCEPT ![t] = Ops]
    /\ \E r \in {"empty"} \cup Returned :
         /\ m_pending' = [m_pending EXCEPT ![Op(1)] = r, ![Op(2)] = "empty", ![Joint] = "empty",
                                           ![Sleep] = "callbacks", ![SleepGuard] = "callbacks"]
         /\ held' = IF r = "empty" THEN {Op(1)} ELSE {}
    /\ callee' = [callee EXCEPT ![Sleep] = SleepGuard, ![SleepGuard] = Op(2)]
    /\ m_parent' = [m_parent EXCEPT ![SleepGuard] = Sleep, ![Op(2)] = SleepGuard]
    /\ kind' = [kind EXCEPT ![SleepGuard] = "then_both", ![Op(2)] = "then"]
    /\ timer' = "waiting"
    /\ UNCHANGED <<tasks, posts, aborted, outer, counter, res, loaded, historyVars,
                   index, outcome, expired>>

\* when_any() has returned the handle of Guard; then() continues it.
AttachFinal ==
    /\ Attach(Guard, Final, "then", NoCtx, tasks)
    /\ UNCHANGED <<held, aborted, localVars, sharedVars, historyVars, timerVars>>

\* The steps of when_any(); an operation that wins gives Joint its value.
TimedBody(t) ==
    /\ Body(t)
    /\ index' = IF label[t] = "call" /\ running[t] # Guard /\ ~Done(Joint)
                THEN CHOOSE i \in Ops : running[t] = Watch(i)
                ELSE index
    /\ UNCHANGED <<timer, outcome, expired>>

\* t takes a functor of when_any() from the event loop.
TimedTake(t, task) ==
    /\ task.child \notin {SleepGuard, Op(2), Final}
    /\ Take(t, task)
    /\ UNCHANGED timerVars
-----------------------------------------------------------------------------
(* The timer.                                                              *)

\* The time is over: the handler of async_wait() is posted.
TimerExpires ==
    /\ timer = "waiting"
    /\ timer' = "expired"
    /\ expired' = TRUE
    /\ UNCHANGED <<compoundVars, index, outcome>>

\* What the completion handler that fy() passes to async_wait() makes of its error code.
HandlerResult(failed) == IF failed THEN "error" ELSE "value"

\* Mutant: the handler has lost its context.
HandlerForgets ==
    /\ timer \in {"expired", "stopped"}
    /\ timer' = "over"
    /\ UNCHANGED <<compoundVars, index, outcome, expired>>

\* The handler runs.  A timer that was stopped gives it operation_aborted.
TimerHandler ==
    /\ timer \in {"expired", "stopped"}
    /\ timer' = "over"
    /\ Settle(Sleep, HandlerResult(timer = "stopped"), m_pending, tasks)
    /\ UNCHANGED <<held, aborted, pairVars, localVars, sharedVars, historyVars,
                   index, outcome, expired>>

\* Mutant: sleep() without add_cancel().
KeepsTimer(task) ==
    /\ task.child = SleepGuard
    /\ Settle(SleepGuard, task.result, m_pending, tasks \ {task})
    /\ UNCHANGED <<held, aborted, pairVars, localVars, sharedVars, historyVars, timerVars>>

\* The functors of the add_cancel() in sleep().  timer->cancel() has no effect on a
\* handler that is already posted.
StopTimer(task) ==
    /\ task.child = SleepGuard
    /\ timer' = IF task.result = "canceled" /\ timer = "waiting" THEN "stopped" ELSE timer
    /\ Settle(SleepGuard, task.result, m_pending, tasks \ {task})
    /\ UNCHANGED <<held, aborted, pairVars, localVars, sharedVars, historyVars,
                   index, outcome, expired>>

\* The functor that turns the end of the sleep into a value, or its default continuation.
TimerOp(task) ==
    /\ task.child = Op(2)
    /\ RunSimple(task) \/ RunDefault(task)
    /\ UNCHANGED <<localVars, sharedVars, historyVars, timerVars>>

\* Mutant: every result but a value of the caller's operation is a timeout.
TimeoutByDefault(task) ==
    /\ task.child = Final
    /\ LET timeout == ~(task.result = "value" /\ index = 1)
       IN  /\ outcome' = IF timeout THEN "timed_out" ELSE task.result
           /\ Settle(Final, IF timeout THEN "error" ELSE task.result, m_pending, tasks \ {task})
    /\ UNCHANGED <<held, aborted, pairVars, localVars, sharedVars, historyVars,
                   timer, index, expired>>

\* The functor after when_any(), or its default continuation.
TimedResult(task) ==
    /\ task.child = Final
    /\ LET timeout == task.result = "value" /\ index = 2
       IN  /\ outcome' = IF timeout THEN "timed_out" ELSE task.result
           /\ Settle(Final, IF timeout THEN "error" ELSE task.result, m_pending, tasks \ {task})
    /\ UNCHANGED <<held, aborted, pairVars, localVars, sharedVars, historyVars,
                   timer, index, expired>>
-----------------------------------------------------------------------------
\* The caller completes, cancels or aborts its own operation, and cancels or aborts the
\* one with the timeout.
TimedClient ==
    /\ \/ /\ \E r \in Returned : AsyncReturn(Op(1), r)
          /\ UNCHANGED asked
       \/ /\ Cancel(Op(1)) \/ Cancel(Final)
          /\ asked' = TRUE
       \/ /\ Abort(Op(1)) \/ Abort(Final)
          /\ UNCHANGED asked
    /\ UNCHANGED <<localVars, sharedVars, first, timerVars>>

\* What the loop runs when no functor is running.
Loop ==
    \/ TimerHandler
    \/ \E task \in tasks : StopTimer(task) \/ TimerOp(task) \/ TimedResult(task)
    \/ \E t \in Threads, task \in tasks : TimedTake(t, task)

Returning == Born(Guard) /\ ~Born(Final)
LoopTurn  == ~Returning /\ (\A t \in Threads : Idle(t)) /\ Loop

TimedNext ==
    \/ \E t \in Threads : TimedStart(t) \/ TimedBody(t)
    \/ Returning /\ AttachFinal
    \/ LoopTurn
    \/ ~Returning /\ (\A t \in Threads : Idle(t)) /\ TimedClient
    \/ TimerExpires

\* The loop runs what is posted to it, functors and calls run to their end, and the
\* time passes.
TimedFairness ==
    /\ WF_timedVars(\E t \in Threads : TimedBody(t))
    /\ WF_timedVars(Returning /\ AttachFinal)
    /\ WF_timedVars(LoopTurn)
    /\ WF_timedVars(TimerExpires)

TimedSpec == TimedInit /\ [][TimedNext]_timedVars /\ TimedFairness
-----------------------------------------------------------------------------
(* Properties.                                                             *)

TimedQuiescent == Quiescent /\ timer \notin {"expired", "stopped"}

\* timed_op() reports a timeout only if the time is over, although the timer ends early
\* when it loses the race, and a cancellation only if the caller asked for it, although
\* the race itself cancels the operation that loses.
OutcomeJustified ==
    /\ outcome = "timed_out" => expired
    /\ outcome = "canceled"  => asked

\* After the end of the race, however it ended, nothing keeps the event loop from
\* returning: the timer is not waiting, and the caller's operation is finished.
NothingLeftWaiting ==
    (Done(Joint) /\ Joint \notin aborted /\ TimedQuiescent)
        => timer = "over" /\ Done(Op(1)) /\ Done(Op(2))

FinalSettled == Born(Final) /\ m_pending[Final] \in Results \cup {"done"}

\* timed_op() gives a result, or is aborted, although the caller's operation may never
\* finish.
TimedReturns == form # "none" ~> FinalSettled

\* The caller's operation does not outlive its time, even when timed_op() is aborted:
\* then the timer still runs, and cancels it.
StoppedInTime == form # "none" ~> Done(Op(1))
=============================================================================
