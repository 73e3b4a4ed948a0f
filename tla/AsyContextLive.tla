--------------------------- MODULE AsyContextLive ---------------------------
(***************************************************************************)
(* Progress of AsyContext under the client of OpChainLive, which moreover  *)
(* cancels a handle at most once.                                          *)
(***************************************************************************)
EXTENDS AsyContext, OpChainLive

VARIABLE asked   \* handles on which cancel() has been called

liveVars == <<vars, asked>>

Entered == {at'[t] : t \in {u \in Threads : Idle(u) /\ pc'[u] = "enter"}}

LiveNext ==
    /\ Next
    /\ WellBehaved
    /\ \A t \in Threads : op'[t] # "abort"
    /\ Entered \cap asked = {}
    /\ asked' = asked \cup Entered

\* A thread that is in no handle method completes c: the client does not give up.
Completes(c) ==
    /\ \E t \in Threads : Idle(t)
    /\ Free(c)
    /\ \E r \in Returned : AsyncReturn(c, r)
    /\ UNCHANGED <<climbVars, asked>>

\* A thread that is in no handle method runs the functor: it serves the event loop.
Runs(task) ==
    /\ \E t \in Threads : Idle(t)
    /\ task \in tasks
    /\ LockedRunTask(task)
    /\ WellBehaved
    /\ UNCHANGED <<climbVars, asked>>

Fairness ==
    /\ \A t \in Threads : WF_liveVars(Climb(t) /\ UNCHANGED asked)
    /\ \A c \in Ctx : WF_liveVars(Completes(c))
    /\ \A task \in Tasks : WF_liveVars(Runs(task))

LiveSpec == Init /\ asked = {} /\ [][LiveNext]_liveVars /\ Fairness

\* cancel() returns, although it waits for mutexes while it holds others.
CallsReturn == \A t \in Threads : ~Idle(t) ~> Idle(t)
=============================================================================
