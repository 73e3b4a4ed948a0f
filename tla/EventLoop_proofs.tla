-------------------------- MODULE EventLoop_proofs --------------------------
(***************************************************************************)
(* Proofs about the event loops and asy::thread::fy(), for any number of   *)
(* origins, computations and loops: every step is one of the executor, so  *)
(* what is proved of Executor holds here; nobody completes a context in    *)
(* another thread than its origin's or posts to a loop that is gone; and   *)
(* every call finds a handler, and no join waits in a circle.              *)
(***************************************************************************)
EXTENDS EventLoop, Executor_proofs

\* The thread a call is about: a computation schedules for its origin, an origin for itself.
Home(t) == IF t \in Works THEN origin[t] ELSE t

\* The loops: constructed once, owned by one origin, and in the map from the end of
\* set_event_loop() on, where they stay when they are destroyed.
LoopsInv ==
    /\ \A o \in Origins :
         /\ phase[o] = "none" <=> io[o] = NoLoop
         /\ io[o] # NoLoop => io[o] \in alive
         /\ phase[o] \in {"ready", "running", "returned"} => loop_of[o] = io[o]
         /\ phase[o] = "returned" => ~kept[io[o]]
         /\ loop_of[o] \in {NoLoop, io[o]} \/ (loop_of[o] \notin alive /\ ~kept[loop_of[o]])
         /\ \A u \in Origins \ {o} : io[o] # NoLoop => io[u] # io[o]
    /\ \A l \in Loops : l \notin alive => queue[l] = {}

\* The computations: one that is not over keeps its origin between set_event_loop() and the
\* destruction of the loop, if it is joined.
WorksInv ==
    \A w \in Works :
        /\ worker[w] = "unborn" <=> origin[w] = NoThread
        /\ stack[w] # <<>> => worker[w] = "posting"
        /\ Joins /\ origin[w] # NoThread /\ ~Ended(w) =>
             phase[origin[w]] \in {"ready", "running", "returned"}

\* The frame f at position i of the stack of t.  Functors do not nest, and computations run
\* none; a call that passes a functor passes one that belongs to the thread it is for.
LoopFrameInv(t, f, i) ==
    /\ f.at = "functor" =>
         i = 1 /\ t \in Origins /\ phase[t] = "running" /\ current[t] \in Functors
    /\ f.at \in {"schedule_execution", "handler"} =>
         passing[t] \in Functors /\ origin[passing[t].of] = Home(t)
    /\ f.id = Home(t)

LoopThreadInv(t) ==
    /\ \A i \in 1 .. Len(stack[t]) : LoopFrameInv(t, stack[t][i], i)
    /\ (t \in Origins /\ phase[t] \in {"none", "created", "binding"}) => stack[t] = <<>>

LoopCallsInv == \A t \in Threads : LoopThreadInv(t)

LoopDataOK ==
    /\ phase   \in [Origins -> {"none", "created", "binding", "ready", "running", "returned"}]
    /\ io      \in [Origins -> Loops \cup {NoLoop}]
    /\ loop_of \in [Origins -> Loops \cup {NoLoop}]
    /\ alive   \subseteq Loops
    /\ queue   \in [Loops -> SUBSET Functors]
    /\ kept    \in [Loops -> BOOLEAN]
    /\ passing \in [Threads -> Functors \cup {NoFn}]
    /\ current \in [Origins -> Functors \cup {NoFn}]
    /\ origin  \in [Works -> Origins \cup {NoThread}]
    /\ worker  \in [Works -> {"unborn", "computing", "posting"}]
    /\ pending \in [Works -> {"unborn", "callbacks", "done"}]
    /\ outcome \in [Works -> {"none", "value", "canceled"}]

LoopInv == LoopDataOK /\ LoopsInv /\ WorksInv /\ LoopCallsInv /\ Confined
-----------------------------------------------------------------------------
(* Every step of the loops is a step of the executor.                      *)

\* Each step of a loop, an origin or a computation is a step of Executor or leaves the
\* executor alone.
LEMMA LoopStepIsCall == LoopInv /\ LoopNext => [Next]_vars
<1> SUFFICES ASSUME LoopInv, LoopNext PROVE [Next]_vars
  OBVIOUS
<1> USE ThreadsAssumption
<1>1. ASSUME NEW o \in Origins, OriginStep(o) PROVE [Next]_vars
  <2>1. CASE BindEnd(o)
    BY <2>1 DEF BindEnd, Next
  <2>2. CASE Registered(o)
    BY <2>2 DEF Registered, Next
  <2>3. CASE Settle(o)
    BY <2>3 DEF Settle, PassTo, Next, vars
  <2>4. CASE FunctorEnds(o)
    BY <2>4 DEF FunctorEnds, Next
  <2>5. CASE \E l \in Loops : \E fn \in queue[l] : RunFunctor(o, fn)
    BY <2>5 DEF RunFunctor, Next
  <2> QED BY <1>1, <2>1, <2>2, <2>3, <2>4, <2>5 DEF OriginStep
<1>2. ASSUME NEW o \in Origins, OriginNext(o) PROVE [Next]_vars
  <2>1. CASE \/ \E l \in Loops : CreateLoop(o, l)
             \/ BindBegin(o) \/ Run(o) \/ OtherWorkEnds(o) \/ RunReturns(o)
             \/ \E w \in Works : Fy(o, w)
    BY <2>1 DEF CreateLoop, BindBegin, Run, OtherWorkEnds, RunReturns, Fy
  <2>2. CASE Destroy(o)
    BY <2>2 DEF Destroy, Next
  <2>3. CASE \E w \in Works : Cancel(o, w)
    BY <2>3 DEF Cancel, PassTo, Next
  <2> QED BY <1>1, <1>2, <2>1, <2>2, <2>3 DEF OriginNext
<1>3. ASSUME NEW w \in Works, Computed(w) PROVE [Next]_vars
  <2>1. Use(w, "schedule_execution", origin[w])
    BY <1>3 DEF Computed, PassTo
  <2>2. origin[w] \in Threads
    BY <1>3 DEF Computed, LoopInv, LoopDataOK, WorksInv
  <2> QED BY <2>1, <2>2 DEF Next
<1>4. ASSUME NEW t \in Threads, Library(t) PROVE [Next]_vars
  BY <1>4 DEF Library, Schedule, PostToLoop, Next
<1> QED BY <1>2, <1>3, <1>4 DEF LoopNext
-----------------------------------------------------------------------------
(* The steps that do not call the executor.                                *)

\* The call that is innermost in a thread.
LEMMA LoopInnermost ==
    ASSUME CallInv, LoopCallsInv, NEW t \in Threads, stack[t] # <<>>
    PROVE  /\ LoopFrameInv(t, Last(stack[t]), Len(stack[t]))
           /\ Home(t) \in Threads
           /\ Last(stack[t]).id = Home(t)
<1>1. /\ Len(stack[t]) \in Nat \ {0}
      /\ Last(stack[t]) = stack[t][Len(stack[t])]
      /\ Last(stack[t]) \in Frames
  BY Innermost
<1>2. LoopFrameInv(t, Last(stack[t]), Len(stack[t]))
  BY <1>1 DEF LoopCallsInv, LoopThreadInv
<1> QED BY <1>1, <1>2 DEF LoopFrameInv, Frames

\* An origin that constructs an io_service keeps the invariant.
LEMMA CreateLoopKeeps ==
    ASSUME LoopInv, NEW o \in Origins, NEW l \in Loops, CreateLoop(o, l)
    PROVE  LoopInv'
<1> USE ThreadsAssumption, DeferAssumption DEF LoopInv, LoopDataOK, CreateLoop, GotoPhase, ctxVars
<1>1. LoopDataOK'
  OBVIOUS
<1>2. LoopsInv'
  BY DEF LoopsInv
<1>3. WorksInv'
  BY DEF WorksInv, Ended, vars
<1>4. LoopCallsInv'
  BY DEF LoopCallsInv, LoopThreadInv, LoopFrameInv, Home, vars
<1>5. Confined'
  BY DEF LoopsInv, Confined
<1> QED BY <1>1, <1>2, <1>3, <1>4, <1>5

\* So does set_event_loop() when it begins to write the map of loops.
LEMMA BindBeginKeeps ==
    ASSUME LoopInv, NEW o \in Origins, BindBegin(o)
    PROVE  LoopInv'
<1> USE ThreadsAssumption, DeferAssumption DEF LoopInv, LoopDataOK, BindBegin, GotoPhase, ctxVars
<1>1. LoopDataOK'
  OBVIOUS
<1>2. LoopsInv'
  BY DEF LoopsInv
<1>3. WorksInv'
  BY DEF WorksInv, Ended, vars
<1>4. LoopCallsInv'
  BY DEF LoopCallsInv, LoopThreadInv, LoopFrameInv, Home, vars
<1>5. Confined'
  BY DEF LoopsInv, Confined
<1> QED BY <1>1, <1>2, <1>3, <1>4, <1>5

\* So does the call of io.run().
LEMMA RunKeeps ==
    ASSUME LoopInv, NEW o \in Origins, Run(o)
    PROVE  LoopInv'
<1> USE ThreadsAssumption, DeferAssumption DEF LoopInv, LoopDataOK, Run, GotoPhase, ctxVars
<1>1. LoopDataOK'
  OBVIOUS
<1>2. LoopsInv'
  BY DEF LoopsInv
<1>3. WorksInv'
  BY DEF WorksInv, Ended, vars
<1>4. LoopCallsInv'
  BY DEF LoopCallsInv, LoopThreadInv, LoopFrameInv, Home, vars
<1>5. Confined'
  BY DEF LoopsInv, Confined
<1> QED BY <1>1, <1>2, <1>3, <1>4, <1>5

\* So does the end of a timer or socket that kept a loop running.
LEMMA OtherWorkKeeps ==
    ASSUME LoopInv, NEW o \in Origins, OtherWorkEnds(o)
    PROVE  LoopInv'
<1> USE ThreadsAssumption, DeferAssumption DEF LoopInv, LoopDataOK, OtherWorkEnds, ctxVars
<1>1. LoopDataOK'
  OBVIOUS
<1>2. LoopsInv'
  BY DEF LoopsInv
<1>3. WorksInv'
  BY DEF WorksInv, Ended, vars
<1>4. LoopCallsInv'
  BY DEF LoopCallsInv, LoopThreadInv, LoopFrameInv, Home, vars
<1>5. Confined'
  BY DEF LoopsInv, Confined
<1> QED BY <1>1, <1>2, <1>3, <1>4, <1>5

\* io.run() returns when no functor is left: the loop keeps its owner.
LEMMA RunReturnsKeeps ==
    ASSUME LoopInv, NEW o \in Origins, RunReturns(o)
    PROVE  LoopInv'
<1> USE ThreadsAssumption, DeferAssumption DEF LoopInv, LoopDataOK, RunReturns, GotoPhase, ctxVars
<1>1. LoopDataOK'
  OBVIOUS
<1>2. LoopsInv'
  BY DEF LoopsInv
<1>3. WorksInv'
  BY DEF WorksInv, Ended, vars
<1>4. LoopCallsInv'
  BY DEF LoopCallsInv, LoopThreadInv, LoopFrameInv, Home, vars
<1>5. Confined'
  BY DEF LoopsInv, Confined
<1> QED BY <1>1, <1>2, <1>3, <1>4, <1>5

\* thread::fy starts a computation in a thread that had none.
LEMMA FyKeeps ==
    ASSUME CallInv, LoopInv, NEW o \in Origins, NEW w \in Works, Fy(o, w)
    PROVE  LoopInv'
<1> USE ThreadsAssumption, NullAssumption DEF LoopInv, LoopDataOK, Fy, ctxVars
<1>1. LoopDataOK'
  OBVIOUS
<1>2. LoopsInv'
  BY DEF LoopsInv
<1>3. origin[w] = NoThread /\ stack[w] = <<>> /\ Len(stack[w]) = 0
  BY EmptySeq DEF WorksInv
<1>4. phase[o] \in {"ready", "running", "returned"}
  BY LoopInnermost DEF InClientCode, In, LoopFrameInv
<1>5. origin'[w] = o /\ \A v \in Works \ {w} : origin'[v] = origin[v]
  OBVIOUS
<1>6. WorksInv'
  BY <1>3, <1>4, <1>5 DEF WorksInv, Ended, vars
<1>7. LoopCallsInv'
  <2> SUFFICES ASSUME NEW t \in Threads, NEW i \in 1 .. Len(stack[t])
               PROVE  LoopFrameInv(t, stack[t][i], i)'
    BY DEF LoopCallsInv, LoopThreadInv, vars
  <2>1. stack[t] # <<>> /\ t # w
    BY <1>3, EmptySeq DEF CallInv
  <2>2. Home(t) \in Threads /\ Home(t)' = Home(t)
    BY <1>5, <2>1, LoopInnermost DEF Home
  <2>3. LoopFrameInv(t, stack[t][i], i)
    BY DEF LoopCallsInv, LoopThreadInv
  <2>4. passing[t] \in Functors /\ origin[passing[t].of] = Home(t)
          => origin'[passing[t].of] = Home(t)
    BY <1>3, <1>5, <2>2 DEF Functors
  <2> QED BY <2>2, <2>3, <2>4 DEF LoopFrameInv, vars
<1>8. Confined'
  <2> SUFFICES ASSUME NEW u \in Origins, NEW fn, origin[fn.of] = u
               PROVE  origin'[fn.of] = u
    BY DEF Confined
  <2> QED BY <1>3, <1>5
<1> QED BY <1>1, <1>2, <1>6, <1>7, <1>8
-----------------------------------------------------------------------------
(* The steps that call the executor.                                       *)

\* A step of t leaves what holds of the other threads.
LEMMA OnlyThread ==
    ASSUME LoopCallsInv, NEW t \in Threads, LoopThreadInv(t)',
           \A u \in Threads \ {t} : /\ stack'[u] = stack[u]
                                    /\ passing'[u] = passing[u]
                                    /\ current'[u] = current[u]
                                    /\ phase'[u] = phase[u],
           UNCHANGED origin
    PROVE  LoopCallsInv'
BY DEF LoopCallsInv, LoopThreadInv, LoopFrameInv, Home

\* Client code of t calls: a functor on the loop has at most that functor below the call.
LEMMA LoopPush ==
    ASSUME CallInv, LoopCallsInv, NEW t \in Threads, RunsClientCode(t),
           NEW f \in Frames, Push(t, f),
           f.at = "functor" => stack[t] = <<>>,
           LoopFrameInv(t, f, 1)',
           UNCHANGED origin,
           t \in Origins => /\ phase'[t] \notin {"none", "created", "binding"}
                            /\ stack[t] # <<>> =>
                                  phase'[t] = phase[t] /\ current'[t] \in Functors
    PROVE  /\ LoopThreadInv(t)'
           /\ \A u \in Threads \ {t} : stack'[u] = stack[u]
<1>1. /\ \A u \in Threads \ {t} : stack'[u] = stack[u]
      /\ Len(stack[t]) \in Nat
      /\ Len(stack'[t]) = Len(stack[t]) + 1
      /\ \A i \in 1 .. Len(stack[t]) : stack'[t][i] = stack[t][i]
      /\ stack'[t][Len(stack[t]) + 1] = f
  BY Pushed
<1>2. ASSUME NEW i \in 1 .. Len(stack'[t])
      PROVE  LoopFrameInv(t, stack[t][i], i)'
  <2>1. CASE i \in 1 .. Len(stack[t])
    <3>1. stack[t] # <<>>
      BY <2>1, EmptySeq DEF CallInv
    <3>2. LoopFrameInv(t, stack[t][i], i)
      BY <2>1 DEF LoopCallsInv, LoopThreadInv
    <3>3. Last(stack[t]).at = "functor" /\ LoopFrameInv(t, Last(stack[t]), Len(stack[t]))
      BY <3>1, LoopInnermost DEF RunsClientCode, In
    <3>4. Len(stack[t]) = 1
      BY <3>3 DEF LoopFrameInv
    <3>5. i = 1
      BY <2>1, <3>4
    <3>6. stack[t][i] = Last(stack[t])
      BY <3>1, <3>4, <3>5, Innermost
    <3> QED BY <1>1, <2>1, <3>1, <3>2, <3>3, <3>6 DEF LoopFrameInv, Home
  <2>2. CASE i = Len(stack[t]) + 1
    <3>1. f.at = "functor" => i = 1
      BY <2>2, EmptySeq
    <3> QED BY <1>1, <2>2, <3>1 DEF LoopFrameInv
  <2> QED BY <1>1, <2>1, <2>2
<1> QED BY <1>1, <1>2 DEF LoopThreadInv

\* A call returns.
LEMMA LoopPop ==
    ASSUME CallInv, LoopCallsInv, NEW t \in Threads, stack[t] # <<>>, Pop(t),
           UNCHANGED <<origin, phase>>,
           passing'[t] = passing[t] \/ Last(stack[t]).at = "handler",
           t \in Origins => current'[t] = current[t] \/ Last(stack[t]).at = "functor"
    PROVE  LoopThreadInv(t)' /\ \A u \in Threads \ {t} : stack'[u] = stack[u]
<1> DEFINE n == Len(stack[t])
<1>1. /\ \A u \in Threads \ {t} : stack'[u] = stack[u]
      /\ n \in Nat \ {0}
      /\ Len(stack'[t]) = n - 1
      /\ \A i \in 1 .. n - 1 : stack'[t][i] = stack[t][i]
  BY Popped
<1>2. LoopFrameInv(t, Last(stack[t]), n)
  BY LoopInnermost
<1>3. t \in Origins => phase'[t] \notin {"none", "created", "binding"}
  BY DEF LoopCallsInv, LoopThreadInv
<1>4. ASSUME NEW i \in 1 .. n - 1
      PROVE  LoopFrameInv(t, stack[t][i], i)'
  <2>1. i \in 1 .. n /\ stack'[t][i] = stack[t][i] /\ stack[t][i].at = "functor"
    BY <1>1, OuterFrames
  <2>2. LoopFrameInv(t, stack[t][i], i)
    BY <2>1 DEF LoopCallsInv, LoopThreadInv
  <2>3. n # 1
    <3> HIDE DEF n
    <3> QED BY <1>1, <1>4
  <2>4. Last(stack[t]).at # "functor"
    BY <1>2, <2>3 DEF LoopFrameInv
  <2> QED BY <2>1, <2>2, <2>4 DEF LoopFrameInv, Home
<1> QED BY <1>1, <1>3, <1>4 DEF LoopThreadInv

\* The end of set_event_loop() registers the handler of the thread itself.
LEMMA BindEndKeeps ==
    ASSUME CallInv, LoopInv, NEW o \in Origins, BindEnd(o)
    PROVE  LoopInv'
<1> USE ThreadsAssumption, DeferAssumption DEF LoopInv, LoopDataOK, BindEnd, GotoPhase, ctxVars
<1>1. LoopDataOK'
  OBVIOUS
<1>2. LoopsInv'
  BY DEF LoopsInv
<1>3. PICK impl \in Impls : SetThisImpl(o, o, impl)
  OBVIOUS
<1> DEFINE f == Frame("set_impl", o, impl, FALSE)
<1>4. f \in Frames /\ f.at = "set_impl" /\ f.id = o
  BY DEF Frame, Frames, Methods
<1>5. RunsClientCode(o) /\ Push(o, f) /\ stack[o] = <<>>
  BY <1>3 DEF SetThisImpl, LoopCallsInv, LoopThreadInv
<1> HIDE DEF f
<1>6. LoopFrameInv(o, f, 1)' /\ phase'[o] = "ready"
  BY <1>4 DEF LoopFrameInv, Home
<1>7. LoopThreadInv(o)' /\ \A u \in Threads \ {o} : stack'[u] = stack[u]
  BY <1>4, <1>5, <1>6, LoopPush
<1>8. LoopCallsInv'
  BY <1>7, OnlyThread
<1>9. WorksInv'
  BY <1>7 DEF WorksInv, Ended
<1>10. Confined'
  BY DEF LoopsInv, Confined
<1> QED BY <1>1, <1>2, <1>8, <1>9, <1>10

\* set_impl() returns to set_event_loop(): the origin leaves the executor.
LEMMA RegisteredKeeps ==
    ASSUME CallInv, LoopInv, NEW o \in Origins, Registered(o)
    PROVE  LoopInv'
<1> USE ThreadsAssumption DEF LoopInv, Registered, loopVars, ctxVars
<1>1. LoopDataOK'
  BY DEF LoopDataOK
<1>2. LoopsInv'
  BY DEF LoopsInv
<1>3. stack[o] # <<>> /\ Pop(o)
  BY DEF SetRegistry, In
<1>4. LoopThreadInv(o)' /\ \A u \in Threads \ {o} : stack'[u] = stack[u]
  BY <1>3, LoopPop
<1>5. LoopCallsInv'
  BY <1>4, OnlyThread
<1>6. WorksInv'
  BY <1>4 DEF WorksInv, Ended
<1>7. Confined'
  BY DEF Confined
<1> QED BY <1>1, <1>2, <1>5, <1>6, <1>7

\* The loop takes a functor that it was given for its own origin.
LEMMA RunFunctorKeeps ==
    ASSUME CallInv, LoopInv, NEW o \in Origins, NEW l \in Loops, NEW fn \in queue[l],
           RunFunctor(o, fn)
    PROVE  LoopInv'
<1> USE ThreadsAssumption DEF LoopInv, LoopDataOK, RunFunctor
<1>0. fn \in Functors /\ io[o] \in Loops /\ io[o] # NoLoop /\ io[o] \in alive
  BY DEF LoopsInv
<1>1. LoopDataOK'
  BY <1>0 DEF Functors
<1>2. LoopsInv'
  BY <1>0 DEF LoopsInv
<1> DEFINE f == Frame("functor", o, NoImpl, FALSE)
<1>3. f \in Frames /\ f.at = "functor" /\ f.id = o
  BY DEF Frame, Frames, Methods
<1>4. RunsClientCode(o) /\ Push(o, f) /\ stack[o] = <<>>
  BY DEF RunDeferred, RunsClientCode
<1> HIDE DEF f
<1>5. current'[o] = fn /\ phase'[o] = "running"
  OBVIOUS
<1>6. LoopFrameInv(o, f, 1)'
  BY <1>0, <1>3, <1>5 DEF LoopFrameInv, Home
<1>7. LoopThreadInv(o)' /\ \A u \in Threads \ {o} : stack'[u] = stack[u]
  BY <1>3, <1>4, <1>5, <1>6, LoopPush
<1>8. LoopCallsInv'
  BY <1>7, OnlyThread
<1>9. WorksInv'
  BY <1>7 DEF WorksInv, Ended
<1>10. Confined'
  BY <1>0, <1>5 DEF LoopsInv, Confined
<1> QED BY <1>1, <1>2, <1>8, <1>9, <1>10

\* A call that passes a functor of the thread it is for.
LEMMA PassKeeps ==
    ASSUME CallInv, LoopInv, NEW t \in Threads, NEW fn \in Functors,
           NEW h \in Threads, h = Home(t), PassTo(t, fn, h), origin[fn.of] = h,
           UNCHANGED <<phase, origin>>,
           \A u \in Origins \ {t} : current'[u] = current[u],
           t \in Origins => /\ phase[t] \notin {"none", "created", "binding"}
                            /\ stack[t] # <<>> => current'[t] \in Functors
    PROVE  /\ passing' \in [Threads -> Functors \cup {NoFn}]
           /\ LoopCallsInv'
           /\ \A u \in Threads \ {t} : stack'[u] = stack[u]
<1> DEFINE f == Frame("schedule_execution", h, NoImpl, FALSE)
<1>1. f \in Frames /\ f.at = "schedule_execution" /\ f.id = h
  BY DEF Frame, Frames, Methods
<1>2. RunsClientCode(t) /\ Push(t, f) /\ passing' = [passing EXCEPT ![t] = fn]
  BY DEF PassTo, Use
<1> HIDE DEF f
<1>3. /\ passing' \in [Threads -> Functors \cup {NoFn}] /\ passing'[t] = fn
      /\ \A u \in Threads \ {t} : passing'[u] = passing[u]
  BY <1>2 DEF LoopInv, LoopDataOK
<1>4. LoopFrameInv(t, f, 1)'
  BY <1>1, <1>3 DEF LoopFrameInv, Home
<1>5. LoopThreadInv(t)' /\ \A u \in Threads \ {t} : stack'[u] = stack[u]
  BY <1>1, <1>2, <1>4, LoopPush DEF LoopInv
<1>6. ASSUME NEW u \in Threads \ {t} PROVE LoopThreadInv(u)'
  BY <1>3, <1>5 DEF LoopInv, LoopCallsInv, LoopThreadInv, LoopFrameInv, Home
<1> QED BY <1>3, <1>5, <1>6 DEF LoopCallsInv

\* The functor that a computation has posted completes the context of its own origin.
LEMMA SettleKeeps ==
    ASSUME CallInv, LoopInv, NEW o \in Origins, Settle(o)
    PROVE  LoopInv'
<1> USE ThreadsAssumption
<1>1. /\ In(o, "functor") /\ current' = [current EXCEPT ![o].do = "end"]
      /\ UNCHANGED <<phase, io, loop_of, alive, queue, kept, origin, worker, outcome>>
  BY DEF Settle
<1>2. /\ current[o] \in Functors /\ phase[o] = "running"
      /\ origin[current[o].of] = o
  <2>1. current[o] \in Functors /\ phase[o] = "running"
    BY <1>1, LoopInnermost DEF In, LoopInv, LoopFrameInv
  <2> QED BY <2>1, NoFnAssumption DEF LoopInv, Confined
<1>3. /\ current' \in [Origins -> Functors \cup {NoFn}]
      /\ current'[o] \in Functors /\ current'[o].of = current[o].of
      /\ \A u \in Origins \ {o} : current'[u] = current[u]
  BY <1>1, <1>2 DEF LoopInv, LoopDataOK, Functors
<1>4. LoopsInv'
  BY <1>1 DEF LoopInv, LoopsInv
<1>5. Confined'
  BY <1>1, <1>2, <1>3 DEF LoopInv, Confined
<1>6. CASE /\ pending' = [pending EXCEPT ![current[o].of] = "done"]
           /\ PassTo(o, Functor("continue", current[o].of, "value"), o)
  <2> DEFINE fn == Functor("continue", current[o].of, "value")
  <2>1. fn \in Functors /\ origin[fn.of] = o /\ Home(o) = o /\ PassTo(o, fn, o)
    BY <1>2, <1>6 DEF Functors, Functor, Home
  <2> HIDE DEF fn
  <2>2. /\ passing' \in [Threads -> Functors \cup {NoFn}]
        /\ LoopCallsInv'
        /\ \A u \in Threads \ {o} : stack'[u] = stack[u]
    BY <1>1, <1>2, <1>3, <2>1, PassKeeps
  <2>3. LoopDataOK'
    BY <1>1, <1>2, <1>3, <1>6, <2>2 DEF LoopInv, LoopDataOK, Functors
  <2>4. WorksInv'
    BY <1>1, <2>2 DEF LoopInv, WorksInv, Ended
  <2> QED BY <1>4, <1>5, <2>2, <2>3, <2>4 DEF LoopInv
<1>7. CASE UNCHANGED <<vars, pending, passing>>
  <2>1. LoopDataOK'
    BY <1>1, <1>3, <1>7 DEF LoopInv, LoopDataOK
  <2>2. WorksInv'
    BY <1>1, <1>7 DEF LoopInv, WorksInv, Ended, vars
  <2>3. LoopCallsInv'
    BY <1>1, <1>3, <1>7 DEF LoopInv, LoopCallsInv, LoopThreadInv, LoopFrameInv, Home, vars
  <2> QED BY <1>4, <1>5, <2>1, <2>2, <2>3 DEF LoopInv
<1> QED BY <1>6, <1>7 DEF Settle

\* A functor of the loop returns to io.run().
LEMMA FunctorEndsKeeps ==
    ASSUME CallInv, LoopInv, NEW o \in Origins, FunctorEnds(o)
    PROVE  LoopInv'
<1> USE ThreadsAssumption DEF LoopInv, FunctorEnds, ctxVars
<1>1. LoopDataOK'
  BY DEF LoopDataOK
<1>2. LoopsInv'
  BY DEF LoopsInv
<1>3. stack[o] # <<>> /\ Pop(o) /\ Last(stack[o]).at = "functor"
  BY DEF FunctorReturns, In, Return
<1>4. LoopThreadInv(o)' /\ \A u \in Threads \ {o} : stack'[u] = stack[u]
  BY <1>3, LoopPop
<1>5. \A u \in Threads \ {o} : current'[u] = current[u]
  BY DEF LoopDataOK
<1>6. LoopCallsInv'
  BY <1>4, <1>5, OnlyThread
<1>7. WorksInv'
  BY <1>4 DEF WorksInv, Ended
<1>8. Confined'
  BY DEF LoopDataOK, Confined
<1> QED BY <1>1, <1>2, <1>6, <1>7, <1>8

\* cancel() of the operation of thread::fy passes a continuation of the thread that calls
\* it to the executor.
LEMMA CancelKeeps ==
    ASSUME CallInv, LoopInv, NEW o \in Origins, NEW w \in Works, Cancel(o, w)
    PROVE  LoopInv'
<1> USE ThreadsAssumption DEF ctxVars
<1>1. /\ InClientCode(o) /\ origin[w] = o /\ pending' = [pending EXCEPT ![w] = "done"]
      /\ PassTo(o, Functor("continue", w, "canceled"), o)
      /\ UNCHANGED <<phase, io, loop_of, alive, queue, kept, current, origin, worker, outcome>>
  BY DEF Cancel
<1> DEFINE fn == Functor("continue", w, "canceled")
<1>2. fn \in Functors /\ origin[fn.of] = o /\ Home(o) = o /\ PassTo(o, fn, o)
  BY <1>1 DEF Functors, Functor, Home
<1> HIDE DEF fn
<1>3. /\ phase[o] \notin {"none", "created", "binding"}
      /\ stack[o] # <<>> => current'[o] \in Functors
  BY <1>1, LoopInnermost DEF InClientCode, In, LoopInv, LoopFrameInv
<1>4. /\ passing' \in [Threads -> Functors \cup {NoFn}]
      /\ LoopCallsInv'
      /\ \A u \in Threads \ {o} : stack'[u] = stack[u]
  BY <1>1, <1>2, <1>3, PassKeeps
<1>5. LoopDataOK'
  BY <1>1, <1>4 DEF LoopInv, LoopDataOK
<1>6. LoopsInv' /\ Confined'
  BY <1>1 DEF LoopInv, LoopsInv, Confined
<1>7. WorksInv'
  BY <1>1, <1>4 DEF LoopInv, WorksInv, Ended
<1> QED BY <1>4, <1>5, <1>6, <1>7 DEF LoopInv

\* A computation passes the functor for its own context to the thread of its origin.
LEMMA ComputedKeeps ==
    ASSUME CallInv, LoopInv, NEW w \in Works, Computed(w)
    PROVE  LoopInv'
<1> USE ThreadsAssumption
<1>1. /\ worker[w] = "computing" /\ worker' = [worker EXCEPT ![w] = "posting"]
      /\ PassTo(w, Functor("settle", w, "value"), origin[w])
      /\ UNCHANGED <<phase, io, loop_of, alive, queue, kept, current, origin, pending, outcome>>
  BY DEF Computed
<1> DEFINE fn == Functor("settle", w, "value")
<1>2. /\ fn \in Functors /\ fn.of = w /\ Home(w) = origin[w] /\ PassTo(w, fn, origin[w])
      /\ origin[w] \in Origins /\ w \notin Origins
  BY <1>1 DEF Functors, Functor, Home, LoopInv, LoopDataOK, WorksInv
<1> HIDE DEF fn
<1>3. /\ passing' \in [Threads -> Functors \cup {NoFn}]
      /\ LoopCallsInv'
      /\ \A u \in Threads \ {w} : stack'[u] = stack[u]
  BY <1>1, <1>2, PassKeeps
<1>4. LoopDataOK'
  BY <1>1, <1>3 DEF LoopInv, LoopDataOK
<1>5. LoopsInv' /\ Confined'
  BY <1>1 DEF LoopInv, LoopsInv, Confined
<1>6. WorksInv'
  BY <1>1, <1>2, <1>3 DEF LoopInv, LoopDataOK, WorksInv, Ended
<1> QED BY <1>3, <1>4, <1>5, <1>6 DEF LoopInv

\* schedule_execution() finds a handler, or nothing, for the functor it was passed.
LEMMA ScheduleKeeps ==
    ASSUME CallInv, LoopInv, NEW t \in Threads, Schedule(t)
    PROVE  LoopInv'
<1> USE ThreadsAssumption DEF loopVars, ctxVars
<1>1. /\ ScheduleExecution(t) /\ UNCHANGED loopVars
      /\ stack[t] # <<>> /\ Last(stack[t]).at = "schedule_execution"
  BY DEF Schedule, ScheduleExecution, In
<1> DEFINE n  == Len(stack[t])
           id == Last(stack[t]).id
           f  == Frame("handler", id, IF Cached(t, id) THEN this_impl[t] ELSE registry[id],
                       ~Cached(t, id))
<1>2. id \in Threads /\ id = Home(t)
  BY <1>1, LoopInnermost DEF LoopInv
<1>3. f \in Frames /\ f.at = "handler" /\ f.id = id
  BY <1>2 DEF Frame, Frames, Cached, CallInv
<1>4. Replace(t, f)
  BY <1>1 DEF ScheduleExecution
<1>5. LoopFrameInv(t, Last(stack[t]), n)
  BY <1>1, LoopInnermost DEF LoopInv
<1> HIDE DEF f
<1>6. /\ \A u \in Threads \ {t} : stack'[u] = stack[u]
      /\ n \in Nat \ {0}
      /\ Len(stack'[t]) = n
      /\ \A i \in 1 .. n - 1 : stack'[t][i] = stack[t][i]
      /\ stack'[t][n] = f
  BY <1>1, <1>3, <1>4, Replaced
<1>7. ASSUME NEW i \in 1 .. Len(stack'[t]) PROVE LoopFrameInv(t, stack[t][i], i)'
  <2>1. CASE i \in 1 .. n - 1
    <3>1. i \in 1 .. n
      BY <1>6, <2>1
    <3>2. LoopFrameInv(t, stack[t][i], i)
      BY <3>1 DEF LoopInv, LoopCallsInv, LoopThreadInv
    <3> QED BY <1>1, <1>6, <2>1, <3>2 DEF LoopFrameInv, Home
  <2>2. CASE i = n
    <3>1. passing[t] \in Functors /\ origin[passing[t].of] = Home(t)
      BY <1>1, <1>5 DEF LoopFrameInv
    <3> QED BY <1>1, <1>2, <1>3, <1>6, <2>2, <3>1 DEF LoopFrameInv, Home
  <2> QED BY <1>6, <2>1, <2>2
<1>8. t \in Origins => phase'[t] \notin {"none", "created", "binding"}
  BY <1>1 DEF LoopInv, LoopCallsInv, LoopThreadInv
<1>9. LoopCallsInv'
  BY <1>1, <1>6, <1>7, <1>8, OnlyThread DEF LoopInv, LoopThreadInv
<1>10. LoopDataOK' /\ LoopsInv' /\ Confined'
  BY <1>1 DEF LoopInv, LoopDataOK, LoopsInv, Confined
<1>11. WorksInv'
  BY <1>1, <1>6 DEF LoopInv, WorksInv, Ended
<1> QED BY <1>9, <1>10, <1>11 DEF LoopInv

\* The handler posts the functor to the loop of the thread the functor belongs to.
LEMMA PostToLoopKeeps ==
    ASSUME CallInv, LoopInv, NEW t \in Threads, PostToLoop(t)
    PROVE  LoopInv'
<1> USE ThreadsAssumption, DeferAssumption
<1> DEFINE id == Last(stack[t]).id
           l  == loop_of[id]
<1>1. /\ Handle(t)
      /\ queue' = IF l \in alive THEN [queue EXCEPT ![l] = @ \cup {passing[t]}] ELSE queue
      /\ passing' = [passing EXCEPT ![t] = NoFn]
      /\ UNCHANGED <<phase, io, loop_of, alive, kept, current, ctxVars>>
  BY DEF PostToLoop
<1>2. /\ stack[t] # <<>> /\ Last(stack[t]).at = "handler" /\ Pop(t)
  BY <1>1 DEF Handle, In, Return
<1>3. id = Home(t) /\ passing[t] \in Functors /\ origin[passing[t].of] = id
  BY <1>2, LoopInnermost DEF LoopInv, LoopFrameInv
<1>4. id \in Origins
  BY <1>3, <1>2, LoopInnermost, NullAssumption DEF Home, LoopInv, LoopDataOK
<1>5. LoopThreadInv(t)' /\ \A u \in Threads \ {t} : stack'[u] = stack[u]
  BY <1>1, <1>2, LoopPop DEF LoopInv, LoopDataOK, ctxVars
<1>6. /\ passing' \in [Threads -> Functors \cup {NoFn}]
      /\ \A u \in Threads \ {t} : passing'[u] = passing[u]
  BY <1>1 DEF LoopInv, LoopDataOK
<1>7. LoopCallsInv'
  BY <1>1, <1>5, <1>6, OnlyThread DEF LoopInv, ctxVars
<1>8. l \in alive => io[id] = l /\ l \in Loops
  BY <1>4 DEF LoopInv, LoopDataOK, LoopsInv
<1>9. /\ queue' \in [Loops -> SUBSET Functors]
      /\ \A k \in Loops : \A fn \in queue'[k] :
           fn \in queue[k] \/ (fn = passing[t] /\ k = l /\ l \in alive)
  BY <1>1, <1>3, <1>8 DEF LoopInv, LoopDataOK
<1>10. LoopDataOK'
  BY <1>1, <1>6, <1>9 DEF LoopInv, LoopDataOK, ctxVars
<1>11. LoopsInv'
  BY <1>1, <1>9 DEF LoopInv, LoopsInv
<1>12. WorksInv'
  BY <1>1, <1>2, <1>5 DEF LoopInv, WorksInv, Ended, ctxVars
<1>13. Confined'
  <2> SUFFICES ASSUME NEW o \in Origins, io[o] # NoLoop, NEW fn \in queue'[io[o]]
               PROVE  origin[fn.of] = o
    BY <1>1 DEF LoopInv, Confined, ctxVars
  <2>1. CASE fn \in queue[io[o]]
    BY <2>1 DEF LoopInv, Confined
  <2>2. CASE fn = passing[t] /\ io[o] = l /\ l \in alive
    <3>1. id = o
      BY <1>4, <1>8, <2>2 DEF LoopInv, LoopsInv
    <3> QED BY <1>3, <2>2, <3>1
  <2> QED BY <1>9, <2>1, <2>2 DEF LoopInv, LoopDataOK
<1> QED BY <1>7, <1>10, <1>11, <1>12, <1>13 DEF LoopInv

\* The destruction of a loop, which its map entry outlives.
LEMMA DestroyKeeps ==
    ASSUME CallInv, LoopInv, NEW o \in Origins, Destroy(o)
    PROVE  LoopInv'
<1> USE ThreadsAssumption, DeferAssumption, JoinsAssumption
<1>1. /\ phase[o] = "returned" /\ stack[o] = <<>> /\ Joined(o)
      /\ phase' = [phase EXCEPT ![o] = "none"]
      /\ alive' = alive \ {io[o]}
      /\ io' = [io EXCEPT ![o] = NoLoop]
      /\ queue' = [queue EXCEPT ![io[o]] = {}]
      /\ UNCHANGED <<loop_of, kept, passing, current, origin, worker, pending, outcome>>
  BY DEF Destroy, GotoPhase, ctxVars
<1>2. UNCHANGED <<registry, this_impl, reg_mutex, stack>>
  BY DEF Destroy, DropDeferred, vars
<1>3. io[o] \in Loops /\ io[o] # NoLoop /\ ~kept[io[o]]
  BY <1>1 DEF LoopInv, LoopDataOK, LoopsInv
<1>4. LoopDataOK'
  BY <1>1, <1>3 DEF LoopInv, LoopDataOK
<1>5. LoopsInv'
  BY <1>1, <1>3 DEF LoopInv, LoopDataOK, LoopsInv
<1>6. WorksInv'
  <2> SUFFICES ASSUME NEW w \in Works, Joins, origin[w] # NoThread, ~Ended(w)
               PROVE  phase'[origin[w]] \in {"ready", "running", "returned"}
    BY <1>1, <1>2 DEF LoopInv, WorksInv, Ended
  <2>1. origin[w] \in Origins \ {o}
    BY <1>1 DEF Joined, LoopInv, LoopDataOK
  <2> QED BY <1>1, <2>1 DEF LoopInv, LoopDataOK, WorksInv
<1>7. LoopCallsInv'
  <2>1. ASSUME NEW t \in Threads PROVE LoopThreadInv(t)'
    <3>1. CASE t = o
      <4>1. Len(stack[o]) = 0
        BY <1>1, EmptySeq
      <4> QED BY <1>1, <1>2, <3>1, <4>1 DEF LoopThreadInv
    <3>2. CASE t # o
      <4>1. t \in Origins => phase'[t] = phase[t]
        BY <1>1, <3>2 DEF LoopInv, LoopDataOK
      <4> QED BY <1>1, <1>2, <4>1 DEF LoopInv, LoopCallsInv, LoopThreadInv, LoopFrameInv, Home
    <3> QED BY <3>1, <3>2
  <2> QED BY <2>1 DEF LoopCallsInv
<1>8. Confined'
  BY <1>1, <1>3 DEF LoopInv, LoopDataOK, Confined
<1> QED BY <1>4, <1>5, <1>6, <1>7, <1>8 DEF LoopInv
-----------------------------------------------------------------------------
(* The theorems.                                                           *)

\* Every step of LoopSpec keeps LoopInv.
LEMMA LoopStep == CallInv /\ LoopInv /\ [LoopNext]_eventVars => LoopInv'
<1> SUFFICES ASSUME CallInv, LoopInv, [LoopNext]_eventVars
             PROVE  LoopInv'
  OBVIOUS
<1>1. ASSUME NEW o \in Origins, OriginNext(o) PROVE LoopInv'
  BY <1>1, BindEndKeeps, RegisteredKeeps, SettleKeeps, FunctorEndsKeeps, RunFunctorKeeps,
     CreateLoopKeeps, BindBeginKeeps, RunKeeps, OtherWorkKeeps, RunReturnsKeeps, DestroyKeeps,
     FyKeeps, CancelKeeps DEF OriginNext, OriginStep
<1>2. ASSUME NEW w \in Works, Computed(w) PROVE LoopInv'
  BY <1>2, ComputedKeeps
<1>3. ASSUME NEW t \in Threads, Library(t) PROVE LoopInv'
  BY <1>3, ScheduleKeeps, PostToLoopKeeps DEF Library
<1>4. CASE UNCHANGED eventVars
  BY <1>4 DEF eventVars, loopVars, ctxVars, vars, LoopInv, LoopDataOK, LoopsInv, WorksInv,
     Ended, LoopCallsInv, LoopThreadInv, LoopFrameInv, Home, Confined
<1> QED BY <1>1, <1>2, <1>3, <1>4 DEF LoopNext

\* The inductive invariant, together with that of the executor.
THEOREM LoopInvariant == LoopSpec => [](CallInv /\ LoopInv)
<1> USE ThreadsAssumption, NullAssumption
<1>1. LoopInit => CallInv
  BY InitCall DEF LoopInit
<1>2. LoopInit => LoopInv
  <2> SUFFICES ASSUME LoopInit PROVE LoopInv
    OBVIOUS
  <2>1. LoopDataOK /\ LoopsInv /\ Confined
    BY DEF LoopInit, LoopDataOK, LoopsInv, Confined
  <2>2. \A t \in Threads : stack[t] = <<>> /\ Len(stack[t]) = 0
    BY EmptySeq DEF LoopInit, Init
  <2>3. WorksInv /\ LoopCallsInv
    BY <2>2 DEF LoopInit, WorksInv, Ended, LoopCallsInv, LoopThreadInv
  <2> QED BY <2>1, <2>3 DEF LoopInv
<1>3. CallInv /\ LoopInv /\ [LoopNext]_eventVars => CallInv' /\ LoopInv'
  <2>1. CallInv /\ LoopInv /\ [LoopNext]_eventVars => [Next]_vars
    BY LoopStepIsCall DEF eventVars
  <2> QED BY <2>1, CallStep, LoopStep
<1> QED BY <1>1, <1>2, <1>3, PTL DEF LoopSpec

\* The event loops and computations use the executor as Executor says anybody may: all that
\* is proved of Executor holds of them.
THEOREM LoopImplementsExecutor == LoopSpec => Spec
<1>1. LoopInit => Init
  BY DEF LoopInit
<1>2. LoopInv /\ [LoopNext]_eventVars => [Next]_vars
  BY LoopStepIsCall DEF eventVars
<1> QED BY <1>1, <1>2, LoopInvariant, PTL DEF LoopSpec, Spec

\* Every variable of the loops has its type: a functor is in flight from the call that passes
\* it to the loop that runs it, without the handler ever posting an empty one.
THEOREM LoopTypes == LoopSpec => []LoopTypeOK
<1>1. TypeOK /\ LoopInv => LoopTypeOK
  BY DEF LoopInv, LoopDataOK, LoopTypeOK
<1> QED BY <1>1, LoopInvariant, LoopImplementsExecutor, ExecutorTypeOK, PTL

\* A context is completed and continued in the thread of its origin only, although
\* computations and other origins post concurrently and io_services are destroyed and
\* constructed in between: a stale entry of the map never leads a functor to another loop.
THEOREM ContextsConfined == LoopSpec => []Confined
BY LoopInvariant, PTL DEF LoopInv

\* If every origin joins its computations before it destroys its loop, no handler posts to a
\* loop that does not exist any more, in the origin's thread or in that of a computation.
THEOREM LoopOutlives ==
    ASSUME Joins
    PROVE  LoopSpec => []LoopOutlivesPosts
<1>1. CallInv /\ LoopInv => LoopOutlivesPosts
  <2> SUFFICES ASSUME CallInv, LoopInv, NEW t \in Threads, In(t, "handler")
               PROVE  loop_of[Last(stack[t]).id] \in alive
    BY DEF LoopOutlivesPosts
  <2>1. /\ stack[t] # <<>>
        /\ Last(stack[t]).id = Home(t) /\ Home(t) \in Threads
    BY LoopInnermost DEF In, LoopInv
  <2>2. Home(t) \in Origins /\ phase[Home(t)] \in {"ready", "running", "returned"}
    <3>1. CASE t \in Works
      BY <2>1, <3>1, ThreadsAssumption, NullAssumption
      DEF Home, LoopInv, LoopDataOK, WorksInv, Ended
    <3>2. CASE t \in Origins
      BY <2>1, <3>2, ThreadsAssumption
      DEF Home, LoopInv, LoopDataOK, LoopCallsInv, LoopThreadInv
    <3> QED BY <3>1, <3>2, ThreadsAssumption
  <2> QED BY <2>1, <2>2 DEF LoopInv, LoopsInv, LoopDataOK
<1> QED BY <1>1, LoopInvariant, PTL

\* In a program with one event loop thread that joins its computations, set_event_loop()
\* never writes to the map of loops while a computation reads it in the handler.
THEOREM MapIsNotRaced ==
    ASSUME Joins
    PROVE  LoopSpec => []NoMapRace
<1>1. CallInv /\ LoopInv => NoMapRace
  <2> SUFFICES ASSUME CallInv, LoopInv,
                      NEW o \in Origins, phase[o] = "binding", OnlyLoopThread(o),
                      NEW w \in Works, In(w, "handler")
               PROVE  FALSE
    BY DEF NoMapRace
  <2>1. origin[w] \in Origins /\ phase[origin[w]] \in {"ready", "running", "returned"}
    BY LoopInnermost, ThreadsAssumption, NullAssumption
    DEF In, Home, LoopInv, LoopDataOK, WorksInv, Ended
  <2> QED BY <2>1 DEF OnlyLoopThread
<1> QED BY <1>1, LoopInvariant, PTL
-----------------------------------------------------------------------------
(* The calls into the executor succeed: a thread that is scheduled for has *)
(* a handler, which schedule_execution() asserts, and waits for reg_mutex  *)
(* come to an end.                                                         *)

\* Wherever the loops call the executor, for themselves or for the origin of a computation,
\* the assertion that the thread has a handler holds.  (Use has it as a guard: a thread
\* for which it failed would do nothing in the model.)
HandlersRegistered ==
    /\ \A w \in Works : worker[w] = "computing" => registry[origin[w]] # NoImpl
    /\ \A o \in Origins : (InClientCode(o) \/ In(o, "functor")) => registry[o] # NoImpl

\* Nothing keeps the thread of w from its next step (the bound MaxDepth aside).
Unhindered(w) ==
    \/ worker[w] = "computing" /\ stack[w] = <<>> /\ registry[origin[w]] # NoImpl
    \/ In(w, "schedule_execution") /\ reg_mutex = NoThread
    \/ In(w, "handler")

\* The thread of a computation, which its origin may be waiting to join, is on its way to
\* its end, or the owner of the reg_mutex it waits for is in a handler, which only posts.
ComputationsGoOn ==
    \A w \in Works : (origin[w] # NoThread /\ ~Ended(w)) =>
        Unhindered(w) \/ \E u \in Threads : reg_mutex = u /\ In(u, "handler")

HasLoop(o) == phase[o] \in {"ready", "running", "returned"}

\* Once set_event_loop() has returned, its thread has a handler, for good.
HandlerInv ==
    /\ \A o \in Origins : (HasLoop(o) /\ ~In(o, "set_impl")) => registry[o] # NoImpl
    /\ \A w \in Works : origin[w] # NoThread => registry[origin[w]] # NoImpl

\* reg_mutex is kept locked in handlers only, and computations do nothing but schedule.
FrameKinds(t, f) ==
    /\ f.guard => f.at = "handler"
    /\ t \in Works => f.at \in {"schedule_execution", "handler"}

KindsInv == \A t \in Threads : \A i \in 1 .. Len(stack[t]) : FrameKinds(t, stack[t][i])

\* What a step of t does to its stack and to the registry.
Pushes(t) ==
    \E f \in Frames :
        /\ RunsClientCode(t) /\ Push(t, f) /\ registry' = registry
        /\ ~f.guard
        /\ t \in Works => f.at = "schedule_execution"
        /\ (t \in Origins /\ phase[t] = "binding") => f.at = "set_impl"

Registers(t) ==
    /\ In(t, "set_impl") /\ Pop(t) /\ t \in Origins
    /\ \E impl \in Impls : registry' = [registry EXCEPT ![t] = impl]

Returns(t) == (In(t, "handler") \/ In(t, "functor")) /\ Pop(t) /\ registry' = registry

Finds(t) ==
    \E f \in Frames :
        In(t, "schedule_execution") /\ Replace(t, f) /\ f.at = "handler" /\ registry' = registry

CallsExecutor(t) == Pushes(t) \/ Registers(t) \/ Returns(t) \/ Finds(t)

\* A step of the loops is one of these, in one thread, or leaves stacks and registry alone.
LEMMA StepCalls ==
    ASSUME CallInv, LoopInv, LoopNext
    PROVE  UNCHANGED <<stack, registry>> \/ \E t \in Threads : CallsExecutor(t)
<1> USE ThreadsAssumption
<1>1. ASSUME NEW t \in Threads, NEW fn, NEW h \in Threads, PassTo(t, fn, h),
             t \in Origins => phase[t] # "binding"
      PROVE  Pushes(t)
  <2> DEFINE f == Frame("schedule_execution", h, NoImpl, FALSE)
  <2>1. f \in Frames /\ f.at = "schedule_execution" /\ ~f.guard
    BY DEF Frame, Frames, Methods
  <2>2. RunsClientCode(t) /\ Push(t, f) /\ registry' = registry
    BY <1>1 DEF PassTo, Use
  <2> HIDE DEF f
  <2> QED BY <1>1, <2>1, <2>2 DEF Pushes
<1>2. ASSUME NEW o \in Origins, BindEnd(o) PROVE Pushes(o)
  <2>1. PICK impl \in Impls : SetThisImpl(o, o, impl)
    BY <1>2 DEF BindEnd
  <2> DEFINE f == Frame("set_impl", o, impl, FALSE)
  <2>2. f \in Frames /\ f.at = "set_impl" /\ ~f.guard
    BY DEF Frame, Frames, Methods
  <2>3. RunsClientCode(o) /\ Push(o, f) /\ registry' = registry
    BY <2>1 DEF SetThisImpl
  <2> HIDE DEF f
  <2> QED BY <2>2, <2>3 DEF Pushes
<1>3. ASSUME NEW o \in Origins, Registered(o) PROVE Registers(o)
  <2>1. /\ In(o, "set_impl") /\ Pop(o)
        /\ registry' = [registry EXCEPT ![Last(stack[o]).id] = Last(stack[o]).impl]
    BY <1>3 DEF Registered, SetRegistry
  <2>2. stack[o] # <<>> /\ Last(stack[o]).at = "set_impl"
    BY <2>1 DEF In
  <2>3. Last(stack[o]).id = o
    BY <2>2, LoopInnermost DEF LoopInv, Home
  <2>4. Last(stack[o]).impl \in Impls
    BY <2>2, Innermost DEF FrameInv
  <2> QED BY <2>1, <2>3, <2>4 DEF Registers
<1>4. ASSUME NEW o \in Origins, Settle(o)
      PROVE  UNCHANGED <<stack, registry>> \/ Pushes(o)
  <2>1. phase[o] # "binding"
    BY <1>4 DEF Settle, In, LoopInv, LoopCallsInv, LoopThreadInv
  <2> QED BY <1>1, <1>4, <2>1 DEF Settle, vars
<1>5. ASSUME NEW o \in Origins, FunctorEnds(o) PROVE Returns(o)
  BY <1>5 DEF FunctorEnds, FunctorReturns, Return, Returns
<1>6. ASSUME NEW o \in Origins, NEW fn, RunFunctor(o, fn) PROVE Pushes(o)
  <2> DEFINE f == Frame("functor", o, NoImpl, FALSE)
  <2>1. f \in Frames /\ ~f.guard
    BY DEF Frame, Frames, Methods
  <2>2. RunsClientCode(o) /\ Push(o, f) /\ registry' = registry /\ phase[o] = "running"
    BY <1>6 DEF RunFunctor, RunDeferred, RunsClientCode
  <2> HIDE DEF f
  <2> QED BY <2>1, <2>2 DEF Pushes
<1>7. ASSUME NEW o \in Origins, NEW w \in Works, Cancel(o, w) PROVE Pushes(o)
  <2>1. phase[o] # "binding"
    BY <1>7 DEF Cancel, InClientCode, In, LoopInv, LoopCallsInv, LoopThreadInv
  <2> QED BY <1>1, <1>7, <2>1 DEF Cancel
<1>8. ASSUME NEW w \in Works, Computed(w) PROVE Pushes(w)
  <2>1. origin[w] \in Threads /\ w \notin Origins
    BY <1>8 DEF Computed, LoopInv, LoopDataOK, WorksInv
  <2> QED BY <1>1, <1>8, <2>1 DEF Computed
<1>9. ASSUME NEW t \in Threads, Schedule(t) PROVE Finds(t)
  <2>1. In(t, "schedule_execution") /\ ScheduleExecution(t)
    BY <1>9 DEF Schedule, ScheduleExecution
  <2>2. Last(stack[t]).id \in Threads
    BY <2>1, LoopInnermost DEF In, LoopInv
  <2> QED BY <2>1, <2>2
      DEF ScheduleExecution, Cached, Finds, Frame, Frames, CallInv
<1>10. ASSUME NEW t \in Threads, PostToLoop(t) PROVE Returns(t)
  BY <1>10, DeferAssumption DEF PostToLoop, Handle, Return, Returns
<1>11. ASSUME NEW o \in Origins, Destroy(o) PROVE UNCHANGED <<stack, registry>>
  BY <1>11 DEF Destroy, DropDeferred, vars
<1>12. ASSUME NEW o \in Origins,
              \/ \E l \in Loops : CreateLoop(o, l)
              \/ BindBegin(o) \/ Run(o) \/ OtherWorkEnds(o) \/ RunReturns(o)
              \/ \E w \in Works : Fy(o, w)
       PROVE  UNCHANGED <<stack, registry>>
  BY <1>12 DEF CreateLoop, BindBegin, Run, OtherWorkEnds, RunReturns, Fy, vars
<1>13. ASSUME NEW o \in Origins, OriginNext(o)
       PROVE  UNCHANGED <<stack, registry>> \/ CallsExecutor(o)
  BY <1>2, <1>3, <1>4, <1>5, <1>6, <1>7, <1>11, <1>12, <1>13
  DEF OriginNext, OriginStep, CallsExecutor
<1> QED BY <1>8, <1>9, <1>10, <1>13 DEF LoopNext, Library, CallsExecutor

\* The calls that a thread has open remain of their kinds.
LEMMA KindsKept ==
    ASSUME CallInv, LoopInv, KindsInv, NEW t \in Threads, CallsExecutor(t)
    PROVE  KindsInv'
<1> DEFINE n == Len(stack[t])
<1>1. CASE Pushes(t)
  <2>1. PICK f \in Frames : /\ Push(t, f) /\ ~f.guard
                            /\ t \in Works => f.at = "schedule_execution"
    BY <1>1 DEF Pushes
  <2>2. /\ \A u \in Threads \ {t} : stack'[u] = stack[u]
        /\ n \in Nat
        /\ Len(stack'[t]) = n + 1
        /\ \A i \in 1 .. n : stack'[t][i] = stack[t][i]
        /\ stack'[t][n + 1] = f
    BY <2>1, Pushed
  <2>3. FrameKinds(t, f)
    BY <2>1 DEF FrameKinds
  <2>4. ASSUME NEW i \in 1 .. n + 1 PROVE FrameKinds(t, stack'[t][i])
    BY <2>2, <2>3 DEF KindsInv
  <2> QED BY <2>2, <2>4 DEF KindsInv, FrameKinds
<1>2. CASE Registers(t) \/ Returns(t)
  <2>1. stack[t] # <<>> /\ Pop(t)
    BY <1>2 DEF Registers, Returns, In
  <2>2. /\ \A u \in Threads \ {t} : stack'[u] = stack[u]
        /\ n \in Nat \ {0}
        /\ Len(stack'[t]) = n - 1
        /\ \A i \in 1 .. n - 1 : stack'[t][i] = stack[t][i]
    BY <2>1, Popped
  <2>3. ASSUME NEW i \in 1 .. n - 1 PROVE FrameKinds(t, stack'[t][i])
    BY <2>2 DEF KindsInv
  <2> QED BY <2>2, <2>3 DEF KindsInv, FrameKinds
<1>3. CASE Finds(t)
  <2>1. PICK f \in Frames : Replace(t, f) /\ f.at = "handler"
    BY <1>3 DEF Finds
  <2>2. stack[t] # <<>>
    BY <1>3 DEF Finds, In
  <2>3. /\ \A u \in Threads \ {t} : stack'[u] = stack[u]
        /\ n \in Nat \ {0}
        /\ Len(stack'[t]) = n
        /\ \A i \in 1 .. n - 1 : stack'[t][i] = stack[t][i]
        /\ stack'[t][n] = f
    BY <2>1, <2>2, Replaced
  <2>4. FrameKinds(t, f)
    BY <2>1 DEF FrameKinds
  <2>5. ASSUME NEW i \in 1 .. n PROVE FrameKinds(t, stack'[t][i])
    BY <2>3, <2>4 DEF KindsInv
  <2> QED BY <2>3, <2>5 DEF KindsInv, FrameKinds
<1> QED BY <1>1, <1>2, <1>3 DEF CallsExecutor

\* A thread is out of set_impl() only when it has registered its handler.
LEMMA HandlerStays ==
    ASSUME CallInv, LoopInv, NEW t \in Threads, CallsExecutor(t)
    PROVE  /\ \A u \in Threads : registry[u] # NoImpl => registry'[u] # NoImpl
           /\ \A o \in Origins : In(o, "set_impl") => In(o, "set_impl")' \/ registry'[o] # NoImpl
           /\ \A o \in Origins : phase[o] = "binding" /\ stack'[o] # stack[o] =>
                 In(o, "set_impl")'
<1> USE ThreadsAssumption, NullAssumption
<1>1. registry \in [Threads -> Impls \cup {NoImpl}]
  BY DEF CallInv
<1>2. \A u \in Threads \ {t} : stack'[u] = stack[u]
  BY DEF CallsExecutor, Pushes, Registers, Returns, Finds, Push, Pop, Replace, CallInv
<1>3. \A u \in Threads : registry[u] # NoImpl => registry'[u] # NoImpl
  BY <1>1 DEF CallsExecutor, Pushes, Registers, Returns, Finds
<1>4. ASSUME NEW o \in Origins, In(o, "set_impl")
      PROVE  In(o, "set_impl")' \/ registry'[o] # NoImpl
  <2>1. CASE o # t
    BY <1>2, <1>4, <2>1 DEF In
  <2>2. CASE o = t
    <3>1. Registers(t)
      BY <1>4, <2>2 DEF CallsExecutor, Pushes, Returns, Finds, In, RunsClientCode
    <3> QED BY <1>1, <2>2, <3>1 DEF Registers
  <2> QED BY <2>1, <2>2
<1>5. ASSUME NEW o \in Origins, phase[o] = "binding", stack'[o] # stack[o]
      PROVE  In(o, "set_impl")'
  <2>1. o = t /\ stack[t] = <<>>
    BY <1>2, <1>5 DEF LoopInv, LoopCallsInv, LoopThreadInv
  <2>2. PICK f \in Frames : Push(t, f) /\ f.at = "set_impl"
    BY <1>5, <2>1 DEF CallsExecutor, Pushes, Registers, Returns, Finds, In
  <2>3. stack'[t] = Append(stack[t], f) /\ stack[t] \in Seq(Frames)
    BY <2>2 DEF Push, CallInv
  <2>4. /\ stack'[t] \in Seq(Frames) /\ stack'[t] # <<>>
        /\ Len(stack'[t]) = Len(stack[t]) + 1
        /\ stack'[t][Len(stack[t]) + 1] = f
    BY <2>3, PushFrame
  <2>5. Last(stack'[t]) = f
    BY <2>4, TopFrame
  <2> QED BY <2>1, <2>2, <2>4, <2>5 DEF In
<1> QED BY <1>3, <1>4, <1>5

\* A thread has its loop from set_event_loop() on, and a computation begins in a thread that
\* has one and is out of set_event_loop().
LEMMA LoopsBegin ==
    ASSUME CallInv, LoopInv, LoopNext
    PROVE  /\ \A o \in Origins : HasLoop(o)' =>
                 HasLoop(o) \/ (phase[o] = "binding" /\ stack'[o] # stack[o])
           /\ \A w \in Works : origin'[w] # origin[w] =>
                 /\ origin'[w] \in Origins /\ HasLoop(origin'[w])
                 /\ ~In(origin'[w], "set_impl")
                 /\ UNCHANGED registry
<1> USE ThreadsAssumption DEF HasLoop
<1>1. ASSUME NEW o \in Origins, BindEnd(o)
      PROVE  /\ phase[o] = "binding" /\ stack'[o] # stack[o]
             /\ phase' = [phase EXCEPT ![o] = "ready"] /\ origin' = origin
  <2>1. PICK f \in Frames : Push(o, f)
    BY <1>1 DEF BindEnd, SetThisImpl, Frame, Frames, Methods
  <2>2. stack'[o] # stack[o]
    <3>1. Len(stack[o]) \in Nat /\ Len(stack'[o]) = Len(stack[o]) + 1
      BY <2>1, Pushed
    <3> QED BY <3>1
  <2> QED BY <1>1, <2>2 DEF BindEnd, GotoPhase, ctxVars
<1>2. ASSUME NEW o \in Origins, NEW w \in Works, Fy(o, w)
      PROVE  /\ origin' = [origin EXCEPT ![w] = o]
             /\ HasLoop(o) /\ ~In(o, "set_impl")
             /\ UNCHANGED <<registry, phase>>
  <2>1. CASE phase[o] \in {"ready", "returned"} /\ stack[o] = <<>>
    BY <1>2, <2>1 DEF Fy, In, vars
  <2>2. CASE In(o, "functor")
    <3>1. phase[o] = "running"
      BY <2>2, LoopInnermost DEF In, LoopInv, LoopFrameInv
    <3> QED BY <1>2, <2>2, <3>1 DEF Fy, In, vars
  <2> QED BY <1>2, <2>1, <2>2 DEF Fy, InClientCode
<1>3. ASSUME NEW o \in Origins,
             \/ Registered(o) \/ Settle(o) \/ FunctorEnds(o) \/ OtherWorkEnds(o)
             \/ \E l \in Loops : \E fn \in queue[l] : RunFunctor(o, fn)
             \/ \E w \in Works : Cancel(o, w)
      PROVE  UNCHANGED <<phase, origin>>
  BY <1>3 DEF Registered, Settle, FunctorEnds, OtherWorkEnds, RunFunctor, Cancel, loopVars, ctxVars
<1>4. ASSUME NEW o \in Origins,
             \/ \E l \in Loops : CreateLoop(o, l)
             \/ BindBegin(o) \/ Run(o) \/ RunReturns(o) \/ Destroy(o)
      PROVE  /\ origin' = origin
             /\ \A u \in Origins : HasLoop(u)' => HasLoop(u)
  BY <1>4
  DEF CreateLoop, BindBegin, Run, RunReturns, Destroy, GotoPhase, ctxVars, LoopInv, LoopDataOK
<1>5. ASSUME NEW w \in Works, Computed(w) PROVE UNCHANGED <<phase, origin>>
  BY <1>5 DEF Computed
<1>6. ASSUME NEW t \in Threads, Library(t) PROVE UNCHANGED <<phase, origin>>
  BY <1>6 DEF Library, Schedule, PostToLoop, loopVars, ctxVars
<1>7. phase \in [Origins -> {"none", "created", "binding", "ready", "running", "returned"}]
      /\ origin \in [Works -> Origins \cup {NoThread}]
  BY DEF LoopInv, LoopDataOK
<1>8. ASSUME NEW o \in Origins, OriginNext(o)
      PROVE  \/ BindEnd(o)
             \/ \E w \in Works : Fy(o, w)
             \/ UNCHANGED <<phase, origin>>
             \/ origin' = origin /\ \A u \in Origins : HasLoop(u)' => HasLoop(u)
  BY <1>3, <1>4, <1>8 DEF OriginNext, OriginStep
<1> QED BY <1>1, <1>2, <1>5, <1>6, <1>7, <1>8 DEF LoopNext

\* A step keeps the handlers, and the kinds of calls.
LEMMA HandlerStep ==
    ASSUME CallInv, LoopInv, HandlerInv, KindsInv, [LoopNext]_eventVars
    PROVE  HandlerInv' /\ KindsInv'
<1> USE ThreadsAssumption, NullAssumption
<1>1. CASE UNCHANGED eventVars
  BY <1>1 DEF eventVars, vars, loopVars, ctxVars, HandlerInv, HasLoop, In, KindsInv, FrameKinds
<1>2. CASE LoopNext
  <2>1. /\ \A u \in Threads : registry[u] # NoImpl => registry'[u] # NoImpl
        /\ \A o \in Origins : In(o, "set_impl") => In(o, "set_impl")' \/ registry'[o] # NoImpl
        /\ \A o \in Origins : phase[o] = "binding" /\ stack'[o] # stack[o] =>
              In(o, "set_impl")'
        /\ KindsInv'
    <3>1. CASE UNCHANGED <<stack, registry>>
      BY <3>1 DEF In, KindsInv, FrameKinds
    <3>2. ASSUME NEW t \in Threads, CallsExecutor(t)
          PROVE  /\ \A u \in Threads : registry[u] # NoImpl => registry'[u] # NoImpl
                 /\ \A o \in Origins : In(o, "set_impl") =>
                       In(o, "set_impl")' \/ registry'[o] # NoImpl
                 /\ \A o \in Origins : phase[o] = "binding" /\ stack'[o] # stack[o] =>
                       In(o, "set_impl")'
                 /\ KindsInv'
      BY <3>2, HandlerStays, KindsKept
    <3> QED BY <1>2, <3>1, <3>2, StepCalls
  <2>2. ASSUME NEW o \in Origins, HasLoop(o)', ~In(o, "set_impl")' PROVE registry'[o] # NoImpl
    <3>1. HasLoop(o)
      BY <1>2, <2>1, <2>2, LoopsBegin
    <3> QED BY <2>1, <2>2, <3>1 DEF HandlerInv
  <2>3. ASSUME NEW w \in Works, origin'[w] # NoThread PROVE registry'[origin'[w]] # NoImpl
    <3>1. CASE origin'[w] = origin[w]
      <4>1. origin[w] \in Threads
        BY <2>3, <3>1 DEF LoopInv, LoopDataOK
      <4> QED BY <2>1, <2>3, <3>1, <4>1 DEF HandlerInv
    <3>2. CASE origin'[w] # origin[w]
      <4>1. /\ origin'[w] \in Origins /\ HasLoop(origin'[w])
            /\ ~In(origin'[w], "set_impl")
            /\ registry' = registry
        BY <1>2, <3>2, LoopsBegin
      <4> QED BY <4>1 DEF HandlerInv
    <3> QED BY <3>1, <3>2
  <2> QED BY <2>1, <2>2, <2>3 DEF HandlerInv
<1> QED BY <1>1, <1>2

\* The loops keep their handlers, and reg_mutex is locked in handlers only.
THEOREM HandlersKept == LoopSpec => [](HandlerInv /\ KindsInv)
<1> USE ThreadsAssumption, NullAssumption
<1>1. LoopInit => HandlerInv /\ KindsInv
  <2> SUFFICES ASSUME LoopInit PROVE HandlerInv /\ KindsInv
    OBVIOUS
  <2>1. \A t \in Threads : Len(stack[t]) = 0
    BY EmptySeq DEF LoopInit, Init
  <2> QED BY <2>1 DEF LoopInit, HandlerInv, HasLoop, KindsInv
<1>2. CallInv /\ LoopInv /\ HandlerInv /\ KindsInv /\ [LoopNext]_eventVars
        => HandlerInv' /\ KindsInv'
  BY HandlerStep
<1> QED BY <1>1, <1>2, LoopInvariant, PTL DEF LoopSpec

\* schedule_execution() is never called for a thread without handler, by a loop, its client
\* code or a computation, although loops are destroyed while computations go on: the
\* assertion in the executor holds, and without it no empty function is called.
THEOREM AssertionHolds == LoopSpec => []HandlersRegistered
<1>1. LoopInv /\ CallInv /\ HandlerInv => HandlersRegistered
  <2> SUFFICES ASSUME LoopInv, CallInv, HandlerInv PROVE HandlersRegistered
    OBVIOUS
  <2>1. ASSUME NEW w \in Works, worker[w] = "computing" PROVE registry[origin[w]] # NoImpl
    BY <2>1 DEF LoopInv, WorksInv, HandlerInv
  <2>2. ASSUME NEW o \in Origins, InClientCode(o) \/ In(o, "functor")
        PROVE  HasLoop(o) /\ ~In(o, "set_impl")
    <3>1. CASE phase[o] \in {"ready", "returned"} /\ stack[o] = <<>>
      BY <3>1 DEF HasLoop, In
    <3>2. CASE In(o, "functor")
      <4>1. phase[o] = "running"
        BY <3>2, ThreadsAssumption, LoopInnermost DEF In, LoopInv, LoopFrameInv
      <4> QED BY <3>2, <4>1 DEF HasLoop, In
    <3> QED BY <2>2, <3>1, <3>2 DEF InClientCode
  <2> QED BY <2>1, <2>2 DEF HandlersRegistered, HandlerInv
<1> QED BY <1>1, LoopInvariant, HandlersKept, PTL

\* An origin that joins its computations is not waiting in a circle, with any number of
\* origins and computations: each computation that is not over can take its next step, or
\* the thread that has reg_mutex locked can take the one that unlocks it.
THEOREM JoinsAreServed == LoopSpec => []ComputationsGoOn
<1>1. LoopInv /\ CallInv /\ HandlerInv /\ KindsInv => ComputationsGoOn
  <2> SUFFICES ASSUME LoopInv, CallInv, HandlerInv, KindsInv,
                      NEW w \in Works, origin[w] # NoThread, ~Ended(w)
               PROVE  Unhindered(w) \/ \E u \in Threads : reg_mutex = u /\ In(u, "handler")
    BY DEF ComputationsGoOn
  <2>1. CASE stack[w] = <<>>
    BY <2>1 DEF Ended, Unhindered, HandlerInv
  <2>2. CASE stack[w] # <<>>
    <3>1. In(w, "schedule_execution") \/ In(w, "handler")
      <4>1. w \in Threads
        BY ThreadsAssumption
      <4>2. Len(stack[w]) \in Nat \ {0} /\ Last(stack[w]) = stack[w][Len(stack[w])]
        BY <2>2, <4>1, Innermost
      <4> QED BY <2>2, <4>1, <4>2 DEF KindsInv, FrameKinds, In
    <3>2. ASSUME reg_mutex # NoThread PROVE \E u \in Threads : reg_mutex = u /\ In(u, "handler")
      <4>1. PICK u \in Threads : reg_mutex = u
        BY <3>2 DEF CallInv
      <4>2. PICK i \in 1 .. Len(stack[u]) : stack[u][i].guard
        BY <4>1 DEF CallInv, ThreadInv, GuardInv
      <4>3. stack[u][i].at = "handler"
        BY <4>2 DEF KindsInv, FrameKinds
      <4>4. FrameInv(u, stack[u][i], i = Len(stack[u]))
        BY <4>2 DEF CallInv, ThreadInv
      <4>5. i = Len(stack[u])
        BY <4>3, <4>4 DEF FrameInv
      <4>6. stack[u] # <<>>
        BY <4>2, EmptySeq
      <4>7. Last(stack[u]) = stack[u][Len(stack[u])]
        BY <4>6, Innermost
      <4> QED BY <4>1, <4>3, <4>5, <4>6, <4>7 DEF In
    <3> QED BY <3>1, <3>2 DEF Unhindered
  <2> QED BY <2>1, <2>2
<1> QED BY <1>1, LoopInvariant, HandlersKept, PTL
=============================================================================
