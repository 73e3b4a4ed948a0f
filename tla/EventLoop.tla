------------------------------ MODULE EventLoop -----------------------------
(***************************************************************************)
(* The Asio event loop of a thread and asy::thread::fy(), which computes   *)
(* in a thread of its own and posts the result back to the loop of the     *)
(* thread that called it, through the executor.                            *)
(*                                                                         *)
(* An origin constructs an io_service, makes it its event loop, starts     *)
(* computations, runs the loop until it has no work, and destroys it; then *)
(* it may begin again, as the sections of a test do.  Each step that calls *)
(* the executor is a step of Executor.  All threads share two maps: the    *)
(* registry of the executor, under reg_mutex, and the one from threads to  *)
(* loops, which no mutex protects.                                         *)
(***************************************************************************)
EXTENDS Executor

CONSTANTS Origins,  \* threads with an event loop
          Works,    \* computations, each with its thread
          Loops,    \* io_services; each is constructed once
          NoLoop,   \* no entry in the map
          NoFn,     \* no functor
          Joins     \* TRUE: an origin joins its computations before it destroys its loop

ASSUME ThreadsAssumption == Threads = Origins \cup Works /\ Origins \cap Works = {}
ASSUME DeferAssumption   == AtOnce = {} /\ NoLoop \notin Loops
ASSUME JoinsAssumption   == Joins \in BOOLEAN

VARIABLES
    phase,     \* phase[o]: how far o is with its loop
    io,        \* io[o]: the io_service o has constructed
    loop_of,   \* the map from threads to loops, registry in evloop_asio.cpp
    alive,     \* the io_services that are constructed and not destroyed
    queue,     \* queue[l]: functors posted to l
    kept,      \* kept[l]: l has other work that is unfinished, such as a timer
    passing,   \* passing[t]: the functor that t passes to schedule_execution()
    current,   \* current[o]: the functor that the loop of o runs
    origin,    \* origin[w]: the thread that started w
    worker,    \* worker[w]: the thread of w
    pending,   \* m_pending of the context of w
    outcome    \* outcome[w]: the result the continuation of w has been given

ctxVars   == <<origin, worker, pending, outcome>>
loopVars  == <<phase, io, loop_of, alive, queue, kept, passing, current, ctxVars>>
eventVars == <<vars, loopVars>>

Functors == [do : {"settle", "continue", "end"}, of : Works, result : {"value", "canceled"}]
ASSUME NoFnAssumption == NoFn \notin Functors

Functor(do, w, r) == [do |-> do, of |-> w, result |-> r]

LoopTypeOK ==
    /\ TypeOK
    /\ phase   \in [Origins -> {"none", "created", "binding", "ready", "running", "returned"}]
    /\ io      \in [Origins -> Loops \cup {NoLoop}]
    /\ loop_of \in [Origins -> Loops \cup {NoLoop}]
    /\ alive   \subseteq Loops
    /\ queue   \in [Loops -> SUBSET Functors]
    /\ kept    \in [Loops -> BOOLEAN]
    /\ passing \in [Threads -> Functors \cup {NoFn}]
    /\ current \in [Origins -> Functors \cup {NoFn}]
    /\ origin  \in [Works -> Origins \cup {NoThread}]
    /\ worker  \in [Works -> {"unborn", "computing", "posting"}]
    /\ pending \in [Works -> {"unborn", "callbacks", "done"}]
    /\ outcome \in [Works -> {"none", "value", "canceled"}]

LoopInit ==
    /\ Init
    /\ phase   = [o \in Origins |-> "none"]
    /\ io      = [o \in Origins |-> NoLoop]
    /\ loop_of = [o \in Origins |-> NoLoop]
    /\ alive   = {}
    /\ queue   = [l \in Loops |-> {}]
    /\ kept    = [l \in Loops |-> TRUE]
    /\ passing = [t \in Threads |-> NoFn]
    /\ current = [o \in Origins |-> NoFn]
    /\ origin  = [w \in Works |-> NoThread]
    /\ worker  = [w \in Works |-> "unborn"]
    /\ pending = [w \in Works |-> "unborn"]
    /\ outcome = [w \in Works |-> "none"]

GotoPhase(o, p) == phase' = [phase EXCEPT ![o] = p]
-----------------------------------------------------------------------------
(* The life of a loop.                                                     *)

\* An io_service, perhaps with a timer that is waiting on it.
CreateLoop(o, l) ==
    /\ phase[o] = "none"
    /\ \A u \in Origins : io[u] # l
    /\ l \notin alive /\ kept[l]
    /\ GotoPhase(o, "created")
    /\ io' = [io EXCEPT ![o] = l]
    /\ alive' = alive \cup {l}
    /\ \E timer \in BOOLEAN : kept' = [kept EXCEPT ![l] = timer]
    /\ UNCHANGED <<vars, loop_of, queue, passing, current, ctxVars>>

\* set_event_loop() up to the write to the map ...
BindBegin(o) ==
    /\ phase[o] = "created"
    /\ GotoPhase(o, "binding")
    /\ UNCHANGED <<vars, io, loop_of, alive, queue, kept, passing, current, ctxVars>>

\* Mutant: one pointer for all threads instead of a map.
BindAll(o) ==
    /\ phase[o] = "binding"
    /\ loop_of' = [u \in Origins |-> io[o]]
    /\ \E impl \in Impls : SetThisImpl(o, o, impl)
    /\ GotoPhase(o, "ready")
    /\ UNCHANGED <<io, alive, queue, kept, passing, current, ctxVars>>

\* ... the write, and set_impl() ...
BindEnd(o) ==
    /\ phase[o] = "binding"
    /\ loop_of' = [loop_of EXCEPT ![o] = io[o]]
    /\ \E impl \in Impls : SetThisImpl(o, o, impl)
    /\ GotoPhase(o, "ready")
    /\ UNCHANGED <<io, alive, queue, kept, passing, current, ctxVars>>

\* ... and its end.
Registered(o) == SetRegistry(o) /\ UNCHANGED loopVars

Run(o) ==
    /\ phase[o] = "ready" /\ stack[o] = <<>>
    /\ GotoPhase(o, "running")
    /\ UNCHANGED <<vars, io, loop_of, alive, queue, kept, passing, current, ctxVars>>

\* The other work of the loop ends: a timer expires or is canceled.
OtherWorkEnds(o) ==
    /\ phase[o] = "running" /\ stack[o] = <<>>
    /\ kept[io[o]]
    /\ kept' = [kept EXCEPT ![io[o]] = FALSE]
    /\ UNCHANGED <<vars, phase, io, loop_of, alive, queue, passing, current, ctxVars>>

\* io.run() returns when there is nothing left to run and nothing left to wait for; a
\* computation in another thread is not known to the loop.
RunReturns(o) ==
    /\ phase[o] = "running" /\ stack[o] = <<>>
    /\ queue[io[o]] = {} /\ ~kept[io[o]]
    /\ GotoPhase(o, "returned")
    /\ UNCHANGED <<vars, io, loop_of, alive, queue, kept, passing, current, ctxVars>>

Ended(w) == worker[w] # "computing" /\ stack[w] = <<>>

\* Mutant: only the computations that have posted their result are joined.
JoinedSome(o) == \A w \in Works : origin[w] = o => worker[w] # "computing"

\* thr.join() for every computation of o that client code has the handle of.
Joined(o) == Joins => \A w \in Works : origin[w] = o => Ended(w)

\* The io_service is destroyed, and with it the functors it has not run.
Destroy(o) ==
    /\ phase[o] = "returned" /\ stack[o] = <<>>
    /\ Joined(o)
    /\ GotoPhase(o, "none")
    /\ alive' = alive \ {io[o]}
    /\ io' = [io EXCEPT ![o] = NoLoop]
    /\ queue' = [queue EXCEPT ![io[o]] = {}]
    /\ IF o \in waiting THEN DropDeferred(o) ELSE UNCHANGED vars
    /\ UNCHANGED <<loop_of, kept, passing, current, ctxVars>>
-----------------------------------------------------------------------------
(* Functors.                                                               *)

\* The handler of an origin: registry[id]->post(fn).
PostToLoop(t) ==
    /\ Handle(t)
    /\ LET l == loop_of[Last(stack[t]).id]
       IN  queue' = IF l \in alive THEN [queue EXCEPT ![l] = @ \cup {passing[t]}] ELSE queue
    /\ passing' = [passing EXCEPT ![t] = NoFn]
    /\ UNCHANGED <<phase, io, loop_of, alive, kept, current, ctxVars>>

Schedule(t) == ScheduleExecution(t) /\ UNCHANGED loopVars

\* t calls schedule_execution() with this functor.
PassTo(t, fn, id) ==
    /\ Use(t, "schedule_execution", id)
    /\ passing' = [passing EXCEPT ![t] = fn]

\* The loop takes a functor.  That of a continuation hands over the result.
RunFunctor(o, fn) ==
    /\ phase[o] = "running" /\ stack[o] = <<>>
    /\ fn \in queue[io[o]]
    /\ queue' = [queue EXCEPT ![io[o]] = @ \ {fn}]
    /\ RunDeferred(o)
    /\ o \in waiting' <=> queue'[io[o]] # {}
    /\ current' = [current EXCEPT ![o] = fn]
    /\ outcome' = IF fn.do = "continue" THEN [outcome EXCEPT ![fn.of] = fn.result] ELSE outcome
    /\ UNCHANGED <<phase, io, loop_of, alive, kept, passing, origin, worker, pending>>

\* Mutant: the functor that the computation posts does not complete its context.
SettleForgets(o) ==
    /\ In(o, "functor") /\ current[o].do = "settle"
    /\ current' = [current EXCEPT ![o].do = "end"]
    /\ UNCHANGED <<vars, phase, io, loop_of, alive, queue, kept, passing, ctxVars>>

\* The functor posted by a computation: ctx->async_success(), which posts the continuation
\* unless the context is done.
Settle(o) ==
    /\ In(o, "functor") /\ current[o].do = "settle"
    /\ current' = [current EXCEPT ![o].do = "end"]
    /\ LET w == current[o].of
       IN  \/ /\ pending[w] = "callbacks"
              /\ pending' = [pending EXCEPT ![w] = "done"]
              /\ PassTo(o, Functor("continue", w, "value"), o)
           \/ /\ pending[w] = "done"
              /\ UNCHANGED <<vars, pending, passing>>
    /\ UNCHANGED <<phase, io, loop_of, alive, queue, kept, origin, worker, outcome>>

FunctorEnds(o) ==
    /\ current[o] # NoFn /\ current[o].do # "settle"
    /\ FunctorReturns(o)
    /\ current' = [current EXCEPT ![o] = NoFn]
    /\ UNCHANGED <<phase, io, loop_of, alive, queue, kept, passing, ctxVars>>
-----------------------------------------------------------------------------
(* Client code of an origin, outside of run() or in a continuation.        *)

InClientCode(o) ==
    \/ phase[o] \in {"ready", "returned"} /\ stack[o] = <<>>
    \/ In(o, "functor") /\ current[o].do = "continue"

\* Mutant: the functor that starts the computation does not pass the context on.
FyWithoutContext(o, w) ==
    /\ InClientCode(o)
    /\ worker[w] = "unborn"
    /\ origin' = [origin EXCEPT ![w] = o]
    /\ worker' = [worker EXCEPT ![w] = "computing"]
    /\ pending' = [pending EXCEPT ![w] = NoFn]
    /\ UNCHANGED <<vars, phase, io, loop_of, alive, queue, kept, passing, current, outcome>>

\* thread::fy() starts a computation, and a then() continues it.
Fy(o, w) ==
    /\ InClientCode(o)
    /\ worker[w] = "unborn"
    /\ origin' = [origin EXCEPT ![w] = o]
    /\ worker' = [worker EXCEPT ![w] = "computing"]
    /\ pending' = [pending EXCEPT ![w] = "callbacks"]
    /\ UNCHANGED <<vars, phase, io, loop_of, alive, queue, kept, passing, current, outcome>>

\* cancel() does not stop the computation.
Cancel(o, w) ==
    /\ InClientCode(o)
    /\ origin[w] = o
    /\ pending[w] = "callbacks"
    /\ pending' = [pending EXCEPT ![w] = "done"]
    /\ PassTo(o, Functor("continue", w, "canceled"), o)
    /\ UNCHANGED <<phase, io, loop_of, alive, queue, kept, current, origin, worker, outcome>>

\* The computation is over; its thread schedules the result for the thread of origin.
Computed(w) ==
    /\ worker[w] = "computing"
    /\ worker' = [worker EXCEPT ![w] = "posting"]
    /\ PassTo(w, Functor("settle", w, "value"), origin[w])
    /\ UNCHANGED <<phase, io, loop_of, alive, queue, kept, current, origin, pending, outcome>>
-----------------------------------------------------------------------------
Library(t) == Schedule(t) \/ PostToLoop(t)

OriginStep(o) ==
    \/ BindEnd(o)
    \/ Registered(o)
    \/ Settle(o)
    \/ FunctorEnds(o)
    \/ \E l \in Loops : \E fn \in queue[l] : RunFunctor(o, fn)

OriginNext(o) ==
    \/ OriginStep(o)
    \/ \E l \in Loops : CreateLoop(o, l)
    \/ BindBegin(o)
    \/ Run(o)
    \/ OtherWorkEnds(o)
    \/ RunReturns(o)
    \/ Destroy(o)
    \/ \E w \in Works : Fy(o, w) \/ Cancel(o, w)

LoopNext ==
    \/ \E o \in Origins : OriginNext(o)
    \/ \E w \in Works : Computed(w)
    \/ \E t \in Threads : Library(t)

\* Computations end, the loop runs what is posted to it, functors and calls run to their
\* end, and an origin that has joined its computations goes on.
LoopFairness ==
    /\ \A w \in Works : WF_eventVars(Computed(w))
    /\ \A t \in Threads : WF_eventVars(Library(t))
    /\ \A o \in Origins : WF_eventVars(OriginStep(o)) /\ WF_eventVars(Destroy(o))

LoopSpec == LoopInit /\ [][LoopNext]_eventVars /\ LoopFairness
-----------------------------------------------------------------------------
(* Properties.                                                             *)

\* Nobody posts to a loop that is destroyed: whenever the handler of a thread is running, in
\* that thread or in another one, the loop it finds in the map exists.
LoopOutlivesPosts ==
    \A t \in Threads : In(t, "handler") => loop_of[Last(stack[t]).id] \in alive

\* A context without mutex stays in the thread of its origin: no other loop is ever given a
\* functor that completes it or continues it.
Confined ==
    \A o \in Origins :
        /\ io[o] # NoLoop => \A fn \in queue[io[o]] : origin[fn.of] = o
        /\ current[o] # NoFn => origin[current[o].of] = o

\* In a program with one event loop thread, as the Asio integration expects it,
\* set_event_loop() does not write to the map while a computation reads it.
OnlyLoopThread(o) == \A u \in Origins \ {o} : phase[u] = "none" /\ loop_of[u] = NoLoop

NoMapRace ==
    \A o \in Origins : (phase[o] = "binding" /\ OnlyLoopThread(o)) =>
        \A w \in Works : ~In(w, "handler")

\* A computation that ends while the loop of its origin runs reaches its continuation,
\* through reg_mutex, the map and two turns of the loop, unless run() returns before.
ResultArrives ==
    \A w \in Works, o \in Origins :
        (origin[w] = o /\ worker[w] = "computing" /\ phase[o] = "running")
            ~> (outcome[w] # "none" \/ phase[o] = "returned")

\* An origin that waits for its computations does not wait for ever, although they need
\* reg_mutex and its own handler to end.
JoinReturns == \A o \in Origins : (phase[o] = "returned" ~> phase[o] = "none")
=============================================================================
