----------------------------- MODULE Timed_proofs -----------------------------
(***************************************************************************)
(* Proof that timed_op() reports a timeout and a cancellation with reason  *)
(* only, and leaves neither the timer nor the caller's operation behind,   *)
(* whatever results the caller's operation may have.                       *)
(***************************************************************************)
EXTENDS Timed, OpChain_proofs

\* The context that c continues once it is constructed.
Above(c) ==
    CASE c = Watch(1)   -> Op(1)
      [] c = Watch(2)   -> Op(2)
      [] c = Op(2)      -> SleepGuard
      [] c = SleepGuard -> Sleep
      [] c = Guard      -> Joint
      [] c = Final      -> Guard
      [] OTHER          -> NoCtx

Racing == {Watch(1), Watch(2), Guard} \* the contexts whose functors when_any() runs

\* Operation i needs no cancel() any more: it is finished, or its timer is about to be.
Halted(i) == IF i = 2 THEN Done(Sleep) ELSE m_pending[Op(i)] \in Results \cup {"done"}

\* The contexts and how they are linked.  Each waits for one other at most, with which the
\* next one in line is constructed.
TreeInv ==
    /\ \A c \in Ctx : m_parent[c] = IF Born(c) THEN Above(c) ELSE NoCtx
    /\ \A c \in Ctx : kind[c] # "forward"
    /\ \A c \in Ctx : (Born(c) /\ Above(c) # NoCtx) =>
          m_pending[Above(c)] \in {"callbacks", "done"}
    /\ form = "none" => \A c \in Ctx : ~Born(c)
    /\ form # "none" =>
          /\ form = "when_any" /\ kind[Op(2)] = "then"
          /\ \A c \in {Op(1), Op(2), Sleep, SleepGuard, Joint} : Born(c)
    /\ Born(Guard) => Born(Watch(1)) /\ Born(Watch(2))
    /\ Born(Final) => Born(Guard)
    /\ held \subseteq {Op(1)}
    /\ aborted \cap {Sleep, SleepGuard, Op(2)} = {}

\* Until the caller has his handle, nothing has happened but that his operation may have
\* left a result, and that the time may be over.
SetupInv ==
    ~Born(Final) =>
      /\ tasks \subseteq [child : {Watch(1)}, result : Returned]
      /\ \A c \in Ctx : posts[c] > 0 => c = Watch(1)
      /\ \A c \in {Op(2), Joint, Guard} : m_pending[c] \in {"unborn", "empty", "callbacks"}
      /\ m_pending[Op(1)] \in {"unborn", "empty", "callbacks", "done"} \cup Returned
      /\ \A c \in {Sleep, SleepGuard} : m_pending[c] \in {"unborn", "callbacks"}
      /\ aborted = {} /\ first = "none" /\ ~asked /\ index = 0 /\ outcome = "none"
      /\ timer \in {"none", "waiting", "expired"}
      /\ \A t \in Threads : label[t] \in {"idle", "attach"}
      /\ form = "none" \/ Born(Guard) \/ \E t \in Threads : label[t] = "attach"

\* What the thread is doing.
RunInv ==
    \A t \in Threads :
      /\ running[t] \in {NoCtx, Joint} \cup Racing
      /\ label[t] \in {"idle", "attach", "call", "cancel", "return"}
      /\ running[t] = NoCtx <=> label[t] = "idle"
      /\ running[t] = Joint <=> label[t] = "attach"
      /\ running[t] \in Racing =>
           Born(Final) /\ posts[running[t]] > 0 /\ input[t] \in Results
      /\ label[t] = "attach" => /\ form # "none" /\ ~Born(Guard)
                                /\ \A i \in Ops : Born(Watch(i)) <=> i \notin left[t]
      /\ label[t] = "cancel" => /\ asked \/ first # "none"
                                /\ \A i \in Ops \ left[t] : Halted(i)

\* The timer waits only as long as nobody has been told that the sleep is over, and the
\* end of the sleep is passed on.
TimerInv ==
    /\ timer = "none" <=> form = "none"
    /\ timer = "expired" => expired
    /\ timer \in {"stopped", "over"} => Done(Sleep)
    /\ Done(Sleep) /\ timer = "waiting" =>
          [child |-> SleepGuard, result |-> "canceled"] \in tasks
    /\ \A c \in {SleepGuard, Op(2)} : posts[c] > 0 => (Done(c) \/ \E a \in tasks : a.child = c)

\* The functor of c may be given r: the timer's operation succeeds only if the time is over;
\* an operation is canceled only by the caller, or when there is a first result; and the
\* caller's functor gets the first result, or his cancellation.
Justified(c, r) ==
    /\ (c \in {SleepGuard, Op(2), Watch(2)} /\ r = "value") => expired
    /\ r = "canceled" => (asked \/ first # "none")
    /\ c \in {Guard, Final} => (r = first \/ (r = "canceled" /\ asked))

WordInv ==
    /\ \A a \in tasks : Justified(a.child, a.result)
    /\ \A t \in Threads : running[t] \in Racing => Justified(running[t], input[t])

\* The first result, and what it is turned into.
ResultInv ==
    /\ ~Done(Joint) => first = "none"
    /\ first = "none" => index = 0
    /\ (index = 2 /\ first = "value") => expired
    /\ first = "canceled" => asked
    /\ OutcomeJustified

\* Once Joint has delivered, both operations are halted, or somebody is about to cancel them.
HaltInv ==
    (Done(Joint) /\ Joint \notin aborted) =>
       \/ \A i \in Ops : Halted(i)
       \/ \E t \in Threads : label[t] = "cancel"
       \/ \E a \in tasks : a.child = Guard /\ a.result = "canceled"
       \/ \E t \in Threads : running[t] = Guard /\ label[t] = "call" /\ input[t] = "canceled"

TimedInv ==
    /\ TimedTypeOK
    /\ ChainInv
    /\ TreeInv
    /\ SetupInv
    /\ RunInv
    /\ TimerInv
    /\ WordInv
    /\ ResultInv
    /\ HaltInv
-----------------------------------------------------------------------------
(* The contexts.                                                           *)

\* The contexts are different ones, and there are no others.
LEMMA TimedNames ==
    /\ Ops = {1, 2} /\ 1 \in Ops /\ 2 \in Ops
    /\ Ctx = {Op(1), Op(2), Watch(1), Watch(2), Joint, Guard, Sleep, SleepGuard, Final}
    /\ Op(1) \notin {Op(2), Watch(1), Watch(2), Joint, Guard, Sleep, SleepGuard, Final}
    /\ Op(2) \notin {Watch(1), Watch(2), Joint, Guard, Sleep, SleepGuard, Final}
    /\ Watch(1) \notin {Watch(2), Joint, Guard, Sleep, SleepGuard, Final}
    /\ Watch(2) \notin {Joint, Guard, Sleep, SleepGuard, Final}
    /\ Joint \notin {Guard, Sleep, SleepGuard, Final}
    /\ Guard \notin {Sleep, SleepGuard, Final}
    /\ Sleep # SleepGuard /\ Sleep # Final /\ SleepGuard # Final
    /\ NoCtx \notin {Op(1), Op(2), Watch(1), Watch(2), Joint, Guard, Sleep, SleepGuard, Final}
<1>1. Ops = {1, 2}
  BY TwoOpsAssumption DEF Ops
<1>2. Ctx = {Op(1), Op(2), Watch(1), Watch(2), Joint, Guard, Sleep, SleepGuard, Final}
  BY <1>1, TimedCtxAssumption DEF TimedCtx, CompoundCtx
<1> QED
  BY <1>1, <1>2, NullCtxAssumption
  DEF Op, Watch, Joint, Guard, Sleep, SleepGuard, Final

\* Each context continues the one that is named, and is the only one to continue it.
LEMMA Lines ==
    /\ \A c \in {Op(1), Joint, Sleep} : Above(c) = NoCtx
    /\ Above(Watch(1)) = Op(1) /\ Above(Watch(2)) = Op(2)
    /\ Above(Op(2)) = SleepGuard /\ Above(SleepGuard) = Sleep
    /\ Above(Guard) = Joint /\ Above(Final) = Guard
    /\ \A c \in Ctx : /\ Above(c) \in Ctx \cup {NoCtx}
                      /\ Above(c) \notin {Watch(1), Watch(2), Final}
                      /\ Above(c) = Op(1) => c = Watch(1)
                      /\ Above(c) = Op(2) => c = Watch(2)
                      /\ Above(c) = SleepGuard => c = Op(2)
                      /\ Above(c) = Sleep => c = SleepGuard
                      /\ Above(c) = Joint => c = Guard
                      /\ Above(c) = Guard => c = Final
BY TimedNames DEF Above

\* Once the caller has his handle, results are not stored but passed on, except at the ends
\* of the lines.
LEMMA AllAttached ==
    ASSUME TreeInv, Born(Final)
    PROVE  /\ form = "when_any"
           /\ \A c \in {Op(1), Op(2), Sleep, SleepGuard, Joint, Guard} :
                m_pending[c] \in {"callbacks", "done"}
<1> USE TimedNames, Lines
<1>1. Born(Guard) /\ Born(Watch(1)) /\ Born(Watch(2)) /\ form # "none"
  BY DEF TreeInv
<1>2. Born(Op(2)) /\ Born(SleepGuard) /\ form = "when_any"
  BY <1>1 DEF TreeInv
<1> QED BY <1>1, <1>2 DEF TreeInv

\* While no functor runs and when_any() is not returning, the caller has his handle, or has
\* not called.
LEMMA LoopReady ==
    ASSUME TimedInv, ~Returning, \A t \in Threads : Idle(t), form # "none"
    PROVE  Born(Final)
<1> USE OneThreadAssumption
<1> SUFFICES ASSUME ~Born(Final) PROVE FALSE
  OBVIOUS
<1>1. \A t \in Threads : label[t] = "idle"
  BY DEF TimedInv, RunInv, Idle
<1> QED BY <1>1 DEF TimedInv, SetupInv, Returning

\* What a step that gives a context a result may do to the contexts.
Settles(x, r, queue) ==
    /\ Settle(x, r, m_pending, queue)
    /\ UNCHANGED <<aborted, pairVars>>
    /\ held' = held
    /\ form' = form

\* What giving a result does, once the caller has his handle.
Effect(x, r, queue) ==
    /\ \A c \in Ctx \ {x} : m_pending'[c] = m_pending[c]
    /\ m_pending'[x] \in {r, "done"} /\ Born(x)
    /\ queue \subseteq tasks'
    /\ \A a \in tasks' : \/ a \in queue
                         \/ /\ a.child \in Ctx /\ Above(a.child) = x /\ a.result = r
                            /\ ~Done(x) /\ Done(x)'
    /\ (Done(x) \/ x \in {Watch(1), Watch(2), Final}) => (tasks' = queue /\ posts' = posts)
    /\ \A c \in Ctx : (Above(c) = x /\ ~Done(x)) =>
                         Done(x)' /\ [child |-> c, result |-> r] \in tasks'
    /\ \A c \in Ctx : posts[c] > 0 => posts'[c] > 0
    /\ \A c \in Ctx : posts'[c] > 0 => (posts[c] > 0 \/ \E a \in tasks' : a.child = c)

\* The next context in line is completed, if there is one and the result is the first.
LEMMA SettlesEffect ==
    ASSUME ChainInv, TreeInv, Born(Final), NEW x \in Ctx, NEW r \in Results,
           NEW queue \in SUBSET tasks, Settles(x, r, queue)
    PROVE  Effect(x, r, queue)
<1> USE TimedNames, Lines
<1>1. m_pending \in [Ctx -> States] /\ posts \in [Ctx -> Nat]
  BY DEF ChainInv, ChainTypeOK, States
<1>2. \A c \in Ctx : Above(c) = x => m_pending[x] \in {"callbacks", "done"}
  BY AllAttached
<1>3. CASE m_pending[x] = "callbacks"
  <2> SUFFICES ASSUME NEW d, d = callee[x] PROVE
           /\ \A c \in Ctx \ {x} : m_pending'[c] = m_pending[c]
           /\ m_pending'[x] = "done" /\ Born(x)
           /\ tasks' = queue \cup {[child |-> d, result |-> r]}
           /\ d \in Ctx /\ Above(d) = x
           /\ \A c \in Ctx : posts[c] > 0 => posts'[c] > 0
           /\ \A c \in Ctx : posts'[c] > 0 => (posts[c] > 0 \/ c = d)
           /\ x \notin {Watch(1), Watch(2), Final}
           /\ \A c \in Ctx : Above(c) = x => c = d
    BY <1>3 DEF Done, Born, Effect
  <2>1. d \in Ctx /\ m_parent[d] = x
    BY <1>3 DEF ChainInv, Linked
  <2>2. Above(d) = x
    BY <2>1, NullCtxAssumption DEF TreeInv
  <2>3. /\ m_pending' = [m_pending EXCEPT ![x] = "done"]
        /\ tasks' = queue \cup {[child |-> d, result |-> r]}
        /\ posts' = [posts EXCEPT ![d] = @ + 1]
    BY <1>3 DEF Settles, Settle, Post, Results
  <2>4. \A c \in Ctx : Above(c) = x => c = d
    BY <2>1, <2>2
  <2>5. x \notin {Watch(1), Watch(2), Final}
    BY <2>1, <2>2
  <2> QED BY <1>1, <1>3, <2>1, <2>2, <2>3, <2>4, <2>5 DEF Born
<1>4. CASE m_pending[x] # "callbacks"
  <2>1. /\ \/ m_pending' = [m_pending EXCEPT ![x] = r] /\ m_pending[x] \in {"empty"} \cup Results
           \/ m_pending' = m_pending /\ m_pending[x] = "done"
        /\ tasks' = queue /\ posts' = posts
    BY <1>4 DEF Settles, Settle
  <2> QED BY <1>1, <1>2, <1>4, <2>1 DEF Born, Done, Results, Effect
<1> QED BY <1>3, <1>4

\* So the contexts remain as they have to be.
LEMMA SettlesKeeps ==
    ASSUME ChainInv, TreeInv, Born(Final), NEW x \in Ctx, NEW r \in Results,
           NEW queue \in SUBSET tasks, Settles(x, r, queue), Ready(x)
    PROVE  /\ ChainInv' /\ TreeInv'
           /\ \A c \in Ctx : Born(c)' <=> Born(c)
           /\ \A c \in Ctx : Done(c) => Done(c)'
           /\ \A i \in Ops : Halted(i) => Halted(i)'
<1> USE TimedNames, Lines
<1>1. /\ \A c \in Ctx \ {x} : m_pending'[c] = m_pending[c]
      /\ m_pending'[x] \in {r, "done"} /\ Born(x)
  BY SettlesEffect DEF Effect
<1>2. /\ m_parent' = m_parent /\ kind' = kind /\ held' = held /\ aborted' = aborted
      /\ form' = form
  BY DEF Settles, pairVars
<1>3. ChainInv'
  <2>1. Passed(m_pending)
    BY DEF Passed, ChainInv, ChainTypeOK, States
  <2>2. kind[x] # "forward"
    BY DEF TreeInv
  <2> QED BY <1>1, <2>1, <2>2, SettleStep DEF Settles
<1>4. \A c \in Ctx : Born(c)' <=> Born(c)
  BY <1>1 DEF Born, Results
<1>5. \A c \in Ctx : Done(c) => Done(c)'
  <2>1. Done(x) => m_pending'[x] = m_pending[x]
    BY DEF Settles, Settle, Done, Results
  <2> QED BY <1>1, <2>1 DEF Done
<1>6. \A i \in Ops : Halted(i) => Halted(i)'
  BY <1>1, <1>5 DEF Halted
<1>7. \A c \in Ctx : m_pending[c] \in {"callbacks", "done"} =>
          m_pending'[c] \in {"callbacks", "done"}
  <2>1. m_pending[x] \in {"callbacks", "done"} => m_pending'[x] = "done"
    BY DEF Settles, Settle, Post, ChainInv, ChainTypeOK, Results
  <2> QED BY <1>1, <2>1
<1>8. TreeInv'
  <2>1. \A c \in Ctx : Above(c) \in Ctx => (m_pending[Above(c)] \in {"callbacks", "done"} =>
            m_pending'[Above(c)] \in {"callbacks", "done"})
    BY <1>7
  <2>2. (\A c \in Ctx : (Born(c) /\ Above(c) # NoCtx) =>
           m_pending[Above(c)] \in {"callbacks", "done"})'
    BY <1>4, <2>1 DEF TreeInv
  <2>3. (\A c \in Ctx : m_parent[c] = IF Born(c) THEN Above(c) ELSE NoCtx)'
    BY <1>2, <1>4 DEF TreeInv
  <2> QED BY <1>2, <1>4, <2>2, <2>3 DEF TreeInv
<1> QED BY <1>3, <1>4, <1>5, <1>6, <1>8

\* What the caller, and when_any(), can cancel or abort at once belongs to one line.
LEMMA OpenLine ==
    ASSUME TreeInv, NEW c \in {Op(1), Op(2), Final}, NEW S \in SUBSET Ctx, IsOpenChain(S, c)
    PROVE  /\ c = Op(1) => S \subseteq {Op(1)}
           /\ c = Op(2) => S \subseteq {Sleep, SleepGuard, Op(2)}
           /\ c = Final => S \subseteq {Joint, Guard, Final}
<1> USE TimedNames, Lines
<1>1. \A y \in S \ {c} : \E z \in S : Above(z) = y
  BY NullCtxAssumption DEF IsOpenChain, TreeInv
<1>2. Watch(1) \notin S /\ Watch(2) \notin S /\ (Final \in S => c = Final)
  BY <1>1
<1>3. /\ Op(1) \in S => c = Op(1)
      /\ Op(2) \in S => c = Op(2)
      /\ Guard \in S => c = Final
  BY <1>1, <1>2
<1>4. /\ SleepGuard \in S => c = Op(2)
      /\ Joint \in S => c = Final
  BY <1>1, <1>3
<1>5. Sleep \in S => c = Op(2)
  BY <1>1, <1>4
<1> QED BY <1>2, <1>3, <1>4, <1>5

\* cancel() gives the cancellation to the oldest context of the line that is not done.
LEMMA CancelTop ==
    ASSUME ChainInv, TreeInv, NEW c \in {Op(1), Op(2), Final}, Cancel(c), form' = form
    PROVE  /\ Born(c)
           /\ \E x \in Ctx :
                /\ Settles(x, "canceled", tasks) /\ Ready(x)
                /\ c = Op(1) => x = Op(1)
                /\ c = Op(2) => x \in {Sleep, SleepGuard, Op(2)} /\ (x # Sleep => Done(Sleep))
                /\ c = Final => x \in {Joint, Guard, Final} /\ (x # Joint => Done(Joint))
<1> USE TimedNames, Lines
<1>1. Born(c) /\ UNCHANGED <<held, aborted, pairVars>>
  BY DEF Cancel, Handle
<1>2. \A x \in Ctx : Born(x) => m_parent[x] = Above(x)
  BY DEF TreeInv
<1>3. \A x \in Ctx : (m_parent[x] # NoCtx /\ Done(x)) => Done(m_parent[x])
  BY DEF ChainInv, ParentFirst, Done
<1>4. c = Op(2) => m_parent[Op(2)] = SleepGuard /\ m_parent[SleepGuard] = Sleep
  <2>1. c = Op(2) => Born(Op(2)) /\ Born(SleepGuard)
    BY <1>1 DEF TreeInv
  <2> QED BY <1>2, <2>1
<1>5. c = Final => m_parent[Final] = Guard /\ m_parent[Guard] = Joint
  <2>1. c = Final => Born(Final) /\ Born(Guard)
    BY <1>1 DEF TreeInv
  <2> QED BY <1>2, <2>1
<1>6. CASE Done(c) /\ UNCHANGED <<m_pending, tasks, posts>>
  <2>1. Settles(c, "canceled", tasks)
    BY <1>1, <1>6 DEF Settles, Settle, Done
  <2>2. Ready(c)
    BY <1>3, <1>6 DEF Ready
  <2>3. /\ c = Op(2) => Done(SleepGuard) /\ Done(Sleep)
        /\ c = Final => Done(Guard) /\ Done(Joint)
    BY <1>3, <1>4, <1>5, <1>6
  <2> QED BY <1>1, <2>1, <2>2, <2>3
<1>7. ASSUME NEW S \in SUBSET Ctx, IsOpenChain(S, c), NEW x \in S, m_parent[x] \notin S,
             Settle(x, "canceled", m_pending, tasks)
      PROVE  /\ Settles(x, "canceled", tasks) /\ Ready(x)
             /\ c = Op(1) => x = Op(1)
             /\ c = Op(2) => x \in {Sleep, SleepGuard, Op(2)} /\ (x # Sleep => Done(Sleep))
             /\ c = Final => x \in {Joint, Guard, Final} /\ (x # Joint => Done(Joint))
  <2>2. /\ c = Op(1) => x = Op(1)
        /\ c = Op(2) => x \in {Sleep, SleepGuard, Op(2)}
        /\ c = Final => x \in {Joint, Guard, Final}
    BY <1>7, OpenLine
  <2>1. m_parent[x] = NoCtx \/ Done(m_parent[x])
    BY <1>7 DEF IsOpenChain
  <2>3. Settles(x, "canceled", tasks) /\ Ready(x)
    BY <1>1, <1>7, <2>1 DEF Settles, Ready
  <2>4. c = Op(2) /\ x # Sleep => Done(Sleep)
    BY <1>3, <1>4, <2>1, <2>2
  <2>5. c = Final /\ x # Joint => Done(Joint)
    BY <1>3, <1>5, <2>1, <2>2
  <2> QED BY <2>2, <2>3, <2>4, <2>5
<1> QED BY <1>1, <1>6, <1>7 DEF Cancel

\* abort() closes what is not done of a line, and posts nothing.
LEMMA AbortLine ==
    ASSUME ChainInv, TreeInv, NEW c \in {Op(1), Final}, Abort(c), form' = form
    PROVE  /\ Born(c) /\ ChainInv' /\ TreeInv'
           /\ UNCHANGED <<held, tasks, posts, pairVars>>
           /\ \A x \in Ctx : Born(x)' <=> Born(x)
           /\ \A x \in Ctx : Done(x) => Done(x)'
           /\ \A i \in Ops : Halted(i) => Halted(i)'
           /\ \A x \in {Op(2), Sleep, SleepGuard} : m_pending'[x] = m_pending[x]
           /\ (Done(Joint)' /\ Joint \notin aborted') => (Done(Joint) /\ Joint \notin aborted)
<1> USE TimedNames, Lines
<1>1. Born(c) /\ UNCHANGED <<held, tasks, posts, pairVars>>
  BY DEF Abort, Handle
<1>2. ChainInv'
  BY HandleStep, StutterStep
<1>3. m_pending \in [Ctx -> States]
  BY DEF ChainInv, ChainTypeOK, States
<1>4. CASE UNCHANGED <<m_pending, aborted>>
  <2>1. TreeInv' /\ \A i \in Ops : Halted(i) => Halted(i)'
    BY <1>1, <1>4 DEF TreeInv, Born, Halted, Done, pairVars
  <2> QED BY <1>1, <1>2, <1>4, <2>1 DEF Born, Done
<1>5. ASSUME NEW S \in SUBSET Ctx, IsOpenChain(S, c),
             m_pending' = [x \in Ctx |-> IF x \in S THEN "done" ELSE m_pending[x]],
             aborted' = aborted \cup S
      PROVE  /\ TreeInv'
             /\ \A x \in Ctx : Born(x)' <=> Born(x)
             /\ \A x \in Ctx : Done(x) => Done(x)'
             /\ \A i \in Ops : Halted(i) => Halted(i)'
             /\ \A x \in {Op(2), Sleep, SleepGuard} : m_pending'[x] = m_pending[x]
             /\ (Done(Joint)' /\ Joint \notin aborted') => (Done(Joint) /\ Joint \notin aborted)
  <2>1. S \subseteq {Op(1), Joint, Guard, Final}
    BY <1>5, OpenLine
  <2>2. \A x \in S : Born(x)
    <3>1. \A x \in S \ {c} : \E z \in S : m_parent[z] = x
      BY <1>5 DEF IsOpenChain
    <3> QED BY <1>1, <3>1, NullCtxAssumption DEF ChainInv, Linked
  <2>3. /\ \A x \in S : m_pending'[x] = "done"
        /\ \A x \in Ctx \ S : m_pending'[x] = m_pending[x]
    BY <1>5
  <2>4. /\ \A x \in Ctx : Born(x)' <=> Born(x)
        /\ \A x \in Ctx : Done(x) => Done(x)'
        /\ \A x \in Ctx : m_pending[x] \in {"callbacks", "done"} =>
              m_pending'[x] \in {"callbacks", "done"}
    BY <2>2, <2>3 DEF Born, Done
  <2>5. \A i \in Ops : Halted(i) => Halted(i)'
    BY <2>3, <2>4 DEF Halted
  <2>6. (\A x \in Ctx : (Born(x) /\ Above(x) # NoCtx) =>
           m_pending[Above(x)] \in {"callbacks", "done"})'
    BY <2>4 DEF TreeInv
  <2>7. m_parent' = m_parent /\ kind' = kind /\ held' = held
    BY <1>1 DEF pairVars
  <2>8. (\A x \in Ctx : m_parent[x] = IF Born(x) THEN Above(x) ELSE NoCtx)'
    BY <2>4, <2>7 DEF TreeInv
  <2>9. TreeInv'
    BY <1>5, <2>1, <2>4, <2>6, <2>7, <2>8 DEF TreeInv
  <2>10. (Done(Joint)' /\ Joint \notin aborted') => (Done(Joint) /\ Joint \notin aborted)
    BY <1>5, <2>3 DEF Done
  <2> QED BY <2>1, <2>3, <2>4, <2>5, <2>9, <2>10
<1> QED BY <1>1, <1>2, <1>4, <1>5 DEF Abort
-----------------------------------------------------------------------------
(* Which parts of the invariant a step leaves alone.                       *)

\* What functors are given stays justified.
LEMMA WordsKept ==
    ASSUME TimedInv, NEW x \in Ctx, NEW r \in Results,
           \A a \in tasks' :
              \/ a \in tasks
              \/ a.child \in Ctx /\ Above(a.child) = x /\ a.result = r /\ ~Done(x),
           expired => expired', asked => asked', first # "none" => first' = first,
           ~Done(x) =>
             /\ (x \in {Sleep, SleepGuard, Op(2)} /\ r = "value") => expired'
             /\ r = "canceled" => (asked' \/ first' # "none")
             /\ x \in {Joint, Guard} => (r = first' \/ (r = "canceled" /\ asked')),
           \A t \in Threads : running'[t] \in Racing =>
              running'[t] = running[t] /\ input'[t] = input[t]
    PROVE  WordInv'
<1> USE TimedNames, Lines
<1>1. /\ \A a \in tasks : a.child \in Ctx /\ a.result \in Results
      /\ \A t \in Threads : running[t] \in Racing => input[t] \in Results
  BY TaskReady DEF TimedInv, RunInv
<1>2. \A c \in Ctx, s \in Results : Justified(c, s) => Justified(c, s)'
  BY DEF Justified, Results
<1>3. ASSUME NEW a \in tasks' PROVE Justified(a.child, a.result)'
  <2>1. CASE a \in tasks
    <3>1. Justified(a.child, a.result) /\ a.child \in Ctx /\ a.result \in Results
      BY <1>1, <2>1 DEF TimedInv, WordInv
    <3> QED BY <1>2, <3>1
  <2>2. CASE a \notin tasks
    BY <2>2 DEF Justified
  <2> QED BY <2>1, <2>2
<1>4. ASSUME NEW t \in Threads, running'[t] \in Racing
      PROVE  Justified(running[t], input[t])'
  <2>1. Justified(running[t], input[t]) /\ running[t] \in Ctx /\ input[t] \in Results
    BY <1>1, <1>4 DEF TimedInv, WordInv, Racing
  <2>2. running'[t] = running[t] /\ input'[t] = input[t]
    BY <1>4
  <2> QED BY <2>1, <2>2 DEF Justified, Results
<1> QED BY <1>3, <1>4 DEF WordInv

\* The thread goes on with what it is doing, or remains idle.
LEMMA RunKept ==
    ASSUME TimedInv, Born(Final), Born(Final)', form' = form,
           running' = running, input' = input, label' = label, left' = left,
           \A c \in Ctx : posts[c] > 0 => posts'[c] > 0,
           \A i \in Ops : Halted(i) => Halted(i)',
           asked => asked', first' = first
    PROVE  RunInv'
<1> USE TimedNames, Lines
<1>1. \A t \in Threads : label[t] # "attach"
  BY DEF TimedInv, RunInv, TreeInv
<1> QED BY <1>1 DEF TimedInv, RunInv, Racing

\* Somebody cancels what is not halted, or everything is.
LEMMA HaltKept ==
    ASSUME TimedInv, \A i \in Ops : Halted(i) => Halted(i)',
           (Done(Joint)' /\ Joint \notin aborted') => (Done(Joint) /\ Joint \notin aborted),
           \A a \in tasks : a.child = Guard => a \in tasks',
           running' = running, input' = input, label' = label
    PROVE  HaltInv'
BY DEF TimedInv, HaltInv

\* The end of the sleep is passed on by the functor that gets it.
LEMMA EndPassed ==
    ASSUME TimedInv, Born(Final), NEW x \in Ctx, NEW r \in Results, NEW queue \in SUBSET tasks,
           Settles(x, r, queue), Ready(x),
           \A a \in tasks \ queue : a.child \in {x, Final} \cup Racing
    PROVE  \A c \in {SleepGuard, Op(2)} :
              posts'[c] > 0 => (Done(c)' \/ \E a \in tasks' : a.child = c)
<1> USE TimedNames, Lines
<1>1. ChainInv /\ TreeInv
  BY DEF TimedInv
<1>2. /\ queue \subseteq tasks' /\ m_pending'[x] \in {r, "done"}
      /\ \A c \in Ctx : (Above(c) = x /\ ~Done(x)) =>
                           Done(x)' /\ [child |-> c, result |-> r] \in tasks'
      /\ \A c \in Ctx : posts'[c] > 0 => (posts[c] > 0 \/ \E a \in tasks' : a.child = c)
  <2>1. Effect(x, r, queue)
    BY <1>1, SettlesEffect
  <2> QED BY <2>1 DEF Effect
<1>3. \A c \in Ctx : Done(c) => Done(c)'
  BY <1>1, SettlesKeeps
<1>4. x \in {SleepGuard, Op(2)} => Done(x)'
  BY <1>2, <1>3
<1>5. ASSUME NEW c \in {SleepGuard, Op(2)}, posts[c] > 0, NEW a \in tasks, a.child = c
      PROVE  Done(c)' \/ \E b \in tasks' : b.child = c
  BY <1>2, <1>4, <1>5 DEF Racing
<1> QED BY <1>2, <1>3, <1>5 DEF TimedInv, TimerInv

\* A step of the loop, or of the caller, that gives x a result r.
LEMMA PassKeeps ==
    ASSUME TimedInv, Born(Final), NEW x \in Ctx, NEW r \in Results, NEW queue \in SUBSET tasks,
           Settles(x, r, queue), Ready(x),
           \A a \in tasks \ queue : a.child = x /\ x \in {SleepGuard, Op(2), Final},
           UNCHANGED <<localVars, sharedVars, first, index>>,
           asked' \in {asked, TRUE}, expired' = expired,
           ~Done(x) =>
             /\ (x \in {Sleep, SleepGuard, Op(2)} /\ r = "value") => expired
             /\ r = "canceled" => (asked' \/ first # "none")
             /\ x = Joint => r = "canceled"
             /\ x \in {Joint, Guard} => (r = first \/ (r = "canceled" /\ asked'))
    PROVE  /\ TypeOK' /\ ChainInv' /\ TreeInv' /\ SetupInv' /\ RunInv' /\ WordInv' /\ HaltInv'
           /\ \A c \in Ctx : Done(c) => Done(c)'
           /\ \A c \in {SleepGuard, Op(2)} :
                posts'[c] > 0 => (Done(c)' \/ \E a \in tasks' : a.child = c)
           /\ (~Done(Joint)' => first' = "none") /\ (first' = "none" => index' = 0)
           /\ (index' = 2 /\ first' = "value") => expired'
           /\ first' = "canceled" => asked'
<1> USE TimedNames, Lines
<1>1. ChainInv /\ TreeInv /\ TypeOK
  BY DEF TimedInv, TimedTypeOK
<1>2. /\ running' = running /\ input' = input /\ label' = label /\ left' = left
      /\ loaded' = loaded /\ form' = form /\ counter' = counter /\ res' = res
      /\ first' = first /\ index' = index
  BY DEF localVars, sharedVars
<1>3. /\ ChainInv' /\ TreeInv'
      /\ \A c \in Ctx : Born(c)' <=> Born(c)
      /\ \A c \in Ctx : Done(c) => Done(c)'
      /\ \A i \in Ops : Halted(i) => Halted(i)'
  BY <1>1, SettlesKeeps
<1>4. /\ queue \subseteq tasks'
      /\ \A a \in tasks' : \/ a \in queue
                           \/ /\ a.child \in Ctx /\ Above(a.child) = x /\ a.result = r
                              /\ ~Done(x) /\ Done(x)'
      /\ \A c \in Ctx : (Above(c) = x /\ ~Done(x)) => [child |-> c, result |-> r] \in tasks'
      /\ \A c \in Ctx : posts[c] > 0 => posts'[c] > 0
      /\ \A c \in Ctx \ {x} : m_pending'[c] = m_pending[c]
  <2>1. Effect(x, r, queue)
    BY <1>1, SettlesEffect
  <2> QED BY <2>1 DEF Effect
<1>5. TypeOK'
  BY <1>1, <1>2, <1>3 DEF TypeOK, ChainInv
<1>6. Born(Final)' /\ SetupInv'
  BY <1>3 DEF SetupInv
<1>7. RunInv'
  <2>1. asked => asked'
    OBVIOUS
  <2> QED BY ONLY TimedInv, Born(Final), <1>2, <1>3, <1>4, <1>6, <2>1, RunKept
<1>8. WordInv'
  <2>1. \A a \in tasks' : \/ a \in tasks
                          \/ a.child \in Ctx /\ Above(a.child) = x /\ a.result = r /\ ~Done(x)
    BY <1>4
  <2>2. asked => asked'
    OBVIOUS
  <2>3. \A t \in Threads : running'[t] \in Racing =>
          running'[t] = running[t] /\ input'[t] = input[t]
    BY <1>2
  <2>4. ~Done(x) =>
             /\ (x \in {Sleep, SleepGuard, Op(2)} /\ r = "value") => expired'
             /\ r = "canceled" => (asked' \/ first' # "none")
             /\ x \in {Joint, Guard} => (r = first' \/ (r = "canceled" /\ asked'))
    BY <1>2
  <2>5. (expired => expired') /\ (first # "none" => first' = first)
    BY <1>2
  <2> QED BY ONLY TimedInv, x \in Ctx, r \in Results, <2>1, <2>2, <2>3, <2>4, <2>5, WordsKept
<1>9. HaltInv'
  <2>1. \A a \in tasks : a.child = Guard => a \in tasks'
    BY <1>4
  <2>2. aborted' = aborted
    BY DEF Settles
  <2>3. CASE x = Joint /\ ~Done(Joint)
    <3>1. [child |-> Guard, result |-> "canceled"] \in tasks'
      BY <1>4, <2>3
    <3> QED BY <3>1 DEF HaltInv
  <2>4. CASE x # Joint \/ Done(Joint)
    <3>1. Done(Joint)' => Done(Joint)
      BY <1>4, <2>4 DEF Done
    <3> QED BY <1>2, <1>3, <2>1, <2>2, <3>1, HaltKept
  <2> QED BY <2>3, <2>4
<1>10. \A c \in {SleepGuard, Op(2)} :
        posts'[c] > 0 => (Done(c)' \/ \E a \in tasks' : a.child = c)
  BY EndPassed
<1>11. /\ (~Done(Joint)' => first' = "none") /\ (first' = "none" => index' = 0)
       /\ (index' = 2 /\ first' = "value") => expired'
       /\ first' = "canceled" => asked'
  BY <1>2, <1>3 DEF TimedInv, ResultInv
<1> QED BY <1>3, <1>5, <1>6, <1>7, <1>8, <1>9, <1>10, <1>11
-----------------------------------------------------------------------------
(* The steps of the event loop.                                            *)

\* What is known of a functor that waits.
LEMMA TaskTurn ==
    ASSUME TimedInv, NEW task \in tasks
    PROVE  /\ task.child \in Ctx /\ task.result \in Results /\ posts[task.child] > 0
           /\ Born(task.child) /\ Ready(task.child)
           /\ Above(task.child) \in Ctx /\ Done(Above(task.child))
           /\ Above(task.child) \notin aborted
           /\ Justified(task.child, task.result)
           /\ task.child \in {Op(2), SleepGuard, Final} \cup Racing
<1> USE TimedNames, Lines
<1>1. ChainInv /\ TreeInv /\ WordInv
  BY DEF TimedInv
<1>2. task.child \in Ctx /\ task.result \in Results /\ Born(task.child) /\ Ready(task.child)
  BY <1>1, TaskReady
<1>3. posts[task.child] > 0
  BY <1>1 DEF ChainInv, Completable
<1>4. m_parent[task.child] = Above(task.child)
  BY <1>1, <1>2 DEF TreeInv
<1>5. Above(task.child) # NoCtx
  BY <1>1, <1>2, <1>3, <1>4 DEF ChainInv, ChainTypeOK, DeliveredOnce
<1>6. Done(Above(task.child)) /\ Above(task.child) \notin aborted
  BY <1>1, <1>2, <1>3, <1>4 DEF ChainInv, AbortSilences
<1> QED BY <1>1, <1>2, <1>3, <1>5, <1>6 DEF WordInv, Racing

\* The timer's handler ends the sleep.
LEMMA TimerHandlerKeeps ==
    ASSUME TimedInv, ~Returning, \A t \in Threads : Idle(t), TimerHandler PROVE TimedInv'
<1> USE TimedNames, Lines
<1> SUFFICES ASSUME NEW r, r = HandlerResult(timer = "stopped") PROVE TimedInv'
  OBVIOUS
<1>1. /\ timer \in {"expired", "stopped"} /\ timer' = "over" /\ r \in Results
      /\ Settle(Sleep, r, m_pending, tasks)
      /\ UNCHANGED <<held, aborted, pairVars, localVars, sharedVars, historyVars,
                     index, outcome, expired>>
  BY DEF TimerHandler, HandlerResult, Results
<1>2. ChainInv /\ TreeInv /\ form # "none"
  BY <1>1 DEF TimedInv, TimerInv
<1>3. Born(Final)
  BY <1>2, LoopReady
<1>4. Settles(Sleep, r, tasks) /\ tasks \in SUBSET tasks
  BY <1>1 DEF Settles, sharedVars
<1>5. Ready(Sleep)
  BY <1>2 DEF Ready, TreeInv
<1>6. /\ localVars' = localVars /\ sharedVars' = sharedVars /\ first' = first /\ asked' = asked
      /\ index' = index /\ outcome' = outcome /\ expired' = expired
  BY <1>1 DEF historyVars
<1>7. ~Done(Sleep) => r = "value" /\ expired
  BY <1>1 DEF TimedInv, TimerInv, HandlerResult
<1>8. Effect(Sleep, r, tasks)
  BY <1>1, <1>2, <1>3, <1>4, SettlesEffect
<1>9. /\ TypeOK' /\ ChainInv' /\ TreeInv' /\ SetupInv' /\ RunInv' /\ WordInv' /\ HaltInv'
      /\ \A c \in Ctx : Done(c) => Done(c)'
      /\ \A c \in {SleepGuard, Op(2)} :
           posts'[c] > 0 => (Done(c)' \/ \E a \in tasks' : a.child = c)
      /\ (~Done(Joint)' => first' = "none") /\ (first' = "none" => index' = 0)
      /\ (index' = 2 /\ first' = "value") => expired'
      /\ first' = "canceled" => asked'
  BY <1>1, <1>3, <1>4, <1>5, <1>6, <1>7, PassKeeps
<1>10. Done(Sleep)'
  BY <1>8, <1>9 DEF Effect
<1>11. TimedTypeOK'
  BY <1>1, <1>6, <1>9 DEF TimedInv, TimedTypeOK
<1>12. TimerInv'
  BY <1>1, <1>2, <1>4, <1>9, <1>10 DEF TimerInv, Settles
<1>13. ResultInv'
  BY <1>6, <1>9 DEF TimedInv, ResultInv, OutcomeJustified
<1> QED BY <1>9, <1>11, <1>12, <1>13 DEF TimedInv

\* The functor of add_cancel() stops the timer, and passes on what it is given.
LEMMA StopTimerKeeps ==
    ASSUME TimedInv, ~Returning, \A t \in Threads : Idle(t), NEW task \in tasks, StopTimer(task)
    PROVE  TimedInv'
<1> USE TimedNames, Lines
<1> SUFFICES ASSUME NEW r, r = task.result, NEW queue, queue = tasks \ {task} PROVE TimedInv'
  OBVIOUS
<1>1. /\ task.child = SleepGuard
      /\ timer' = IF r = "canceled" /\ timer = "waiting" THEN "stopped" ELSE timer
      /\ Settle(SleepGuard, r, m_pending, queue)
      /\ UNCHANGED <<held, aborted, pairVars, localVars, sharedVars, historyVars,
                     index, outcome, expired>>
  BY DEF StopTimer
<1>2. ChainInv /\ TreeInv
  BY DEF TimedInv
<1>3. /\ r \in Results /\ Ready(SleepGuard) /\ Born(SleepGuard)
      /\ Done(Sleep) /\ Justified(SleepGuard, r)
  BY <1>1, TaskTurn
<1>4. form # "none"
  BY <1>2, <1>3 DEF TreeInv
<1>5. Born(Final)
  BY <1>4, LoopReady
<1>6. Settles(SleepGuard, r, queue) /\ queue \in SUBSET tasks
  BY <1>1 DEF Settles, sharedVars
<1>7. /\ localVars' = localVars /\ sharedVars' = sharedVars /\ first' = first /\ asked' = asked
      /\ index' = index /\ outcome' = outcome /\ expired' = expired
  BY <1>1 DEF historyVars
<1>8. \A a \in tasks \ queue : a.child = SleepGuard
  BY <1>1
<1>9. (r = "value" => expired) /\ (r = "canceled" => (asked \/ first # "none"))
  BY <1>3 DEF Justified
<1>10. /\ TypeOK' /\ ChainInv' /\ TreeInv' /\ SetupInv' /\ RunInv' /\ WordInv' /\ HaltInv'
       /\ \A c \in Ctx : Done(c) => Done(c)'
       /\ \A c \in {SleepGuard, Op(2)} :
            posts'[c] > 0 => (Done(c)' \/ \E a \in tasks' : a.child = c)
       /\ (~Done(Joint)' => first' = "none") /\ (first' = "none" => index' = 0)
       /\ (index' = 2 /\ first' = "value") => expired'
       /\ first' = "canceled" => asked'
  BY <1>3, <1>5, <1>6, <1>7, <1>8, <1>9, PassKeeps
<1>11. timer' \in {timer, "stopped"} /\ (timer' = "stopped" => timer \in {"waiting", "stopped"})
  BY <1>1
<1>12. TimedTypeOK'
  BY <1>7, <1>10, <1>11 DEF TimedInv, TimedTypeOK
<1>13. TimerInv'
  <2>1. Done(Sleep)' /\ form' = form
    BY <1>3, <1>6, <1>10 DEF Settles
  <2>2. timer' = "waiting" => [child |-> SleepGuard, result |-> "canceled"] \in tasks'
    <3> SUFFICES ASSUME timer' = "waiting"
                 PROVE  [child |-> SleepGuard, result |-> "canceled"] \in tasks'
      OBVIOUS
    <3>1. timer = "waiting" /\ r # "canceled"
      BY <1>1
    <3>2. [child |-> SleepGuard, result |-> "canceled"] \in tasks
      BY <1>3, <3>1 DEF TimedInv, TimerInv
    <3>3. [child |-> SleepGuard, result |-> "canceled"] # task
      BY <3>1
    <3>4. Effect(SleepGuard, r, queue)
      BY <1>2, <1>3, <1>5, <1>6, SettlesEffect
    <3> QED BY <3>2, <3>3, <3>4 DEF Effect
  <2>3. (timer' = "none" <=> form' = "none") /\ (timer' = "expired" => expired')
    BY <1>7, <1>11, <2>1, <1>4 DEF TimedInv, TimerInv
  <2> QED BY <1>10, <2>1, <2>2, <2>3 DEF TimerInv
<1>14. ResultInv'
  BY <1>7, <1>10 DEF TimedInv, ResultInv, OutcomeJustified
<1> QED BY <1>10, <1>12, <1>13, <1>14 DEF TimedInv

\* The functor of the timer's operation turns the end of the sleep into a value.
LEMMA TimerOpKeeps ==
    ASSUME TimedInv, ~Returning, \A t \in Threads : Idle(t), NEW task \in tasks, TimerOp(task)
    PROVE  TimedInv'
<1> USE TimedNames, Lines
<1> SUFFICES ASSUME NEW r, r = task.result, NEW queue, queue = tasks \ {task} PROVE TimedInv'
  OBVIOUS
<1>1. ChainInv /\ TreeInv
  BY DEF TimedInv
<1>2. task.child = Op(2)
  BY DEF TimerOp
<1>3. r \in Results /\ Ready(Op(2)) /\ Justified(Op(2), r) /\ Born(Op(2))
  BY <1>2, TaskTurn
<1>4. form # "none" /\ kind[Op(2)] = "then"
  BY <1>1, <1>3 DEF TreeInv
<1>5. Born(Final)
  BY <1>4, LoopReady
<1>6. /\ Settle(Op(2), r, m_pending, queue)
      /\ UNCHANGED <<held, aborted, pairVars, localVars, sharedVars, historyVars, timerVars>>
  BY <1>2, <1>4 DEF TimerOp, RunSimple, RunDefault, RunsFunctor
<1>7. Settles(Op(2), r, queue) /\ queue \in SUBSET tasks
  BY <1>6 DEF Settles, sharedVars
<1>8. /\ localVars' = localVars /\ sharedVars' = sharedVars /\ first' = first /\ asked' = asked
      /\ timer' = timer /\ index' = index /\ outcome' = outcome /\ expired' = expired
  BY <1>6 DEF historyVars, timerVars
<1>9. \A a \in tasks \ queue : a.child = Op(2)
  BY <1>2
<1>10. (r = "value" => expired) /\ (r = "canceled" => (asked \/ first # "none"))
  BY <1>3 DEF Justified
<1>11. /\ TypeOK' /\ ChainInv' /\ TreeInv' /\ SetupInv' /\ RunInv' /\ WordInv' /\ HaltInv'
       /\ \A c \in Ctx : Done(c) => Done(c)'
       /\ \A c \in {SleepGuard, Op(2)} :
            posts'[c] > 0 => (Done(c)' \/ \E a \in tasks' : a.child = c)
       /\ (~Done(Joint)' => first' = "none") /\ (first' = "none" => index' = 0)
       /\ (index' = 2 /\ first' = "value") => expired'
       /\ first' = "canceled" => asked'
  BY <1>3, <1>5, <1>7, <1>8, <1>9, <1>10, PassKeeps
<1>12. TimedTypeOK'
  BY <1>8, <1>11 DEF TimedInv, TimedTypeOK
<1>13. TimerInv'
  <2>1. Effect(Op(2), r, queue)
    BY <1>1, <1>3, <1>5, <1>7, SettlesEffect
  <2>2. Done(Sleep)' => Done(Sleep)
    BY <2>1 DEF Effect, Done
  <2>3. [child |-> SleepGuard, result |-> "canceled"] \in tasks =>
          [child |-> SleepGuard, result |-> "canceled"] \in tasks'
    <3>1. [child |-> SleepGuard, result |-> "canceled"] # task
      BY <1>2
    <3> QED BY <2>1, <3>1 DEF Effect
  <2>4. form' = form
    BY <1>7 DEF Settles
  <2> QED BY <1>8, <1>11, <2>2, <2>3, <2>4 DEF TimedInv, TimerInv
<1>14. ResultInv'
  BY <1>8, <1>11 DEF TimedInv, ResultInv, OutcomeJustified
<1> QED BY <1>11, <1>12, <1>13, <1>14 DEF TimedInv

\* The timer that waits is told of the end of the sleep, if it has not been told.
LEMMA TimerKept ==
    ASSUME TimedInv, Born(Final), NEW x \in Ctx, NEW r \in Results, NEW queue \in SUBSET tasks,
           Settles(x, r, queue), Ready(x), x = Sleep => r = "canceled",
           \A a \in tasks \ queue : a.child \in {Final} \cup Racing,
           timer' = timer, expired' = expired
    PROVE  TimerInv'
<1> USE TimedNames, Lines
<1> SUFFICES ASSUME NEW stop, stop = [child |-> SleepGuard, result |-> "canceled"]
             PROVE  TimerInv'
  OBVIOUS
<1>1. ChainInv /\ TreeInv /\ TimerInv /\ form' = form
  BY DEF TimedInv, Settles
<1>2. Effect(x, r, queue)
  BY <1>1, SettlesEffect
<1>3. \A c \in Ctx : Done(c) => Done(c)'
  BY <1>1, SettlesKeeps
<1>4. stop \in tasks => stop \in tasks'
  <2>1. stop.child = SleepGuard
    OBVIOUS
  <2>2. stop \in tasks => stop \in queue
    BY <2>1 DEF Racing
  <2> QED BY <1>2, <2>2 DEF Effect
<1>5. ~Done(Sleep) /\ Done(Sleep)' => stop \in tasks'
  <2>1. CASE x = Sleep
    BY <1>2, <2>1 DEF Effect
  <2>2. CASE x # Sleep
    BY <1>2, <2>2 DEF Effect, Done
  <2> QED BY <2>1, <2>2
<1>6. \A c \in {SleepGuard, Op(2)} :
       posts'[c] > 0 => (Done(c)' \/ \E a \in tasks' : a.child = c)
  <2>1. \A a \in tasks \ queue : a.child \in {x, Final} \cup Racing
    OBVIOUS
  <2> QED BY <2>1, EndPassed
<1>7. Done(Sleep)' /\ timer' = "waiting" => stop \in tasks'
  BY <1>1, <1>4, <1>5 DEF TimerInv
<1>8. timer' \in {"stopped", "over"} => Done(Sleep)'
  BY <1>1, <1>3 DEF TimerInv
<1> QED BY <1>1, <1>6, <1>7, <1>8 DEF TimerInv

\* The functor after when_any() reports what it is given, or a timeout.
LEMMA TimedResultKeeps ==
    ASSUME TimedInv, ~Returning, \A t \in Threads : Idle(t), NEW task \in tasks,
           TimedResult(task)
    PROVE  TimedInv'
<1> USE TimedNames, Lines
<1> SUFFICES ASSUME NEW timeout, timeout = (task.result = "value" /\ index = 2),
                    NEW r, r = IF timeout THEN "error" ELSE task.result,
                    NEW queue, queue = tasks \ {task}
             PROVE  TimedInv'
  OBVIOUS
<1>1. /\ task.child = Final
      /\ outcome' = IF timeout THEN "timed_out" ELSE task.result
      /\ Settle(Final, r, m_pending, queue)
      /\ UNCHANGED <<held, aborted, pairVars, localVars, sharedVars, historyVars,
                     timer, index, expired>>
  BY DEF TimedResult
<1>2. /\ task.result \in Results /\ Ready(Final) /\ Justified(Final, task.result)
      /\ Born(Final) /\ Done(Guard)
  BY <1>1, TaskTurn
<1>3. r \in Results /\ (r = "canceled" => task.result = "canceled")
  BY <1>2 DEF Results
<1>4. Settles(Final, r, queue) /\ queue \in SUBSET tasks
  BY <1>1 DEF Settles, sharedVars
<1>5. /\ localVars' = localVars /\ sharedVars' = sharedVars /\ first' = first /\ asked' = asked
      /\ timer' = timer /\ index' = index /\ expired' = expired
  BY <1>1 DEF historyVars
<1>6. \A a \in tasks \ queue : a.child = Final
  BY <1>1
<1>7. r = "canceled" => (asked \/ first # "none")
  BY <1>2, <1>3 DEF Justified
<1>8. /\ TypeOK' /\ ChainInv' /\ TreeInv' /\ SetupInv' /\ RunInv' /\ WordInv' /\ HaltInv'
      /\ \A c \in Ctx : Done(c) => Done(c)'
      /\ \A c \in {SleepGuard, Op(2)} :
           posts'[c] > 0 => (Done(c)' \/ \E a \in tasks' : a.child = c)
      /\ (~Done(Joint)' => first' = "none") /\ (first' = "none" => index' = 0)
      /\ (index' = 2 /\ first' = "value") => expired'
      /\ first' = "canceled" => asked'
  BY <1>2, <1>3, <1>4, <1>5, <1>6, <1>7, PassKeeps
<1>9. TimedTypeOK'
  BY <1>1, <1>2, <1>5, <1>8 DEF TimedInv, TimedTypeOK
<1>10. TimerInv'
  <2>1. \A a \in tasks \ queue : a.child \in {Final} \cup Racing
    BY <1>6
  <2> QED BY <1>2, <1>3, <1>4, <1>5, <2>1, TimerKept
<1>11. OutcomeJustified'
  <2>1. (index = 2 /\ first = "value" => expired) /\ (first = "canceled" => asked)
    BY DEF TimedInv, ResultInv
  <2>2. timeout => expired
    BY <1>2, <2>1 DEF Justified
  <2>3. task.result = "canceled" => asked
    BY <1>2, <2>1 DEF Justified
  <2>4. task.result # "timed_out"
    BY <1>2 DEF Results
  <2> QED BY <1>1, <1>5, <2>2, <2>3, <2>4 DEF OutcomeJustified
<1>12. ResultInv'
  BY <1>8, <1>11 DEF ResultInv
<1> QED BY <1>8, <1>9, <1>10, <1>12 DEF TimedInv

\* A functor of when_any() begins to run.
LEMMA TimedTakeKeeps ==
    ASSUME TimedInv, ~Returning, \A u \in Threads : Idle(u),
           NEW t \in Threads, NEW task \in tasks, TimedTake(t, task)
    PROVE  TimedInv'
<1> USE TimedNames, Lines
<1>1. /\ tasks' = tasks \ {task} /\ m_pending' = m_pending /\ held' = held /\ posts' = posts
      /\ aborted' = aborted /\ pairVars' = pairVars
      /\ left' = left /\ loaded' = loaded /\ form' = form /\ counter' = counter /\ res' = res
      /\ first' = first /\ asked' = asked
      /\ timer' = timer /\ index' = index /\ outcome' = outcome /\ expired' = expired
  BY DEF TimedTake, Take, sharedVars, historyVars, timerVars
<1>2. /\ running' = [running EXCEPT ![t] = task.child]
      /\ input' = [input EXCEPT ![t] = task.result]
      /\ label' = [label EXCEPT ![t] = "call"]
  BY DEF TimedTake, Take, Begin, Goto
<1>3. ChainInv /\ TreeInv /\ TypeOK /\ RunInv
  BY DEF TimedInv, TimedTypeOK
<1>4. Threads = {t}
  BY OneThreadAssumption
<1>5. /\ task.child \in Racing /\ task.result \in Results /\ posts[task.child] > 0
      /\ Born(task.child) /\ Justified(task.child, task.result)
  BY TaskTurn DEF TimedTake, Racing
<1>6. form # "none" /\ Racing \subseteq Ctx
  BY <1>3, <1>5 DEF TreeInv, Racing
<1>7. Born(Final)
  BY <1>6, LoopReady
<1>8. running'[t] = task.child /\ input'[t] = task.result /\ label'[t] = "call"
  BY <1>2, <1>3 DEF TypeOK
<1>9. running[t] = NoCtx /\ label[t] = "idle"
  BY <1>3 DEF Idle, RunInv
<1>10. ChainInv'
  BY <1>1, <1>3, TakeStep
<1>11. TreeInv'
  BY <1>1, <1>3 DEF TreeInv, Born, pairVars
<1>12. TypeOK'
  BY <1>1, <1>2, <1>3, <1>5, <1>6, <1>10 DEF TypeOK, ChainInv
<1>13. TimedTypeOK'
  BY <1>1, <1>12 DEF TimedInv, TimedTypeOK
<1>14. SetupInv'
  BY <1>1, <1>7 DEF SetupInv, Born
<1>15. RunInv'
  <2>1. \A u \in Threads : u = t
    BY <1>4
  <2> QED BY <1>1, <1>5, <1>7, <1>8, <2>1 DEF RunInv, Born, Racing
<1>16. TimerInv'
  <2>1. /\ Done(Sleep)' <=> Done(Sleep)
        /\ \A c \in Ctx : Done(c)' <=> Done(c)
    BY <1>1 DEF Done
  <2>2. \A a \in tasks : a.child \in {SleepGuard, Op(2)} => a \in tasks'
    BY <1>1, <1>5 DEF Racing
  <2>3. [child |-> SleepGuard, result |-> "canceled"] \in tasks =>
          [child |-> SleepGuard, result |-> "canceled"] \in tasks'
    BY <2>2
  <2> QED BY <1>1, <2>1, <2>2, <2>3 DEF TimedInv, TimerInv
<1>17. WordInv'
  <2>1. \A a \in tasks' : Justified(a.child, a.result)
    BY <1>1 DEF TimedInv, WordInv
  <2>2. (\A a \in tasks : Justified(a.child, a.result))'
    BY <1>1, <2>1 DEF Justified
  <2>3. Justified(running[t], input[t])'
    BY <1>1, <1>5, <1>8 DEF Justified
  <2>4. \A u \in Threads : u = t
    BY <1>4
  <2> QED BY <2>2, <2>3, <2>4 DEF WordInv
<1>18. ResultInv'
  BY <1>1 DEF TimedInv, ResultInv, OutcomeJustified, Done
<1>19. HaltInv'
  <2>1. \A i \in Ops : Halted(i)' <=> Halted(i)
    BY <1>1 DEF Halted, Done
  <2>2. (Done(Joint)' /\ Joint \notin aborted') => (Done(Joint) /\ Joint \notin aborted)
    BY <1>1 DEF Done
  <2>3. \A u \in Threads : running[u] # Guard /\ label[u] # "cancel"
    BY <1>4, <1>9
  <2>4. ASSUME NEW a \in tasks, a.child = Guard, a.result = "canceled"
        PROVE  \/ a \in tasks'
               \/ running'[t] = Guard /\ label'[t] = "call" /\ input'[t] = "canceled"
    BY <1>1, <1>8, <2>4
  <2> QED BY <2>1, <2>2, <2>3, <2>4 DEF TimedInv, HaltInv
<1> QED BY <1>10, <1>11, <1>13, <1>14, <1>15, <1>16, <1>17, <1>18, <1>19 DEF TimedInv
-----------------------------------------------------------------------------
(* The caller.                                                             *)

\* The caller gives his operation a result, or cancels a line of contexts.
LEMMA CallerSettles ==
    ASSUME TimedInv, Born(Final), NEW x \in Ctx, NEW r \in Results,
           Settles(x, r, tasks), Ready(x),
           UNCHANGED <<localVars, sharedVars, first, timerVars>>, asked' \in {asked, TRUE},
           x # Sleep, r = "canceled" => asked', x # Op(1) => r = "canceled"
    PROVE  TimedInv'
<1> USE TimedNames, Lines
<1>1. /\ localVars' = localVars /\ sharedVars' = sharedVars /\ first' = first
      /\ timer' = timer /\ index' = index /\ outcome' = outcome /\ expired' = expired
  BY DEF timerVars
<1>2. tasks \in SUBSET tasks
  OBVIOUS
<1>3. \A a \in tasks \ tasks : a.child = x /\ x \in {SleepGuard, Op(2), Final}
  OBVIOUS
<1>4. r = "canceled" => (asked' \/ first # "none")
  OBVIOUS
<1>5. /\ (x \in {Sleep, SleepGuard, Op(2)} /\ r = "value") => expired
      /\ x = Joint => r = "canceled"
      /\ x \in {Joint, Guard} => (r = first \/ (r = "canceled" /\ asked'))
  OBVIOUS
<1>6. /\ TypeOK' /\ ChainInv' /\ TreeInv' /\ SetupInv' /\ RunInv' /\ WordInv' /\ HaltInv'
      /\ (~Done(Joint)' => first' = "none") /\ (first' = "none" => index' = 0)
      /\ (index' = 2 /\ first' = "value") => expired'
      /\ first' = "canceled" => asked'
  BY <1>1, <1>2, <1>3, <1>4, <1>5, PassKeeps
<1>7. TimedTypeOK'
  BY <1>1, <1>6 DEF TimedInv, TimedTypeOK
<1>8. TimerInv'
  <2>1. \A a \in tasks \ tasks : a.child \in {Final} \cup Racing
    OBVIOUS
  <2> QED BY <1>1, <1>2, <2>1, TimerKept
<1>9. ResultInv'
  BY <1>1, <1>6 DEF TimedInv, ResultInv, OutcomeJustified
<1> QED BY <1>6, <1>7, <1>8, <1>9 DEF TimedInv

\* The caller aborts a line of contexts.
LEMMA CallerAborts ==
    ASSUME TimedInv, Born(Final), NEW c \in {Op(1), Final}, Abort(c),
           UNCHANGED <<localVars, sharedVars, historyVars, timerVars>>
    PROVE  TimedInv'
<1> USE TimedNames, Lines
<1>1. /\ running' = running /\ input' = input /\ label' = label /\ left' = left
      /\ loaded' = loaded /\ form' = form /\ counter' = counter /\ res' = res
      /\ first' = first /\ asked' = asked
      /\ timer' = timer /\ index' = index /\ outcome' = outcome /\ expired' = expired
  BY DEF localVars, sharedVars, historyVars, timerVars
<1>2. ChainInv /\ TreeInv /\ TypeOK
  BY DEF TimedInv, TimedTypeOK
<1>3. /\ ChainInv' /\ TreeInv'
      /\ UNCHANGED <<held, tasks, posts, pairVars>>
      /\ \A x \in Ctx : Born(x)' <=> Born(x)
      /\ \A x \in Ctx : Done(x) => Done(x)'
      /\ \A i \in Ops : Halted(i) => Halted(i)'
      /\ \A x \in {Op(2), Sleep, SleepGuard} : m_pending'[x] = m_pending[x]
      /\ (Done(Joint)' /\ Joint \notin aborted') => (Done(Joint) /\ Joint \notin aborted)
  BY <1>1, <1>2, AbortLine
<1>4. tasks' = tasks /\ posts' = posts /\ Born(Final)'
  BY <1>3
<1>5. TimedTypeOK'
  BY <1>1, <1>2, <1>3 DEF TimedInv, TimedTypeOK, TypeOK, ChainInv
<1>6. SetupInv'
  BY <1>4 DEF SetupInv
<1>7. RunInv'
  <2>1. \A x \in Ctx : posts[x] > 0 => posts'[x] > 0
    BY <1>4
  <2>2. asked => asked'
    BY <1>1
  <2> QED BY ONLY TimedInv, Born(Final), <1>1, <1>3, <1>4, <2>1, <2>2, RunKept
<1>8. TimerInv'
  <2>1. \A x \in {Op(2), Sleep, SleepGuard} : Done(x)' <=> Done(x)
    BY <1>3 DEF Done
  <2> QED BY <1>1, <1>4, <2>1 DEF TimedInv, TimerInv
<1>9. WordInv'
  BY <1>1, <1>4 DEF TimedInv, WordInv, Justified
<1>10. HaltInv'
  <2>1. \A a \in tasks : a.child = Guard => a \in tasks'
    BY <1>4
  <2> QED BY <1>1, <1>3, <2>1, HaltKept
<1>11. ResultInv'
  BY <1>1, <1>3 DEF TimedInv, ResultInv, OutcomeJustified
<1> QED BY <1>3, <1>5, <1>6, <1>7, <1>8, <1>9, <1>10, <1>11 DEF TimedInv

\* The caller's steps, between two functors of the loop.
LEMMA TimedClientKeeps ==
    ASSUME TimedInv, ~Returning, \A t \in Threads : Idle(t), TimedClient PROVE TimedInv'
<1> USE TimedNames, Lines
<1>1. ChainInv /\ TreeInv
  BY DEF TimedInv
<1>2. UNCHANGED <<localVars, sharedVars, first, timerVars>>
  BY DEF TimedClient
<1>3. form' = form
  BY <1>2 DEF sharedVars
<1>4. ASSUME NEW c \in Ctx, Born(c) PROVE Born(Final)
  <2>1. form # "none"
    BY <1>1, <1>4 DEF TreeInv
  <2> QED BY <2>1, LoopReady
<1>5. ASSUME NEW r \in Returned, AsyncReturn(Op(1), r), asked' = asked PROVE TimedInv'
  <2>1. r \in Results /\ r # "canceled"
    BY ReturnedAssumption DEF Results
  <2>2. Op(1) \in held /\ Settles(Op(1), r, tasks)
    BY <1>3, <1>5 DEF AsyncReturn, Settles
  <2>3. Born(Op(1)) /\ Ready(Op(1))
    BY <1>1, <2>2 DEF ChainInv, Linked, Completable
  <2>4. Born(Final)
    BY <1>4, <2>3
  <2> QED BY <1>2, <1>5, <2>1, <2>2, <2>3, <2>4, CallerSettles
<1>6. ASSUME NEW c \in {Op(1), Final}, Cancel(c), asked' = TRUE PROVE TimedInv'
  <2>1. PICK x \in Ctx : /\ Settles(x, "canceled", tasks) /\ Ready(x)
                         /\ c = Op(1) => x = Op(1)
                         /\ c = Final => x \in {Joint, Guard, Final}
    BY <1>1, <1>3, <1>6, CancelTop
  <2>2. Born(Final)
    BY <1>1, <1>3, <1>4, <1>6, CancelTop
  <2>3. "canceled" \in Results /\ x # Sleep
    BY <1>6, <2>1 DEF Results
  <2> QED BY <1>2, <1>6, <2>1, <2>2, <2>3, CallerSettles
<1>7. ASSUME NEW c \in {Op(1), Final}, Abort(c), asked' = asked PROVE TimedInv'
  <2>1. Born(Final)
    BY <1>1, <1>3, <1>4, <1>7, AbortLine
  <2>2. UNCHANGED <<localVars, sharedVars, historyVars, timerVars>>
    BY <1>2, <1>7 DEF historyVars
  <2> QED BY <1>7, <2>1, <2>2, CallerAborts
<1> QED BY <1>5, <1>6, <1>7 DEF TimedClient

\* The time is over.
LEMMA TimerExpiresKeeps == ASSUME TimedInv, TimerExpires PROVE TimedInv'
<1> USE TimedNames, Lines
<1>1. /\ timer = "waiting" /\ timer' = "expired" /\ expired' = TRUE
      /\ index' = index /\ outcome' = outcome
      /\ UNCHANGED chainVars
  BY DEF TimerExpires, compoundVars
<1>2. /\ running' = running /\ input' = input /\ label' = label /\ left' = left
      /\ loaded' = loaded /\ form' = form /\ counter' = counter /\ res' = res
      /\ first' = first /\ asked' = asked
  BY DEF TimerExpires, compoundVars, localVars, sharedVars, historyVars
<1>3. /\ m_pending' = m_pending /\ held' = held /\ tasks' = tasks /\ posts' = posts
      /\ aborted' = aborted /\ m_parent' = m_parent /\ kind' = kind
  BY <1>1 DEF chainVars, pairVars
<1>4. ChainInv'
  BY <1>1, StutterStep DEF TimedInv
<1>5. TimedTypeOK'
  BY <1>1, <1>2, <1>4 DEF TimedInv, TimedTypeOK, TypeOK, ChainInv
<1>6. TreeInv'
  BY <1>2, <1>3 DEF TimedInv, TreeInv, Born
<1>7. SetupInv'
  BY <1>1, <1>2, <1>3 DEF TimedInv, SetupInv, Born
<1>8. (\A i \in Ops : Halted(i)' <=> Halted(i)) /\ \A c \in Ctx : Born(c)' <=> Born(c)
  BY <1>3 DEF Halted, Born, Done
<1>9. RunInv'
  BY <1>2, <1>3, <1>8 DEF TimedInv, RunInv, Racing
<1>10. TimerInv'
  BY <1>1, <1>2, <1>3 DEF TimedInv, TimerInv, Done
<1>11. WordInv'
  BY <1>1, <1>2, <1>3 DEF TimedInv, WordInv, Justified
<1>12. ResultInv'
  BY <1>1, <1>2, <1>3 DEF TimedInv, ResultInv, OutcomeJustified, Done
<1>13. HaltInv'
  BY <1>2, <1>3, <1>8 DEF TimedInv, HaltInv, Done
<1> QED BY <1>4, <1>5, <1>6, <1>7, <1>9, <1>10, <1>11, <1>12, <1>13 DEF TimedInv
-----------------------------------------------------------------------------
(* The functors of when_any().                                             *)

\* What is known of a functor that runs.
LEMMA FunctorTurn ==
    ASSUME TimedInv, NEW t \in Threads, label[t] \in {"call", "cancel", "return"}
    PROVE  /\ Threads = {t} /\ Born(Final)
           /\ running[t] \in Racing /\ running[t] \in Ctx /\ posts[running[t]] > 0
           /\ Born(running[t]) /\ Ready(running[t]) /\ Done(Above(running[t]))
           /\ input[t] \in Results /\ Justified(running[t], input[t])
<1> USE TimedNames, Lines
<1>1. Threads = {t}
  BY OneThreadAssumption
<1>2. ChainInv /\ TreeInv /\ RunInv /\ WordInv
  BY DEF TimedInv
<1>3. running[t] \in Racing
  BY <1>2 DEF RunInv
<1>4. /\ running[t] \in Ctx /\ posts[running[t]] > 0 /\ Born(Final)
      /\ input[t] \in Results /\ Justified(running[t], input[t])
  BY <1>2, <1>3 DEF RunInv, WordInv, Racing
<1>5. Born(running[t])
  BY <1>2, <1>4 DEF ChainInv, Linked
<1>6. m_parent[running[t]] = Above(running[t])
  BY <1>2, <1>4, <1>5 DEF TreeInv
<1>7. Done(m_parent[running[t]])
  BY <1>2, <1>4 DEF ChainInv, AbortSilences
<1> QED BY <1>1, <1>3, <1>4, <1>5, <1>6, <1>7 DEF Ready

\* add_cancel() asks whether it was canceled.
LEMMA GuardResultKeeps ==
    ASSUME TimedInv, NEW t \in Threads, GuardResult(t), UNCHANGED timerVars PROVE TimedInv'
<1> USE TimedNames, Lines
<1>1. /\ label[t] = "call" /\ running[t] = Guard
      /\ UNCHANGED chainVars
  BY DEF GuardResult
<1>2. /\ running' = running /\ input' = input /\ loaded' = loaded
      /\ form' = form /\ counter' = counter /\ res' = res
      /\ first' = first /\ asked' = asked
      /\ timer' = timer /\ index' = index /\ outcome' = outcome /\ expired' = expired
  BY DEF GuardResult, sharedVars, historyVars, timerVars
<1>3. /\ m_pending' = m_pending /\ held' = held /\ tasks' = tasks /\ posts' = posts
      /\ aborted' = aborted /\ m_parent' = m_parent /\ kind' = kind
  BY <1>1 DEF chainVars, pairVars
<1>4. /\ Threads = {t} /\ Born(Final) /\ posts[Guard] > 0 /\ input[t] \in Results
      /\ Justified(Guard, input[t])
  BY <1>1, FunctorTurn
<1>5. TypeOK
  BY DEF TimedInv, TimedTypeOK
<1>6. /\ input[t] = "canceled" => left' = [left EXCEPT ![t] = Ops] /\ label'[t] = "cancel"
      /\ input[t] # "canceled" => left' = left /\ label'[t] = "return"
      /\ label' \in [Threads ->
            {"idle", "attach", "call", "store", "settle", "cancel", "return"}]
  BY <1>5 DEF GuardResult, Goto, TypeOK
<1>7. left' \in [Threads -> SUBSET Ops] /\ (input[t] = "canceled" => left'[t] = Ops)
  BY <1>5, <1>6 DEF TypeOK
<1>8. ChainInv'
  BY <1>1, StutterStep DEF TimedInv
<1>9. TimedTypeOK'
  BY <1>2, <1>6, <1>7, <1>8 DEF TimedInv, TimedTypeOK, TypeOK, ChainInv
<1>10. TreeInv'
  BY <1>2, <1>3 DEF TimedInv, TreeInv, Born
<1>11. SetupInv'
  BY <1>3, <1>4 DEF SetupInv, Born
<1>12. RunInv'
  <2>1. label'[t] \in {"cancel", "return"} /\ (label'[t] = "cancel" => Ops \ left'[t] = {})
    BY <1>6, <1>7
  <2>2. label'[t] = "cancel" => asked \/ first # "none"
    BY <1>4, <1>6 DEF Justified
  <2> QED BY <1>1, <1>2, <1>3, <1>4, <2>1, <2>2 DEF RunInv, Racing, Born
<1>13. TimerInv'
  BY <1>2, <1>3 DEF TimedInv, TimerInv, Done
<1>14. WordInv'
  BY <1>2, <1>3 DEF TimedInv, WordInv, Justified
<1>15. ResultInv'
  BY <1>2, <1>3 DEF TimedInv, ResultInv, OutcomeJustified, Done
<1>16. HaltInv'
  <2>1. \A i \in Ops : Halted(i)' <=> Halted(i)
    BY <1>3 DEF Halted, Done
  <2>2. \A u \in Threads : u = t /\ label[u] # "cancel"
    BY <1>1, <1>4
  <2>3. input[t] = "canceled" => \E u \in Threads : label'[u] = "cancel"
    BY <1>6
  <2> QED BY <1>2, <1>3, <2>1, <2>2, <2>3 DEF TimedInv, HaltInv, Done
<1> QED BY <1>8, <1>9, <1>10, <1>11, <1>12, <1>13, <1>14, <1>15, <1>16 DEF TimedInv

\* The loop over the operations cancels the next one.
LEMMA CancelNextKeeps ==
    ASSUME TimedInv, NEW t \in Threads, CancelNext(t), UNCHANGED timerVars PROVE TimedInv'
<1> USE TimedNames, Lines
<1> SUFFICES ASSUME NEW i, i = Min(left[t]) PROVE TimedInv'
  OBVIOUS
<1>1. /\ label[t] = "cancel" /\ left[t] # {} /\ Cancel(Op(i))
      /\ left' = [left EXCEPT ![t] = @ \ {i}]
      /\ running' = running /\ input' = input /\ label' = label /\ loaded' = loaded
      /\ form' = form /\ counter' = counter /\ res' = res
      /\ first' = first /\ asked' = asked
      /\ timer' = timer /\ index' = index /\ outcome' = outcome /\ expired' = expired
  BY DEF CancelNext, sharedVars, historyVars, timerVars
<1>2. Threads = {t} /\ Born(Final) /\ running[t] \in Racing
  BY <1>1, FunctorTurn
<1>3. ChainInv /\ TreeInv /\ TypeOK /\ RunInv
  BY DEF TimedInv, TimedTypeOK
<1>4. left[t] \in SUBSET Ops /\ left'[t] = left[t] \ {i}
      /\ left' \in [Threads -> SUBSET Ops]
  BY <1>1, <1>3 DEF TypeOK
<1>5. i \in Ops /\ Op(i) \in {Op(1), Op(2), Final}
  <2>1. \E j \in left[t] : \A k \in left[t] : j <= k
    BY <1>1, <1>4
  <2>2. i \in left[t]
    BY <2>1 DEF Min
  <2> QED BY <1>4, <2>2
<1>6. PICK x \in Ctx : /\ Settles(x, "canceled", tasks) /\ Ready(x)
                       /\ i = 1 => x = Op(1)
                       /\ i = 2 => x \in {Sleep, SleepGuard, Op(2)} /\ (x # Sleep => Done(Sleep))
  BY <1>1, <1>3, <1>5, CancelTop
<1>7. "canceled" \in Results /\ x \notin {Joint, Guard} /\ tasks \in SUBSET tasks
  BY <1>5, <1>6 DEF Results
<1>8. /\ ChainInv' /\ TreeInv'
      /\ \A c \in Ctx : Born(c)' <=> Born(c)
      /\ \A c \in Ctx : Done(c) => Done(c)'
      /\ \A j \in Ops : Halted(j) => Halted(j)'
  BY <1>2, <1>3, <1>6, <1>7, SettlesKeeps
<1>9. Effect(x, "canceled", tasks)
  BY <1>2, <1>3, <1>6, <1>7, SettlesEffect
<1>10. TimedTypeOK'
  BY <1>1, <1>3, <1>4, <1>8 DEF TimedInv, TimedTypeOK, TypeOK, ChainInv
<1>11. SetupInv'
  BY <1>2, <1>8 DEF SetupInv
<1>12. asked \/ first # "none"
  BY <1>1, <1>3 DEF RunInv
<1>13. RunInv'
  <2>1. Halted(i)'
    <3>1. CASE i = 1
      <4>1. m_pending'[Op(1)] \in {"canceled", "done"}
        BY <1>6, <1>9, <3>1 DEF Effect
      <4> QED BY <3>1, <4>1 DEF Halted, Results
    <3>2. CASE i = 2
      <4>1. Done(Sleep)'
        BY <1>6, <1>8, <1>9, <3>2 DEF Effect
      <4> QED BY <3>2, <4>1 DEF Halted
    <3> QED BY <1>5, <3>1, <3>2
  <2>2. \A j \in Ops \ left'[t] : Halted(j)'
    BY <1>1, <1>3, <1>4, <1>8, <2>1 DEF RunInv
  <2>3. posts'[running[t]] > 0
    BY <1>2, <1>3, <1>9 DEF RunInv, Effect, Racing
  <2> QED BY <1>1, <1>2, <1>3, <1>8, <1>12, <2>2, <2>3 DEF RunInv, Racing
<1>14. TimerInv'
  <2>1. \A a \in tasks \ tasks : a.child \in {Final} \cup Racing
    OBVIOUS
  <2> QED BY <1>1, <1>2, <1>6, <1>7, <2>1, TimerKept
<1>15. WordInv'
  <2>1. \A a \in tasks' :
          \/ a \in tasks
          \/ a.child \in Ctx /\ Above(a.child) = x /\ a.result = "canceled" /\ ~Done(x)
    BY <1>9 DEF Effect
  <2>2. ~Done(x) =>
          /\ (x \in {Sleep, SleepGuard, Op(2)} /\ "canceled" = "value") => expired'
          /\ "canceled" = "canceled" => (asked' \/ first' # "none")
          /\ x \in {Joint, Guard} => ("canceled" = first' \/ ("canceled" = "canceled" /\ asked'))
    BY <1>1, <1>7, <1>12
  <2>3. (expired => expired') /\ (asked => asked') /\ (first # "none" => first' = first)
    BY <1>1
  <2>4. \A u \in Threads : running'[u] \in Racing =>
          running'[u] = running[u] /\ input'[u] = input[u]
    BY <1>1
  <2> QED BY ONLY TimedInv, x \in Ctx, <1>7, <2>1, <2>2, <2>3, <2>4, WordsKept
<1>16. Done(Joint)' => Done(Joint)
  BY <1>7, <1>9 DEF Effect, Done
<1>17. ResultInv'
  BY <1>1, <1>8, <1>16 DEF TimedInv, ResultInv, OutcomeJustified
<1>18. HaltInv'
  BY <1>1 DEF HaltInv
<1> QED BY <1>8, <1>10, <1>11, <1>13, <1>14, <1>15, <1>17, <1>18 DEF TimedInv

\* A functor returns.
LEMMA ReturnKeeps ==
    ASSUME TimedInv, NEW t \in Threads, Return(t), UNCHANGED timerVars PROVE TimedInv'
<1> USE TimedNames, Lines
<1> SUFFICES ASSUME NEW x, x = running[t], NEW r, r = IF x = Guard THEN input[t] ELSE "value"
             PROVE  TimedInv'
  OBVIOUS
<1>1. /\ label[t] = "return" \/ (label[t] = "cancel" /\ left[t] = {})
      /\ Settle(x, r, m_pending, tasks)
      /\ UNCHANGED <<held, aborted, pairVars>>
  BY DEF Return
<1>2. /\ running' = [running EXCEPT ![t] = NoCtx] /\ input' = [input EXCEPT ![t] = "none"]
      /\ label' = [label EXCEPT ![t] = "idle"] /\ left' = [left EXCEPT ![t] = {}]
      /\ loaded' = [loaded EXCEPT ![t] = 0]
  BY DEF Return, Finish, Goto
<1>3. /\ form' = form /\ counter' = counter /\ res' = res
      /\ first' = first /\ asked' = asked
      /\ timer' = timer /\ index' = index /\ outcome' = outcome /\ expired' = expired
  BY DEF Return, sharedVars, historyVars, timerVars
<1>4. /\ Threads = {t} /\ Born(Final) /\ x \in Racing /\ x \in Ctx /\ Ready(x)
      /\ input[t] \in Results /\ Justified(x, input[t])
  BY <1>1, FunctorTurn
<1>5. r \in Results /\ x # Joint /\ tasks \in SUBSET tasks
  BY <1>4 DEF Results, Racing
<1>6. Settles(x, r, tasks)
  BY <1>1, <1>3 DEF Settles
<1>7. ChainInv /\ TreeInv /\ TypeOK /\ RunInv
  BY DEF TimedInv, TimedTypeOK
<1>8. /\ ChainInv' /\ TreeInv'
      /\ \A c \in Ctx : Born(c)' <=> Born(c)
      /\ \A c \in Ctx : Done(c) => Done(c)'
      /\ \A j \in Ops : Halted(j) => Halted(j)'
  BY <1>4, <1>5, <1>6, <1>7, SettlesKeeps
<1>9. Effect(x, r, tasks)
  BY <1>4, <1>5, <1>6, <1>7, SettlesEffect
<1>10. running'[t] = NoCtx /\ label'[t] = "idle"
  BY <1>2, <1>7 DEF TypeOK
<1>11. TimedTypeOK'
  <2>1. 0 \in 0 .. N
    BY TwoOpsAssumption
  <2>2. TypeOK'
    BY <1>2, <1>3, <1>7, <1>8, <2>1 DEF TypeOK, ChainInv
  <2> QED BY <1>3, <2>2 DEF TimedInv, TimedTypeOK
<1>12. SetupInv'
  BY <1>4, <1>8 DEF SetupInv
<1>13. RunInv'
  BY <1>4, <1>10 DEF RunInv, Racing
<1>14. TimerInv'
  <2>1. \A a \in tasks \ tasks : a.child \in {Final} \cup Racing
    OBVIOUS
  <2>2. x = Sleep => r = "canceled"
    BY <1>4 DEF Racing
  <2> QED BY <1>3, <1>4, <1>5, <1>6, <2>1, <2>2, TimerKept
<1>15. WordInv'
  <2>1. \A a \in tasks' :
          \/ a \in tasks
          \/ a.child \in Ctx /\ Above(a.child) = x /\ a.result = r /\ ~Done(x)
    BY <1>9 DEF Effect
  <2>2. ~Done(x) =>
          /\ (x \in {Sleep, SleepGuard, Op(2)} /\ r = "value") => expired'
          /\ r = "canceled" => (asked' \/ first' # "none")
          /\ x \in {Joint, Guard} => (r = first' \/ (r = "canceled" /\ asked'))
    BY <1>3, <1>4, <1>5 DEF Justified, Racing
  <2>3. (expired => expired') /\ (asked => asked') /\ (first # "none" => first' = first)
    BY <1>3
  <2>4. \A u \in Threads : running'[u] \in Racing =>
          running'[u] = running[u] /\ input'[u] = input[u]
    BY <1>4, <1>10 DEF Racing
  <2> QED BY ONLY TimedInv, <1>4, <1>5, <2>1, <2>2, <2>3, <2>4, WordsKept
<1>16. Done(Joint)' => Done(Joint)
  BY <1>5, <1>9 DEF Effect, Done
<1>17. ResultInv'
  BY <1>3, <1>8, <1>16 DEF TimedInv, ResultInv, OutcomeJustified
<1>18. HaltInv'
  <2>1. (\E u \in Threads : label[u] = "cancel") => \A i \in Ops : Halted(i)
    <3>1. label[t] = "cancel" => \A i \in Ops \ {} : Halted(i)
      BY <1>1, <1>7 DEF RunInv
    <3> QED BY <1>4, <3>1
  <2>2. \A u \in Threads : label[u] # "call"
    BY <1>1, <1>4
  <2>3. \A a \in tasks : a \in tasks'
    BY <1>9 DEF Effect
  <2>4. aborted' = aborted
    BY <1>1
  <2> QED BY <1>8, <1>16, <2>1, <2>2, <2>3, <2>4 DEF TimedInv, HaltInv
<1> QED BY <1>8, <1>11, <1>12, <1>13, <1>14, <1>15, <1>17, <1>18 DEF TimedInv

\* An operation has a result: Joint gets it, if it is the first.
LEMMA SettleEarlyKeeps ==
    ASSUME TimedInv, NEW t \in Threads, SettleEarly(t), timer' = timer, outcome' = outcome,
           expired' = expired,
           index' = IF ~Done(Joint) THEN CHOOSE i \in Ops : running[t] = Watch(i) ELSE index
    PROVE  TimedInv'
<1> USE TimedNames, Lines
<1> SUFFICES ASSUME NEW r, r = input[t],
                    NEW w, w = CHOOSE j \in Ops : running[t] = Watch(j),
                    index' = IF ~Done(Joint) THEN w ELSE index
             PROVE  TimedInv'
  OBVIOUS
<1>1. PICK i \in Ops : running[t] = Watch(i) /\ left' = [left EXCEPT ![t] = Ops \ {i}]
  BY DEF SettleEarly
<1>2. /\ label[t] = "call" /\ label' = [label EXCEPT ![t] = "cancel"]
      /\ Settle(Joint, r, m_pending, tasks)
      /\ first' = IF first = "none" THEN r ELSE first
      /\ UNCHANGED <<held, aborted, pairVars>>
      /\ running' = running /\ input' = input /\ loaded' = loaded
      /\ form' = form /\ counter' = counter /\ res' = res /\ asked' = asked
  BY DEF SettleEarly, Conclude, Goto, sharedVars
<1>3. /\ Threads = {t} /\ Born(Final) /\ running[t] \in Racing /\ posts[running[t]] > 0
      /\ Done(Above(running[t])) /\ r \in Results /\ Justified(running[t], r)
  BY <1>2, FunctorTurn
<1>4. i \in {1, 2} /\ running[t] = Watch(i) /\ Above(Watch(i)) = Op(i)
  BY <1>1
<1>5. ChainInv /\ TreeInv /\ TypeOK /\ RunInv /\ ResultInv
  BY DEF TimedInv, TimedTypeOK
<1>6. Settles(Joint, r, tasks) /\ tasks \in SUBSET tasks
  BY <1>2 DEF Settles
<1>7. Ready(Joint)
  BY <1>5 DEF Ready, TreeInv
<1>8. /\ ChainInv' /\ TreeInv'
      /\ \A c \in Ctx : Born(c)' <=> Born(c)
      /\ \A c \in Ctx : Done(c) => Done(c)'
      /\ \A j \in Ops : Halted(j) => Halted(j)'
  BY <1>3, <1>5, <1>6, <1>7, SettlesKeeps
<1>9. Effect(Joint, r, tasks)
  BY <1>3, <1>5, <1>6, SettlesEffect
<1>10. /\ left'[t] = Ops \ {i} /\ label'[t] = "cancel" /\ left' \in [Threads -> SUBSET Ops]
       /\ label' \in [Threads ->
             {"idle", "attach", "call", "store", "settle", "cancel", "return"}]
  BY <1>1, <1>2, <1>5 DEF TypeOK
<1>11. index' = IF ~Done(Joint) THEN i ELSE index
  <2>1. \A j \in Ops : running[t] = Watch(j) <=> j = i
    BY <1>4
  <2>2. w \in Ops /\ running[t] = Watch(w)
    BY <1>1
  <2> QED BY <2>1, <2>2
<1>12. Halted(i)
  <2>1. Done(Op(i))
    BY <1>3, <1>4
  <2>2. i = 2 => Done(Sleep)
    <3>1. \A c \in Ctx : (Done(c) /\ m_parent[c] # NoCtx) => Done(m_parent[c])
      BY <1>5 DEF ChainInv, ParentFirst, Done
    <3>2. i = 2 => Born(Op(2)) /\ m_parent[Op(2)] = SleepGuard
      BY <2>1, <1>5 DEF TreeInv, Born, Done
    <3>3. i = 2 => Done(SleepGuard)
      BY <2>1, <3>1, <3>2
    <3>4. i = 2 => m_parent[SleepGuard] = Sleep
      BY <1>5, <3>3 DEF TreeInv, Born, Done
    <3> QED BY <3>1, <3>3, <3>4
  <2> QED BY <1>4, <2>1, <2>2 DEF Halted, Done
<1>13. first' # "none" /\ first' \in Results
  BY <1>2, <1>3, <1>5 DEF Results, TypeOK
<1>14. (~Done(Joint) => first = "none") /\ Done(Joint)'
  BY <1>5, <1>8, <1>9 DEF ResultInv, Effect
<1>15. TimedTypeOK'
  <2>1. TypeOK'
    BY <1>2, <1>5, <1>8, <1>10, <1>13 DEF TypeOK, ChainInv
  <2>2. index' \in 0 .. 2
    BY <1>4, <1>11 DEF TimedInv, TimedTypeOK
  <2> QED BY <2>1, <2>2 DEF TimedInv, TimedTypeOK
<1>16. SetupInv'
  BY <1>3, <1>8 DEF SetupInv
<1>17. RunInv'
  <2>1. \A j \in Ops \ left'[t] : Halted(j)'
    BY <1>8, <1>10, <1>12
  <2>2. posts'[running[t]] > 0
    BY <1>3, <1>9 DEF Effect, Racing
  <2> QED BY <1>2, <1>3, <1>8, <1>10, <1>13, <2>1, <2>2 DEF RunInv, Racing
<1>18. TimerInv'
  <2>1. \A a \in tasks \ tasks : a.child \in {Final} \cup Racing
    OBVIOUS
  <2>2. Joint = Sleep => r = "canceled"
    OBVIOUS
  <2> QED BY <1>3, <1>6, <1>7, <2>1, <2>2, TimerKept
<1>19. WordInv'
  <2>1. \A a \in tasks' :
          \/ a \in tasks
          \/ a.child \in Ctx /\ Above(a.child) = Joint /\ a.result = r /\ ~Done(Joint)
    BY <1>9 DEF Effect
  <2>2. ~Done(Joint) =>
          /\ (Joint \in {Sleep, SleepGuard, Op(2)} /\ r = "value") => expired'
          /\ r = "canceled" => (asked' \/ first' # "none")
          /\ Joint \in {Joint, Guard} => (r = first' \/ (r = "canceled" /\ asked'))
    BY <1>2, <1>13, <1>14
  <2>3. (expired => expired') /\ (asked => asked') /\ (first # "none" => first' = first)
    BY <1>2
  <2>4. \A u \in Threads : running'[u] \in Racing =>
          running'[u] = running[u] /\ input'[u] = input[u]
    BY <1>2
  <2>5. Joint \in Ctx
    OBVIOUS
  <2> QED BY ONLY TimedInv, <1>3, <2>1, <2>2, <2>3, <2>4, <2>5, WordsKept
<1>20. ResultInv'
  <2>1. (index' = 2 /\ first' = "value") => expired'
    <3>1. CASE first = "none"
      <4>1. index' = 2 => i = 2
        BY <1>5, <1>11, <3>1 DEF ResultInv
      <4> QED BY <1>2, <1>3, <1>4, <3>1, <4>1 DEF Justified
    <3>2. CASE first # "none"
      BY <1>2, <1>5, <1>11, <1>14, <3>2 DEF ResultInv
    <3> QED BY <3>1, <3>2
  <2>2. first' = "canceled" => asked'
    BY <1>2, <1>3, <1>5 DEF ResultInv, Justified
  <2> QED BY <1>2, <1>5, <1>13, <1>14, <2>1, <2>2 DEF ResultInv, OutcomeJustified
<1>21. HaltInv'
  BY <1>10 DEF HaltInv
<1> QED BY <1>8, <1>15, <1>16, <1>17, <1>18, <1>19, <1>20, <1>21 DEF TimedInv
-----------------------------------------------------------------------------
(* The steps until the caller has his handle.                              *)

\* What continuing one context by the next one in line does.
Attaches(x, child) ==
    /\ ChainInv' /\ TreeInv'
    /\ x # child /\ ~Born(child) /\ Born(child)'
    /\ m_pending'[child] = "empty" /\ m_pending'[x] \in {"callbacks", "done"}
    /\ \A c \in Ctx \ {x, child} : m_pending'[c] = m_pending[c]
    /\ \/ tasks' = tasks /\ posts' = posts
       \/ /\ m_pending[x] \in Results
          /\ tasks' = tasks \cup {[child |-> child, result |-> m_pending[x]]}
          /\ \A c \in Ctx \ {child} : posts'[c] = posts[c]
    /\ m_pending'[x] = "done" => m_pending[x] \in {"done"} \cup Results

\* The contexts are one more, and remain as they have to be.
LEMMA AttachKeeps ==
    ASSUME ChainInv, TreeInv, NEW child \in {Watch(1), Watch(2), Guard, Final},
           NEW x, x = Above(child), Born(x), form # "none", form' = form,
           child = Guard => Born(Watch(1)) /\ Born(Watch(2)),
           child = Final => Born(Guard),
           NEW k \in {"then", "then_both"}, Attach(x, child, k, NoCtx, tasks),
           UNCHANGED <<held, aborted>>
    PROVE  Attaches(x, child)
<1> USE TimedNames, Lines
<1>1. child \in Ctx /\ x \in Ctx /\ x # child
  OBVIOUS
<1>2. /\ m_pending \in [Ctx -> States] /\ posts \in [Ctx -> Nat]
      /\ m_parent \in [Ctx -> Ctx \cup {NoCtx}] /\ kind \in [Ctx -> Kinds]
  BY DEF ChainInv, ChainTypeOK, States
<1>3. /\ ~Born(child) /\ m_pending[child] = "unborn" /\ m_pending[x] # "unborn"
      /\ m_parent' = [m_parent EXCEPT ![child] = x]
      /\ kind' = [kind EXCEPT ![child] = k]
      /\ held' = held /\ aborted' = aborted
  BY DEF Attach, Born
<1>4. ChainInv'
  <2>1. Handle(x) /\ k \in Kinds /\ tasks \subseteq tasks /\ k # "forward"
    BY <1>1 DEF TreeInv, Handle, Kinds
  <2>2. NoCtx \in Ctx \cup {NoCtx}
    OBVIOUS
  <2>3. ChainInv /\ Attach(x, child, k, NoCtx, tasks) /\ UNCHANGED <<held, aborted>>
    OBVIOUS
  <2> QED BY ONLY <1>1, <2>1, <2>2, <2>3, AttachStep
<1> DEFINE pend == [m_pending EXCEPT ![child] = "empty"]
<1>5. SetContinuation(x, child, pend, tasks)
  BY DEF Attach
<1>6. /\ pend \in [Ctx -> States] /\ pend[child] = "empty" /\ pend[x] = m_pending[x]
      /\ \A c \in Ctx \ {child} : pend[c] = m_pending[c]
  BY <1>1, <1>2 DEF States
<1> HIDE DEF pend
<1>7. /\ m_pending'[child] = "empty" /\ m_pending'[x] \in {"callbacks", "done"}
      /\ \A c \in Ctx \ {x, child} : m_pending'[c] = m_pending[c]
      /\ \/ tasks' = tasks /\ posts' = posts
         \/ /\ m_pending[x] \in Results
            /\ tasks' = tasks \cup {[child |-> child, result |-> m_pending[x]]}
            /\ \A c \in Ctx \ {child} : posts'[c] = posts[c]
      /\ m_pending'[x] = "done" => m_pending[x] \in {"done"} \cup Results
  <2>1. CASE pend[x] \in Results
    <3>1. /\ m_pending' = [pend EXCEPT ![x] = "done"]
          /\ tasks' = tasks \cup {[child |-> child, result |-> pend[x]]}
          /\ posts' = [posts EXCEPT ![child] = @ + 1]
      BY <1>5, <2>1 DEF SetContinuation, Post, Results
    <3>2. /\ m_pending'[child] = "empty" /\ m_pending'[x] = "done"
          /\ \A c \in Ctx \ {x, child} : m_pending'[c] = m_pending[c]
      BY <1>1, <1>6, <3>1
    <3>3. \A c \in Ctx \ {child} : posts'[c] = posts[c]
      BY <1>2, <3>1
    <3> QED BY <1>6, <2>1, <3>1, <3>2, <3>3
  <2>2. CASE pend[x] \notin Results
    <3>1. /\ \/ pend[x] = "done" /\ m_pending' = pend
             \/ pend[x] \in {"empty", "callbacks"} /\ m_pending' = [pend EXCEPT ![x] = "callbacks"]
          /\ tasks' = tasks /\ posts' = posts
      BY <1>5, <2>2 DEF SetContinuation
    <3> QED BY <1>1, <1>6, <3>1
  <2> QED BY <2>1, <2>2
<1>8. \A c \in Ctx : Born(c)' <=> (Born(c) \/ c = child)
  BY <1>1, <1>3, <1>7 DEF Born
<1>9. TreeInv'
  <2>1. (\A c \in Ctx : m_parent[c] = IF Born(c) THEN Above(c) ELSE NoCtx)'
    BY <1>1, <1>2, <1>3, <1>8 DEF TreeInv
  <2>2. (\A c \in Ctx : kind[c] # "forward")'
    BY <1>1, <1>2, <1>3 DEF TreeInv
  <2>3. \A c \in Ctx : (Born(c)' /\ Above(c) # NoCtx) =>
           m_pending'[Above(c)] \in {"callbacks", "done"}
    <3> SUFFICES ASSUME NEW c \in Ctx, Born(c)', NEW y, y = Above(c), y # NoCtx
                 PROVE  m_pending'[y] \in {"callbacks", "done"}
      OBVIOUS
    <3>1. CASE y = x
      BY <1>7, <3>1
    <3>2. CASE y # x
      <4>1. c # child /\ Born(c) /\ y \in Ctx
        BY <1>8, <3>2
      <4>2. m_pending[y] \in {"callbacks", "done"}
        BY <4>1 DEF TreeInv
      <4> QED BY <1>3, <1>7, <3>2, <4>1, <4>2
    <3> QED BY <3>1, <3>2
  <2>4. form' = "when_any" /\ kind'[Op(2)] = "then"
    BY <1>1, <1>2, <1>3 DEF TreeInv
  <2>5. /\ (Born(Guard) => Born(Watch(1)) /\ Born(Watch(2)))'
        /\ (Born(Final) => Born(Guard))'
        /\ \A c \in {Op(1), Op(2), Sleep, SleepGuard, Joint} : Born(c)'
    BY <1>8 DEF TreeInv
  <2> QED BY <1>3, <2>1, <2>2, <2>3, <2>4, <2>5 DEF TreeInv
<1> QED BY <1>1, <1>3, <1>4, <1>7, <1>8, <1>9 DEF Attaches

\* While the handle is being made, attaching disturbs nothing but the contexts concerned.
LEMMA SetupKept ==
    ASSUME TimedInv, ~Born(Final), NEW child \in {Watch(1), Watch(2), Guard, Final},
           NEW x, x = Above(child), Born(x), Attaches(x, child),
           UNCHANGED <<aborted, sharedVars, historyVars, timerVars>>
    PROVE  /\ tasks' \subseteq [child : {Watch(1)}, result : Returned]
           /\ \A c \in Ctx : posts'[c] > 0 => c = Watch(1)
           /\ \A c \in {Op(2), Joint, Guard} : m_pending'[c] \in {"unborn", "empty", "callbacks"}
           /\ m_pending'[Op(1)] \in {"unborn", "empty", "callbacks", "done"} \cup Returned
           /\ \A c \in {Sleep, SleepGuard} : m_pending'[c] \in {"unborn", "callbacks"}
           /\ TimerInv' /\ ResultInv' /\ HaltInv'
           /\ \A a \in tasks' : Justified(a.child, a.result)'
<1> USE TimedNames, Lines
<1>1. /\ form' = form /\ first' = first /\ asked' = asked /\ aborted' = aborted
      /\ timer' = timer /\ index' = index /\ outcome' = outcome /\ expired' = expired
  BY DEF sharedVars, historyVars, timerVars
<1>2. /\ m_pending'[child] = "empty" /\ m_pending'[x] \in {"callbacks", "done"}
      /\ \A c \in Ctx \ {x, child} : m_pending'[c] = m_pending[c]
      /\ \/ tasks' = tasks /\ posts' = posts
         \/ /\ m_pending[x] \in Results
            /\ tasks' = tasks \cup {[child |-> child, result |-> m_pending[x]]}
            /\ \A c \in Ctx \ {child} : posts'[c] = posts[c]
      /\ m_pending'[x] = "done" => m_pending[x] \in {"done"} \cup Results
  BY DEF Attaches
<1>3. /\ tasks \subseteq [child : {Watch(1)}, result : Returned]
      /\ \A c \in Ctx : posts[c] > 0 => c = Watch(1)
      /\ \A c \in {Op(2), Joint, Guard} : m_pending[c] \in {"unborn", "empty", "callbacks"}
      /\ m_pending[Op(1)] \in {"unborn", "empty", "callbacks", "done"} \cup Returned
      /\ \A c \in {Sleep, SleepGuard} : m_pending[c] \in {"unborn", "callbacks"}
      /\ first = "none" /\ ~asked /\ index = 0 /\ outcome = "none"
      /\ timer \in {"none", "waiting", "expired"}
  BY DEF TimedInv, SetupInv
<1>4. x \in {Op(1), Op(2), Joint, Guard} /\ (x = Op(1) <=> child = Watch(1))
  OBVIOUS
<1>5. m_pending[x] \in Results => x = Op(1) /\ child = Watch(1) /\ m_pending[x] \in Returned
  BY <1>3, <1>4, ReturnedAssumption DEF Results
<1>6. tasks' \subseteq [child : {Watch(1)}, result : Returned]
  BY <1>2, <1>3, <1>5
<1>7. \A c \in Ctx : posts'[c] > 0 => c = Watch(1)
  BY <1>2, <1>3, <1>5
<1>8. /\ \A c \in {Op(2), Joint, Guard} : m_pending'[c] \in {"unborn", "empty", "callbacks"}
      /\ m_pending'[Op(1)] \in {"unborn", "empty", "callbacks", "done"} \cup Returned
      /\ \A c \in {Sleep, SleepGuard} : m_pending'[c] \in {"unborn", "callbacks"}
  <2>1. m_pending'[x] = "done" => x = Op(1)
    BY <1>2, <1>3, <1>4, ReturnedAssumption DEF Results
  <2> QED BY <1>2, <1>3, <1>4, <2>1
<1>9. TimerInv'
  <2>1. ~Done(Sleep)'
    BY <1>8 DEF Done
  <2>2. \A c \in {SleepGuard, Op(2)} : ~(posts'[c] > 0)
    BY <1>7
  <2> QED BY <1>1, <1>3, <2>1, <2>2 DEF TimedInv, TimerInv
<1>10. ResultInv'
  BY <1>1, <1>3 DEF ResultInv, OutcomeJustified
<1>11. HaltInv'
  BY <1>8 DEF HaltInv, Done
<1>12. \A a \in tasks' : Justified(a.child, a.result)'
  <2>1. \A a \in tasks' : a.child = Watch(1) /\ a.result \in {"value", "error"}
    BY <1>6, ReturnedAssumption
  <2> QED BY <2>1 DEF Justified
<1> QED BY <1>6, <1>7, <1>8, <1>9, <1>10, <1>11, <1>12

\* The functor of Joint watches an operation, or add_cancel() continues Joint.
LEMMA AttachWatchKeeps ==
    ASSUME TimedInv, NEW t \in Threads, AttachWatch(t), UNCHANGED timerVars PROVE TimedInv'
<1> USE TimedNames, Lines
<1>1. label[t] = "attach" /\ Threads = {t}
  BY OneThreadAssumption DEF AttachWatch
<1>2. ChainInv /\ TreeInv /\ TypeOK
  BY DEF TimedInv, TimedTypeOK
<1>3. /\ form # "none" /\ ~Born(Guard) /\ running[t] = Joint
      /\ \A i \in Ops : Born(Watch(i)) <=> i \notin left[t]
  BY <1>1 DEF TimedInv, RunInv
<1>4. ~Born(Final)
  BY <1>2, <1>3 DEF TreeInv
<1>5. /\ UNCHANGED <<held, aborted, sharedVars, historyVars, timerVars>>
      /\ form' = form /\ counter' = counter /\ res' = res /\ first' = first /\ asked' = asked
      /\ timer' = timer /\ index' = index /\ outcome' = outcome /\ expired' = expired
      /\ held' = held /\ aborted' = aborted
  BY DEF AttachWatch, sharedVars, historyVars, timerVars
<1>6. ASSUME NEW child \in {Watch(1), Watch(2), Guard, Final}, NEW x, x = Above(child), Born(x),
             Attaches(x, child),
             running' \in [Threads -> Ctx \cup {NoCtx}],
             input' \in [Threads -> {"none"} \cup Results],
             label' \in [Threads -> {"idle", "attach"}],
             left' \in [Threads -> SUBSET Ops],
             loaded' \in [Threads -> 0 .. N],
             Born(Guard)' \/ label'[t] = "attach",
             RunInv', running'[t] \notin Racing
      PROVE  TimedInv'
  <2>1. /\ tasks' \subseteq [child : {Watch(1)}, result : Returned]
        /\ \A c \in Ctx : posts'[c] > 0 => c = Watch(1)
        /\ \A c \in {Op(2), Joint, Guard} : m_pending'[c] \in {"unborn", "empty", "callbacks"}
        /\ m_pending'[Op(1)] \in {"unborn", "empty", "callbacks", "done"} \cup Returned
        /\ \A c \in {Sleep, SleepGuard} : m_pending'[c] \in {"unborn", "callbacks"}
        /\ TimerInv' /\ ResultInv' /\ HaltInv'
        /\ \A a \in tasks' : Justified(a.child, a.result)'
    BY <1>4, <1>5, <1>6, SetupKept
  <2>2. ChainInv' /\ TreeInv'
    BY <1>6 DEF Attaches
  <2>3. TypeOK'
    <3>1. \A u \in Threads : label'[u] \in
              {"idle", "attach", "call", "store", "settle", "cancel", "return"}
      BY <1>6
    <3>2. label' \in [Threads ->
              {"idle", "attach", "call", "store", "settle", "cancel", "return"}]
      BY <1>6, <3>1
    <3> QED BY <1>2, <1>5, <1>6, <2>2, <3>2 DEF TypeOK, ChainInv
  <2>4. TimedTypeOK'
    BY <1>5, <2>3 DEF TimedInv, TimedTypeOK
  <2>5. SetupInv'
    <3>1. /\ aborted = {} /\ first = "none" /\ ~asked /\ index = 0 /\ outcome = "none"
          /\ timer \in {"none", "waiting", "expired"}
      BY <1>4 DEF TimedInv, SetupInv
    <3>2. \A u \in Threads : label'[u] \in {"idle", "attach"}
      BY <1>6
    <3>3. Born(Guard)' \/ \E u \in Threads : label'[u] = "attach"
      BY <1>6
    <3> QED BY <1>5, <2>1, <3>1, <3>2, <3>3 DEF SetupInv
  <2>6. WordInv'
    <3>1. \A u \in Threads : running'[u] \notin Racing
      BY <1>1, <1>6
    <3> QED BY <2>1, <3>1 DEF WordInv
  <2> QED BY <1>6, <2>1, <2>2, <2>4, <2>5, <2>6 DEF TimedInv
<1>7. label \in [Threads -> {"idle", "attach"}]
  <2>1. \A u \in Threads : label[u] \in {"idle", "attach"}
    BY <1>1
  <2> QED BY <1>2, <2>1 DEF TypeOK
<1>8. CASE left[t] # {}
  <2> SUFFICES ASSUME NEW i, i = Min(left[t]), NEW c, c = Watch(i) PROVE TimedInv'
    OBVIOUS
  <2>1. /\ Attach(Op(i), c, "then_both", NoCtx, tasks)
        /\ left' = [left EXCEPT ![t] = @ \ {i}]
        /\ running' = running /\ input' = input /\ label' = label /\ loaded' = loaded
    BY <1>8 DEF AttachWatch
  <2>2. i \in left[t] /\ i \in {1, 2}
    <3>1. left[t] \in SUBSET {1, 2}
      BY <1>2 DEF TypeOK
    <3>2. \E j \in left[t] : \A k \in left[t] : j <= k
      BY <1>8, <3>1
    <3> QED BY <3>1, <3>2 DEF Min
  <2>3. c \in {Watch(1), Watch(2), Guard, Final} /\ Op(i) = Above(c) /\ c # Guard /\ c # Final
    BY <2>2
  <2>4. Born(Op(i))
    BY <1>2, <1>3, <2>2 DEF TreeInv
  <2>5. Attaches(Op(i), c)
    <3>1. (c = Guard => Born(Watch(1)) /\ Born(Watch(2))) /\ (c = Final => Born(Guard))
      BY <2>3
    <3> QED BY <1>2, <1>3, <1>5, <2>1, <2>3, <2>4, <3>1, AttachKeeps
  <2>6. left'[t] = left[t] \ {i} /\ left' \in [Threads -> SUBSET Ops]
    BY <1>2, <2>1 DEF TypeOK
  <2>7. /\ ~Born(Guard)'
        /\ \A j \in Ops : Born(Watch(j))' <=> j \notin left'[t]
    <3>1. \A d \in Ctx \ {Op(i), c} : m_pending'[d] = m_pending[d]
      BY <2>5 DEF Attaches
    <3>2. Born(c)'
      BY <2>5 DEF Attaches
    <3>3. Guard \in Ctx \ {Op(i), c}
      BY <2>2
    <3>4. \A j \in Ops \ {i} : Watch(j) \in Ctx \ {Op(i), c}
      BY <2>2
    <3>5. \A j \in Ops \ {i} : Born(Watch(j))' <=> Born(Watch(j))
      BY <3>1, <3>4 DEF Born
    <3> QED BY <1>3, <2>2, <2>6, <3>1, <3>2, <3>3, <3>5 DEF Born
  <2>8. RunInv'
    BY <1>1, <1>3, <1>5, <2>1, <2>7 DEF RunInv, Racing
  <2>9. running'[t] \notin Racing
    BY <1>3, <2>1 DEF Racing
  <2>10. /\ running' \in [Threads -> Ctx \cup {NoCtx}] /\ loaded' \in [Threads -> 0 .. N]
         /\ input' \in [Threads -> {"none"} \cup Results]
         /\ label' \in [Threads -> {"idle", "attach"}] /\ label'[t] = "attach"
    BY <1>1, <1>2, <1>7, <2>1 DEF TypeOK
  <2> QED BY <1>6, <2>3, <2>4, <2>5, <2>6, <2>8, <2>9, <2>10
<1>9. CASE left[t] = {}
  <2>1. Attach(Joint, Guard, "then_both", NoCtx, tasks) /\ Finish(t)
    BY <1>9 DEF AttachWatch
  <2>2. Born(Watch(1)) /\ Born(Watch(2)) /\ Born(Joint)
    BY <1>2, <1>3, <1>9 DEF TreeInv
  <2>3. Attaches(Joint, Guard)
    BY <1>2, <1>3, <1>5, <2>1, <2>2, AttachKeeps
  <2>4. /\ running' = [running EXCEPT ![t] = NoCtx] /\ input' = [input EXCEPT ![t] = "none"]
        /\ label' = [label EXCEPT ![t] = "idle"] /\ left' = [left EXCEPT ![t] = {}]
        /\ loaded' = [loaded EXCEPT ![t] = 0]
    BY <2>1 DEF Finish, Goto
  <2>5. running'[t] = NoCtx /\ label'[t] = "idle"
    BY <1>2, <2>4 DEF TypeOK
  <2>6. RunInv'
    BY <1>1, <2>5 DEF RunInv, Racing
  <2>7. Born(Guard)'
    BY <2>3 DEF Attaches
  <2>8. /\ running' \in [Threads -> Ctx \cup {NoCtx}]
        /\ input' \in [Threads -> {"none"} \cup Results]
        /\ label' \in [Threads -> {"idle", "attach"}]
        /\ left' \in [Threads -> SUBSET Ops]
    BY <1>2, <1>7, <2>4 DEF TypeOK
  <2>9. loaded' \in [Threads -> 0 .. N]
    BY <1>2, <2>4, TwoOpsAssumption DEF TypeOK
  <2>10. running'[t] \notin Racing
    BY <2>5 DEF Racing
  <2>11. Guard \in {Watch(1), Watch(2), Guard, Final} /\ Joint = Above(Guard)
    OBVIOUS
  <2> QED BY <1>6, <2>2, <2>3, <2>6, <2>7, <2>8, <2>9, <2>10, <2>11
<1> QED BY <1>8, <1>9

\* then() continues Guard, and the caller has his handle.
LEMMA AttachFinalKeeps == ASSUME TimedInv, Returning, AttachFinal PROVE TimedInv'
<1> USE TimedNames, Lines
<1>1. /\ ~Born(Final) /\ Born(Guard) /\ Attach(Guard, Final, "then", NoCtx, tasks)
      /\ UNCHANGED <<held, aborted, sharedVars, historyVars, timerVars>>
      /\ running' = running /\ input' = input /\ label' = label /\ left' = left
      /\ loaded' = loaded
  BY DEF Returning, AttachFinal, localVars
<1>2. /\ form' = form /\ counter' = counter /\ res' = res /\ first' = first /\ asked' = asked
      /\ timer' = timer /\ index' = index /\ outcome' = outcome /\ expired' = expired
  BY <1>1 DEF sharedVars, historyVars, timerVars
<1>3. ChainInv /\ TreeInv /\ TypeOK /\ RunInv /\ SetupInv
  BY DEF TimedInv, TimedTypeOK
<1>4. form # "none" /\ Guard = Above(Final) /\ held' = held /\ aborted' = aborted
  BY <1>1, <1>3 DEF TreeInv
<1>5. Attaches(Guard, Final)
  BY <1>1, <1>2, <1>3, <1>4, AttachKeeps
<1>6. TimerInv' /\ ResultInv' /\ HaltInv' /\ \A a \in tasks' : Justified(a.child, a.result)'
  BY <1>1, <1>4, <1>5, SetupKept
<1>7. ChainInv' /\ TreeInv' /\ Born(Final)'
  BY <1>5 DEF Attaches
<1>8. TimedTypeOK'
  BY <1>1, <1>2, <1>3, <1>7 DEF TimedInv, TimedTypeOK, TypeOK, ChainInv
<1>9. SetupInv'
  BY <1>7 DEF SetupInv
<1>10. \A t \in Threads : label[t] = "idle" /\ running[t] = NoCtx
  BY <1>1, <1>3 DEF RunInv, SetupInv
<1>11. RunInv' /\ WordInv'
  BY <1>1, <1>6, <1>10 DEF RunInv, WordInv, Racing
<1> QED BY <1>6, <1>7, <1>8, <1>9, <1>11 DEF TimedInv

\* timed_op() is called.
LEMMA TimedStartKeeps == ASSUME TimedInv, NEW t \in Threads, TimedStart(t) PROVE TimedInv'
<1> USE TimedNames, Lines, NullCtxAssumption
<1>1. PICK r \in {"empty"} \cup Returned :
         /\ m_pending' = [m_pending EXCEPT ![Op(1)] = r, ![Op(2)] = "empty", ![Joint] = "empty",
                                           ![Sleep] = "callbacks", ![SleepGuard] = "callbacks"]
         /\ held' = IF r = "empty" THEN {Op(1)} ELSE {}
  BY DEF TimedStart
<1>2. /\ form = "none" /\ form' = "when_any"
      /\ running' = [running EXCEPT ![t] = Joint] /\ input' = [input EXCEPT ![t] = "none"]
      /\ label' = [label EXCEPT ![t] = "attach"] /\ left' = [left EXCEPT ![t] = Ops]
      /\ loaded' = loaded /\ counter' = counter /\ res' = res
      /\ first' = first /\ asked' = asked
      /\ timer' = "waiting" /\ index' = index /\ outcome' = outcome /\ expired' = expired
  BY DEF TimedStart, Begin, Goto, historyVars
<1>3. /\ tasks' = tasks /\ posts' = posts /\ aborted' = aborted /\ outer' = outer
      /\ callee' = [callee EXCEPT ![Sleep] = SleepGuard, ![SleepGuard] = Op(2)]
      /\ m_parent' = [m_parent EXCEPT ![SleepGuard] = Sleep, ![Op(2)] = SleepGuard]
      /\ kind' = [kind EXCEPT ![SleepGuard] = "then_both", ![Op(2)] = "then"]
  BY DEF TimedStart
<1>4. ChainInv /\ TreeInv /\ TypeOK /\ RunInv /\ SetupInv /\ ChainTypeOK
  BY DEF TimedInv, TimedTypeOK, ChainInv
<1>5. /\ \A c \in Ctx : /\ m_pending[c] = "unborn" /\ m_parent[c] = NoCtx /\ posts[c] = 0
                        /\ kind[c] = "root"
      /\ aborted = {} /\ tasks = {}
  <2>1. \A c \in Ctx : m_pending[c] = "unborn"
    BY <1>2, <1>4 DEF TreeInv, Born
  <2>2. \A c \in Ctx : m_parent[c] = NoCtx /\ posts[c] = 0 /\ kind[c] = "root"
    BY <1>4, <2>1 DEF ChainInv, Linked, Born
  <2>3. aborted = {} /\ tasks = {}
    BY <1>4, <2>1, <2>2 DEF ChainInv, ChainTypeOK, Completable, Done, Tasks
  <2> QED BY <2>1, <2>2, <2>3
<1>6. m_pending \in [Ctx -> States]
  BY <1>4 DEF ChainTypeOK, States
<1>7. /\ m_pending'[Op(1)] = r /\ m_pending'[Op(2)] = "empty" /\ m_pending'[Joint] = "empty"
      /\ m_pending'[Sleep] = "callbacks" /\ m_pending'[SleepGuard] = "callbacks"
      /\ \A c \in {Watch(1), Watch(2), Guard, Final} : m_pending'[c] = "unborn"
  BY <1>1, <1>5, <1>6
<1>8. r \in {"empty", "value", "error"}
  BY ReturnedAssumption
<1>9. m_pending' \in [Ctx -> States]
  BY <1>1, <1>6, <1>8 DEF States, Results
<1>10. /\ callee'[Sleep] = SleepGuard /\ callee'[SleepGuard] = Op(2)
       /\ callee' \in [Ctx -> Ctx \cup {NoCtx}]
  BY <1>3, <1>4 DEF ChainTypeOK
<1>11. /\ m_parent'[SleepGuard] = Sleep /\ m_parent'[Op(2)] = SleepGuard
       /\ \A c \in Ctx \ {SleepGuard, Op(2)} : m_parent'[c] = NoCtx
       /\ m_parent' \in [Ctx -> Ctx \cup {NoCtx}]
  BY <1>3, <1>4, <1>5 DEF ChainTypeOK
<1>12. /\ kind'[SleepGuard] = "then_both" /\ kind'[Op(2)] = "then"
       /\ \A c \in Ctx \ {SleepGuard, Op(2)} : kind'[c] = "root"
       /\ kind' \in [Ctx -> Kinds]
  BY <1>3, <1>4, <1>5 DEF ChainTypeOK, Kinds
<1>13. held' \subseteq {Op(1)}
  BY <1>1
<1>14. \A c \in Ctx : Born(c)' <=> c \in {Op(1), Op(2), Joint, Sleep, SleepGuard}
  BY <1>7, <1>8 DEF Born
<1>15. \A c \in Ctx : ~Done(c)'
  BY <1>7, <1>8 DEF Done
<1>16. ChainTypeOK'
  BY <1>3, <1>4, <1>9, <1>10, <1>11, <1>12, <1>13 DEF ChainTypeOK, States
<1>17. ChainInv'
  <2>1. Linked'
    <3> SUFFICES ASSUME NEW c \in Ctx
                 PROVE  /\ ~Born(c)' => /\ m_parent'[c] = NoCtx /\ posts'[c] = 0
                                        /\ c \notin held' /\ kind'[c] = "root"
                        /\ m_parent'[c] # NoCtx => /\ m_pending'[m_parent'[c]] # "unborn"
                                                   /\ kind'[m_parent'[c]] # "forward"
                        /\ m_pending'[c] = "callbacks" => /\ callee'[c] \in Ctx
                                                          /\ m_parent'[callee'[c]] = c
      BY DEF Linked, Born
    <3>1. ~Born(c)' => /\ m_parent'[c] = NoCtx /\ posts'[c] = 0
                       /\ c \notin held' /\ kind'[c] = "root"
      BY <1>3, <1>5, <1>11, <1>12, <1>13, <1>14
    <3>2. m_parent'[c] # NoCtx => m_parent'[c] \in {Sleep, SleepGuard}
      BY <1>11
    <3>3. \A d \in {Sleep, SleepGuard} : m_pending'[d] # "unborn" /\ kind'[d] # "forward"
      BY <1>7, <1>12
    <3>4. m_pending'[c] = "callbacks" => c \in {Sleep, SleepGuard}
      BY <1>7, <1>8
    <3> QED BY <1>10, <1>11, <3>1, <3>2, <3>3, <3>4
  <2>2. Completable'
    BY <1>3, <1>5, <1>11, <1>12, <1>13 DEF Completable, Ready
  <2>3. DeliveredOnce' /\ ResultDelivered' /\ AbortSilences'
    BY <1>3, <1>5, <1>15 DEF DeliveredOnce, ResultDelivered, AbortSilences
  <2>4. ParentFirst'
    BY <1>7, <1>11 DEF ParentFirst, Results
  <2> QED BY <1>3, <1>5, <1>16, <2>1, <2>2, <2>3, <2>4 DEF ChainInv
<1>18. \A u \in Threads : u = t
  BY OneThreadAssumption
<1>19. /\ running'[t] = Joint /\ label'[t] = "attach" /\ left'[t] = Ops
  BY <1>2, <1>4 DEF TypeOK
<1>20. TimedTypeOK'
  <2>1. TypeOK'
    BY <1>2, <1>4, <1>16, RaceAssumption DEF TypeOK
  <2> QED BY <1>2, <2>1 DEF TimedInv, TimedTypeOK
<1>21. TreeInv'
  <2>1. \A c \in Ctx : m_parent'[c] = IF Born(c)' THEN Above(c) ELSE NoCtx
    BY <1>11, <1>14
  <2>2. \A c \in Ctx : (Born(c)' /\ Above(c) # NoCtx) =>
           m_pending'[Above(c)] \in {"callbacks", "done"}
    BY <1>7, <1>14
  <2>3. \A c \in Ctx : kind'[c] # "forward"
    BY <1>12
  <2>4. ~Born(Guard)' /\ ~Born(Final)' /\ form' # "none"
    BY <1>2, <1>14
  <2> QED BY <1>2, <1>3, <1>5, <1>12, <1>13, <1>14, <2>1, <2>2, <2>3, <2>4 DEF TreeInv
<1>22. ~Born(Final)
  BY <1>5 DEF Born
<1>23. SetupInv'
  <2>1. /\ tasks' \subseteq [child : {Watch(1)}, result : Returned]
        /\ \A c \in Ctx : posts'[c] > 0 => c = Watch(1)
    BY <1>3, <1>5
  <2>2. /\ aborted = {} /\ first = "none" /\ ~asked /\ index = 0 /\ outcome = "none"
    BY <1>4, <1>22 DEF SetupInv
  <2>3. \A u \in Threads : label'[u] = "attach"
    BY <1>18, <1>19
  <2>4. \E u \in Threads : label'[u] = "attach"
    BY <1>19
  <2> QED BY <1>2, <1>3, <1>7, <2>1, <2>2, <2>3, <2>4 DEF SetupInv
<1>24. RunInv'
  <2>1. ~Born(Guard)' /\ \A i \in Ops : ~Born(Watch(i))'
    BY <1>14
  <2> QED BY <1>2, <1>18, <1>19, <2>1 DEF RunInv, Racing
<1>25. TimerInv'
  <2>1. \A c \in Ctx : ~(posts'[c] > 0)
    BY <1>3, <1>5
  <2> QED BY <1>2, <1>15, <2>1 DEF TimerInv
<1>26. WordInv'
  BY <1>3, <1>5, <1>18, <1>19 DEF WordInv, Racing
<1>27. ResultInv'
  BY <1>2, <1>4, <1>22 DEF SetupInv, ResultInv, OutcomeJustified
<1>28. HaltInv'
  BY <1>15 DEF HaltInv
<1> QED BY <1>17, <1>20, <1>21, <1>23, <1>24, <1>25, <1>26, <1>27, <1>28 DEF TimedInv
-----------------------------------------------------------------------------
(* The theorems.                                                           *)

\* Before the call.
LEMMA InitTimed == TimedInit => TimedInv
<1> SUFFICES ASSUME TimedInit PROVE TimedInv
  OBVIOUS
<1> USE TimedNames, Lines, NullCtxAssumption
<1>1. ChainInit /\ ChainInv
  BY InitInv DEF TimedInit, Init
<1>2. /\ \A c \in Ctx : /\ m_pending[c] = "unborn" /\ m_parent[c] = NoCtx /\ posts[c] = 0
                        /\ kind[c] = "root"
      /\ aborted = {} /\ tasks = {} /\ held = {}
  BY <1>1 DEF ChainInit
<1>3. /\ form = "none" /\ counter = N /\ first = "none" /\ asked = FALSE
      /\ timer = "none" /\ index = 0 /\ outcome = "none" /\ expired = FALSE
  BY DEF TimedInit, Init
<1>4. \A t \in Threads : running[t] = NoCtx /\ label[t] = "idle"
  BY DEF TimedInit, Init
<1>5. TimedTypeOK
  <2>1. N \in 0 .. N /\ 0 \in 0 .. N
    BY TwoOpsAssumption
  <2>2. TypeOK
    BY <1>1, <2>1 DEF TypeOK, ChainInv, TimedInit, Init
  <2>3. index \in 0 .. 2
    BY <1>3
  <2> QED BY <1>3, <2>2, <2>3 DEF TimedTypeOK
<1>6. \A c \in Ctx : ~Born(c) /\ ~Done(c)
  BY <1>2 DEF Born, Done
<1>7. TreeInv
  BY <1>2, <1>3, <1>6 DEF TreeInv
<1>8. SetupInv
  BY <1>2, <1>3, <1>4 DEF SetupInv
<1>9. RunInv /\ WordInv
  BY <1>2, <1>4 DEF RunInv, WordInv, Racing
<1>10. TimerInv /\ ResultInv /\ HaltInv
  BY <1>2, <1>3, <1>6 DEF TimerInv, ResultInv, HaltInv, OutcomeJustified
<1> QED BY <1>1, <1>5, <1>7, <1>8, <1>9, <1>10 DEF TimedInv

\* The steps of when_any(): there is no counter in a race.
LEMMA TimedBodyKeeps == ASSUME TimedInv, NEW t \in Threads, TimedBody(t) PROVE TimedInv'
<1> USE TimedNames
<1>1. timer' = timer /\ outcome' = outcome /\ expired' = expired
  BY DEF TimedBody
<1>2. /\ label[t] \in {"idle", "attach", "call", "cancel", "return"}
      /\ running[t] \in {NoCtx, Joint} \cup Racing
  BY DEF TimedInv, RunInv
<1>3. \A i \in Ops : Watch(i) # Guard
  OBVIOUS
<1>4. ASSUME label[t] # "call" \/ running[t] = Guard PROVE UNCHANGED timerVars
  <2>1. index' = index
    BY <1>4 DEF TimedBody
  <2> QED BY <1>1, <2>1 DEF timerVars
<1>5. CASE AttachWatch(t)
  <2>1. label[t] # "call"
    BY <1>5 DEF AttachWatch
  <2> QED BY <1>4, <1>5, <2>1, AttachWatchKeeps
<1>6. CASE CountResult(t)
  <2>1. label[t] = "call" /\ form = "none"
    <3>1. label[t] = "call" /\ form # "when_any"
      BY <1>6 DEF CountResult, Counts
    <3> QED BY <3>1 DEF TimedInv, TreeInv
  <2>2. Born(Final)
    BY <2>1, FunctorTurn
  <2> QED BY <2>1, <2>2 DEF TimedInv, TreeInv
<1>7. CASE StoreCounter(t)
  BY <1>2, <1>7 DEF StoreCounter
<1>8. CASE SettleCounted(t)
  BY <1>2, <1>8 DEF SettleCounted
<1>9. CASE SettleEarly(t)
  <2>1. label[t] = "call" /\ running[t] # Guard
    BY <1>3, <1>9 DEF SettleEarly
  <2>2. index' = IF ~Done(Joint) THEN CHOOSE i \in Ops : running[t] = Watch(i) ELSE index
    BY <2>1 DEF TimedBody
  <2> QED BY <1>1, <1>9, <2>2, SettleEarlyKeeps
<1>10. CASE GuardResult(t)
  <2>1. running[t] = Guard
    BY <1>10 DEF GuardResult
  <2> QED BY <1>4, <1>10, <2>1, GuardResultKeeps
<1>11. CASE CancelNext(t)
  <2>1. label[t] # "call"
    BY <1>11 DEF CancelNext
  <2> QED BY <1>4, <1>11, <2>1, CancelNextKeeps
<1>12. CASE Return(t)
  <2>1. label[t] # "call"
    BY <1>12 DEF Return
  <2> QED BY <1>4, <1>12, <2>1, ReturnKeeps
<1> QED BY <1>5, <1>6, <1>7, <1>8, <1>9, <1>10, <1>11, <1>12 DEF TimedBody, Body

\* Every step of the program keeps the invariant.
LEMMA TimedStep == ASSUME TimedInv, [TimedNext]_timedVars PROVE TimedInv'
<1>1. ASSUME NEW t \in Threads, TimedStart(t) PROVE TimedInv'
  BY <1>1, TimedStartKeeps
<1>2. ASSUME NEW t \in Threads, TimedBody(t) PROVE TimedInv'
  BY <1>2, TimedBodyKeeps
<1>3. CASE Returning /\ AttachFinal
  BY <1>3, AttachFinalKeeps
<1>4. CASE LoopTurn
  <2>1. ~Returning /\ (\A t \in Threads : Idle(t)) /\ Loop
    BY <1>4 DEF LoopTurn
  <2>2. CASE TimerHandler
    BY <2>1, <2>2, TimerHandlerKeeps
  <2>3. ASSUME NEW task \in tasks, StopTimer(task) PROVE TimedInv'
    BY <2>1, <2>3, StopTimerKeeps
  <2>4. ASSUME NEW task \in tasks, TimerOp(task) PROVE TimedInv'
    BY <2>1, <2>4, TimerOpKeeps
  <2>5. ASSUME NEW task \in tasks, TimedResult(task) PROVE TimedInv'
    BY <2>1, <2>5, TimedResultKeeps
  <2>6. ASSUME NEW t \in Threads, NEW task \in tasks, TimedTake(t, task) PROVE TimedInv'
    BY <2>1, <2>6, TimedTakeKeeps
  <2> QED BY <2>1, <2>2, <2>3, <2>4, <2>5, <2>6 DEF Loop
<1>5. CASE ~Returning /\ (\A t \in Threads : Idle(t)) /\ TimedClient
  BY <1>5, TimedClientKeeps
<1>6. CASE TimerExpires
  BY <1>6, TimerExpiresKeeps
<1>7. CASE UNCHANGED timedVars
  <2>1. /\ m_pending' = m_pending /\ held' = held /\ tasks' = tasks /\ posts' = posts
        /\ aborted' = aborted /\ m_parent' = m_parent /\ kind' = kind
        /\ UNCHANGED chainVars
    BY <1>7 DEF timedVars, compoundVars, chainVars, pairVars
  <2>2. /\ running' = running /\ input' = input /\ label' = label /\ left' = left
        /\ loaded' = loaded /\ form' = form /\ counter' = counter /\ res' = res
        /\ first' = first /\ asked' = asked
        /\ timer' = timer /\ index' = index /\ outcome' = outcome /\ expired' = expired
    BY <1>7 DEF timedVars, compoundVars, localVars, sharedVars, historyVars, timerVars
  <2>3. ChainInv'
    BY <2>1, StutterStep DEF TimedInv
  <2>4. TimedTypeOK'
    BY <2>2, <2>3 DEF TimedInv, TimedTypeOK, TypeOK, ChainInv
  <2>5. TreeInv' /\ SetupInv'
    BY <2>1, <2>2 DEF TimedInv, TreeInv, SetupInv, Born
  <2>6. (\A i \in Ops : Halted(i)' <=> Halted(i)) /\ \A c \in Ctx : Born(c)' <=> Born(c)
    BY <2>1 DEF Halted, Born, Done
  <2>7. RunInv'
    BY TimedNames, <2>1, <2>2, <2>6 DEF TimedInv, RunInv, Racing
  <2>8. TimerInv' /\ WordInv' /\ ResultInv'
    BY <2>1, <2>2
    DEF TimedInv, TimerInv, WordInv, ResultInv, OutcomeJustified, Justified, Done
  <2>9. HaltInv'
    BY <2>1, <2>2, <2>6 DEF TimedInv, HaltInv, Done
  <2> QED BY <2>3, <2>4, <2>5, <2>7, <2>8, <2>9 DEF TimedInv
<1> QED BY <1>1, <1>2, <1>3, <1>4, <1>5, <1>6, <1>7 DEF TimedNext

\* TimedInv holds always: the lines of contexts, what waits in the loop, what the timer
\* does, and why each result was given fit together.
THEOREM TimedInvariant == TimedSpec => []TimedInv
<1>1. TimedInv /\ [TimedNext]_timedVars => TimedInv'
  BY TimedStep
<1> QED BY <1>1, InitTimed, PTL DEF TimedSpec

\* The variables of timed_op() keep their types.
THEOREM TimedTypes == TimedSpec => []TimedTypeOK
<1>1. TimedInv => TimedTypeOK
  BY DEF TimedInv
<1> QED BY <1>1, TimedInvariant, PTL

\* The contexts of timed_op() keep what basic_context promises: a result is delivered, and
\* once, an aborted line is silent, and no operation ends before the one it continues.
THEOREM TimedDelivers ==
    TimedSpec => [](DeliveredOnce /\ ResultDelivered /\ AbortSilences /\ ParentFirst)
<1>1. TimedInv => DeliveredOnce /\ ResultDelivered /\ AbortSilences /\ ParentFirst
  BY DEF TimedInv, ChainInv
<1> QED BY <1>1, TimedInvariant, PTL

\* timed_op() reports a timeout only when the time is over, and a cancellation only when
\* the caller asked for one.
THEOREM OutcomesJustified == TimedSpec => []OutcomeJustified
<1>1. TimedInv => OutcomeJustified
  BY DEF TimedInv, ResultInv
<1> QED BY <1>1, TimedInvariant, PTL

\* When the race is over and the loop has run out of functors, the timer does not wait and
\* both operations are finished.
THEOREM NothingWaits == TimedSpec => []NothingLeftWaiting
<1>1. TimedInv => NothingLeftWaiting
  <2> SUFFICES ASSUME TimedInv, Done(Joint), Joint \notin aborted, TimedQuiescent
               PROVE  timer = "over" /\ Done(Op(1)) /\ Done(Op(2))
    BY DEF NothingLeftWaiting
  <2> USE TimedNames, Lines
  <2>1. /\ tasks = {} /\ (\A t \in Threads : running[t] = NoCtx)
        /\ timer \notin {"expired", "stopped"}
    BY DEF TimedQuiescent, Quiescent, Idle
  <2>2. ChainInv /\ TreeInv /\ TypeOK /\ RunInv /\ TimerInv
    BY DEF TimedInv, TimedTypeOK
  <2>3. \A t \in Threads : label[t] = "idle"
    BY <2>1, <2>2 DEF RunInv
  <2>4. Halted(1) /\ Halted(2)
    BY <2>1, <2>3 DEF TimedInv, HaltInv
  <2>5. Done(Sleep)
    BY <2>4 DEF Halted
  <2>6. form # "none"
    BY <2>2, <2>5 DEF TreeInv, Born, Done
  <2>7. timer = "over"
    BY <2>1, <2>2, <2>5, <2>6 DEF TimerInv, TimedInv, TimedTypeOK
  <2>8. ASSUME NEW x \in {Sleep, SleepGuard}, Done(x), NEW c \in {SleepGuard, Op(2)},
               Above(c) = x
        PROVE  Done(c)
    <3>1. x \notin aborted
      BY <2>2 DEF TreeInv
    <3>2. PICK d \in Ctx : m_parent[d] = x /\ posts[d] = 1
      BY <2>2, <2>8, <3>1 DEF ChainInv, ResultDelivered
    <3>3. Above(d) = x
      BY <2>2, <3>2, NullCtxAssumption DEF TreeInv
    <3>4. d = c /\ posts[c] > 0
      BY <2>8, <3>2, <3>3
    <3> QED BY <2>1, <2>2, <3>4 DEF TimerInv
  <2>9. Done(Op(2))
    BY <2>5, <2>8
  <2>10. Done(Op(1))
    <3>1. m_pending[Op(1)] \in Results \cup {"done"}
      BY <2>4 DEF Halted
    <3>2. Born(Final)
      <4> SUFFICES ASSUME ~Born(Final) PROVE FALSE
        OBVIOUS
      <4> QED BY DEF TimedInv, SetupInv, Done
    <3>3. m_pending[Op(1)] \in {"callbacks", "done"}
      BY <2>2, <3>2, AllAttached
    <3> QED BY <3>1, <3>3 DEF Done, Results
  <2> QED BY <2>7, <2>9, <2>10
<1> QED BY <1>1, TimedInvariant, PTL
=============================================================================
