--------------------------- MODULE Compound_proofs ---------------------------
(***************************************************************************)
(* Proof that the compound operations keep ChainInv, and with it the       *)
(* safety properties of OpChain, and that a collected result is complete   *)
(* and nothing is left running, for any number of operations and threads;  *)
(* with one thread also that the first result wins and that when_all()     *)
(* returns.                                                                *)
(***************************************************************************)
EXTENDS Compound, OpChain_proofs, FiniteSetTheorems, WellFoundedInduction, TLAPS

Watches  == {Watch(i) : i \in Ops}
Functors == Watches \cup {Guard}

\* The handles that client code has.
Handles  == {Guard} \cup {Op(i) : i \in Ops}

\* Operation i has its result, or has delivered it.
Stopped(i) == m_pending[Op(i)] \in Results \cup {"done"}

\* The operations whose result is stored and, as far as this functor can tell, counted.
Counted ==
    {i \in Ops : res[i] # "none" /\ \A t \in Threads : running[t] = Watch(i) => label[t] # "store"}

\* A success would have all it is to have.
Collected ==
    /\ form = "when_all" => \A i \in Ops : res[i] # "none"
    /\ form = "when_success" => \A i \in Ops : res[i] = "value"

\* Joint has a result, or has delivered one.
Settled == m_pending[Joint] \in Results \/ (Done(Joint) /\ Joint \notin aborted)

\* The contexts of a compound operation and how they are linked.
LinksInv ==
    /\ \A c \in Ctx : \/ m_parent[c] = NoCtx
                      \/ \E i \in Ops : c = Watch(i) /\ m_parent[c] = Op(i)
                      \/ c = Guard /\ m_parent[c] = Joint
    /\ \A c \in Functors : Born(c) => m_parent[c] # NoCtx
    /\ \A c \in Ctx : kind[c] # "forward"
    /\ form = "none" => \A c \in Ctx : ~Born(c)
    /\ form # "none" => Born(Joint) /\ \A i \in Ops : Born(Op(i))
    /\ \A i \in Ops : Born(Watch(i)) => m_pending[Op(i)] \in {"callbacks", "done"}
    /\ Born(Guard) => m_pending[Joint] \in {"callbacks", "done"} /\ \A i \in Ops : Born(Watch(i))

\* What a thread is doing.
ThreadInv(t) ==
    /\ running[t] \in {NoCtx, Joint} \cup Functors
    /\ (running[t] = NoCtx) <=> (label[t] = "idle")
    /\ (running[t] = Joint) <=> (label[t] = "attach")
    /\ running[t] \in Functors => (posts[running[t]] > 0 /\ input[t] \in Results)
    /\ label[t] = "attach" =>
         /\ form # "none"
         /\ ~Born(Guard)
         /\ \A i \in Ops : Born(Watch(i)) <=> i \notin left[t]
    /\ label[t] = "store"  => \E i \in Ops : running[t] = Watch(i) /\ res[i] # "none"
    /\ label[t] \in {"store", "settle"} =>
         form \in {"when_all", "when_success"} /\ running[t] \in Watches
    /\ label[t] = "settle" => Counted = Ops
    /\ label[t] = "cancel" => \A i \in Ops \ left[t] : Stopped(i)

\* Each functor is posted once, taken once and run by one thread, and a result is stored
\* only by the functor that got it.
OnceInv ==
    /\ \A a, b \in tasks : a.child = b.child => a = b
    /\ \A a \in tasks : a.child \in Functors /\ \A t \in Threads : running[t] # a.child
    /\ \A t, u \in Threads : (running[t] = running[u] /\ ~Idle(t)) => t = u
    /\ \A i \in Ops : res[i] # "none" =>
         /\ posts[Watch(i)] > 0
         /\ \A a \in tasks : a.child # Watch(i)
         /\ \A t \in Threads : running[t] = Watch(i) => label[t] # "call"
    /\ form = "when_success" => \A i \in Ops : res[i] \in {"none", "value"}

\* The counter never runs ahead of the results, though threads may lose decrements.
CountInv ==
    /\ N - Cardinality(Counted) <= counter
    /\ \A t \in Threads : label[t] = "store" => N - Cardinality(Counted) <= loaded[t]

\* A success of Joint, on its way to the functors of Guard, is complete.
ValueInv ==
    /\ m_pending[Joint] = "value" => Collected
    /\ \A a \in tasks : (a.child = Guard /\ a.result = "value") => Collected

\* Once Joint has a result, every operation has one, or somebody is about to cancel those
\* that have none.
StopInv ==
    Settled => \/ \A i \in Ops : Stopped(i)
               \/ \E t \in Threads : label[t] = "cancel"
               \/ \E a \in tasks : a.child = Guard /\ a.result = "canceled"
               \/ \E t \in Threads :
                    running[t] = Guard /\ label[t] = "call" /\ input[t] = "canceled"

CompoundInv ==
    /\ TypeOK
    /\ ChainInv
    /\ LinksInv
    /\ \A t \in Threads : ThreadInv(t)
    /\ OnceInv
    /\ CountInv
    /\ ValueInv
    /\ StopInv

(* What holds in addition when there is one thread.                        *)

OneThread == \A t, u \in Threads : t = u

Finished(c) == m_pending[c] \in Results \cup {"done"}

\* A functor that watches an operation completes its context when it has run, and, for
\* when_all(), has counted the result by then; no decrement is lost; and when the counter
\* is zero, Joint has its success, or the thread is about to give it.
ReturnInv ==
    /\ \A i \in Ops : Finished(Watch(i)) =>
         /\ posts[Watch(i)] > 0
         /\ \A a \in tasks : a.child # Watch(i)
         /\ \A t \in Threads : running[t] # Watch(i)
         /\ form = "when_all" => res[i] # "none"
    /\ \A t \in Threads, i \in Ops :
         (running[t] = Watch(i) /\ form = "when_all" /\ label[t] # "call") => res[i] # "none"
    /\ counter = 0 => (Finished(Joint) \/ \E t \in Threads : label[t] = "settle")
    /\ counter = N - Cardinality(Counted)
    /\ \A t \in Threads : label[t] = "store" => loaded[t] = counter

\* No functor runs before add_cancel() watches Joint, and while no result is on its way
\* to add_cancel(), there has been none.
FirstInv ==
    /\ ~Born(Guard) => (first = "none" /\ ~Finished(Joint))
    /\ form # "none" => (Born(Guard) \/ \E t \in Threads : label[t] = "attach")
    /\ m_pending[Joint] = "callbacks" => first = "none"
    /\ FirstWins
-----------------------------------------------------------------------------
\* The contexts of a compound operation are different ones.
LEMMA Names ==
    /\ \A i \in Ops : Op(i) \in Ctx /\ Watch(i) \in Ctx
    /\ Joint \in Ctx /\ Guard \in Ctx /\ Joint # Guard
    /\ \A i, j \in Ops : /\ Op(i) = Op(j) => i = j
                         /\ Watch(i) = Watch(j) => i = j
                         /\ Op(i) # Watch(j)
    /\ \A i \in Ops : Op(i) \notin {Joint, Guard} /\ Watch(i) \notin {Joint, Guard}
    /\ \A i \in Ops : Op(i)[2] = i
    /\ Functors \subseteq Ctx
BY CtxAssumption DEF CompoundCtx, Op, Watch, Joint, Guard, Functors, Watches

\* The next operation of a loop is one of those that are left.
LEMMA NextLeft == ASSUME NEW S \in SUBSET Ops, S # {} PROVE Min(S) \in S
<1> DEFINE R == {ss \in Nat \X Nat : ss[1] < ss[2]}
<1>1. S \subseteq Nat
  BY SizeAssumption DEF Ops
<1>2. IsWellFoundedOn(R, Nat)
  BY NatLessThanWellFounded, Zenon DEF OpToRel
<1>3. PICK x \in S : \A y \in S : ~(<<y, x>> \in R)
  BY <1>1, <1>2, WFMin, Zenon
<1>4. \A y \in S : ~(y < x)
  BY <1>1, <1>3
<1> HIDE DEF R
<1>5. \A y \in S : x =< y
  BY <1>1, <1>4
<1> QED BY <1>5 DEF Min

-----------------------------------------------------------------------------
(* What steps do to the contexts.                                          *)

\* Contexts get results or are closed; none is constructed, and none opens again.
OnlySettles ==
    /\ UNCHANGED pairVars
    /\ \A c \in Ctx : m_pending'[c] # m_pending[c] =>
          /\ m_pending[c] \in {"empty", "callbacks"} \cup Results
          /\ m_pending'[c] \in {"done"} \cup Results
          /\ m_pending[c] = "callbacks" => m_pending'[c] = "done"

\* A functor is posted that has not been before.
PostsFunctor(c, r) ==
    /\ posts[c] = 0
    /\ posts' = [posts EXCEPT ![c] = 1]
    /\ tasks' = tasks \cup {[child |-> c, result |-> r]}

PostsAtMostOne ==
    \/ UNCHANGED <<tasks, posts>>
    \/ \E c \in Functors, r \in Results : PostsFunctor(c, r)

\* The callbacks that a context of a compound operation stores belong to a functor that
\* has not been posted.
LEMMA Watched ==
    ASSUME ChainInv, LinksInv, NEW x \in Ctx, m_pending[x] = "callbacks"
    PROVE  /\ callee[x] \in Functors /\ m_parent[callee[x]] = x /\ posts[callee[x]] = 0
           /\ x = Joint => callee[x] = Guard
           /\ x \in {Joint} \cup {Op(i) : i \in Ops}
<1> USE NullCtxAssumption
<1>1. callee[x] \in Ctx /\ m_parent[callee[x]] = x
  BY DEF ChainInv, Linked
<1>2. posts[callee[x]] = 0
  <2> SUFFICES ASSUME posts[callee[x]] # 0 PROVE FALSE
    OBVIOUS
  <2> QED BY <1>1 DEF ChainInv, ChainTypeOK, AbortSilences, Done
<1> QED BY <1>1, <1>2, Names DEF LinksInv, Functors, Watches

\* What a result does.
LEMMA SettleEffect ==
    ASSUME ChainInv, LinksInv, NEW x \in Ctx, NEW r \in Results,
           Settle(x, r, m_pending, tasks), UNCHANGED pairVars
    PROVE  /\ OnlySettles /\ PostsAtMostOne
           /\ Born(x) /\ m_pending'[x] \in {r, "done"}
           /\ \A c \in Ctx \ {x} : m_pending'[c] = m_pending[c]
           /\ \A a \in tasks' \ tasks :
                a = [child |-> callee[x], result |-> r] /\ m_parent[a.child] = x
           /\ m_pending[x] = "callbacks" =>
                [child |-> callee[x], result |-> r] \in tasks' /\ m_pending'[x] = "done"
           /\ tasks \subseteq tasks'
<1>1. m_pending \in [Ctx -> States] /\ posts \in [Ctx -> Nat]
  BY DEF ChainInv, ChainTypeOK, States
<1>2. CASE m_pending[x] = "callbacks"
  <2> DEFINE c == callee[x]
  <2>1. /\ m_pending' = [m_pending EXCEPT ![x] = "done"]
        /\ tasks' = tasks \cup {[child |-> c, result |-> r]}
        /\ posts' = [posts EXCEPT ![c] = @ + 1]
    BY <1>2 DEF Settle, Post, Results
  <2>2. c \in Functors /\ m_parent[c] = x /\ posts[c] = 0 /\ c \in Ctx
    BY <1>2, Watched, Names
  <2> HIDE DEF c
  <2>3. PostsFunctor(c, r)
    BY <1>1, <2>1, <2>2 DEF PostsFunctor
  <2>4. OnlySettles
    BY <1>1, <1>2, <2>1 DEF OnlySettles
  <2> QED BY <1>1, <1>2, <2>1, <2>2, <2>3, <2>4 DEF PostsAtMostOne, Born, c
<1>3. CASE m_pending[x] # "callbacks"
  <2>1. /\ \/ m_pending' = [m_pending EXCEPT ![x] = r] /\ m_pending[x] \in {"empty"} \cup Results
           \/ m_pending' = m_pending /\ m_pending[x] = "done"
        /\ UNCHANGED <<tasks, posts>>
    BY <1>3 DEF Settle
  <2>2. OnlySettles
    BY <1>1, <2>1 DEF OnlySettles, Results
  <2> QED BY <1>1, <1>3, <2>1, <2>2 DEF PostsAtMostOne, Born, Results
<1> QED BY <1>2, <1>3

\* A functor that waits or runs belongs to an operation that is done, and its context
\* may have a result.
LEMMA FunctorReady ==
    ASSUME ChainInv, LinksInv, NEW c \in Functors, posts[c] > 0
    PROVE  /\ Born(c) /\ Ready(c) /\ m_parent[c] # NoCtx
           /\ \A i \in Ops : c = Watch(i) => m_pending[Op(i)] = "done"
           /\ c = Guard => m_pending[Joint] = "done"
<1>1. c \in Ctx
  BY Names
<1>2. Done(m_parent[c]) /\ Born(c)
  BY <1>1 DEF ChainInv, AbortSilences, Linked, Born, ChainTypeOK
<1>3. m_parent[c] # NoCtx
  BY <1>2 DEF LinksInv
<1>4. /\ \A i \in Ops : c = Watch(i) => m_parent[c] = Op(i)
      /\ c = Guard => m_parent[c] = Joint
  BY <1>1, <1>3, Names DEF LinksInv
<1> QED BY <1>2, <1>3, <1>4 DEF Done, Ready

\* The chain of an operation is the operation alone.
LEMMA OperationChain ==
    ASSUME LinksInv, NEW i \in Ops, NEW S \in SUBSET Ctx, IsOpenChain(S, Op(i))
    PROVE  S = {Op(i)}
<1> USE NullCtxAssumption, Names
<1>1. \A x \in S \ {Op(i)} : \E y \in S : y # Op(i) /\ m_parent[y] = x
  BY DEF IsOpenChain, LinksInv
<1>2. ASSUME NEW x \in S, x # Op(i) PROVE FALSE
  <2>1. PICK y \in S : y # Op(i) /\ m_parent[y] = x
    BY <1>1, <1>2
  <2>2. PICK z \in S : z # Op(i) /\ m_parent[z] = y
    BY <1>1, <2>1
  <2> QED BY <1>2, <2>1, <2>2 DEF LinksInv
<1> QED BY <1>2 DEF IsOpenChain

\* cancel() of an operation concerns no other context.
LEMMA CancelOperation ==
    ASSUME LinksInv, NEW i \in Ops, Cancel(Op(i))
    PROVE  Settle(Op(i), "canceled", m_pending, tasks) /\ UNCHANGED <<held, aborted, pairVars>>
<1> USE NullCtxAssumption, Names
<1>1. CASE Done(Op(i)) /\ UNCHANGED <<m_pending, tasks, posts>>
  BY <1>1 DEF Cancel, Done, Settle
<1>2. ASSUME NEW S \in SUBSET Ctx, NEW x \in S,
             IsOpenChain(S, Op(i)), Settle(x, "canceled", m_pending, tasks)
      PROVE  Settle(Op(i), "canceled", m_pending, tasks)
  <2>1. x = Op(i)
    BY <1>2, OperationChain
  <2> QED BY <1>2, <2>1
<1> QED BY <1>1, <1>2 DEF Cancel

\* Neither does abort().
LEMMA AbortOperation ==
    ASSUME ChainInv, LinksInv, NEW i \in Ops, Abort(Op(i))
    PROVE  /\ Born(Op(i))
           /\ OnlySettles /\ UNCHANGED <<held, tasks, posts, pairVars>>
           /\ \A c \in Ctx \ {Op(i)} : m_pending'[c] = m_pending[c]
           /\ Joint \in aborted' <=> Joint \in aborted
<1> USE NullCtxAssumption, Names
<1>1. /\ Born(Op(i)) /\ UNCHANGED <<held, tasks, posts, pairVars>>
      /\ m_pending \in [Ctx -> States]
  BY DEF Abort, Handle, ChainInv, ChainTypeOK, States
<1>2. CASE Done(Op(i)) /\ UNCHANGED <<m_pending, aborted>>
  BY <1>1, <1>2 DEF OnlySettles
<1>3. ASSUME NEW S \in SUBSET Ctx, IsOpenChain(S, Op(i)),
             m_pending' = [x \in Ctx |-> IF x \in S THEN "done" ELSE m_pending[x]],
             aborted' = aborted \cup S
      PROVE  /\ OnlySettles
             /\ \A c \in Ctx \ {Op(i)} : m_pending'[c] = m_pending[c]
             /\ Joint \in aborted' <=> Joint \in aborted
  <2>1. S = {Op(i)} /\ ~Done(Op(i))
    BY <1>3, OperationChain DEF IsOpenChain
  <2>2. OnlySettles
    BY <1>1, <1>3, <2>1 DEF OnlySettles, Born, Done, States
  <2> QED BY <1>3, <2>1, <2>2
<1> QED BY <1>1, <1>2, <1>3 DEF Abort

\* The contexts that cancel() and abort() of the returned handle concern.
LEMMA GuardChain ==
    ASSUME LinksInv, Born(Guard), NEW S \in SUBSET Ctx, IsOpenChain(S, Guard)
    PROVE  /\ Guard \in S /\ S \subseteq {Joint, Guard} /\ m_parent[Guard] = Joint
           /\ (Joint \in S) <=> ~Done(Joint)
           /\ m_parent[Joint] = NoCtx
<1> USE NullCtxAssumption, Names
<1>1. m_parent[Guard] = Joint /\ m_parent[Joint] = NoCtx /\ Guard \in S
  BY DEF LinksInv, Functors, IsOpenChain
<1>2. \A x \in S \ {Guard} : \E y \in S : m_parent[y] = x
  BY DEF IsOpenChain
<1>3. ASSUME NEW x \in S, x \notin {Guard, Joint} PROVE FALSE
  <2>1. PICK y \in S : m_parent[y] = x
    BY <1>2, <1>3
  <2>2. y # Guard
    BY <1>1, <1>3, <2>1
  <2>3. PICK i \in Ops : y = Watch(i)
    BY <1>3, <2>1, <2>2 DEF LinksInv
  <2>4. PICK z \in S : m_parent[z] = y
    BY <1>2, <2>2
  <2> QED BY <1>1, <2>3, <2>4 DEF LinksInv
<1> QED BY <1>1, <1>3 DEF IsOpenChain

\* cancel() of the returned handle fails Joint, or Guard if Joint is done.
LEMMA CancelGuard ==
    ASSUME ChainInv, LinksInv, Cancel(Guard)
    PROVE  /\ Born(Guard)
           /\ UNCHANGED <<held, aborted, pairVars>>
           /\ \E x \in {Joint, Guard} : /\ Settle(x, "canceled", m_pending, tasks)
                                        /\ x = Guard => Done(Joint)
<1> USE NullCtxAssumption, Names
<1>1. Born(Guard)
  BY DEF Cancel, Handle
<1>2. CASE Done(Guard) /\ UNCHANGED <<m_pending, tasks, posts>>
  <2>1. m_parent[Guard] = Joint
    BY <1>1 DEF LinksInv, Functors
  <2>2. Done(Joint)
    BY <1>2, <2>1 DEF ChainInv, ParentFirst, Done
  <2>3. Settle(Guard, "canceled", m_pending, tasks)
    BY <1>2 DEF Settle, Done
  <2> QED BY <1>1, <2>2, <2>3 DEF Cancel
<1>3. ASSUME NEW S \in SUBSET Ctx, NEW x \in Ctx, IsOpenChain(S, Guard),
             x \in S, m_parent[x] \notin S, Settle(x, "canceled", m_pending, tasks)
      PROVE  x \in {Joint, Guard} /\ (x = Guard => Done(Joint))
  BY <1>1, <1>3, GuardChain
<1> QED BY <1>1, <1>2, <1>3 DEF Cancel

\* abort() of the returned handle closes Guard, and Joint if it is not done.
LEMMA AbortGuard ==
    ASSUME ChainInv, LinksInv, Abort(Guard)
    PROVE  /\ Born(Guard)
           /\ OnlySettles /\ UNCHANGED <<held, tasks, posts, pairVars>>
           /\ \A c \in Ctx \ {Joint, Guard} : m_pending'[c] = m_pending[c]
           /\ Done(Joint)'
           /\ m_pending'[Guard] = "done"
           /\ Joint \in aborted' <=> (Joint \in aborted \/ ~Done(Joint))
           /\ aborted \subseteq aborted'
           /\ \A c \in aborted' : c \in aborted \/ ~Done(c)
<1> USE NullCtxAssumption, Names
<1>1. /\ Born(Guard) /\ m_parent[Guard] = Joint
      /\ UNCHANGED <<held, tasks, posts, pairVars>>
      /\ m_pending \in [Ctx -> States]
  BY DEF Abort, Handle, LinksInv, Functors, ChainInv, ChainTypeOK, States
<1>2. CASE Done(Guard) /\ UNCHANGED <<m_pending, aborted>>
  <2>1. Done(Joint)
    BY <1>1, <1>2 DEF ChainInv, ParentFirst, Done
  <2> QED BY <1>1, <1>2, <2>1 DEF OnlySettles, Done
<1>3. ASSUME NEW S \in SUBSET Ctx, IsOpenChain(S, Guard),
             m_pending' = [x \in Ctx |-> IF x \in S THEN "done" ELSE m_pending[x]],
             aborted' = aborted \cup S
      PROVE  /\ OnlySettles
             /\ \A c \in Ctx \ {Joint, Guard} : m_pending'[c] = m_pending[c]
             /\ Done(Joint)'
             /\ m_pending'[Guard] = "done"
             /\ Joint \in aborted' <=> (Joint \in aborted \/ ~Done(Joint))
             /\ aborted \subseteq aborted'
             /\ \A c \in aborted' : c \in aborted \/ ~Done(c)
  <2>1. Guard \in S /\ S \subseteq {Joint, Guard} /\ ((Joint \in S) <=> ~Done(Joint))
    BY <1>1, <1>3, GuardChain
  <2>2. \A x \in S : ~Done(x) /\ Born(x)
    <3>1. Born(Joint)
      BY <1>1 DEF ChainInv, Linked
    <3> QED BY <1>1, <1>3, <2>1, <3>1 DEF IsOpenChain
  <2>3. OnlySettles
    BY <1>1, <1>3, <2>2 DEF OnlySettles, Born, Done, States
  <2> QED BY <1>3, <2>1, <2>2, <2>3 DEF Done
<1> QED BY <1>1, <1>2, <1>3 DEF Abort

-----------------------------------------------------------------------------
(* Which parts of the invariant a step leaves alone.                       *)

\* Links between contexts.
LEMMA LinksKept == ASSUME LinksInv, OnlySettles, form' = form PROVE LinksInv'
<1> USE Names
<1>1. m_parent' = m_parent /\ kind' = kind
  BY DEF OnlySettles, pairVars
<1>2. \A c \in Ctx : Born(c)' <=> Born(c)
  BY DEF OnlySettles, Born, Results
<1>3. \A c \in Ctx :
         m_pending[c] \in {"callbacks", "done"} => m_pending'[c] \in {"callbacks", "done"}
  BY DEF OnlySettles, Results
<1> QED BY <1>1, <1>2, <1>3 DEF LinksInv

\* An operation that is finished stays so.
LEMMA StaysStopped ==
    ASSUME OnlySettles, NEW i \in Ops, Stopped(i) PROVE Stopped(i)'
BY Names DEF OnlySettles, Stopped

\* Functors run once.
LEMMA OnceKept ==
    ASSUME CompoundInv, PostsAtMostOne, form' = form, res' = res,
           \A t \in Threads : /\ running'[t] \in {running[t], NoCtx}
                              /\ label'[t] = "call" => label[t] = "call"
    PROVE  OnceInv'
<1> USE Names, NullCtxAssumption
<1>1. \A c \in Functors : posts[c] > 0 => posts'[c] > 0
  BY DEF PostsAtMostOne, PostsFunctor, CompoundInv, ChainInv, ChainTypeOK
<1>2. \A a \in tasks : a.child \in Functors /\ posts[a.child] > 0
  BY DEF CompoundInv, OnceInv, ChainInv, Completable
<1>3. \A a \in tasks' \ tasks : /\ a.child \in Functors /\ posts[a.child] = 0
                                /\ \A b \in tasks' \ tasks : a = b
  BY DEF PostsAtMostOne, PostsFunctor
<1>4. (\A a, b \in tasks : a.child = b.child => a = b)'
  BY <1>2, <1>3 DEF CompoundInv, OnceInv
<1>5. (\A a \in tasks : a.child \in Functors /\ \A t \in Threads : running[t] # a.child)'
  BY <1>2, <1>3 DEF CompoundInv, OnceInv, ThreadInv
<1>6. (\A t, u \in Threads : (running[t] = running[u] /\ ~Idle(t)) => t = u)'
  BY DEF CompoundInv, OnceInv, Idle
<1>7. (\A i \in Ops : res[i] # "none" =>
         /\ posts[Watch(i)] > 0
         /\ \A a \in tasks : a.child # Watch(i)
         /\ \A t \in Threads : running[t] = Watch(i) => label[t] # "call")'
  BY <1>1, <1>2, <1>3 DEF CompoundInv, OnceInv, Functors, Watches
<1>8. (form = "when_success" => \A i \in Ops : res[i] \in {"none", "value"})'
  BY DEF CompoundInv, OnceInv
<1> QED BY <1>4, <1>5, <1>6, <1>7, <1>8 DEF OnceInv

\* What the other threads are doing.
LEMMA OthersKept ==
    ASSUME CompoundInv, NEW u \in Threads,
           running'[u] = running[u], input'[u] = input[u],
           label'[u] = label[u], left'[u] = left[u],
           \A c \in Ctx : posts[c] > 0 => posts'[c] > 0,
           \A i \in Ops : Stopped(i) => Stopped(i)',
           label[u] = "attach" => \A c \in Ctx : Born(c)' <=> Born(c),
           label[u] \in {"attach", "store", "settle"} => form' = form,
           \A i \in Ops : res[i] # "none" => res'[i] # "none",
           label[u] = "settle" => Counted \subseteq Counted'
    PROVE  ThreadInv(u)'
<1> USE Names
<1>1. ThreadInv(u)
  BY DEF CompoundInv
<1>2. (running[u] \in {NoCtx, Joint} \cup Functors)'
  BY <1>1 DEF ThreadInv
<1>3. ((running[u] = NoCtx) <=> (label[u] = "idle"))'
  BY <1>1 DEF ThreadInv
<1>4. ((running[u] = Joint) <=> (label[u] = "attach"))'
  BY <1>1 DEF ThreadInv
<1>5. (running[u] \in Functors => (posts[running[u]] > 0 /\ input[u] \in Results))'
  BY <1>1 DEF ThreadInv
<1>6. (label[u] = "attach" => /\ form # "none"
                              /\ ~Born(Guard)
                              /\ \A i \in Ops : Born(Watch(i)) <=> i \notin left[u])'
  BY <1>1 DEF ThreadInv
<1>7. (label[u] = "store" => \E i \in Ops : running[u] = Watch(i) /\ res[i] # "none")'
  BY <1>1 DEF ThreadInv
<1>8. (label[u] \in {"store", "settle"} =>
         form \in {"when_all", "when_success"} /\ running[u] \in Watches)'
  BY <1>1 DEF ThreadInv
<1>9. (label[u] = "settle" => Counted = Ops)'
  <2>1. Counted' \subseteq Ops
    BY DEF Counted
  <2> QED BY <1>1, <2>1 DEF ThreadInv
<1>10. (label[u] = "cancel" => \A i \in Ops \ left[u] : Stopped(i))'
  BY <1>1 DEF ThreadInv
<1> QED BY <1>2, <1>3, <1>4, <1>5, <1>6, <1>7, <1>8, <1>9, <1>10 DEF ThreadInv

\* What is counted.
LEMMA CountKept ==
    ASSUME CountInv, counter' = counter, res' = res,
           \A t \in Threads : (label[t] = "store" \/ label'[t] = "store") =>
               running'[t] = running[t] /\ label'[t] = label[t] /\ loaded'[t] = loaded[t]
    PROVE  CountInv' /\ Counted' = Counted
<1>1. Counted' = Counted
  BY DEF Counted
<1> QED BY <1>1 DEF CountInv

\* What a success of Joint has.
LEMMA ValueKept ==
    ASSUME ValueInv, Collected => Collected',
           m_pending'[Joint] = "value" => (m_pending[Joint] = "value" \/ Collected'),
           \A a \in tasks' \ tasks : (a.child = Guard /\ a.result = "value") => Collected'
    PROVE  ValueInv'
BY DEF ValueInv

\* Somebody is about to cancel what is unfinished.
Cancels(t) ==
    \/ label[t] = "cancel"
    \/ running[t] = Guard /\ label[t] = "call" /\ input[t] = "canceled"

LEMMA StopKept ==
    ASSUME StopInv, Settled' => Settled, tasks \subseteq tasks',
           \A i \in Ops : Stopped(i) => Stopped(i)',
           \A t \in Threads : Cancels(t) => (Cancels(t)' \/ \A i \in Ops : Stopped(i)')
    PROVE  StopInv'
BY DEF StopInv, Cancels

\* A step that only concerns the thread that takes it.
LEMMA LocalStep ==
    ASSUME CompoundInv, UNCHANGED chainVars, form' = form
    PROVE  /\ ChainInv' /\ LinksInv' /\ ChainTypeOK'
           /\ OnlySettles /\ PostsAtMostOne
           /\ Settled' = Settled /\ tasks' = tasks /\ posts' = posts /\ m_pending' = m_pending
           /\ \A i \in Ops : Stopped(i)' = Stopped(i)
           /\ \A c \in Ctx : Born(c)' = Born(c)
<1>1. /\ m_pending' = m_pending /\ tasks' = tasks /\ posts' = posts /\ aborted' = aborted
      /\ UNCHANGED pairVars
  BY DEF chainVars
<1>2. OnlySettles /\ PostsAtMostOne
  BY <1>1 DEF OnlySettles, PostsAtMostOne
<1>3. ChainInv' /\ LinksInv'
  BY <1>2, StutterStep, LinksKept DEF CompoundInv
<1>4. ChainTypeOK'
  BY <1>3 DEF ChainInv
<1>5. /\ Settled' = Settled
      /\ \A i \in Ops : Stopped(i)' = Stopped(i)
      /\ \A c \in Ctx : Born(c)' = Born(c)
  BY <1>1 DEF Settled, Stopped, Born, Done
<1> QED BY <1>1, <1>2, <1>3, <1>4, <1>5

\* The result of an operation is stored and the counter is read.
LEMMA CountResultKeeps ==
    ASSUME CompoundInv, NEW t \in Threads, CountResult(t) PROVE CompoundInv'
<1> USE Names, NullCtxAssumption
<1>1. PICK i \in Ops : /\ running[t] = Watch(i) /\ Counts(input[t])
                       /\ res' = [res EXCEPT ![i] = input[t]]
  BY DEF CountResult
<1>2. /\ label[t] = "call" /\ label' = [label EXCEPT ![t] = "store"]
      /\ loaded' = [loaded EXCEPT ![t] = counter]
      /\ UNCHANGED chainVars /\ running' = running /\ input' = input /\ left' = left
      /\ form' = form /\ counter' = counter /\ first' = first /\ asked' = asked
  BY DEF CountResult, Goto, historyVars
<1>3. TypeOK /\ LinksInv /\ ThreadInv(t) /\ OnceInv /\ CountInv /\ ValueInv /\ StopInv
  BY DEF CompoundInv
<1>4. /\ ChainInv' /\ LinksInv' /\ ChainTypeOK' /\ tasks' = tasks /\ posts' = posts
      /\ m_pending' = m_pending /\ Settled' = Settled
      /\ \A j \in Ops : Stopped(j)' = Stopped(j)
      /\ \A c \in Ctx : Born(c)' = Born(c)
  BY <1>2, LocalStep
<1>5. /\ Watch(i) \in Functors /\ posts[Watch(i)] > 0 /\ input[t] \in Results
      /\ form \in {"when_all", "when_success"}
      /\ form = "when_success" => input[t] = "value"
      /\ res[i] = "none" /\ Watch(i) \in Watches
  BY <1>1, <1>2, <1>3 DEF ThreadInv, Functors, Watches, Counts, OnceInv
<1>6. /\ res'[i] = input[t] /\ input[t] # "none"
      /\ \A j \in Ops \ {i} : res'[j] = res[j]
      /\ label'[t] = "store" /\ \A u \in Threads \ {t} : label'[u] = label[u]
      /\ loaded'[t] = counter /\ \A u \in Threads \ {t} : loaded'[u] = loaded[u]
  BY <1>1, <1>2, <1>3, <1>5 DEF TypeOK, Results
<1>7. TypeOK'
  BY <1>1, <1>2, <1>3, <1>4, <1>5 DEF TypeOK
<1>8. Counted' = Counted
  BY <1>1, <1>2, <1>5, <1>6 DEF Counted
<1>9. \A u \in Threads : ThreadInv(u)'
  <2>1. ThreadInv(t)'
    BY <1>1, <1>2, <1>3, <1>4, <1>5, <1>6 DEF ThreadInv
  <2>2. ASSUME NEW u \in Threads \ {t} PROVE ThreadInv(u)'
    BY <1>2, <1>4, <1>6, <1>8, OthersKept
  <2> QED BY <2>1, <2>2
<1>10. OnceInv'
  <2>1. \A u \in Threads : running[u] = Watch(i) => u = t
    BY <1>1, <1>3, <1>5 DEF OnceInv, Idle
  <2>2. \A a \in tasks : a.child # Watch(i)
    BY <1>1, <1>3 DEF OnceInv
  <2> QED BY <1>1, <1>2, <1>3, <1>4, <1>5, <1>6, <2>1, <2>2 DEF OnceInv, Idle
<1>11. CountInv'
  BY <1>2, <1>3, <1>6, <1>8 DEF CountInv
<1>12. ValueInv'
  <2>1. Collected => Collected'
    BY <1>2, <1>5, <1>6 DEF Collected
  <2> QED BY <1>3, <1>4, <2>1, ValueKept
<1>13. StopInv'
  <2>1. \A u \in Threads : Cancels(u) => Cancels(u)'
    BY <1>1, <1>2, <1>6 DEF Cancels
  <2> QED BY <1>3, <1>4, <2>1, StopKept
<1> QED BY <1>4, <1>7, <1>9, <1>10, <1>11, <1>12, <1>13 DEF CompoundInv

\* The step that stores the counter counts one more operation.
LEMMA StoreCounts ==
    ASSUME CompoundInv, NEW t \in Threads, StoreCounter(t)
    PROVE  /\ Cardinality(Counted) \in Nat /\ Cardinality(Counted') = Cardinality(Counted) + 1
           /\ Cardinality(Counted') <= N /\ (Cardinality(Counted') = N => Counted' = Ops)
           /\ Counted \subseteq Counted'
<1> USE Names
<1>1. /\ label[t] = "store" /\ running' = running /\ res' = res
      /\ label' = [label EXCEPT ![t] = IF loaded[t] - 1 = 0 THEN "settle" ELSE "return"]
  BY DEF StoreCounter, Goto
<1>2. TypeOK /\ ThreadInv(t) /\ OnceInv
  BY DEF CompoundInv
<1>3. PICK i \in Ops : running[t] = Watch(i) /\ res[i] # "none"
  BY <1>1, <1>2 DEF ThreadInv
<1>4. label'[t] # "store" /\ \A u \in Threads \ {t} : label'[u] = label[u]
  BY <1>1, <1>2 DEF TypeOK
<1>5. \A u \in Threads : running[u] = Watch(i) => u = t
  BY <1>2, <1>3, NullCtxAssumption DEF OnceInv, Idle
<1>6. i \notin Counted /\ Counted' = Counted \cup {i}
  BY <1>1, <1>3, <1>4, <1>5 DEF Counted
<1>7. IsFiniteSet(Ops) /\ Cardinality(Ops) = N
  BY FS_Interval, SizeAssumption DEF Ops
<1>8. Counted \in SUBSET Ops /\ Counted' \in SUBSET Ops
  BY <1>6 DEF Counted
<1>9. IsFiniteSet(Counted) /\ Cardinality(Counted) \in Nat
  BY <1>7, <1>8, FS_Subset, FS_CardinalityType
<1>10. Cardinality(Counted \cup {i}) = Cardinality(Counted) + 1
  BY <1>6, <1>9, FS_AddElement
<1>11. /\ Cardinality(Counted') <= Cardinality(Ops)
       /\ Cardinality(Ops) = Cardinality(Counted') => Ops = Counted'
  BY <1>7, <1>8, FS_Subset
<1> QED BY <1>6, <1>7, <1>9, <1>10, <1>11

\* The decremented counter is stored.
LEMMA StoreCounterKeeps ==
    ASSUME CompoundInv, NEW t \in Threads, StoreCounter(t) PROVE CompoundInv'
<1> USE Names, NullCtxAssumption
<1>1. /\ label[t] = "store" /\ counter' = loaded[t] - 1
      /\ label' = [label EXCEPT ![t] = IF loaded[t] - 1 = 0 THEN "settle" ELSE "return"]
      /\ UNCHANGED chainVars /\ running' = running /\ input' = input /\ left' = left
      /\ loaded' = loaded /\ form' = form /\ res' = res /\ first' = first /\ asked' = asked
  BY DEF StoreCounter, Goto, historyVars
<1>2. TypeOK /\ LinksInv /\ ThreadInv(t) /\ OnceInv /\ CountInv /\ ValueInv /\ StopInv
  BY DEF CompoundInv
<1>3. /\ ChainInv' /\ LinksInv' /\ ChainTypeOK' /\ PostsAtMostOne /\ tasks' = tasks
      /\ posts' = posts /\ m_pending' = m_pending /\ Settled' = Settled
      /\ \A j \in Ops : Stopped(j)' = Stopped(j)
      /\ \A c \in Ctx : Born(c)' = Born(c)
  BY <1>1, LocalStep
<1>4. PICK i \in Ops : running[t] = Watch(i) /\ res[i] # "none"
  BY <1>1, <1>2 DEF ThreadInv
<1>5. /\ label'[t] = (IF loaded[t] - 1 = 0 THEN "settle" ELSE "return")
      /\ \A u \in Threads \ {t} : label'[u] = label[u]
  BY <1>1, <1>2 DEF TypeOK
<1>6. /\ Cardinality(Counted) \in Nat /\ Cardinality(Counted') = Cardinality(Counted) + 1
      /\ Cardinality(Counted') <= N /\ (Cardinality(Counted') = N => Counted' = Ops)
      /\ Counted \subseteq Counted'
  BY StoreCounts
<1>7. /\ N - Cardinality(Counted) <= loaded[t] /\ loaded[t] \in 0 .. N
      /\ \A u \in Threads : label[u] = "store" => N - Cardinality(Counted) <= loaded[u]
      /\ \A u \in Threads : loaded[u] \in Nat
  BY <1>1, <1>2 DEF CountInv, TypeOK
<1>8. N \in Nat
  BY SizeAssumption
<1> HIDE DEF Ops
<1>9. counter' \in 0 .. N /\ N - Cardinality(Counted') <= counter'
  BY <1>1, <1>6, <1>7, <1>8
<1>10. TypeOK'
  BY <1>1, <1>2, <1>3, <1>9 DEF TypeOK
<1>11. CountInv'
  BY <1>1, <1>5, <1>6, <1>7, <1>8, <1>9 DEF CountInv
<1>12. \A u \in Threads : ThreadInv(u)'
  <2>1. ThreadInv(t)'
    <3>1. loaded[t] - 1 = 0 => Counted' = Ops
      BY <1>6, <1>7, <1>8
    <3>2. (label[t] = "settle" => Counted = Ops)'
      BY <1>5, <3>1
    <3> QED BY <1>1, <1>2, <1>3, <1>4, <1>5, <3>2 DEF ThreadInv
  <2>2. ASSUME NEW u \in Threads \ {t} PROVE ThreadInv(u)'
    BY <1>1, <1>3, <1>5, <1>6, OthersKept
  <2> QED BY <2>1, <2>2
<1>13. OnceInv'
  BY <1>1, <1>3, <1>5, OnceKept
<1>14. ValueInv'
  BY <1>1, <1>2, <1>3, ValueKept DEF Collected
<1>15. StopInv'
  <2>1. \A u \in Threads : Cancels(u) => Cancels(u)'
    BY <1>1, <1>4, <1>5 DEF Cancels
  <2> QED BY <1>2, <1>3, <2>1, StopKept
<1> QED BY <1>3, <1>10, <1>11, <1>12, <1>13, <1>14, <1>15 DEF CompoundInv

\* The functors of add_cancel() see the result of Joint.
LEMMA GuardResultKeeps ==
    ASSUME CompoundInv, NEW t \in Threads, GuardResult(t) PROVE CompoundInv'
<1> USE Names, NullCtxAssumption
<1>1. /\ label[t] = "call" /\ running[t] = Guard
      /\ \/ /\ input[t] = "canceled"
            /\ left' = [left EXCEPT ![t] = Ops] /\ label' = [label EXCEPT ![t] = "cancel"]
         \/ /\ input[t] # "canceled"
            /\ left' = left /\ label' = [label EXCEPT ![t] = "return"]
      /\ UNCHANGED chainVars /\ running' = running /\ input' = input /\ loaded' = loaded
      /\ form' = form /\ res' = res /\ counter' = counter /\ first' = first /\ asked' = asked
  BY DEF GuardResult, Goto, historyVars, sharedVars
<1>2. TypeOK /\ LinksInv /\ ThreadInv(t) /\ OnceInv /\ CountInv /\ ValueInv /\ StopInv
  BY DEF CompoundInv
<1>3. /\ ChainInv' /\ LinksInv' /\ ChainTypeOK' /\ PostsAtMostOne /\ tasks' = tasks
      /\ posts' = posts /\ m_pending' = m_pending /\ Settled' = Settled
      /\ \A j \in Ops : Stopped(j)' = Stopped(j)
      /\ \A c \in Ctx : Born(c)' = Born(c)
  BY <1>1, LocalStep
<1>4. /\ label'[t] \in {"cancel", "return"}
      /\ input[t] = "canceled" => label'[t] = "cancel"
      /\ label'[t] = "cancel" => left'[t] = Ops
      /\ \A u \in Threads \ {t} : label'[u] = label[u] /\ left'[u] = left[u]
  BY <1>1, <1>2 DEF TypeOK
<1>5. TypeOK'
  BY <1>1, <1>2, <1>3 DEF TypeOK
<1>6. CountInv' /\ Counted' = Counted
  BY <1>1, <1>2, <1>4, CountKept
<1>7. \A u \in Threads : ThreadInv(u)'
  <2>1. ThreadInv(t)'
    BY <1>1, <1>2, <1>3, <1>4 DEF ThreadInv
  <2>2. ASSUME NEW u \in Threads \ {t} PROVE ThreadInv(u)'
    BY <1>1, <1>3, <1>4, <1>6, OthersKept
  <2> QED BY <2>1, <2>2
<1>8. OnceInv'
  BY <1>1, <1>3, <1>4, OnceKept
<1>9. ValueInv'
  BY <1>1, <1>2, <1>3, ValueKept DEF Collected
<1>10. StopInv'
  <2>1. \A u \in Threads : Cancels(u) => Cancels(u)'
    BY <1>1, <1>4 DEF Cancels
  <2> QED BY <1>2, <1>3, <2>1, StopKept
<1> QED BY <1>3, <1>5, <1>6, <1>7, <1>8, <1>9, <1>10 DEF CompoundInv

\* A thread takes a functor from the executor.
LEMMA TakeKeeps ==
    ASSUME CompoundInv, NEW t \in Threads, NEW task \in tasks, Take(t, task) PROVE CompoundInv'
<1> USE Names, NullCtxAssumption
<1>1. /\ Idle(t) /\ running' = [running EXCEPT ![t] = task.child]
      /\ input' = [input EXCEPT ![t] = task.result] /\ label' = [label EXCEPT ![t] = "call"]
      /\ tasks' = tasks \ {task} /\ UNCHANGED <<m_pending, held, posts, aborted, pairVars>>
      /\ m_pending' = m_pending /\ posts' = posts /\ aborted' = aborted
      /\ left' = left /\ loaded' = loaded
      /\ form' = form /\ res' = res /\ counter' = counter /\ first' = first /\ asked' = asked
  BY DEF Take, Begin, Goto, historyVars, sharedVars
<1>2. /\ TypeOK /\ LinksInv /\ ThreadInv(t) /\ OnceInv /\ CountInv /\ ValueInv /\ StopInv
      /\ ChainInv /\ ChainTypeOK
  BY DEF CompoundInv, ChainInv
<1>3. /\ task.child \in Functors /\ task.result \in Results /\ posts[task.child] > 0
      /\ task.child \in Ctx /\ label[t] = "idle"
      /\ \A u \in Threads : running[u] # task.child
  BY <1>1, <1>2, TaskReady DEF OnceInv, ChainInv, Completable, ThreadInv, Idle
<1>4. /\ running'[t] = task.child /\ input'[t] = task.result /\ label'[t] = "call"
      /\ \A u \in Threads \ {t} : /\ running'[u] = running[u] /\ input'[u] = input[u]
                                  /\ label'[u] = label[u]
  BY <1>1, <1>2 DEF TypeOK
<1>5. ChainInv' /\ ChainTypeOK'
  BY <1>1, <1>2, TakeStep DEF ChainInv
<1>6. OnlySettles /\ LinksInv'
  <2>1. OnlySettles
    BY <1>1 DEF OnlySettles
  <2> QED BY <1>1, <1>2, <2>1, LinksKept
<1>7. TypeOK'
  BY <1>1, <1>2, <1>3, <1>5 DEF TypeOK
<1>8. CountInv' /\ Counted' = Counted
  BY <1>1, <1>2, <1>3, <1>4, CountKept
<1>9. /\ Settled' = Settled
      /\ \A i \in Ops : Stopped(i)' = Stopped(i)
      /\ \A c \in Ctx : Born(c)' = Born(c)
  BY <1>1 DEF Settled, Stopped, Born, Done
<1>10. \A u \in Threads : ThreadInv(u)'
  <2>1. ThreadInv(t)'
    BY <1>1, <1>3, <1>4 DEF ThreadInv, Functors, Watches
  <2>2. ASSUME NEW u \in Threads \ {t} PROVE ThreadInv(u)'
    BY <1>1, <1>4, <1>8, <1>9, OthersKept
  <2> QED BY <2>1, <2>2
<1>11. OnceInv'
  <2>1. \A a \in tasks' : a \in tasks /\ a.child # task.child
    BY <1>1, <1>2 DEF OnceInv
  <2>2. (\A a, b \in tasks : a.child = b.child => a = b)'
    BY <1>2, <2>1 DEF OnceInv
  <2>3. (\A a \in tasks : a.child \in Functors /\ \A u \in Threads : running[u] # a.child)'
    BY <1>2, <1>4, <2>1 DEF OnceInv
  <2>4. (\A u, v \in Threads : (running[u] = running[v] /\ ~Idle(u)) => u = v)'
    BY <1>2, <1>3, <1>4 DEF OnceInv, Idle
  <2>5. (\A i \in Ops : res[i] # "none" =>
           /\ posts[Watch(i)] > 0
           /\ \A a \in tasks : a.child # Watch(i)
           /\ \A u \in Threads : running[u] = Watch(i) => label[u] # "call")'
    BY <1>1, <1>2, <1>4, <2>1 DEF OnceInv
  <2>6. (form = "when_success" => \A i \in Ops : res[i] \in {"none", "value"})'
    BY <1>1, <1>2 DEF OnceInv
  <2> QED BY <2>2, <2>3, <2>4, <2>5, <2>6 DEF OnceInv
<1>12. ValueInv'
  BY <1>1, <1>2, ValueKept DEF Collected
<1>13. StopInv'
  <2>1. ASSUME NEW u \in Threads, Cancels(u) PROVE Cancels(u)'
    BY <1>3, <1>4, <2>1, <1>2 DEF Cancels, ThreadInv
  <2>2. ASSUME task.child = Guard, task.result = "canceled" PROVE Cancels(t)'
    BY <1>4, <2>2 DEF Cancels
  <2> QED BY <1>1, <1>2, <1>9, <2>1, <2>2 DEF StopInv, Cancels
<1> QED BY <1>5, <1>6, <1>7, <1>8, <1>10, <1>11, <1>12, <1>13 DEF CompoundInv

\* A result for a context keeps most of the invariant.
LEMMA ResultStep ==
    ASSUME CompoundInv, NEW x \in Ctx, NEW r \in Results,
           Settle(x, r, m_pending, tasks), Ready(x),
           UNCHANGED <<held, aborted, pairVars, form, counter, res>>,
           \A u \in Threads :
              /\ (label[u] = "store" \/ label'[u] = "store") =>
                    running'[u] = running[u] /\ label'[u] = label[u] /\ loaded'[u] = loaded[u]
              /\ running'[u] \in {running[u], NoCtx}
              /\ label'[u] = "call" => label[u] = "call"
    PROVE  /\ ChainInv' /\ ChainTypeOK' /\ LinksInv' /\ OnceInv' /\ CountInv'
           /\ Counted' = Counted
           /\ Collected' = Collected
           /\ tasks \subseteq tasks'
           /\ \A a \in tasks' \ tasks : a.child = Guard => x = Joint /\ a.result = r
           /\ \A c \in Ctx : posts[c] > 0 => posts'[c] > 0
           /\ \A c \in Ctx : Born(c)' = Born(c)
           /\ \A i \in Ops : Stopped(i) => Stopped(i)'
           /\ \A i \in Ops : x = Op(i) => Stopped(i)'
           /\ \A c \in Ctx \ {x} : m_pending'[c] = m_pending[c]
           /\ m_pending'[x] \in {r, "done"}
           /\ x # Joint => Settled' = Settled
<1> USE Names, NullCtxAssumption
<1>1. /\ form' = form /\ res' = res /\ counter' = counter /\ aborted' = aborted
      /\ UNCHANGED pairVars
      /\ TypeOK /\ LinksInv /\ OnceInv /\ CountInv /\ ChainInv
  BY DEF CompoundInv
<1>2. /\ OnlySettles /\ PostsAtMostOne
      /\ Born(x) /\ m_pending'[x] \in {r, "done"}
      /\ \A c \in Ctx \ {x} : m_pending'[c] = m_pending[c]
      /\ \A a \in tasks' \ tasks : a = [child |-> callee[x], result |-> r] /\ m_parent[a.child] = x
      /\ tasks \subseteq tasks'
  <2>1. ChainInv /\ LinksInv /\ UNCHANGED pairVars
    BY <1>1
  <2>2. /\ OnlySettles /\ PostsAtMostOne
        /\ Born(x) /\ m_pending'[x] \in {r, "done"}
        /\ \A c \in Ctx \ {x} : m_pending'[c] = m_pending[c]
        /\ \A a \in tasks' \ tasks :
             a = [child |-> callee[x], result |-> r] /\ m_parent[a.child] = x
        /\ m_pending[x] = "callbacks" =>
             [child |-> callee[x], result |-> r] \in tasks' /\ m_pending'[x] = "done"
        /\ tasks \subseteq tasks'
    BY ONLY <2>1, SettleEffect, Settle(x, r, m_pending, tasks)
  <2> QED BY <2>2
<1>3. ChainInv' /\ ChainTypeOK'
  <2>1. Passed(m_pending) /\ kind[x] # "forward"
    BY <1>1 DEF Passed, ChainInv, ChainTypeOK, States, LinksInv
  <2>2. ChainInv'
    BY <1>1, <1>2, <2>1, SettleStep
  <2> QED BY <2>2 DEF ChainInv
<1>4. LinksInv'
  BY <1>1, <1>2, LinksKept
<1>5. OnceInv'
  BY <1>1, <1>2, OnceKept
<1>6. CountInv' /\ Counted' = Counted
  BY <1>1, CountKept
<1>7. \A c \in Ctx : posts[c] > 0 => posts'[c] > 0
  BY <1>1, <1>2 DEF PostsAtMostOne, PostsFunctor, ChainInv, ChainTypeOK
<1>8. \A c \in Ctx : Born(c)' = Born(c)
  BY <1>2 DEF OnlySettles, Born, Results
<1>9. \A i \in Ops : /\ Stopped(i) => Stopped(i)'
                     /\ x = Op(i) => Stopped(i)'
  BY <1>2, StaysStopped DEF Stopped
<1>10. \A a \in tasks' \ tasks : a.child = Guard => x = Joint /\ a.result = r
  BY <1>1, <1>2 DEF LinksInv
<1>11. x # Joint => Settled' = Settled
  BY <1>1, <1>2 DEF Settled, Done
<1> QED BY <1>1, <1>2, <1>3, <1>4, <1>5, <1>6, <1>7, <1>8, <1>9, <1>10, <1>11 DEF Collected

\* The counter is zero, and Joint gets its success.
LEMMA SettleCountedKeeps ==
    ASSUME CompoundInv, NEW t \in Threads, SettleCounted(t) PROVE CompoundInv'
<1> USE Names, NullCtxAssumption
<1>1. /\ label[t] = "settle" /\ label' = [label EXCEPT ![t] = "return"]
      /\ Settle(Joint, "value", m_pending, tasks)
      /\ first' = (IF first = "none" THEN "value" ELSE first)
      /\ UNCHANGED <<held, aborted, pairVars, form, counter, res>>
      /\ running' = running /\ input' = input /\ left' = left /\ loaded' = loaded
      /\ form' = form /\ res' = res /\ counter' = counter /\ asked' = asked
  BY DEF SettleCounted, Goto, Conclude, sharedVars
<1>2. /\ TypeOK /\ LinksInv /\ ThreadInv(t) /\ OnceInv /\ CountInv /\ ValueInv /\ StopInv
      /\ ChainInv
  BY DEF CompoundInv
<1>3. label'[t] = "return" /\ \A u \in Threads \ {t} : label'[u] = label[u]
  BY <1>1, <1>2 DEF TypeOK
<1>4. Ready(Joint) /\ "value" \in Results
  BY <1>2 DEF LinksInv, Ready, Results
<1>5. \A u \in Threads :
         /\ (label[u] = "store" \/ label'[u] = "store") =>
               running'[u] = running[u] /\ label'[u] = label[u] /\ loaded'[u] = loaded[u]
         /\ running'[u] \in {running[u], NoCtx}
         /\ label'[u] = "call" => label[u] = "call"
  BY <1>1, <1>3
<1>6. /\ ChainInv' /\ ChainTypeOK' /\ LinksInv' /\ OnceInv' /\ CountInv'
      /\ Counted' = Counted /\ Collected' = Collected
      /\ tasks \subseteq tasks'
      /\ \A a \in tasks' \ tasks : a.child = Guard => a.result = "value"
      /\ \A c \in Ctx : posts[c] > 0 => posts'[c] > 0
      /\ \A c \in Ctx : Born(c)' = Born(c)
      /\ \A j \in Ops : Stopped(j) => Stopped(j)'
      /\ m_pending'[Joint] \in {"value", "done"}
  BY <1>1, <1>4, <1>5, ResultStep
<1>7. TypeOK'
  BY <1>1, <1>2, <1>4, <1>6 DEF TypeOK
<1>8. \A u \in Threads : ThreadInv(u)'
  <2>1. ThreadInv(t)'
    BY <1>1, <1>2, <1>3, <1>6 DEF ThreadInv
  <2>2. ASSUME NEW u \in Threads \ {t} PROVE ThreadInv(u)'
    BY <1>1, <1>3, <1>6, OthersKept
  <2> QED BY <2>1, <2>2
<1>9. Counted = Ops
  BY <1>1, <1>2 DEF ThreadInv
<1>10. Collected'
  <2>1. \A i \in Ops : res[i] # "none"
    BY <1>9 DEF Counted
  <2> QED BY <1>2, <1>6, <2>1 DEF Collected, OnceInv
<1>11. ValueInv'
  BY <1>10 DEF ValueInv
<1>12. StopInv'
  <2>1. ASSUME NEW i \in Ops PROVE Stopped(i)'
    <3>1. res[i] # "none" /\ Watch(i) \in Functors
      BY <1>9 DEF Counted, Functors, Watches
    <3>2. m_pending[Op(i)] = "done"
      BY <1>2, <3>1, FunctorReady DEF OnceInv
    <3> QED BY <1>6, <3>2 DEF Stopped
  <2> QED BY <2>1 DEF StopInv
<1> QED BY <1>6, <1>7, <1>8, <1>11, <1>12 DEF CompoundInv

\* A result that decides the matter reaches Joint, and the loop begins that cancels the
\* other operations.
LEMMA SettleEarlyKeeps ==
    ASSUME CompoundInv, NEW t \in Threads, SettleEarly(t) PROVE CompoundInv'
<1> USE Names, NullCtxAssumption
<1> DEFINE r == input[t]
<1>1. PICK i \in Ops : /\ running[t] = Watch(i) /\ ~Counts(r)
                       /\ left' = [left EXCEPT ![t] = Ops \ {i}]
  BY DEF SettleEarly
<1>2. /\ label[t] = "call" /\ label' = [label EXCEPT ![t] = "cancel"]
      /\ Settle(Joint, r, m_pending, tasks)
      /\ first' = (IF first = "none" THEN r ELSE first)
      /\ UNCHANGED <<held, aborted, pairVars, form, counter, res>>
      /\ running' = running /\ input' = input /\ loaded' = loaded
      /\ form' = form /\ res' = res /\ counter' = counter /\ asked' = asked
  BY DEF SettleEarly, Goto, Conclude, sharedVars
<1>3. /\ TypeOK /\ LinksInv /\ ThreadInv(t) /\ OnceInv /\ CountInv /\ ValueInv /\ StopInv
      /\ ChainInv
  BY DEF CompoundInv
<1>4. /\ label'[t] = "cancel" /\ left'[t] = Ops \ {i}
      /\ \A u \in Threads \ {t} : label'[u] = label[u] /\ left'[u] = left[u]
  BY <1>1, <1>2, <1>3 DEF TypeOK
<1>5. Watch(i) \in Functors /\ posts[Watch(i)] > 0 /\ r \in Results
  BY <1>1, <1>2, <1>3 DEF ThreadInv, Functors, Watches
<1>6. Ready(Joint)
  BY <1>3 DEF LinksInv, Ready
<1>7. \A u \in Threads :
         /\ (label[u] = "store" \/ label'[u] = "store") =>
               running'[u] = running[u] /\ label'[u] = label[u] /\ loaded'[u] = loaded[u]
         /\ running'[u] \in {running[u], NoCtx}
         /\ label'[u] = "call" => label[u] = "call"
  BY <1>2, <1>4
<1> HIDE DEF r
<1>8. /\ ChainInv' /\ ChainTypeOK' /\ LinksInv' /\ OnceInv' /\ CountInv'
      /\ Counted' = Counted /\ Collected' = Collected
      /\ tasks \subseteq tasks'
      /\ \A a \in tasks' \ tasks : a.child = Guard => a.result = r
      /\ \A c \in Ctx : posts[c] > 0 => posts'[c] > 0
      /\ \A c \in Ctx : Born(c)' = Born(c)
      /\ \A j \in Ops : Stopped(j) => Stopped(j)'
      /\ m_pending'[Joint] \in {r, "done"}
  BY <1>2, <1>5, <1>6, <1>7, ResultStep
<1>9. TypeOK'
  BY <1>1, <1>2, <1>3, <1>5, <1>8 DEF TypeOK
<1>10. \A u \in Threads : ThreadInv(u)'
  <2>1. Stopped(i)'
    <3>1. m_pending[Op(i)] = "done"
      BY <1>3, <1>5, FunctorReady
    <3> QED BY <1>8, <3>1 DEF Stopped
  <2>2. ThreadInv(t)'
    BY <1>1, <1>2, <1>3, <1>4, <1>8, <2>1 DEF ThreadInv
  <2>3. ASSUME NEW u \in Threads \ {t} PROVE ThreadInv(u)'
    BY <1>2, <1>4, <1>8, OthersKept
  <2> QED BY <2>2, <2>3
<1>11. r = "value" => Collected'
  BY <1>1, <1>8 DEF Counts, Collected
<1>12. ValueInv'
  BY <1>3, <1>8, <1>11, ValueKept
<1>13. StopInv'
  BY <1>4 DEF StopInv
<1> QED BY <1>8, <1>9, <1>10, <1>12, <1>13 DEF CompoundInv

\* The next operation is canceled.
LEMMA CancelNextKeeps ==
    ASSUME CompoundInv, NEW t \in Threads, CancelNext(t) PROVE CompoundInv'
<1> USE Names, NullCtxAssumption
<1> SUFFICES ASSUME NEW i, i = Min(left[t]) PROVE CompoundInv'
  OBVIOUS
<1>1. /\ label[t] = "cancel" /\ left[t] # {} /\ Cancel(Op(i))
      /\ left' = [left EXCEPT ![t] = left[t] \ {i}]
      /\ running' = running /\ input' = input /\ loaded' = loaded /\ label' = label
      /\ form' = form /\ res' = res /\ counter' = counter /\ first' = first /\ asked' = asked
  BY DEF CancelNext, sharedVars, historyVars
<1>2. /\ TypeOK /\ LinksInv /\ ThreadInv(t) /\ OnceInv /\ CountInv /\ ValueInv /\ StopInv
      /\ ChainInv
  BY DEF CompoundInv
<1>3. left[t] \in SUBSET Ops
  BY <1>2 DEF TypeOK
<1>4. i \in Ops
  BY <1>1, <1>3, NextLeft
<1>5. /\ Settle(Op(i), "canceled", m_pending, tasks)
      /\ UNCHANGED <<held, aborted, pairVars, form, counter, res>>
  BY <1>1, <1>2, <1>4, CancelOperation
<1>6. Ready(Op(i)) /\ "canceled" \in Results /\ Op(i) \in Ctx /\ Op(i) # Joint
  BY <1>2, <1>4 DEF LinksInv, Ready, Results
<1>7. \A u \in Threads :
         /\ (label[u] = "store" \/ label'[u] = "store") =>
               running'[u] = running[u] /\ label'[u] = label[u] /\ loaded'[u] = loaded[u]
         /\ running'[u] \in {running[u], NoCtx}
         /\ label'[u] = "call" => label[u] = "call"
  BY <1>1
<1>8. /\ ChainInv' /\ ChainTypeOK' /\ LinksInv' /\ OnceInv' /\ CountInv'
      /\ Counted' = Counted /\ Collected' = Collected
      /\ tasks \subseteq tasks'
      /\ \A a \in tasks' \ tasks : a.child # Guard
      /\ \A c \in Ctx : posts[c] > 0 => posts'[c] > 0
      /\ \A c \in Ctx : Born(c)' = Born(c)
      /\ \A j \in Ops : Stopped(j) => Stopped(j)'
      /\ m_pending'[Joint] = m_pending[Joint] /\ Settled' = Settled
      /\ Stopped(i)'
  BY <1>4, <1>5, <1>6, <1>7, ResultStep
<1>9. left'[t] = left[t] \ {i} /\ \A u \in Threads \ {t} : left'[u] = left[u]
  BY <1>1, <1>2 DEF TypeOK
<1>10. TypeOK'
  BY <1>1, <1>2, <1>3, <1>8 DEF TypeOK
<1>11. \A u \in Threads : ThreadInv(u)'
  <2>1. ThreadInv(t)'
    BY <1>1, <1>2, <1>8, <1>9 DEF ThreadInv
  <2>2. ASSUME NEW u \in Threads \ {t} PROVE ThreadInv(u)'
    BY <1>1, <1>8, <1>9, OthersKept
  <2> QED BY <2>1, <2>2
<1>12. ValueInv'
  BY <1>2, <1>8, ValueKept
<1>13. StopInv'
  <2>1. \A u \in Threads : Cancels(u) => Cancels(u)'
    BY <1>1 DEF Cancels
  <2> QED BY <1>2, <1>8, <2>1, StopKept
<1> QED BY <1>8, <1>10, <1>11, <1>12, <1>13 DEF CompoundInv

\* A functor ends and completes its context.
LEMMA ReturnKeeps ==
    ASSUME CompoundInv, NEW t \in Threads, Return(t) PROVE CompoundInv'
<1> USE Names, NullCtxAssumption
<1> SUFFICES ASSUME NEW x, x = running[t],
                    NEW r, r = IF running[t] = Guard THEN input[t] ELSE "value"
             PROVE  CompoundInv'
  OBVIOUS
<1>1. /\ label[t] = "return" \/ (label[t] = "cancel" /\ left[t] = {})
      /\ Settle(x, r, m_pending, tasks)
      /\ running' = [running EXCEPT ![t] = NoCtx]
      /\ input' = [input EXCEPT ![t] = "none"] /\ label' = [label EXCEPT ![t] = "idle"]
      /\ left' = [left EXCEPT ![t] = {}] /\ loaded' = [loaded EXCEPT ![t] = 0]
      /\ UNCHANGED <<held, aborted, pairVars, form, counter, res>>
      /\ form' = form /\ res' = res /\ counter' = counter /\ first' = first /\ asked' = asked
  BY DEF Return, Finish, Goto, sharedVars, historyVars
<1>2. /\ TypeOK /\ LinksInv /\ ThreadInv(t) /\ OnceInv /\ CountInv /\ ValueInv /\ StopInv
      /\ ChainInv
  BY DEF CompoundInv
<1>3. /\ running'[t] = NoCtx /\ label'[t] = "idle"
      /\ \A u \in Threads \ {t} :
           /\ running'[u] = running[u] /\ input'[u] = input[u] /\ label'[u] = label[u]
           /\ left'[u] = left[u] /\ loaded'[u] = loaded[u]
  BY <1>1, <1>2 DEF TypeOK
<1>4. x \in Functors /\ posts[x] > 0 /\ r \in Results /\ x \in Ctx /\ x # Joint
  BY <1>1, <1>2 DEF ThreadInv, Functors, Watches, Results
<1>5. Ready(x)
  BY <1>2, <1>4, FunctorReady
<1>6. \A u \in Threads :
         /\ (label[u] = "store" \/ label'[u] = "store") =>
               running'[u] = running[u] /\ label'[u] = label[u] /\ loaded'[u] = loaded[u]
         /\ running'[u] \in {running[u], NoCtx}
         /\ label'[u] = "call" => label[u] = "call"
  BY <1>1, <1>3
<1>7. /\ ChainInv' /\ ChainTypeOK' /\ LinksInv' /\ OnceInv' /\ CountInv'
      /\ Counted' = Counted /\ Collected' = Collected
      /\ tasks \subseteq tasks'
      /\ \A a \in tasks' \ tasks : a.child # Guard
      /\ \A c \in Ctx : posts[c] > 0 => posts'[c] > 0
      /\ \A c \in Ctx : Born(c)' = Born(c)
      /\ \A j \in Ops : Stopped(j) => Stopped(j)'
      /\ m_pending'[Joint] = m_pending[Joint] /\ Settled' = Settled
  <2>1. /\ CompoundInv /\ x \in Ctx /\ r \in Results
        /\ Settle(x, r, m_pending, tasks) /\ Ready(x)
        /\ UNCHANGED <<held, aborted, pairVars, form, counter, res>>
    BY <1>1, <1>4, <1>5
  <2>2. /\ ChainInv' /\ ChainTypeOK' /\ LinksInv' /\ OnceInv' /\ CountInv'
        /\ Counted' = Counted /\ Collected' = Collected
        /\ tasks \subseteq tasks'
        /\ \A a \in tasks' \ tasks : a.child = Guard => x = Joint /\ a.result = r
        /\ \A c \in Ctx : posts[c] > 0 => posts'[c] > 0
        /\ \A c \in Ctx : Born(c)' = Born(c)
        /\ \A j \in Ops : Stopped(j) => Stopped(j)'
        /\ \A c \in Ctx \ {x} : m_pending'[c] = m_pending[c]
        /\ x # Joint => Settled' = Settled
    BY ONLY <1>6, <2>1, ResultStep
  <2> QED BY <1>4, <2>2
<1>8. TypeOK'
  BY <1>1, <1>2, <1>7, SizeAssumption DEF TypeOK
<1>9. \A u \in Threads : ThreadInv(u)'
  <2>1. ThreadInv(t)'
    <3>1. NoCtx # Joint /\ NoCtx \notin Functors
      OBVIOUS
    <3> QED BY <1>3, <3>1 DEF ThreadInv
  <2>2. ASSUME NEW u \in Threads \ {t} PROVE ThreadInv(u)'
    BY <1>1, <1>3, <1>7, OthersKept
  <2> QED BY <2>1, <2>2
<1>10. ValueInv'
  BY <1>2, <1>7, ValueKept
<1>11. StopInv'
  <2>1. ASSUME NEW u \in Threads \ {t}, Cancels(u) PROVE Cancels(u)'
    BY <1>3, <2>1 DEF Cancels
  <2>2. ASSUME Cancels(t) PROVE \A i \in Ops : Stopped(i)'
    BY <1>1, <1>2, <1>7, <2>2 DEF Cancels, ThreadInv
  <2> QED BY <1>2, <1>7, <2>1, <2>2, StopKept
<1> QED BY <1>7, <1>8, <1>9, <1>10, <1>11 DEF CompoundInv

\* A result that client code gives to an operation, or a cancellation.
LEMMA ClientResultKeeps ==
    ASSUME CompoundInv, NEW x \in Ctx, NEW r \in Results,
           Settle(x, r, m_pending, tasks), Ready(x),
           UNCHANGED <<held, aborted, pairVars>>,
           UNCHANGED <<localVars, sharedVars, first>>, asked' \in BOOLEAN,
           x = Joint => r = "canceled" /\ Born(Guard)
    PROVE  CompoundInv'
<1> USE Names, NullCtxAssumption
<1>1. /\ running' = running /\ input' = input /\ loaded' = loaded /\ label' = label
      /\ left' = left
      /\ form' = form /\ res' = res /\ counter' = counter /\ first' = first
      /\ UNCHANGED pairVars /\ aborted' = aborted
      /\ UNCHANGED <<held, aborted, pairVars, form, counter, res>>
  BY DEF localVars, sharedVars
<1>2. /\ TypeOK /\ LinksInv /\ ValueInv /\ StopInv /\ ChainInv
  BY DEF CompoundInv
<1>3. \A u \in Threads :
         /\ (label[u] = "store" \/ label'[u] = "store") =>
               running'[u] = running[u] /\ label'[u] = label[u] /\ loaded'[u] = loaded[u]
         /\ running'[u] \in {running[u], NoCtx}
         /\ label'[u] = "call" => label[u] = "call"
  BY <1>1
<1>4. /\ ChainInv' /\ ChainTypeOK' /\ LinksInv' /\ OnceInv' /\ CountInv'
      /\ Counted' = Counted /\ Collected' = Collected
      /\ tasks \subseteq tasks'
      /\ \A a \in tasks' \ tasks : a.child = Guard => x = Joint /\ a.result = r
      /\ \A c \in Ctx : posts[c] > 0 => posts'[c] > 0
      /\ \A c \in Ctx : Born(c)' = Born(c)
      /\ \A j \in Ops : Stopped(j) => Stopped(j)'
      /\ \A c \in Ctx \ {x} : m_pending'[c] = m_pending[c]
      /\ m_pending'[x] \in {r, "done"}
      /\ x # Joint => Settled' = Settled
  BY <1>1, <1>3, ResultStep
<1>5. TypeOK'
  BY <1>1, <1>2, <1>4 DEF TypeOK
<1>6. \A u \in Threads : ThreadInv(u)'
  BY <1>1, <1>4, OthersKept
<1>7. ValueInv'
  <2>1. m_pending'[Joint] = "value" => m_pending[Joint] = "value"
    BY <1>4
  <2>2. \A a \in tasks' \ tasks : a.child = Guard => a.result # "value"
    BY <1>4
  <2> QED BY <1>2, <1>4, <2>1, <2>2, ValueKept
<1>8. StopInv'
  <2>1. \A u \in Threads : Cancels(u)' = Cancels(u)
    BY <1>1 DEF Cancels
  <2>2. CASE x # Joint \/ m_pending[Joint] = "done"
    <3>1. Settled' => Settled
      <4>1. CASE x # Joint
        BY <1>4, <4>1
      <4>2. CASE m_pending[Joint] = "done"
        <5>1. OnlySettles
          BY ONLY <1>1, <1>2, SettleEffect, Settle(x, r, m_pending, tasks)
        <5> QED BY <1>1, <4>2, <5>1 DEF OnlySettles, Settled, Results, Done
      <4> QED BY <2>2, <4>1, <4>2
    <3> QED BY <1>2, <1>4, <2>1, <3>1, StopKept
  <2>3. CASE x = Joint /\ m_pending[Joint] # "done"
    <3>1. m_pending[Joint] = "callbacks" /\ r = "canceled"
      BY <1>2, <2>3 DEF LinksInv
    <3>2. callee[Joint] = Guard
      BY <1>2, <3>1, Watched
    <3>3. [child |-> callee[Joint], result |-> r] \in tasks'
      BY <1>1, <1>2, <2>3, <3>1, SettleEffect
    <3> QED BY <3>1, <3>2, <3>3 DEF StopInv
  <2> QED BY <2>2, <2>3
<1> QED BY <1>4, <1>5, <1>6, <1>7, <1>8 DEF CompoundInv

\* abort() of the returned handle, or of an operation.
LEMMA AbortKeeps ==
    ASSUME CompoundInv, NEW h \in Handles, Abort(h),
           UNCHANGED <<localVars, sharedVars, historyVars>>
    PROVE  CompoundInv'
<1> USE Names, NullCtxAssumption
<1>1. /\ running' = running /\ input' = input /\ loaded' = loaded /\ label' = label
      /\ left' = left /\ form' = form /\ res' = res /\ counter' = counter
      /\ first' = first /\ asked' = asked
  BY DEF localVars, sharedVars, historyVars
<1>2. /\ TypeOK /\ LinksInv /\ OnceInv /\ CountInv /\ ValueInv /\ StopInv /\ ChainInv
  BY DEF CompoundInv
<1>3. /\ OnlySettles /\ UNCHANGED <<held, tasks, posts, pairVars>>
      /\ Done(Joint)' \/ m_pending'[Joint] = m_pending[Joint]
      /\ Settled' => Settled
  <2>1. CASE h = Guard
    <3>1. /\ OnlySettles /\ UNCHANGED <<held, tasks, posts, pairVars>> /\ Done(Joint)'
          /\ Joint \in aborted' <=> (Joint \in aborted \/ ~Done(Joint))
      BY <1>2, <2>1, AbortGuard
    <3> QED BY <3>1 DEF Settled, Done, Results
  <2>2. ASSUME NEW i \in Ops, h = Op(i)
        PROVE  /\ OnlySettles /\ UNCHANGED <<held, tasks, posts, pairVars>>
               /\ m_pending'[Joint] = m_pending[Joint]
               /\ Settled' => Settled
    <3>1. Abort(Op(i))
      BY <2>2
    <3>2. /\ OnlySettles /\ UNCHANGED <<held, tasks, posts, pairVars>>
          /\ m_pending'[Joint] = m_pending[Joint] /\ (Joint \in aborted' <=> Joint \in aborted)
      BY ONLY <1>2, <2>2, <3>1, AbortOperation, Names
    <3> QED BY <3>2 DEF Settled, Done
  <2> QED BY <2>1, <2>2 DEF Handles
<1>4. ChainInv' /\ ChainTypeOK'
  <2>1. ChainInv' \/ UNCHANGED chainVars
    BY <1>2, HandleStep DEF Handles
  <2>2. ChainInv'
    BY <1>2, <2>1, StutterStep
  <2> QED BY <2>2 DEF ChainInv
<1>5. /\ tasks' = tasks /\ posts' = posts /\ PostsAtMostOne /\ LinksInv'
      /\ \A c \in Ctx : Born(c)' = Born(c)
      /\ \A i \in Ops : Stopped(i) => Stopped(i)'
  <2>1. LinksInv'
    BY <1>1, <1>2, <1>3, LinksKept
  <2>2. \A c \in Ctx : Born(c)' = Born(c)
    BY <1>3 DEF OnlySettles, Born, Results
  <2> QED BY <1>3, <2>1, <2>2, StaysStopped DEF PostsAtMostOne
<1>6. TypeOK'
  BY <1>1, <1>2, <1>4 DEF TypeOK
<1>7. OnceInv'
  BY <1>1, <1>5, OnceKept
<1>8. CountInv' /\ Counted' = Counted
  BY <1>1, <1>2, CountKept
<1>9. \A u \in Threads : ThreadInv(u)'
  BY <1>1, <1>5, <1>8, OthersKept
<1>10. ValueInv'
  BY <1>1, <1>2, <1>3, <1>5, ValueKept DEF Done, Collected
<1>11. StopInv'
  <2>1. \A u \in Threads : Cancels(u)' = Cancels(u)
    BY <1>1 DEF Cancels
  <2> QED BY <1>2, <1>3, <1>5, <2>1, StopKept
<1> QED BY <1>4, <1>5, <1>6, <1>7, <1>8, <1>9, <1>10, <1>11 DEF CompoundInv

\* Client code.
LEMMA ClientKeeps == ASSUME CompoundInv, Client PROVE CompoundInv'
<1> USE Names, NullCtxAssumption
<1>1. /\ ChainInv /\ LinksInv /\ asked \in BOOLEAN
      /\ \A i \in Ops : Ready(Op(i))
      /\ Ready(Joint)
  BY DEF CompoundInv, TypeOK, LinksInv, Ready
<1>2. "canceled" \in Results /\ Returned \subseteq Results
  BY ReturnedAssumption DEF Results
<1>3. ASSUME NEW i \in Ops, NEW r \in Returned, AsyncReturn(Op(i), r), UNCHANGED asked,
             UNCHANGED <<localVars, sharedVars, first>>
      PROVE  CompoundInv'
  <2>1. /\ Settle(Op(i), r, m_pending, tasks) /\ UNCHANGED <<held, aborted, pairVars>>
        /\ asked' \in BOOLEAN /\ r \in Results
    BY <1>1, <1>2, <1>3 DEF AsyncReturn
  <2> QED BY <1>1, <1>3, <2>1, ClientResultKeeps
<1>4. ASSUME NEW i \in Ops, Cancel(Op(i)), asked' = TRUE,
             UNCHANGED <<localVars, sharedVars, first>>
      PROVE  CompoundInv'
  <2>1. Settle(Op(i), "canceled", m_pending, tasks) /\ UNCHANGED <<held, aborted, pairVars>>
    BY <1>1, <1>4, CancelOperation
  <2> QED BY <1>1, <1>2, <1>4, <2>1, ClientResultKeeps
<1>5. ASSUME Cancel(Guard), asked' = TRUE, UNCHANGED <<localVars, sharedVars, first>>
      PROVE  CompoundInv'
  <2>1. Born(Guard) /\ UNCHANGED <<held, aborted, pairVars>>
    BY <1>1, <1>5, CancelGuard
  <2>2. PICK x \in {Joint, Guard} : /\ Settle(x, "canceled", m_pending, tasks)
                                    /\ x = Guard => Done(Joint)
    BY <1>1, <1>5, CancelGuard
  <2>3. m_parent[Guard] \in {NoCtx, Joint}
    BY <1>1 DEF LinksInv
  <2>4. Ready(x) /\ x \in Ctx
    BY <1>1, <2>2, <2>3 DEF Ready
  <2>5. Settle(x, "canceled", m_pending, tasks) /\ asked' \in BOOLEAN
    BY <1>5, <2>2
  <2> QED BY ONLY CompoundInv, <1>2, <1>5, <2>1, <2>4, <2>5, ClientResultKeeps
<1>6. ASSUME NEW h \in Handles, Abort(h), UNCHANGED asked,
             UNCHANGED <<localVars, sharedVars, first>>
      PROVE  CompoundInv'
  BY <1>6, AbortKeeps DEF historyVars
<1> QED BY <1>3, <1>4, <1>5, <1>6 DEF Client, Handles

\* What attaching a watching functor does.
LEMMA AttachEffect ==
    ASSUME CompoundInv, NEW x \in Ctx, NEW child \in Functors,
           Born(x), Attach(x, child, "then_both", NoCtx, tasks), UNCHANGED <<held, aborted>>
    PROVE  /\ ChainInv' /\ ChainTypeOK' /\ PostsAtMostOne
           /\ m_pending[child] = "unborn" /\ x # child
           /\ m_parent' = [m_parent EXCEPT ![child] = x]
           /\ kind' = [kind EXCEPT ![child] = "then_both"]
           /\ \A c \in Ctx \ {x, child} : m_pending'[c] = m_pending[c]
           /\ m_pending'[child] = "empty"
           /\ m_pending'[x] \in {"callbacks", "done"}
           /\ (m_pending'[x] = "done") <=> (m_pending[x] \in {"done"} \cup Results)
           /\ \A a \in tasks' \ tasks : a = [child |-> child, result |-> m_pending[x]]
           /\ tasks \subseteq tasks'
           /\ \A c \in Ctx : posts[c] > 0 => posts'[c] > 0
<1> USE Names, NullCtxAssumption
<1>1. ChainInv /\ LinksInv /\ child \in Ctx
  BY DEF CompoundInv
<1>2. /\ m_pending \in [Ctx -> States] /\ posts \in [Ctx -> Nat]
      /\ m_pending[child] = "unborn" /\ x # child /\ m_pending[x] # "unborn"
  BY <1>1 DEF ChainInv, ChainTypeOK, States, Attach, Born
<1>3. posts[child] = 0
  BY <1>1, <1>2 DEF ChainInv, Linked, Born
<1>4. /\ m_parent' = [m_parent EXCEPT ![child] = x]
      /\ kind' = [kind EXCEPT ![child] = "then_both"]
  BY DEF Attach
<1>5. ChainInv' /\ ChainTypeOK'
  <2>1. Handle(x) /\ "then_both" \in Kinds /\ tasks \subseteq tasks
    BY <1>1 DEF LinksInv, Handle, Kinds
  <2>2. ChainInv'
    BY <1>1, <2>1, AttachStep
  <2> QED BY <2>2 DEF ChainInv
<1> DEFINE pend == [m_pending EXCEPT ![child] = "empty"]
<1>6. SetContinuation(x, child, pend, tasks)
  BY DEF Attach
<1>7. /\ pend \in [Ctx -> States] /\ pend[child] = "empty" /\ pend[x] = m_pending[x]
      /\ \A c \in Ctx \ {child} : pend[c] = m_pending[c]
  BY <1>1, <1>2 DEF States
<1> HIDE DEF pend
<1>8. CASE pend[x] \in Results
  <2>1. /\ m_pending' = [pend EXCEPT ![x] = "done"]
        /\ tasks' = tasks \cup {[child |-> child, result |-> pend[x]]}
        /\ posts' = [posts EXCEPT ![child] = @ + 1]
    BY <1>6, <1>8 DEF SetContinuation, Post, Results
  <2>2. PostsFunctor(child, pend[x])
    BY <1>1, <1>2, <1>3, <2>1 DEF PostsFunctor
  <2>3. PostsAtMostOne
    BY <1>8, <2>2 DEF PostsAtMostOne
  <2>4. \A c \in Ctx : posts[c] > 0 => posts'[c] > 0
    BY <1>2, <1>3, <2>1
  <2> QED BY <1>2, <1>4, <1>5, <1>7, <1>8, <2>1, <2>3, <2>4
<1>9. CASE pend[x] \notin Results
  <2>1. /\ \/ pend[x] = "done" /\ m_pending' = pend
           \/ pend[x] \in {"empty", "callbacks"} /\ m_pending' = [pend EXCEPT ![x] = "callbacks"]
        /\ tasks' = tasks /\ posts' = posts
    BY <1>6, <1>9 DEF SetContinuation
  <2> QED BY <1>2, <1>4, <1>5, <1>7, <1>9, <2>1 DEF PostsAtMostOne, Results
<1> QED BY <1>8, <1>9

\* The functor of Joint watches the next operation, or add_cancel() watches Joint.
LEMMA AttachWatchKeeps ==
    ASSUME CompoundInv, NEW t \in Threads, AttachWatch(t) PROVE CompoundInv'
<1> USE Names, NullCtxAssumption
<1>1. /\ label[t] = "attach" /\ UNCHANGED <<held, aborted>>
      /\ held' = held /\ aborted' = aborted
      /\ form' = form /\ res' = res /\ counter' = counter /\ first' = first /\ asked' = asked
  BY DEF AttachWatch, sharedVars, historyVars
<1>2. /\ TypeOK /\ LinksInv /\ ThreadInv(t) /\ OnceInv /\ CountInv /\ ValueInv /\ StopInv
      /\ ChainInv
  BY DEF CompoundInv
<1>3. /\ running[t] = Joint /\ form # "none" /\ ~Born(Guard)
      /\ \A i \in Ops : Born(Watch(i)) <=> i \notin left[t]
      /\ Born(Joint) /\ \A i \in Ops : Born(Op(i))
      /\ left[t] \in SUBSET Ops
  BY <1>1, <1>2 DEF ThreadInv, LinksInv, TypeOK
<1>4. \A u \in Threads \ {t} : label[u] # "attach"
  BY <1>1, <1>2, <1>3 DEF CompoundInv, ThreadInv, OnceInv, Idle
<1>5. /\ m_pending \in [Ctx -> States] /\ kind \in [Ctx -> Kinds]
      /\ m_parent \in [Ctx -> Ctx \cup {NoCtx}]
  BY <1>2 DEF ChainInv, ChainTypeOK, States
<1>6. CASE left[t] # {}
  <2> SUFFICES ASSUME NEW i, i = Min(left[t]) PROVE CompoundInv'
    OBVIOUS
  <2>1. /\ Attach(Op(i), Watch(i), "then_both", NoCtx, tasks)
        /\ left' = [left EXCEPT ![t] = left[t] \ {i}]
        /\ running' = running /\ input' = input /\ label' = label /\ loaded' = loaded
    BY <1>6 DEF AttachWatch
  <2>2. i \in left[t] /\ i \in Ops /\ Watch(i) \in Functors
    BY <1>3, <1>6, NextLeft DEF Functors, Watches
  <2>3. /\ ChainInv' /\ ChainTypeOK' /\ PostsAtMostOne
        /\ m_parent' = [m_parent EXCEPT ![Watch(i)] = Op(i)]
        /\ kind' = [kind EXCEPT ![Watch(i)] = "then_both"]
        /\ \A c \in Ctx \ {Op(i), Watch(i)} : m_pending'[c] = m_pending[c]
        /\ m_pending'[Watch(i)] = "empty"
        /\ m_pending'[Op(i)] \in {"callbacks", "done"}
        /\ (m_pending'[Op(i)] = "done") <=> (m_pending[Op(i)] \in {"done"} \cup Results)
        /\ \A a \in tasks' \ tasks : a = [child |-> Watch(i), result |-> m_pending[Op(i)]]
        /\ tasks \subseteq tasks'
        /\ \A c \in Ctx : posts[c] > 0 => posts'[c] > 0
    BY <1>1, <1>3, <2>1, <2>2, AttachEffect
  <2>4. left'[t] = left[t] \ {i} /\ \A u \in Threads \ {t} : left'[u] = left[u]
    BY <1>2, <2>1 DEF TypeOK
  <2>5. /\ \A c \in Ctx \ {Watch(i)} : Born(c)' <=> Born(c)
        /\ Born(Watch(i))'
        /\ \A j \in Ops : Stopped(j) => Stopped(j)'
        /\ m_pending'[Joint] = m_pending[Joint] /\ Settled' = Settled
    <3>1. m_pending'[Joint] = m_pending[Joint]
      BY <2>2, <2>3
    <3>2. \A c \in Ctx \ {Watch(i)} : Born(c)' <=> Born(c)
      BY <1>3, <2>2, <2>3 DEF Born
    <3> QED BY <1>1, <2>2, <2>3, <3>1, <3>2 DEF Born, Stopped, Settled, Done
  <2>6. TypeOK'
    BY <1>1, <1>2, <1>3, <2>1, <2>3 DEF TypeOK
  <2>7. LinksInv'
    <3>1. (\A c \in Ctx : \/ m_parent[c] = NoCtx
                          \/ \E j \in Ops : c = Watch(j) /\ m_parent[c] = Op(j)
                          \/ c = Guard /\ m_parent[c] = Joint)'
      BY <1>2, <1>5, <2>2, <2>3 DEF LinksInv
    <3>2. (\A c \in Functors : Born(c) => m_parent[c] # NoCtx)'
      BY <1>2, <1>5, <2>2, <2>3, <2>5 DEF LinksInv
    <3>3. (\A c \in Ctx : kind[c] # "forward")'
      BY <1>2, <1>5, <2>2, <2>3 DEF LinksInv
    <3>4. (form # "none" => Born(Joint) /\ \A j \in Ops : Born(Op(j)))'
      BY <1>3, <2>2, <2>5
    <3>5. (\A j \in Ops : Born(Watch(j)) => m_pending[Op(j)] \in {"callbacks", "done"})'
      <4>1. ASSUME NEW j \in Ops, j # i
            PROVE  (Born(Watch(j)) => m_pending[Op(j)] \in {"callbacks", "done"})'
        BY <1>2, <2>2, <2>3, <2>5, <4>1 DEF LinksInv
      <4> QED BY <2>3, <4>1
    <3>6. ~Born(Guard)'
      BY <1>3, <2>2, <2>5
    <3> QED BY <1>1, <1>3, <3>1, <3>2, <3>3, <3>4, <3>5, <3>6 DEF LinksInv
  <2>8. OnceInv'
    BY <1>1, <2>1, <2>3, OnceKept
  <2>9. CountInv' /\ Counted' = Counted
    BY <1>1, <1>2, <2>1, CountKept
  <2>10. \A u \in Threads : ThreadInv(u)'
    <3>1. ThreadInv(t)'
      <4>1. /\ ~Born(Guard)' /\ \A j \in Ops : Born(Watch(j))' <=> j \notin left'[t]
        BY <1>3, <2>2, <2>4, <2>5
      <4>2. Joint # NoCtx /\ Joint \notin Functors
        BY DEF Functors, Watches
      <4>3. running'[t] = Joint /\ label'[t] = "attach" /\ form' # "none"
        BY <1>1, <1>3, <2>1
      <4> QED BY <4>1, <4>2, <4>3 DEF ThreadInv
    <3>2. ASSUME NEW u \in Threads \ {t} PROVE ThreadInv(u)'
      BY <1>1, <1>4, <2>1, <2>3, <2>4, <2>5, <2>9, OthersKept
    <3> QED BY <3>1, <3>2
  <2>11. ValueInv'
    BY <1>1, <1>2, <2>2, <2>3, <2>5, ValueKept DEF Collected
  <2>12. StopInv'
    <3>1. \A u \in Threads : Cancels(u)' = Cancels(u)
      BY <2>1 DEF Cancels
    <3> QED BY <1>2, <2>3, <2>5, <3>1, StopKept
  <2> QED BY <2>3, <2>6, <2>7, <2>8, <2>9, <2>10, <2>11, <2>12 DEF CompoundInv
<1>7. CASE left[t] = {}
  <2>1. /\ Attach(Joint, Guard, "then_both", NoCtx, tasks)
        /\ running' = [running EXCEPT ![t] = NoCtx]
        /\ input' = [input EXCEPT ![t] = "none"] /\ label' = [label EXCEPT ![t] = "idle"]
        /\ left' = [left EXCEPT ![t] = {}] /\ loaded' = [loaded EXCEPT ![t] = 0]
    BY <1>7 DEF AttachWatch, Finish, Goto
  <2>2. Guard \in Functors
    BY DEF Functors
  <2>3. /\ ChainInv' /\ ChainTypeOK' /\ PostsAtMostOne
        /\ m_parent' = [m_parent EXCEPT ![Guard] = Joint]
        /\ kind' = [kind EXCEPT ![Guard] = "then_both"]
        /\ \A c \in Ctx \ {Joint, Guard} : m_pending'[c] = m_pending[c]
        /\ m_pending'[Guard] = "empty"
        /\ m_pending'[Joint] \in {"callbacks", "done"}
        /\ (m_pending'[Joint] = "done") <=> (m_pending[Joint] \in {"done"} \cup Results)
        /\ \A a \in tasks' \ tasks : a = [child |-> Guard, result |-> m_pending[Joint]]
        /\ tasks \subseteq tasks'
        /\ \A c \in Ctx : posts[c] > 0 => posts'[c] > 0
    BY <1>1, <1>3, <2>1, <2>2, AttachEffect
  <2>4. /\ running'[t] = NoCtx /\ label'[t] = "idle"
        /\ \A u \in Threads \ {t} :
             /\ running'[u] = running[u] /\ input'[u] = input[u] /\ label'[u] = label[u]
             /\ left'[u] = left[u] /\ loaded'[u] = loaded[u]
    BY <1>2, <2>1 DEF TypeOK
  <2>5. /\ \A c \in Ctx \ {Guard} : Born(c)' <=> Born(c)
        /\ Born(Guard)'
        /\ \A j \in Ops : Stopped(j)' = Stopped(j)
        /\ Settled' => Settled
    <3>1. \A c \in Ctx \ {Guard} : Born(c)' <=> Born(c)
      BY <1>3, <2>3 DEF Born
    <3>2. \A j \in Ops : Stopped(j)' = Stopped(j)
      BY <2>3 DEF Stopped
    <3>3. Settled' => Settled
      BY <1>1, <2>3 DEF Settled, Done, Results
    <3> QED BY <2>3, <3>1, <3>2, <3>3 DEF Born
  <2>6. TypeOK'
    BY <1>1, <1>2, <1>3, <2>1, <2>3, SizeAssumption DEF TypeOK
  <2>7. LinksInv'
    <3>1. (\A c \in Ctx : \/ m_parent[c] = NoCtx
                          \/ \E j \in Ops : c = Watch(j) /\ m_parent[c] = Op(j)
                          \/ c = Guard /\ m_parent[c] = Joint)'
      BY <1>2, <1>5, <2>2, <2>3 DEF LinksInv
    <3>2. (\A c \in Functors : Born(c) => m_parent[c] # NoCtx)'
      BY <1>2, <1>5, <2>2, <2>3, <2>5 DEF LinksInv
    <3>3. (\A c \in Ctx : kind[c] # "forward")'
      BY <1>2, <1>5, <2>2, <2>3 DEF LinksInv
    <3>4. (form # "none" => Born(Joint) /\ \A j \in Ops : Born(Op(j)))'
      BY <1>3, <2>2, <2>5
    <3>5. (\A j \in Ops : Born(Watch(j)) => m_pending[Op(j)] \in {"callbacks", "done"})'
      BY <1>2, <2>3, <2>5 DEF LinksInv
    <3>6. (\A j \in Ops : Born(Watch(j)))'
      BY <1>3, <1>7, <2>5
    <3> QED BY <1>1, <1>3, <2>3, <3>1, <3>2, <3>3, <3>4, <3>5, <3>6 DEF LinksInv
  <2>8. OnceInv'
    <3>1. \A u \in Threads : /\ running'[u] \in {running[u], NoCtx}
                             /\ label'[u] = "call" => label[u] = "call"
      BY <2>4
    <3> QED BY <1>1, <2>3, <3>1, OnceKept
  <2>9. CountInv' /\ Counted' = Counted
    <3>1. \A u \in Threads : (label[u] = "store" \/ label'[u] = "store") =>
               running'[u] = running[u] /\ label'[u] = label[u] /\ loaded'[u] = loaded[u]
      BY <1>1, <2>4
    <3> QED BY <1>1, <1>2, <3>1, CountKept
  <2>10. \A u \in Threads : ThreadInv(u)'
    <3>1. ThreadInv(t)'
      <4>1. NoCtx # Joint /\ NoCtx \notin Functors
        OBVIOUS
      <4> QED BY <2>4, <4>1 DEF ThreadInv
    <3>2. ASSUME NEW u \in Threads \ {t} PROVE ThreadInv(u)'
      BY <1>1, <1>4, <2>3, <2>4, <2>5, <2>9, OthersKept
    <3> QED BY <3>1, <3>2
  <2>11. ValueInv'
    BY <1>1, <1>2, <2>3, ValueKept DEF ValueInv, Collected
  <2>12. StopInv'
    <3>1. ASSUME NEW u \in Threads, Cancels(u) PROVE Cancels(u)'
      BY <1>1, <1>3, <2>4, <3>1 DEF Cancels
    <3> QED BY <1>2, <2>3, <2>5, <3>1, StopKept
  <2> QED BY <2>3, <2>6, <2>7, <2>8, <2>9, <2>10, <2>11, <2>12 DEF CompoundInv
<1> QED BY <1>6, <1>7

\* The contexts of the operations and Joint are constructed.
LEMMA StartKeeps ==
    ASSUME CompoundInv, NEW t \in Threads, NEW f \in Forms, Start(t, f) PROVE CompoundInv'
<1> USE Names, NullCtxAssumption
<1>1. PICK r \in [Ops -> {"empty"} \cup Returned] :
        /\ m_pending' = [c \in Ctx |-> CASE c \in {Op(i) : i \in Ops} -> r[c[2]]
                                        [] c = Joint -> "empty"
                                        [] OTHER     -> m_pending[c]]
        /\ held' = {Op(i) : i \in {j \in Ops : r[j] = "empty"}}
  BY DEF Start
<1>2. /\ form = "none" /\ form' = f /\ f \in {"when_all", "when_success", "when_any"}
      /\ running' = [running EXCEPT ![t] = Joint] /\ input' = [input EXCEPT ![t] = "none"]
      /\ label' = [label EXCEPT ![t] = "attach"] /\ left' = [left EXCEPT ![t] = Ops]
      /\ loaded' = loaded /\ tasks' = tasks /\ posts' = posts /\ aborted' = aborted
      /\ callee' = callee /\ m_parent' = m_parent /\ kind' = kind /\ outer' = outer
      /\ counter' = counter /\ res' = res /\ first' = first /\ asked' = asked
  BY FormsAssumption DEF Start, Begin, Goto, pairVars, historyVars
<1>3. /\ TypeOK /\ LinksInv /\ OnceInv /\ CountInv /\ ValueInv /\ StopInv /\ ChainInv
      /\ \A u \in Threads : ThreadInv(u)
  BY DEF CompoundInv
<1>4. /\ \A c \in Ctx : /\ m_pending[c] = "unborn" /\ m_parent[c] = NoCtx /\ posts[c] = 0
                        /\ kind[c] = "root"
      /\ aborted = {} /\ tasks = {}
  <2>1. \A c \in Ctx : m_pending[c] = "unborn"
    BY <1>2, <1>3 DEF LinksInv, Born
  <2>2. \A c \in Ctx : m_parent[c] = NoCtx /\ posts[c] = 0 /\ kind[c] = "root"
    BY <1>3, <2>1 DEF ChainInv, Linked, Born
  <2>3. aborted = {} /\ tasks = {}
    BY <1>3, <2>1, <2>2 DEF ChainInv, ChainTypeOK, Completable, Done, Tasks
  <2> QED BY <2>1, <2>2, <2>3
<1>5. /\ \A i \in Ops : m_pending'[Op(i)] = r[i]
      /\ m_pending'[Joint] = "empty"
      /\ \A c \in Ctx : (c # Joint /\ \A i \in Ops : c # Op(i)) => m_pending'[c] = "unborn"
      /\ m_pending' \in [Ctx -> {"unborn", "empty", "value", "error"}]
  <2>1. \A i \in Ops : m_pending'[Op(i)] = r[i]
    BY <1>1
  <2>2. m_pending'[Joint] = "empty"
    BY <1>1
  <2>3. \A c \in Ctx : (c # Joint /\ \A i \in Ops : c # Op(i)) => m_pending'[c] = "unborn"
    BY <1>1, <1>4
  <2>4. \A i \in Ops : r[i] \in {"empty", "value", "error"}
    BY ReturnedAssumption
  <2>5. m_pending' = [c \in Ctx |-> m_pending'[c]]
    BY <1>1
  <2>6. \A c \in Ctx : m_pending'[c] \in {"unborn", "empty", "value", "error"}
    BY <2>1, <2>2, <2>3, <2>4
  <2> QED BY <2>1, <2>2, <2>3, <2>5, <2>6
<1>6. held' \subseteq Ctx /\ \A c \in held' : m_pending'[c] = "empty"
  BY <1>1, <1>5
<1>7. ChainTypeOK'
  BY <1>2, <1>3, <1>5, <1>6 DEF ChainInv, ChainTypeOK, Results
<1>8. ChainInv'
  <2>1. Linked' /\ Completable'
    BY <1>2, <1>4, <1>5, <1>6 DEF Linked, Completable, Born, Ready, Done
  <2>2. DeliveredOnce' /\ ResultDelivered' /\ AbortSilences' /\ ParentFirst'
    BY <1>2, <1>4, <1>5 DEF DeliveredOnce, ResultDelivered, AbortSilences, ParentFirst, Done
  <2> QED BY <1>2, <1>4, <1>7, <2>1, <2>2 DEF ChainInv
<1>9. TypeOK'
  BY <1>2, <1>3, <1>7 DEF TypeOK
<1>10. LinksInv'
  <2>1. \A i \in Ops : ~Born(Watch(i))' /\ Born(Op(i))'
    <3>1. \A i \in Ops : m_pending'[Watch(i)] = "unborn"
      BY <1>5
    <3>2. \A i \in Ops : r[i] # "unborn"
      BY ReturnedAssumption
    <3> QED BY <1>5, <3>1, <3>2 DEF Born
  <2>2. ~Born(Guard)' /\ Born(Joint)'
    BY <1>5 DEF Born
  <2>3. \A c \in Functors : ~Born(c)'
    BY <2>1, <2>2 DEF Functors, Watches
  <2> QED BY <1>2, <1>4, <2>1, <2>2, <2>3 DEF LinksInv
<1>11. \A u \in Threads : running[u] = NoCtx /\ label[u] = "idle"
  <2>1. \A c \in Functors : posts[c] = 0
    BY <1>4
  <2> QED BY <1>2, <1>3, <2>1 DEF ThreadInv
<1>12. \A i \in Ops : res[i] = "none"
  <2>1. \A i \in Ops : posts[Watch(i)] = 0
    BY <1>4
  <2> QED BY <1>3, <2>1 DEF OnceInv
<1>13. /\ running'[t] = Joint /\ label'[t] = "attach" /\ left'[t] = Ops
       /\ \A u \in Threads \ {t} : running'[u] = NoCtx /\ label'[u] = "idle"
  BY <1>2, <1>3, <1>11 DEF TypeOK
<1>14. \A u \in Threads : ThreadInv(u)'
  <2>1. Joint \notin Functors /\ NoCtx \notin Functors /\ NoCtx # Joint
    BY DEF Functors, Watches
  <2>2. ThreadInv(t)'
    <3>1. ~Born(Guard)' /\ \A i \in Ops : ~Born(Watch(i))'
      BY <1>5 DEF Born
    <3> QED BY <1>2, <1>13, <2>1, <3>1 DEF ThreadInv
  <2>3. ASSUME NEW u \in Threads \ {t} PROVE ThreadInv(u)'
    BY <1>13, <2>1 DEF ThreadInv
  <2> QED BY <2>2, <2>3
<1>15. OnceInv'
  BY <1>2, <1>4, <1>12, <1>13 DEF OnceInv, Idle
<1>16. CountInv'
  <2>1. \A u \in Threads : label[u] # "store" /\ label'[u] # "store"
    BY <1>11, <1>13
  <2> QED BY <1>2, <1>3, <2>1, CountKept
<1>17. ValueInv'
  BY <1>2, <1>4, <1>5 DEF ValueInv
<1>18. StopInv'
  BY <1>5 DEF StopInv, Settled, Done, Results
<1> QED BY <1>8, <1>9, <1>10, <1>14, <1>15, <1>16, <1>17, <1>18 DEF CompoundInv

\* Before the first call.
LEMMA InitCompound == Init => CompoundInv
<1> SUFFICES ASSUME Init PROVE CompoundInv
  OBVIOUS
<1> USE Names, NullCtxAssumption
<1>1. ChainInv /\ ChainTypeOK
  BY InitInv DEF Init, ChainInv
<1>2. N \in Nat /\ 0 \in 0 .. N /\ N \in 0 .. N
  BY SizeAssumption
<1>3. TypeOK
  BY <1>1, <1>2 DEF Init, TypeOK
<1>4. LinksInv
  BY DEF Init, ChainInit, LinksInv, Born
<1>5. \A t \in Threads : ThreadInv(t)
  BY DEF Init, ThreadInv
<1>6. OnceInv
  BY DEF Init, ChainInit, OnceInv, Idle
<1>7. CountInv
  <2>1. Counted = {}
    BY DEF Init, Counted
  <2> QED BY <1>2, <2>1, FS_EmptySet DEF Init, CountInv
<1>8. ValueInv /\ StopInv
  BY DEF Init, ChainInit, ValueInv, StopInv, Settled, Done, Results
<1> QED BY <1>1, <1>3, <1>4, <1>5, <1>6, <1>7, <1>8 DEF CompoundInv

\* A step of the compound operations keeps their invariant.
LEMMA CompoundStep == ASSUME CompoundInv, [Next]_compoundVars PROVE CompoundInv'
<1>1. ASSUME NEW t \in Threads, NEW f \in Forms, Start(t, f) PROVE CompoundInv'
  BY <1>1, StartKeeps
<1>2. ASSUME NEW t \in Threads, NEW task \in tasks, Take(t, task) PROVE CompoundInv'
  BY <1>2, TakeKeeps
<1>3. ASSUME NEW t \in Threads, Body(t) PROVE CompoundInv'
  BY <1>3, AttachWatchKeeps, CountResultKeeps, StoreCounterKeeps, SettleCountedKeeps,
     SettleEarlyKeeps, GuardResultKeeps, CancelNextKeeps, ReturnKeeps DEF Body
<1>4. CASE Client
  BY <1>4, ClientKeeps
<1>5. CASE UNCHANGED compoundVars
  <2>1. /\ UNCHANGED chainVars /\ form' = form /\ counter' = counter /\ res' = res
        /\ running' = running /\ input' = input /\ label' = label /\ left' = left
        /\ loaded' = loaded /\ first' = first /\ asked' = asked
    BY <1>5 DEF compoundVars, localVars, sharedVars, historyVars
  <2>2. /\ ChainInv' /\ LinksInv' /\ ChainTypeOK' /\ PostsAtMostOne /\ Settled' = Settled
        /\ tasks' = tasks /\ posts' = posts /\ m_pending' = m_pending
        /\ \A i \in Ops : Stopped(i)' = Stopped(i)
        /\ \A c \in Ctx : Born(c)' = Born(c)
    BY <2>1, LocalStep
  <2>3. TypeOK' /\ OnceInv' /\ CountInv' /\ Counted' = Counted
    BY <2>1, <2>2, OnceKept, CountKept DEF CompoundInv, TypeOK
  <2>4. \A t \in Threads : ThreadInv(t)'
    BY <2>1, <2>2, <2>3, OthersKept
  <2>5. ValueInv' /\ StopInv'
    BY <2>1, <2>2 DEF CompoundInv, ValueInv, StopInv, Collected
  <2> QED BY <2>2, <2>3, <2>4, <2>5 DEF CompoundInv
<1> QED BY <1>1, <1>2, <1>3, <1>4, <1>5 DEF Next

\* CompoundInv is an invariant, for any number of operations and of threads.
THEOREM CompoundInvariant == Spec => []CompoundInv
<1>1. CompoundInv /\ [Next]_compoundVars => CompoundInv'
  BY CompoundStep
<1> QED BY InitCompound, <1>1, PTL DEF Spec

\* Type correctness of the compound operations.
THEOREM CompoundTypes == Spec => []TypeOK
<1>1. CompoundInv => TypeOK
  BY DEF CompoundInv
<1> QED BY <1>1, CompoundInvariant, PTL

\* The chains that a compound operation builds deliver as every chain does, also when the
\* methods of their contexts are called from several threads.
THEOREM CompoundDelivers ==
    Spec => [](DeliveredOnce /\ ResultDelivered /\ AbortSilences /\ ParentFirst)
<1>1. CompoundInv => DeliveredOnce /\ ResultDelivered /\ AbortSilences /\ ParentFirst
  BY DEF CompoundInv, ChainInv
<1> QED BY <1>1, CompoundInvariant, PTL

\* A success of when_all() or when_success() is complete, also when threads lose
\* decrements of the counter.
THEOREM SuccessIsComplete == Spec => []CollectsAll
<1>1. CompoundInv => CollectsAll
  BY DEF CompoundInv, ValueInv, Collected, CollectsAll
<1> QED BY <1>1, CompoundInvariant, PTL

\* Once the result is delivered and every functor has run, no operation is unfinished,
\* for any number of operations and threads.
THEOREM NoneIsLeftRunning == Spec => []NothingLeftRunning
<1>1. ASSUME CompoundInv, Done(Joint), Joint \notin aborted, Quiescent, NEW i \in Ops
      PROVE  Done(Op(i))
  <2> USE <1>1, Names, NullCtxAssumption
  <2>1. \A t \in Threads : label[t] = "idle" /\ running[t] = NoCtx
    BY DEF Quiescent, Idle, CompoundInv, ThreadInv
  <2>2. Stopped(i)
    BY <2>1 DEF Quiescent, CompoundInv, StopInv, Settled
  <2>3. PICK c \in Ctx : m_parent[c] = Joint /\ posts[c] = 1
    BY DEF CompoundInv, ChainInv, ResultDelivered
  <2>4. c = Guard
    BY <2>3 DEF CompoundInv, LinksInv
  <2>5. Born(Guard)
    BY <2>3, <2>4 DEF CompoundInv, ChainInv, Linked
  <2>6. m_pending[Op(i)] \in {"callbacks", "done"}
    BY <2>5 DEF CompoundInv, LinksInv
  <2> QED BY <2>2, <2>6 DEF Stopped, Done, Results
<1>2. CompoundInv => NothingLeftRunning
  BY <1>1 DEF NothingLeftRunning
<1> QED BY <1>2, CompoundInvariant, PTL

-----------------------------------------------------------------------------
(* One thread.                                                             *)

\* A step that neither runs a functor to its end nor stores or counts a result.
LEMMA ReturnKept ==
    ASSUME CompoundInv, ReturnInv, PostsAtMostOne,
           form' = form, res' = res, counter' = counter,
           \A i \in Ops : Finished(Watch(i))' => Finished(Watch(i)),
           Finished(Joint) => Finished(Joint)',
           \A t \in Threads :
              /\ (label[t] = "store" \/ label'[t] = "store") =>
                    running'[t] = running[t] /\ label'[t] = label[t] /\ loaded'[t] = loaded[t]
              /\ label[t] = "settle" => (label'[t] = "settle" \/ Finished(Joint)')
              /\ running'[t] \in {running[t], NoCtx}
              /\ (running'[t] \in Watches /\ form = "when_all" /\ label'[t] # "call") =>
                    label[t] # "call"
    PROVE  ReturnInv'
<1> USE Names, NullCtxAssumption
<1>1. /\ \A c \in Ctx : posts[c] > 0 => posts'[c] > 0
      /\ \A a \in tasks' \ tasks : posts[a.child] = 0
  BY DEF PostsAtMostOne, PostsFunctor, CompoundInv, ChainInv, ChainTypeOK
<1>2. ASSUME NEW i \in Ops, Finished(Watch(i))'
      PROVE  /\ posts'[Watch(i)] > 0
             /\ \A a \in tasks' : a.child # Watch(i)
             /\ \A t \in Threads : running'[t] # Watch(i)
             /\ form' = "when_all" => res'[i] # "none"
  <2>1. /\ posts[Watch(i)] > 0
        /\ \A a \in tasks : a.child # Watch(i)
        /\ \A t \in Threads : running[t] # Watch(i)
        /\ form = "when_all" => res[i] # "none"
    BY <1>2 DEF ReturnInv
  <2>2. \A a \in tasks' : a.child # Watch(i)
    BY <1>1, <2>1
  <2> QED BY <1>1, <2>1, <2>2
<1>3. ASSUME NEW t \in Threads, NEW i \in Ops,
             running'[t] = Watch(i), form' = "when_all", label'[t] # "call"
      PROVE  res'[i] # "none"
  BY <1>3 DEF ReturnInv, Watches
<1>4. counter' = 0 => (Finished(Joint)' \/ \E t \in Threads : label'[t] = "settle")
  BY DEF ReturnInv
<1>5. Counted' = Counted
  BY CountKept DEF CompoundInv
<1>6. counter' = N - Cardinality(Counted')
  BY <1>5 DEF ReturnInv
<1>7. \A t \in Threads : label'[t] = "store" => loaded'[t] = counter'
  BY DEF ReturnInv
<1> QED BY <1>2, <1>3, <1>4, <1>6, <1>7 DEF ReturnInv

\* A result for a context that does not watch an operation.
LEMMA OthersFinish ==
    ASSUME CompoundInv, NEW x \in Ctx, NEW r \in Results,
           Settle(x, r, m_pending, tasks), UNCHANGED pairVars, x \notin Watches
    PROVE  /\ PostsAtMostOne
           /\ \A i \in Ops : Finished(Watch(i))' => Finished(Watch(i))
           /\ Finished(Joint) => Finished(Joint)'
           /\ x = Joint => Finished(Joint)'
<1> USE Names
<1>1. ChainInv /\ LinksInv
  BY DEF CompoundInv
<1>2. /\ OnlySettles /\ PostsAtMostOne
      /\ Born(x) /\ m_pending'[x] \in {r, "done"}
      /\ \A c \in Ctx \ {x} : m_pending'[c] = m_pending[c]
  BY ONLY <1>1, SettleEffect, Settle(x, r, m_pending, tasks), UNCHANGED pairVars
<1>3. \A i \in Ops : m_pending'[Watch(i)] = m_pending[Watch(i)]
  BY <1>2 DEF Watches
<1> QED BY <1>2, <1>3 DEF Finished, OnlySettles

\* An operation that client code or a functor completes or cancels, and the contexts that
\* the returned handle cancels, watch no operation.
LEMMA ClientSettles ==
    ASSUME CompoundInv, Client
    PROVE  \/ \E x \in Ctx \ Watches, r \in Results :
                /\ Settle(x, r, m_pending, tasks) /\ UNCHANGED pairVars
                /\ x \in {Joint, Guard} => (r = "canceled" /\ asked' = TRUE /\ Born(Guard))
           \/ (\E h \in Handles : Abort(h)) /\ asked' = asked
<1> USE Names
<1>1. ChainInv /\ LinksInv
  BY DEF CompoundInv
<1>2. "canceled" \in Results /\ Returned \subseteq Results
  BY ReturnedAssumption DEF Results
<1>3. /\ Guard \notin Watches /\ Joint \notin Watches
      /\ \A i \in Ops : Op(i) \notin Watches /\ Op(i) \notin {Joint, Guard}
  BY DEF Watches
<1>4. ASSUME NEW i \in Ops, NEW r \in Returned, AsyncReturn(Op(i), r)
      PROVE  Settle(Op(i), r, m_pending, tasks) /\ UNCHANGED pairVars
  BY <1>4 DEF AsyncReturn
<1>5. ASSUME NEW i \in Ops, Cancel(Op(i))
      PROVE  Settle(Op(i), "canceled", m_pending, tasks) /\ UNCHANGED pairVars
  BY <1>1, <1>5, CancelOperation
<1>6. ASSUME Cancel(Guard)
      PROVE  /\ Born(Guard) /\ UNCHANGED pairVars
             /\ \E x \in {Joint, Guard} : Settle(x, "canceled", m_pending, tasks)
  BY <1>1, <1>6, CancelGuard
<1>7. CASE \E i \in Ops, r \in Returned : AsyncReturn(Op(i), r)
  BY <1>2, <1>3, <1>4, <1>7
<1>8. ASSUME NEW c \in Handles, Cancel(c), asked' = TRUE
      PROVE  \E x \in Ctx \ Watches, r \in Results :
                /\ Settle(x, r, m_pending, tasks) /\ UNCHANGED pairVars
                /\ x \in {Joint, Guard} => (r = "canceled" /\ asked' = TRUE /\ Born(Guard))
  <2>1. CASE c = Guard
    BY <1>2, <1>3, <1>6, <1>8, <2>1
  <2>2. CASE c # Guard
    BY <1>2, <1>3, <1>5, <1>8, <2>2 DEF Handles
  <2> QED BY <2>1, <2>2
<1> QED BY <1>7, <1>8 DEF Client, Handles

\* An abort() by client code posts nothing; it closes Joint for good or leaves it alone, and
\* completes no functor that watches an operation.
LEMMA ClientAborts ==
    ASSUME CompoundInv, NEW h \in Handles, Abort(h)
    PROVE  /\ Born(h) /\ OnlySettles /\ tasks' = tasks /\ posts' = posts /\ PostsAtMostOne
           /\ \A i \in Ops : m_pending'[Watch(i)] = m_pending[Watch(i)]
           /\ \/ h = Guard /\ Done(Joint)'
              \/ h # Guard /\ m_pending'[Joint] = m_pending[Joint]
<1> USE Names
<1>1. ChainInv /\ LinksInv
  BY DEF CompoundInv
<1>2. CASE h = Guard
  <2>1. /\ Born(Guard) /\ OnlySettles /\ UNCHANGED <<held, tasks, posts, pairVars>>
        /\ \A c \in Ctx \ {Joint, Guard} : m_pending'[c] = m_pending[c]
        /\ Done(Joint)'
    BY <1>1, <1>2, AbortGuard
  <2> QED BY <1>2, <2>1 DEF PostsAtMostOne
<1>3. ASSUME NEW i \in Ops, h = Op(i)
      PROVE  /\ Born(h) /\ OnlySettles /\ tasks' = tasks /\ posts' = posts /\ PostsAtMostOne
             /\ \A j \in Ops : m_pending'[Watch(j)] = m_pending[Watch(j)]
             /\ h # Guard /\ m_pending'[Joint] = m_pending[Joint]
  <2>1. Abort(Op(i))
    BY <1>3
  <2>2. /\ Born(Op(i)) /\ OnlySettles /\ UNCHANGED <<held, tasks, posts, pairVars>>
        /\ \A c \in Ctx \ {Op(i)} : m_pending'[c] = m_pending[c]
    BY ONLY <1>1, <1>3, <2>1, AbortOperation
  <2> QED BY <1>3, <2>2 DEF PostsAtMostOne
<1> QED BY <1>2, <1>3 DEF Handles

\* The functor of Joint attaches one context to another.
LEMMA AttachWatchAttaches ==
    ASSUME CompoundInv, NEW t \in Threads, AttachWatch(t)
    PROVE  /\ label[t] = "attach" /\ UNCHANGED <<held, aborted, form, counter, res, first, asked>>
           /\ \/ /\ label' = label /\ running' = running /\ loaded' = loaded
                 /\ \E i \in Ops : /\ Attach(Op(i), Watch(i), "then_both", NoCtx, tasks)
                                   /\ Born(Op(i)) /\ Watch(i) \in Functors
              \/ /\ label' = [label EXCEPT ![t] = "idle"]
                 /\ running' = [running EXCEPT ![t] = NoCtx]
                 /\ loaded' = [loaded EXCEPT ![t] = 0]
                 /\ Attach(Joint, Guard, "then_both", NoCtx, tasks)
                 /\ Born(Joint) /\ Guard \in Functors
<1>1. label[t] = "attach" /\ UNCHANGED <<held, aborted, form, counter, res, first, asked>>
  BY DEF AttachWatch, sharedVars, historyVars
<1>2. Born(Joint) /\ (\A i \in Ops : Born(Op(i))) /\ left[t] \in SUBSET Ops
  BY <1>1 DEF CompoundInv, ThreadInv, LinksInv, TypeOK
<1>3. CASE left[t] # {}
  <2>1. Min(left[t]) \in Ops
    BY <1>2, <1>3, NextLeft
  <2>2. /\ Attach(Op(Min(left[t])), Watch(Min(left[t])), "then_both", NoCtx, tasks)
        /\ label' = label /\ running' = running /\ loaded' = loaded
    BY <1>3 DEF AttachWatch
  <2> QED BY <1>1, <1>2, <2>1, <2>2 DEF Functors, Watches
<1>4. CASE left[t] = {}
  BY <1>1, <1>2, <1>4 DEF AttachWatch, Finish, Goto, Functors
<1> QED BY <1>3, <1>4

\* With one thread, ReturnInv is kept.
LEMMA ReturnStep ==
    ASSUME CompoundInv, OneThread, ReturnInv, Next PROVE ReturnInv'
<1> USE Names, NullCtxAssumption
<1>1. /\ TypeOK /\ LinksInv /\ OnceInv /\ CountInv /\ ChainInv
      /\ \A u \in Threads : ThreadInv(u)
  BY DEF CompoundInv
<1>2. ASSUME NEW t \in Threads, NEW f \in Forms, Start(t, f) PROVE ReturnInv'
  <2>1. CompoundInv'
    BY <1>2, StartKeeps
  <2>2. /\ form = "none" /\ form' # "none" /\ counter' = counter /\ res' = res
        /\ label' = [label EXCEPT ![t] = "attach"] /\ left' = [left EXCEPT ![t] = Ops]
        /\ running' = [running EXCEPT ![t] = Joint]
        /\ loaded' = loaded /\ running[t] = NoCtx
    BY <1>2, FormsAssumption DEF Start, Begin, Goto, Idle
  <2>3. /\ label'[t] = "attach" /\ left'[t] = Ops /\ running'[t] = Joint /\ label[t] = "idle"
        /\ \A u \in Threads : u = t
    BY <1>1, <2>2 DEF TypeOK, ThreadInv, OneThread
  <2>4. \A i \in Ops : ~Finished(Watch(i))'
    <3>1. \A i \in Ops : ~Born(Watch(i))'
      BY <2>1, <2>3 DEF CompoundInv, ThreadInv
    <3> QED BY <3>1 DEF Born, Finished, Results
  <2>5. counter' # 0
    <3>1. ~Finished(Joint)
      BY <1>1, <2>2 DEF LinksInv, Born, Finished, Results
    <3> QED BY <2>2, <2>3, <3>1 DEF ReturnInv
  <2>6. Counted' = Counted
    BY <1>1, <2>2, <2>3, CountKept
  <2> QED BY <2>2, <2>3, <2>4, <2>5, <2>6 DEF ReturnInv
<1>3. ASSUME NEW t \in Threads, NEW task \in tasks, Take(t, task) PROVE ReturnInv'
  <2>1. /\ Idle(t) /\ running' = [running EXCEPT ![t] = task.child]
        /\ label' = [label EXCEPT ![t] = "call"]
        /\ tasks' = tasks \ {task} /\ m_pending' = m_pending /\ posts' = posts
        /\ loaded' = loaded /\ form' = form /\ res' = res /\ counter' = counter
    BY <1>3 DEF Take, Begin, Goto, sharedVars
  <2>2. /\ running'[t] = task.child /\ label'[t] = "call" /\ label[t] = "idle"
        /\ \A u \in Threads : u = t
    BY <1>1, <2>1 DEF TypeOK, ThreadInv, Idle, OneThread
  <2>3. Counted' = Counted
    BY <1>1, <2>1, <2>2, CountKept
  <2>4. \A c \in Ctx : Finished(c)' = Finished(c)
    BY <2>1 DEF Finished
  <2>5. ASSUME NEW i \in Ops, Finished(Watch(i))'
        PROVE  /\ posts'[Watch(i)] > 0
               /\ \A a \in tasks' : a.child # Watch(i)
               /\ \A u \in Threads : running'[u] # Watch(i)
               /\ form' = "when_all" => res'[i] # "none"
    BY <2>1, <2>2, <2>4, <2>5 DEF ReturnInv
  <2>6. counter' = 0 => (Finished(Joint)' \/ \E u \in Threads : label'[u] = "settle")
    BY <2>1, <2>2, <2>4 DEF ReturnInv
  <2> QED BY <2>1, <2>2, <2>3, <2>5, <2>6 DEF ReturnInv
<1>4. ASSUME NEW t \in Threads, AttachWatch(t) PROVE ReturnInv'
  <2>1. /\ label[t] = "attach" /\ form' = form /\ counter' = counter /\ res' = res
        /\ UNCHANGED <<held, aborted>>
        /\ \A u \in Threads : u = t
    BY <1>4, AttachWatchAttaches DEF OneThread
  <2>2. ASSUME NEW x \in Ctx \ Watches, NEW child \in Functors, Born(x),
               Attach(x, child, "then_both", NoCtx, tasks),
               label'[t] \in {"attach", "idle"}, running'[t] \in {running[t], NoCtx}
        PROVE  ReturnInv'
    <3>1. /\ PostsAtMostOne
          /\ \A c \in Ctx \ {x, child} : m_pending'[c] = m_pending[c]
          /\ m_pending'[child] = "empty" /\ m_pending[child] = "unborn"
          /\ (m_pending'[x] = "done") <=> (m_pending[x] \in {"done"} \cup Results)
      BY <2>1, <2>2, AttachEffect
    <3>2. \A i \in Ops : Finished(Watch(i))' => Finished(Watch(i))
      BY <2>2, <3>1 DEF Finished, Results, Watches
    <3>3. Finished(Joint) => Finished(Joint)'
      BY <3>1 DEF Finished, Results
    <3>4. Joint \notin Watches /\ NoCtx \notin Watches
      BY DEF Watches
    <3>5. running[t] = Joint
      BY <1>1, <2>1 DEF ThreadInv
    <3> QED BY <2>1, <2>2, <3>1, <3>2, <3>3, <3>4, <3>5, ReturnKept
  <2>3. Joint \in Ctx \ Watches /\ \A i \in Ops : Op(i) \in Ctx \ Watches
    BY DEF Watches
  <2>4. CASE /\ label' = label /\ running' = running
             /\ \E i \in Ops : /\ Attach(Op(i), Watch(i), "then_both", NoCtx, tasks)
                               /\ Born(Op(i)) /\ Watch(i) \in Functors
    BY <2>1, <2>2, <2>3, <2>4
  <2>5. CASE /\ label' = [label EXCEPT ![t] = "idle"] /\ running' = [running EXCEPT ![t] = NoCtx]
             /\ Attach(Joint, Guard, "then_both", NoCtx, tasks)
             /\ Born(Joint) /\ Guard \in Functors
    BY <1>1, <2>1, <2>2, <2>3, <2>5 DEF TypeOK
  <2> QED BY <1>4, <2>4, <2>5, AttachWatchAttaches
<1>5. ASSUME NEW t \in Threads, CountResult(t) PROVE ReturnInv'
  <2>1. PICK i \in Ops : running[t] = Watch(i) /\ res' = [res EXCEPT ![i] = input[t]]
    BY <1>5 DEF CountResult
  <2>2. /\ label[t] = "call" /\ label' = [label EXCEPT ![t] = "store"]
        /\ loaded' = [loaded EXCEPT ![t] = counter] /\ UNCHANGED chainVars
        /\ running' = running /\ form' = form /\ counter' = counter
    BY <1>5 DEF CountResult, Goto
  <2>3. /\ label'[t] = "store" /\ loaded'[t] = counter /\ \A u \in Threads : u = t
        /\ input[t] # "none" /\ Watch(i) \in Functors /\ res[i] = "none"
    BY <1>1, <2>1, <2>2 DEF TypeOK, OneThread, ThreadInv, Functors, Watches, Results, OnceInv
  <2>4. res'[i] # "none" /\ \A j \in Ops \ {i} : res'[j] = res[j]
    BY <1>1, <2>1, <2>3 DEF TypeOK
  <2>5. Counted' = Counted
    BY <2>1, <2>2, <2>3, <2>4 DEF Counted
  <2>6. tasks' = tasks /\ posts' = posts /\ \A c \in Ctx : Finished(c)' = Finished(c)
    BY <2>2 DEF chainVars, Finished
  <2>7. counter' = 0 => (Finished(Joint)' \/ \E u \in Threads : label'[u] = "settle")
    BY <2>2, <2>3, <2>6 DEF ReturnInv
  <2> QED BY <2>1, <2>2, <2>3, <2>4, <2>5, <2>6, <2>7 DEF ReturnInv
<1>6. ASSUME NEW t \in Threads, StoreCounter(t) PROVE ReturnInv'
  <2>1. /\ label[t] = "store" /\ counter' = loaded[t] - 1 /\ loaded' = loaded
        /\ label' = [label EXCEPT ![t] = IF loaded[t] - 1 = 0 THEN "settle" ELSE "return"]
        /\ UNCHANGED chainVars /\ running' = running /\ form' = form /\ res' = res
    BY <1>6 DEF StoreCounter, Goto
  <2>2. /\ label'[t] = (IF loaded[t] - 1 = 0 THEN "settle" ELSE "return")
        /\ \A u \in Threads : u = t
    BY <1>1, <2>1 DEF TypeOK, OneThread
  <2>3. tasks' = tasks /\ posts' = posts /\ \A c \in Ctx : Finished(c)' = Finished(c)
    BY <2>1 DEF chainVars, Finished
  <2>4. counter' = N - Cardinality(Counted')
    <3>1. Cardinality(Counted) \in Nat /\ Cardinality(Counted') = Cardinality(Counted) + 1
      BY <1>6, StoreCounts
    <3>2. loaded[t] = N - Cardinality(Counted)
      BY <2>1 DEF ReturnInv
    <3> QED BY <2>1, <3>1, <3>2, SizeAssumption
  <2>5. counter' = 0 => \E u \in Threads : label'[u] = "settle"
    BY <2>1, <2>2
  <2>6. ASSUME NEW i \in Ops, running'[t] = Watch(i), form' = "when_all" PROVE res'[i] # "none"
    BY <2>1, <2>6 DEF ReturnInv
  <2> QED BY <2>1, <2>2, <2>3, <2>4, <2>5, <2>6 DEF ReturnInv
<1>7. ASSUME NEW t \in Threads, SettleCounted(t) \/ SettleEarly(t) PROVE ReturnInv'
  <2>1. /\ running' = running /\ loaded' = loaded
        /\ form' = form /\ res' = res /\ counter' = counter /\ UNCHANGED pairVars
    BY <1>7 DEF SettleCounted, SettleEarly, sharedVars
  <2>2. PICK r \in Results : Settle(Joint, r, m_pending, tasks)
    <3>1. label[t] = "call" => input[t] \in Results \/ running[t] \notin Watches
      BY <1>1 DEF ThreadInv, Functors
    <3>2. SettleEarly(t) => running[t] \in Watches /\ label[t] = "call"
      BY DEF SettleEarly, Watches
    <3> QED BY <1>7, <3>1, <3>2 DEF SettleCounted, SettleEarly, Conclude, Results
  <2>3. /\ label[t] \notin {"store", "idle"} /\ label'[t] \notin {"store", "call"}
        /\ \A u \in Threads : u = t
        /\ label'[t] = "cancel" => (label[t] = "call" /\ form # "when_all")
        /\ label'[t] # "cancel" => label[t] = "settle"
    BY <1>1, <1>7 DEF SettleCounted, SettleEarly, Counts, Goto, TypeOK, OneThread
  <2>4. Joint \notin Watches
    BY DEF Watches
  <2>5. /\ PostsAtMostOne
        /\ \A i \in Ops : Finished(Watch(i))' => Finished(Watch(i))
        /\ Finished(Joint)'
    BY <2>1, <2>2, <2>4, OthersFinish
  <2>6. \A u \in Threads :
           /\ (label[u] = "store" \/ label'[u] = "store") =>
                 running'[u] = running[u] /\ label'[u] = label[u] /\ loaded'[u] = loaded[u]
           /\ label[u] = "settle" => (label'[u] = "settle" \/ Finished(Joint)')
           /\ running'[u] \in {running[u], NoCtx}
           /\ (running'[u] \in Watches /\ form = "when_all" /\ label'[u] # "call") =>
                 label[u] # "call"
    BY <2>1, <2>3, <2>5
  <2> QED BY <2>1, <2>5, <2>6, ReturnKept
<1>8. ASSUME NEW t \in Threads, GuardResult(t) PROVE ReturnInv'
  <2>1. /\ running' = running /\ loaded' = loaded /\ running[t] = Guard /\ UNCHANGED chainVars
        /\ form' = form /\ res' = res /\ counter' = counter
    BY <1>8 DEF GuardResult, sharedVars
  <2>2. /\ label[t] = "call" /\ label'[t] \in {"cancel", "return"} /\ \A u \in Threads : u = t
    BY <1>1, <1>8 DEF GuardResult, Goto, TypeOK, OneThread
  <2>3. /\ PostsAtMostOne /\ Guard \notin Watches
        /\ \A c \in Ctx : Finished(c)' = Finished(c)
    BY <2>1 DEF chainVars, PostsAtMostOne, Finished, Watches
  <2> QED BY <2>1, <2>2, <2>3, ReturnKept
<1>9. ASSUME NEW t \in Threads, CancelNext(t) PROVE ReturnInv'
  <2>1. /\ running' = running /\ loaded' = loaded /\ label' = label
        /\ form' = form /\ res' = res /\ counter' = counter
        /\ left[t] # {} /\ Cancel(Op(Min(left[t])))
    BY <1>9 DEF CancelNext, sharedVars
  <2>2. PICK i \in Ops : Cancel(Op(i))
    BY <1>1, <2>1, NextLeft DEF TypeOK
  <2>3. /\ Settle(Op(i), "canceled", m_pending, tasks) /\ UNCHANGED pairVars
        /\ "canceled" \in Results /\ Op(i) \in Ctx /\ Op(i) \notin Watches
    BY <1>1, <2>2, CancelOperation DEF Results, Watches
  <2>4. /\ PostsAtMostOne
        /\ \A j \in Ops : Finished(Watch(j))' => Finished(Watch(j))
        /\ Finished(Joint) => Finished(Joint)'
    BY <2>3, OthersFinish
  <2> QED BY <2>1, <2>4, ReturnKept
<1>10. ASSUME Client PROVE ReturnInv'
  <2>1. /\ running' = running /\ loaded' = loaded /\ label' = label
        /\ form' = form /\ res' = res /\ counter' = counter
    BY <1>10 DEF Client, localVars, sharedVars
  <2>2. /\ PostsAtMostOne
        /\ \A j \in Ops : Finished(Watch(j))' => Finished(Watch(j))
        /\ Finished(Joint) => Finished(Joint)'
    <3>1. ASSUME NEW x \in Ctx \ Watches, NEW r \in Results,
                 Settle(x, r, m_pending, tasks), UNCHANGED pairVars
          PROVE  /\ PostsAtMostOne
                 /\ \A j \in Ops : Finished(Watch(j))' => Finished(Watch(j))
                 /\ Finished(Joint) => Finished(Joint)'
      BY <3>1, OthersFinish
    <3>2. ASSUME NEW h \in Handles, Abort(h)
          PROVE  /\ PostsAtMostOne
                 /\ \A j \in Ops : Finished(Watch(j))' => Finished(Watch(j))
                 /\ Finished(Joint) => Finished(Joint)'
      <4>1. /\ OnlySettles /\ PostsAtMostOne
            /\ \A j \in Ops : m_pending'[Watch(j)] = m_pending[Watch(j)]
        BY <3>2, ClientAborts
      <4> QED BY <4>1 DEF Finished, OnlySettles
    <3> QED BY <1>10, <3>1, <3>2, ClientSettles
  <2> QED BY <2>1, <2>2, ReturnKept
<1>11. ASSUME NEW t \in Threads, Return(t) PROVE ReturnInv'
  <2> SUFFICES ASSUME NEW x, x = running[t],
                      NEW r, r = IF running[t] = Guard THEN input[t] ELSE "value"
               PROVE  ReturnInv'
    OBVIOUS
  <2>1. /\ label[t] \in {"return", "cancel"} /\ Settle(x, r, m_pending, tasks)
        /\ running' = [running EXCEPT ![t] = NoCtx] /\ label' = [label EXCEPT ![t] = "idle"]
        /\ form' = form /\ res' = res /\ counter' = counter /\ UNCHANGED pairVars
    BY <1>11 DEF Return, Finish, Goto, sharedVars
  <2>2. /\ running'[t] = NoCtx /\ label'[t] = "idle" /\ \A u \in Threads : u = t
    BY <1>1, <2>1 DEF TypeOK, OneThread
  <2>3. /\ x \in Functors /\ posts[x] > 0 /\ r \in Results /\ x \in Ctx /\ x # Joint
        /\ \A i \in Ops : x # Op(i)
    BY <1>1, <2>1 DEF ThreadInv, Functors, Watches, Results
  <2>4. /\ OnlySettles /\ PostsAtMostOne
        /\ Born(x) /\ m_pending'[x] \in {r, "done"}
        /\ \A c \in Ctx \ {x} : m_pending'[c] = m_pending[c]
        /\ \A a \in tasks' \ tasks :
             a = [child |-> callee[x], result |-> r] /\ m_parent[a.child] = x
        /\ tasks \subseteq tasks'
    <3>1. ChainInv /\ LinksInv /\ UNCHANGED pairVars
      BY <1>1, <2>1
    <3> QED BY ONLY <2>1, <2>3, <3>1, SettleEffect
  <2>5. tasks' = tasks
    <3>1. tasks' \subseteq tasks
      <4> SUFFICES ASSUME NEW a \in tasks', a \notin tasks PROVE FALSE
        OBVIOUS
      <4>1. m_parent[a.child] = x /\ a.child \in Functors
        BY <2>4 DEF PostsAtMostOne, PostsFunctor
      <4> QED BY <1>1, <2>3, <4>1 DEF LinksInv
    <3> QED BY <2>4, <3>1
  <2>6. \A c \in Ctx : posts[c] > 0 => posts'[c] > 0
    BY <1>1, <2>4 DEF PostsAtMostOne, PostsFunctor, ChainInv, ChainTypeOK
  <2>7. ASSUME NEW i \in Ops, Finished(Watch(i))'
        PROVE  /\ posts'[Watch(i)] > 0
               /\ \A a \in tasks' : a.child # Watch(i)
               /\ \A u \in Threads : running'[u] # Watch(i)
               /\ form' = "when_all" => res'[i] # "none"
    <3>1. CASE x = Watch(i)
      <4>1. \A a \in tasks' : a.child # Watch(i)
        BY <1>1, <2>5, <3>1 DEF OnceInv
      <4>2. form = "when_all" => res[i] # "none"
        BY <2>1, <3>1 DEF ReturnInv
      <4>3. posts'[Watch(i)] > 0
        BY <2>3, <2>6, <3>1
      <4> QED BY <2>1, <2>2, <4>1, <4>2, <4>3
    <3>2. CASE x # Watch(i)
      <4>1. Finished(Watch(i))
        BY <2>4, <2>7, <3>2 DEF Finished
      <4> QED BY <2>1, <2>2, <2>5, <2>6, <4>1 DEF ReturnInv
    <3> QED BY <3>1, <3>2
  <2>8. counter' = 0 => Finished(Joint)'
    BY <2>1, <2>2, <2>3, <2>4 DEF ReturnInv, Finished
  <2>9. Counted' = Counted
    BY <2>1, <2>2, <2>3 DEF Counted
  <2> QED BY <2>1, <2>2, <2>7, <2>8, <2>9 DEF ReturnInv
<1> QED BY <1>2, <1>3, <1>4, <1>5, <1>6, <1>7, <1>8, <1>9, <1>10, <1>11 DEF Next, Body

\* What one thread finds before the first call.
LEMMA InitReturn == Init => ReturnInv
<1> SUFFICES ASSUME Init PROVE ReturnInv
  OBVIOUS
<1>1. Counted = {}
  BY DEF Init, Counted
<1>2. N \in Nat \ {0}
  BY SizeAssumption
<1>3. counter = N - Cardinality(Counted)
  BY <1>1, <1>2, FS_EmptySet DEF Init
<1> QED BY <1>2, <1>3, Names, NullCtxAssumption DEF Init, ChainInit, ReturnInv, Finished, Results

\* With one thread, when_all() returns when every functor that watches an operation has
\* returned; with several the counter may lose a decrement.
THEOREM AllReturn == ASSUME OneThread PROVE Spec => []WhenAllReturns
<1>1. ReturnInv /\ CompoundInv /\ UNCHANGED compoundVars => ReturnInv'
  BY DEF compoundVars, chainVars, localVars, sharedVars, ReturnInv, Finished, Counted
<1>2. ReturnInv /\ CompoundInv /\ [Next]_compoundVars => ReturnInv'
  BY <1>1, ReturnStep
<1>3. ASSUME ReturnInv, CompoundInv, form = "when_all",
             \A i \in Ops : m_pending[Watch(i)] = "value"
      PROVE  m_pending[Joint] \in Results \cup {"done"}
  <2>1. \A i \in Ops : /\ res[i] # "none"
                       /\ \A t \in Threads : running[t] # Watch(i)
    BY <1>3 DEF ReturnInv, Finished, Results
  <2>2. Counted = Ops
    BY <2>1 DEF Counted
  <2>3. counter = 0
    BY <1>3, <2>2, FS_Interval, SizeAssumption DEF ReturnInv, Ops
  <2>4. ASSUME NEW t \in Threads, label[t] = "settle" PROVE FALSE
    BY <1>3, <2>1, <2>4 DEF CompoundInv, ThreadInv, Watches
  <2> QED BY <1>3, <2>3, <2>4 DEF ReturnInv, Finished
<1>4. ReturnInv /\ CompoundInv => WhenAllReturns
  BY <1>3 DEF WhenAllReturns
<1> QED BY InitReturn, <1>2, <1>4, CompoundInvariant, PTL DEF Spec

\* With one thread, a functor that watches an operation runs when the returned handle exists.
LEMMA FunctorsAfterGuard ==
    ASSUME CompoundInv, OneThread, FirstInv, NEW t \in Threads, label[t] \notin {"attach", "idle"}
    PROVE  Born(Guard) /\ m_pending[Joint] \in {"callbacks", "done"}
<1> USE Names, NullCtxAssumption
<1>1. running[t] \in Functors /\ posts[running[t]] > 0 /\ running[t] \in Ctx
  BY DEF CompoundInv, ThreadInv
<1>2. Born(running[t])
  BY <1>1, FunctorReady DEF CompoundInv
<1>3. form # "none"
  BY <1>1, <1>2 DEF CompoundInv, LinksInv
<1>4. \A u \in Threads : label[u] # "attach"
  BY DEF OneThread
<1>5. Born(Guard)
  BY <1>3, <1>4 DEF FirstInv
<1> QED BY <1>5 DEF CompoundInv, LinksInv

\* A step that passes no result to Joint.
LEMMA FirstKept ==
    ASSUME FirstInv, first' = first, form' = form, asked \in BOOLEAN, asked' \in {asked, TRUE},
           Born(Guard)' = Born(Guard), m_pending'[Joint] = m_pending[Joint],
           \A a \in tasks' \ tasks : a.child # Guard,
           Born(Guard) \/ \A t \in Threads : label[t] = "attach" => label'[t] = "attach"
    PROVE  FirstInv'
<1>1. FirstWins'
  <2> SUFFICES ASSUME NEW a \in tasks', a.child = Guard
               PROVE  a.result = first' \/ (a.result = "canceled" /\ asked')
    BY DEF FirstWins
  <2> QED BY DEF FirstInv, FirstWins
<1> QED BY <1>1 DEF FirstInv, Finished

\* Client code cancels Joint, or a functor passes a result to it.
LEMMA FirstPassed ==
    ASSUME CompoundInv, FirstInv, Born(Guard), NEW r \in Results,
           Settle(Joint, r, m_pending, tasks), UNCHANGED pairVars, form' = form,
           \/ first' = first /\ r = "canceled" /\ asked'
           \/ first' = (IF first = "none" THEN r ELSE first) /\ asked' = asked
    PROVE  FirstInv'
<1> USE Names, NullCtxAssumption
<1>1. ChainInv /\ LinksInv /\ TypeOK
  BY DEF CompoundInv
<1>2. /\ OnlySettles
      /\ \A a \in tasks' \ tasks :
           a = [child |-> callee[Joint], result |-> r] /\ m_parent[a.child] = Joint
      /\ m_pending[Joint] = "callbacks" => m_pending'[Joint] = "done"
  BY ONLY <1>1, SettleEffect, Settle(Joint, r, m_pending, tasks), UNCHANGED pairVars, Names
<1>3. m_pending[Joint] \in {"callbacks", "done"}
  BY <1>1 DEF LinksInv
<1>4. m_pending'[Joint] = "done" /\ Born(Guard)'
  BY <1>2, <1>3 DEF OnlySettles, Born, Results
<1>5. \A a \in tasks' \ tasks : a.result = r /\ m_pending[Joint] = "callbacks"
  BY <1>2, <1>3 DEF Settle, Results
<1>6. \A a \in tasks : a.result # "none"
  BY <1>1 DEF TypeOK, ChainTypeOK, Tasks, Results
<1>7. ASSUME NEW a \in tasks', a.child = Guard
      PROVE  a.result = first' \/ (a.result = "canceled" /\ asked')
  <2>1. CASE a \in tasks
    BY <1>6, <1>7, <2>1 DEF FirstInv, FirstWins
  <2>2. CASE a \notin tasks
    BY <1>5, <2>2 DEF FirstInv
  <2> QED BY <2>1, <2>2
<1> QED BY <1>4, <1>7 DEF FirstInv, FirstWins

\* A result for another context than Joint.
LEMMA FirstOthers ==
    ASSUME CompoundInv, FirstInv, NEW x \in Ctx, x # Joint, NEW r \in Results,
           Settle(x, r, m_pending, tasks), UNCHANGED pairVars,
           first' = first, form' = form, asked' \in {asked, TRUE},
           Born(Guard) \/ \A t \in Threads : label[t] = "attach" => label'[t] = "attach"
    PROVE  FirstInv'
<1> USE Names, NullCtxAssumption
<1>1. ChainInv /\ LinksInv /\ asked \in BOOLEAN
  BY DEF CompoundInv, TypeOK
<1>2. /\ OnlySettles /\ m_pending'[Joint] = m_pending[Joint]
      /\ \A a \in tasks' \ tasks : m_parent[a.child] = x
  BY ONLY <1>1, SettleEffect, Settle(x, r, m_pending, tasks), UNCHANGED pairVars, x # Joint, Names
<1>3. m_parent[Guard] \in {NoCtx, Joint}
  BY <1>1 DEF LinksInv
<1>4. \A a \in tasks' \ tasks : a.child # Guard
  BY <1>2, <1>3
<1>5. Born(Guard)' = Born(Guard)
  BY <1>2 DEF OnlySettles, Born, Results
<1> QED BY <1>1, <1>2, <1>4, <1>5, FirstKept

\* With one thread, FirstInv is kept.
LEMMA FirstStep ==
    ASSUME CompoundInv, OneThread, FirstInv, Next PROVE FirstInv'
<1> USE Names, NullCtxAssumption
<1>1. /\ TypeOK /\ LinksInv /\ OnceInv /\ ChainInv /\ asked \in BOOLEAN
      /\ \A u \in Threads : ThreadInv(u)
  BY DEF CompoundInv, TypeOK
<1>2. ASSUME NEW t \in Threads, NEW f \in Forms, Start(t, f) PROVE FirstInv'
  <2>1. CompoundInv'
    BY <1>2, StartKeeps
  <2>2. /\ form = "none" /\ tasks' = tasks /\ first' = first /\ asked' = asked
        /\ label' = [label EXCEPT ![t] = "attach"]
    BY <1>2 DEF Start, Begin, Goto, historyVars
  <2>3. label'[t] = "attach"
    BY <1>1, <2>2 DEF TypeOK
  <2>4. ~Born(Guard)' /\ ~Born(Guard)
    BY <1>1, <2>1, <2>2, <2>3 DEF CompoundInv, ThreadInv, LinksInv
  <2>5. first = "none"
    BY <2>4 DEF FirstInv
  <2>6. m_pending'[Joint] = "empty"
    <3>1. PICK r : m_pending' = [c \in Ctx |-> CASE c \in {Op(i) : i \in Ops} -> r[c[2]]
                                                  [] c = Joint -> "empty"
                                                  [] OTHER     -> m_pending[c]]
      BY <1>2 DEF Start
    <3> QED BY <3>1
  <2>7. FirstWins'
    BY <2>2 DEF FirstInv, FirstWins
  <2> QED BY <2>2, <2>3, <2>5, <2>6, <2>7 DEF FirstInv, Finished, Results
<1>3. ASSUME NEW t \in Threads, NEW task \in tasks, Take(t, task) PROVE FirstInv'
  <2>1. /\ Idle(t) /\ tasks' = tasks \ {task} /\ m_pending' = m_pending
        /\ first' = first /\ form' = form /\ asked' = asked
    BY <1>3 DEF Take, Begin, sharedVars, historyVars
  <2>2. \A u \in Threads : label[u] # "attach"
    BY <1>1, <2>1 DEF ThreadInv, Idle, OneThread
  <2>3. Born(Guard)' = Born(Guard)
    BY <2>1 DEF Born
  <2> QED BY <1>1, <2>1, <2>2, <2>3, FirstKept
<1>4. ASSUME NEW t \in Threads, AttachWatch(t) PROVE FirstInv'
  <2>1. /\ label[t] = "attach" /\ UNCHANGED <<held, aborted, form, first, asked>>
    BY <1>4, AttachWatchAttaches
  <2>2. ~Born(Guard) /\ first = "none" /\ ~Finished(Joint)
    BY <1>1, <2>1 DEF ThreadInv, FirstInv
  <2>3. ASSUME NEW i \in Ops, Attach(Op(i), Watch(i), "then_both", NoCtx, tasks),
               Born(Op(i)), Watch(i) \in Functors, label' = label
        PROVE  FirstInv'
    <3>1. /\ \A c \in Ctx \ {Op(i), Watch(i)} : m_pending'[c] = m_pending[c]
          /\ \A a \in tasks' \ tasks : a = [child |-> Watch(i), result |-> m_pending[Op(i)]]
      BY <2>1, <2>3, AttachEffect
    <3>2. m_pending'[Joint] = m_pending[Joint] /\ Born(Guard)' = Born(Guard)
      BY <3>1 DEF Born
    <3>3. \A a \in tasks' \ tasks : a.child # Guard
      BY <3>1
    <3> QED BY <1>1, <2>1, <2>3, <3>2, <3>3, FirstKept
  <2>4. ASSUME Attach(Joint, Guard, "then_both", NoCtx, tasks), Born(Joint), Guard \in Functors
        PROVE  FirstInv'
    <3>1. /\ m_pending'[Guard] = "empty"
          /\ m_pending'[Joint] \in {"callbacks", "done"}
          /\ \A a \in tasks' \ tasks : a = [child |-> Guard, result |-> m_pending[Joint]]
          /\ PostsAtMostOne
      BY <2>1, <2>4, AttachEffect
    <3>2. \A a \in tasks' \ tasks : a.result \in Results
      BY <3>1 DEF PostsAtMostOne, PostsFunctor
    <3>3. tasks' \subseteq tasks
      BY <2>2, <3>1, <3>2 DEF Finished
    <3>4. FirstWins'
      BY <2>1, <3>3 DEF FirstInv, FirstWins
    <3>5. Born(Guard)'
      BY <3>1 DEF Born
    <3> QED BY <2>1, <2>2, <3>4, <3>5 DEF FirstInv
  <2> QED BY <1>4, <2>3, <2>4, AttachWatchAttaches
<1>5. ASSUME NEW t \in Threads, CountResult(t) \/ StoreCounter(t) \/ GuardResult(t)
      PROVE  FirstInv'
  <2>1. /\ label[t] \notin {"attach", "idle"}
        /\ m_pending' = m_pending /\ tasks' = tasks
        /\ first' = first /\ asked' = asked /\ form' = form
    BY <1>5 DEF CountResult, StoreCounter, GuardResult, chainVars, sharedVars, historyVars
  <2>2. Born(Guard) /\ Born(Guard)' = Born(Guard)
    BY <2>1, FunctorsAfterGuard DEF Born
  <2> QED BY <1>1, <2>1, <2>2, FirstKept
<1>6. ASSUME NEW t \in Threads, SettleCounted(t) \/ SettleEarly(t) PROVE FirstInv'
  <2>1. /\ label[t] \in {"settle", "call"} /\ UNCHANGED pairVars
        /\ form' = form /\ asked' = asked
    BY <1>6 DEF SettleCounted, SettleEarly, sharedVars
  <2>2. Born(Guard)
    BY <2>1, FunctorsAfterGuard
  <2>3. \/ Conclude("value")
        \/ /\ Conclude(input[t])
           /\ label[t] = "call" /\ \E i \in Ops : running[t] = Watch(i)
    BY <1>6 DEF SettleCounted, SettleEarly
  <2>4. PICK r \in Results : Conclude(r)
    <3>1. (\E i \in Ops : running[t] = Watch(i)) => input[t] \in Results
      BY <1>1 DEF ThreadInv, Functors, Watches
    <3> QED BY <2>3, <3>1 DEF Results
  <2>5. Settle(Joint, r, m_pending, tasks) /\ first' = IF first = "none" THEN r ELSE first
    BY <2>4 DEF Conclude
  <2> QED BY <2>1, <2>2, <2>5, FirstPassed
<1>7. ASSUME NEW t \in Threads, CancelNext(t) PROVE FirstInv'
  <2>1. /\ label[t] = "cancel" /\ left[t] # {} /\ Cancel(Op(Min(left[t])))
        /\ first' = first /\ asked' = asked /\ form' = form
    BY <1>7 DEF CancelNext, sharedVars, historyVars
  <2>2. PICK i \in Ops : Cancel(Op(i))
    BY <1>1, <2>1, NextLeft DEF TypeOK
  <2>3. /\ Settle(Op(i), "canceled", m_pending, tasks) /\ UNCHANGED pairVars
        /\ "canceled" \in Results /\ Op(i) \in Ctx /\ Op(i) # Joint
    BY <1>1, <2>2, CancelOperation DEF Results
  <2>4. Born(Guard)
    BY <2>1, FunctorsAfterGuard
  <2> QED BY <2>1, <2>3, <2>4, FirstOthers
<1>8. ASSUME NEW t \in Threads, Return(t) PROVE FirstInv'
  <2> SUFFICES ASSUME NEW x, x = running[t],
                      NEW r, r = IF running[t] = Guard THEN input[t] ELSE "value"
               PROVE  FirstInv'
    OBVIOUS
  <2>1. /\ label[t] \in {"return", "cancel"} /\ Settle(x, r, m_pending, tasks)
        /\ form' = form /\ first' = first /\ asked' = asked /\ UNCHANGED pairVars
    BY <1>8 DEF Return, sharedVars, historyVars
  <2>2. x \in Ctx /\ x # Joint /\ r \in Results
    BY <1>1, <2>1 DEF ThreadInv, Functors, Watches, Results
  <2>3. Born(Guard)
    BY <2>1, FunctorsAfterGuard
  <2> QED BY <2>1, <2>2, <2>3, FirstOthers
<1>9. ASSUME Client PROVE FirstInv'
  <2>1. /\ label' = label /\ form' = form /\ first' = first /\ asked' \in {asked, TRUE}
    BY <1>9 DEF Client, localVars, sharedVars
  <2>2. ASSUME NEW x \in Ctx \ Watches, NEW r \in Results,
               Settle(x, r, m_pending, tasks), UNCHANGED pairVars,
               x \in {Joint, Guard} => (r = "canceled" /\ asked' = TRUE /\ Born(Guard))
        PROVE  FirstInv'
    <3>1. CASE x = Joint
      BY <2>1, <2>2, <3>1, FirstPassed
    <3>2. CASE x # Joint
      BY <2>1, <2>2, <3>2, FirstOthers
    <3> QED BY <3>1, <3>2
  <2>3. ASSUME NEW h \in Handles, Abort(h), asked' = asked PROVE FirstInv'
    <3>1. /\ Born(h) /\ OnlySettles /\ tasks' = tasks
          /\ \/ h = Guard /\ Done(Joint)'
             \/ h # Guard /\ m_pending'[Joint] = m_pending[Joint]
      BY <2>3, ClientAborts
    <3>2. Born(Guard)' = Born(Guard)
      BY <3>1 DEF OnlySettles, Born, Results
    <3>3. CASE h = Guard
      <4>1. FirstWins'
        BY <2>1, <2>3, <3>1 DEF FirstInv, FirstWins
      <4> QED BY <3>1, <3>2, <3>3, <4>1 DEF FirstInv, Done
    <3>4. CASE h # Guard
      BY <1>1, <2>1, <2>3, <3>1, <3>2, <3>4, FirstKept
    <3> QED BY <3>3, <3>4
  <2> QED BY <1>9, <2>2, <2>3, ClientSettles
<1> QED BY <1>2, <1>3, <1>4, <1>5, <1>6, <1>7, <1>8, <1>9 DEF Next, Body

\* What the watching functors find before the first call.
LEMMA InitFirst == Init => FirstInv
BY Names, NullCtxAssumption DEF Init, ChainInit, FirstInv, FirstWins, Finished, Born, Results

\* With one thread, what the functors of add_cancel() are given for the caller is the first
\* result that a functor passed on, unless the client canceled: the results of operations
\* that lost come too late.
THEOREM FirstResultWins == ASSUME OneThread PROVE Spec => []FirstWins
<1>1. FirstInv /\ CompoundInv /\ UNCHANGED compoundVars => FirstInv'
  BY DEF compoundVars, chainVars, localVars, sharedVars, historyVars, FirstInv, FirstWins,
         Finished, Born
<1>2. FirstInv /\ CompoundInv /\ [Next]_compoundVars => FirstInv'
  BY <1>1, FirstStep
<1>3. FirstInv => FirstWins
  BY DEF FirstInv
<1> QED BY InitFirst, <1>2, <1>3, CompoundInvariant, PTL DEF Spec

==============================================================================
