------------------------ MODULE CompoundPromise_proofs ------------------------
(***************************************************************************)
(* Proof that a compound operation keeps its promise in a program with one *)
(* thread, for any number of operations.                                   *)
(***************************************************************************)
EXTENDS CompoundPromise, Compound_proofs

\* t has not yet done with the result of operation i what its functor does with it.
Busy(t, i) == running[t] = Watch(i) /\ label[t] \notin {"cancel", "return"}

\* The results that have been given to functors, and what has been made of those that have
\* arrived: they are stored and counted, or Joint is done.
PromiseInv ==
    /\ given \in [Ctx -> {"none"} \cup Results]
    /\ \A c \in Functors : given[c] = "none" <=> posts[c] = 0
    /\ \A a \in tasks : given[a.child] = a.result
    /\ \A t \in Threads : running[t] \in Functors => input[t] = given[running[t]]
    /\ \A t \in Threads : label[t] \in {"store", "settle"} => Counts(input[t])
    /\ \A i \in Ops : (Arrived(i) /\ Counts(given[Watch(i)])) => res[i] # "none"
    /\ \A i \in Ops : (Arrived(i) /\ ~Counts(given[Watch(i)])) => Done(Joint)

\* The invariants of Compound for one thread.
SingleInv == CompoundInv /\ ReturnInv /\ FirstInv /\ PromiseInv
-----------------------------------------------------------------------------
(* What has arrived, and what is sent to the caller.                       *)

\* A step that posts at most one functor records the result that it is given.
LEMMA GivenStep ==
    ASSUME CompoundInv, PromiseInv, PostsAtMostOne, Given
    PROVE  /\ given' \in [Ctx -> {"none"} \cup Results]
           /\ \A c \in Functors : given'[c] = "none" <=> posts'[c] = 0
           /\ \A a \in tasks' : given'[a.child] = a.result
           /\ \A c \in Ctx : posts[c] > 0 => given'[c] = given[c] /\ posts'[c] > 0
           /\ \A a \in tasks' \ tasks : a.child \in Functors /\ posts[a.child] = 0
           /\ \A c \in Ctx : (\A a \in tasks' \ tasks : a.child # c) => given'[c] = given[c]
<1> USE Names
<1>1. /\ given \in [Ctx -> {"none"} \cup Results] /\ posts \in [Ctx -> Nat]
      /\ \A c \in Functors : given[c] = "none" <=> posts[c] = 0
      /\ \A a \in tasks : given[a.child] = a.result
      /\ \A a \in tasks : a.child \in Functors /\ posts[a.child] > 0
  BY DEF PromiseInv, CompoundInv, ChainInv, ChainTypeOK, OnceInv, Completable
<1>2. CASE UNCHANGED <<tasks, posts>>
  <2>1. tasks' \ tasks = {}
    BY <1>2
  <2>2. given' = [c \in Ctx |-> given[c]]
    BY <2>1 DEF Given
  <2>3. given' = given
    BY <1>1, <2>2
  <2> QED BY <1>1, <1>2, <2>1, <2>3
<1>3. ASSUME NEW f \in Functors, NEW r \in Results, PostsFunctor(f, r)
      PROVE  /\ given' \in [Ctx -> {"none"} \cup Results]
             /\ \A c \in Functors : given'[c] = "none" <=> posts'[c] = 0
             /\ \A a \in tasks' : given'[a.child] = a.result
             /\ \A c \in Ctx : posts[c] > 0 => given'[c] = given[c] /\ posts'[c] > 0
             /\ \A a \in tasks' \ tasks : a.child \in Functors /\ posts[a.child] = 0
             /\ \A c \in Ctx : (\A a \in tasks' \ tasks : a.child # c) => given'[c] = given[c]
  <2> SUFFICES ASSUME NEW b, b = [child |-> f, result |-> r]
               PROVE  /\ given' \in [Ctx -> {"none"} \cup Results]
                      /\ \A c \in Functors : given'[c] = "none" <=> posts'[c] = 0
                      /\ \A a \in tasks' : given'[a.child] = a.result
                      /\ \A c \in Ctx : posts[c] > 0 => given'[c] = given[c] /\ posts'[c] > 0
                      /\ \A a \in tasks' \ tasks : a.child \in Functors /\ posts[a.child] = 0
                      /\ \A c \in Ctx :
                           (\A a \in tasks' \ tasks : a.child # c) => given'[c] = given[c]
    OBVIOUS
  <2>1. /\ posts[f] = 0 /\ posts' = [posts EXCEPT ![f] = 1] /\ tasks' = tasks \cup {b}
        /\ b.child = f /\ b.result = r
    BY <1>3 DEF PostsFunctor
  <2>2. b \notin tasks /\ tasks' \ tasks = {b}
    BY <1>1, <2>1
  <2>3. (CHOOSE a \in tasks' \ tasks : a.child = f) = b
    BY <2>1, <2>2
  <2>4. /\ given'[f] = r
        /\ \A c \in Ctx \ {f} : given'[c] = given[c]
        /\ DOMAIN given' = Ctx /\ given' = [c \in Ctx |-> given'[c]]
    <3>1. given' = [c \in Ctx |->
                      IF \E a \in {b} : a.child = c
                      THEN (CHOOSE a \in {b} : a.child = c).result
                      ELSE given[c]]
      BY <2>2 DEF Given
    <3>2. (CHOOSE a \in {b} : a.child = f) = b
      BY <2>1
    <3> QED BY <2>1, <3>1, <3>2
  <2>5. given' \in [Ctx -> {"none"} \cup Results]
    BY <1>1, <2>4
  <2>6. r # "none"
    BY DEF Results
  <2>7. f \in Ctx /\ posts'[f] = 1 /\ \A c \in Ctx \ {f} : posts'[c] = posts[c]
    BY <1>1, <2>1
  <2>8. \A c \in Functors : given'[c] = "none" <=> posts'[c] = 0
    BY <1>1, <2>4, <2>6, <2>7
  <2>9. \A a \in tasks' : given'[a.child] = a.result
    BY <1>1, <2>1, <2>4
  <2>10. \A c \in Ctx : posts[c] > 0 => given'[c] = given[c] /\ posts'[c] > 0
    BY <1>1, <2>1, <2>4, <2>7
  <2>11. \A c \in Ctx : (\A a \in tasks' \ tasks : a.child # c) => given'[c] = given[c]
    BY <2>1, <2>2, <2>4
  <2> QED BY <2>1, <2>2, <2>5, <2>8, <2>9, <2>10, <2>11
<1> QED BY <1>2, <1>3 DEF PostsAtMostOne

\* An operation whose functor is as far as before: its result has arrived or not, as before.
LEMMA ArrivedKept ==
    ASSUME CompoundInv, PromiseInv, PostsAtMostOne, Given, tasks \subseteq tasks',
           NEW i \in Ops, \A t \in Threads : Busy(t, i)' <=> Busy(t, i)
    PROVE  /\ Arrived(i)' <=> Arrived(i)
           /\ Arrived(i) => given'[Watch(i)] = given[Watch(i)]
<1> USE Names DEF Functors, Watches
<1>1. /\ \A c \in Functors : given[c] = "none" <=> posts[c] = 0
      /\ \A c \in Functors : given'[c] = "none" <=> posts'[c] = 0
      /\ \A a \in tasks' : given'[a.child] = a.result
      /\ \A c \in Ctx : posts[c] > 0 => given'[c] = given[c] /\ posts'[c] > 0
      /\ \A a \in tasks' \ tasks : a.child \in Functors /\ posts[a.child] = 0
      /\ \A c \in Ctx : (\A a \in tasks' \ tasks : a.child # c) => given'[c] = given[c]
  BY GivenStep DEF PromiseInv
<1>2. posts[Watch(i)] \in Nat
  BY DEF CompoundInv, ChainInv, ChainTypeOK
<1>3. Arrived(i) <=> /\ given[Watch(i)] # "none" /\ \A a \in tasks : a.child # Watch(i)
                     /\ \A t \in Threads : ~Busy(t, i)
  BY DEF Arrived, Busy
<1>4. Arrived(i)' <=> /\ given'[Watch(i)] # "none" /\ \A a \in tasks' : a.child # Watch(i)
                      /\ \A t \in Threads : ~Busy(t, i)'
  BY DEF Arrived, Busy
<1>5. CASE given[Watch(i)] = "none"
  <2>1. (\A a \in tasks' : a.child # Watch(i)) => given'[Watch(i)] = "none"
    BY <1>1, <1>5
  <2> QED BY <1>3, <1>4, <1>5, <2>1
<1>6. CASE given[Watch(i)] # "none"
  <2>1. posts[Watch(i)] > 0 /\ given'[Watch(i)] = given[Watch(i)]
    BY <1>1, <1>2, <1>6
  <2>2. \A a \in tasks' \ tasks : a.child # Watch(i)
    BY <1>1, <2>1
  <2> QED BY <1>3, <1>4, <1>6, <2>1, <2>2
<1> QED BY <1>5, <1>6

\* Nothing arrives.
LEMMA NoArrival ==
    ASSUME \A i \in Ops : /\ Arrived(i)' <=> Arrived(i)
                          /\ Arrived(i) => given'[Watch(i)] = given[Watch(i)]
    PROVE  Arrivals' = Arrivals
BY DEF Arrivals

\* One result arrives.
LEMMA OneArrival ==
    ASSUME NEW i \in Ops, ~Arrived(i), Arrived(i)',
           \A j \in Ops \ {i} : /\ Arrived(j)' <=> Arrived(j)
                                /\ Arrived(j) => given'[Watch(j)] = given[Watch(j)]
    PROVE  /\ Arrivals[i] = "none"
           /\ Arrivals' = [Arrivals EXCEPT ![i] = given'[Watch(i)]]
<1>1. /\ Arrivals = [j \in Ops |-> IF Arrived(j) THEN given[Watch(j)] ELSE "none"]
      /\ Arrivals' = [j \in Ops |-> IF Arrived(j)' THEN given'[Watch(j)] ELSE "none"]
  BY DEF Arrivals
<1>2. Arrivals'[i] = given'[Watch(i)] /\ Arrivals[i] = "none"
  BY <1>1
<1>3. \A j \in Ops \ {i} : Arrivals'[j] = Arrivals[j]
  BY <1>1
<1> QED BY <1>1, <1>2, <1>3

\* Something is sent to the caller exactly when Joint is done.
LEMMA ToldIs ==
    ASSUME CompoundInv, PromiseInv
    PROVE  /\ Told = "none" <=> ~Done(Joint)
           /\ Joint \in aborted => Done(Joint) /\ posts[Guard] = 0
           /\ Joint \notin aborted => Told = given[Guard]
<1> USE Names, NullCtxAssumption DEF Functors
<1>1. /\ ChainInv /\ LinksInv /\ posts \in [Ctx -> Nat]
      /\ \A c \in Functors : given[c] = "none" <=> posts[c] = 0
  BY DEF CompoundInv, PromiseInv, ChainInv, ChainTypeOK
<1>2. posts[Guard] > 0 => Done(Joint) /\ Joint \notin aborted
  <2>1. posts[Guard] > 0 => /\ m_parent[Guard] = Joint
                            /\ Done(m_parent[Guard])
                            /\ m_parent[Guard] \notin aborted
    <3>1. ASSUME posts[Guard] > 0 PROVE m_parent[Guard] = Joint
      <4>1. Born(Guard)
        BY <1>1, <3>1 DEF ChainInv, Linked
      <4> QED BY <1>1, <4>1 DEF LinksInv
    <3> QED BY <1>1, <3>1 DEF ChainInv, AbortSilences
  <2> QED BY <2>1
<1>3. ASSUME Done(Joint), Joint \notin aborted PROVE posts[Guard] > 0
  <2>1. PICK c \in Ctx : m_parent[c] = Joint /\ posts[c] = 1
    BY <1>1, <1>3 DEF ChainInv, ResultDelivered
  <2>2. c = Guard
    BY <1>1, <2>1 DEF LinksInv
  <2> QED BY <2>1, <2>2
<1>4. Joint \in aborted => Done(Joint)
  BY <1>1 DEF ChainInv
<1> QED BY <1>1, <1>2, <1>3, <1>4 DEF Told

\* A step in which no result arrives.
LEMMA NoArrivalKeeps ==
    ASSUME CompoundInv, PromiseInv, PostsAtMostOne, Given, tasks \subseteq tasks', form' = form,
           \A t \in Threads, i \in Ops : Busy(t, i)' <=> Busy(t, i),
           \A t \in Threads : running'[t] \in Functors =>
                                 running'[t] = running[t] /\ input'[t] = input[t],
           \A t \in Threads : label'[t] \in {"store", "settle"} =>
                                 /\ input'[t] = input[t]
                                 /\ label[t] \in {"store", "settle"} \/ Counts(input[t]),
           \A i \in Ops : res[i] # "none" => res'[i] # "none",
           Done(Joint) => Done(Joint)'
    PROVE  PromiseInv' /\ Arrivals' = Arrivals
<1> USE Names
<1>1. \A i \in Ops : /\ Arrived(i)' <=> Arrived(i)
                     /\ Arrived(i) => given'[Watch(i)] = given[Watch(i)]
  BY ArrivedKept
<1>2. /\ given' \in [Ctx -> {"none"} \cup Results]
      /\ \A c \in Functors : given'[c] = "none" <=> posts'[c] = 0
      /\ \A a \in tasks' : given'[a.child] = a.result
      /\ \A c \in Ctx : posts[c] > 0 => given'[c] = given[c]
  BY GivenStep
<1>3. ASSUME NEW t \in Threads, running'[t] \in Functors
      PROVE  input'[t] = given'[running'[t]]
  <2>1. running'[t] = running[t] /\ input'[t] = input[t] /\ posts[running[t]] > 0
    BY <1>3 DEF CompoundInv, ThreadInv
  <2>2. input[t] = given[running[t]]
    BY <1>3, <2>1 DEF PromiseInv
  <2> QED BY <1>2, <1>3, <2>1, <2>2
<1>4. \A r : Counts(r)' <=> Counts(r)
  BY DEF Counts
<1>5. ASSUME NEW t \in Threads, label'[t] \in {"store", "settle"} PROVE Counts(input[t])'
  <2>1. Counts(input[t]) /\ input'[t] = input[t]
    BY <1>5 DEF PromiseInv
  <2> QED BY <2>1 DEF Counts
<1>6. ASSUME NEW i \in Ops, Arrived(i)'
      PROVE  /\ Counts(given[Watch(i)])' => res'[i] # "none"
             /\ ~Counts(given[Watch(i)])' => Done(Joint)'
  <2>1. /\ Counts(given[Watch(i)]) => res[i] # "none"
        /\ ~Counts(given[Watch(i)]) => Done(Joint)
        /\ given'[Watch(i)] = given[Watch(i)]
    BY <1>1, <1>6 DEF PromiseInv
  <2>2. Counts(given[Watch(i)])' <=> Counts(given[Watch(i)])
    BY <2>1 DEF Counts
  <2> QED BY <2>1, <2>2
<1>7. PromiseInv'
  BY <1>2, <1>3, <1>5, <1>6 DEF PromiseInv
<1> QED BY <1>1, <1>7, NoArrival

\* A functor has done with its result what it does: the result has arrived.
LEMMA ArrivalKeeps ==
    ASSUME CompoundInv, PromiseInv, PostsAtMostOne, Given, tasks \subseteq tasks', form' = form,
           NEW t \in Threads, NEW i \in Ops, NEW l \in {"cancel", "return"},
           running[t] = Watch(i), label[t] \in {"call", "store", "settle"},
           running' = running, input' = input, label' = [label EXCEPT ![t] = l], res' = res,
           Done(Joint) => Done(Joint)',
           Counts(input[t]) => res[i] # "none",
           ~Counts(input[t]) => Done(Joint)'
    PROVE  /\ PromiseInv'
           /\ input[t] \in Results /\ Arrivals[i] = "none"
           /\ Arrivals' = [Arrivals EXCEPT ![i] = input[t]]
<1> USE Names
<1>1. /\ Watch(i) \in Functors /\ Watch(i) \in Ctx /\ posts[Watch(i)] > 0
      /\ input[t] \in Results /\ input[t] = given[Watch(i)]
  BY DEF CompoundInv, ThreadInv, PromiseInv, Functors, Watches
<1>2. /\ given' \in [Ctx -> {"none"} \cup Results]
      /\ \A c \in Functors : given'[c] = "none" <=> posts'[c] = 0
      /\ \A a \in tasks' : given'[a.child] = a.result
      /\ \A c \in Ctx : posts[c] > 0 => given'[c] = given[c]
      /\ \A a \in tasks' \ tasks : posts[a.child] = 0
  BY GivenStep
<1>3. label'[t] = l /\ \A u \in Threads \ {t} : label'[u] = label[u]
  BY DEF CompoundInv, TypeOK
<1>4. ASSUME NEW j \in Ops \ {i}
      PROVE  /\ Arrived(j)' <=> Arrived(j)
             /\ Arrived(j) => given'[Watch(j)] = given[Watch(j)]
  <2>1. \A u \in Threads : Busy(u, j)' <=> Busy(u, j)
    BY <1>3 DEF Busy
  <2> QED BY <2>1, ArrivedKept
<1>5. ~Arrived(i)
  BY DEF Arrived
<1>6. Arrived(i)'
  <2>1. given'[Watch(i)] # "none"
    BY <1>1, <1>2 DEF Results
  <2>2. \A a \in tasks' : a.child # Watch(i)
    BY <1>1, <1>2 DEF CompoundInv, OnceInv
  <2>3. \A u \in Threads : running'[u] = Watch(i) => label'[u] \in {"cancel", "return"}
    BY <1>1, <1>3, NullCtxAssumption DEF CompoundInv, OnceInv, Idle
  <2> QED BY <2>1, <2>2, <2>3 DEF Arrived
<1>7. Arrivals[i] = "none" /\ Arrivals' = [Arrivals EXCEPT ![i] = input[t]]
  BY <1>1, <1>2, <1>4, <1>5, <1>6, OneArrival
<1>8. ASSUME NEW u \in Threads, running'[u] \in Functors PROVE input'[u] = given'[running'[u]]
  <2>1. posts[running[u]] > 0 /\ input[u] = given[running[u]]
    BY <1>8 DEF CompoundInv, ThreadInv, PromiseInv
  <2> QED BY <1>2, <1>8, <2>1
<1>9. ASSUME NEW u \in Threads, label'[u] \in {"store", "settle"} PROVE Counts(input[u])'
  <2>1. Counts(input[u])
    BY <1>3, <1>9 DEF PromiseInv
  <2> QED BY <2>1 DEF Counts
<1>10. ASSUME NEW j \in Ops, Arrived(j)'
       PROVE  /\ Counts(given[Watch(j)])' => res'[j] # "none"
              /\ ~Counts(given[Watch(j)])' => Done(Joint)'
  <2>1. CASE j = i
    <3>1. Counts(given[Watch(i)])' <=> Counts(input[t])
      BY <1>1, <1>2 DEF Counts
    <3> QED BY <2>1, <3>1
  <2>2. CASE j # i
    <3>1. /\ Counts(given[Watch(j)]) => res[j] # "none"
          /\ ~Counts(given[Watch(j)]) => Done(Joint)
          /\ given'[Watch(j)] = given[Watch(j)]
      BY <1>4, <1>10, <2>2 DEF PromiseInv
    <3>2. Counts(given[Watch(j)])' <=> Counts(given[Watch(j)])
      BY <3>1 DEF Counts
    <3> QED BY <3>1, <3>2
  <2> QED BY <2>1, <2>2
<1>11. PromiseInv'
  BY <1>2, <1>8, <1>9, <1>10 DEF PromiseInv
<1> QED BY <1>1, <1>7, <1>11

\* A step that posts nothing to add_cancel() sends the caller nothing.
LEMMA ToldKept ==
    ASSUME CompoundInv, PromiseInv, PostsAtMostOne, Given, aborted' = aborted,
           \A a \in tasks' \ tasks : a.child # Guard
    PROVE  Told' = Told
<1>1. given'[Guard] = given[Guard]
  BY GivenStep, Names
<1> QED BY <1>1 DEF Told

\* The caller is sent the first result that Joint is given.
LEMMA ToldFirst ==
    ASSUME CompoundInv, PromiseInv, Given,
           NEW x \in Ctx, NEW r \in Results, Settle(x, r, m_pending, tasks),
           UNCHANGED pairVars, aborted' = aborted,
           x = Joint => m_pending[Joint] \in {"callbacks", "done"}
    PROVE  /\ PostsAtMostOne /\ tasks \subseteq tasks'
           /\ Done(Joint) => Done(Joint)'
           /\ x # Joint => Told' = Told
           /\ x = Joint => Done(Joint)' /\ Told' = IF Told = "none" THEN r ELSE Told
<1> USE Names, NullCtxAssumption
<1>1. ChainInv /\ LinksInv
  BY DEF CompoundInv
<1>2. /\ OnlySettles /\ PostsAtMostOne
      /\ \A a \in tasks' \ tasks :
           a = [child |-> callee[x], result |-> r] /\ m_parent[a.child] = x
      /\ m_pending[x] = "callbacks" =>
           [child |-> callee[x], result |-> r] \in tasks' /\ m_pending'[x] = "done"
      /\ tasks \subseteq tasks'
  BY ONLY <1>1, SettleEffect, Settle(x, r, m_pending, tasks), UNCHANGED pairVars
<1>3. Done(Joint) => Done(Joint)'
  BY <1>2 DEF OnlySettles, Done, Results
<1>4. ASSUME x # Joint PROVE Told' = Told
  <2>1. m_parent[Guard] \in {NoCtx, Joint}
    BY <1>1 DEF LinksInv
  <2>2. \A a \in tasks' \ tasks : a.child # Guard
    BY <1>2, <1>4, <2>1
  <2> QED BY <1>2, <2>2, ToldKept
<1>5. ASSUME x = Joint, m_pending[Joint] = "done"
      PROVE  Done(Joint)' /\ Told' = IF Told = "none" THEN r ELSE Told
  <2>1. tasks' = tasks
    BY <1>5 DEF Settle, Results
  <2>2. Told' = Told
    BY <1>2, <2>1, ToldKept
  <2> QED BY <1>3, <1>5, <2>2, ToldIs DEF Done
<1>6. ASSUME x = Joint, m_pending[Joint] = "callbacks"
      PROVE  Done(Joint)' /\ Told' = IF Told = "none" THEN r ELSE Told
  <2>1. callee[Joint] = Guard
    BY <1>1, <1>6, Watched
  <2>2. Done(Joint)' /\ [child |-> Guard, result |-> r] \in tasks'
    BY <1>2, <1>6, <2>1 DEF Done
  <2>3. given'[Guard] = r
    <3> SUFFICES ASSUME NEW a, a = [child |-> Guard, result |-> r] PROVE given'[Guard] = r
      OBVIOUS
    <3>1. a \in tasks' /\ a.child = Guard /\ a.result = r
      BY <2>2
    <3> QED BY <1>2, <3>1, GivenStep
  <2>4. ~Done(Joint)
    BY <1>6 DEF Done
  <2>5. Told = "none" /\ Joint \notin aborted
    BY <2>4, ToldIs
  <2>6. Joint \notin aborted'
    BY <2>5
  <2> QED BY <2>2, <2>3, <2>5, <2>6 DEF Told
<1> QED BY <1>2, <1>3, <1>4, <1>5, <1>6
-----------------------------------------------------------------------------
(* Every step keeps the promise.                                           *)

PromiseVars == <<form, Arrivals, Told, asked>>

\* A step that is one of the promise, or none, and keeps the invariant.
Keeps == PromiseInv' /\ (Promised!PromiseNext \/ UNCHANGED PromiseVars)

\* The caller's functors run and the compound operation is constructed.
LEMMA StartPromises ==
    ASSUME SingleInv, NEW t \in Threads, NEW f \in Forms, Start(t, f), Given PROVE Keeps
<1> USE Names, NullCtxAssumption
<1>1. CompoundInv /\ PromiseInv /\ ChainInv /\ LinksInv
  BY DEF SingleInv, CompoundInv
<1>2. /\ form = "none" /\ form' = f
      /\ running' = [running EXCEPT ![t] = Joint]
      /\ label' = [label EXCEPT ![t] = "attach"]
      /\ tasks' = tasks /\ posts' = posts /\ aborted' = aborted /\ asked' = asked /\ res' = res
  BY DEF Start, Begin, Goto, historyVars
<1>3. \A c \in Ctx : posts[c] = 0
  BY <1>1, <1>2 DEF LinksInv, ChainInv, Linked, Born
<1>4. PostsAtMostOne
  BY <1>2 DEF PostsAtMostOne
<1>5. /\ given' \in [Ctx -> {"none"} \cup Results]
      /\ \A c \in Functors : given'[c] = "none" <=> posts'[c] = 0
      /\ \A a \in tasks' : given'[a.child] = a.result
  BY <1>1, <1>4, GivenStep
<1>6. \A c \in Functors : given[c] = "none" /\ given'[c] = "none"
  BY <1>1, <1>2, <1>3, <1>5 DEF PromiseInv
<1>7. \A i \in Ops : ~Arrived(i) /\ ~Arrived(i)'
  BY <1>6 DEF Arrived, Functors, Watches
<1>8. Arrivals' = Arrivals
  BY <1>7, NoArrival
<1>9. Told' = Told
  BY <1>2, <1>6 DEF Told, Functors
<1>10. ASSUME NEW u \in Threads
       PROVE  running'[u] \notin Functors /\ label'[u] \notin {"store", "settle"}
  <2>1. /\ running \in [Threads -> Ctx \cup {NoCtx}] /\ DOMAIN label = Threads
        /\ ThreadInv(u)
    BY <1>1 DEF CompoundInv, TypeOK
  <2>2. running[u] \notin Functors /\ label[u] \notin {"store", "settle"}
    BY <1>3, <2>1 DEF ThreadInv
  <2> QED BY <1>2, <2>1, <2>2 DEF Functors, Watches
<1>11. PromiseInv'
  BY <1>5, <1>7, <1>10 DEF PromiseInv
<1>12. Promised!Call(f)
  BY <1>2, <1>8, <1>9 DEF Promised!Call
<1> QED BY <1>11, <1>12 DEF Keeps, Promised!PromiseNext

\* The functors that watch are attached; results that the operations already have are given
\* to them, and wait in the event loop.
LEMMA AttachPromises ==
    ASSUME SingleInv, NEW t \in Threads, AttachWatch(t), Given PROVE Keeps
<1> USE Names, NullCtxAssumption
<1>1. CompoundInv /\ PromiseInv /\ FirstInv /\ TypeOK /\ ThreadInv(t)
  BY DEF SingleInv, CompoundInv
<1>2. /\ label[t] = "attach" /\ running[t] = Joint
      /\ aborted' = aborted /\ form' = form /\ res' = res /\ asked' = asked
  BY <1>1, AttachWatchAttaches DEF ThreadInv
<1>3. PICK x \in {Joint} \cup {Op(i) : i \in Ops}, child \in Functors :
         /\ Born(x) /\ Attach(x, child, "then_both", NoCtx, tasks) /\ UNCHANGED <<held, aborted>>
         /\ child = Guard => x = Joint
  BY <1>1, AttachWatchAttaches
<1>4. /\ PostsAtMostOne /\ tasks \subseteq tasks'
      /\ \A a \in tasks' \ tasks : a = [child |-> child, result |-> m_pending[x]]
      /\ m_pending'[x] = "done" <=> m_pending[x] \in {"done"} \cup Results
      /\ \A c \in Ctx \ {x, child} : m_pending'[c] = m_pending[c]
      /\ m_pending[child] = "unborn"
  <2>1. x \in Ctx
    BY <1>3
  <2> QED BY <1>1, <1>3, <2>1, AttachEffect
<1>5. Done(Joint) => Done(Joint)'
  BY <1>4 DEF Done
<1>6. /\ running'[t] \in {Joint, NoCtx} /\ label'[t] \in {"attach", "idle"}
      /\ \A u \in Threads \ {t} : /\ running'[u] = running[u] /\ label'[u] = label[u]
                                  /\ input'[u] = input[u]
  BY <1>1, <1>2 DEF AttachWatch, Finish, Goto, TypeOK
<1>7. \A u \in Threads, i \in Ops : Busy(u, i)' <=> Busy(u, i)
  BY <1>2, <1>6 DEF Busy
<1>8. PromiseInv' /\ Arrivals' = Arrivals
  <2>1. \A u \in Threads : running'[u] \in Functors =>
                              running'[u] = running[u] /\ input'[u] = input[u]
    BY <1>6 DEF Functors, Watches
  <2>2. \A u \in Threads : label'[u] \in {"store", "settle"} =>
                              /\ input'[u] = input[u]
                              /\ label[u] \in {"store", "settle"} \/ Counts(input[u])
    BY <1>6
  <2> QED BY <1>1, <1>2, <1>4, <1>5, <1>7, <2>1, <2>2, NoArrivalKeeps
<1>9. Told' = Told
  <2>1. \A a \in tasks' \ tasks : a.child # Guard
    <3>1. m_pending[Joint] \notin Results \cup {"done"}
      BY <1>1, <1>2 DEF ThreadInv, FirstInv, Finished
    <3>2. ASSUME NEW a \in tasks' \ tasks, a.child = Guard PROVE FALSE
      <4>1. a = [child |-> child, result |-> m_pending[x]] /\ a.child = child
        BY <1>4, <3>2
      <4>2. x = Joint
        BY <1>3, <3>2, <4>1
      <4>3. a.result = m_pending[Joint] /\ a.result \in Results
        BY <1>4, <3>2, <4>1, <4>2 DEF PostsAtMostOne, PostsFunctor
      <4> QED BY <3>1, <4>3
    <3> QED BY <3>2
  <2> QED BY <1>1, <1>2, <1>4, <2>1, ToldKept
<1> QED BY <1>2, <1>8, <1>9 DEF Keeps, PromiseVars

\* A functor is taken from the event loop; its result has not arrived before it has run.
LEMMA TakePromises ==
    ASSUME SingleInv, NEW t \in Threads, NEW task \in tasks, Take(t, task), Given PROVE Keeps
<1> USE Names, NullCtxAssumption
<1>1. CompoundInv /\ PromiseInv /\ OnceInv /\ TypeOK
  BY DEF SingleInv, CompoundInv
<1>2. /\ Idle(t) /\ running' = [running EXCEPT ![t] = task.child]
      /\ input' = [input EXCEPT ![t] = task.result] /\ label' = [label EXCEPT ![t] = "call"]
      /\ tasks' = tasks \ {task} /\ m_pending' = m_pending /\ posts' = posts
      /\ aborted' = aborted /\ form' = form /\ res' = res /\ asked' = asked
  BY DEF Take, Begin, Goto, historyVars, sharedVars
<1>3. given' = given
  <2>1. given \in [Ctx -> {"none"} \cup Results] /\ tasks' \ tasks = {}
    BY <1>1, <1>2 DEF PromiseInv
  <2> QED BY <2>1 DEF Given
<1>4. /\ running'[t] = task.child /\ input'[t] = task.result /\ label'[t] = "call"
      /\ \A u \in Threads \ {t} : /\ running'[u] = running[u] /\ input'[u] = input[u]
                                  /\ label'[u] = label[u]
      /\ \A u \in Threads : running[u] # task.child
      /\ \A a \in tasks' : a \in tasks /\ a.child # task.child
  BY <1>1, <1>2 DEF TypeOK, OnceInv
<1>5. ASSUME NEW i \in Ops PROVE Arrived(i)' <=> Arrived(i)
  <2>1. CASE task.child = Watch(i)
    <3>1. ~Arrived(i)
      BY <2>1 DEF Arrived
    <3>2. ~Arrived(i)'
      BY <1>4, <2>1 DEF Arrived
    <3> QED BY <3>1, <3>2
  <2>2. CASE task.child # Watch(i)
    <3>1. (\A a \in tasks' : a.child # Watch(i)) <=> (\A a \in tasks : a.child # Watch(i))
      BY <1>2, <2>2
    <3>2. /\ running[t] # Watch(i) /\ running'[t] # Watch(i)
      BY <1>2, <1>4, <2>2 DEF Idle
    <3>3. (\A u \in Threads : running'[u] = Watch(i) => label'[u] \in {"cancel", "return"})
            <=> (\A u \in Threads : running[u] = Watch(i) => label[u] \in {"cancel", "return"})
      BY <1>4, <3>2
    <3> QED BY <1>3, <3>1, <3>3 DEF Arrived
  <2> QED BY <2>1, <2>2
<1>6. Arrivals' = Arrivals /\ Told' = Told
  BY <1>2, <1>3, <1>5, NoArrival DEF Told
<1>7. PromiseInv'
  <2>1. \A u \in Threads : running'[u] \in Functors => input'[u] = given'[running'[u]]
    BY <1>1, <1>3, <1>4 DEF PromiseInv
  <2>2. \A u \in Threads : label'[u] \in {"store", "settle"} => Counts(input[u])'
    BY <1>1, <1>2, <1>4 DEF PromiseInv, Counts
  <2>3. \A a \in tasks' : given'[a.child] = a.result
    BY <1>1, <1>3, <1>4 DEF PromiseInv
  <2>4. \A i \in Ops : Arrived(i)' => /\ Counts(given[Watch(i)])' => res'[i] # "none"
                                      /\ ~Counts(given[Watch(i)])' => Done(Joint)'
    BY <1>1, <1>2, <1>3, <1>5 DEF PromiseInv, Counts, Done
  <2> QED BY <1>1, <1>2, <1>3, <2>1, <2>2, <2>3, <2>4 DEF PromiseInv
<1> QED BY <1>2, <1>6, <1>7 DEF Keeps, PromiseVars

\* A functor counts its result, or add_cancel() looks at its own.
LEMMA LocalPromises ==
    ASSUME SingleInv, NEW t \in Threads, CountResult(t) \/ GuardResult(t), Given PROVE Keeps
<1> USE Names, NullCtxAssumption
<1>1. CompoundInv /\ PromiseInv /\ TypeOK
  BY DEF SingleInv, CompoundInv
<1>2. /\ m_pending' = m_pending /\ tasks' = tasks /\ posts' = posts /\ aborted' = aborted
      /\ running' = running /\ input' = input /\ form' = form /\ asked' = asked
      /\ label[t] = "call"
  BY DEF CountResult, GuardResult, chainVars, sharedVars, historyVars
<1>3. /\ label' = [label EXCEPT ![t] = label'[t]]
      /\ \A i \in Ops : res[i] # "none" => res'[i] # "none"
      /\ \/ running[t] = Guard /\ label'[t] \in {"cancel", "return"}
         \/ label'[t] = "store" /\ Counts(input[t])
  <2>1. CASE CountResult(t)
    <3>1. PICK i \in Ops : Counts(input[t]) /\ res' = [res EXCEPT ![i] = input[t]]
      BY <2>1 DEF CountResult
    <3>2. Counts(input[t]) /\ label' = [label EXCEPT ![t] = "store"]
      BY <2>1, <3>1 DEF CountResult, Goto
    <3>3. input[t] # "none"
      <4>1. running[t] \in Functors /\ ThreadInv(t)
        BY <1>1, <2>1 DEF CountResult, Functors, Watches, CompoundInv
      <4> QED BY <4>1 DEF ThreadInv, Results
    <3> QED BY <1>1, <3>1, <3>2, <3>3 DEF TypeOK
  <2>2. CASE GuardResult(t)
    <3>1. /\ running[t] = Guard /\ res' = res
          /\ \/ label' = [label EXCEPT ![t] = "cancel"]
             \/ label' = [label EXCEPT ![t] = "return"]
      BY <2>2 DEF GuardResult, Goto, sharedVars
    <3> QED BY <1>1, <3>1 DEF TypeOK
  <2> QED BY <2>1, <2>2
<1>4. \A u \in Threads \ {t} : label'[u] = label[u]
  BY <1>1, <1>3 DEF TypeOK
<1>5. \A u \in Threads, i \in Ops : Busy(u, i)' <=> Busy(u, i)
  BY <1>2, <1>3, <1>4 DEF Busy
<1>6. PostsAtMostOne /\ tasks' \ tasks = {}
  BY <1>2 DEF PostsAtMostOne
<1>7. \A u \in Threads : label'[u] \in {"store", "settle"} =>
                            /\ input'[u] = input[u]
                            /\ label[u] \in {"store", "settle"} \/ Counts(input[u])
  BY <1>2, <1>3, <1>4
<1>8. Done(Joint) => Done(Joint)'
  BY <1>2 DEF Done
<1>9. PromiseInv' /\ Arrivals' = Arrivals
  BY <1>1, <1>2, <1>3, <1>5, <1>6, <1>7, <1>8, NoArrivalKeeps
<1>10. Told' = Told
  BY <1>1, <1>2, <1>6, ToldKept
<1> QED BY <1>2, <1>9, <1>10 DEF Keeps, PromiseVars

\* The next result of the promise.
LEMMA ArriveIs ==
    ASSUME NEW i \in Ops, NEW r \in Results, form # "none",
           Arrivals[i] = "none", Arrivals' = [Arrivals EXCEPT ![i] = r],
           form' = form, asked' = asked,
           Told' = IF Told # "none" THEN Told
                   ELSE IF form = "when_any" \/ (form = "when_success" /\ r # "value") THEN r
                   ELSE IF \A j \in Ops \ {i} : Arrivals[j] # "none" THEN "value" ELSE "none"
    PROVE  Promised!PromiseNext
<1>1. Told' = Promised!Verdict(r, \A j \in Promised!Ops \ {i} : Arrivals[j] # "none")
  BY DEF Promised!Verdict, Promised!Decides, Promised!Ops, Ops
<1>2. Promised!Arrive(i, r)
  BY <1>1 DEF Promised!Arrive
<1> QED BY <1>2 DEF Promised!PromiseNext, Promised!Ops, Ops

\* A functor that runs belongs to a call.
LEMMA RunsInCall ==
    ASSUME CompoundInv, NEW t \in Threads, running[t] \in Functors
    PROVE  form \in {"when_all", "when_success", "when_any"}
<1>1. posts[running[t]] > 0 /\ running[t] \in Ctx
  BY Names DEF CompoundInv, ThreadInv
<1>2. Born(running[t])
  BY <1>1, FunctorReady DEF CompoundInv
<1> QED BY <1>1, <1>2, FormsAssumption DEF CompoundInv, LinksInv, TypeOK

\* A result that is counted arrives when it turns out not to be the last one.
LEMMA StorePromises ==
    ASSUME SingleInv, OneThread, NEW t \in Threads, StoreCounter(t), Given PROVE Keeps
<1> USE Names, NullCtxAssumption
<1>1. CompoundInv /\ PromiseInv /\ TypeOK /\ ReturnInv /\ ThreadInv(t)
  BY DEF SingleInv, CompoundInv
<1>2. /\ m_pending' = m_pending /\ tasks' = tasks /\ posts' = posts /\ aborted' = aborted
      /\ running' = running /\ input' = input /\ form' = form /\ asked' = asked /\ res' = res
      /\ label[t] = "store" /\ counter' = loaded[t] - 1
  BY DEF StoreCounter, chainVars, historyVars
<1>3. PICK i \in Ops : running[t] = Watch(i) /\ res[i] # "none"
  BY <1>1, <1>2 DEF ThreadInv
<1>4. PostsAtMostOne /\ tasks' \ tasks = {} /\ (Done(Joint) => Done(Joint)')
  BY <1>2 DEF PostsAtMostOne, Done
<1>5. Told' = Told
  BY <1>1, <1>2, <1>4, ToldKept
<1>6. Counts(input[t]) /\ form \in {"when_all", "when_success"}
  BY <1>1, <1>2 DEF PromiseInv, ThreadInv
<1>7. CASE loaded[t] - 1 = 0
  <2>1. label' = [label EXCEPT ![t] = "settle"]
    BY <1>7 DEF StoreCounter, Goto
  <2>2. label'[t] = "settle" /\ \A u \in Threads \ {t} : label'[u] = label[u]
    BY <1>1, <2>1 DEF TypeOK
  <2>3. \A u \in Threads, j \in Ops : Busy(u, j)' <=> Busy(u, j)
    BY <1>2, <2>2 DEF Busy
  <2>4. \A u \in Threads : label'[u] \in {"store", "settle"} =>
                              /\ input'[u] = input[u]
                              /\ label[u] \in {"store", "settle"} \/ Counts(input[u])
    BY <1>2, <2>2
  <2>5. PromiseInv' /\ Arrivals' = Arrivals
    BY <1>1, <1>2, <1>4, <2>3, <2>4, NoArrivalKeeps
  <2> QED BY <1>2, <1>5, <2>5 DEF Keeps, PromiseVars
<1>8. CASE loaded[t] - 1 # 0
  <2>1. label' = [label EXCEPT ![t] = "return"]
    BY <1>8 DEF StoreCounter, Goto
  <2>2. PromiseInv' /\ input[t] \in Results /\ Arrivals[i] = "none"
        /\ Arrivals' = [Arrivals EXCEPT ![i] = input[t]]
    BY <1>1, <1>2, <1>3, <1>4, <1>6, <2>1, ArrivalKeeps
  <2>3. ASSUME Told = "none" PROVE \E j \in Ops \ {i} : Arrivals[j] = "none"
    <3>1. ReturnInv' /\ counter' # 0
      <4>1. Next
        BY DEF Next, Body
      <4> QED BY <1>1, <1>2, <1>8, <4>1, ReturnStep
    <3>2. Counted' # Ops
      BY <3>1, FS_Interval, SizeAssumption DEF ReturnInv, Ops
    <3>3. PICK j \in Ops : j \notin Counted'
      BY <3>2 DEF Counted
    <3>4. label'[t] = "return" /\ \A u \in Threads : u = t
      BY <1>1, <2>1 DEF TypeOK, OneThread
    <3>5. res[j] = "none"
      BY <1>2, <3>3, <3>4 DEF Counted
    <3>6. ~Done(Joint)
      BY <1>1, <2>3, ToldIs
    <3>7. ~Arrived(j)
      BY <1>1, <3>5, <3>6 DEF PromiseInv
    <3> QED BY <1>3, <3>5, <3>7 DEF Arrivals
  <2>4. ~(form = "when_any" \/ (form = "when_success" /\ input[t] # "value"))
    BY <1>6 DEF Counts
  <2>5. Promised!PromiseNext
    BY <1>2, <1>5, <1>6, <2>2, <2>3, <2>4, ArriveIs
  <2> QED BY <2>2, <2>5 DEF Keeps
<1> QED BY <1>7, <1>8

\* The last result arrives, and Joint gets its success.
LEMMA SettlePromises ==
    ASSUME SingleInv, OneThread, NEW t \in Threads, SettleCounted(t), Given PROVE Keeps
<1> USE Names, NullCtxAssumption
<1>1. /\ CompoundInv /\ PromiseInv /\ FirstInv /\ TypeOK /\ ThreadInv(t) /\ OnceInv
      /\ posts \in [Ctx -> Nat]
  BY DEF SingleInv, CompoundInv, ChainInv, ChainTypeOK
<1>2. /\ label[t] = "settle" /\ Settle(Joint, "value", m_pending, tasks)
      /\ label' = [label EXCEPT ![t] = "return"] /\ UNCHANGED pairVars
      /\ aborted' = aborted /\ running' = running /\ input' = input /\ form' = form
      /\ asked' = asked /\ res' = res
  BY DEF SettleCounted, Conclude, Goto, sharedVars
<1>3. Counts(input[t]) /\ Counted = Ops /\ form \in {"when_all", "when_success"}
  BY <1>1, <1>2 DEF PromiseInv, ThreadInv
<1>4. PICK i \in Ops : running[t] = Watch(i)
  BY <1>1, <1>2 DEF ThreadInv, Watches
<1>5. m_pending[Joint] \in {"callbacks", "done"}
  BY <1>1, <1>2, FunctorsAfterGuard
<1>6. /\ PostsAtMostOne /\ tasks \subseteq tasks' /\ Done(Joint)'
      /\ Told' = IF Told = "none" THEN "value" ELSE Told
  <2>1. "value" \in Results
    BY DEF Results
  <2> QED BY <1>1, <1>2, <1>5, <2>1, ToldFirst
<1>7. /\ PromiseInv' /\ input[t] \in Results /\ Arrivals[i] = "none"
      /\ Arrivals' = [Arrivals EXCEPT ![i] = input[t]]
  <2>1. res[i] # "none"
    BY <1>3 DEF Counted
  <2> QED BY <1>1, <1>2, <1>3, <1>4, <1>6, <2>1, ArrivalKeeps
<1>8. ASSUME NEW j \in Ops \ {i} PROVE Arrivals[j] # "none"
  <2>1. /\ posts[Watch(j)] > 0 /\ \A a \in tasks : a.child # Watch(j)
    BY <1>1, <1>3 DEF Counted, OnceInv
  <2>2. \A u \in Threads : running[u] # Watch(j)
    BY <1>4 DEF OneThread
  <2>3. given[Watch(j)] # "none"
    BY <1>1, <2>1 DEF PromiseInv, Functors, Watches
  <2> QED BY <2>1, <2>2, <2>3 DEF Arrivals, Arrived
<1>9. ~(form = "when_any" \/ (form = "when_success" /\ input[t] # "value"))
  BY <1>3 DEF Counts
<1>10. Promised!PromiseNext
  BY <1>2, <1>3, <1>6, <1>7, <1>8, <1>9, ArriveIs
<1> QED BY <1>7, <1>10 DEF Keeps

\* A result that decides arrives, and Joint gets it.
LEMMA EarlyPromises ==
    ASSUME SingleInv, OneThread, NEW t \in Threads, SettleEarly(t), Given PROVE Keeps
<1> USE Names, NullCtxAssumption
<1>1. CompoundInv /\ PromiseInv /\ FirstInv /\ TypeOK /\ ThreadInv(t)
  BY DEF SingleInv, CompoundInv
<1>2. /\ label[t] = "call" /\ Settle(Joint, input[t], m_pending, tasks)
      /\ label' = [label EXCEPT ![t] = "cancel"] /\ UNCHANGED pairVars
      /\ aborted' = aborted /\ running' = running /\ input' = input /\ form' = form
      /\ asked' = asked /\ res' = res
  BY DEF SettleEarly, Conclude, Goto, sharedVars
<1>3. PICK i \in Ops : running[t] = Watch(i) /\ ~Counts(input[t])
  BY DEF SettleEarly
<1>4. running[t] \in Functors /\ input[t] \in Results
  BY <1>1, <1>3 DEF ThreadInv, Functors, Watches
<1>5. form \in {"when_all", "when_success", "when_any"}
  BY <1>1, <1>4, RunsInCall
<1>6. m_pending[Joint] \in {"callbacks", "done"}
  BY <1>1, <1>2, FunctorsAfterGuard
<1>7. /\ PostsAtMostOne /\ tasks \subseteq tasks' /\ Done(Joint)'
      /\ Told' = IF Told = "none" THEN input[t] ELSE Told
  BY <1>1, <1>2, <1>4, <1>6, ToldFirst
<1>8. /\ PromiseInv' /\ Arrivals[i] = "none"
      /\ Arrivals' = [Arrivals EXCEPT ![i] = input[t]]
  BY <1>1, <1>2, <1>3, <1>7, ArrivalKeeps
<1>9. form = "when_any" \/ (form = "when_success" /\ input[t] # "value")
  BY <1>3, <1>5 DEF Counts
<1>10. Promised!PromiseNext
  BY <1>2, <1>4, <1>5, <1>7, <1>8, <1>9, ArriveIs
<1> QED BY <1>8, <1>10 DEF Keeps

\* A result for another context than Joint, given by a functor that has done the rest.
LEMMA OthersPromise ==
    ASSUME SingleInv, Given, NEW x \in Ctx \ {Joint}, NEW r \in Results,
           Settle(x, r, m_pending, tasks), UNCHANGED pairVars,
           aborted' = aborted, form' = form, res' = res,
           \A t \in Threads :
              \/ running'[t] = running[t] /\ input'[t] = input[t] /\ label'[t] = label[t]
              \/ /\ running'[t] = NoCtx /\ label'[t] = "idle"
                 /\ label[t] \in {"cancel", "return"}
    PROVE  PromiseInv' /\ Arrivals' = Arrivals /\ Told' = Told
<1> USE Names, NullCtxAssumption
<1>1. CompoundInv /\ PromiseInv /\ NoCtx \notin Functors
  BY DEF SingleInv
<1>2. PostsAtMostOne /\ tasks \subseteq tasks' /\ (Done(Joint) => Done(Joint)') /\ Told' = Told
  BY <1>1, ToldFirst
<1>3. \A t \in Threads, i \in Ops : Busy(t, i)' <=> Busy(t, i)
  BY <1>1 DEF Busy
<1>4. \A t \in Threads : running'[t] \in Functors =>
                            running'[t] = running[t] /\ input'[t] = input[t]
  BY <1>1
<1>5. PromiseInv' /\ Arrivals' = Arrivals
  BY <1>1, <1>2, <1>3, <1>4, NoArrivalKeeps
<1> QED BY <1>2, <1>5

\* A functor cancels an operation.
LEMMA CancelPromises ==
    ASSUME SingleInv, NEW t \in Threads, CancelNext(t), Given PROVE Keeps
<1> USE Names
<1>1. LinksInv /\ left \in [Threads -> SUBSET Ops]
  BY DEF SingleInv, CompoundInv, TypeOK
<1>2. /\ running' = running /\ input' = input /\ label' = label
      /\ form' = form /\ asked' = asked /\ res' = res
      /\ left[t] # {} /\ Cancel(Op(Min(left[t])))
  BY DEF CancelNext, sharedVars, historyVars
<1>3. PICK i \in Ops : Cancel(Op(i))
  BY <1>1, <1>2, NextLeft
<1>4. /\ Settle(Op(i), "canceled", m_pending, tasks) /\ UNCHANGED pairVars /\ aborted' = aborted
      /\ "canceled" \in Results /\ Op(i) \in Ctx \ {Joint}
  BY <1>1, <1>3, CancelOperation DEF Results
<1>5. PromiseInv' /\ Arrivals' = Arrivals /\ Told' = Told
  BY <1>2, <1>4, OthersPromise
<1> QED BY <1>2, <1>5 DEF Keeps, PromiseVars

\* A functor returns.
LEMMA ReturnPromises ==
    ASSUME SingleInv, NEW t \in Threads, Return(t), Given PROVE Keeps
<1> USE Names
<1> SUFFICES ASSUME NEW x, x = running[t],
                    NEW r, r = IF running[t] = Guard THEN input[t] ELSE "value"
             PROVE  Keeps
  OBVIOUS
<1>1. TypeOK /\ ThreadInv(t)
  BY DEF SingleInv, CompoundInv
<1>2. /\ label[t] \in {"cancel", "return"} /\ Settle(x, r, m_pending, tasks)
      /\ UNCHANGED pairVars /\ aborted' = aborted
      /\ form' = form /\ asked' = asked /\ res' = res
      /\ running' = [running EXCEPT ![t] = NoCtx] /\ input' = [input EXCEPT ![t] = "none"]
      /\ label' = [label EXCEPT ![t] = "idle"]
  BY DEF Return, Finish, Goto, sharedVars, historyVars
<1>3. x \in Ctx \ {Joint} /\ r \in Results
  BY <1>1, <1>2 DEF ThreadInv, Functors, Watches, Results
<1>4. \A u \in Threads :
         \/ running'[u] = running[u] /\ input'[u] = input[u] /\ label'[u] = label[u]
         \/ /\ running'[u] = NoCtx /\ label'[u] = "idle"
            /\ label[u] \in {"cancel", "return"}
  BY <1>1, <1>2 DEF TypeOK
<1>5. PromiseInv' /\ Arrivals' = Arrivals /\ Told' = Told
  BY <1>2, <1>3, <1>4, OthersPromise
<1> QED BY <1>2, <1>5 DEF Keeps, PromiseVars

\* Client code completes, cancels or aborts an operation, or cancels or aborts the handle.
LEMMA ClientPromises == ASSUME SingleInv, Client, Given PROVE Keeps
<1> USE Names, NullCtxAssumption
<1>1. /\ CompoundInv /\ PromiseInv /\ FirstInv /\ ChainInv /\ LinksInv /\ asked \in BOOLEAN
  BY DEF SingleInv, CompoundInv, TypeOK
<1>2. /\ running' = running /\ input' = input /\ label' = label
      /\ form' = form /\ res' = res /\ asked' \in {asked, TRUE}
  BY DEF Client, localVars, sharedVars
<1>3. ASSUME NEW x \in Ctx, NEW r \in Results, aborted' = aborted,
             Settle(x, r, m_pending, tasks), UNCHANGED pairVars,
             x = Joint => (r = "canceled" /\ asked' = TRUE /\ Born(Guard))
      PROVE  Keeps
  <2>1. form # "none"
    <3>1. Born(x)
      BY ONLY <1>1, <1>3, SettleEffect
    <3> QED BY <1>1, <3>1 DEF LinksInv
  <2>2. CASE x = Joint
    <3>1. m_pending[Joint] \in {"callbacks", "done"}
      BY <1>1, <1>3, <2>2 DEF LinksInv
    <3>2. /\ PostsAtMostOne /\ tasks \subseteq tasks' /\ Done(Joint)'
          /\ Told' = IF Told = "none" THEN "canceled" ELSE Told
      BY <1>1, <1>3, <2>2, <3>1, ToldFirst
    <3>3. \A t \in Threads, i \in Ops : Busy(t, i)' <=> Busy(t, i)
      BY <1>2 DEF Busy
    <3>4. PromiseInv' /\ Arrivals' = Arrivals
      BY <1>1, <1>2, <3>2, <3>3, NoArrivalKeeps
    <3>5. Promised!Cancel
      BY <1>2, <1>3, <2>1, <2>2, <3>2, <3>4 DEF Promised!Cancel
    <3> QED BY <3>4, <3>5 DEF Keeps, Promised!PromiseNext
  <2>3. CASE x # Joint
    <3>1. PromiseInv' /\ Arrivals' = Arrivals /\ Told' = Told
      BY <1>2, <1>3, <2>3, OthersPromise
    <3>2. Promised!Cancel \/ UNCHANGED PromiseVars
      BY <1>2, <2>1, <3>1 DEF Promised!Cancel, PromiseVars
    <3> QED BY <3>1, <3>2 DEF Keeps, Promised!PromiseNext
  <2> QED BY <2>2, <2>3
<1>4. ASSUME Abort(Guard), asked' = asked PROVE Keeps
  <2>1. /\ Born(Guard) /\ OnlySettles /\ tasks' = tasks /\ posts' = posts /\ Done(Joint)'
        /\ Joint \in aborted' <=> (Joint \in aborted \/ ~Done(Joint))
    BY ONLY <1>1, <1>4, AbortGuard
  <2>2. PostsAtMostOne /\ tasks \subseteq tasks'
    BY <2>1 DEF PostsAtMostOne
  <2>3. \A t \in Threads, i \in Ops : Busy(t, i)' <=> Busy(t, i)
    BY <1>2 DEF Busy
  <2>4. PromiseInv' /\ Arrivals' = Arrivals
    BY <1>1, <1>2, <2>1, <2>2, <2>3, NoArrivalKeeps
  <2>5. given'[Guard] = given[Guard]
    <3>1. tasks' \ tasks = {}
      BY <2>1
    <3> QED BY <1>1, <2>2, <3>1, GivenStep
  <2>6. form # "none"
    BY <1>1, <2>1 DEF LinksInv
  <2>7. CASE Done(Joint)
    <3>1. Told' = Told
      BY <2>1, <2>5, <2>7 DEF Told
    <3> QED BY <1>2, <1>4, <2>4, <3>1 DEF Keeps, PromiseVars
  <2>8. CASE ~Done(Joint)
    <3>1. Told = "none" /\ Told' = "aborted"
      <4>1. Joint \in aborted'
        BY <2>1, <2>8
      <4> QED BY <1>1, <2>8, <4>1, ToldIs DEF Told
    <3>2. Promised!Abort
      BY <1>2, <1>4, <2>4, <2>6, <3>1 DEF Promised!Abort
    <3> QED BY <2>4, <3>2 DEF Keeps, Promised!PromiseNext
  <2> QED BY <2>7, <2>8
<1>5. ASSUME NEW i \in Ops, Abort(Op(i)), asked' = asked PROVE Keeps
  <2>1. /\ OnlySettles /\ tasks' = tasks /\ posts' = posts
        /\ m_pending'[Joint] = m_pending[Joint]
        /\ Joint \in aborted' <=> Joint \in aborted
    BY ONLY <1>1, <1>5, AbortOperation, Names
  <2>2. PostsAtMostOne /\ tasks \subseteq tasks' /\ (Done(Joint) => Done(Joint)')
    BY <2>1 DEF PostsAtMostOne, Done
  <2>3. \A t \in Threads, j \in Ops : Busy(t, j)' <=> Busy(t, j)
    BY <1>2 DEF Busy
  <2>4. PromiseInv' /\ Arrivals' = Arrivals
    BY <1>1, <1>2, <2>2, <2>3, NoArrivalKeeps
  <2>5. given'[Guard] = given[Guard]
    <3>1. tasks' \ tasks = {}
      BY <2>1
    <3> QED BY <1>1, <2>2, <3>1, GivenStep
  <2>6. Told' = Told
    BY <2>1, <2>5 DEF Told
  <2> QED BY <1>2, <1>5, <2>4, <2>6 DEF Keeps, PromiseVars
<1>6. CASE (\E h \in Handles : Abort(h)) /\ asked' = asked
  BY <1>4, <1>5, <1>6 DEF Handles
<1>7. CASE ~((\E h \in Handles : Abort(h)) /\ asked' = asked)
  <2>1. aborted' = aborted
    BY <1>7 DEF Client, AsyncReturn, Cancel, Handles
  <2>2. PICK x \in Ctx \ Watches, r \in Results :
           /\ Settle(x, r, m_pending, tasks) /\ UNCHANGED pairVars
           /\ x \in {Joint, Guard} => (r = "canceled" /\ asked' = TRUE /\ Born(Guard))
    BY <1>1, <1>7, ClientSettles
  <2> QED BY <1>3, <2>1, <2>2
<1> QED BY <1>6, <1>7

\* With one thread, each step of a compound operation is one of its promise, or changes
\* nothing that the promise is about.
LEMMA PromiseStep == ASSUME SingleInv, OneThread, Next, Given PROVE Keeps
<1>1. ASSUME NEW t \in Threads, NEW f \in Forms, Start(t, f) PROVE Keeps
  BY <1>1, StartPromises
<1>2. ASSUME NEW t \in Threads, NEW task \in tasks, Take(t, task) PROVE Keeps
  BY <1>2, TakePromises
<1>3. ASSUME NEW t \in Threads, Body(t) PROVE Keeps
  BY <1>3, AttachPromises, LocalPromises, StorePromises, SettlePromises, EarlyPromises,
     CancelPromises, ReturnPromises DEF Body
<1>4. CASE Client
  BY <1>4, ClientPromises
<1> QED BY <1>1, <1>2, <1>3, <1>4 DEF Next

\* Nothing has been given to anybody, and nothing promised.
LEMMA InitPromise ==
    PromisedInit => PromiseInv /\ Promised!PromiseInit
<1> SUFFICES ASSUME PromisedInit PROVE PromiseInv /\ Promised!PromiseInit
  OBVIOUS
<1> USE Names, NullCtxAssumption
<1>1. /\ \A c \in Ctx : given[c] = "none" /\ posts[c] = 0
      /\ given \in [Ctx -> {"none"} \cup Results]
      /\ tasks = {} /\ aborted = {} /\ form = "none" /\ asked = FALSE
      /\ \A t \in Threads : running[t] = NoCtx /\ label[t] = "idle"
  BY DEF PromisedInit, Init, ChainInit
<1>2. \A i \in Ops : ~Arrived(i)
  BY <1>1 DEF Arrived
<1>3. PromiseInv
  BY <1>1, <1>2 DEF PromiseInv
<1>4. Arrivals = [i \in Promised!Ops |-> "none"] /\ Told = "none"
  BY <1>1, <1>2 DEF Arrivals, Told, Promised!Ops, Ops
<1> QED BY <1>1, <1>3, <1>4 DEF Promised!PromiseInit

\* With one thread and any number of operations, when_all(), when_success() and when_any()
\* keep their promise: the shared counter and the loops that cancel the others pass the one
\* result on to add_cancel() that the operations decide by their order, as soon as they do,
\* or the cancellation with which the caller comes first, or nothing if he aborts first.
THEOREM CompoundKeepsPromise == ASSUME OneThread PROVE PromisedSpec => PromiseKept
<1>1. PromisedInit => SingleInv
  BY InitCompound, InitReturn, InitFirst, InitPromise DEF PromisedInit, SingleInv
<1>2. SingleInv /\ [Next /\ Given]_promisedVars =>
        SingleInv' /\ [Promised!PromiseNext]_(Promised!promiseVars)
  <2> SUFFICES ASSUME SingleInv, [Next /\ Given]_promisedVars
               PROVE  SingleInv' /\ [Promised!PromiseNext]_(Promised!promiseVars)
    OBVIOUS
  <2>1. CASE Next /\ Given
    <3>1. CompoundInv' /\ ReturnInv' /\ FirstInv'
      BY <2>1, CompoundStep, ReturnStep, FirstStep DEF SingleInv
    <3>2. Keeps
      BY <2>1, PromiseStep
    <3> QED BY <3>1, <3>2 DEF Keeps, SingleInv, PromiseVars, Promised!promiseVars
  <2>2. CASE UNCHANGED promisedVars
    <3>1. UNCHANGED compoundVars /\ given' = given
      BY <2>2 DEF promisedVars
    <3>2. /\ tasks' = tasks /\ posts' = posts /\ running' = running /\ label' = label
          /\ input' = input /\ res' = res /\ form' = form /\ asked' = asked
          /\ m_pending' = m_pending /\ aborted' = aborted
      BY <3>1 DEF compoundVars, chainVars, localVars, sharedVars, historyVars
    <3>3. CompoundInv'
      BY <3>1, CompoundStep DEF SingleInv
    <3>4. ReturnInv'
      BY <3>1 DEF compoundVars, chainVars, localVars, sharedVars, ReturnInv, Finished,
                  Counted, SingleInv
    <3>5. FirstInv'
      BY <3>1 DEF compoundVars, chainVars, localVars, sharedVars, historyVars, FirstInv,
                  FirstWins, Finished, Born, SingleInv
    <3>6. \A i \in Ops : Arrived(i)' <=> Arrived(i)
      BY <3>1, <3>2 DEF Arrived
    <3>7. Arrivals' = Arrivals /\ Told' = Told
      BY <3>1, <3>2, <3>6 DEF Arrivals, Told
    <3>8. PromiseInv'
      BY <3>1, <3>2, <3>6 DEF SingleInv, PromiseInv, Counts, Done
    <3> QED BY <3>2, <3>3, <3>4, <3>5, <3>7, <3>8 DEF SingleInv, Promised!promiseVars
  <2> QED BY <2>1, <2>2
<1>3. PromisedInit => Promised!PromiseInit
  BY InitPromise
<1> QED BY <1>1, <1>2, <1>3, PTL DEF PromisedSpec, PromiseKept, Promised!PromiseSpec
=============================================================================
