--------------------------- MODULE OpChain_proofs ---------------------------
(***************************************************************************)
(* Proof that ChainInv, and with it the safety properties of OpChain, hold *)
(* in every behaviour, for any set of contexts.  The lemmas are about what *)
(* steps do to contexts, not about who takes them, so that AsyContext uses *)
(* them too.                                                               *)
(***************************************************************************)
EXTENDS OpChain, TLAPS

States == {"unborn", "empty", "callbacks", "done"} \cup Results

\* m_pending as a step of the executor may already have changed it: a temporary
\* whose callbacks ran has its result.
Passed(pend) ==
    /\ pend \in [Ctx -> States]
    /\ \A c \in Ctx : pend[c] # m_pending[c] =>
         (kind[c] = "forward" /\ posts[c] > 0 /\ pend[c] = "value")

\* The invariant holds when no context has been constructed.
LEMMA InitInv == ChainInit => ChainInv
BY NullCtxAssumption
DEF ChainInit, ChainInv, ChainTypeOK, Linked, Completable, DeliveredOnce, ResultDelivered,
    AbortSilences, ParentFirst, Born, Done, Ready, Kinds, Results, Tasks

\* A result given to a context whose turn has come keeps the invariant.
LEMMA SettleStep ==
    ASSUME ChainInv,
           NEW x \in Ctx, NEW r \in Results, NEW pend, NEW queue,
           Passed(pend), queue \subseteq tasks,
           Born(x), Ready(x), kind[x] # "forward",
           Settle(x, r, pend, queue),
           held' \in {held, held \cup {x}},
           UNCHANGED <<aborted, pairVars>>
    PROVE  ChainInv'
<1> USE NullCtxAssumption DEF Done, Born
<1>1. pend \in [Ctx -> States] /\ m_pending \in [Ctx -> States]
  BY DEF Passed, ChainInv, ChainTypeOK, States
<1>2. \A c \in Ctx : pend[c] # m_pending[c] =>
        /\ kind[c] = "forward" /\ posts[c] > 0
        /\ pend[c] = "value" /\ m_pending[c] \in {"empty", "value"}
  BY DEF Passed, ChainInv, Completable
<1>3. pend[x] = m_pending[x]
  BY <1>2
<1>4. /\ callee' = callee /\ m_parent' = m_parent /\ kind' = kind /\ outer' = outer
      /\ held' \in {held, held \cup {x}} /\ aborted' = aborted
  BY DEF pairVars
<1>5. CASE pend[x] = "callbacks"
  <2> DEFINE child == callee[x]
  <2>1. child \in Ctx /\ m_parent[child] = x
    BY <1>3, <1>5 DEF ChainInv, Linked
  <2>2. /\ m_pending' = [pend EXCEPT ![x] = "done"]
        /\ tasks' = queue \cup {[child |-> child, result |-> r]}
        /\ posts' = [posts EXCEPT ![child] = @ + 1]
    BY <1>5 DEF Settle, Post, Results
  <2>3. \A c \in Ctx : m_parent[c] = x => posts[c] = 0
    <3> SUFFICES ASSUME NEW c \in Ctx, m_parent[c] = x, posts[c] # 0 PROVE FALSE
      OBVIOUS
    <3>1. posts[c] > 0
      BY DEF ChainInv, ChainTypeOK
    <3> QED BY <1>3, <1>5, <3>1 DEF ChainInv, AbortSilences
  <2>4. \A c \in Ctx : m_pending[c] = "done" => m_pending'[c] = "done"
    BY <1>1, <1>2, <2>2
  <2> HIDE DEF child
  <2>5. ChainTypeOK'
    BY <1>1, <1>4, <2>1, <2>2 DEF ChainInv, ChainTypeOK, States, Tasks
  <2>6. Linked'
    BY <1>1, <1>2, <1>4, <1>5, <2>1, <2>2 DEF ChainInv, ChainTypeOK, Linked
  <2>7. Completable'
    BY <1>1, <1>2, <1>4, <2>1, <2>2, <2>4
    DEF ChainInv, ChainTypeOK, Linked, Completable, Ready, Tasks
  <2>8. (\A y \in aborted : Done(y))'
    BY <1>4, <2>4 DEF ChainInv, ChainTypeOK
  <2>9. DeliveredOnce'
    BY <1>4, <2>1, <2>2, <2>3 DEF ChainInv, ChainTypeOK, DeliveredOnce
  <2>10. ResultDelivered'
    BY <1>1, <1>2, <1>4, <2>1, <2>2, <2>3 DEF ChainInv, ChainTypeOK, ResultDelivered
  <2>11. x \notin aborted
    BY <1>3, <1>5 DEF ChainInv
  <2>12. AbortSilences'
    BY <1>1, <1>4, <2>1, <2>2, <2>4, <2>11
    DEF ChainInv, ChainTypeOK, AbortSilences, DeliveredOnce
  <2>13. ParentFirst'
    BY <1>1, <1>2, <1>4, <2>2, <2>4
    DEF ChainInv, ChainTypeOK, AbortSilences, DeliveredOnce, ParentFirst, Ready, Results
  <2> QED BY <2>5, <2>6, <2>7, <2>8, <2>9, <2>10, <2>12, <2>13 DEF ChainInv
<1>6. CASE pend[x] # "callbacks"
  <2>1. /\ \/ m_pending' = [pend EXCEPT ![x] = r] /\ pend[x] # "done"
           \/ m_pending' = pend
        /\ tasks' = queue
        /\ posts' = posts
    BY <1>6 DEF Settle, Results
  <2>2. m_pending' \in [Ctx -> States]
    BY <1>1, <2>1 DEF States
  <2>3. \A c \in Ctx :
          \/ m_pending'[c] = m_pending[c]
          \/ /\ c = x \/ (kind[c] = "forward" /\ posts[c] > 0 /\ m_pending'[c] = "value")
             /\ m_pending'[c] \in Results
             /\ m_pending[c] # "done" /\ m_pending[c] # "callbacks" /\ m_pending[c] # "unborn"
    BY <1>1, <1>2, <1>3, <1>6, <2>1 DEF Results
  <2>4. \A c \in Ctx : (m_pending[c] = "done") <=> (m_pending'[c] = "done")
    BY <2>3 DEF Results
  <2>5. ChainTypeOK'
    BY <1>4, <2>1, <2>2 DEF ChainInv, ChainTypeOK, States
  <2>6. Linked'
    BY <1>4, <2>1, <2>3 DEF ChainInv, ChainTypeOK, Linked, Results
  <2>7. Completable'
    BY <1>4, <2>1, <2>3, <2>4 DEF ChainInv, ChainTypeOK, Linked, Completable, Ready, Tasks, Results
  <2>8. (\A y \in aborted : Done(y))'
    BY <1>4, <2>4 DEF ChainInv, ChainTypeOK
  <2>9. DeliveredOnce'
    BY <1>4, <2>1 DEF ChainInv, DeliveredOnce
  <2>10. ResultDelivered'
    BY <1>4, <2>1, <2>4 DEF ChainInv, ResultDelivered
  <2>11. AbortSilences'
    BY <1>4, <2>1, <2>4 DEF ChainInv, ChainTypeOK, AbortSilences, DeliveredOnce
  <2>12. ParentFirst'
    BY <1>4, <2>3, <2>4
    DEF ChainInv, ChainTypeOK, AbortSilences, DeliveredOnce, ParentFirst, Ready, Results
  <2> QED BY <2>5, <2>6, <2>7, <2>8, <2>9, <2>10, <2>11, <2>12 DEF ChainInv
<1> QED BY <1>5, <1>6

\* A continuation attached to an operation with a handle keeps the invariant.
LEMMA AttachStep ==
    ASSUME ChainInv,
           NEW x \in Ctx, NEW child \in Ctx, NEW k \in Kinds, NEW target \in Ctx \cup {NoCtx},
           NEW queue, queue \subseteq tasks,
           Handle(x),
           k = "forward" => /\ target \in Ctx
                            /\ Born(target) /\ Ready(target) /\ kind[target] # "forward",
           Attach(x, child, k, target, queue),
           UNCHANGED <<held, aborted>>
    PROVE  ChainInv'
<1> USE NullCtxAssumption DEF Done, Born
<1> DEFINE pend == [m_pending EXCEPT ![child] = "empty"]
<1>1. /\ m_pending \in [Ctx -> States] /\ m_parent \in [Ctx -> Ctx \cup {NoCtx}]
      /\ kind \in [Ctx -> Kinds] /\ outer \in [Ctx -> Ctx \cup {NoCtx}]
      /\ callee \in [Ctx -> Ctx \cup {NoCtx}] /\ posts \in [Ctx -> Nat]
  BY DEF ChainInv, ChainTypeOK, States
<1>2. /\ m_pending[child] = "unborn" /\ child # x
      /\ m_pending[x] # "unborn" /\ kind[x] # "forward"
      /\ m_parent[child] = NoCtx /\ posts[child] = 0 /\ child \notin held
      /\ \A c \in Ctx : m_parent[c] # child
      /\ child \notin aborted
  BY <1>1 DEF ChainInv, Linked, Handle, Attach
<1>3. /\ m_parent' = [m_parent EXCEPT ![child] = x]
      /\ kind' = [kind EXCEPT ![child] = k]
      /\ outer' = [outer EXCEPT ![child] = target]
      /\ held' = held /\ aborted' = aborted
  BY DEF Attach
<1>4. \A c \in Ctx : c # child => /\ m_parent'[c] = m_parent[c]
                                  /\ kind'[c] = kind[c] /\ outer'[c] = outer[c]
  BY <1>1, <1>3
<1>5. m_parent'[child] = x /\ kind'[child] = k /\ outer'[child] = target
  BY <1>1, <1>3
<1>6. SetContinuation(x, child, pend, queue)
  BY DEF Attach
<1>7. /\ pend \in [Ctx -> States] /\ pend[child] = "empty" /\ pend[x] = m_pending[x]
      /\ \A c \in Ctx : c # child => pend[c] = m_pending[c]
  BY <1>1, <1>2 DEF States
<1> HIDE DEF pend
<1>8. CASE pend[x] \in Results
  <2>1. /\ m_pending' = [pend EXCEPT ![x] = "done"]
        /\ tasks' = queue \cup {[child |-> child, result |-> pend[x]]}
        /\ posts' = [posts EXCEPT ![child] = @ + 1]
        /\ callee' = callee
    BY <1>6, <1>8 DEF SetContinuation, Post, Results
  <2>2. /\ m_pending'[x] = "done" /\ m_pending'[child] = "empty"
        /\ \A c \in Ctx \ {x, child} : m_pending'[c] = m_pending[c]
        /\ posts'[child] = 1
        /\ \A c \in Ctx \ {child} : posts'[c] = posts[c]
    BY <1>1, <1>2, <1>7, <2>1
  <2>3. \A c \in Ctx : m_parent[c] = x => posts[c] = 0
    <3> SUFFICES ASSUME NEW c \in Ctx, m_parent[c] = x, posts[c] # 0 PROVE FALSE
      OBVIOUS
    <3>1. posts[c] > 0
      BY <1>1
    <3> QED BY <1>7, <1>8, <3>1 DEF ChainInv, AbortSilences, Results
  <2>4. Ready(x) /\ x \notin aborted
    BY <1>7, <1>8 DEF ChainInv, ParentFirst, Ready, Results
  <2>5. ChainTypeOK'
    BY <1>1, <1>3, <1>7, <1>8, <2>1 DEF ChainInv, ChainTypeOK, States, Tasks
  <2>6. Linked'
    BY <1>1, <1>2, <1>3, <1>4, <1>5, <2>1, <2>2 DEF ChainInv, Linked
  <2>7. Completable'
    <3>1. (\A c \in held : Ready(c) /\ kind[c] # "forward")'
      BY <1>1, <1>2, <1>3, <1>4, <2>2 DEF ChainInv, ChainTypeOK, Completable, Ready
    <3>2. (\A task \in tasks : posts[task.child] > 0)'
      BY <1>1, <2>1, <2>2 DEF ChainInv, ChainTypeOK, Completable, Tasks
    <3>3. (\A j \in Ctx : kind[j] = "forward" =>
              /\ m_pending[j] \in {"empty", "value"}
              /\ outer[j] \in Ctx
              /\ Born(outer[j]) /\ Ready(outer[j]) /\ kind[outer[j]] # "forward")'
      BY <1>1, <1>2, <1>4, <1>5, <2>2 DEF ChainInv, Completable, Ready
    <3> QED BY <3>1, <3>2, <3>3 DEF Completable
  <2>8. (\A y \in aborted : Done(y))'
    BY <1>2, <1>3, <2>2 DEF ChainInv, ChainTypeOK
  <2>9. DeliveredOnce'
    BY <1>1, <1>2, <1>4, <1>5, <2>2, <2>3 DEF ChainInv, DeliveredOnce
  <2>10. ResultDelivered'
    BY <1>1, <1>2, <1>3, <1>4, <1>5, <2>2 DEF ChainInv, ResultDelivered
  <2>11. AbortSilences'
    BY <1>1, <1>2, <1>3, <1>4, <1>5, <2>2, <2>4 DEF ChainInv, AbortSilences, DeliveredOnce
  <2>12. ParentFirst'
    BY <1>1, <1>2, <1>4, <1>5, <2>2, <2>4 DEF ChainInv, ParentFirst, Ready, Results
  <2> QED BY <2>5, <2>6, <2>7, <2>8, <2>9, <2>10, <2>11, <2>12 DEF ChainInv
<1>9. CASE pend[x] \notin Results
  <2>1. /\ \/ pend[x] = "done" /\ m_pending' = pend /\ callee' = callee
           \/ /\ pend[x] \in {"empty", "callbacks"}
              /\ m_pending' = [pend EXCEPT ![x] = "callbacks"]
              /\ callee' = [callee EXCEPT ![x] = child]
        /\ tasks' = queue /\ posts' = posts
    BY <1>6, <1>9 DEF SetContinuation
  <2>2. /\ m_pending' \in [Ctx -> States] /\ callee' \in [Ctx -> Ctx \cup {NoCtx}]
        /\ m_pending'[child] = "empty"
        /\ \A c \in Ctx \ {child} :
             \/ m_pending'[c] = m_pending[c] /\ callee'[c] = callee[c]
             \/ /\ c = x /\ m_pending[c] \in {"empty", "callbacks"}
                /\ m_pending'[c] = "callbacks" /\ callee'[c] = child
    BY <1>1, <1>2, <1>7, <2>1 DEF States
  <2>3. \A c \in Ctx \ {child} : m_pending[c] = "done" <=> m_pending'[c] = "done"
    BY <2>2
  <2>4. ChainTypeOK'
    BY <1>1, <1>3, <2>1, <2>2 DEF ChainInv, ChainTypeOK, States
  <2>5. Linked'
    BY <1>1, <1>2, <1>3, <1>4, <1>5, <2>1, <2>2 DEF ChainInv, Linked
  <2>6. Completable'
    <3>1. (\A c \in held : Ready(c) /\ kind[c] # "forward")'
      BY <1>1, <1>2, <1>3, <1>4, <2>3 DEF ChainInv, ChainTypeOK, Completable, Ready
    <3>2. (\A task \in tasks : posts[task.child] > 0)'
      BY <2>1 DEF ChainInv, Completable
    <3>3. (\A j \in Ctx : kind[j] = "forward" =>
              /\ m_pending[j] \in {"empty", "value"}
              /\ outer[j] \in Ctx
              /\ Born(outer[j]) /\ Ready(outer[j]) /\ kind[outer[j]] # "forward")'
      BY <1>1, <1>2, <1>4, <1>5, <2>2, <2>3 DEF ChainInv, Completable, Ready
    <3> QED BY <3>1, <3>2, <3>3 DEF Completable
  <2>7. (\A y \in aborted : Done(y))'
    BY <1>2, <1>3, <2>3 DEF ChainInv, ChainTypeOK
  <2>8. DeliveredOnce'
    BY <1>1, <1>2, <1>4, <1>5, <2>1 DEF ChainInv, DeliveredOnce
  <2>9. ResultDelivered'
    BY <1>1, <1>2, <1>3, <1>4, <1>5, <2>1, <2>2, <2>3 DEF ChainInv, ResultDelivered
  <2>10. AbortSilences'
    BY <1>1, <1>2, <1>3, <1>4, <1>5, <2>1, <2>3 DEF ChainInv, AbortSilences, DeliveredOnce
  <2>11. ParentFirst'
    BY <1>1, <1>2, <1>4, <1>5, <2>2, <2>3 DEF ChainInv, ParentFirst, Results
  <2> QED BY <2>4, <2>5, <2>6, <2>7, <2>8, <2>9, <2>10, <2>11 DEF ChainInv
<1> QED BY <1>8, <1>9

\* A new operation without parent keeps the invariant.
LEMMA NewOpStep == ASSUME ChainInv, NEW c \in Ctx, NewOp(c) PROVE ChainInv'
<1> USE NullCtxAssumption, ReturnedAssumption DEF Done, Born
<1>1. /\ m_pending \in [Ctx -> States] /\ posts \in [Ctx -> Nat]
      /\ m_pending[c] = "unborn" /\ m_parent[c] = NoCtx
      /\ kind[c] = "root" /\ posts[c] = 0
  BY DEF ChainInv, ChainTypeOK, Linked, NewOp, States
<1>2. PICK r \in {"empty"} \cup Returned : m_pending' = [m_pending EXCEPT ![c] = r]
  BY DEF NewOp
<1>3. /\ callee' = callee /\ m_parent' = m_parent /\ kind' = kind /\ outer' = outer
      /\ tasks' = tasks /\ posts' = posts /\ aborted' = aborted
      /\ held \subseteq held' /\ held' \subseteq held \cup {c}
  BY DEF NewOp, pairVars
<1>4. /\ m_pending' \in [Ctx -> States] /\ m_pending'[c] \in {"empty", "value", "error"}
      /\ \A d \in Ctx \ {c} : m_pending'[d] = m_pending[d]
      /\ \A d \in Ctx : m_pending[d] = "done" <=> m_pending'[d] = "done"
  BY <1>1, <1>2 DEF States, Results
<1>5. ChainTypeOK'
  BY <1>3, <1>4 DEF ChainInv, ChainTypeOK, States
<1>6. Linked'
  BY <1>1, <1>3, <1>4 DEF ChainInv, ChainTypeOK, Linked
<1>7. Completable'
  BY <1>1, <1>3, <1>4 DEF ChainInv, ChainTypeOK, Linked, Completable, Ready
<1>8. (\A x \in aborted : Done(x))'
  BY <1>3, <1>4 DEF ChainInv, ChainTypeOK
<1>9. DeliveredOnce'
  BY <1>3 DEF ChainInv, DeliveredOnce
<1>10. ResultDelivered'
  BY <1>3, <1>4 DEF ChainInv, ResultDelivered
<1>11. AbortSilences'
  BY <1>1, <1>3, <1>4 DEF ChainInv, ChainTypeOK, AbortSilences, DeliveredOnce
<1>12. ParentFirst'
  BY <1>1, <1>3, <1>4 DEF ChainInv, ChainTypeOK, ParentFirst
<1> QED BY <1>5, <1>6, <1>7, <1>8, <1>9, <1>10, <1>11, <1>12 DEF ChainInv

\* A functor that keeps its context keeps the invariant.
LEMMA HoldStep ==
    ASSUME ChainInv,
           NEW c \in Ctx, Born(c), Ready(c), kind[c] # "forward",
           held' = held \cup {c}, tasks' \subseteq tasks,
           UNCHANGED <<m_pending, posts, aborted, pairVars>>
    PROVE  ChainInv'
<1> USE DEF Done, Born
<1>1. /\ callee' = callee /\ m_parent' = m_parent /\ kind' = kind /\ outer' = outer
      /\ m_pending' = m_pending /\ posts' = posts /\ aborted' = aborted
  BY DEF pairVars
<1>2. ChainTypeOK' /\ Linked' /\ Completable'
  BY <1>1 DEF ChainInv, ChainTypeOK, Linked, Completable, Ready
<1>3. (\A x \in aborted : Done(x))' /\ DeliveredOnce' /\ ResultDelivered'
  BY <1>1 DEF ChainInv, DeliveredOnce, ResultDelivered
<1>4. AbortSilences' /\ ParentFirst'
  BY <1>1 DEF ChainInv, AbortSilences, ParentFirst
<1> QED BY <1>2, <1>3, <1>4 DEF ChainInv

\* Closing a set of contexts that no unfinished context outside of it precedes keeps
\* the invariant.
LEMMA CloseStep ==
    ASSUME ChainInv,
           NEW S \in SUBSET Ctx,
           \A x \in S : Born(x) /\ kind[x] # "forward" /\ (m_parent[x] \in S \/ Ready(x)),
           m_pending' = [c \in Ctx |-> IF c \in S THEN "done" ELSE m_pending[c]],
           aborted' = aborted \cup {x \in S : ~Done(x)},
           UNCHANGED <<held, tasks, posts, pairVars>>
    PROVE  ChainInv'
<1> USE NullCtxAssumption DEF Done, Born
<1>1. /\ callee' = callee /\ m_parent' = m_parent /\ kind' = kind /\ outer' = outer
      /\ held' = held /\ tasks' = tasks /\ posts' = posts
  BY DEF pairVars
<1>2. /\ \A c \in Ctx : m_pending'[c] = IF c \in S THEN "done" ELSE m_pending[c]
      /\ \A c \in Ctx : m_pending[c] = "done" => m_pending'[c] = "done"
      /\ m_pending \in [Ctx -> States] /\ m_pending' \in [Ctx -> States]
      /\ m_parent \in [Ctx -> Ctx \cup {NoCtx}]
  BY DEF ChainInv, ChainTypeOK, States
<1>3. ChainTypeOK'
  BY <1>1, <1>2 DEF ChainInv, ChainTypeOK, States
<1>4. Linked'
  BY <1>1, <1>2 DEF ChainInv, Linked
<1>5. Completable'
  BY <1>1, <1>2 DEF ChainInv, ChainTypeOK, Completable, Ready
<1>6. (\A x \in aborted : Done(x))'
  BY <1>2 DEF ChainInv, ChainTypeOK
<1>7. DeliveredOnce'
  BY <1>1 DEF ChainInv, DeliveredOnce
<1>8. ResultDelivered'
  BY <1>1, <1>2 DEF ChainInv, ResultDelivered
<1>9. AbortSilences'
  BY <1>1, <1>2 DEF ChainInv, AbortSilences, DeliveredOnce
<1>10. ParentFirst'
  BY <1>1, <1>2 DEF ChainInv, ParentFirst, Ready
<1> QED BY <1>3, <1>4, <1>5, <1>6, <1>7, <1>8, <1>9, <1>10 DEF ChainInv

\* The context of a functor that waits in the executor may have a result.
LEMMA TaskReady ==
    ASSUME ChainInv, NEW task \in tasks
    PROVE  /\ task.child \in Ctx /\ task.result \in Results
           /\ Born(task.child) /\ Ready(task.child)
BY DEF ChainInv, ChainTypeOK, Linked, Completable, AbortSilences, Ready, Tasks, Born

\* A client's call of then(), an async_return() and the construction of an operation
\* keep the invariant.
LEMMA ClientStep == ASSUME ChainInv, ClientCode PROVE ChainInv'
<1> USE NullCtxAssumption, ReturnedAssumption
<1>1. CASE \E c \in Ctx : NewOp(c)
  BY <1>1, NewOpStep
<1>2. ASSUME NEW x \in Ctx, NEW c \in Ctx, NEW k \in {"then", "then_both", "on_failure"},
             Then(x, c, k)
      PROVE  ChainInv'
  BY <1>2, AttachStep DEF Then, Kinds
<1>3. ASSUME NEW c \in Ctx, NEW r \in Returned, AsyncReturn(c, r) PROVE ChainInv'
  <2>1. Passed(m_pending)
    BY DEF Passed, ChainInv, ChainTypeOK, States
  <2>2. r \in Results /\ Born(c) /\ Ready(c) /\ kind[c] # "forward"
    BY <1>3 DEF AsyncReturn, ChainInv, Linked, Completable, Results
  <2> QED BY <1>3, <2>1, <2>2, SettleStep DEF AsyncReturn
<1> QED BY <1>1, <1>2, <1>3 DEF ClientCode

\* A functor run by the executor keeps the invariant.
LEMMA TaskStep == ASSUME ChainInv, NEW task \in tasks, RunTask(task) PROVE ChainInv'
<1> USE NullCtxAssumption, ReturnedAssumption
<1> DEFINE c == task.child
<1>1. /\ c \in Ctx /\ task.result \in Results
      /\ Born(c) /\ Ready(c)
  BY TaskReady
<1>2. Passed(m_pending)
  BY DEF Passed, ChainInv, ChainTypeOK, States
<1>3. tasks \ {task} \subseteq tasks
  OBVIOUS
<1>4. CASE RunDefault(task)
  BY <1>1, <1>2, <1>3, <1>4, SettleStep DEF RunDefault
<1>5. CASE RunSimple(task)
  <2>1. "value" \in Results
    BY DEF Results
  <2> QED BY <1>1, <1>2, <1>3, <1>5, <2>1, SettleStep DEF RunSimple, RunsFunctor
<1>6. ASSUME NEW r \in Returned, RunValueOrError(task, r) PROVE ChainInv'
  <2>1. r \in Results
    BY DEF Results
  <2> QED BY <1>1, <1>2, <1>3, <1>6, <2>1, SettleStep DEF RunValueOrError, RunsFunctor
<1>7. CASE RunCaught(task)
  <2>1. "error" \in Results
    BY DEF Results
  <2> QED BY <1>1, <1>2, <1>3, <1>7, <2>1, SettleStep DEF RunCaught, RunsFunctor
<1>8. CASE RunAsync(task)
  <2>1. kind[c] # "forward"
    BY <1>8 DEF RunAsync, RunsFunctor
  <2>2. /\ held' = held \cup {c} /\ tasks' \subseteq tasks
        /\ UNCHANGED <<m_pending, posts, aborted, pairVars>>
    BY <1>8 DEF RunAsync
  <2> QED BY <1>1, <2>1, <2>2, HoldStep
<1>9. ASSUME NEW i \in Ctx, NEW j \in Ctx, RunARet(task, i, j) PROVE ChainInv'
  <2>1. kind[c] # "forward"
    BY <1>9 DEF RunARet, RunsFunctor
  <2>2. /\ Handle(i) /\ Attach(i, j, "forward", c, tasks \ {task})
        /\ UNCHANGED <<held, aborted>>
    BY <1>9 DEF RunARet
  <2> QED BY <1>1, <1>3, <2>1, <2>2, AttachStep DEF Kinds
<1>10. CASE RunForward(task)
  <2> DEFINE x == outer[c]
             pend == [m_pending EXCEPT ![c] = "value"]
  <2>1. kind[c] = "forward" /\ posts[c] > 0
    BY <1>10 DEF RunForward, ChainInv, Completable
  <2>2. x \in Ctx /\ Born(x) /\ Ready(x) /\ kind[x] # "forward"
    BY <1>1, <2>1 DEF ChainInv, Completable
  <2>3. Passed(pend)
    BY <1>1, <2>1 DEF Passed, ChainInv, ChainTypeOK, States, Results
  <2>4. /\ Settle(x, task.result, pend, tasks \ {task})
        /\ UNCHANGED <<held, aborted, pairVars>>
    BY <1>10 DEF RunForward
  <2> HIDE DEF x, pend
  <2> QED BY <1>1, <1>3, <2>2, <2>3, <2>4, SettleStep
<1> QED BY <1>4, <1>5, <1>6, <1>7, <1>8, <1>9, <1>10 DEF RunTask

\* cancel() and abort() of a handle keep the invariant.
LEMMA HandleStep ==
    ASSUME ChainInv, NEW c \in Ctx, Cancel(c) \/ Abort(c)
    PROVE  ChainInv' \/ UNCHANGED chainVars
<1> USE NullCtxAssumption
<1>1. ASSUME NEW S \in SUBSET Ctx, Handle(c), IsOpenChain(S, c)
      PROVE  \A x \in S : /\ Born(x) /\ ~Done(x) /\ kind[x] # "forward"
                          /\ m_parent[x] \in S \/ Ready(x)
  BY <1>1 DEF IsOpenChain, Handle, ChainInv, Linked, Born, Done, Ready
<1>2. CASE Cancel(c)
  <2>1. CASE Done(c) /\ UNCHANGED <<m_pending, tasks, posts>>
    BY <1>2, <2>1 DEF Cancel, chainVars
  <2>2. ASSUME NEW S \in SUBSET Ctx, NEW x \in S, m_parent[x] \notin S,
               IsOpenChain(S, c), Settle(x, "canceled", m_pending, tasks)
        PROVE  ChainInv'
    <3>1. x \in Ctx /\ Born(x) /\ Ready(x) /\ kind[x] # "forward"
      BY <1>1, <1>2, <2>2 DEF Cancel
    <3>2. Passed(m_pending) /\ "canceled" \in Results
      BY DEF Passed, ChainInv, ChainTypeOK, States, Results
    <3>3. UNCHANGED <<held, aborted, pairVars>>
      BY <1>2 DEF Cancel
    <3> QED BY <2>2, <3>1, <3>2, <3>3, SettleStep
  <2> QED BY <1>2, <2>1, <2>2 DEF Cancel
<1>3. CASE Abort(c)
  <2>1. CASE Done(c) /\ UNCHANGED <<m_pending, aborted>>
    BY <1>3, <2>1 DEF Abort, chainVars
  <2>2. ASSUME NEW S \in SUBSET Ctx, IsOpenChain(S, c),
               m_pending' = [x \in Ctx |-> IF x \in S THEN "done" ELSE m_pending[x]],
               aborted' = aborted \cup S
        PROVE  ChainInv'
    <3>1. \A x \in S : /\ Born(x) /\ ~Done(x) /\ kind[x] # "forward"
                       /\ m_parent[x] \in S \/ Ready(x)
      BY <1>1, <1>3, <2>2 DEF Abort
    <3>2. S = {x \in S : ~Done(x)}
      BY <3>1
    <3>3. UNCHANGED <<held, tasks, posts, pairVars>>
      BY <1>3 DEF Abort
    <3> QED BY <2>2, <3>1, <3>2, <3>3, CloseStep
  <2> QED BY <1>3, <2>1, <2>2 DEF Abort
<1> QED BY <1>2, <1>3

\* A functor that is taken from the executor leaves the contexts alone.
LEMMA TakeStep ==
    ASSUME ChainInv, tasks' \subseteq tasks,
           UNCHANGED <<m_pending, held, posts, aborted, pairVars>>
    PROVE  ChainInv'
<1>1. /\ m_pending' = m_pending /\ held' = held /\ posts' = posts
      /\ aborted' = aborted /\ callee' = callee /\ m_parent' = m_parent
      /\ kind' = kind /\ outer' = outer
  BY DEF pairVars
<1>2. ChainTypeOK' /\ Linked' /\ Completable'
  BY <1>1 DEF ChainInv, ChainTypeOK, Linked, Completable, Ready, Born, Done
<1>3. (\A x \in aborted : Done(x))' /\ DeliveredOnce' /\ ResultDelivered'
  BY <1>1 DEF ChainInv, DeliveredOnce, ResultDelivered, Done
<1>4. AbortSilences' /\ ParentFirst'
  BY <1>1 DEF ChainInv, AbortSilences, ParentFirst, Done
<1> QED BY <1>2, <1>3, <1>4 DEF ChainInv

\* The invariant is insensitive to steps that leave the contexts alone.
LEMMA StutterStep == ASSUME ChainInv, UNCHANGED chainVars PROVE ChainInv'
<1>1. /\ m_pending' = m_pending /\ held' = held /\ tasks' = tasks /\ posts' = posts
      /\ aborted' = aborted /\ callee' = callee /\ m_parent' = m_parent
      /\ kind' = kind /\ outer' = outer
  BY DEF chainVars, pairVars
<1>2. ChainTypeOK' /\ Linked' /\ Completable'
  BY <1>1 DEF ChainInv, ChainTypeOK, Linked, Completable, Ready, Born, Done
<1>3. (\A x \in aborted : Done(x))' /\ DeliveredOnce' /\ ResultDelivered'
  BY <1>1 DEF ChainInv, DeliveredOnce, ResultDelivered, Done
<1>4. AbortSilences' /\ ParentFirst'
  BY <1>1 DEF ChainInv, AbortSilences, ParentFirst, Done
<1> QED BY <1>2, <1>3, <1>4 DEF ChainInv

\* ChainInv is an invariant of the sequential specification.
THEOREM ChainInvariant == ChainSpec => []ChainInv
<1>1. ASSUME ChainInv, [ChainNext]_chainVars PROVE ChainInv'
  <2>1. CASE ClientCode
    BY <1>1, <2>1, ClientStep
  <2>2. ASSUME NEW c \in Ctx, Cancel(c) \/ Abort(c) PROVE ChainInv'
    BY <1>1, <2>2, HandleStep, StutterStep
  <2>3. ASSUME NEW task \in tasks, RunTask(task) PROVE ChainInv'
    BY <1>1, <2>3, TaskStep
  <2>4. CASE UNCHANGED chainVars
    BY <1>1, <2>4, StutterStep
  <2> QED BY <1>1, <2>1, <2>2, <2>3, <2>4 DEF ChainNext
<1> QED BY InitInv, <1>1, PTL DEF ChainSpec

\* Type correctness of the sequential specification.
THEOREM ChainTypeCorrect == ChainSpec => []ChainTypeOK
<1>1. ChainInv => ChainTypeOK
  BY DEF ChainInv
<1> QED BY <1>1, ChainInvariant, PTL

\* A result reaches at most one continuation, and is never lost, however then(),
\* async_return(), cancel() and abort() are mixed.
THEOREM DeliveryCorrect == ChainSpec => [](DeliveredOnce /\ ResultDelivered)
<1>1. ChainInv => DeliveredOnce /\ ResultDelivered
  BY DEF ChainInv
<1> QED BY <1>1, ChainInvariant, PTL

\* Nothing is posted for an aborted operation, and no operation of a chain gets ahead
\* of the one it continues.
THEOREM ChainOrder == ChainSpec => [](AbortSilences /\ ParentFirst)
<1>1. ChainInv => AbortSilences /\ ParentFirst
  BY DEF ChainInv
<1> QED BY <1>1, ChainInvariant, PTL
=============================================================================
