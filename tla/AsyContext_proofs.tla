-------------------------- MODULE AsyContext_proofs --------------------------
(***************************************************************************)
(* Proof that the contexts keep ChainInv, and with it the safety           *)
(* properties of OpChain, when any number of threads share them and        *)
(* cancel() and abort() climb them lock by lock; that these climbs read    *)
(* nothing stale, leave no mutex locked and do not deadlock; and that they *)
(* implement the atomic methods of OpChain.                                *)
(***************************************************************************)
EXTENDS AsyContext, OpChain_proofs

\* What a step that respects the mutexes leaves alone, for the climbs in progress.
Frame ==
    \A c \in Ctx : Born(c) =>
        /\ Born(c)' /\ m_parent'[c] = m_parent[c] /\ kind'[c] = kind[c]
        /\ Done(c) => Done(c)'
        /\ (~Free(c) /\ ~Done(c)) => ~Done(c)'

\* The invariant holds when no context has been constructed and no mutex is locked.
LEMMA InitContextInv == Init => ContextInv
<1> SUFFICES ASSUME Init PROVE ContextInv
  OBVIOUS
<1>1. ChainInv
  BY InitInv DEF Init
<1>2. TypeOK
  BY <1>1 DEF Init, TypeOK, ChainInv
<1>3. ClimbInv
  BY NullThreadAssumption DEF Init, ClimbInv, Free, Idle
<1> QED BY <1>1, <1>2, <1>3 DEF ContextInv

\* A result settles one context, and no other that has a handle.
LEMMA SettleFrame ==
    ASSUME ContextInv,
           NEW x \in Ctx, Free(x), NEW r \in Results, NEW pend, NEW queue,
           Passed(pend), kind[x] # "forward", Born(x),
           Settle(x, r, pend, queue),
           UNCHANGED pairVars
    PROVE  Frame
<1> USE DEF Born, Done, Free
<1>1. /\ pend \in [Ctx -> States] /\ m_pending \in [Ctx -> States]
      /\ kind' = kind /\ m_parent' = m_parent
  BY DEF Passed, ContextInv, ChainInv, ChainTypeOK, States, pairVars
<1>2. \A c \in Ctx : pend[c] # m_pending[c] =>
        /\ kind[c] = "forward" /\ pend[c] = "value"
        /\ m_pending[c] \in {"empty", "value"}
  BY DEF Passed, ContextInv, ChainInv, Completable
<1>3. /\ \A c \in Ctx \ {x} : m_pending'[c] = pend[c]
      /\ pend[x] = m_pending[x]
      /\ m_pending[x] = "done" => m_pending'[x] = "done"
      /\ m_pending'[x] # "unborn"
  BY <1>1, <1>2 DEF Settle, Post, Results
<1> QED BY <1>1, <1>2, <1>3 DEF Frame

\* An attached continuation changes one context with a handle, the parent.
LEMMA AttachFrame ==
    ASSUME ContextInv,
           NEW x \in Ctx, Free(x), NEW child \in Ctx, NEW k, NEW target, NEW queue,
           Handle(x), Attach(x, child, k, target, queue)
    PROVE  Frame
<1> USE DEF Born, Done, Free
<1> DEFINE pend == [m_pending EXCEPT ![child] = "empty"]
<1>1. /\ m_pending \in [Ctx -> States] /\ m_parent \in [Ctx -> Ctx \cup {NoCtx}]
      /\ kind \in [Ctx -> Kinds]
  BY DEF ContextInv, ChainInv, ChainTypeOK, States
<1>2. m_pending[child] = "unborn" /\ m_pending[x] # "unborn"
  BY DEF Handle, Attach
<1>3. \A c \in Ctx \ {child} : m_parent'[c] = m_parent[c] /\ kind'[c] = kind[c]
  BY <1>1 DEF Attach
<1>4. SetContinuation(x, child, pend, queue)
  BY DEF Attach
<1>5. \A c \in Ctx \ {child} : pend[c] = m_pending[c]
  BY <1>1
<1>6. pend \in [Ctx -> States]
  BY <1>1 DEF States
<1> HIDE DEF pend
<1>7. /\ \A c \in Ctx \ {x} : m_pending'[c] = pend[c]
      /\ m_pending[x] = "done" => m_pending'[x] = "done"
      /\ m_pending'[x] # "unborn"
  BY <1>2, <1>4, <1>5, <1>6 DEF SetContinuation, Post, Results
<1> QED BY <1>2, <1>3, <1>5, <1>7 DEF Frame

\* A step that keeps to its own mutexes does not disturb the climbs of other threads.
LEMMA ClimbKept ==
    ASSUME ContextInv, NEW u \in Threads,
           UNCHANGED pairVars,
           \A c \in Ctx : m_pending'[c] # m_pending[c] =>
               /\ Born(c) /\ Born(c)' /\ ~Done(c)
               /\ Free(c) \/ lock[c] = u,
           \A t \in Threads \ {u} : op'[t] = op[t] /\ at'[t] = at[t] /\ pc'[t] = pc[t],
           \A c \in Ctx : lock'[c] # lock[c] => /\ Free(c) \/ lock[c] = u
                                                /\ lock'[c] = NoThread \/ Handle(c),
           /\ pc'[u] # "idle" => (at'[u] \in Ctx /\ Handle(at'[u]))
           /\ pc'[u] \in {"is_done", "close"} => lock'[at'[u]] = u
           /\ pc'[u] = "is_done" => (m_pending'[at'[u]] # "done" /\ m_parent[at'[u]] # NoCtx)
           /\ pc'[u] = "close" =>
                 m_parent[at'[u]] = NoCtx \/ m_pending'[m_parent[at'[u]]] = "done"
    PROVE  ClimbInv'
<1> USE NullCtxAssumption, NullThreadAssumption DEF Born, Done, Free, Handle, Idle
<1>1. /\ kind' = kind /\ m_parent' = m_parent
      /\ m_parent \in [Ctx -> Ctx \cup {NoCtx}]
  BY DEF pairVars, ContextInv, ChainInv, ChainTypeOK
<1>2. \A c \in Ctx : /\ m_pending[c] # "unborn" => m_pending'[c] # "unborn"
                     /\ m_pending[c] = "done" => m_pending'[c] = "done"
  OBVIOUS
<1>3. (\A c \in Ctx : ~Free(c) => Handle(c))'
  BY <1>1, <1>2 DEF ContextInv, ClimbInv
<1>4. ASSUME NEW t \in Threads \ {u}
      PROVE  (/\ ~Idle(t) => (at[t] \in Ctx /\ Handle(at[t]))
              /\ pc[t] \in {"is_done", "close"} => lock[at[t]] = t
              /\ pc[t] = "is_done" => (~Done(at[t]) /\ m_parent[at[t]] # NoCtx)
              /\ pc[t] = "close" => Ready(at[t]))'
  BY <1>1, <1>2 DEF ContextInv, ClimbInv, Ready
<1>5. (/\ ~Idle(u) => (at[u] \in Ctx /\ Handle(at[u]))
       /\ pc[u] \in {"is_done", "close"} => lock[at[u]] = u
       /\ pc[u] = "is_done" => (~Done(at[u]) /\ m_parent[at[u]] # NoCtx)
       /\ pc[u] = "close" => Ready(at[u]))'
  BY <1>1, <1>2 DEF Ready
<1> QED BY <1>3, <1>4, <1>5 DEF ClimbInv

\* Methods that lock one mutex leave the climbs alone.
LEMMA FrameKeepsClimb == ASSUME ContextInv, ChainInv', Frame, UNCHANGED climbVars PROVE ContextInv'
<1> USE DEF Born, Done, Free, Handle, Idle
<1>1. lock' = lock /\ op' = op /\ at' = at /\ pc' = pc
  BY DEF climbVars
<1>2. TypeOK'
  BY <1>1 DEF ContextInv, TypeOK, ChainInv
<1>3. m_parent \in [Ctx -> Ctx \cup {NoCtx}]
  BY DEF ContextInv, ChainInv, ChainTypeOK
<1>4. (\A c \in Ctx : ~Free(c) => Handle(c))'
  BY <1>1 DEF Frame, ContextInv, ClimbInv
<1>5. ASSUME NEW t \in Threads
      PROVE  (/\ ~Idle(t) => (at[t] \in Ctx /\ Handle(at[t]))
              /\ pc[t] \in {"is_done", "close"} => lock[at[t]] = t
              /\ pc[t] = "is_done" => (~Done(at[t]) /\ m_parent[at[t]] # NoCtx)
              /\ pc[t] = "close" => Ready(at[t]))'
  <2>1. ~Idle(t) => /\ at[t] \in Ctx
                    /\ Handle(at[t]) /\ Handle(at[t])'
                    /\ m_parent'[at[t]] = m_parent[at[t]]
    BY <1>1 DEF Frame, ContextInv, ClimbInv
  <2>2. pc[t] = "is_done" => ~Done(at[t])'
    BY <1>1, <2>1, NullThreadAssumption DEF Frame, ContextInv, ClimbInv
  <2>3. pc[t] = "close" => (m_parent[at[t]] = NoCtx \/ m_pending'[m_parent[at[t]]] = "done")
    BY <1>3, <2>1 DEF Frame, ContextInv, ClimbInv, Ready
  <2> QED BY <1>1, <2>1, <2>2, <2>3 DEF ContextInv, ClimbInv, Ready
<1> QED BY <1>2, <1>4, <1>5 DEF ContextInv, ClimbInv

\* What a thread knows of the context its climb has reached.
LEMMA Reached ==
    ASSUME ContextInv, NEW u \in Threads, ~Idle(u)
    PROVE  /\ at[u] \in Ctx /\ Born(at[u]) /\ kind[at[u]] # "forward"
           /\ Parent(at[u]) = NoCtx => Ready(at[u])
           /\ Parent(at[u]) # NoCtx =>
                /\ Parent(at[u]) = m_parent[at[u]] /\ ~Done(at[u])
                /\ Parent(at[u]) \in Ctx /\ Handle(Parent(at[u]))
BY DEF ContextInv, ClimbInv, ChainInv, ChainTypeOK, Linked, ParentFirst, Ready, Handle,
       Parent, Born, Done

\* cancel() fails the context it has reached, and returns.
LEMMA CancelAtStep ==
    ASSUME ContextInv, NEW u \in Threads, ~Idle(u),
           Ready(at[u]), Free(at[u]) \/ lock[at[u]] = u,
           CancelAt(u, at[u]), UNCHANGED <<held, aborted, pairVars>>
    PROVE  ContextInv'
<1> USE NullThreadAssumption
<1> DEFINE x == at[u]
<1>1. /\ x \in Ctx /\ Born(x) /\ kind[x] # "forward" /\ Ready(x)
      /\ "canceled" \in Results
  BY Reached DEF Results
<1>2. Passed(m_pending)
  BY DEF Passed, ContextInv, ChainInv, ChainTypeOK, States
<1>3. Settle(x, "canceled", m_pending, tasks)
  BY DEF CancelAt
<1>4. ChainInv'
  BY <1>1, <1>2, <1>3, SettleStep DEF ContextInv
<1>5. /\ op' = [op EXCEPT ![u] = "none"] /\ at' = [at EXCEPT ![u] = NoCtx]
      /\ pc' = [pc EXCEPT ![u] = "idle"]
      /\ lock' = [c \in Ctx |-> IF lock[c] = u THEN NoThread ELSE lock[c]]
  BY DEF CancelAt, ReleaseAll, Leave
<1>6. TypeOK'
  BY <1>4, <1>5 DEF ContextInv, TypeOK, ChainInv
<1>7. \A c \in Ctx : m_pending'[c] # m_pending[c] => c = x /\ ~Done(c) /\ Born(c)'
  BY <1>1, <1>2, <1>3 DEF Settle, Post, Results, Done, Born, Passed, States
<1> HIDE DEF x
<1>8. ClimbInv'
  <2>1. \A c \in Ctx : m_pending'[c] # m_pending[c] =>
          /\ Born(c) /\ Born(c)' /\ ~Done(c)
          /\ Free(c) \/ lock[c] = u
    BY <1>1, <1>7 DEF x
  <2>2. \A t \in Threads \ {u} : op'[t] = op[t] /\ at'[t] = at[t] /\ pc'[t] = pc[t]
    BY <1>5 DEF ContextInv, TypeOK
  <2>3. \A c \in Ctx : lock'[c] # lock[c] => /\ Free(c) \/ lock[c] = u
                                             /\ lock'[c] = NoThread \/ Handle(c)
    BY <1>5 DEF ContextInv, TypeOK
  <2>4. pc'[u] = "idle"
    BY <1>5 DEF ContextInv, TypeOK
  <2> QED BY <2>1, <2>2, <2>3, <2>4, ClimbKept
<1> QED BY <1>4, <1>6, <1>8 DEF ContextInv

\* A step of a climb that changes no context, only where the thread is.
LEMMA GotoStep ==
    ASSUME ContextInv, NEW u \in Threads, UNCHANGED chainVars,
           NEW x \in Ctx, NEW label \in {"enter", "is_done", "close"},
           Handle(x), Goto(u, x, label),
           label = "is_done" => ~Done(x) /\ m_parent[x] # NoCtx,
           label = "close" => Ready(x),
           \/ lock' = lock /\ (label = "enter" \/ lock[x] = u)
           \/ lock' = [lock EXCEPT ![x] = u] /\ Free(x)
    PROVE  ContextInv'
<1> USE NullThreadAssumption
<1>1. ChainInv'
  BY StutterStep DEF ContextInv
<1>2. /\ op' = op
      /\ at' = [at EXCEPT ![u] = x] /\ pc' = [pc EXCEPT ![u] = label]
      /\ m_pending' = m_pending /\ m_parent' = m_parent
      /\ UNCHANGED pairVars
  BY DEF Goto, chainVars, pairVars
<1>3. TypeOK'
  BY <1>1, <1>2 DEF ContextInv, TypeOK, ChainInv
<1>4. ClimbInv'
  <2>1. \A t \in Threads \ {u} : op'[t] = op[t] /\ at'[t] = at[t] /\ pc'[t] = pc[t]
    BY <1>2 DEF ContextInv, TypeOK
  <2>2. \A c \in Ctx : lock'[c] # lock[c] => /\ Free(c) \/ lock[c] = u
                                             /\ lock'[c] = NoThread \/ Handle(c)
    BY DEF ContextInv, TypeOK
  <2>3. at'[u] = x /\ pc'[u] = label
    BY <1>2 DEF ContextInv, TypeOK
  <2>4. label # "enter" => lock'[x] = u
    BY DEF ContextInv, TypeOK
  <2> QED BY <1>2, <2>1, <2>2, <2>3, <2>4, ClimbKept DEF Ready, Done, Handle
<1> QED BY <1>1, <1>3, <1>4 DEF ContextInv

\* abort() closes the context it has reached, and goes on with the child it came from.
LEMMA AbortCloseStep ==
    ASSUME ContextInv, NEW u \in Threads, AbortClose(u)
    PROVE  ContextInv'
<1> USE NullThreadAssumption
<1> DEFINE x == at[u]
<1>1. /\ ~Idle(u) /\ pc[u] = "close"
      /\ x \in Ctx /\ Born(x) /\ kind[x] # "forward" /\ Ready(x) /\ lock[x] = u
  BY Reached DEF AbortClose, Idle, ContextInv, ClimbInv
<1>2. /\ m_pending' = [m_pending EXCEPT ![x] = "done"]
      /\ aborted' = IF Done(x) THEN aborted ELSE aborted \cup {x}
      /\ lock' = [lock EXCEPT ![x] = NoThread]
      /\ UNCHANGED <<held, tasks, posts, pairVars>>
  BY DEF AbortClose
<1>3. \/ Leave(u)
      \/ \E y \in Ctx : y # x /\ lock[y] = u /\ m_parent[y] = x /\ Goto(u, y, "close")
  BY DEF AbortClose, Owned
<1> HIDE DEF x
<1>4. ChainInv'
  <2> DEFINE S == {x}
  <2>1. S \in SUBSET Ctx
    BY <1>1
  <2>2. \A c \in S : Born(c) /\ kind[c] # "forward" /\ (m_parent[c] \in S \/ Ready(c))
    BY <1>1
  <2>3. m_pending' = [c \in Ctx |-> IF c \in S THEN "done" ELSE m_pending[c]]
    BY <1>1, <1>2 DEF ContextInv, ChainInv, ChainTypeOK
  <2>4. aborted' = aborted \cup {c \in S : ~Done(c)}
    BY <1>2
  <2> HIDE DEF S
  <2> QED BY <1>2, <2>1, <2>2, <2>3, <2>4, CloseStep DEF ContextInv
<1>5. m_pending'[x] = "done" /\ \A c \in Ctx \ {x} : m_pending'[c] = m_pending[c]
  BY <1>1, <1>2 DEF ContextInv, ChainInv, ChainTypeOK
<1>6. TypeOK'
  BY <1>2, <1>3, <1>4 DEF ContextInv, TypeOK, ChainInv, Leave, Goto
<1>7. \A t \in Threads \ {u} : op'[t] = op[t] /\ at'[t] = at[t] /\ pc'[t] = pc[t]
  BY <1>3 DEF ContextInv, TypeOK, Leave, Goto
<1>8. \/ pc'[u] = "idle"
      \/ /\ pc'[u] = "close" /\ at'[u] \in Ctx /\ at'[u] # x
         /\ lock[at'[u]] = u /\ m_parent[at'[u]] = x
  BY <1>3 DEF ContextInv, TypeOK, Leave, Goto
<1>9. ClimbInv'
  <2>1. \A c \in Ctx : m_pending'[c] # m_pending[c] =>
          /\ Born(c) /\ Born(c)' /\ ~Done(c)
          /\ Free(c) \/ lock[c] = u
    BY <1>1, <1>5 DEF Born, Done
  <2>2. \A c \in Ctx : lock'[c] # lock[c] => /\ Free(c) \/ lock[c] = u
                                             /\ lock'[c] = NoThread \/ Handle(c)
    BY <1>1, <1>2 DEF ContextInv, TypeOK
  <2>3. pc'[u] # "idle" => /\ Handle(at'[u]) /\ lock'[at'[u]] = u
                           /\ m_pending'[m_parent[at'[u]]] = "done"
    BY <1>2, <1>5, <1>8 DEF ContextInv, TypeOK, ClimbInv, Free
  <2> QED BY <1>2, <1>7, <1>8, <2>1, <2>2, <2>3, ClimbKept
<1> QED BY <1>4, <1>6, <1>9 DEF ContextInv

\* Each step of a climb keeps the invariant.
LEMMA ClimbStep == ASSUME ContextInv, NEW u \in Threads, Climb(u) PROVE ContextInv'
<1> USE NullThreadAssumption
<1> DEFINE x == at[u]
<1>1. CASE CancelEnter(u)
  <2>1. ~Idle(u) /\ Free(x)
    BY <1>1 DEF CancelEnter, Idle
  <2>2. CASE Parent(x) = NoCtx /\ CancelAt(u, x)
    BY <1>1, <2>1, <2>2, Reached, CancelAtStep DEF CancelEnter
  <2>3. CASE /\ Parent(x) # NoCtx
             /\ lock' = [lock EXCEPT ![x] = u]
             /\ Goto(u, x, "is_done")
             /\ UNCHANGED <<m_pending, tasks, posts>>
    <3>1. UNCHANGED chainVars
      BY <1>1, <2>3 DEF CancelEnter, chainVars
    <3>2. x \in Ctx /\ Handle(x) /\ ~Done(x) /\ m_parent[x] # NoCtx
      BY <2>1, <2>3, Reached DEF Handle
    <3> QED BY <2>1, <2>3, <3>1, <3>2, GotoStep
  <2> QED BY <1>1, <2>2, <2>3 DEF CancelEnter
<1>2. CASE CancelIsDone(u)
  <2>1. /\ ~Idle(u) /\ lock[x] = u
        /\ Parent(x) = m_parent[x] /\ Parent(x) # NoCtx
    BY <1>2 DEF CancelIsDone, Idle, ContextInv, ClimbInv, Parent
  <2>2. CASE Done(Parent(x)) /\ CancelAt(u, x)
    BY <1>2, <2>1, <2>2, CancelAtStep DEF CancelIsDone, Ready
  <2>3. CASE /\ Goto(u, Parent(x), "enter")
             /\ UNCHANGED <<m_pending, tasks, posts, lock>>
    <3>1. UNCHANGED chainVars /\ lock' = lock
      BY <1>2, <2>3 DEF CancelIsDone, chainVars
    <3>2. Parent(x) \in Ctx /\ Handle(Parent(x))
      BY <2>1, Reached
    <3> QED BY <2>3, <3>1, <3>2, GotoStep
  <2> QED BY <1>2, <2>2, <2>3 DEF CancelIsDone
<1>3. CASE AbortEnter(u)
  <2>1. /\ ~Idle(u) /\ Free(x) /\ UNCHANGED chainVars
        /\ lock' = [lock EXCEPT ![x] = u]
    BY <1>3 DEF AbortEnter, Idle
  <2>2. x \in Ctx /\ Handle(x)
    BY <2>1, Reached DEF Handle
  <2>3. CASE Parent(x) = NoCtx /\ Goto(u, x, "close")
    BY <2>1, <2>2, <2>3, Reached, GotoStep
  <2>4. CASE Parent(x) # NoCtx /\ Goto(u, x, "is_done")
    BY <2>1, <2>2, <2>4, Reached, GotoStep
  <2> QED BY <1>3, <2>3, <2>4 DEF AbortEnter
<1>4. CASE AbortIsDone(u)
  <2>1. /\ ~Idle(u) /\ lock[x] = u
        /\ Parent(x) = m_parent[x] /\ Parent(x) # NoCtx
        /\ UNCHANGED chainVars /\ lock' = lock
    BY <1>4 DEF AbortIsDone, Idle, ContextInv, ClimbInv, Parent
  <2>2. /\ x \in Ctx /\ Handle(x)
        /\ Parent(x) \in Ctx /\ Handle(Parent(x))
    BY <2>1, Reached DEF Handle
  <2>3. CASE Done(Parent(x)) /\ Goto(u, x, "close")
    BY <2>1, <2>2, <2>3, GotoStep DEF Ready
  <2>4. CASE Goto(u, Parent(x), "enter")
    BY <2>1, <2>2, <2>4, GotoStep
  <2> QED BY <1>4, <2>3, <2>4 DEF AbortIsDone
<1>5. CASE AbortClose(u)
  BY <1>5, AbortCloseStep
<1> QED BY <1>1, <1>2, <1>3, <1>4, <1>5 DEF Climb

\* A call of cancel() or abort() keeps the invariant.
LEMMA CallStep ==
    ASSUME ContextInv, NEW t \in Threads, Idle(t),
           NEW method \in {"cancel", "abort"}, NEW c \in Ctx, Call(t, method, c)
    PROVE  ContextInv'
<1> USE NullThreadAssumption
<1>1. /\ Handle(c) /\ UNCHANGED chainVars /\ lock' = lock
      /\ op' = [op EXCEPT ![t] = method]
      /\ at' = [at EXCEPT ![t] = c] /\ pc' = [pc EXCEPT ![t] = "enter"]
  BY DEF Call
<1>2. ChainInv'
  BY <1>1, StutterStep DEF ContextInv
<1>3. TypeOK'
  BY <1>1, <1>2 DEF ContextInv, TypeOK, ChainInv
<1>4. ClimbInv'
  <2>1. UNCHANGED pairVars /\ m_pending' = m_pending
    BY <1>1 DEF chainVars
  <2>2. \A u \in Threads \ {t} : op'[u] = op[u] /\ at'[u] = at[u] /\ pc'[u] = pc[u]
    BY <1>1 DEF ContextInv, TypeOK
  <2>3. at'[t] = c /\ pc'[t] = "enter"
    BY <1>1 DEF ContextInv, TypeOK
  <2> QED BY <1>1, <2>1, <2>2, <2>3, ClimbKept
<1> QED BY <1>2, <1>3, <1>4 DEF ContextInv

\* Client code that locks one mutex leaves the climbs alone.
LEMMA LockedClientStep == ASSUME ContextInv, LockedClientCode PROVE ChainInv' /\ Frame
<1>1. ClientCode
  BY DEF LockedClientCode, ClientCode
<1>2. ChainInv'
  BY <1>1, ClientStep DEF ContextInv
<1>3. ASSUME NEW c \in Ctx, NewOp(c) PROVE Frame
  BY <1>3 DEF NewOp, Frame, ContextInv, ChainInv, ChainTypeOK, pairVars, Born, Done
<1>4. ASSUME NEW x \in Ctx, NEW c \in Ctx, NEW k \in {"then", "then_both", "on_failure"},
             Free(x), Then(x, c, k)
      PROVE  Frame
  BY <1>4, AttachFrame DEF Then
<1>5. ASSUME NEW c \in Ctx, NEW r \in Returned, Free(c), AsyncReturn(c, r) PROVE Frame
  <2>1. Passed(m_pending)
    BY DEF Passed, ContextInv, ChainInv, ChainTypeOK, States
  <2>2. r \in Results /\ Born(c) /\ kind[c] # "forward"
    BY <1>5, ReturnedAssumption
    DEF AsyncReturn, ContextInv, ChainInv, Linked, Completable, Results
  <2> QED BY <1>5, <2>1, <2>2, SettleFrame DEF AsyncReturn
<1>6. Frame
  BY <1>3, <1>4, <1>5 DEF LockedClientCode
<1> QED BY <1>2, <1>6

\* So does a functor run by the executor.
LEMMA LockedTaskStep ==
    ASSUME ContextInv, NEW task \in tasks, LockedRunTask(task)
    PROVE  ChainInv' /\ Frame
<1> USE ReturnedAssumption
<1> DEFINE c == task.child
<1>1. RunTask(task)
  BY DEF LockedRunTask, RunTask
<1>2. ChainInv'
  BY <1>1, TaskStep DEF ContextInv
<1>3. c \in Ctx /\ task.result \in Results /\ Born(c)
  BY TaskReady DEF ContextInv
<1>4. Passed(m_pending)
  BY DEF Passed, ContextInv, ChainInv, ChainTypeOK, States
<1>5. ASSUME Free(c), RunDefault(task) PROVE Frame
  BY <1>3, <1>4, <1>5, SettleFrame DEF RunDefault
<1>6. ASSUME Free(c), RunSimple(task) PROVE Frame
  <2>1. "value" \in Results
    BY DEF Results
  <2> QED BY <1>3, <1>4, <1>6, <2>1, SettleFrame DEF RunSimple, RunsFunctor
<1>7. ASSUME NEW r \in Returned, Free(c), RunValueOrError(task, r) PROVE Frame
  <2>1. r \in Results
    BY DEF Results
  <2> QED BY <1>3, <1>4, <1>7, <2>1, SettleFrame DEF RunValueOrError, RunsFunctor
<1>8. ASSUME Free(c), RunCaught(task) PROVE Frame
  <2>1. "error" \in Results
    BY DEF Results
  <2> QED BY <1>3, <1>4, <1>8, <2>1, SettleFrame DEF RunCaught, RunsFunctor
<1>9. ASSUME RunAsync(task) PROVE Frame
  BY <1>9 DEF RunAsync, Frame, pairVars, Born, Done
<1>10. ASSUME NEW i \in Ctx, NEW j \in Ctx, Free(i), RunARet(task, i, j) PROVE Frame
  BY <1>10, AttachFrame DEF RunARet
<1>11. ASSUME RunForward(task), Free(outer[c]) PROVE Frame
  <2> DEFINE x == outer[c]
             pend == [m_pending EXCEPT ![c] = "value"]
  <2>1. kind[c] = "forward" /\ posts[c] > 0
    BY <1>11 DEF RunForward, ContextInv, ChainInv, Completable
  <2>2. x \in Ctx /\ Born(x) /\ kind[x] # "forward" /\ Free(x)
    BY <1>3, <1>11, <2>1 DEF ContextInv, ChainInv, Completable
  <2>3. Passed(pend)
    BY <1>3, <2>1 DEF Passed, ContextInv, ChainInv, ChainTypeOK, States, Results
  <2>4. Settle(x, task.result, pend, tasks \ {task}) /\ UNCHANGED pairVars
    BY <1>11 DEF RunForward
  <2> HIDE DEF x, pend
  <2> QED BY <1>3, <2>2, <2>3, <2>4, SettleFrame
<1>12. Frame
  BY <1>5, <1>6, <1>7, <1>8, <1>9, <1>10, <1>11 DEF LockedRunTask
<1> QED BY <1>2, <1>12

\* ContextInv is an invariant with any number of threads.
THEOREM ContextInvariant == Spec => []ContextInv
<1>1. ASSUME ContextInv, [Next]_vars PROVE ContextInv'
  <2>1. ASSUME NEW t \in Threads, Climb(t) PROVE ContextInv'
    BY <1>1, <2>1, ClimbStep
  <2>2. ASSUME NEW t \in Threads, Idle(t),
               NEW method \in {"cancel", "abort"}, NEW c \in Ctx, Call(t, method, c)
        PROVE  ContextInv'
    BY <1>1, <2>2, CallStep
  <2>3. CASE LockedClientCode /\ UNCHANGED climbVars
    BY <1>1, <2>3, LockedClientStep, FrameKeepsClimb
  <2>4. ASSUME NEW task \in tasks, LockedRunTask(task), UNCHANGED climbVars PROVE ContextInv'
    BY <1>1, <2>4, LockedTaskStep, FrameKeepsClimb
  <2>5. CASE UNCHANGED vars
    <3>1. UNCHANGED chainVars /\ UNCHANGED climbVars
      BY <2>5 DEF vars
    <3>2. ChainInv'
      BY <1>1, <3>1, StutterStep DEF ContextInv
    <3>3. Frame
      BY <3>1 DEF Frame, chainVars, pairVars, Born, Done
    <3> QED BY <1>1, <3>1, <3>2, <3>3, FrameKeepsClimb
  <2> QED BY <1>1, <2>1, <2>2, <2>3, <2>4, <2>5 DEF Next
<1> QED BY InitContextInv, <1>1, PTL DEF Spec

\* Type correctness of the contexts, the mutexes and the climbs.
THEOREM TypeCorrect == Spec => []TypeOK
<1>1. ContextInv => TypeOK
  BY DEF ContextInv
<1> QED BY <1>1, ContextInvariant, PTL

\* With any number of threads, a result reaches at most one continuation and is never
\* lost, although async_return(), then(), cancel() and abort() race for the mutexes.
THEOREM ThreadsDeliverOnce == Spec => [](DeliveredOnce /\ ResultDelivered)
<1>1. ContextInv => DeliveredOnce /\ ResultDelivered
  BY DEF ContextInv, ChainInv
<1> QED BY <1>1, ContextInvariant, PTL

\* With any number of threads, nothing is posted for an aborted operation and no
\* operation gets ahead of the one it continues, at any point of any climb.
THEOREM ThreadsKeepOrder == Spec => [](AbortSilences /\ ParentFirst)
<1>1. ContextInv => AbortSilences /\ ParentFirst
  BY DEF ContextInv, ChainInv
<1> QED BY <1>1, ContextInvariant, PTL
-----------------------------------------------------------------------------
(* The mutexes that a climb owns.                                          *)

\* f lists the n contexts whose mutexes t owns: first the one whose method t called, and
\* then always the parent of the one before, up to where t has climbed.
IsPath(t, n, f) ==
    /\ \A i, j \in 1 .. n : f[i] = f[j] => i = j
    /\ Owned(t) = {f[i] : i \in 1 .. n}
    /\ \A i \in 1 .. n - 1 : m_parent[f[i]] = f[i + 1]
    /\ Idle(t) => n = 0
    /\ (pc[t] = "enter" /\ n > 0) => m_parent[f[n]] = at[t]
    /\ pc[t] \in {"is_done", "close"} => (n > 0 /\ f[n] = at[t])

OwnsPath(t) == \E n \in Nat : \E f \in [1 .. n -> Ctx] : IsPath(t, n, f)

\* ClimbedStaysOpen for the climb of t.
StaysOpen(t) ==
    pc[t] \in {"enter", "is_done"} =>
        \A c \in Owned(t) :
            /\ ~Done(c)
            /\ m_parent[c] # NoCtx
            /\ \/ c = at[t] /\ pc[t] = "is_done"
               \/ m_parent[c] \in Owned(t)
               \/ m_parent[c] = at[t] /\ pc[t] = "enter"

PathsInv == \A t \in Threads : OwnsPath(t) /\ StaysOpen(t)

\* A step that leaves alone where t is, what it owns, and what it has read of that.
LEMMA PathKept ==
    ASSUME ContextInv, NEW t \in Threads, OwnsPath(t), StaysOpen(t),
           op'[t] = op[t], at'[t] = at[t], pc'[t] = pc[t],
           \A c \in Ctx : (lock'[c] = t) <=> (lock[c] = t),
           \A c \in Owned(t) : /\ m_parent'[c] = m_parent[c]
                               /\ ~Done(c) => ~Done(c)'
    PROVE  OwnsPath(t)' /\ StaysOpen(t)'
<1>1. Owned(t)' = Owned(t)
  BY DEF Owned
<1>2. PICK n \in Nat : \E f \in [1 .. n -> Ctx] : IsPath(t, n, f)
  BY DEF OwnsPath
<1>3. PICK f \in [1 .. n -> Ctx] : IsPath(t, n, f)
  BY <1>2
<1>4. \A i \in 1 .. n : f[i] \in Owned(t)
  BY <1>3 DEF IsPath
<1>5. IsPath(t, n, f)'
  <2>1. \A i \in 1 .. n - 1 : m_parent'[f[i]] = f[i + 1]
    <3> SUFFICES ASSUME NEW i \in 1 .. n - 1 PROVE m_parent'[f[i]] = f[i + 1]
      OBVIOUS
    <3>1. i \in 1 .. n
      OBVIOUS
    <3>2. m_parent'[f[i]] = m_parent[f[i]]
      BY <1>4, <3>1
    <3> QED BY <1>3, <3>2 DEF IsPath
  <2>2. (n > 0 /\ pc[t] = "enter") => m_parent'[f[n]] = m_parent[f[n]]
    BY <1>4
  <2> QED BY <1>1, <1>3, <2>1, <2>2 DEF IsPath, Idle
<1>6. OwnsPath(t)'
  BY <1>5 DEF OwnsPath
<1>7. StaysOpen(t)'
  BY <1>1 DEF StaysOpen
<1> QED BY <1>6, <1>7

\* The climbs of other threads when one thread climbs: nobody changes a context, or the
\* owner of a mutex, that somebody else owns.
LEMMA OthersPathKept ==
    ASSUME ContextInv, PathsInv, NEW u \in Threads, NEW t \in Threads \ {u},
           UNCHANGED pairVars,
           op'[t] = op[t], at'[t] = at[t], pc'[t] = pc[t],
           \A c \in Ctx : m_pending'[c] # m_pending[c] => (Free(c) \/ lock[c] = u),
           \A c \in Ctx : lock'[c] # lock[c] => /\ Free(c) \/ lock[c] = u
                                                /\ lock'[c] \in {u, NoThread}
    PROVE  OwnsPath(t)' /\ StaysOpen(t)'
<1> USE NullThreadAssumption
<1>1. \A c \in Ctx : (lock'[c] = t) <=> (lock[c] = t)
  BY DEF Free
<1>2. \A c \in Owned(t) : m_parent'[c] = m_parent[c] /\ (~Done(c) => ~Done(c)')
  BY DEF pairVars, Owned, Free, Done
<1>3. OwnsPath(t) /\ StaysOpen(t)
  BY DEF PathsInv
<1> QED BY <1>1, <1>2, <1>3, PathKept

\* Methods that lock one mutex leave the paths alone.
LEMMA FrameKeepsPaths ==
    ASSUME ContextInv, PathsInv, Frame, UNCHANGED climbVars
    PROVE  PathsInv'
<1> SUFFICES ASSUME NEW t \in Threads PROVE OwnsPath(t)' /\ StaysOpen(t)'
  BY DEF PathsInv
<1>1. lock' = lock /\ op' = op /\ at' = at /\ pc' = pc
  BY DEF climbVars
<1>2. \A c \in Owned(t) : m_parent'[c] = m_parent[c] /\ (~Done(c) => ~Done(c)')
  BY NullThreadAssumption DEF Frame, Owned, ContextInv, ClimbInv, Handle, Free
<1>3. OwnsPath(t) /\ StaysOpen(t)
  BY DEF PathsInv
<1> QED BY <1>1, <1>2, <1>3, PathKept

\* A thread that owns nothing has an empty path.
LEMMA EmptyPath ==
    ASSUME NEW t \in Threads, Owned(t)' = {},
           pc'[t] \in {"idle", "enter"}
    PROVE  OwnsPath(t)' /\ StaysOpen(t)'
<1>1. PICK f : f \in [1 .. 0 -> Ctx]
  <2>1. [i \in 1 .. 0 |-> NoCtx] \in [1 .. 0 -> Ctx]
    OBVIOUS
  <2> QED BY <2>1
<1>2. IsPath(t, 0, f)'
  BY DEF IsPath
<1>3. OwnsPath(t)'
  BY <1>1, <1>2 DEF OwnsPath
<1>4. StaysOpen(t)'
  BY DEF StaysOpen
<1> QED BY <1>3, <1>4

\* A climb locks the context that it has come to.  The context was free, so the path does
\* not lead back to itself: a chain that did would make the thread wait for its own mutex.
LEMMA PathGrows ==
    ASSUME ContextInv, NEW u \in Threads, OwnsPath(u), StaysOpen(u),
           NEW x \in Ctx, x = at[u], pc[u] = "enter", Free(x),
           lock' = [lock EXCEPT ![x] = u],
           at'[u] = x,
           \/ pc'[u] = "is_done" /\ m_pending[x] # "done" /\ m_parent[x] # NoCtx
           \/ pc'[u] = "close",
           m_pending' = m_pending, m_parent' = m_parent
    PROVE  OwnsPath(u)' /\ StaysOpen(u)'
<1> USE NullThreadAssumption
<1>1. Owned(u)' = Owned(u) \cup {x} /\ x \notin Owned(u)
  BY DEF Owned, Free, ContextInv, TypeOK
<1>2. PICK n \in Nat : \E f \in [1 .. n -> Ctx] : IsPath(u, n, f)
  BY DEF OwnsPath
<1>3. PICK f \in [1 .. n -> Ctx] : IsPath(u, n, f)
  BY <1>2
<1> DEFINE g == [i \in 1 .. n + 1 |-> IF i = n + 1 THEN x ELSE f[i]]
<1>4. /\ g \in [1 .. n + 1 -> Ctx] /\ g[n + 1] = x
      /\ \A i \in 1 .. n : g[i] = f[i] /\ f[i] \in Owned(u)
  BY <1>3 DEF IsPath
<1> HIDE DEF g
<1>5. \A i, j \in 1 .. n + 1 : g[i] = g[j] => i = j
  BY <1>1, <1>3, <1>4 DEF IsPath
<1>6. Owned(u) \cup {x} = {g[i] : i \in 1 .. n + 1}
  <2>1. Owned(u) = {f[i] : i \in 1 .. n}
    BY <1>3 DEF IsPath
  <2>2. 1 .. n + 1 = (1 .. n) \cup {n + 1}
    OBVIOUS
  <2>3. ASSUME NEW c \in Owned(u) \cup {x} PROVE \E i \in 1 .. n + 1 : c = g[i]
    <3>1. CASE c = x
      BY <1>4, <3>1
    <3>2. CASE c \in Owned(u)
      BY <1>4, <2>1, <2>2, <3>2
    <3> QED BY <3>1, <3>2
  <2>4. ASSUME NEW i \in 1 .. n + 1 PROVE g[i] \in Owned(u) \cup {x}
    BY <1>4, <2>2
  <2> QED BY <2>3, <2>4
<1>7. \A i \in 1 .. n : m_parent[g[i]] = g[i + 1]
  <2> SUFFICES ASSUME NEW i \in 1 .. n PROVE m_parent[g[i]] = g[i + 1]
    OBVIOUS
  <2>1. CASE i = n
    BY <1>3, <1>4, <2>1 DEF IsPath
  <2>2. CASE i # n
    BY <1>3, <1>4, <2>2 DEF IsPath
  <2> QED BY <2>1, <2>2
<1>8. IsPath(u, n + 1, g)'
  BY <1>1, <1>4, <1>5, <1>6, <1>7 DEF IsPath, Idle
<1>9. OwnsPath(u)'
  BY <1>4, <1>8 DEF OwnsPath
<1>10. StaysOpen(u)'
  BY <1>1 DEF StaysOpen, Done
<1> QED BY <1>9, <1>10

\* abort() unlocks the context at the end of its path, and finds the child that called it,
\* or owns nothing more.
LEMMA PathShrinks ==
    ASSUME ContextInv, NEW u \in Threads, OwnsPath(u), AbortClose(u)
    PROVE  OwnsPath(u)' /\ StaysOpen(u)'
<1> USE NullThreadAssumption
<1> DEFINE x == at[u]
<1>1. /\ pc[u] = "close" /\ x \in Ctx /\ lock[x] = u
      /\ lock' = [lock EXCEPT ![x] = NoThread] /\ m_parent' = m_parent
  BY DEF AbortClose, ContextInv, ClimbInv, Idle, pairVars
<1>2. \/ Leave(u) /\ \A y \in Owned(u) \ {x} : m_parent[y] # x
      \/ \E y \in Owned(u) \ {x} : m_parent[y] = x /\ Goto(u, y, "close")
  BY DEF AbortClose
<1>3. Owned(u)' = Owned(u) \ {x}
  BY <1>1 DEF Owned, ContextInv, TypeOK
<1>4. PICK n \in Nat : \E f \in [1 .. n -> Ctx] : IsPath(u, n, f)
  BY DEF OwnsPath
<1>5. PICK f \in [1 .. n -> Ctx] : IsPath(u, n, f)
  BY <1>4
<1>6. /\ n > 0 /\ f[n] = x /\ Owned(u) = {f[i] : i \in 1 .. n}
      /\ \A i, j \in 1 .. n : f[i] = f[j] => i = j
      /\ \A i \in 1 .. n - 1 : m_parent[f[i]] = f[i + 1]
  BY <1>1, <1>5 DEF IsPath
<1> HIDE DEF x
<1>7. Owned(u) \ {x} = {f[i] : i \in 1 .. n - 1}
  BY <1>6
<1>8. CASE n = 1
  <2>1. Owned(u)' = {}
    BY <1>3, <1>7, <1>8
  <2>2. Leave(u)
    BY <1>2, <1>3, <2>1
  <2>3. pc'[u] = "idle"
    BY <2>2 DEF Leave, ContextInv, TypeOK
  <2> QED BY <2>1, <2>3, EmptyPath
<1>9. CASE n # 1
  <2>1. /\ n - 1 \in 1 .. n /\ n - 1 \in 1 .. n - 1
        /\ f[n - 1] \in Owned(u) \ {x} /\ m_parent[f[n - 1]] = x
    BY <1>6, <1>7, <1>9
  <2>2. PICK y \in Owned(u) \ {x} : m_parent[y] = x /\ Goto(u, y, "close")
    BY <1>2, <2>1
  <2>3. PICK i \in 1 .. n - 1 : y = f[i]
    BY <1>7, <2>2
  <2>4. i = n - 1
    BY <1>6, <2>2, <2>3
  <2>5. pc'[u] = "close" /\ at'[u] = y
    BY <2>2 DEF Goto, ContextInv, TypeOK
  <2> DEFINE g == [k \in 1 .. n - 1 |-> f[k]]
  <2>6. g \in [1 .. n - 1 -> Ctx] /\ \A k \in 1 .. n - 1 : g[k] = f[k]
    OBVIOUS
  <2> HIDE DEF g
  <2>7. IsPath(u, n - 1, g)'
    <3>1. {f[k] : k \in 1 .. n - 1} = {g[k] : k \in 1 .. n - 1}
      BY <2>6
    <3>2. \A k \in 1 .. (n - 1) - 1 : m_parent[g[k]] = g[k + 1]
      BY <1>6, <2>6
    <3>3. \A k, j \in 1 .. n - 1 : g[k] = g[j] => k = j
      BY <1>6, <2>6
    <3>4. n - 1 > 0 /\ g[n - 1] = y
      BY <1>9, <2>3, <2>4, <2>6
    <3> QED BY <1>1, <1>3, <1>7, <2>5, <3>1, <3>2, <3>3, <3>4 DEF IsPath, Idle
  <2>8. n - 1 \in Nat
    BY <1>6
  <2>9. OwnsPath(u)'
    BY <2>6, <2>7, <2>8 DEF OwnsPath
  <2> QED BY <2>5, <2>9 DEF StaysOpen
<1> QED BY <1>8, <1>9

\* When cancel() has failed the context it has reached, all its calls return and unlock.
LEMMA PathEnds ==
    ASSUME ContextInv, NEW u \in Threads, CancelAt(u, at[u])
    PROVE  OwnsPath(u)' /\ StaysOpen(u)'
<1>1. lock' = [c \in Ctx |-> IF lock[c] = u THEN NoThread ELSE lock[c]]
  BY DEF CancelAt, ReleaseAll
<1>2. Owned(u)' = {}
  BY <1>1, NullThreadAssumption DEF Owned
<1>3. pc'[u] = "idle"
  BY DEF CancelAt, Leave, ContextInv, TypeOK
<1> QED BY <1>2, <1>3, EmptyPath

\* A step of a climb from one context to another, or on to its end, without a mutex.
LEMMA PathMoves ==
    ASSUME ContextInv, NEW u \in Threads, OwnsPath(u), StaysOpen(u),
           pc[u] = "is_done",
           \/ pc'[u] = "enter" /\ at'[u] = m_parent[at[u]]
           \/ pc'[u] = "close" /\ at'[u] = at[u],
           lock' = lock, m_pending' = m_pending, m_parent' = m_parent
    PROVE  OwnsPath(u)' /\ StaysOpen(u)'
<1>1. Owned(u)' = Owned(u)
  BY DEF Owned
<1>2. PICK n \in Nat : \E f \in [1 .. n -> Ctx] : IsPath(u, n, f)
  BY DEF OwnsPath
<1>3. PICK f \in [1 .. n -> Ctx] : IsPath(u, n, f)
  BY <1>2
<1>4. IsPath(u, n, f)'
  BY <1>1, <1>3 DEF IsPath, Idle
<1>5. OwnsPath(u)'
  BY <1>4 DEF OwnsPath
<1>6. StaysOpen(u)'
  BY <1>1 DEF StaysOpen, Done
<1> QED BY <1>5, <1>6

\* Each step of a climb keeps the path of the thread that takes it.
LEMMA OwnPathKept ==
    ASSUME ContextInv, NEW u \in Threads, OwnsPath(u), StaysOpen(u), Climb(u)
    PROVE  OwnsPath(u)' /\ StaysOpen(u)'
<1> DEFINE x == at[u]
<1>1. x \in Ctx
  BY DEF Climb, CancelEnter, CancelIsDone, AbortEnter, AbortIsDone, AbortClose, Idle,
         ContextInv, ClimbInv
<1>2. CASE CancelEnter(u)
  <2>1. CASE CancelAt(u, x)
    BY <2>1, PathEnds
  <2>2. CASE /\ Parent(x) # NoCtx
             /\ lock' = [lock EXCEPT ![x] = u]
             /\ Goto(u, x, "is_done")
             /\ UNCHANGED <<m_pending, tasks, posts>>
    <3>1. /\ pc[u] = "enter" /\ Free(x) /\ m_pending' = m_pending /\ m_parent' = m_parent
          /\ m_pending[x] # "done" /\ m_parent[x] # NoCtx
      BY <1>2, <2>2 DEF CancelEnter, pairVars, Parent, Done
    <3>2. pc'[u] = "is_done" /\ at'[u] = x
      BY <2>2 DEF Goto, ContextInv, TypeOK
    <3> QED BY <1>1, <2>2, <3>1, <3>2, PathGrows
  <2> QED BY <1>2, <2>1, <2>2 DEF CancelEnter
<1>3. CASE CancelIsDone(u)
  <2>1. CASE CancelAt(u, x)
    BY <2>1, PathEnds
  <2>2. CASE /\ Goto(u, Parent(x), "enter")
             /\ UNCHANGED <<m_pending, tasks, posts, lock>>
    <3>1. /\ pc[u] = "is_done" /\ m_pending' = m_pending /\ m_parent' = m_parent /\ lock' = lock
          /\ Parent(x) = m_parent[x]
      BY <1>3, <2>2 DEF CancelIsDone, pairVars, Parent, ContextInv, ClimbInv
    <3>2. pc'[u] = "enter" /\ at'[u] = Parent(x)
      BY <2>2 DEF Goto, ContextInv, TypeOK
    <3> QED BY <3>1, <3>2, PathMoves
  <2> QED BY <1>3, <2>1, <2>2 DEF CancelIsDone
<1>4. CASE AbortEnter(u)
  <2>1. /\ pc[u] = "enter" /\ Free(x) /\ m_pending' = m_pending /\ m_parent' = m_parent
        /\ lock' = [lock EXCEPT ![x] = u]
    BY <1>4 DEF AbortEnter, chainVars, pairVars
  <2>2. /\ at'[u] = x
        /\ \/ pc'[u] = "is_done" /\ m_pending[x] # "done" /\ m_parent[x] # NoCtx
           \/ pc'[u] = "close"
    BY <1>4 DEF AbortEnter, Goto, Parent, Done, ContextInv, TypeOK
  <2> QED BY <1>1, <2>1, <2>2, PathGrows
<1>5. CASE AbortIsDone(u)
  <2>1. /\ pc[u] = "is_done" /\ m_pending' = m_pending /\ m_parent' = m_parent
        /\ lock' = lock /\ Parent(x) = m_parent[x]
    BY <1>5 DEF AbortIsDone, chainVars, pairVars, Parent, ContextInv, ClimbInv
  <2>2. \/ pc'[u] = "enter" /\ at'[u] = Parent(x)
        \/ pc'[u] = "close" /\ at'[u] = x
    BY <1>5 DEF AbortIsDone, Goto, ContextInv, TypeOK
  <2> QED BY <2>1, <2>2, PathMoves
<1>6. CASE AbortClose(u)
  BY <1>6, PathShrinks
<1> QED BY <1>2, <1>3, <1>4, <1>5, <1>6 DEF Climb

\* What a step of a climb may do to contexts and mutexes: those that are free or its own.
LEMMA ClimbFootprint ==
    ASSUME ContextInv, NEW u \in Threads, Climb(u)
    PROVE  /\ UNCHANGED pairVars
           /\ \A t \in Threads \ {u} : op'[t] = op[t] /\ at'[t] = at[t] /\ pc'[t] = pc[t]
           /\ \A c \in Ctx : m_pending'[c] # m_pending[c] => (Free(c) \/ lock[c] = u)
           /\ \A c \in Ctx : lock'[c] # lock[c] => /\ Free(c) \/ lock[c] = u
                                                   /\ lock'[c] \in {u, NoThread}
<1> DEFINE x == at[u]
<1>1. /\ UNCHANGED pairVars
      /\ x \in Ctx
      /\ Free(x) \/ lock[x] = u
  BY DEF Climb, CancelEnter, CancelIsDone, AbortEnter, AbortIsDone, AbortClose, Idle,
         chainVars, ContextInv, ClimbInv
<1>2. \/ Leave(u)
      \/ \E c, label : Goto(u, c, label)
  BY DEF Climb, CancelEnter, CancelIsDone, AbortEnter, AbortIsDone, AbortClose, CancelAt
<1>3. \A t \in Threads \ {u} : op'[t] = op[t] /\ at'[t] = at[t] /\ pc'[t] = pc[t]
  BY <1>2 DEF Leave, Goto, ContextInv, TypeOK
<1>4. \/ lock' = lock
      \/ lock' = [lock EXCEPT ![x] = u]
      \/ lock' = [lock EXCEPT ![x] = NoThread]
      \/ lock' = [c \in Ctx |-> IF lock[c] = u THEN NoThread ELSE lock[c]]
  BY DEF Climb, CancelEnter, CancelIsDone, AbortEnter, AbortIsDone, AbortClose, CancelAt,
         ReleaseAll
<1>5. \/ m_pending' = m_pending
      \/ \E r : m_pending' = [m_pending EXCEPT ![x] = r]
  BY DEF Climb, CancelEnter, CancelIsDone, AbortEnter, AbortIsDone, AbortClose, CancelAt,
         Settle, Post, chainVars
<1> HIDE DEF x
<1>6. \A c \in Ctx : lock'[c] # lock[c] => /\ Free(c) \/ lock[c] = u
                                           /\ lock'[c] \in {u, NoThread}
  BY <1>1, <1>4 DEF ContextInv, TypeOK
<1>7. \A c \in Ctx : m_pending'[c] # m_pending[c] => (Free(c) \/ lock[c] = u)
  BY <1>1, <1>5 DEF ContextInv, ChainInv, ChainTypeOK
<1> QED BY <1>1, <1>3, <1>6, <1>7

\* Each step of the threads keeps the paths.
LEMMA PathsStep == ASSUME ContextInv, PathsInv, [Next]_vars PROVE PathsInv'
<1>1. ASSUME NEW u \in Threads, Climb(u) PROVE PathsInv'
  <2> SUFFICES ASSUME NEW t \in Threads PROVE OwnsPath(t)' /\ StaysOpen(t)'
    BY DEF PathsInv
  <2>1. CASE t = u
    BY <1>1, <2>1, OwnPathKept DEF PathsInv
  <2>2. CASE t # u
    BY <1>1, <2>2, ClimbFootprint, OthersPathKept
  <2> QED BY <2>1, <2>2
<1>2. ASSUME NEW u \in Threads, Idle(u),
             NEW method \in {"cancel", "abort"}, NEW c \in Ctx, Call(u, method, c)
      PROVE  PathsInv'
  <2>1. /\ UNCHANGED pairVars /\ m_pending' = m_pending /\ lock' = lock
        /\ pc'[u] = "enter"
        /\ \A t \in Threads \ {u} : op'[t] = op[t] /\ at'[t] = at[t] /\ pc'[t] = pc[t]
    BY <1>2 DEF Call, chainVars, ContextInv, TypeOK
  <2>2. Owned(u)' = {}
    <3>1. PICK n \in Nat : \E f \in [1 .. n -> Ctx] : IsPath(u, n, f)
      BY DEF PathsInv, OwnsPath
    <3>2. n = 0 /\ Owned(u) = {}
      BY <1>2, <3>1 DEF IsPath
    <3> QED BY <2>1, <3>2 DEF Owned
  <2> SUFFICES ASSUME NEW t \in Threads PROVE OwnsPath(t)' /\ StaysOpen(t)'
    BY DEF PathsInv
  <2>3. CASE t = u
    BY <2>1, <2>2, <2>3, EmptyPath
  <2>4. CASE t # u
    BY <2>1, <2>4, OthersPathKept
  <2> QED BY <2>3, <2>4
<1>3. CASE LockedClientCode /\ UNCHANGED climbVars
  BY <1>3, LockedClientStep, FrameKeepsPaths
<1>4. ASSUME NEW task \in tasks, LockedRunTask(task), UNCHANGED climbVars PROVE PathsInv'
  BY <1>4, LockedTaskStep, FrameKeepsPaths
<1>5. CASE UNCHANGED vars
  <2>1. Frame /\ UNCHANGED climbVars
    BY <1>5 DEF Frame, vars, chainVars, pairVars, Born, Done
  <2> QED BY <2>1, FrameKeepsPaths
<1> QED BY <1>1, <1>2, <1>3, <1>4, <1>5 DEF Next

\* The mutexes that a thread owns are always those of a path of the chain, from the handle
\* it was called on up to where it has climbed, and what it has read of them stays true.
THEOREM PathsInvariant == Spec => [](ContextInv /\ PathsInv)
<1>1. Init => PathsInv
  <2> SUFFICES ASSUME Init, NEW t \in Threads PROVE OwnsPath(t) /\ StaysOpen(t)
    BY DEF PathsInv
  <2>1. Owned(t) = {} /\ pc[t] = "idle"
    BY NullThreadAssumption DEF Init, Owned
  <2>2. PICK f : f \in [1 .. 0 -> Ctx]
    <3>1. [i \in 1 .. 0 |-> NoCtx] \in [1 .. 0 -> Ctx]
      OBVIOUS
    <3> QED BY <3>1
  <2>3. IsPath(t, 0, f)
    BY <2>1 DEF IsPath
  <2>4. OwnsPath(t)
    BY <2>2, <2>3 DEF OwnsPath
  <2> QED BY <2>1, <2>4 DEF StaysOpen
<1>2. ContextInv /\ PathsInv /\ [Next]_vars => PathsInv'
  BY PathsStep
<1> QED BY <1>1, <1>2, ContextInvariant, PTL DEF Spec

\* Between two mutexes, cancel() and abort() act on what is still true: each context that
\* they have locked on their way is unfinished and continues the one they went to.
THEOREM ClimbsReadNothingStale == Spec => []ClimbedStaysOpen
<1>1. PathsInv => ClimbedStaysOpen
  BY DEF PathsInv, StaysOpen, ClimbedStaysOpen
<1> QED BY <1>1, PathsInvariant, PTL

\* On every way out of cancel() and abort(), with every depth of the recursion, all the
\* mutexes they have locked are unlocked.
THEOREM LocksReleased == Spec => []NoLockLeak
<1>1. PathsInv => NoLockLeak
  <2> SUFFICES ASSUME PathsInv, NEW t \in Threads, Idle(t) PROVE Owned(t) = {}
    BY DEF NoLockLeak
  <2>1. PICK n \in Nat : \E f \in [1 .. n -> Ctx] : IsPath(t, n, f)
    BY DEF PathsInv, OwnsPath
  <2> QED BY <2>1 DEF IsPath
<1> QED BY <1>1, PathsInvariant, PTL
-----------------------------------------------------------------------------
(* No circular wait.  A thread in cancel() or abort() waits for the mutex  *)
(* of a parent while it owns those of children; other threads climb to the *)
(* same parent from other children.  It goes well because all climbs take  *)
(* the mutexes in the one order that m_parent gives.                       *)

\* t needs the mutex of c for its next step: to lock it, or to ask whether c is done.
Awaits(t, c) ==
    \/ pc[t] = "enter" /\ c = at[t]
    \/ pc[t] = "is_done" /\ c = Parent(at[t])

\* No threads wait for each other in a circle: among any of them there is one that does
\* not wait for a mutex that one of them owns, itself included (m_mutex is not recursive).
NoCircularWait ==
    \A W \in SUBSET Threads : W # {} =>
        \E t \in W : \A c \in Ctx : Awaits(t, c) => lock[c] \notin W

\* While threads are in cancel() or abort(), one of them is able to go on.
SomeCallGoesOn ==
    (\E t \in Threads : ~Idle(t)) =>
        \E t \in Threads : ~Idle(t) /\ \A c \in Ctx : Awaits(t, c) => Free(c)

\* The links to the parents form no circle, and no endless chain.
Acyclic == \A S \in SUBSET Ctx : S # {} => \E c \in S : m_parent[c] \notin S

\* A step adds at most one link, from a context that it constructs.
NewLink ==
    \E x, child \in Ctx : /\ Born(x) /\ ~Born(child)
                          /\ m_parent' = [m_parent EXCEPT ![child] = x]

\* Every method but the constructor "with parent" leaves the links alone.
LEMMA LinksStep == ASSUME ContextInv, [Next]_vars PROVE m_parent' = m_parent \/ NewLink
<1>1. ASSUME NEW x \in Ctx, NEW child \in Ctx, NEW k, NEW target, NEW queue,
             Handle(x), Attach(x, child, k, target, queue)
      PROVE  NewLink
  BY <1>1 DEF Attach, NewLink, Handle
<1>2. ASSUME LockedClientCode PROVE m_parent' = m_parent \/ NewLink
  <2>1. ASSUME NEW c \in Ctx, NewOp(c) PROVE m_parent' = m_parent
    BY <2>1 DEF NewOp, pairVars
  <2>2. ASSUME NEW x \in Ctx, NEW c \in Ctx, NEW k, Then(x, c, k) PROVE NewLink
    BY <1>1, <2>2 DEF Then
  <2>3. ASSUME NEW c \in Ctx, NEW r, AsyncReturn(c, r) PROVE m_parent' = m_parent
    BY <2>3 DEF AsyncReturn, pairVars
  <2> QED BY <1>2, <2>1, <2>2, <2>3 DEF LockedClientCode
<1>3. ASSUME NEW task \in tasks, LockedRunTask(task) PROVE m_parent' = m_parent \/ NewLink
  <2>1. ASSUME NEW i \in Ctx, NEW j \in Ctx, RunARet(task, i, j) PROVE NewLink
    BY <1>1, <2>1 DEF RunARet
  <2>2. ASSUME ~(\E i, j \in Ctx : RunARet(task, i, j)) PROVE m_parent' = m_parent
    BY <1>3, <2>2
    DEF LockedRunTask, RunDefault, RunSimple, RunValueOrError, RunAsync, RunCaught,
        RunForward, pairVars
  <2> QED BY <2>1, <2>2
<1>4. ASSUME NEW u \in Threads, Climb(u) PROVE m_parent' = m_parent
  BY <1>4
  DEF Climb, CancelEnter, CancelIsDone, AbortEnter, AbortIsDone, AbortClose, chainVars, pairVars
<1>5. ASSUME NEW u \in Threads, NEW method, NEW c \in Ctx, Call(u, method, c)
      PROVE  m_parent' = m_parent
  BY <1>5 DEF Call, chainVars, pairVars
<1>6. CASE UNCHANGED vars
  BY <1>6 DEF vars, chainVars, pairVars
<1> QED BY <1>2, <1>3, <1>4, <1>5, <1>6 DEF Next

\* A link from a context that nothing is linked to closes no circle.
LEMMA AcyclicStep ==
    ASSUME ContextInv, Acyclic, m_parent' = m_parent \/ NewLink
    PROVE  Acyclic'
<1>1. CASE m_parent' = m_parent
  BY <1>1 DEF Acyclic
<1>2. CASE NewLink
  <2>1. PICK x \in Ctx, child \in Ctx :
             /\ Born(x) /\ ~Born(child)
             /\ m_parent' = [m_parent EXCEPT ![child] = x]
    BY <1>2 DEF NewLink
  <2>2. /\ x # child
        /\ m_parent \in [Ctx -> Ctx \cup {NoCtx}]
        /\ \A c \in Ctx : m_parent[c] # child
    BY <2>1, NullCtxAssumption DEF ContextInv, ChainInv, ChainTypeOK, Linked
  <2>3. m_parent'[child] = x /\ \A c \in Ctx \ {child} : m_parent'[c] = m_parent[c]
    BY <2>1, <2>2
  <2>4. ASSUME NEW S \in SUBSET Ctx, S # {} PROVE \E c \in S : m_parent'[c] \notin S
    <3>1. CASE S = {child}
      BY <2>2, <2>3, <3>1
    <3>2. CASE S # {child}
      <4>1. S \ {child} # {} /\ S \ {child} \in SUBSET Ctx
        BY <2>4, <3>2
      <4>2. PICK c \in S \ {child} : m_parent[c] \notin S \ {child}
        BY <4>1 DEF Acyclic
      <4> QED BY <2>2, <2>3, <4>2
    <3> QED BY <3>1, <3>2
  <2> QED BY <2>4 DEF Acyclic
<1> QED BY <1>1, <1>2

\* The links to the parents form no circle.
THEOREM ParentsAreAcyclic == Spec => []Acyclic
<1>1. Init => Acyclic
  BY NullCtxAssumption DEF Init, ChainInit, Acyclic
<1>2. ContextInv /\ Acyclic /\ [Next]_vars => Acyclic'
  BY LinksStep, AcyclicStep
<1> QED BY <1>1, <1>2, ContextInvariant, PTL DEF Spec

\* A circle of threads that wait for each other would be one of links to parents: among
\* the contexts they own, the parent of each is owned by them too.
LEMMA WaitsFollowLinks ==
    ASSUME ContextInv, ClimbedStaysOpen, Acyclic,
           NEW W \in SUBSET Threads, W # {}
    PROVE  \E t \in W : \A c \in Ctx : Awaits(t, c) => lock[c] \notin W
<1> SUFFICES ASSUME \A t \in W : \E c \in Ctx : Awaits(t, c) /\ lock[c] \in W PROVE FALSE
  OBVIOUS
<1> DEFINE S == {c \in Ctx : lock[c] \in W}
<1>1. S \in SUBSET Ctx /\ S # {}
  OBVIOUS
<1>2. ASSUME NEW c \in S PROVE m_parent[c] \in S
  <2>1. PICK t \in W : lock[c] = t
    BY <1>2
  <2>2. t \in Threads /\ c \in Owned(t)
    BY <1>2, <2>1 DEF Owned
  <2>3. PICK d \in S : Awaits(t, d)
    BY <2>1
  <2>4. pc[t] \in {"enter", "is_done"}
    BY <2>3 DEF Awaits
  <2>5. /\ ~Done(c)
        /\ \/ c = at[t] /\ pc[t] = "is_done"
           \/ m_parent[c] \in Owned(t)
           \/ m_parent[c] = at[t] /\ pc[t] = "enter"
    BY <2>2, <2>4 DEF ClimbedStaysOpen
  <2>6. CASE c = at[t] /\ pc[t] = "is_done"
    BY <2>3, <2>5, <2>6 DEF Awaits, Parent
  <2>7. CASE m_parent[c] \in Owned(t)
    BY <2>1, <2>7 DEF Owned
  <2>8. CASE m_parent[c] = at[t] /\ pc[t] = "enter"
    BY <2>3, <2>8 DEF Awaits
  <2> QED BY <2>5, <2>6, <2>7, <2>8
<1> HIDE DEF S
<1> QED BY <1>1, <1>2 DEF Acyclic

\* cancel() and abort() do not deadlock, with any number of threads that climb any
\* chains: no threads ever wait for each other's mutexes in a circle.
THEOREM NoDeadlock == Spec => []NoCircularWait
<1>1. ContextInv /\ ClimbedStaysOpen /\ Acyclic => NoCircularWait
  BY WaitsFollowLinks DEF NoCircularWait
<1> QED BY <1>1, ContextInvariant, ClimbsReadNothingStale, ParentsAreAcyclic, PTL

\* Whenever threads are in cancel() or abort(), the next step of one of them needs no
\* mutex that is locked.
THEOREM CallsGoOn == Spec => []SomeCallGoesOn
<1>1. ContextInv /\ NoLockLeak /\ NoCircularWait => SomeCallGoesOn
  <2> SUFFICES ASSUME ContextInv, NoLockLeak, NoCircularWait,
                      NEW u \in Threads, ~Idle(u)
               PROVE  \E t \in Threads : ~Idle(t) /\ \A c \in Ctx : Awaits(t, c) => Free(c)
    BY DEF SomeCallGoesOn
  <2> DEFINE W == {t \in Threads : ~Idle(t)}
  <2>1. W \in SUBSET Threads /\ W # {}
    OBVIOUS
  <2>2. PICK t \in W : \A c \in Ctx : Awaits(t, c) => lock[c] \notin W
    BY <2>1 DEF NoCircularWait
  <2>3. ASSUME NEW c \in Ctx, lock[c] \notin W PROVE Free(c)
    BY <2>3 DEF ContextInv, TypeOK, NoLockLeak, Owned, Free
  <2> QED BY <2>2, <2>3
<1> QED BY <1>1, ContextInvariant, LocksReleased, NoDeadlock, PTL
-----------------------------------------------------------------------------
(* The methods take effect at once: Spec implements Atomic!ChainSpec.      *)

\* pend, if abort() had closed the whole chain by now.
Closed(pend) == [c \in Ctx |-> IF c \in Closing THEN "done" ELSE pend[c]]

\* AtomicPending is m_pending with the closing contexts done.
LEMMA PendingClosed == AtomicPending = Closed(m_pending) /\ AtomicPending' = Closed(m_pending)'
BY DEF AtomicPending, Closed

\* The variables of Atomic.
AtomicVars ==
    <<AtomicPending, held, tasks, posts, aborted \cup {c \in Closing : ~Done(c)}, pairVars>>

\* What an atomic observer sees of a context: those that abort() is to close are done, and
\* nothing else is different.  No context that is free, or that has no handle, is closing.
LEMMA ClosingContexts ==
    ASSUME ContextInv
    PROVE  /\ Closing \subseteq Ctx
           /\ \A c \in Ctx : (Free(c) \/ ~Born(c) \/ kind[c] = "forward") => c \notin Closing
           /\ \A c \in Ctx : Atomic!Done(c) <=> (Done(c) \/ c \in Closing)
           /\ \A c \in Ctx : Atomic!Born(c) <=> Born(c)
           /\ \A c \in Ctx : Atomic!Handle(c) <=> Handle(c)
<1>1. \A c \in Closing : c \in Ctx /\ ~Free(c) /\ Handle(c)
  BY DEF Closing, Free, ContextInv, ClimbInv
<1>2. \A c \in Ctx : AtomicPending[c] = IF c \in Closing THEN "done" ELSE m_pending[c]
  BY PendingClosed DEF Closed
<1>3. \A c \in Ctx : Atomic!Done(c) <=> (Done(c) \/ c \in Closing)
  BY <1>2 DEF Atomic!Done, Done
<1>4. \A c \in Ctx : Atomic!Born(c) <=> Born(c)
  BY <1>1, <1>2 DEF Atomic!Born, Born, Handle
<1>5. \A c \in Ctx : Atomic!Handle(c) <=> Handle(c)
  BY <1>4 DEF Atomic!Handle, Handle
<1> QED BY <1>1, <1>3, <1>4, <1>5 DEF Handle

\* A result settles a context that is not closing as if the closing ones were done.
LEMMA AtomicSettle ==
    ASSUME NEW x \in Ctx, x \notin Closing, NEW r, NEW pend \in [Ctx -> States], NEW queue,
           Closing' = Closing,
           Settle(x, r, pend, queue)
    PROVE  Atomic!Settle(x, r, Closed(pend), queue)
<1>1. Closed(pend)[x] = pend[x]
  BY PendingClosed DEF Closed
<1>2. ASSUME NEW v PROVE [Closed(pend) EXCEPT ![x] = v] = Closed([pend EXCEPT ![x] = v])
  BY PendingClosed DEF Closed
<1>3. CASE pend[x] = "callbacks" /\ Post(x, callee[x], r, pend, queue)
  <2>1. AtomicPending' = Closed([pend EXCEPT ![x] = "done"])
    BY <1>3, PendingClosed DEF Closed, Post
  <2> QED BY <1>1, <1>2, <1>3, <2>1 DEF Atomic!Settle, Atomic!Post, Post
<1>4. CASE /\ pend[x] \in {"empty"} \cup Results
           /\ m_pending' = [pend EXCEPT ![x] = r]
           /\ tasks' = queue
           /\ UNCHANGED posts
  <2>1. AtomicPending' = Closed([pend EXCEPT ![x] = r])
    BY <1>4, PendingClosed DEF Closed
  <2> QED BY <1>1, <1>2, <1>4, <2>1 DEF Atomic!Settle, Atomic!Results, Results
<1>5. CASE /\ pend[x] = "done"
           /\ m_pending' = pend
           /\ tasks' = queue
           /\ UNCHANGED posts
  <2>1. AtomicPending' = Closed(pend)
    BY <1>5, PendingClosed DEF Closed
  <2> QED BY <1>1, <1>5, <2>1 DEF Atomic!Settle
<1> QED BY <1>3, <1>4, <1>5 DEF Settle

\* So does a continuation.
LEMMA AtomicAttach ==
    ASSUME ContextInv, NEW x \in Ctx, NEW child \in Ctx, Handle(x), Free(x),
           NEW k, NEW target, NEW queue, Closing' = Closing,
           Attach(x, child, k, target, queue)
    PROVE  Atomic!Attach(x, child, k, target, queue)
<1> DEFINE pend == [m_pending EXCEPT ![child] = "empty"]
<1>1. x \notin Closing /\ child \notin Closing /\ ~Atomic!Born(child)
  BY ClosingContexts DEF Attach
<1>2. pend \in [Ctx -> States]
  BY DEF ContextInv, ChainInv, ChainTypeOK, States
<1>3. [AtomicPending EXCEPT ![child] = "empty"] = Closed(pend)
  BY <1>1, PendingClosed DEF Closed, ContextInv, ChainInv, ChainTypeOK
<1>4. SetContinuation(x, child, pend, queue)
  BY DEF Attach
<1> HIDE DEF pend
<1>5. Closed(pend)[x] = pend[x]
  BY <1>1, PendingClosed DEF Closed
<1>6. ASSUME NEW v PROVE [Closed(pend) EXCEPT ![x] = v] = Closed([pend EXCEPT ![x] = v])
  BY <1>1, <1>2, PendingClosed DEF Closed
<1>7. Atomic!SetContinuation(x, child, Closed(pend), queue)
  <2>1. CASE pend[x] \in Results /\ Post(x, child, pend[x], pend, queue) /\ UNCHANGED callee
    <3>1. AtomicPending' = Closed([pend EXCEPT ![x] = "done"])
      BY <2>1, PendingClosed DEF Closed, Post
    <3> QED BY <1>5, <1>6, <2>1, <3>1
        DEF Atomic!SetContinuation, Atomic!Post, Post, Atomic!Results, Results
  <2>2. CASE /\ pend[x] \in {"empty", "callbacks"}
             /\ m_pending' = [pend EXCEPT ![x] = "callbacks"]
             /\ callee' = [callee EXCEPT ![x] = child]
             /\ tasks' = queue
             /\ UNCHANGED posts
    <3>1. AtomicPending' = Closed([pend EXCEPT ![x] = "callbacks"])
      BY <2>2, PendingClosed DEF Closed
    <3> QED BY <1>5, <1>6, <2>2, <3>1 DEF Atomic!SetContinuation
  <2>3. CASE /\ pend[x] = "done"
             /\ m_pending' = pend
             /\ tasks' = queue
             /\ UNCHANGED <<callee, posts>>
    <3>1. AtomicPending' = Closed(pend)
      BY <2>3, PendingClosed DEF Closed
    <3> QED BY <1>5, <2>3, <3>1 DEF Atomic!SetContinuation
  <2> QED BY <1>4, <2>1, <2>2, <2>3 DEF SetContinuation
<1> QED BY <1>1, <1>3, <1>7 DEF Attach, Atomic!Attach

\* A step without a handle method neither begins nor ends the closing of a context.
LEMMA ClosingKept ==
    ASSUME ContextInv, UNCHANGED climbVars
    PROVE  Closing' = Closing
BY DEF climbVars, Closing

\* Nor does it change what an observer takes for aborted.
LEMMA AbortedKept ==
    ASSUME ContextInv, Frame, UNCHANGED climbVars, aborted' = aborted
    PROVE  (aborted \cup {c \in Closing : ~Done(c)})' = aborted \cup {c \in Closing : ~Done(c)}
<1>1. Closing' = Closing
  BY ClosingKept
<1>2. \A c \in Closing : Done(c)' <=> Done(c)
  BY DEF Closing, Frame, Free, Handle, ContextInv, ClimbInv
<1> QED BY <1>1, <1>2

\* Client code that locks one mutex is client code of OpChain.
LEMMA AtomicClient ==
    ASSUME ContextInv, LockedClientCode, UNCHANGED climbVars
    PROVE  Atomic!ChainNext
<1>1. Frame
  BY LockedClientStep
<1>2. Closing' = Closing
  BY ClosingKept
<1>3. aborted' = aborted
  BY DEF LockedClientCode, NewOp, Then, AsyncReturn
<1>4. (aborted \cup {c \in Closing : ~Done(c)})' = aborted \cup {c \in Closing : ~Done(c)}
  BY <1>1, <1>3, AbortedKept
<1>5. m_pending \in [Ctx -> States]
  BY DEF ContextInv, ChainInv, ChainTypeOK, States
<1>6. ASSUME NEW c \in Ctx, NewOp(c) PROVE Atomic!NewOp(c)
  <2>1. c \notin Closing /\ ~Atomic!Born(c)
    BY <1>6, ClosingContexts DEF NewOp
  <2>2. ASSUME NEW v, m_pending' = [m_pending EXCEPT ![c] = v]
        PROVE  AtomicPending' = [AtomicPending EXCEPT ![c] = v]
    BY <1>2, <1>5, <2>1, <2>2, PendingClosed DEF Closed
  <2> QED BY <1>4, <1>6, <2>1, <2>2 DEF NewOp, Atomic!NewOp, Atomic!pairVars, pairVars
<1>7. ASSUME NEW x \in Ctx, NEW c \in Ctx, NEW k \in {"then", "then_both", "on_failure"},
             Free(x), Then(x, c, k)
      PROVE  Atomic!Then(x, c, k)
  <2>1. Atomic!Attach(x, c, k, NoCtx, tasks)
    BY <1>2, <1>7, AtomicAttach DEF Then
  <2> QED BY <1>4, <1>7, <2>1, ClosingContexts DEF Then, Atomic!Then
<1>8. ASSUME NEW c \in Ctx, NEW r \in Returned, Free(c), AsyncReturn(c, r)
      PROVE  Atomic!AsyncReturn(c, r)
  <2>1. Atomic!Settle(c, r, AtomicPending, tasks)
    BY <1>2, <1>5, <1>8, PendingClosed, AtomicSettle, ClosingContexts DEF AsyncReturn
  <2> QED BY <1>4, <1>8, <2>1 DEF AsyncReturn, Atomic!AsyncReturn, Atomic!pairVars, pairVars
<1>9. Atomic!ClientCode
  BY <1>6, <1>7, <1>8 DEF LockedClientCode, Atomic!ClientCode
<1> QED BY <1>9 DEF Atomic!ChainNext

\* A functor that locks one mutex is a functor of OpChain.
LEMMA AtomicTask ==
    ASSUME ContextInv, NEW task \in tasks, LockedRunTask(task), UNCHANGED climbVars
    PROVE  Atomic!ChainNext
<1> DEFINE c == task.child
<1>1. Frame
  BY LockedTaskStep
<1>2. Closing' = Closing
  BY ClosingKept
<1>3. aborted' = aborted
  BY DEF LockedRunTask, RunDefault, RunSimple, RunValueOrError, RunAsync, RunCaught, RunARet,
         RunForward
<1>4. (aborted \cup {x \in Closing : ~Done(x)})' = aborted \cup {x \in Closing : ~Done(x)}
  BY <1>1, <1>3, AbortedKept
<1>5. m_pending \in [Ctx -> States]
  BY DEF ContextInv, ChainInv, ChainTypeOK, States
<1>6. c \in Ctx /\ task.result \in Results /\ Born(c)
  BY TaskReady DEF ContextInv
<1>7. ASSUME NEW r, Free(c), Settle(c, r, m_pending, tasks \ {task})
      PROVE  Atomic!Settle(c, r, AtomicPending, tasks \ {task})
  BY <1>2, <1>5, <1>6, <1>7, PendingClosed, AtomicSettle, ClosingContexts
<1> USE DEF Atomic!RunTask, Atomic!pairVars, pairVars, RunsFunctor, Atomic!RunsFunctor
<1>8. ASSUME Free(c), RunDefault(task) PROVE Atomic!RunTask(task)
  BY <1>4, <1>7, <1>8 DEF RunDefault, Atomic!RunDefault
<1>9. ASSUME Free(c), RunSimple(task) PROVE Atomic!RunTask(task)
  BY <1>4, <1>7, <1>9 DEF RunSimple, Atomic!RunSimple
<1>10. ASSUME NEW r \in Returned, Free(c), RunValueOrError(task, r) PROVE Atomic!RunTask(task)
  BY <1>4, <1>7, <1>10 DEF RunValueOrError, Atomic!RunValueOrError
<1>11. ASSUME Free(c), RunCaught(task) PROVE Atomic!RunTask(task)
  BY <1>4, <1>7, <1>11 DEF RunCaught, Atomic!RunCaught
<1>12. ASSUME RunAsync(task) PROVE Atomic!RunTask(task)
  <2>1. AtomicPending' = AtomicPending
    BY <1>2, <1>12, PendingClosed DEF Closed, RunAsync
  <2> QED BY <1>4, <1>12, <2>1 DEF RunAsync, Atomic!RunAsync
<1>13. ASSUME NEW i \in Ctx, NEW j \in Ctx, Free(i), RunARet(task, i, j)
       PROVE  Atomic!RunTask(task)
  <2>1. Atomic!Attach(i, j, "forward", c, tasks \ {task}) /\ Atomic!Handle(i)
    BY <1>2, <1>13, AtomicAttach, ClosingContexts DEF RunARet
  <2> QED BY <1>4, <1>13, <2>1 DEF RunARet, Atomic!RunARet
<1>14. ASSUME RunForward(task), Free(outer[c]) PROVE Atomic!RunTask(task)
  <2> DEFINE x    == outer[c]
             pend == [m_pending EXCEPT ![c] = "value"]
  <2>1. x \in Ctx /\ x \notin Closing /\ c \notin Closing
    BY <1>6, <1>14, ClosingContexts DEF RunForward, ContextInv, ChainInv, Completable
  <2>2. pend \in [Ctx -> States] /\ [AtomicPending EXCEPT ![c] = "value"] = Closed(pend)
    BY <1>5, <1>6, <2>1, PendingClosed DEF Closed, States, Results
  <2>3. Settle(x, task.result, pend, tasks \ {task})
    BY <1>14 DEF RunForward
  <2> HIDE DEF x, pend
  <2>4. Atomic!Settle(x, task.result, Closed(pend), tasks \ {task})
    BY <1>2, <2>1, <2>2, <2>3, PendingClosed, AtomicSettle
  <2> QED BY <1>4, <1>14, <2>2, <2>4 DEF RunForward, Atomic!RunForward, x
<1>15. Atomic!RunTask(task)
  BY <1>8, <1>9, <1>10, <1>11, <1>12, <1>13, <1>14 DEF LockedRunTask
<1> QED BY <1>15 DEF Atomic!ChainNext

\* The unfinished contexts of a climb that has met the end of the chain.
Unfinished(u) == {y \in Owned(u) \cup {at[u]} : ~Done(y)}

\* They are the open chain of the handle whose method was called, although the mutexes of
\* the chain were locked one after the other, and the last is its oldest.
LEMMA OpenPath ==
    ASSUME ContextInv, PathsInv, NEW u \in Threads,
           \/ pc[u] = "enter" /\ Free(at[u]) /\ Parent(at[u]) = NoCtx
           \/ pc[u] = "is_done" /\ Done(Parent(at[u])),
           Unfinished(u) # {}
    PROVE  /\ Unfinished(u) \in SUBSET Ctx
           /\ \E c \in Ctx : Atomic!Handle(c) /\ Atomic!IsOpenChain(Unfinished(u), c)
           /\ ~Done(at[u]) => (at[u] \in Unfinished(u) /\ m_parent[at[u]] \notin Unfinished(u))
<1> USE NullThreadAssumption, NullCtxAssumption
<1> DEFINE x == at[u]
           S == Unfinished(u)
<1>1. /\ x \in Ctx /\ Handle(x)
      /\ \A c \in Owned(u) : c \in Ctx /\ Handle(c) /\ ~Done(c)
      /\ \A c \in Owned(u) : \/ c = x /\ pc[u] = "is_done"
                             \/ m_parent[c] \in Owned(u)
                             \/ m_parent[c] = x /\ pc[u] = "enter"
  BY DEF Idle, Owned, Free, ContextInv, ClimbInv, PathsInv, StaysOpen
<1>2. \A y \in S : y \in Ctx /\ ~Done(y) /\ y \notin Closing
  <2>1. \A y \in Owned(u) \cup {x} : lock[y] \in {u, NoThread}
    BY DEF Owned, Free, ContextInv, ClimbInv
  <2>2. \A y \in Owned(u) \cup {x} : y \notin Closing
    BY <2>1 DEF Closing
  <2> QED BY <1>1, <2>2 DEF Unfinished
<1>3. \A y \in S : m_parent[y] \in S \cup {NoCtx} \cup {p \in Ctx : Done(p)}
  <2> SUFFICES ASSUME NEW y \in S PROVE m_parent[y] \in S \cup {NoCtx} \cup {p \in Ctx : Done(p)}
    OBVIOUS
  <2>1. m_parent[y] \in Ctx \cup {NoCtx}
    BY <1>2 DEF ContextInv, ChainInv, ChainTypeOK
  <2>2. CASE y = x
    BY <1>2, <2>1, <2>2 DEF Parent
  <2>3. CASE y # x
    BY <1>1, <2>1, <2>3 DEF Unfinished
  <2> QED BY <2>2, <2>3
<1>4. PICK n \in Nat : \E f \in [1 .. n -> Ctx] : IsPath(u, n, f)
  BY DEF PathsInv, OwnsPath
<1>5. PICK f \in [1 .. n -> Ctx] : IsPath(u, n, f)
  BY <1>4
<1>6. /\ Owned(u) = {f[i] : i \in 1 .. n}
      /\ \A i \in 1 .. n - 1 : m_parent[f[i]] = f[i + 1]
      /\ (pc[u] = "enter" /\ n > 0) => m_parent[f[n]] = x
      /\ pc[u] = "is_done" => (n > 0 /\ f[n] = x)
  BY <1>5 DEF IsPath
<1>7. \E c \in S : \A y \in S \ {c} : \E z \in S : m_parent[z] = y
  <2>1. CASE n = 0
    <3>1. S \subseteq {x}
      BY <1>6, <2>1 DEF Unfinished
    <3> QED BY <3>1
  <2>2. CASE n # 0
    <3>1. 1 \in 1 .. n /\ n \in 1 .. n
      BY <2>2
    <3>2. f[1] \in S
      BY <1>1, <1>6, <3>1 DEF Unfinished
    <3>3. ASSUME NEW y \in S \ {f[1]} PROVE \E z \in S : m_parent[z] = y
      <4>1. CASE y \in Owned(u)
        <5>1. PICK i \in 1 .. n : y = f[i]
          BY <1>6, <4>1
        <5>2. i - 1 \in 1 .. n - 1 /\ i - 1 \in 1 .. n /\ (i - 1) + 1 = i
          BY <3>3, <5>1
        <5>3. m_parent[f[i - 1]] = y
          BY <1>6, <5>1, <5>2
        <5> QED BY <1>1, <1>6, <5>2, <5>3 DEF Unfinished
      <4>2. CASE y \notin Owned(u)
        <5>1. y = x /\ pc[u] = "enter"
          BY <1>6, <3>1, <4>2 DEF Unfinished
        <5> QED BY <1>1, <1>6, <3>1, <5>1 DEF Unfinished
      <4> QED BY <4>1, <4>2
    <3> QED BY <3>2, <3>3
  <2> QED BY <2>1, <2>2
<1>8. PICK c \in S : \A y \in S \ {c} : \E z \in S : m_parent[z] = y
  BY <1>7
<1>9. Atomic!IsOpenChain(S, c)
  BY <1>2, <1>3, <1>8, ClosingContexts DEF Atomic!IsOpenChain
<1>10. Atomic!Handle(c) /\ c \in Ctx
  BY <1>1, <1>2, ClosingContexts DEF Unfinished
<1>11. S \in SUBSET Ctx
  BY <1>2
<1>12. ~Done(x) => (x \in S /\ m_parent[x] \notin S)
  BY <1>1, <1>2 DEF Parent, Unfinished
<1> QED BY <1>9, <1>10, <1>11, <1>12

\* A climb that is not about to close, and does not begin to, leaves the closing contexts alone.
LEMMA ClimbClosesNothing ==
    ASSUME ContextInv, NEW u \in Threads, Climb(u), pc[u] # "close", pc'[u] # "close"
    PROVE  Closing' = Closing
<1> USE NullThreadAssumption
<1>1. /\ \A t \in Threads \ {u} : pc'[t] = pc[t]
      /\ \A c \in Ctx : lock'[c] # lock[c] => /\ Free(c) \/ lock[c] = u
                                              /\ lock'[c] \in {u, NoThread}
  BY ClimbFootprint
<1> QED BY <1>1 DEF Closing, Free, ContextInv, TypeOK

\* cancel() has met the end of the chain: it fails the oldest unfinished operation, as if it had
\* found it at once.
LEMMA AtomicCancelAt ==
    ASSUME ContextInv, PathsInv, NEW u \in Threads,
           \/ pc[u] = "enter" /\ Free(at[u]) /\ Parent(at[u]) = NoCtx
           \/ pc[u] = "is_done" /\ Done(Parent(at[u])),
           Climb(u), CancelAt(u, at[u]), UNCHANGED <<held, aborted, pairVars>>
    PROVE  Atomic!ChainNext \/ UNCHANGED AtomicVars
<1> DEFINE x == at[u]
<1>1. pc[u] # "close" /\ pc'[u] # "close"
  BY DEF CancelAt, Leave, ContextInv, TypeOK
<1>2. Closing' = Closing
  BY <1>1, ClimbClosesNothing
<1>3. Settle(x, "canceled", m_pending, tasks)
  BY DEF CancelAt
<1>4. x \in Ctx /\ m_pending \in [Ctx -> States]
  BY DEF Idle, ContextInv, ClimbInv, ChainInv, ChainTypeOK, States
<1>5. x \notin Closing
  BY <1>1, <1>4, NullThreadAssumption DEF Closing, Free, ContextInv, ClimbInv
<1>6. \A c \in Closing : Done(c)' <=> Done(c)
  BY <1>3, <1>4, <1>5 DEF Settle, Post, Done, Closing
<1>7. (aborted \cup {c \in Closing : ~Done(c)})' = aborted \cup {c \in Closing : ~Done(c)}
  BY <1>2, <1>6
<1>8. CASE Done(x)
  <2>1. UNCHANGED <<m_pending, tasks, posts>>
    BY <1>3, <1>8 DEF Settle, Done, Results
  <2>2. AtomicPending' = AtomicPending
    BY <1>2, <2>1, PendingClosed DEF Closed
  <2> QED BY <1>7, <2>1, <2>2 DEF AtomicVars
<1>9. CASE ~Done(x)
  <2>1. x \in Unfinished(u)
    BY <1>9 DEF Unfinished
  <2>2. PICK c \in Ctx : Atomic!Handle(c) /\ Atomic!IsOpenChain(Unfinished(u), c)
    BY <2>1, OpenPath
  <2>3. Unfinished(u) \in SUBSET Ctx /\ m_parent[x] \notin Unfinished(u)
    BY <1>9, <2>1, OpenPath
  <2>4. Atomic!Settle(x, "canceled", AtomicPending, tasks)
    BY <1>2, <1>3, <1>4, <1>5, PendingClosed, AtomicSettle
  <2>5. Atomic!Cancel(c)
    BY <1>4, <1>7, <2>1, <2>2, <2>3, <2>4 DEF Atomic!Cancel, Atomic!pairVars, pairVars
  <2> QED BY <2>5 DEF Atomic!ChainNext
<1> QED BY <1>8, <1>9

\* abort() has met the end of the chain and begins to close: it takes effect at once, for all
\* the contexts it has locked and is still to close.
LEMMA AtomicAbortAt ==
    ASSUME ContextInv, PathsInv, NEW u \in Threads,
           \/ pc[u] = "enter" /\ Free(at[u]) /\ Parent(at[u]) = NoCtx
           \/ pc[u] = "is_done" /\ Done(Parent(at[u])),
           lock' = [lock EXCEPT ![at[u]] = u],
           pc' = [pc EXCEPT ![u] = "close"],
           UNCHANGED chainVars
    PROVE  Atomic!ChainNext \/ UNCHANGED AtomicVars
<1> USE NullThreadAssumption
<1> DEFINE x == at[u]
           S == Unfinished(u)
<1>1. x \in Ctx /\ m_pending \in [Ctx -> States]
  BY DEF Idle, ContextInv, ClimbInv, ChainInv, ChainTypeOK, States
<1>2. Closing' = Closing \cup (Owned(u) \cup {x})
  <2>1. \A c \in Ctx : lock'[c] = IF c = x THEN u ELSE lock[c]
    BY DEF ContextInv, TypeOK
  <2>2. \A t \in Threads : pc'[t] = IF t = u THEN "close" ELSE pc[t]
    BY DEF ContextInv, TypeOK
  <2>3. \A c \in Ctx : lock[c] \in Threads \cup {NoThread}
    BY DEF ContextInv, TypeOK
  <2>4. Free(x) \/ lock[x] = u
    BY DEF ContextInv, ClimbInv
  <2> QED BY <1>1, <2>1, <2>2, <2>3, <2>4 DEF Closing, Owned, Free
<1>3. UNCHANGED <<m_pending, held, tasks, posts, aborted, callee, m_parent, kind, outer>>
  BY DEF chainVars, pairVars
<1>4. AtomicPending' = [y \in Ctx |-> IF y \in S THEN "done" ELSE AtomicPending[y]]
  <2> SUFFICES ASSUME NEW y \in Ctx
               PROVE  (IF y \in Closing' THEN "done" ELSE m_pending'[y])
                        = IF y \in S THEN "done" ELSE AtomicPending[y]
    BY PendingClosed DEF Closed
  <2> QED BY <1>2, <1>3, PendingClosed DEF Closed, Unfinished, Done
<1>5. (aborted \cup {y \in Closing : ~Done(y)})' = (aborted \cup {y \in Closing : ~Done(y)}) \cup S
  BY <1>2, <1>3 DEF Unfinished, Done
<1>6. CASE S = {}
  <2>1. AtomicPending' = AtomicPending
    BY <1>4, <1>6, PendingClosed DEF Closed
  <2> QED BY <1>3, <1>5, <1>6, <2>1 DEF AtomicVars, pairVars
<1>7. CASE S # {}
  <2>1. S \in SUBSET Ctx /\ \E c \in Ctx : Atomic!Handle(c) /\ Atomic!IsOpenChain(S, c)
    BY <1>7, OpenPath
  <2> HIDE DEF S
  <2>2. PICK c \in Ctx : Atomic!Handle(c) /\ Atomic!IsOpenChain(S, c)
    BY <2>1
  <2>3. Atomic!Abort(c)
    BY <1>3, <1>4, <1>5, <2>1, <2>2 DEF Atomic!Abort, Atomic!pairVars
  <2> QED BY <2>3 DEF Atomic!ChainNext
<1> QED BY <1>6, <1>7

\* Closing the contexts one by one is not seen: they were done since abort() began.
LEMMA AtomicClose ==
    ASSUME ContextInv, PathsInv, NEW u \in Threads, AbortClose(u)
    PROVE  UNCHANGED AtomicVars
<1> USE NullThreadAssumption
<1> DEFINE x == at[u]
<1>1. /\ x \in Ctx /\ pc[u] = "close" /\ lock[x] = u
      /\ m_pending \in [Ctx -> States]
      /\ m_pending' = [m_pending EXCEPT ![x] = "done"]
      /\ aborted' = IF Done(x) THEN aborted ELSE aborted \cup {x}
      /\ lock' = [lock EXCEPT ![x] = NoThread]
      /\ UNCHANGED <<held, tasks, posts, pairVars>>
  BY DEF AbortClose, Idle, ContextInv, ClimbInv, ChainInv, ChainTypeOK, States
<1>2. \A t \in Threads \ {u} : pc'[t] = pc[t]
  BY DEF AbortClose, Leave, Goto, ContextInv, TypeOK
<1>3. pc'[u] = "close" \/ Owned(u)' = {}
  <2>1. pc'[u] \in {"close", "idle"}
    BY DEF AbortClose, Leave, Goto, ContextInv, TypeOK
  <2>2. OwnsPath(u)'
    BY PathShrinks DEF PathsInv
  <2>3. CASE pc'[u] = "idle"
    <3>1. PICK n \in Nat : \E f \in [1 .. n -> Ctx] : IsPath(u, n, f)'
      BY <2>2 DEF OwnsPath
    <3> QED BY <2>3, <3>1 DEF IsPath, Idle
  <2> QED BY <2>1, <2>3
<1> HIDE DEF x
<1>4. Closing' = Closing \ {x}
  <2>1. \A c \in Ctx : lock'[c] = IF c = x THEN NoThread ELSE lock[c]
    BY <1>1 DEF ContextInv, TypeOK
  <2>2. \A c \in Ctx : lock[c] \in Threads \cup {NoThread}
    BY DEF ContextInv, TypeOK
  <2> QED BY <1>1, <1>2, <1>3, <2>1, <2>2 DEF Closing, Owned
<1>5. x \in Closing
  BY <1>1 DEF Closing
<1>6. AtomicPending' = AtomicPending
  <2> SUFFICES ASSUME NEW y \in Ctx
               PROVE  (IF y \in Closing' THEN "done" ELSE m_pending'[y])
                        = IF y \in Closing THEN "done" ELSE m_pending[y]
    BY PendingClosed DEF Closed
  <2> QED BY <1>1, <1>4, <1>5
<1>7. \A c \in Ctx : Done(c)' <=> (Done(c) \/ c = x)
  BY <1>1 DEF Done
<1>8. (aborted \cup {c \in Closing : ~Done(c)})' = aborted \cup {c \in Closing : ~Done(c)}
  <2>1. Closing \subseteq Ctx
    BY ClosingContexts
  <2> QED BY <1>1, <1>4, <1>5, <1>7, <2>1
<1> QED BY <1>1, <1>6, <1>8 DEF AtomicVars

\* Each step of a climb is a step of OpChain or is not seen.
LEMMA AtomicClimb ==
    ASSUME ContextInv, PathsInv, NEW u \in Threads, Climb(u)
    PROVE  Atomic!ChainNext \/ UNCHANGED AtomicVars
<1> DEFINE x == at[u]
<1>1. ASSUME pc[u] # "close", pc'[u] # "close", UNCHANGED chainVars
      PROVE  UNCHANGED AtomicVars
  <2>1. Closing' = Closing
    BY <1>1, ClimbClosesNothing
  <2>2. /\ m_pending' = m_pending /\ held' = held /\ tasks' = tasks /\ posts' = posts
        /\ aborted' = aborted /\ pairVars' = pairVars
    BY <1>1 DEF chainVars
  <2>3. AtomicPending' = AtomicPending
    BY <2>1, <2>2, PendingClosed DEF Closed
  <2>4. (aborted \cup {c \in Closing : ~Done(c)})' = aborted \cup {c \in Closing : ~Done(c)}
    BY <2>1, <2>2 DEF Done
  <2> QED BY <2>2, <2>3, <2>4 DEF AtomicVars
<1>2. CASE CancelEnter(u)
  <2>1. /\ pc[u] = "enter" /\ Free(x)
        /\ UNCHANGED <<held, aborted, pairVars>>
    BY <1>2 DEF CancelEnter
  <2>2. CASE Parent(x) = NoCtx /\ CancelAt(u, x)
    BY <2>1, <2>2, AtomicCancelAt
  <2>3. CASE Goto(u, x, "is_done") /\ UNCHANGED <<m_pending, tasks, posts>>
    <3>1. pc'[u] = "is_done"
      BY <2>3 DEF Goto, ContextInv, TypeOK
    <3> QED BY <1>1, <2>1, <2>3, <3>1 DEF chainVars
  <2> QED BY <1>2, <2>2, <2>3 DEF CancelEnter
<1>3. CASE CancelIsDone(u)
  <2>1. /\ pc[u] = "is_done"
        /\ UNCHANGED <<held, aborted, pairVars>>
    BY <1>3 DEF CancelIsDone
  <2>2. CASE Done(Parent(x)) /\ CancelAt(u, x)
    BY <2>1, <2>2, AtomicCancelAt
  <2>3. CASE Goto(u, Parent(x), "enter") /\ UNCHANGED <<m_pending, tasks, posts>>
    <3>1. pc'[u] = "enter"
      BY <2>3 DEF Goto, ContextInv, TypeOK
    <3> QED BY <1>1, <2>1, <2>3, <3>1 DEF chainVars
  <2> QED BY <1>3, <2>2, <2>3 DEF CancelIsDone
<1>4. CASE AbortEnter(u)
  <2>1. /\ pc[u] = "enter" /\ Free(x) /\ UNCHANGED chainVars
        /\ lock' = [lock EXCEPT ![x] = u]
    BY <1>4 DEF AbortEnter
  <2>2. CASE Parent(x) = NoCtx
    <3>1. pc' = [pc EXCEPT ![u] = "close"]
      BY <1>4, <2>2 DEF AbortEnter, Goto
    <3> QED BY <2>1, <2>2, <3>1, AtomicAbortAt
  <2>3. CASE Parent(x) # NoCtx
    <3>1. pc'[u] = "is_done"
      BY <1>4, <2>3 DEF AbortEnter, Goto, ContextInv, TypeOK
    <3> QED BY <1>1, <2>1, <3>1
  <2> QED BY <2>2, <2>3
<1>5. CASE AbortIsDone(u)
  <2>1. pc[u] = "is_done" /\ UNCHANGED chainVars /\ lock' = lock
    BY <1>5 DEF AbortIsDone
  <2>2. lock' = [lock EXCEPT ![x] = u]
    BY <2>1 DEF ContextInv, ClimbInv, TypeOK
  <2>3. CASE Done(Parent(x))
    <3>1. pc' = [pc EXCEPT ![u] = "close"]
      BY <1>5, <2>3 DEF AbortIsDone, Goto
    <3> QED BY <2>1, <2>2, <2>3, <3>1, AtomicAbortAt
  <2>4. CASE ~Done(Parent(x))
    <3>1. pc'[u] = "enter"
      BY <1>5, <2>4 DEF AbortIsDone, Goto, ContextInv, TypeOK
    <3> QED BY <1>1, <2>1, <3>1
  <2> QED BY <2>3, <2>4
<1>6. CASE AbortClose(u)
  BY <1>6, AtomicClose
<1> QED BY <1>2, <1>3, <1>4, <1>5, <1>6 DEF Climb

\* The locking protocol implements the atomic methods, for any number of contexts and threads:
\* wherever a climb is interrupted by other threads, cancel() takes effect in its last step and
\* abort() in the one in which it meets the end of the chain.
THEOREM LockedContextsAreAtomic == Spec => ImplementsOpChain
<1>1. Init => Atomic!ChainInit
  <2> SUFFICES ASSUME Init PROVE Atomic!ChainInit
    OBVIOUS
  <2>1. Closing = {}
    BY DEF Init, Closing
  <2>2. AtomicPending = m_pending
    BY <2>1, PendingClosed DEF Closed, Init, ChainInit
  <2> QED BY <2>1, <2>2 DEF Init, ChainInit, Atomic!ChainInit
<1>2. ContextInv /\ PathsInv /\ [Next]_vars => [Atomic!ChainNext]_(Atomic!chainVars)
  <2> SUFFICES ASSUME ContextInv, PathsInv, [Next]_vars
               PROVE  Atomic!ChainNext \/ UNCHANGED AtomicVars
    BY DEF AtomicVars, Atomic!chainVars, Atomic!pairVars, pairVars
  <2>1. ASSUME NEW u \in Threads, Climb(u) PROVE Atomic!ChainNext \/ UNCHANGED AtomicVars
    BY <2>1, AtomicClimb
  <2>2. CASE LockedClientCode /\ UNCHANGED climbVars
    BY <2>2, AtomicClient
  <2>3. ASSUME NEW task \in tasks, LockedRunTask(task), UNCHANGED climbVars
        PROVE  Atomic!ChainNext
    BY <2>3, AtomicTask
  <2>4. ASSUME UNCHANGED chainVars, Closing' = Closing PROVE UNCHANGED AtomicVars
    <3>1. /\ m_pending' = m_pending /\ held' = held /\ tasks' = tasks /\ posts' = posts
          /\ aborted' = aborted /\ pairVars' = pairVars
      BY <2>4 DEF chainVars
    <3>2. AtomicPending' = AtomicPending
      BY <2>4, <3>1, PendingClosed DEF Closed
    <3>3. (aborted \cup {c \in Closing : ~Done(c)})' = aborted \cup {c \in Closing : ~Done(c)}
      BY <2>4, <3>1 DEF Done
    <3> QED BY <3>1, <3>2, <3>3 DEF AtomicVars
  <2>5. ASSUME NEW u \in Threads, Idle(u),
               NEW method \in {"cancel", "abort"}, NEW c \in Ctx, Call(u, method, c)
        PROVE  UNCHANGED AtomicVars
    <3>1. Closing' = Closing
      BY <2>5 DEF Call, Closing, Idle, ContextInv, TypeOK
    <3> QED BY <2>4, <2>5, <3>1 DEF Call
  <2>6. CASE UNCHANGED vars
    <3>1. UNCHANGED chainVars /\ UNCHANGED climbVars
      BY <2>6 DEF vars
    <3> QED BY <2>4, <3>1, ClosingKept
  <2> QED BY <2>1, <2>2, <2>3, <2>5, <2>6 DEF Next
<1> QED BY <1>1, <1>2, PathsInvariant, PTL DEF Spec, ImplementsOpChain, Atomic!ChainSpec
=============================================================================
