-------------------------- MODULE InlineChain_proofs --------------------------
(***************************************************************************)
(* Proof that, under an executor that invokes functors in the call that    *)
(* posts them, no context is entered while it delivers its result, results *)
(* are delivered once, and the contexts implement those of OpChain under   *)
(* an executor that defers; for any number of contexts and nested functors *)
(* and a client that makes no reentrant call.                              *)
(***************************************************************************)
EXTENDS InlineChain, SequencesExt, SequenceTheorems, TLAPS

States == {"unborn", "empty", "callbacks", "done"} \cup Results

\* A context that has delivered its result, or is delivering it.
Over(c) == Done(c) \/ c \in Delivering

\* A context whose turn to get a result has come.
ReadyNow(c) == m_parent[c] = NoCtx \/ Over(m_parent[c])

\* Contexts are linked to contexts that were constructed before.
LinksNow ==
    /\ \A c \in Ctx :
         /\ ~Born(c) => m_parent[c] = NoCtx /\ kind[c] = "root" /\ posts[c] = 0
         /\ m_parent[c] # NoCtx => /\ Born(m_parent[c]) /\ m_parent[c] # c
                                   /\ kind[m_parent[c]] # "forward"
         /\ m_pending[c] = "callbacks" => callee[c] \in Ctx /\ m_parent[callee[c]] = c
         /\ kind[c] = "forward" => /\ m_parent[c] # NoCtx
                                   /\ outer[c] \in Ctx
                                   /\ Born(outer[c]) /\ kind[outer[c]] # "forward"
         /\ kind[c] # "forward" => outer[c] = NoCtx
    /\ \A c \in held : Born(c)

\* A functor that is running completes a child of the context that posted it.
FramesNow ==
    /\ stack \in Seq(Frames)
    /\ \A n \in 1 .. Len(stack) : m_parent[stack[n].child] = stack[n].ctx

TypeInv == InlineTypeOK /\ LinksNow /\ FramesNow

\* The contexts that a waits for.
Awaits == [a \in Ctx |-> {b \in Ctx : WaitsFor(a, b)}]

\* No operation waits for itself.
Acyclic ==
    /\ \A a, b \in Ctx : (b \in Awaits[a] /\ a \in Awaits[b]) => a = b
    /\ \A c \in Ctx : kind[c] = "forward" => outer[c] # m_parent[c]

\* No context that delivers waits for one that has begun to deliver later.
Stacked ==
    \A m, n \in 1 .. Len(stack) : m < n => stack[n].ctx \notin Awaits[stack[m].ctx]

\* Contexts get their results in turn, and post one continuation each.
TurnInv ==
    /\ \A c \in Ctx : (m_pending[c] \in Results \cup {"done"} \/ c \in Delivering) => ReadyNow(c)
    /\ \A c \in held : ReadyNow(c)
    /\ \A c \in Ctx : kind[c] = "forward" => ReadyNow(outer[c])
    /\ \A c \in Ctx : posts[c] > 0 => (m_parent[c] # NoCtx /\ Over(m_parent[c]))
    /\ DeliveredOnce

InlineInv == TypeInv /\ Acyclic /\ Stacked /\ TurnInv
-----------------------------------------------------------------------------
(* The stack.                                                              *)

\* frames has the contexts and functors of the stack.
SameFrames(frames) ==
    /\ frames \in Seq(Frames)
    /\ Len(frames) = Len(stack)
    /\ \A n \in 1 .. Len(stack) :
         frames[n].ctx = stack[n].ctx /\ frames[n].child = stack[n].child

\* A return removes the innermost frame and keeps the others.
LEMMA PopFrame ==
    ASSUME NEW S, NEW s \in Seq(S), s # <<>>
    PROVE  /\ Front(s) \in Seq(S)
           /\ Len(s) \in Nat \ {0}
           /\ Len(Front(s)) = Len(s) - 1
           /\ \A i \in 1 .. Len(s) - 1 : Front(s)[i] = s[i]
<1>1. Len(s) \in Nat \ {0}
  BY EmptySeq
<1>2. \A i \in 1 .. Len(s) - 1 : s[i] \in S
  BY <1>1, ElementOfSeq
<1> DEFINE n == Len(s) - 1
<1>3. /\ n \in Nat
      /\ ~(1 <= n) => n = 0
      /\ n - 1 + 1 = n
  <2>1. ASSUME NEW k \in Nat \ {0}
        PROVE  /\ k - 1 \in Nat
               /\ ~(1 <= k - 1) => k - 1 = 0
               /\ k - 1 - 1 + 1 = k - 1
    OBVIOUS
  <2> QED BY <1>1, <2>1
<1>4. /\ SubSeq(s, 1, n) \in Seq(S)
      /\ Len(SubSeq(s, 1, n)) = IF 1 <= n THEN n - 1 + 1 ELSE 0
      /\ \A i \in 1 .. n - 1 + 1 : SubSeq(s, 1, n)[i] = s[1 + i - 1]
  <2> HIDE DEF n
  <2> QED BY <1>2, <1>3, SubSeqProperties DEF n
<1>5. Len(SubSeq(s, 1, n)) = n
  BY <1>3, <1>4
<1>6. \A i \in 1 .. n : SubSeq(s, 1, n)[i] = s[i]
  <2> HIDE DEF n
  <2> QED BY <1>3, <1>4
<1> QED BY <1>1, <1>4, <1>5, <1>6 DEF Front

\* The contexts that deliver, by position.
LEMMA DeliveringIs ==
    ASSUME stack \in Seq(Frames)
    PROVE  /\ Delivering = {stack[n].ctx : n \in 1 .. Len(stack)}
           /\ Delivering \subseteq Ctx
           /\ Len(stack) \in Nat
<1>1. DOMAIN stack = 1 .. Len(stack) /\ Len(stack) \in Nat
  BY LenProperties
<1>2. \A n \in 1 .. Len(stack) : stack[n] \in Frames
  BY <1>1, ElementOfSeq
<1> QED BY <1>1, <1>2 DEF Delivering, Frames

\* The innermost functor.
LEMMA TopIs ==
    ASSUME TypeInv, stack # <<>>
    PROVE  /\ Len(stack) \in Nat \ {0}
           /\ Top = stack[Len(stack)] /\ Top \in Frames
           /\ Top.ctx \in Ctx /\ Top.child \in Ctx /\ Top.result \in Results
           /\ m_parent[Top.child] = Top.ctx
           /\ Top.ctx \in Delivering
<1>1. stack \in Seq(Frames)
  BY DEF TypeInv, FramesNow
<1>2. Len(stack) \in Nat \ {0} /\ Top = stack[Len(stack)] /\ Top \in Frames
  BY <1>1, EmptySeq, ElementOfSeq DEF Top, Last
<1>3. Len(stack) \in 1 .. Len(stack)
  BY <1>2
<1> QED BY <1>1, <1>2, <1>3, DeliveringIs DEF TypeInv, FramesNow, Frames

\* The innermost functor goes on.
LEMMA MoveFrame ==
    ASSUME TypeInv, stack # <<>>, NEW l \in {"body", "kept", "returned"}
    PROVE  /\ SameFrames(Move(l))
           /\ \A n \in 1 .. Len(stack) :
                /\ Move(l)[n].result = stack[n].result
                /\ Move(l)[n].at = IF n = Len(stack) THEN l ELSE stack[n].at
<1> SUFFICES ASSUME NEW n, n = Len(stack),
                    NEW f, f = [stack[n] EXCEPT !.at = l]
             PROVE  /\ SameFrames(Move(l))
                    /\ \A k \in 1 .. n :
                         /\ Move(l)[k].result = stack[k].result
                         /\ Move(l)[k].at = IF k = n THEN l ELSE stack[k].at
  OBVIOUS
<1>1. stack \in Seq(Frames) /\ n \in 1 .. Len(stack) /\ stack[n] \in Frames /\ n \in Nat
  BY TopIs DEF TypeInv, FramesNow
<1>2. f \in Frames /\ f.ctx = stack[n].ctx /\ f.child = stack[n].child
      /\ f.result = stack[n].result /\ f.at = l
  BY <1>1 DEF Frames
<1>3. Move(l) = [stack EXCEPT ![n] = f]
  BY DEF Move
<1>4. /\ [stack EXCEPT ![n] = f] \in Seq(Frames)
      /\ Len([stack EXCEPT ![n] = f]) = Len(stack)
      /\ \A k \in 1 .. Len(stack) :
           [stack EXCEPT ![n] = f][k] = IF k = n THEN f ELSE stack[k]
  BY <1>1, <1>2, ExceptSeq
<1> QED BY <1>1, <1>2, <1>3, <1>4 DEF SameFrames

\* The stack itself.
LEMMA StackIsSame == ASSUME TypeInv PROVE SameFrames(stack)
BY DEF TypeInv, FramesNow, SameFrames

\* Frames that change nothing else leave the same contexts delivering.
LEMMA SameDelivering ==
    ASSUME TypeInv, NEW frames, SameFrames(frames), stack' = frames
    PROVE  Delivering' = Delivering
<1>1. Delivering = {stack[n].ctx : n \in 1 .. Len(stack)}
  BY DeliveringIs DEF TypeInv, FramesNow
<1>2. DOMAIN frames = 1 .. Len(stack)
  BY LenProperties DEF SameFrames
<1>3. Delivering' = {frames[n].ctx : n \in 1 .. Len(stack)}
  BY <1>2 DEF Delivering
<1> QED BY <1>1, <1>3 DEF SameFrames

\* A functor is invoked.
LEMMA PushNow ==
    ASSUME TypeInv, NEW frames, SameFrames(frames),
           NEW x \in Ctx, NEW y \in Ctx, NEW r \in Results, NEW b \in BOOLEAN,
           NEW f, f = [ctx |-> x, child |-> y, result |-> r, attaching |-> b, at |-> "body"],
           stack' = Append(frames, f)
    PROVE  /\ stack' \in Seq(Frames)
           /\ Len(stack') = Len(stack) + 1 /\ Len(stack) \in Nat
           /\ \A n \in 1 .. Len(stack) : stack'[n] = frames[n]
           /\ stack'[Len(stack) + 1] = f
           /\ Delivering' = Delivering \cup {x}
<1>1. f \in Frames
  BY DEF Frames
<1>2. /\ Append(frames, f) \in Seq(Frames)
      /\ Len(frames) \in Nat
      /\ Len(Append(frames, f)) = Len(frames) + 1
      /\ \A i \in 1 .. Len(frames) : Append(frames, f)[i] = frames[i]
      /\ Append(frames, f)[Len(frames) + 1] = f
  BY <1>1, AppendProperties, LenProperties DEF SameFrames
<1>3. /\ stack' \in Seq(Frames)
      /\ Len(stack') = Len(stack) + 1 /\ Len(stack) \in Nat
      /\ \A n \in 1 .. Len(stack) : stack'[n] = frames[n]
      /\ stack'[Len(stack) + 1] = f
  BY <1>2 DEF SameFrames
<1>4. Delivering = {stack[n].ctx : n \in 1 .. Len(stack)}
  BY DeliveringIs DEF TypeInv, FramesNow
<1>5. DOMAIN stack' = 1 .. Len(stack) + 1
  BY <1>3, LenProperties
<1>6. Delivering' = {stack'[n].ctx : n \in 1 .. Len(stack) + 1}
  BY <1>5 DEF Delivering
<1>7. \A n \in 1 .. Len(stack) : stack'[n].ctx = stack[n].ctx
  BY <1>3 DEF SameFrames
<1>8. \A n \in 1 .. Len(stack) + 1 : n \in 1 .. Len(stack) \/ n = Len(stack) + 1
  BY <1>3
<1>9. Delivering' = Delivering \cup {x}
  <2>1. Delivering' \subseteq Delivering \cup {x}
    BY <1>3, <1>4, <1>6, <1>7, <1>8
  <2>2. Delivering \subseteq Delivering'
    BY <1>3, <1>4, <1>6, <1>7
  <2>3. x \in Delivering'
    BY <1>3, <1>6
  <2> QED BY <2>1, <2>2, <2>3
<1> QED BY <1>3, <1>9

-----------------------------------------------------------------------------
(* Type correctness, whatever calls functors make.                         *)

\* Frames that keep their contexts and functors.
LEMMA FramesKept ==
    ASSUME TypeInv, NEW frames, SameFrames(frames), stack' = frames, ChainTypeOK',
           \A n \in 1 .. Len(stack) : m_parent'[stack[n].child] = m_parent[stack[n].child]
    PROVE  InlineTypeOK' /\ FramesNow'
<1>1. stack' \in Seq(Frames) /\ Len(stack') = Len(stack)
  BY DEF SameFrames
<1>2. Len(stack') \in 0 .. MaxDepth
  BY <1>1 DEF TypeInv, InlineTypeOK
<1>3. InlineTypeOK'
  BY <1>1, <1>2, RangeOfSeq, RangeEquality DEF InlineTypeOK
<1>4. \A n \in 1 .. Len(stack) : m_parent'[stack'[n].child] = stack'[n].ctx
  BY DEF SameFrames, TypeInv, FramesNow
<1> QED BY <1>1, <1>3, <1>4 DEF FramesNow

\* A frame that is pushed.
LEMMA FramePushed ==
    ASSUME TypeInv, NEW frames, SameFrames(frames), ChainTypeOK',
           NEW x \in Ctx, NEW y \in Ctx, NEW r \in Results, NEW b \in BOOLEAN,
           Len(frames) < MaxDepth,
           stack' = Append(frames, [ctx |-> x, child |-> y, result |-> r,
                                    attaching |-> b, at |-> "body"]),
           \A n \in 1 .. Len(stack) : m_parent'[stack[n].child] = m_parent[stack[n].child],
           m_parent'[y] = x
    PROVE  InlineTypeOK' /\ FramesNow'
<1> SUFFICES ASSUME NEW f, f = [ctx |-> x, child |-> y, result |-> r,
                                attaching |-> b, at |-> "body"]
             PROVE  InlineTypeOK' /\ FramesNow'
  OBVIOUS
<1>1. /\ stack' \in Seq(Frames)
      /\ Len(stack') = Len(stack) + 1 /\ Len(stack) \in Nat
      /\ \A n \in 1 .. Len(stack) : stack'[n] = frames[n]
      /\ stack'[Len(stack) + 1] = f
  BY PushNow
<1>2. Len(stack') \in 0 .. MaxDepth
  BY <1>1, DepthAssumption DEF SameFrames
<1>3. InlineTypeOK'
  BY <1>1, <1>2, RangeOfSeq, RangeEquality DEF InlineTypeOK
<1>4. \A n \in 1 .. Len(stack) + 1 : n \in 1 .. Len(stack) \/ n = Len(stack) + 1
  BY <1>1
<1>5. \A n \in 1 .. Len(stack) : m_parent'[stack'[n].child] = stack'[n].ctx
  BY <1>1 DEF SameFrames, TypeInv, FramesNow
<1>6. m_parent'[f.child] = f.ctx
  OBVIOUS
<1> QED BY <1>1, <1>3, <1>4, <1>5, <1>6 DEF FramesNow

\* m_pending as a step may already have changed it: a temporary operation has its result.
PassedNow(pend) ==
    /\ pend \in [Ctx -> States]
    /\ \A c \in Ctx : pend[c] # m_pending[c] =>
         kind[c] = "forward" /\ Born(c) /\ pend[c] = "value"

\* Links are kept when no context is attached or gets callbacks.
LEMMA LinksSettle ==
    ASSUME TypeInv, UNCHANGED pairVars,
           \A c \in Ctx :
              /\ m_pending'[c] = "unborn" => (m_pending[c] = "unborn" /\ posts'[c] = posts[c])
              /\ m_pending'[c] = "callbacks" => m_pending[c] = "callbacks",
           \A c \in held' : c \in held \/ (c \in Ctx /\ m_pending'[c] # "unborn")
    PROVE  LinksNow'
<1>1. callee' = callee /\ m_parent' = m_parent /\ kind' = kind /\ outer' = outer
  BY DEF pairVars
<1>2. m_parent \in [Ctx -> Ctx \cup {NoCtx}] /\ held \subseteq Ctx
  BY DEF TypeInv, InlineTypeOK, ChainTypeOK
<1>3. ASSUME NEW c \in Ctx
      PROVE  /\ m_pending'[c] = "unborn" =>
                  m_parent'[c] = NoCtx /\ kind'[c] = "root" /\ posts'[c] = 0
             /\ m_parent'[c] # NoCtx => /\ m_pending'[m_parent'[c]] # "unborn" /\ m_parent'[c] # c
                                        /\ kind'[m_parent'[c]] # "forward"
             /\ m_pending'[c] = "callbacks" => callee'[c] \in Ctx /\ m_parent'[callee'[c]] = c
             /\ kind'[c] = "forward" => /\ m_parent'[c] # NoCtx
                                        /\ outer'[c] \in Ctx
                                        /\ m_pending'[outer'[c]] # "unborn"
                                        /\ kind'[outer'[c]] # "forward"
             /\ kind'[c] # "forward" => outer'[c] = NoCtx
  BY <1>1, <1>2 DEF TypeInv, LinksNow, Born
<1>4. \A c \in held' : m_pending'[c] # "unborn"
  BY <1>2 DEF TypeInv, LinksNow, Born
<1> QED BY <1>3, <1>4 DEF LinksNow, Born

\* A result that is given to a context, and the functor that it may invoke.
LEMMA SettleTypes ==
    ASSUME TypeInv, NEW x \in Ctx, Born(x), NEW r \in Results,
           NEW pend, PassedNow(pend), NEW frames, SameFrames(frames),
           SettleNow(x, r, pend, frames), UNCHANGED <<held, tasks, aborted, pairVars>>
    PROVE  TypeInv'
<1>1. /\ m_pending \in [Ctx -> States] /\ posts \in [Ctx -> Nat]
      /\ pend \in [Ctx -> States]
      /\ \A c \in Ctx : pend[c] # m_pending[c] => Born(c) /\ pend[c] = "value"
      /\ held' = held /\ tasks' = tasks /\ aborted' = aborted
      /\ callee' = callee /\ m_parent' = m_parent /\ kind' = kind /\ outer' = outer
  BY DEF TypeInv, InlineTypeOK, ChainTypeOK, States, PassedNow, pairVars
<1>2. pend[x] # "unborn"
  BY <1>1 DEF Born
<1>3. CASE pend[x] = "callbacks"
  <2>1. PostNow(x, callee[x], r, FALSE, pend, frames) /\ m_pending[x] = "callbacks"
    BY <1>1, <1>3 DEF SettleNow, Results
  <2> SUFFICES ASSUME NEW y, y = callee[x] PROVE TypeInv'
    OBVIOUS
  <2>2. y \in Ctx /\ m_parent[y] = x /\ m_pending[y] # "unborn"
    BY <2>1, NullCtxAssumption DEF TypeInv, LinksNow, Born
  <2>3. /\ Len(frames) < MaxDepth
        /\ m_pending' = pend
        /\ stack' = Append(frames, [ctx |-> x, child |-> y, result |-> r,
                                    attaching |-> FALSE, at |-> "body"])
        /\ posts' = [posts EXCEPT ![y] = @ + 1]
    BY <2>1 DEF PostNow
  <2>4. ChainTypeOK'
    BY <1>1, <2>2, <2>3 DEF TypeInv, InlineTypeOK, ChainTypeOK, States
  <2>5. InlineTypeOK' /\ FramesNow'
    BY <1>1, <2>2, <2>3, <2>4, FramePushed
  <2>6. \A c \in Ctx :
          /\ m_pending'[c] = "unborn" => (m_pending[c] = "unborn" /\ posts'[c] = posts[c])
          /\ m_pending'[c] = "callbacks" => m_pending[c] = "callbacks"
    BY <1>1, <2>2, <2>3 DEF Born
  <2>7. LinksNow'
    BY <1>1, <2>6, LinksSettle
  <2> QED BY <2>5, <2>7 DEF TypeInv
<1>4. CASE pend[x] # "callbacks"
  <2>1. /\ stack' = frames /\ posts' = posts
        /\ m_pending' = [pend EXCEPT ![x] = r] \/ (m_pending' = pend /\ pend[x] = "done")
        /\ m_pending' \in [Ctx -> States]
    BY <1>1, <1>4 DEF SettleNow, States
  <2>2. ChainTypeOK'
    BY <1>1, <2>1 DEF TypeInv, InlineTypeOK, ChainTypeOK, States
  <2>3. InlineTypeOK' /\ FramesNow'
    BY <1>1, <2>1, <2>2, FramesKept
  <2>4. \A c \in Ctx :
          /\ m_pending'[c] = "unborn" => (m_pending[c] = "unborn" /\ posts'[c] = posts[c])
          /\ m_pending'[c] = "callbacks" => m_pending[c] = "callbacks"
    BY <1>1, <1>2, <2>1 DEF Born, Results
  <2>5. LinksNow'
    BY <1>1, <2>4, LinksSettle
  <2> QED BY <2>3, <2>5 DEF TypeInv
<1> QED BY <1>3, <1>4

\* The contexts and functors of the stack have been constructed.
LEMMA StackBorn ==
    ASSUME TypeInv, NEW n \in 1 .. Len(stack)
    PROVE  /\ stack[n] \in Frames /\ stack[n].ctx \in Ctx /\ stack[n].child \in Ctx
           /\ m_pending[stack[n].ctx] # "unborn" /\ m_pending[stack[n].child] # "unborn"
           /\ m_parent[stack[n].child] = stack[n].ctx
<1>1. stack[n] \in Frames /\ m_parent[stack[n].child] = stack[n].ctx
  BY ElementOfSeq DEF TypeInv, FramesNow
<1>2. stack[n].ctx \in Ctx /\ stack[n].child \in Ctx
  BY <1>1 DEF Frames
<1> QED BY <1>1, <1>2, NullCtxAssumption DEF TypeInv, LinksNow, Born

\* A context is constructed and attached to another.
LEMMA AttachTypes ==
    ASSUME TypeInv, NEW x \in Ctx, NEW child \in Ctx, NEW k \in Kinds,
           NEW target \in Ctx \cup {NoCtx}, NEW frames, SameFrames(frames),
           Born(x), kind[x] # "forward",
           k = "forward" => target \in Ctx /\ Born(target) /\ kind[target] # "forward",
           k # "forward" => target = NoCtx,
           AttachNow(x, child, k, target, frames), UNCHANGED <<held, tasks, aborted>>
    PROVE  TypeInv'
<1> USE NullCtxAssumption
<1> SUFFICES ASSUME NEW pend, pend = [m_pending EXCEPT ![child] = "empty"] PROVE TypeInv'
  OBVIOUS
<1>1. /\ m_pending \in [Ctx -> States] /\ posts \in [Ctx -> Nat]
      /\ m_parent \in [Ctx -> Ctx \cup {NoCtx}] /\ kind \in [Ctx -> Kinds]
      /\ callee \in [Ctx -> Ctx \cup {NoCtx}] /\ outer \in [Ctx -> Ctx \cup {NoCtx}]
      /\ held \subseteq Ctx /\ tasks \subseteq Tasks /\ aborted \subseteq Ctx
  BY DEF TypeInv, InlineTypeOK, ChainTypeOK, States
<1>2. /\ m_pending[child] = "unborn" /\ m_pending[x] # "unborn" /\ x # child
      /\ m_parent' = [m_parent EXCEPT ![child] = x]
      /\ kind' = [kind EXCEPT ![child] = k]
      /\ outer' = [outer EXCEPT ![child] = target]
      /\ SetContinuationNow(x, child, pend, frames)
      /\ held' = held /\ tasks' = tasks /\ aborted' = aborted
  BY DEF AttachNow, Born
<1>3. /\ pend \in [Ctx -> States] /\ pend[x] = m_pending[x] /\ pend[child] = "empty"
      /\ \A c \in Ctx \ {child} : pend[c] = m_pending[c]
  BY <1>1, <1>2 DEF States
<1>4. \A n \in 1 .. Len(stack) : m_parent'[stack[n].child] = m_parent[stack[n].child]
  BY <1>1, <1>2, StackBorn
<1>5. /\ m_pending' \in [Ctx -> States] /\ callee' \in [Ctx -> Ctx \cup {NoCtx}]
      /\ posts' \in [Ctx -> Nat]
      /\ m_pending'[child] = "empty" /\ m_pending'[x] # "unborn"
      /\ \A c \in Ctx \ {child, x} : m_pending'[c] = m_pending[c] /\ callee'[c] = callee[c]
      /\ m_pending'[x] = "callbacks" => callee'[x] = child
      /\ \A c \in Ctx \ {child} : posts'[c] = posts[c]
      /\ \/ stack' = frames
         \/ /\ Len(frames) < MaxDepth /\ pend[x] \in Results
            /\ stack' = Append(frames, [ctx |-> x, child |-> child, result |-> pend[x],
                                        attaching |-> TRUE, at |-> "body"])
  <2>1. CASE pend[x] \in Results
    <3>1. PostNow(x, child, pend[x], TRUE, pend, frames) /\ callee' = callee
      BY <1>2, <2>1 DEF SetContinuationNow, Results
    <3> QED BY <1>1, <1>2, <1>3, <2>1, <3>1 DEF PostNow, Results
  <2>2. CASE pend[x] \in {"empty", "callbacks"}
    <3>1. /\ m_pending' = [pend EXCEPT ![x] = "callbacks"]
          /\ callee' = [callee EXCEPT ![x] = child] /\ stack' = frames /\ posts' = posts
      BY <1>2, <2>2 DEF SetContinuationNow, Results
    <3> QED BY <1>1, <1>2, <1>3, <3>1 DEF States
  <2>3. CASE pend[x] = "done"
    <3>1. m_pending' = pend /\ stack' = frames /\ callee' = callee /\ posts' = posts
      BY <1>2, <2>3 DEF SetContinuationNow, Results
    <3> QED BY <1>1, <1>2, <1>3, <2>3, <3>1
  <2> QED BY <1>1, <1>2, <1>3, <2>1, <2>2, <2>3 DEF States
<1>6. ChainTypeOK'
  BY <1>1, <1>2, <1>5 DEF ChainTypeOK, States
<1>7. InlineTypeOK' /\ FramesNow'
  <2>1. m_parent'[child] = x
    BY <1>1, <1>2
  <2> QED BY <1>4, <1>5, <1>6, <2>1, FramesKept, FramePushed
<1>8. \A c \in Ctx \ {child} :
        /\ m_parent'[c] = m_parent[c] /\ kind'[c] = kind[c] /\ outer'[c] = outer[c]
        /\ m_pending'[c] = "unborn" <=> m_pending[c] = "unborn"
        /\ m_pending'[c] = "unborn" => posts'[c] = posts[c]
  BY <1>1, <1>2, <1>5
<1>9. /\ m_parent'[child] = x /\ kind'[child] = k /\ outer'[child] = target
  BY <1>1, <1>2
<1>10. \A c \in Ctx : m_pending[c] # "unborn" => c # child /\ m_pending'[c] # "unborn"
  BY <1>2, <1>8
<1>11. LinksNow'
  <2>1. ASSUME NEW c \in Ctx
        PROVE  /\ m_pending'[c] = "unborn" =>
                    m_parent'[c] = NoCtx /\ kind'[c] = "root" /\ posts'[c] = 0
               /\ m_parent'[c] # NoCtx => /\ m_pending'[m_parent'[c]] # "unborn"
                                          /\ m_parent'[c] # c
                                          /\ kind'[m_parent'[c]] # "forward"
               /\ m_pending'[c] = "callbacks" => callee'[c] \in Ctx /\ m_parent'[callee'[c]] = c
               /\ kind'[c] = "forward" => /\ m_parent'[c] # NoCtx
                                          /\ outer'[c] \in Ctx
                                          /\ m_pending'[outer'[c]] # "unborn"
                                          /\ kind'[outer'[c]] # "forward"
               /\ kind'[c] # "forward" => outer'[c] = NoCtx
    <3>1. CASE c = child
      <4>1. k = "forward" => /\ target \in Ctx /\ m_pending[target] # "unborn"
                             /\ kind[target] # "forward"
        BY DEF Born
      <4> QED BY <1>2, <1>5, <1>8, <1>9, <1>10, <3>1, <4>1
    <3>2. CASE c # child
      <4>1. /\ m_pending[c] = "unborn" => m_parent[c] = NoCtx /\ kind[c] = "root" /\ posts[c] = 0
            /\ m_parent[c] # NoCtx => /\ m_pending[m_parent[c]] # "unborn" /\ m_parent[c] # c
                                      /\ kind[m_parent[c]] # "forward"
            /\ m_pending[c] = "callbacks" => callee[c] \in Ctx /\ m_parent[callee[c]] = c
            /\ kind[c] = "forward" => /\ m_parent[c] # NoCtx
                                      /\ outer[c] \in Ctx
                                      /\ m_pending[outer[c]] # "unborn"
                                      /\ kind[outer[c]] # "forward"
            /\ kind[c] # "forward" => outer[c] = NoCtx
        BY DEF TypeInv, LinksNow, Born
      <4>2. m_parent[child] = NoCtx
        BY <1>2 DEF TypeInv, LinksNow, Born
      <4>3. m_pending'[c] = "callbacks" => callee'[c] \in Ctx /\ m_parent'[callee'[c]] = c
        <5>1. CASE c = x
          BY <1>5, <1>9, <5>1
        <5>2. CASE c # x
          <6>1. m_pending'[c] = m_pending[c] /\ callee'[c] = callee[c]
            BY <1>5, <3>2, <5>2
          <6>2. m_pending[c] = "callbacks" => callee[c] # child
            BY <4>1, <4>2
          <6> QED BY <1>8, <4>1, <6>1, <6>2
        <5> QED BY <5>1, <5>2
      <4>4. m_parent[c] # NoCtx => m_parent[c] \in Ctx
        BY <1>1
      <4> QED BY <1>8, <1>10, <3>2, <4>1, <4>3, <4>4
    <3> QED BY <3>1, <3>2
  <2>2. \A c \in held' : m_pending'[c] # "unborn"
    BY <1>1, <1>2, <1>10 DEF TypeInv, LinksNow, Born
  <2> QED BY <2>1, <2>2 DEF LinksNow, Born
<1> QED BY <1>7, <1>11 DEF TypeInv

\* A step that invokes no functor and attaches no context.
LEMMA QuietTypes ==
    ASSUME TypeInv, UNCHANGED <<tasks, posts, pairVars>>, SameFrames(stack'),
           m_pending' \in [Ctx -> States], held' \subseteq Ctx, aborted' \subseteq Ctx,
           \A c \in Ctx : /\ m_pending'[c] = "unborn" => m_pending[c] = "unborn"
                          /\ m_pending'[c] = "callbacks" => m_pending[c] = "callbacks",
           \A c \in held' : c \in held \/ (c \in Ctx /\ m_pending'[c] # "unborn")
    PROVE  TypeInv'
<1>1. /\ tasks' = tasks /\ posts' = posts
      /\ callee' = callee /\ m_parent' = m_parent /\ kind' = kind /\ outer' = outer
  BY DEF pairVars
<1>2. ChainTypeOK'
  BY <1>1 DEF TypeInv, InlineTypeOK, ChainTypeOK, States
<1>3. InlineTypeOK' /\ FramesNow'
  BY <1>1, <1>2, FramesKept
<1>4. LinksNow'
  BY <1>1, LinksSettle
<1> QED BY <1>3, <1>4 DEF TypeInv

\* The contexts of an open chain have been constructed.
LEMMA ChainBorn ==
    ASSUME TypeInv, NEW c \in Ctx, Born(c), NEW S \in SUBSET Ctx, IsOpenChain(S, c), NEW x \in S
    PROVE  x \in Ctx /\ Born(x) /\ ~Done(x)
<1>1. CASE x = c
  BY <1>1 DEF IsOpenChain
<1>2. CASE x # c
  <2>1. PICK y \in S : m_parent[y] = x
    BY <1>2 DEF IsOpenChain
  <2> QED BY <2>1, NullCtxAssumption DEF IsOpenChain, TypeInv, LinksNow
<1> QED BY <1>1, <1>2

\* What the innermost functor does to a context, and to which.
RunsTop(x, r, pend) ==
    /\ stack # <<>>
    /\ r \in Results
    /\ SettleNow(x, r, pend, Move("returned"))
    /\ UNCHANGED <<held, tasks, aborted, pairVars>>
    /\ \/ x = Top.child /\ pend = m_pending
       \/ /\ kind[Top.child] = "forward" /\ x = outer[Top.child]
          /\ pend = [m_pending EXCEPT ![Top.child] = "value"]

\* Functors that are at their end complete their context or, passing a result on, the outer one.
LEMMA RunSettles ==
    ASSUME TypeInv,
           \/ RunDefaultNow \/ (\E r \in {"value"} \cup Returned : RunValueNow(r))
           \/ RunCaughtNow \/ RunForwardNow
    PROVE  \E x \in Ctx, r \in Results, pend \in [Ctx -> States] :
             /\ RunsTop(x, r, pend) /\ PassedNow(pend) /\ Born(x) /\ SameFrames(Move("returned"))
<1> USE NullCtxAssumption
<1>1. /\ stack # <<>> /\ Returned \subseteq Results /\ "value" \in Results /\ "error" \in Results
  BY ReturnedAssumption
     DEF RunDefaultNow, RunValueNow, RunCaughtNow, RunForwardNow, Body, Results
<1>2. /\ Top.child \in Ctx /\ Top.result \in Results /\ SameFrames(Move("returned"))
      /\ Born(Top.child)
  <2>1. Len(stack) \in 1 .. Len(stack) /\ Top = stack[Len(stack)]
    BY <1>1, TopIs
  <2> QED BY <1>1, <2>1, TopIs, MoveFrame, StackBorn DEF Born
<1>3. m_pending \in [Ctx -> States] /\ PassedNow(m_pending)
  BY DEF TypeInv, InlineTypeOK, ChainTypeOK, States, PassedNow
<1>4. ASSUME NEW r \in Results, SettleNow(Top.child, r, m_pending, Move("returned")),
             UNCHANGED <<held, tasks, aborted, pairVars>>
      PROVE  RunsTop(Top.child, r, m_pending)
  BY <1>1, <1>4 DEF RunsTop
<1>5. CASE RunDefaultNow
  BY <1>2, <1>3, <1>4, <1>5 DEF RunDefaultNow
<1>6. ASSUME NEW r \in {"value"} \cup Returned, RunValueNow(r)
      PROVE  RunsTop(Top.child, r, m_pending) /\ r \in Results
  BY <1>1, <1>4, <1>6 DEF RunValueNow
<1>7. CASE RunCaughtNow
  BY <1>1, <1>2, <1>3, <1>4, <1>7 DEF RunCaughtNow
<1>8. CASE RunForwardNow
  <2>1. /\ kind[Top.child] = "forward"
        /\ SettleNow(outer[Top.child], Top.result, [m_pending EXCEPT ![Top.child] = "value"],
                     Move("returned"))
        /\ UNCHANGED <<held, tasks, aborted, pairVars>>
    BY <1>8 DEF RunForwardNow
  <2>2. outer[Top.child] \in Ctx /\ Born(outer[Top.child])
    BY <1>2, <2>1 DEF TypeInv, LinksNow
  <2>3. PassedNow([m_pending EXCEPT ![Top.child] = "value"])
    BY <1>2, <1>3, <2>1 DEF PassedNow, States, Results
  <2>4. RunsTop(outer[Top.child], Top.result, [m_pending EXCEPT ![Top.child] = "value"])
    BY <1>1, <1>2, <2>1 DEF RunsTop
  <2> QED BY <1>2, <2>2, <2>3, <2>4 DEF PassedNow
<1> QED BY <1>2, <1>3, <1>5, <1>6, <1>7, <1>8

\* cancel() of a handle settles the oldest unfinished operation of its chain, or nothing.
LEMMA CancelSettles ==
    ASSUME TypeInv, NEW c \in Ctx, CancelNow(c)
    PROVE  /\ UNCHANGED <<held, tasks, aborted, pairVars>>
           /\ \/ UNCHANGED <<m_pending, posts, stack>>
              \/ \E x \in Ctx : /\ Born(x) /\ ~Done(x) /\ ReadyNow(x)
                                /\ MayCall("cancel", {x})
                                /\ SettleNow(x, "canceled", m_pending, stack)
<1>1. Born(c) /\ UNCHANGED <<held, tasks, aborted, pairVars>>
  BY DEF CancelNow, HandleNow, Handle
<1>2. ASSUME NEW S \in SUBSET Ctx, NEW x \in S, IsOpenChain(S, c), MayCall("cancel", S),
             m_parent[x] \notin S
      PROVE  Born(x) /\ ~Done(x) /\ ReadyNow(x) /\ MayCall("cancel", {x}) /\ x \in Ctx
  <2>1. x \in Ctx /\ Born(x) /\ ~Done(x)
    BY <1>1, <1>2, ChainBorn
  <2>2. ReadyNow(x)
    BY <1>2 DEF IsOpenChain, ReadyNow, Over
  <2>3. MayCall("cancel", {x})
    BY <1>2 DEF MayCall
  <2> QED BY <2>1, <2>2, <2>3
<1> QED BY <1>1, <1>2 DEF CancelNow

\* abort() of a handle closes its chain, or nothing.
LEMMA AbortCloses ==
    ASSUME TypeInv, NEW c \in Ctx, AbortNow(c)
    PROVE  /\ UNCHANGED <<held, tasks, posts, pairVars, stack>>
           /\ Born(c)
           /\ \/ Done(c) /\ UNCHANGED <<m_pending, aborted>>
              \/ \E S \in SUBSET Ctx :
                   /\ IsOpenChain(S, c)
                   /\ \A x \in S : Born(x) /\ ~Done(x)
                   /\ m_pending' = [x \in Ctx |-> IF x \in S THEN "done" ELSE m_pending[x]]
                   /\ aborted' = aborted \cup (S \ Delivering)
<1>1. Born(c)
  BY DEF AbortNow, HandleNow, Handle
<1>2. ASSUME NEW S \in SUBSET Ctx, IsOpenChain(S, c) PROVE \A x \in S : Born(x) /\ ~Done(x)
  BY <1>1, <1>2, ChainBorn
<1> QED BY <1>1, <1>2 DEF AbortNow

\* The method that posted a functor goes on.
LEMMA ReturnPops ==
    ASSUME TypeInv, ReturnNow
    PROVE  /\ stack # <<>> /\ Len(stack) \in Nat \ {0}
           /\ stack[Len(stack)].at = "returned"
           /\ m_pending' = [m_pending EXCEPT ![stack[Len(stack)].ctx] = "done"]
           /\ stack' \in Seq(Frames) /\ Len(stack') = Len(stack) - 1
           /\ \A n \in 1 .. Len(stack) - 1 : stack'[n] = stack[n]
           /\ Delivering = Delivering' \cup {stack[Len(stack)].ctx}
           /\ UNCHANGED <<held, tasks, posts, aborted, pairVars>>
<1>1. /\ stack # <<>> /\ Len(stack) \in Nat \ {0} /\ Top = stack[Len(stack)]
      /\ stack \in Seq(Frames)
  BY TopIs DEF ReturnNow, TypeInv, FramesNow
<1>2. /\ stack' \in Seq(Frames) /\ Len(stack') = Len(stack) - 1
      /\ \A n \in 1 .. Len(stack) - 1 : stack'[n] = stack[n]
  BY <1>1, PopFrame DEF ReturnNow
<1>3. Delivering = {stack[n].ctx : n \in 1 .. Len(stack)}
  BY <1>1, DeliveringIs
<1>4. Delivering' = {stack'[n].ctx : n \in 1 .. Len(stack) - 1}
  BY <1>2, LenProperties DEF Delivering
<1>5. \A n \in 1 .. Len(stack) : n \in 1 .. Len(stack) - 1 \/ n = Len(stack)
  BY <1>1
<1>6. Delivering = Delivering' \cup {stack[Len(stack)].ctx}
  <2>1. Delivering \subseteq Delivering' \cup {stack[Len(stack)].ctx}
    BY <1>2, <1>3, <1>4, <1>5
  <2>2. \A n \in 1 .. Len(stack) - 1 : n \in 1 .. Len(stack)
    BY <1>1
  <2>3. Delivering' \subseteq Delivering
    BY <1>2, <1>3, <1>4, <2>2
  <2>4. stack[Len(stack)].ctx \in Delivering
    BY <1>1, <1>3
  <2> QED BY <2>1, <2>3, <2>4
<1> QED BY <1>1, <1>2, <1>6 DEF ReturnNow

\* Every step keeps the types.
LEMMA TypeStep == ASSUME TypeInv, InlineNext PROVE TypeInv'
<1> USE NullCtxAssumption
<1>1. /\ m_pending \in [Ctx -> States] /\ held \subseteq Ctx /\ aborted \subseteq Ctx
      /\ Returned \subseteq Results /\ "canceled" \in Results
      /\ SameFrames(stack) /\ PassedNow(m_pending)
      /\ \A c \in held : Born(c)
  BY StackIsSame, ReturnedAssumption
     DEF TypeInv, InlineTypeOK, ChainTypeOK, LinksNow, States, Results, PassedNow
<1>2. ASSUME NEW c \in Ctx, NewOp(c), UNCHANGED stack PROVE TypeInv'
  <2>1. /\ m_pending[c] = "unborn" /\ UNCHANGED <<tasks, posts, aborted, pairVars>>
        /\ held' \subseteq held \cup {c}
        /\ \E r \in {"empty"} \cup Results : m_pending' = [m_pending EXCEPT ![c] = r]
    BY <1>1, <1>2 DEF NewOp, Born
  <2>2. /\ m_pending' \in [Ctx -> States] /\ held' \subseteq Ctx /\ aborted' \subseteq Ctx
        /\ \A x \in Ctx : /\ m_pending'[x] = "unborn" => m_pending[x] = "unborn"
                          /\ m_pending'[x] = "callbacks" => m_pending[x] = "callbacks"
        /\ m_pending'[c] # "unborn"
    BY <1>1, <2>1 DEF States, Results
  <2> QED BY <1>1, <1>2, <2>1, <2>2, QuietTypes
<1>3. ASSUME NEW x \in Ctx, NEW c \in Ctx, NEW k \in {"then", "then_both", "on_failure"},
             ThenNow(x, c, k)
      PROVE  TypeInv'
  <2>1. /\ Born(x) /\ kind[x] # "forward" /\ AttachNow(x, c, k, NoCtx, stack)
        /\ UNCHANGED <<held, tasks, aborted>>
        /\ k \in Kinds /\ k # "forward"
    BY <1>3 DEF ThenNow, HandleNow, Handle, Kinds
  <2> QED BY <1>1, <2>1, AttachTypes
<1>4. ASSUME NEW c \in Ctx, NEW r \in Returned, AsyncReturnNow(c, r) PROVE TypeInv'
  <2>1. /\ Born(c) /\ r \in Results /\ SettleNow(c, r, m_pending, stack)
        /\ UNCHANGED <<held, tasks, aborted, pairVars>>
    BY <1>1, <1>4 DEF AsyncReturnNow
  <2> QED BY <1>1, <2>1, SettleTypes
<1>5. ASSUME NEW c \in Ctx, CancelNow(c) PROVE TypeInv'
  <2>1. UNCHANGED <<held, tasks, aborted, pairVars>>
    BY <1>5, CancelSettles
  <2>2. CASE UNCHANGED <<m_pending, posts, stack>>
    BY <1>1, <2>1, <2>2, QuietTypes
  <2>3. ASSUME NEW x \in Ctx, Born(x), SettleNow(x, "canceled", m_pending, stack)
        PROVE  TypeInv'
    BY <1>1, <2>1, <2>3, SettleTypes
  <2> QED BY <1>5, <2>2, <2>3, CancelSettles
<1>6. ASSUME NEW c \in Ctx, AbortNow(c) PROVE TypeInv'
  <2>1. /\ UNCHANGED <<held, tasks, posts, pairVars, stack>>
        /\ \/ UNCHANGED <<m_pending, aborted>>
           \/ \E S \in SUBSET Ctx :
                /\ m_pending' = [x \in Ctx |-> IF x \in S THEN "done" ELSE m_pending[x]]
                /\ aborted' = aborted \cup (S \ Delivering)
    BY <1>6, AbortCloses
  <2>2. /\ m_pending' \in [Ctx -> States] /\ aborted' \subseteq Ctx
        /\ \A x \in Ctx : /\ m_pending'[x] = "unborn" => m_pending[x] = "unborn"
                          /\ m_pending'[x] = "callbacks" => m_pending[x] = "callbacks"
    BY <1>1, <2>1 DEF States
  <2> QED BY <1>1, <2>1, <2>2, QuietTypes
<1>7. CASE RunDefaultNow \/ (\E r \in {"value"} \cup Returned : RunValueNow(r))
           \/ RunCaughtNow \/ RunForwardNow
  <2>1. PICK x \in Ctx, r \in Results, pend \in [Ctx -> States] :
          RunsTop(x, r, pend) /\ PassedNow(pend) /\ Born(x) /\ SameFrames(Move("returned"))
    BY <1>7, RunSettles
  <2> QED BY <2>1, SettleTypes DEF RunsTop
<1>8. CASE KeepContext
  <2>1. /\ stack # <<>> /\ held' = held \cup {Top.child} /\ stack' = Move("kept")
        /\ UNCHANGED <<m_pending, tasks, posts, aborted, pairVars>>
    BY <1>8 DEF KeepContext, Body
  <2>2. Top.child \in Ctx /\ m_pending[Top.child] # "unborn" /\ SameFrames(stack')
    <3>1. Len(stack) \in 1 .. Len(stack) /\ Top = stack[Len(stack)]
      BY <2>1, TopIs
    <3> QED BY <2>1, <3>1, MoveFrame, StackBorn
  <2> QED BY <1>1, <2>1, <2>2, QuietTypes
<1>9. CASE LeaveKept
  <2>1. stack # <<>> /\ stack' = Move("returned") /\ UNCHANGED chainVars
    BY <1>9 DEF LeaveKept
  <2>2. /\ SameFrames(stack') /\ held' = held /\ m_pending' = m_pending /\ aborted' = aborted
        /\ UNCHANGED <<tasks, posts, pairVars>>
    BY <2>1, MoveFrame DEF chainVars
  <2> QED BY <1>1, <2>2, QuietTypes
<1>10. ASSUME NEW i \in Ctx, NEW j \in Ctx, RunARetNow(i, j) PROVE TypeInv'
  <2>1. /\ stack # <<>> /\ Born(i) /\ kind[i] # "forward" /\ kind[Top.child] # "forward"
        /\ AttachNow(i, j, "forward", Top.child, Move("returned"))
        /\ UNCHANGED <<held, tasks, aborted>>
    BY <1>10 DEF RunARetNow, Body, HandleNow, Handle, RunsFunctor
  <2>2. Top.child \in Ctx /\ Born(Top.child) /\ SameFrames(Move("returned"))
    <3>1. Len(stack) \in 1 .. Len(stack) /\ Top = stack[Len(stack)]
      BY <2>1, TopIs
    <3> QED BY <2>1, <3>1, MoveFrame, StackBorn DEF Born
  <2> QED BY <2>1, <2>2, AttachTypes DEF Kinds
<1>11. CASE ReturnNow
  <2>1. /\ Len(stack) \in Nat \ {0}
        /\ m_pending' = [m_pending EXCEPT ![stack[Len(stack)].ctx] = "done"]
        /\ stack' \in Seq(Frames) /\ Len(stack') = Len(stack) - 1
        /\ \A n \in 1 .. Len(stack) - 1 : stack'[n] = stack[n]
        /\ UNCHANGED <<held, tasks, posts, aborted, pairVars>>
    BY <1>11, ReturnPops
  <2>2. /\ m_pending' \in [Ctx -> States]
        /\ \A x \in Ctx :
             /\ m_pending'[x] = "unborn" => (m_pending[x] = "unborn" /\ posts'[x] = posts[x])
             /\ m_pending'[x] = "callbacks" => m_pending[x] = "callbacks"
    BY <1>1, <2>1 DEF States
  <2>3. \A c \in held' : c \in held
    BY <2>1
  <2>4. LinksNow' /\ UNCHANGED pairVars
    BY <2>1, <2>2, <2>3, LinksSettle
  <2>5. ChainTypeOK'
    BY <2>1, <2>2 DEF TypeInv, InlineTypeOK, ChainTypeOK, States, pairVars
  <2>6. Len(stack') \in 0 .. MaxDepth
    BY <2>1, DepthAssumption DEF TypeInv, InlineTypeOK
  <2>7. InlineTypeOK'
    BY <2>1, <2>5, <2>6, RangeOfSeq, RangeEquality DEF InlineTypeOK
  <2>8. m_parent' = m_parent /\ \A n \in 1 .. Len(stack) - 1 : n \in 1 .. Len(stack)
    BY <2>1 DEF pairVars
  <2>9. \A n \in 1 .. Len(stack') : m_parent'[stack'[n].child] = stack'[n].ctx
    BY <2>1, <2>8 DEF TypeInv, FramesNow
  <2> QED BY <2>1, <2>4, <2>7, <2>9 DEF TypeInv, FramesNow
<1> QED BY <1>2, <1>3, <1>4, <1>5, <1>6, <1>7, <1>8, <1>9, <1>10, <1>11
       DEF InlineNext, InlineClientCode

\* The invariant holds when no context has been constructed.
LEMMA InitTypes == InlineInit => TypeInv
<1> SUFFICES ASSUME InlineInit PROVE TypeInv
  OBVIOUS
<1>1. /\ stack = <<>> /\ stack \in Seq(Frames) /\ Len(stack) = 0
  BY EmptySeq DEF InlineInit
<1>2. ChainTypeOK /\ LinksNow
  BY NullCtxAssumption
     DEF InlineInit, ChainInit, ChainTypeOK, LinksNow, Born, Kinds, Results, Tasks
<1>3. Range(stack) \subseteq Frames
  BY <1>1, RangeOfSeq, RangeEquality
<1>4. Len(stack) \in 0 .. MaxDepth
  BY <1>1, DepthAssumption
<1>5. InlineTypeOK
  BY <1>2, <1>3, <1>4 DEF InlineTypeOK
<1>6. FramesNow
  BY <1>1 DEF FramesNow
<1> QED BY <1>2, <1>5, <1>6 DEF TypeInv

\* Type correctness for any number of contexts and nested functors, also if functors call
\* the contexts that are delivering to them.
THEOREM InlineTypes == InlineSpec => []InlineTypeOK
<1>1. TypeInv /\ UNCHANGED inlineVars => TypeInv'
  BY DEF inlineVars, chainVars, pairVars, TypeInv, InlineTypeOK, ChainTypeOK, LinksNow,
         FramesNow, Born
<1>2. TypeInv /\ [InlineNext]_inlineVars => TypeInv'
  BY <1>1, TypeStep
<1>3. TypeInv => InlineTypeOK
  BY DEF TypeInv
<1> QED BY InitTypes, <1>2, <1>3, PTL DEF InlineSpec

-----------------------------------------------------------------------------
(* Waiting.                                                                *)

\* A set of contexts that no context in it waits outside of.
Closed(S) ==
    /\ \A x \in S : m_parent[x] \in S \cup {NoCtx}
    /\ \A j \in Ctx : outer[j] \in S => m_parent[j] \in S

\* A context waits for what is in every closed set with it.
LEMMA AwaitsIs ==
    /\ \A a, b \in Ctx : b \in Awaits[a] <=> \A S \in SUBSET Ctx : a \in S /\ Closed(S) => b \in S
    /\ \A a, b \in Ctx : b \in Awaits[a] <=> WaitsFor(a, b)
    /\ \A a \in Ctx : Awaits[a] \subseteq Ctx
BY DEF Awaits, WaitsFor, Closed

\* Waiting is reflexive and transitive, and follows the links.
LEMMA AwaitsOrder ==
    ASSUME TypeInv
    PROVE  /\ \A a \in Ctx : a \in Awaits[a]
           /\ \A a, b, c \in Ctx : (b \in Awaits[a] /\ c \in Awaits[b]) => c \in Awaits[a]
           /\ \A a \in Ctx : m_parent[a] # NoCtx => m_parent[a] \in Awaits[a]
           /\ \A j \in Ctx : kind[j] = "forward" => m_parent[j] \in Awaits[outer[j]]
<1>1. \A a \in Ctx : a \in Awaits[a]
  BY AwaitsIs
<1>2. \A a, b, c \in Ctx : (b \in Awaits[a] /\ c \in Awaits[b]) => c \in Awaits[a]
  BY AwaitsIs
<1>3. m_parent \in [Ctx -> Ctx \cup {NoCtx}]
  BY DEF TypeInv, InlineTypeOK, ChainTypeOK
<1>4. ASSUME NEW a \in Ctx, m_parent[a] # NoCtx PROVE m_parent[a] \in Awaits[a]
  <2>1. \A S \in SUBSET Ctx : a \in S /\ Closed(S) => m_parent[a] \in S
    BY <1>4 DEF Closed
  <2> QED BY <1>3, <1>4, <2>1, AwaitsIs
<1>5. ASSUME NEW j \in Ctx, kind[j] = "forward" PROVE m_parent[j] \in Awaits[outer[j]]
  <2>1. outer[j] \in Ctx /\ m_parent[j] \in Ctx
    BY <1>3, <1>5 DEF TypeInv, LinksNow
  <2>2. \A S \in SUBSET Ctx : outer[j] \in S /\ Closed(S) => m_parent[j] \in S
    BY DEF Closed
  <2> QED BY <2>1, <2>2, AwaitsIs
<1> QED BY <1>1, <1>2, <1>4, <1>5

\* Contexts that have been constructed wait for such contexts only, the others for none.
LEMMA AwaitsBorn ==
    ASSUME TypeInv, NEW a \in Ctx, NEW b \in Awaits[a]
    PROVE  /\ b \in Ctx
           /\ Born(a) => Born(b)
           /\ ~Born(a) => b = a
<1>1. b \in Ctx /\ m_parent \in [Ctx -> Ctx \cup {NoCtx}] /\ NoCtx \notin Ctx
  BY AwaitsIs, NullCtxAssumption DEF TypeInv, InlineTypeOK, ChainTypeOK
<1>2. \A c \in Ctx :
        /\ m_pending[c] = "unborn" => m_parent[c] = NoCtx
        /\ m_parent[c] # NoCtx => m_pending[m_parent[c]] # "unborn"
        /\ outer[c] \in Ctx => m_parent[c] # NoCtx /\ m_pending[outer[c]] # "unborn"
  BY <1>1 DEF TypeInv, LinksNow, Born
<1>3. CASE Born(a)
  <2> DEFINE S == {c \in Ctx : m_pending[c] # "unborn"}
  <2>1. Closed(S)
    BY <1>1, <1>2 DEF Closed
  <2>2. a \in S /\ S \in SUBSET Ctx
    BY <1>3 DEF Born
  <2>3. b \in S
    BY <1>1, <2>1, <2>2, AwaitsIs
  <2> QED BY <1>1, <1>3, <2>3 DEF Born
<1>4. CASE ~Born(a)
  <2>1. Closed({a})
    BY <1>1, <1>2, <1>4 DEF Closed, Born
  <2> QED BY <1>1, <1>4, <2>1, AwaitsIs
<1> QED BY <1>1, <1>3, <1>4

\* Nothing waits for anything else while the links stay.
LEMMA AwaitsSame == ASSUME UNCHANGED <<m_parent, outer>> PROVE Awaits' = Awaits
BY DEF Awaits, WaitsFor

\* What a new context changes: it waits for its parent, and, passing a result on, the
\* outer context does.
LEMMA AwaitsGrow ==
    ASSUME TypeInv, NEW x \in Ctx, Born(x), NEW child \in Ctx, ~Born(child),
           NEW target \in Ctx \cup {NoCtx},
           m_parent' = [m_parent EXCEPT ![child] = x],
           outer' = [outer EXCEPT ![child] = target],
           NEW a \in Ctx, NEW b \in Awaits'[a]
    PROVE  /\ b \in Ctx
           /\ \/ b \in Awaits[a]
              \/ target \in Awaits[a] /\ b \in Awaits[x]
              \/ a = child /\ b \in Awaits[x]
<1> USE NullCtxAssumption
<1>1. /\ m_parent \in [Ctx -> Ctx \cup {NoCtx}] /\ outer \in [Ctx -> Ctx \cup {NoCtx}]
      /\ \A c \in Ctx : outer[c] \in Ctx => kind[c] = "forward" /\ m_parent[c] # NoCtx
      /\ \A c \in Ctx : Awaits[c] \subseteq Ctx
  BY AwaitsIs DEF TypeInv, InlineTypeOK, ChainTypeOK, LinksNow
<1>2. \A c, d \in Ctx : d \in Awaits'[c] <=>
        \A S \in SUBSET Ctx :
            /\ c \in S
            /\ \A e \in S : m_parent'[e] \in S \cup {NoCtx}
            /\ \A j \in Ctx : outer'[j] \in S => m_parent'[j] \in S
            => d \in S
  BY DEF Awaits, WaitsFor
<1>3. b \in Ctx
  BY DEF Awaits
<1> SUFFICES ASSUME NEW S, S = {c \in Ctx : \/ c \in Awaits[a]
                                            \/ target \in Awaits[a] /\ c \in Awaits[x]
                                            \/ a = child /\ c \in Awaits[x]}
             PROVE  b \in S
  BY <1>3
<1>4. a \in S /\ S \in SUBSET Ctx
  BY AwaitsOrder
<1>5. child \in S => a = child
  BY AwaitsBorn
<1>6. a = child => x \in S
  BY AwaitsOrder
<1>7. \A e \in S : m_parent[e] # NoCtx => m_parent[e] \in S
  BY <1>1, AwaitsOrder
<1>8. \A e \in S : m_parent'[e] \in S \cup {NoCtx}
  BY <1>1, <1>5, <1>6, <1>7
<1>9. ASSUME NEW j \in Ctx, outer'[j] \in S PROVE m_parent'[j] \in S
  <2>1. CASE j = child
    <3>1. target \in S
      BY <1>1, <1>9, <2>1
    <3>2. target \in Awaits[a] \/ a = child
      BY <3>1
    <3>3. x \in S
      BY <3>2, AwaitsOrder
    <3> QED BY <1>1, <2>1, <3>3
  <2>2. CASE j # child
    <3>1. outer[j] \in S /\ m_parent'[j] = m_parent[j]
      BY <1>1, <1>9, <2>2
    <3>2. m_parent[j] \in Awaits[outer[j]] /\ m_parent[j] \in Ctx /\ outer[j] \in Ctx
      BY <1>1, <3>1, AwaitsOrder
    <3> QED BY <3>1, <3>2, AwaitsOrder
  <2> QED BY <2>1, <2>2
<1>10. \A T \in SUBSET Ctx :
            /\ a \in T
            /\ \A e \in T : m_parent'[e] \in T \cup {NoCtx}
            /\ \A j \in Ctx : outer'[j] \in T => m_parent'[j] \in T
            => b \in T
  BY <1>2, <1>3
<1> QED BY <1>4, <1>8, <1>9, <1>10
-----------------------------------------------------------------------------
(* One step of a method.                                                   *)

\* No context that delivers waits for what the innermost functor completes.
LEMMA ChildIsAwaited ==
    ASSUME InlineInv, stack # <<>>, NEW d \in Delivering
    PROVE  /\ Top.child \notin Awaits[d]
           /\ kind[Top.child] = "forward" => outer[Top.child] \notin Awaits[d]
<1> SUFFICES ASSUME NEW c, c = Top.child, NEW p, p = Top.ctx, NEW n, n = Len(stack)
             PROVE  /\ c \notin Awaits[d]
                    /\ kind[c] = "forward" => outer[c] \notin Awaits[d]
  OBVIOUS
<1>1. /\ TypeInv /\ Acyclic /\ Stacked
      /\ n \in Nat \ {0} /\ c \in Ctx /\ p \in Ctx /\ m_parent[c] = p /\ stack[n].ctx = p
  BY TopIs DEF InlineInv
<1>2. PICK m \in 1 .. n : stack[m].ctx = d
  BY <1>1, DeliveringIs DEF TypeInv, FramesNow
<1>3. d \in Ctx /\ (m < n \/ m = n) /\ n \in 1 .. n
  BY <1>1, <1>2, DeliveringIs DEF TypeInv, FramesNow
<1>4. ASSUME NEW e \in Ctx, p \in Awaits[e], e \in Awaits[d] PROVE e = p
  <2>1. p \in Awaits[d]
    BY <1>1, <1>3, <1>4, AwaitsOrder
  <2>2. m = n
    BY <1>1, <1>2, <1>3, <2>1 DEF Stacked
  <2> QED BY <1>1, <1>2, <1>4, <2>2 DEF Acyclic
<1>5. p \in Awaits[c] /\ p # c /\ p # NoCtx
  BY <1>1, AwaitsOrder, NullCtxAssumption DEF TypeInv, LinksNow
<1>6. ASSUME kind[c] = "forward"
      PROVE  outer[c] \in Ctx /\ p \in Awaits[outer[c]] /\ outer[c] # p
  BY <1>1, <1>6, AwaitsOrder DEF TypeInv, LinksNow, Acyclic
<1> QED BY <1>1, <1>4, <1>5, <1>6

\* A step that begins no delivery keeps the order.
LEMMA OrderKept ==
    ASSUME InlineInv, UNCHANGED pairVars, SameFrames(stack')
    PROVE  Acyclic' /\ Stacked'
<1>1. m_parent' = m_parent /\ outer' = outer /\ kind' = kind /\ Awaits' = Awaits
  BY AwaitsSame DEF pairVars
<1>2. Acyclic'
  BY <1>1 DEF InlineInv, Acyclic
<1>3. Stacked'
  BY <1>1 DEF InlineInv, Stacked, SameFrames
<1> QED BY <1>2, <1>3

\* A delivery that begins keeps it, if no context that delivers waits for it.
LEMMA OrderPushed ==
    ASSUME InlineInv, UNCHANGED pairVars, NEW frames, SameFrames(frames),
           NEW x \in Ctx, NEW y \in Ctx, NEW r \in Results, NEW b \in BOOLEAN,
           stack' = Append(frames, [ctx |-> x, child |-> y, result |-> r,
                                    attaching |-> b, at |-> "body"]),
           \A d \in Delivering : x \notin Awaits[d]
    PROVE  Acyclic' /\ Stacked'
<1> SUFFICES ASSUME NEW f, f = [ctx |-> x, child |-> y, result |-> r,
                                attaching |-> b, at |-> "body"]
             PROVE  Acyclic' /\ Stacked'
  OBVIOUS
<1>1. m_parent' = m_parent /\ outer' = outer /\ kind' = kind /\ Awaits' = Awaits /\ TypeInv
  BY AwaitsSame DEF pairVars, InlineInv
<1>2. Acyclic'
  BY <1>1 DEF InlineInv, Acyclic
<1>3. /\ Len(stack') = Len(stack) + 1 /\ Len(stack) \in Nat
      /\ \A n \in 1 .. Len(stack) : stack'[n] = frames[n]
      /\ stack'[Len(stack) + 1] = f
  BY <1>1, PushNow
<1>4. ASSUME NEW m \in 1 .. Len(stack'), NEW n \in 1 .. Len(stack'), m < n
      PROVE  stack'[n].ctx \notin Awaits[stack'[m].ctx]
  <2>1. m \in 1 .. Len(stack) /\ (n \in 1 .. Len(stack) \/ n = Len(stack) + 1)
    BY <1>3, <1>4
  <2>2. stack'[m].ctx = stack[m].ctx
    BY <1>3, <2>1 DEF SameFrames
  <2>3. CASE n \in 1 .. Len(stack)
    <3>1. stack'[n].ctx = stack[n].ctx
      BY <1>3, <2>3 DEF SameFrames
    <3> QED BY <1>4, <2>1, <2>2, <2>3, <3>1 DEF InlineInv, Stacked
  <2>4. CASE n = Len(stack) + 1
    <3>1. stack[m].ctx \in Delivering
      BY <1>1, <2>1, DeliveringIs DEF TypeInv, FramesNow
    <3> QED BY <1>3, <2>2, <2>4, <3>1
  <2> QED BY <2>1, <2>3, <2>4
<1> QED BY <1>1, <1>2, <1>4 DEF Stacked

\* The turn of every context that had it stays, and the next comes with a delivery.
LEMMA TurnKept ==
    ASSUME InlineInv, UNCHANGED pairVars, held' \subseteq Ctx,
           \A c \in Ctx : (Over(c) /\ kind[c] # "forward") =>
              m_pending'[c] = "done" \/ c \in Delivering',
           \A c \in Ctx : (m_pending'[c] \in Results \cup {"done"} \/ c \in Delivering') =>
              \/ m_pending[c] \in Results \cup {"done"} \/ c \in Delivering
              \/ ReadyNow(c)
              \/ m_parent[c] \in Ctx /\ m_pending'[m_parent[c]] = "done",
           \A c \in held' : c \in held \/ ReadyNow(c),
           \/ posts' = posts
           \/ \E y \in Ctx : /\ posts' = [posts EXCEPT ![y] = @ + 1]
                            /\ m_parent[y] \in Delivering' /\ m_parent[y] \in Ctx
                            /\ ~Over(m_parent[y])
    PROVE  TurnInv'
<1>1. /\ m_parent' = m_parent /\ outer' = outer /\ kind' = kind
      /\ m_parent \in [Ctx -> Ctx \cup {NoCtx}] /\ NoCtx \notin Ctx
      /\ held \subseteq Ctx /\ posts \in [Ctx -> Nat]
      /\ \A c \in Ctx : m_parent[c] # NoCtx => kind[m_parent[c]] # "forward"
      /\ \A c \in Ctx : kind[c] = "forward" => outer[c] \in Ctx
  BY NullCtxAssumption DEF pairVars, InlineInv, TypeInv, InlineTypeOK, ChainTypeOK, LinksNow
<1> SUFFICES ASSUME NEW InTurn, InTurn = {c \in Ctx : \/ m_parent[c] = NoCtx
                                                      \/ m_pending'[m_parent[c]] = "done"
                                                      \/ m_parent[c] \in Delivering'}
             PROVE  TurnInv'
  OBVIOUS
<1>2. \A c \in Ctx : ReadyNow(c) => c \in InTurn
  BY <1>1 DEF ReadyNow
<1>3. \A c \in Ctx : (m_pending'[c] \in Results \cup {"done"} \/ c \in Delivering') => c \in InTurn
  BY <1>1, <1>2 DEF InlineInv, TurnInv
<1>4. \A c \in held' : c \in InTurn
  BY <1>1, <1>2 DEF InlineInv, TurnInv
<1>5. \A c \in Ctx : kind[c] = "forward" => outer[c] \in InTurn
  BY <1>1, <1>2 DEF InlineInv, TurnInv
<1>6. \A c \in Ctx : posts'[c] > 0 =>
        /\ m_parent[c] # NoCtx
        /\ m_pending'[m_parent[c]] = "done" \/ m_parent[c] \in Delivering'
  <2> SUFFICES ASSUME NEW c \in Ctx, posts'[c] > 0
               PROVE  /\ m_parent[c] # NoCtx
                      /\ m_pending'[m_parent[c]] = "done" \/ m_parent[c] \in Delivering'
    OBVIOUS
  <2>1. CASE posts[c] > 0
    BY <1>1, <2>1 DEF InlineInv, TurnInv
  <2>2. CASE ~(posts[c] > 0)
    <3>1. PICK y \in Ctx : /\ posts' = [posts EXCEPT ![y] = @ + 1]
                           /\ m_parent[y] \in Delivering' /\ m_parent[y] \in Ctx
      BY <2>2
    <3>2. c = y
      BY <1>1, <2>2, <3>1
    <3> QED BY <1>1, <3>1, <3>2
  <2> QED BY <2>1, <2>2
<1>7. ASSUME NEW c \in Ctx, NEW d \in Ctx
      PROVE  /\ m_parent[c] = NoCtx => posts'[c] = 0
             /\ (m_parent[c] = m_parent[d] /\ posts'[c] > 0 /\ posts'[d] > 0)
                     => (c = d /\ posts'[c] = 1)
  <2>1. /\ m_parent[c] = NoCtx => posts[c] = 0
        /\ (m_parent[c] = m_parent[d] /\ posts[c] > 0 /\ posts[d] > 0)
                => (c = d /\ posts[c] = 1)
    BY DEF InlineInv, TurnInv, DeliveredOnce
  <2>2. CASE posts' = posts
    BY <2>1, <2>2
  <2>3. ASSUME NEW y \in Ctx, posts' = [posts EXCEPT ![y] = @ + 1],
               m_parent[y] \in Ctx, ~Over(m_parent[y])
        PROVE  /\ m_parent[c] = NoCtx => posts'[c] = 0
               /\ (m_parent[c] = m_parent[d] /\ posts'[c] > 0 /\ posts'[d] > 0)
                       => (c = d /\ posts'[c] = 1)
    <3>1. \A e \in Ctx : m_parent[e] = m_parent[y] => posts[e] = 0
      BY <1>1, <2>3 DEF InlineInv, TurnInv
    <3> QED BY <1>1, <2>1, <2>3, <3>1
  <2> QED BY <2>2, <2>3
<1>8. \A c \in InTurn : \/ m_parent'[c] = NoCtx
                        \/ m_pending'[m_parent'[c]] = "done"
                        \/ m_parent'[c] \in Delivering'
  BY <1>1
<1> QED BY <1>1, <1>3, <1>4, <1>5, <1>6, <1>7, <1>8
       DEF TurnInv, ReadyNow, Over, Done, DeliveredOnce

\* A context gets a result: its turn has come, and no context that delivers waits for it.
LEMMA SettleOrdered ==
    ASSUME InlineInv, NEW x \in Ctx, Born(x), ReadyNow(x), NEW r \in Results,
           \A d \in Delivering : x \in Awaits[d] => Done(x),
           NEW pend, PassedNow(pend), \A c \in Ctx : pend[c] # m_pending[c] => ReadyNow(c),
           NEW frames, SameFrames(frames),
           SettleNow(x, r, pend, frames), UNCHANGED <<held, tasks, aborted, pairVars>>
    PROVE  InlineInv'
<1>1. /\ TypeInv /\ m_pending \in [Ctx -> States] /\ posts \in [Ctx -> Nat]
      /\ pend \in [Ctx -> States] /\ held \subseteq Ctx /\ Delivering \subseteq Ctx
      /\ \A c \in Ctx : pend[c] # m_pending[c] =>
           kind[c] = "forward" /\ Born(c) /\ pend[c] = "value" /\ ReadyNow(c)
      /\ UNCHANGED pairVars /\ held' = held
  BY DeliveringIs DEF InlineInv, TypeInv, InlineTypeOK, FramesNow, ChainTypeOK, States, PassedNow
<1>2. TypeInv'
  BY <1>1, SettleTypes
<1>3. pend[x] # "unborn"
  BY <1>1 DEF Born
<1>4. CASE pend[x] = "callbacks"
  <2>1. PostNow(x, callee[x], r, FALSE, pend, frames) /\ m_pending[x] = "callbacks"
    BY <1>1, <1>4 DEF SettleNow, Results
  <2> SUFFICES ASSUME NEW y, y = callee[x] PROVE InlineInv'
    OBVIOUS
  <2>2. /\ y \in Ctx /\ m_parent[y] = x /\ m_pending' = pend
        /\ stack' = Append(frames, [ctx |-> x, child |-> y, result |-> r,
                                    attaching |-> FALSE, at |-> "body"])
        /\ posts' = [posts EXCEPT ![y] = @ + 1]
    BY <1>1, <2>1 DEF TypeInv, LinksNow, PostNow
  <2>3. (\A d \in Delivering : x \notin Awaits[d]) /\ ~Done(x)
    BY <2>1 DEF Done
  <2>4. ~Over(x)
    BY <1>1, <2>3, AwaitsOrder DEF Over
  <2>5. Acyclic' /\ Stacked'
    BY <1>1, <2>2, <2>3, OrderPushed
  <2>6. Delivering' = Delivering \cup {x}
    BY <1>1, <2>2, PushNow
  <2>7. \A c \in Ctx : (Over(c) /\ kind[c] # "forward") =>
          m_pending'[c] = "done" \/ c \in Delivering'
    BY <1>1, <2>2, <2>6 DEF Over, Done
  <2>8. \A c \in Ctx : (m_pending'[c] \in Results \cup {"done"} \/ c \in Delivering') =>
          m_pending[c] \in Results \cup {"done"} \/ c \in Delivering \/ ReadyNow(c)
    BY <1>1, <2>2, <2>6
  <2>9. TurnInv'
    BY <1>1, <2>2, <2>4, <2>6, <2>7, <2>8, TurnKept
  <2> QED BY <1>2, <2>5, <2>9 DEF InlineInv
<1>5. CASE pend[x] # "callbacks"
  <2>1. /\ stack' = frames /\ posts' = posts
        /\ \/ m_pending' = [pend EXCEPT ![x] = r] /\ pend[x] # "done"
           \/ m_pending' = pend
    BY <1>1, <1>5 DEF SettleNow, Results
  <2>2. Acyclic' /\ Stacked' /\ Delivering' = Delivering
    BY <1>1, <2>1, OrderKept, SameDelivering
  <2>3. \A c \in Ctx : (Over(c) /\ kind[c] # "forward") =>
          m_pending'[c] = "done" \/ c \in Delivering'
    BY <1>1, <2>1, <2>2 DEF Over, Done
  <2>4. \A c \in Ctx : (m_pending'[c] \in Results \cup {"done"} \/ c \in Delivering') =>
          m_pending[c] \in Results \cup {"done"} \/ c \in Delivering \/ ReadyNow(c)
    BY <1>1, <2>1, <2>2
  <2>5. TurnInv'
    BY <1>1, <2>1, <2>3, <2>4, TurnKept
  <2> QED BY <1>2, <2>2, <2>5 DEF InlineInv
<1> QED BY <1>4, <1>5

\* A step that begins no delivery and attaches no context.
LEMMA QuietOrdered ==
    ASSUME InlineInv, TypeInv', UNCHANGED <<tasks, posts, pairVars>>, SameFrames(stack'),
           held' \subseteq Ctx,
           \A c \in Ctx : (Done(c) /\ kind[c] # "forward") => m_pending'[c] = "done",
           \A c \in Ctx : m_pending'[c] \in Results \cup {"done"} =>
              \/ m_pending[c] \in Results \cup {"done"}
              \/ ReadyNow(c)
              \/ m_parent[c] \in Ctx /\ m_pending'[m_parent[c]] = "done",
           \A c \in held' : c \in held \/ ReadyNow(c)
    PROVE  InlineInv'
<1>1. TypeInv /\ UNCHANGED pairVars /\ posts' = posts
  BY DEF InlineInv
<1>2. Acyclic' /\ Stacked' /\ Delivering' = Delivering
  BY <1>1, OrderKept, SameDelivering
<1>3. \A c \in Ctx : (Over(c) /\ kind[c] # "forward") =>
        m_pending'[c] = "done" \/ c \in Delivering'
  BY <1>2 DEF Over
<1>4. \A c \in Ctx : (m_pending'[c] \in Results \cup {"done"} \/ c \in Delivering') =>
        \/ m_pending[c] \in Results \cup {"done"} \/ c \in Delivering
        \/ ReadyNow(c)
        \/ m_parent[c] \in Ctx /\ m_pending'[m_parent[c]] = "done"
  BY <1>2
<1>5. TurnInv'
  BY <1>1, <1>3, <1>4, TurnKept
<1> QED BY <1>2, <1>5 DEF InlineInv

\* A context is constructed and attached to another that no context that delivers waits
\* for; what it may pass a result on to, if anything, the innermost functor completes.
LEMMA AttachOrdered ==
    ASSUME InlineInv, NEW x \in Ctx, NEW child \in Ctx, NEW k \in Kinds,
           NEW target \in Ctx \cup {NoCtx}, NEW frames, SameFrames(frames),
           Born(x), kind[x] # "forward",
           k = "forward" => /\ target \in Ctx /\ Born(target) /\ kind[target] # "forward"
                            /\ ReadyNow(target) /\ target \notin Awaits[x]
                            /\ \A d \in Delivering : target \notin Awaits[d],
           k # "forward" => target = NoCtx,
           \A d \in Delivering : x \in Awaits[d] => Done(x),
           AttachNow(x, child, k, target, frames), UNCHANGED <<held, tasks, aborted>>
    PROVE  InlineInv'
<1> USE NullCtxAssumption
<1> SUFFICES ASSUME NEW pend, pend = [m_pending EXCEPT ![child] = "empty"] PROVE InlineInv'
  OBVIOUS
<1>1. /\ TypeInv /\ m_pending \in [Ctx -> States] /\ posts \in [Ctx -> Nat]
      /\ m_parent \in [Ctx -> Ctx \cup {NoCtx}] /\ kind \in [Ctx -> Kinds]
      /\ outer \in [Ctx -> Ctx \cup {NoCtx}] /\ held \subseteq Ctx
      /\ Delivering \subseteq Ctx
      /\ \A a \in Ctx : Awaits[a] \subseteq Ctx
  BY AwaitsIs, DeliveringIs DEF InlineInv, TypeInv, InlineTypeOK, FramesNow, ChainTypeOK, States
<1>2. /\ m_pending[child] = "unborn" /\ m_pending[x] # "unborn" /\ x # child
      /\ m_parent' = [m_parent EXCEPT ![child] = x]
      /\ kind' = [kind EXCEPT ![child] = k]
      /\ outer' = [outer EXCEPT ![child] = target]
      /\ SetContinuationNow(x, child, pend, frames)
      /\ held' = held
      /\ \A n \in 1 .. Len(stack) : stack[n].ctx # child /\ stack[n].ctx \in Ctx
  BY <1>1, StackBorn DEF AttachNow, Born
<1>3. /\ pend \in [Ctx -> States] /\ pend[x] = m_pending[x] /\ pend[child] = "empty"
      /\ \A c \in Ctx \ {child} : pend[c] = m_pending[c]
  BY <1>1, <1>2 DEF States
<1>4. TypeInv'
  BY <1>1, AttachTypes
<1>5. \A d \in Delivering : target \notin Awaits[d]
  BY <1>1
<1>6. target \notin Awaits[x]
  BY <1>1
<1>7. ASSUME NEW a \in Ctx, NEW b \in Awaits'[a]
      PROVE  /\ b \in Ctx
             /\ \/ b \in Awaits[a]
                \/ target \in Awaits[a] /\ b \in Awaits[x]
                \/ a = child /\ b \in Awaits[x]
  BY <1>1, <1>2, AwaitsGrow DEF Born
<1>8. ASSUME NEW d \in Ctx, Born(d) PROVE child \notin Awaits[d]
  BY <1>1, <1>2, <1>8, AwaitsBorn DEF Born
<1>9. Acyclic'
  <2>1. ASSUME NEW a \in Ctx, NEW b \in Ctx, b \in Awaits'[a], a \in Awaits'[b] PROVE a = b
    <3>1. \/ b \in Awaits[a]
          \/ target \in Awaits[a] /\ b \in Awaits[x]
          \/ a = child /\ b \in Awaits[x]
      BY <1>7, <2>1
    <3>2. \/ a \in Awaits[b]
          \/ target \in Awaits[b] /\ a \in Awaits[x]
          \/ b = child /\ a \in Awaits[x]
      BY <1>7, <2>1
    <3>3. child \notin Awaits[x]
      BY <1>2, <1>8 DEF Born
    <3>4. \A e, f, g \in Ctx : (f \in Awaits[e] /\ g \in Awaits[f]) => g \in Awaits[e]
      BY <1>1, AwaitsOrder
    <3>5. target \in Awaits[a] \/ target \in Awaits[b] => target \in Ctx
      BY <1>1
    <3> QED BY <1>1, <1>6, <3>1, <3>2, <3>3, <3>4, <3>5 DEF InlineInv, Acyclic
  <2>2. ASSUME NEW c \in Ctx, kind'[c] = "forward" PROVE outer'[c] # m_parent'[c]
    <3>1. target # x
      BY <1>1, <1>6, AwaitsOrder
    <3> QED BY <1>1, <1>2, <2>2, <3>1 DEF InlineInv, Acyclic
  <2> QED BY <2>1, <2>2 DEF Acyclic
<1>10. /\ m_pending' \in [Ctx -> States]
       /\ m_pending'[child] = "empty"
       /\ \A c \in Ctx \ {child, x} : m_pending'[c] = m_pending[c]
       /\ \/ /\ m_pending[x] \notin Results
             /\ stack' = frames /\ posts' = posts
             /\ IF m_pending[x] = "done" THEN m_pending'[x] = "done"
                                         ELSE m_pending'[x] = "callbacks"
          \/ /\ m_pending[x] \in Results
             /\ m_pending'[x] = m_pending[x]
             /\ stack' = Append(frames, [ctx |-> x, child |-> child, result |-> pend[x],
                                         attaching |-> TRUE, at |-> "body"])
             /\ posts' = [posts EXCEPT ![child] = @ + 1]
  <2>1. CASE pend[x] \in Results
    <3>1. PostNow(x, child, pend[x], TRUE, pend, frames)
      BY <1>2, <2>1 DEF SetContinuationNow, Results
    <3> QED BY <1>2, <1>3, <2>1, <3>1 DEF PostNow
  <2>2. CASE pend[x] \in {"empty", "callbacks"}
    <3>1. /\ m_pending' = [pend EXCEPT ![x] = "callbacks"] /\ stack' = frames /\ posts' = posts
      BY <1>2, <2>2 DEF SetContinuationNow, Results
    <3> QED BY <1>2, <1>3, <2>2, <3>1 DEF States, Results
  <2>3. CASE pend[x] = "done"
    <3>1. m_pending' = pend /\ stack' = frames /\ posts' = posts
      BY <1>2, <2>3 DEF SetContinuationNow, Results
    <3> QED BY <1>2, <1>3, <2>3, <3>1 DEF Results
  <2> QED BY <1>1, <1>2, <1>3, <2>1, <2>2, <2>3 DEF States
<1>11. ASSUME NEW m \in 1 .. Len(stack), NEW b \in Ctx, b \notin Awaits[stack[m].ctx]
       PROVE  b \notin Awaits'[stack[m].ctx]
  <2>1. stack[m].ctx \in Ctx /\ stack[m].ctx # child /\ stack[m].ctx \in Delivering
    BY <1>1, <1>2, DeliveringIs DEF TypeInv, FramesNow
  <2> QED BY <1>5, <1>7, <1>11, <2>1
<1>12. \A m, n \in 1 .. Len(stack) : m < n => stack[n].ctx \notin Awaits'[stack[m].ctx]
  BY <1>2, <1>11 DEF InlineInv, Stacked
<1>13. /\ Stacked'
       /\ Delivering' = IF m_pending[x] \in Results THEN Delivering \cup {x} ELSE Delivering
  <2>1. CASE m_pending[x] \notin Results
    <3>1. stack' = frames
      BY <1>10, <2>1
    <3>2. Delivering' = Delivering
      BY <1>1, <3>1, SameDelivering
    <3> QED BY <1>12, <2>1, <3>1, <3>2 DEF Stacked, SameFrames
  <2>2. CASE m_pending[x] \in Results
    <3> SUFFICES ASSUME NEW r, r = pend[x], NEW b, b = TRUE,
                        NEW f, f = [ctx |-> x, child |-> child, result |-> r,
                                    attaching |-> b, at |-> "body"]
                 PROVE  Stacked' /\ Delivering' = Delivering \cup {x}
      BY <2>2
    <3>1. stack' = Append(frames, f) /\ r \in Results /\ b \in BOOLEAN /\ ~Done(x)
      BY <1>3, <1>10, <2>2 DEF Done, Results
    <3>2. /\ Len(stack') = Len(stack) + 1 /\ Len(stack) \in Nat
          /\ \A n \in 1 .. Len(stack) : stack'[n] = frames[n]
          /\ stack'[Len(stack) + 1] = f
          /\ Delivering' = Delivering \cup {x}
      <4>1. TypeInv /\ SameFrames(frames) /\ x \in Ctx /\ child \in Ctx
        BY <1>1
      <4> QED BY ONLY <3>1, <4>1, PushNow,
                      f = [ctx |-> x, child |-> child, result |-> r,
                           attaching |-> b, at |-> "body"]
    <3>3. ASSUME NEW m \in 1 .. Len(stack'), NEW n \in 1 .. Len(stack'), m < n
          PROVE  stack'[n].ctx \notin Awaits'[stack'[m].ctx]
      <4>1. m \in 1 .. Len(stack) /\ (n \in 1 .. Len(stack) \/ n = Len(stack) + 1)
        BY <3>2, <3>3
      <4>2. stack'[m].ctx = stack[m].ctx
        BY <3>2, <4>1 DEF SameFrames
      <4>3. CASE n \in 1 .. Len(stack)
        <5>1. stack'[n].ctx = stack[n].ctx
          BY <3>2, <4>3 DEF SameFrames
        <5> QED BY <1>12, <3>3, <4>1, <4>2, <4>3, <5>1
      <4>4. CASE n = Len(stack) + 1
        <5>1. stack[m].ctx \in Delivering
          BY <1>1, <4>1, DeliveringIs DEF TypeInv, FramesNow
        <5>2. x \notin Awaits[stack[m].ctx]
          BY <3>1, <5>1
        <5>3. x \notin Awaits'[stack[m].ctx]
          BY <1>11, <4>1, <5>2
        <5> QED BY <3>2, <4>2, <4>4, <5>3
      <4> QED BY <4>1, <4>3, <4>4
    <3> QED BY <3>2, <3>3 DEF Stacked
  <2> QED BY <2>1, <2>2
<1>14. /\ m_pending[child] = "unborn" /\ m_parent[child] = NoCtx /\ kind[child] = "root"
       /\ posts[child] = 0
       /\ child \notin Delivering /\ child \notin held
  <2>1. child \notin Delivering
    BY <1>1, <1>2, DeliveringIs DEF TypeInv, FramesNow
  <2> QED BY <1>1, <1>2, <2>1 DEF TypeInv, LinksNow, Born
<1>15. m_pending[x] \in Results => x \notin Delivering /\ ~Over(x)
  <2>1. ASSUME m_pending[x] \in Results PROVE ~Done(x)
    BY <2>1 DEF Done, Results
  <2> QED BY <1>1, <2>1, AwaitsOrder DEF Over
<1> SUFFICES ASSUME NEW InTurn, InTurn = {c \in Ctx : \/ m_parent'[c] = NoCtx
                                                      \/ m_pending'[m_parent'[c]] = "done"
                                                      \/ m_parent'[c] \in Delivering'}
             PROVE  InlineInv'
  OBVIOUS
<1>16. \A c \in Ctx : Over(c) => m_pending'[c] = "done" \/ c \in Delivering'
  BY <1>2, <1>10, <1>13, <1>14 DEF Over, Done, Results
<1>17. \A c \in Ctx \ {child} :
         m_parent'[c] = m_parent[c] /\ kind'[c] = kind[c] /\ outer'[c] = outer[c]
  BY <1>1, <1>2
<1>18. \A c \in Ctx \ {child} : ReadyNow(c) => c \in InTurn
  BY <1>1, <1>16, <1>17 DEF ReadyNow
<1>19. \A c \in Ctx : (m_pending'[c] \in Results \cup {"done"} \/ c \in Delivering') => c \in InTurn
  <2> SUFFICES ASSUME NEW c \in Ctx,
                      m_pending'[c] \in Results \cup {"done"} \/ c \in Delivering'
               PROVE  c # child /\ ReadyNow(c)
    BY <1>18
  <2>1. c # child
    BY <1>2, <1>10, <1>13, <1>14 DEF Results
  <2>2. m_pending[c] \in Results \cup {"done"} \/ c \in Delivering
    BY <1>10, <1>13, <2>1 DEF Results
  <2> QED BY <2>1, <2>2 DEF InlineInv, TurnInv
<1>20. \A c \in held' : c \in InTurn
  BY <1>1, <1>2, <1>14, <1>18 DEF InlineInv, TurnInv
<1>21. \A c \in Ctx : kind'[c] = "forward" => outer'[c] \in InTurn
  <2>1. CASE k = "forward"
    <3>1. target \in InTurn
      BY <1>2, <1>18, <2>1 DEF Born
    <3>2. outer'[child] = target
      BY <1>1, <1>2
    <3>3. \A c \in Ctx \ {child} : kind[c] = "forward" => outer[c] \in Ctx \ {child}
      BY <1>1, <1>2 DEF TypeInv, LinksNow, Born
    <3> QED BY <1>17, <1>18, <3>1, <3>2, <3>3 DEF InlineInv, TurnInv
  <2>2. CASE k # "forward"
    <3>1. kind'[child] # "forward"
      BY <1>1, <1>2, <2>2
    <3>2. \A c \in Ctx \ {child} : kind[c] = "forward" => outer[c] \in Ctx \ {child}
      BY <1>1, <1>2 DEF TypeInv, LinksNow, Born
    <3> QED BY <1>17, <1>18, <3>1, <3>2 DEF InlineInv, TurnInv
  <2> QED BY <2>1, <2>2
<1>22. \A c \in Ctx : posts'[c] > 0 =>
         /\ m_parent'[c] # NoCtx
         /\ m_pending'[m_parent'[c]] = "done" \/ m_parent'[c] \in Delivering'
  <2>1. ASSUME NEW c \in Ctx \ {child}, posts'[c] > 0
        PROVE  m_parent[c] # NoCtx /\ m_parent[c] \in Ctx /\ Over(m_parent[c])
    <3>1. posts[c] > 0
      BY <1>1, <1>10, <2>1
    <3> QED BY <1>1, <3>1 DEF InlineInv, TurnInv
  <2>2. ASSUME posts'[child] > 0 PROVE m_parent'[child] = x /\ x \in Delivering'
    <3>1. m_pending[x] \in Results
      BY <1>1, <1>10, <1>14, <2>2
    <3> QED BY <1>1, <1>2, <1>13, <3>1
  <2> QED BY <1>16, <1>17, <2>1, <2>2
<1>23. ASSUME NEW c \in Ctx, NEW d \in Ctx
       PROVE  /\ m_parent'[c] = NoCtx => posts'[c] = 0
              /\ (m_parent'[c] = m_parent'[d] /\ posts'[c] > 0 /\ posts'[d] > 0)
                      => (c = d /\ posts'[c] = 1)
  <2>1. /\ m_parent[c] = NoCtx => posts[c] = 0
        /\ (m_parent[c] = m_parent[d] /\ posts[c] > 0 /\ posts[d] > 0)
                => (c = d /\ posts[c] = 1)
    BY DEF InlineInv, TurnInv, DeliveredOnce
  <2>2. m_parent'[child] = x
    BY <1>1, <1>2
  <2>3. CASE m_pending[x] \notin Results
    BY <1>1, <1>10, <1>14, <1>17, <2>1, <2>2, <2>3
  <2>4. CASE m_pending[x] \in Results
    <3>1. \A e \in Ctx : m_parent[e] = x => posts[e] = 0
      BY <1>1, <1>15, <2>4 DEF InlineInv, TurnInv
    <3>2. posts'[child] = 1 /\ \A e \in Ctx \ {child} : posts'[e] = posts[e]
      BY <1>1, <1>10, <1>14, <2>4
    <3> QED BY <1>1, <1>14, <1>17, <2>1, <2>2, <3>1, <3>2
  <2> QED BY <2>3, <2>4
<1>24. \A c \in InTurn : \/ m_parent'[c] = NoCtx
                         \/ m_pending'[m_parent'[c]] = "done"
                         \/ m_parent'[c] \in Delivering'
  OBVIOUS
<1>25. held' \subseteq Ctx /\ \A c \in Ctx : kind'[c] = "forward" => outer'[c] \in Ctx
  BY <1>1, <1>2, <1>21
<1>26. TurnInv'
  BY <1>19, <1>20, <1>21, <1>22, <1>23, <1>24, <1>25
     DEF TurnInv, ReadyNow, Over, Done, DeliveredOnce
<1> QED BY <1>4, <1>9, <1>13, <1>26 DEF InlineInv

\* What the client may do with a context, no delivering context waits for.
LEMMA MayCallIs ==
    ASSUME Reentrant = {}, TypeInv, NEW method, NEW S \in SUBSET Ctx, MayCall(method, S)
    PROVE  \A x \in S, d \in Delivering : x \in Awaits[d] => Done(x)
<1>1. Delivering \subseteq Ctx
  BY DeliveringIs DEF TypeInv, FramesNow
<1> QED BY <1>1, AwaitsIs DEF MayCall

\* The invariant holds when no context has been constructed.
LEMMA InitOrdered == InlineInit => InlineInv
<1> SUFFICES ASSUME InlineInit PROVE InlineInv
  OBVIOUS
<1>1. /\ TypeInv /\ Len(stack) = 0 /\ held = {}
      /\ m_pending = [c \in Ctx |-> "unborn"] /\ kind = [c \in Ctx |-> "root"]
      /\ posts = [c \in Ctx |-> 0]
  BY InitTypes, EmptySeq DEF InlineInit, ChainInit
<1>2. Delivering = {}
  BY <1>1, DeliveringIs DEF TypeInv, FramesNow
<1>3. Acyclic
  BY <1>1, AwaitsBorn DEF Acyclic, Born
<1>4. Stacked
  BY <1>1 DEF Stacked
<1>5. TurnInv
  BY <1>1, <1>2 DEF TurnInv, DeliveredOnce, Results
<1> QED BY <1>1, <1>3, <1>4, <1>5 DEF InlineInv

\* Every step keeps the order and the turns, for a client that makes no reentrant call.
LEMMA OrderStep ==
    ASSUME Reentrant = {}, InlineInv, InlineNext
    PROVE  InlineInv'
<1> USE NullCtxAssumption
<1>1. /\ TypeInv /\ TypeInv'
      /\ m_pending \in [Ctx -> States] /\ held \subseteq Ctx
      /\ m_parent \in [Ctx -> Ctx \cup {NoCtx}]
      /\ Returned \subseteq Results /\ "canceled" \in Results
      /\ SameFrames(stack) /\ PassedNow(m_pending)
      /\ \A c \in held : Born(c) /\ ReadyNow(c)
  BY StackIsSame, TypeStep, ReturnedAssumption
     DEF InlineInv, TurnInv, TypeInv, InlineTypeOK, ChainTypeOK, LinksNow, States, Results,
         PassedNow
<1>2. held' \subseteq Ctx
  BY <1>1 DEF TypeInv, InlineTypeOK, ChainTypeOK
<1>3. ASSUME NEW x \in Ctx, Born(x), ReadyNow(x), NEW r \in Results, NEW method,
             MayCall(method, {x}), SettleNow(x, r, m_pending, stack),
             UNCHANGED <<held, tasks, aborted, pairVars>>
      PROVE  InlineInv'
  <2>1. \A d \in Delivering : x \in Awaits[d] => Done(x)
    BY <1>1, <1>3, MayCallIs
  <2> QED BY <1>1, <1>3, <2>1, SettleOrdered
<1>4. ASSUME NEW c \in Ctx, NewOp(c), UNCHANGED stack PROVE InlineInv'
  <2>1. /\ m_pending[c] = "unborn" /\ UNCHANGED <<tasks, posts, aborted, pairVars>>
        /\ held' \subseteq held \cup {c}
        /\ \E r \in {"empty"} \cup Results : m_pending' = [m_pending EXCEPT ![c] = r]
    BY <1>1, <1>4 DEF NewOp, Born
  <2>2. ReadyNow(c)
    BY <1>1, <2>1 DEF TypeInv, LinksNow, Born, ReadyNow
  <2>3. \A x \in Ctx : (Done(x) /\ kind[x] # "forward") => m_pending'[x] = "done"
    BY <1>1, <2>1 DEF Done
  <2>4. \A x \in Ctx : m_pending'[x] \in Results \cup {"done"} =>
          \/ m_pending[x] \in Results \cup {"done"} \/ ReadyNow(x)
    BY <1>1, <2>1, <2>2
  <2> QED BY <1>1, <1>2, <1>4, <2>1, <2>2, <2>3, <2>4, QuietOrdered
<1>5. ASSUME NEW x \in Ctx, NEW c \in Ctx, NEW k \in {"then", "then_both", "on_failure"},
             ThenNow(x, c, k)
      PROVE  InlineInv'
  <2>1. /\ Born(x) /\ kind[x] # "forward" /\ AttachNow(x, c, k, NoCtx, stack)
        /\ UNCHANGED <<held, tasks, aborted>> /\ MayCall("then", {x})
        /\ k \in Kinds /\ k # "forward"
    BY <1>5 DEF ThenNow, HandleNow, Handle, Kinds
  <2>2. \A d \in Delivering : x \in Awaits[d] => Done(x)
    BY <1>1, <2>1, MayCallIs
  <2> QED BY <1>1, <2>1, <2>2, AttachOrdered
<1>6. ASSUME NEW c \in Ctx, NEW r \in Returned, AsyncReturnNow(c, r) PROVE InlineInv'
  <2>1. /\ c \in held /\ MayCall("async_return", {c}) /\ SettleNow(c, r, m_pending, stack)
        /\ UNCHANGED <<held, tasks, aborted, pairVars>>
    BY <1>6 DEF AsyncReturnNow
  <2> QED BY <1>1, <1>3, <2>1
<1>7. ASSUME NEW c \in Ctx, CancelNow(c) PROVE InlineInv'
  <2>1. UNCHANGED <<held, tasks, aborted, pairVars>>
    BY <1>1, <1>7, CancelSettles
  <2>2. CASE UNCHANGED <<m_pending, posts, stack>>
    BY <1>1, <1>2, <2>1, <2>2, QuietOrdered DEF Done
  <2> QED BY <1>1, <1>3, <1>7, <2>1, <2>2, CancelSettles
<1>8. ASSUME NEW c \in Ctx, AbortNow(c) PROVE InlineInv'
  <2>1. UNCHANGED <<held, tasks, posts, pairVars, stack>>
    BY <1>1, <1>8, AbortCloses
  <2>2. CASE UNCHANGED m_pending
    BY <1>1, <1>2, <2>1, <2>2, QuietOrdered DEF Done
  <2>3. ASSUME NEW S \in SUBSET Ctx, IsOpenChain(S, c),
               m_pending' = [x \in Ctx |-> IF x \in S THEN "done" ELSE m_pending[x]]
        PROVE  InlineInv'
    <3>1. \A x \in Ctx : (Done(x) /\ kind[x] # "forward") => m_pending'[x] = "done"
      BY <2>3 DEF Done
    <3>2. \A x \in Ctx : m_pending'[x] \in Results \cup {"done"} =>
            \/ m_pending[x] \in Results \cup {"done"}
            \/ ReadyNow(x)
            \/ m_parent[x] \in Ctx /\ m_pending'[m_parent[x]] = "done"
      BY <2>3 DEF IsOpenChain, ReadyNow, Over, Done
    <3> QED BY <1>1, <1>2, <2>1, <3>1, <3>2, QuietOrdered
  <2> QED BY <1>1, <1>8, <2>2, <2>3, AbortCloses
<1>9. ASSUME stack # <<>>
      PROVE  /\ Top.child \in Ctx /\ Born(Top.child) /\ ReadyNow(Top.child)
             /\ \A d \in Delivering : Top.child \notin Awaits[d]
             /\ kind[Top.child] = "forward" =>
                  \A d \in Delivering : outer[Top.child] \notin Awaits[d]
             /\ \A l \in {"body", "kept", "returned"} : SameFrames(Move(l))
  <2>1. Len(stack) \in 1 .. Len(stack) /\ Top = stack[Len(stack)]
    BY <1>1, <1>9, TopIs
  <2>2. Top.child \in Ctx /\ m_parent[Top.child] = Top.ctx /\ Top.ctx \in Delivering
    BY <1>1, <1>9, TopIs
  <2>3. Born(Top.child)
    BY <1>1, <2>1, StackBorn DEF Born
  <2> QED BY <1>1, <1>9, <2>2, <2>3, ChildIsAwaited, MoveFrame DEF ReadyNow, Over
<1>10. CASE \/ RunDefaultNow
            \/ \E r \in {"value"} \cup Returned : RunValueNow(r)
            \/ RunCaughtNow
            \/ RunForwardNow
  <2>1. PICK x \in Ctx, r \in Results, pend \in [Ctx -> States] :
          RunsTop(x, r, pend) /\ PassedNow(pend) /\ Born(x) /\ SameFrames(Move("returned"))
    BY <1>1, <1>10, RunSettles
  <2>2. /\ stack # <<>> /\ SettleNow(x, r, pend, Move("returned"))
        /\ UNCHANGED <<held, tasks, aborted, pairVars>>
        /\ \/ x = Top.child /\ pend = m_pending
           \/ /\ kind[Top.child] = "forward" /\ x = outer[Top.child]
              /\ pend = [m_pending EXCEPT ![Top.child] = "value"]
    BY <2>1 DEF RunsTop
  <2>3. ReadyNow(x) /\ \A d \in Delivering : x \notin Awaits[d]
    BY <1>9, <2>2 DEF InlineInv, TurnInv
  <2>4. \A c \in Ctx : pend[c] # m_pending[c] => ReadyNow(c)
    BY <1>1, <1>9, <2>2
  <2> QED BY <2>1, <2>2, <2>3, <2>4, SettleOrdered
<1>11. CASE KeepContext
  <2>1. /\ stack # <<>> /\ held' = held \cup {Top.child} /\ stack' = Move("kept")
        /\ UNCHANGED <<m_pending, tasks, posts, aborted, pairVars>>
    BY <1>11 DEF KeepContext, Body
  <2> QED BY <1>1, <1>2, <1>9, <2>1, QuietOrdered DEF Done
<1>12. CASE LeaveKept
  <2>1. /\ stack # <<>> /\ stack' = Move("returned")
        /\ UNCHANGED <<m_pending, held, tasks, posts, pairVars>>
    BY <1>12 DEF LeaveKept, chainVars
  <2> QED BY <1>1, <1>2, <1>9, <2>1, QuietOrdered DEF Done
<1>13. ASSUME NEW i \in Ctx, NEW j \in Ctx, RunARetNow(i, j) PROVE InlineInv'
  <2>1. /\ stack # <<>> /\ Born(i) /\ kind[i] # "forward" /\ kind[Top.child] # "forward"
        /\ AttachNow(i, j, "forward", Top.child, Move("returned"))
        /\ ~WaitsFor(i, Top.child) /\ MayCall("return", {i})
        /\ UNCHANGED <<held, tasks, aborted>> /\ "forward" \in Kinds
    BY <1>13 DEF RunARetNow, Body, HandleNow, Handle, RunsFunctor, Kinds
  <2>2. \A d \in Delivering : i \in Awaits[d] => Done(i)
    BY <1>1, <2>1, MayCallIs
  <2>3. Top.child \notin Awaits[i]
    BY <1>9, <2>1, AwaitsIs
  <2> QED BY <1>9, <2>1, <2>2, <2>3, AttachOrdered
<1>14. CASE ReturnNow
  <2> SUFFICES ASSUME NEW n, n = Len(stack), NEW p, p = stack[n].ctx PROVE InlineInv'
    OBVIOUS
  <2>1. /\ n \in Nat \ {0}
        /\ m_pending' = [m_pending EXCEPT ![p] = "done"]
        /\ Len(stack') = n - 1
        /\ \A m \in 1 .. n - 1 : stack'[m] = stack[m]
        /\ Delivering = Delivering' \cup {p}
        /\ UNCHANGED <<held, tasks, posts, aborted, pairVars>>
    BY <1>1, <1>14, ReturnPops
  <2>2. /\ m_parent' = m_parent /\ outer' = outer /\ kind' = kind /\ Awaits' = Awaits
        /\ \A m \in 1 .. n - 1 : m \in 1 .. n
    BY <2>1, AwaitsSame DEF pairVars
  <2>3. Acyclic'
    BY <2>2 DEF InlineInv, Acyclic
  <2>4. Stacked'
    BY <2>1, <2>2 DEF InlineInv, Stacked
  <2>5. \A c \in Ctx : (Over(c) /\ kind[c] # "forward") =>
          m_pending'[c] = "done" \/ c \in Delivering'
    BY <1>1, <2>1 DEF Over, Done
  <2>6. \A c \in Ctx : (m_pending'[c] \in Results \cup {"done"} \/ c \in Delivering') =>
          m_pending[c] \in Results \cup {"done"} \/ c \in Delivering
    BY <1>1, <2>1
  <2>7. TurnInv'
    BY <1>2, <2>1, <2>5, <2>6, TurnKept
  <2> QED BY <1>1, <2>3, <2>4, <2>7 DEF InlineInv
<1> QED BY <1>4, <1>5, <1>6, <1>7, <1>8, <1>10, <1>11, <1>12, <1>13, <1>14
       DEF InlineNext, InlineClientCode

\* What the types, the order and the turns are invariant.
LEMMA InlineInvariant == ASSUME Reentrant = {} PROVE InlineSpec => []InlineInv
<1>1. ASSUME InlineInv, UNCHANGED inlineVars PROVE InlineInv'
  <2>1. /\ m_pending' = m_pending /\ callee' = callee /\ m_parent' = m_parent
        /\ kind' = kind /\ outer' = outer /\ held' = held /\ tasks' = tasks
        /\ posts' = posts /\ aborted' = aborted /\ stack' = stack
    BY <1>1 DEF inlineVars, chainVars, pairVars
  <2>2. Awaits' = Awaits /\ Delivering' = Delivering
    BY <2>1, AwaitsSame DEF Delivering
  <2>3. TypeInv'
    BY <1>1, <2>1 DEF InlineInv, TypeInv, InlineTypeOK, ChainTypeOK, LinksNow, FramesNow, Born
  <2>4. Acyclic' /\ Stacked'
    BY <1>1, <2>1, <2>2 DEF InlineInv, Acyclic, Stacked
  <2>5. TurnInv'
    BY <1>1, <2>1, <2>2 DEF InlineInv, TurnInv, ReadyNow, Over, Done, DeliveredOnce
  <2> QED BY <2>3, <2>4, <2>5 DEF InlineInv
<1>2. InlineInv /\ [InlineNext]_inlineVars => InlineInv'
  BY <1>1, OrderStep
<1> QED BY InitOrdered, <1>2, PTL DEF InlineSpec

\* No context is entered again while it delivers: the functor that it has invoked calls,
\* and lets others call, neither the context nor what the context waits for.
THEOREM NoneIsReentered ==
    ASSUME Reentrant = {} PROVE InlineSpec => []DeliversOneAtATime
<1>1. ASSUME InlineInv PROVE DeliversOneAtATime
  <2>1. /\ stack \in Seq(Frames) /\ DOMAIN stack = 1 .. Len(stack) /\ Len(stack) \in Nat
        /\ TypeInv
    BY <1>1, LenProperties DEF InlineInv, TypeInv, FramesNow
  <2>2. \A n \in 1 .. Len(stack) : stack[n].ctx \in Awaits[stack[n].ctx]
    BY <2>1, StackBorn, AwaitsOrder
  <2>3. ASSUME NEW m \in 1 .. Len(stack), NEW n \in 1 .. Len(stack),
               stack[m].ctx = stack[n].ctx
        PROVE  m = n
    <3>1. ~(m < n) /\ ~(n < m)
      BY <1>1, <2>2, <2>3 DEF InlineInv, Stacked
    <3> QED BY <2>1, <3>1
  <2> QED BY <2>1, <2>3 DEF DeliversOneAtATime
<1> QED BY <1>1, InlineInvariant, PTL

\* A context that invokes its continuation at once invokes it once, and no other.
THEOREM NoneIsInvokedTwice ==
    ASSUME Reentrant = {} PROVE InlineSpec => []DeliveredOnce
<1>1. InlineInv => DeliveredOnce
  BY DEF InlineInv, TurnInv
<1> QED BY <1>1, InlineInvariant, PTL
-----------------------------------------------------------------------------
(* The methods could take effect at once and their functors run later:     *)
(* InlineSpec implements Deferred!ChainSpec.                               *)

\* Every descent to a child of a child ends: contexts are attached when they are constructed.
Rooted ==
    \A S \in SUBSET Ctx : (\A x \in S : \E y \in S : m_parent[y] = x) => S = {}

\* A functor that has kept its context goes on with a context that is held.
KeptHeld ==
    \A n \in 1 .. Len(stack) : stack[n].at = "kept" => stack[n].child \in held

DeferredInv == InlineInv /\ Rooted /\ KeptHeld

\* m_pending under an executor that defers, S being the contexts that deliver.
Deferring(pend, S) == [c \in Ctx |-> IF c \in S THEN "done" ELSE pend[c]]

\* The functors that such an executor has not run yet.
TasksOf(frames) ==
    {[child |-> frames[n].child, result |-> frames[n].result] :
        n \in {i \in DOMAIN frames : frames[i].at = "body"}}

\* The variables of Deferred.
DeferredVars == <<DeferredPending, held, DeferredTasks, posts, aborted, pairVars>>

\* The state of Deferred before and after a step.
LEMMA DeferredIs ==
    ASSUME TypeInv, TypeInv'
    PROVE  /\ DeferredPending = Deferring(m_pending, Delivering)
           /\ DeferredPending' = Deferring(m_pending', Delivering')
           /\ DeferredTasks = TasksOf(stack)
           /\ DeferredTasks' = TasksOf(stack')
<1>1. m_pending \in [Ctx -> States] /\ m_pending' \in [Ctx -> States]
  BY DEF TypeInv, InlineTypeOK, ChainTypeOK, States
<1>2. stack = <<>> => Delivering = {}
  BY DEF Delivering
<1>3. stack' = <<>> => Delivering' = {}
  BY DEF Delivering
<1>4. DeferredPending = Deferring(m_pending, Delivering)
  BY <1>1, <1>2 DEF DeferredPending, Deferring
<1>5. DeferredPending' = Deferring(m_pending', Delivering')
  BY <1>1, <1>3 DEF DeferredPending, Deferring
<1> QED BY <1>4, <1>5 DEF DeferredTasks, TasksOf

\* The functors that have not run, by position.
LEMMA TasksAre ==
    ASSUME NEW frames \in Seq(Frames)
    PROVE  \A t : t \in TasksOf(frames) <=>
              \E n \in 1 .. Len(frames) :
                 /\ frames[n].at = "body"
                 /\ t = [child |-> frames[n].child, result |-> frames[n].result]
<1>1. DOMAIN frames = 1 .. Len(frames)
  BY LenProperties
<1> QED BY <1>1 DEF TasksOf

\* Invoking a functor is posting it.
LEMMA TasksPushed ==
    ASSUME NEW frames \in Seq(Frames), NEW f \in Frames, f.at = "body"
    PROVE  TasksOf(Append(frames, f)) =
              TasksOf(frames) \cup {[child |-> f.child, result |-> f.result]}
<1> SUFFICES ASSUME NEW more, more = Append(frames, f)
             PROVE  TasksOf(more) = TasksOf(frames) \cup {[child |-> f.child, result |-> f.result]}
  OBVIOUS
<1>1. /\ more \in Seq(Frames) /\ Len(frames) \in Nat /\ Len(more) = Len(frames) + 1
      /\ \A i \in 1 .. Len(frames) : more[i] = frames[i]
      /\ more[Len(frames) + 1] = f
  BY AppendProperties, LenProperties
<1>2. \A t : t \in TasksOf(more) <=>
        \E n \in 1 .. Len(more) :
           more[n].at = "body" /\ t = [child |-> more[n].child, result |-> more[n].result]
  <2>1. more \in Seq(Frames)
    BY <1>1
  <2> QED BY ONLY <2>1, TasksAre
<1>3. ASSUME NEW t
      PROVE  t \in TasksOf(more) <=>
               (t \in TasksOf(frames) \/ t = [child |-> f.child, result |-> f.result])
  <2>1. \A n : n \in 1 .. Len(more) <=> n \in 1 .. Len(frames) \/ n = Len(frames) + 1
    BY <1>1
  <2>2. ASSUME t \in TasksOf(more)
        PROVE  t \in TasksOf(frames) \/ t = [child |-> f.child, result |-> f.result]
    <3>1. PICK n \in 1 .. Len(more) :
            more[n].at = "body" /\ t = [child |-> more[n].child, result |-> more[n].result]
      BY <1>2, <2>2
    <3>2. CASE n \in 1 .. Len(frames)
      BY <1>1, <3>1, <3>2, TasksAre
    <3>3. CASE n = Len(frames) + 1
      BY <1>1, <3>1, <3>3
    <3> QED BY <2>1, <3>2, <3>3
  <2>3. ASSUME t \in TasksOf(frames) PROVE t \in TasksOf(more)
    <3>1. PICK n \in 1 .. Len(frames) :
            frames[n].at = "body" /\ t = [child |-> frames[n].child, result |-> frames[n].result]
      BY <2>3, TasksAre
    <3>2. n \in 1 .. Len(more) /\ more[n] = frames[n]
      BY <1>1, <2>1
    <3> QED BY <1>2, <3>1, <3>2
  <2>4. ASSUME t = [child |-> f.child, result |-> f.result] PROVE t \in TasksOf(more)
    <3>1. Len(frames) + 1 \in 1 .. Len(more) /\ more[Len(frames) + 1] = f
      BY <1>1
    <3> QED BY <1>2, <2>4, <3>1
  <2> QED BY <2>2, <2>3, <2>4
<1> QED BY <1>3

\* The task that the innermost functor was.
TopTask == [child |-> Top.child, result |-> Top.result]

\* A functor that ends, or takes its context, has run.
LEMMA TasksMoved ==
    ASSUME InlineInv, stack # <<>>, NEW l \in {"kept", "returned"}
    PROVE  /\ Top.at = "body" => /\ TopTask \in TasksOf(stack)
                                 /\ TasksOf(Move(l)) = TasksOf(stack) \ {TopTask}
           /\ Top.at # "body" => TasksOf(Move(l)) = TasksOf(stack)
<1> SUFFICES ASSUME NEW frames, frames = Move(l), NEW k, k = Len(stack)
             PROVE  /\ Top.at = "body" => /\ TopTask \in TasksOf(stack)
                                          /\ TasksOf(frames) = TasksOf(stack) \ {TopTask}
                    /\ Top.at # "body" => TasksOf(frames) = TasksOf(stack)
  OBVIOUS
<1>1. /\ TypeInv /\ stack \in Seq(Frames) /\ k \in Nat \ {0} /\ k \in 1 .. k
      /\ Top = stack[k]
  BY TopIs DEF InlineInv, TypeInv, FramesNow
<1>2. /\ frames \in Seq(Frames) /\ Len(frames) = k
      /\ \A n \in 1 .. k : /\ frames[n].child = stack[n].child
                           /\ frames[n].result = stack[n].result
                           /\ frames[n].at = IF n = k THEN l ELSE stack[n].at
  BY <1>1, MoveFrame DEF SameFrames
<1>3. \A n \in 1 .. k : stack[n].child = stack[k].child => n = k
  <2>1. \A n \in 1 .. k : stack[n].child = stack[k].child => stack[n].ctx = stack[k].ctx
    BY <1>1 DEF TypeInv, FramesNow
  <2>2. \A n \in 1 .. k : n < k => stack[n].ctx # stack[k].ctx
    BY <1>1, StackBorn, AwaitsOrder DEF InlineInv, Stacked
  <2> QED BY <1>1, <2>1, <2>2
<1>4. ASSUME NEW t
      PROVE  /\ t \in TasksOf(stack) <=>
                  \E n \in 1 .. k : /\ stack[n].at = "body"
                                    /\ t = [child |-> stack[n].child, result |-> stack[n].result]
             /\ t \in TasksOf(frames) <=>
                  \E n \in 1 .. k : /\ n # k /\ stack[n].at = "body"
                                    /\ t = [child |-> stack[n].child, result |-> stack[n].result]
  BY <1>1, <1>2, TasksAre
<1>5. \A n \in 1 .. k : [child |-> stack[n].child, result |-> stack[n].result] = TopTask => n = k
  BY <1>1, <1>3 DEF TopTask
<1>6. CASE Top.at = "body"
  <2>1. TopTask \in TasksOf(stack)
    BY <1>1, <1>4, <1>6 DEF TopTask
  <2>2. ASSUME NEW t PROVE t \in TasksOf(frames) <=> t \in TasksOf(stack) /\ t # TopTask
    BY <1>1, <1>4, <1>5 DEF TopTask
  <2> QED BY <1>6, <2>1, <2>2
<1>7. CASE Top.at # "body"
  BY <1>1, <1>4, <1>7
<1> QED BY <1>6, <1>7

\* A result is given to a context.
LEMMA DeferredSettle ==
    ASSUME InlineInv, TypeInv', NEW x \in Ctx, NEW r \in Results,
           NEW pend, PassedNow(pend), x \in Delivering => pend[x] = "done",
           NEW frames, SameFrames(frames), SettleNow(x, r, pend, frames)
    PROVE  Deferred!Settle(x, r, Deferring(pend, Delivering), TasksOf(frames))
<1>1. /\ TypeInv /\ pend \in [Ctx -> States] /\ frames \in Seq(Frames)
      /\ DeferredPending' = Deferring(m_pending', Delivering')
      /\ DeferredTasks' = TasksOf(stack')
  BY DeferredIs DEF InlineInv, PassedNow, SameFrames
<1>2. CASE pend[x] = "callbacks"
  <2> SUFFICES ASSUME NEW y, y = callee[x], NEW b, b = FALSE,
                      NEW f, f = [ctx |-> x, child |-> y, result |-> r,
                                  attaching |-> b, at |-> "body"]
               PROVE  Deferred!Settle(x, r, Deferring(pend, Delivering), TasksOf(frames))
    OBVIOUS
  <2>1. /\ m_pending' = pend /\ stack' = Append(frames, f) /\ posts' = [posts EXCEPT ![y] = @ + 1]
        /\ x \notin Delivering
    BY <1>2 DEF SettleNow, PostNow, Results
  <2>2. y \in Ctx
    <3>1. m_pending[x] = "callbacks"
      BY <1>2 DEF PassedNow
    <3> QED BY <1>1, <3>1 DEF TypeInv, LinksNow
  <2>3. f \in Frames /\ b \in BOOLEAN
    BY <2>2 DEF Frames
  <2>4. Delivering' = Delivering \cup {x}
    <3> QED BY ONLY <1>1, <2>1, <2>2, <2>3, PushNow, x \in Ctx, r \in Results,
                    SameFrames(frames),
                    f = [ctx |-> x, child |-> y, result |-> r, attaching |-> b, at |-> "body"]
  <2>5. DeferredTasks' = TasksOf(frames) \cup {[child |-> y, result |-> r]}
    BY <1>1, <2>1, <2>3, TasksPushed
  <2>6. DeferredPending' = [Deferring(pend, Delivering) EXCEPT ![x] = "done"]
    BY <1>1, <2>1, <2>4 DEF Deferring
  <2>7. Deferring(pend, Delivering)[x] = "callbacks"
    BY <1>2, <2>1 DEF Deferring
  <2> QED BY <2>1, <2>5, <2>6, <2>7 DEF Deferred!Settle, Deferred!Post
<1>3. CASE pend[x] \in {"empty"} \cup Results
  <2>1. /\ m_pending' = [pend EXCEPT ![x] = r] /\ stack' = frames /\ posts' = posts
        /\ x \notin Delivering
    BY <1>3 DEF SettleNow, Results
  <2>2. Delivering' = Delivering
    BY <1>1, <2>1, SameDelivering
  <2>3. DeferredPending' = [Deferring(pend, Delivering) EXCEPT ![x] = r]
    BY <1>1, <2>1, <2>2 DEF Deferring
  <2>4. Deferring(pend, Delivering)[x] = pend[x]
    BY <2>1 DEF Deferring
  <2> QED BY <1>1, <1>3, <2>1, <2>3, <2>4 DEF Deferred!Settle, Deferred!Results, Results
<1>4. CASE pend[x] = "done"
  <2>1. m_pending' = pend /\ stack' = frames /\ posts' = posts
    BY <1>4 DEF SettleNow, Results
  <2>2. Delivering' = Delivering
    BY <1>1, <2>1, SameDelivering
  <2>3. Deferring(pend, Delivering)[x] = "done"
    BY <1>4 DEF Deferring
  <2> QED BY <1>1, <2>1, <2>2, <2>3 DEF Deferred!Settle
<1> QED BY <1>2, <1>3, <1>4 DEF SettleNow

\* A context is constructed and attached.
LEMMA DeferredAttach ==
    ASSUME InlineInv, TypeInv', NEW x \in Ctx, x \in Delivering => Done(x), Born(x),
           NEW child \in Ctx, NEW k, NEW target, NEW frames, SameFrames(frames),
           AttachNow(x, child, k, target, frames)
    PROVE  Deferred!Attach(x, child, k, target, TasksOf(frames))
<1> SUFFICES ASSUME NEW pend, pend = [m_pending EXCEPT ![child] = "empty"]
             PROVE  Deferred!Attach(x, child, k, target, TasksOf(frames))
  OBVIOUS
<1>1. /\ TypeInv /\ m_pending \in [Ctx -> States] /\ frames \in Seq(Frames)
      /\ DeferredPending = Deferring(m_pending, Delivering)
      /\ DeferredPending' = Deferring(m_pending', Delivering')
      /\ DeferredTasks' = TasksOf(stack')
      /\ m_pending[child] = "unborn"
  BY DeferredIs
     DEF InlineInv, TypeInv, InlineTypeOK, ChainTypeOK, States, SameFrames, AttachNow, Born
<1>2. child \notin Delivering
  BY <1>1, DeliveringIs, StackBorn DEF TypeInv, FramesNow
<1>3. /\ x # child /\ pend \in [Ctx -> States] /\ pend[x] = m_pending[x]
      /\ x \in Delivering => pend[x] = "done"
  BY <1>1 DEF Born, Done, States
<1>4. /\ [DeferredPending EXCEPT ![child] = "empty"] = Deferring(pend, Delivering)
      /\ ~Deferred!Born(child)
  BY <1>1, <1>2 DEF Deferring, Deferred!Born
<1>5. SetContinuationNow(x, child, pend, frames)
  BY DEF AttachNow
<1>6. Deferred!SetContinuation(x, child, Deferring(pend, Delivering), TasksOf(frames))
  <2>1. CASE pend[x] \in Results
    <3> SUFFICES ASSUME NEW r, r = pend[x], NEW b, b = TRUE,
                        NEW f, f = [ctx |-> x, child |-> child, result |-> r,
                                    attaching |-> b, at |-> "body"]
                 PROVE  Deferred!SetContinuation(x, child, Deferring(pend, Delivering),
                                                 TasksOf(frames))
      OBVIOUS
    <3>1. /\ m_pending' = pend /\ stack' = Append(frames, f)
          /\ posts' = [posts EXCEPT ![child] = @ + 1] /\ callee' = callee
          /\ x \notin Delivering /\ r \in Results /\ b \in BOOLEAN
      BY <1>3, <1>5, <2>1 DEF SetContinuationNow, PostNow, Results
    <3>2. f \in Frames
      BY <3>1 DEF Frames
    <3>3. Delivering' = Delivering \cup {x}
      BY ONLY <1>1, <3>1, <3>2, PushNow, x \in Ctx, child \in Ctx, SameFrames(frames),
              f = [ctx |-> x, child |-> child, result |-> r, attaching |-> b, at |-> "body"]
    <3>4. DeferredTasks' = TasksOf(frames) \cup {[child |-> child, result |-> r]}
      BY <1>1, <3>1, <3>2, TasksPushed
    <3>5. DeferredPending' = [Deferring(pend, Delivering) EXCEPT ![x] = "done"]
      BY <1>1, <3>1, <3>3 DEF Deferring
    <3>6. Deferring(pend, Delivering)[x] = r
      BY <3>1 DEF Deferring
    <3> QED BY <3>1, <3>4, <3>5, <3>6
            DEF Deferred!SetContinuation, Deferred!Post, Deferred!Results, Results
  <2>2. CASE pend[x] \in {"empty", "callbacks"}
    <3>1. /\ m_pending' = [pend EXCEPT ![x] = "callbacks"]
          /\ callee' = [callee EXCEPT ![x] = child] /\ stack' = frames /\ posts' = posts
          /\ x \notin Delivering
      BY <1>3, <1>5, <2>2 DEF SetContinuationNow, Results
    <3>2. Delivering' = Delivering
      BY <1>1, <3>1, SameDelivering
    <3>3. DeferredPending' = [Deferring(pend, Delivering) EXCEPT ![x] = "callbacks"]
      BY <1>1, <3>1, <3>2 DEF Deferring
    <3>4. Deferring(pend, Delivering)[x] = pend[x]
      BY <3>1 DEF Deferring
    <3> QED BY <1>1, <2>2, <3>1, <3>3, <3>4 DEF Deferred!SetContinuation
  <2>3. CASE pend[x] = "done"
    <3>1. m_pending' = pend /\ callee' = callee /\ stack' = frames /\ posts' = posts
      BY <1>5, <2>3 DEF SetContinuationNow, Results
    <3>2. Delivering' = Delivering
      BY <1>1, <3>1, SameDelivering
    <3>3. Deferring(pend, Delivering)[x] = "done"
      BY <2>3 DEF Deferring
    <3> QED BY <1>1, <3>1, <3>2, <3>3 DEF Deferred!SetContinuation
  <2> QED BY <1>5, <2>1, <2>2, <2>3 DEF SetContinuationNow
<1> QED BY <1>4, <1>6 DEF AttachNow, Deferred!Attach

\* A context is constructed and attached, or none is, and the frames change by one.
LEMMA FramesStep ==
    ASSUME TypeInv, InlineNext
    PROVE  /\ \/ UNCHANGED m_parent
              \/ \E x, child \in Ctx :
                   ~Born(child) /\ Born(x) /\ m_parent' = [m_parent EXCEPT ![child] = x]
           /\ held \subseteq held'
           /\ \/ stack' = stack
              \/ stack # <<>> /\ stack' = Move("kept") /\ Top.child \in held'
              \/ stack # <<>> /\ stack' = Move("returned")
              \/ stack # <<>> /\ stack' = Front(stack)
              \/ \E f \in Frames : f.at = "body" /\ stack' = Append(stack, f)
              \/ \E f \in Frames : /\ stack # <<>> /\ f.at = "body"
                                   /\ stack' = Append(Move("returned"), f)
<1>1. /\ m_pending \in [Ctx -> States] /\ Returned \subseteq Results /\ "canceled" \in Results
      /\ \A c \in held : Born(c)
  BY ReturnedAssumption DEF TypeInv, InlineTypeOK, ChainTypeOK, LinksNow, States, Results
<1>2. ASSUME NEW x \in Ctx, Born(x), NEW r \in Results, NEW pend, PassedNow(pend), NEW frames,
             SettleNow(x, r, pend, frames)
      PROVE  stack' = frames \/ \E f \in Frames : f.at = "body" /\ stack' = Append(frames, f)
  <2>1. CASE pend[x] = "callbacks"
    <3>1. callee[x] \in Ctx
      BY <1>2, <2>1 DEF PassedNow, TypeInv, LinksNow
    <3>2. stack' = Append(frames, [ctx |-> x, child |-> callee[x], result |-> r,
                                   attaching |-> FALSE, at |-> "body"])
      BY <1>2, <2>1 DEF SettleNow, PostNow, Results
    <3> QED BY <3>1, <3>2 DEF Frames
  <2>2. CASE pend[x] # "callbacks"
    BY <1>2, <2>2 DEF SettleNow
  <2> QED BY <2>1, <2>2
<1>3. ASSUME NEW x \in Ctx, Born(x), NEW child \in Ctx, NEW k, NEW target, NEW frames,
             AttachNow(x, child, k, target, frames)
      PROVE  /\ \E y, c \in Ctx : ~Born(c) /\ Born(y) /\ m_parent' = [m_parent EXCEPT ![c] = y]
             /\ stack' = frames \/ \E f \in Frames : f.at = "body" /\ stack' = Append(frames, f)
  <2> SUFFICES ASSUME NEW pend, pend = [m_pending EXCEPT ![child] = "empty"]
               PROVE  stack' = frames \/ \E f \in Frames : /\ f.at = "body"
                                                           /\ stack' = Append(frames, f)
    BY <1>3 DEF AttachNow
  <2>1. SetContinuationNow(x, child, pend, frames)
    BY <1>3 DEF AttachNow
  <2>2. CASE pend[x] \in Results
    <3>1. stack' = Append(frames, [ctx |-> x, child |-> child, result |-> pend[x],
                                   attaching |-> TRUE, at |-> "body"])
      BY <2>1, <2>2 DEF SetContinuationNow, PostNow, Results
    <3> QED BY <2>2, <3>1 DEF Frames
  <2>3. CASE pend[x] \notin Results
    BY <2>1, <2>3 DEF SetContinuationNow
  <2> QED BY <2>2, <2>3
<1>4. CASE InlineClientCode
  <2>1. ASSUME NEW c \in Ctx, NewOp(c), UNCHANGED stack
        PROVE  UNCHANGED m_parent /\ held \subseteq held' /\ stack' = stack
    BY <2>1 DEF NewOp, pairVars
  <2>2. ASSUME NEW x \in Ctx, NEW c \in Ctx, NEW k, ThenNow(x, c, k)
        PROVE  /\ \E y, d \in Ctx : ~Born(d) /\ Born(y) /\ m_parent' = [m_parent EXCEPT ![d] = y]
               /\ held' = held
               /\ stack' = stack \/ \E f \in Frames : f.at = "body" /\ stack' = Append(stack, f)
    <3>1. Born(x) /\ AttachNow(x, c, k, NoCtx, stack) /\ held' = held
      BY <2>2 DEF ThenNow, HandleNow, Handle
    <3> QED BY <1>3, <3>1
  <2>3. PassedNow(m_pending)
    BY <1>1 DEF PassedNow
  <2>4. ASSUME NEW c \in Ctx, NEW r \in Returned, AsyncReturnNow(c, r)
        PROVE  /\ UNCHANGED m_parent /\ held' = held
               /\ stack' = stack \/ \E f \in Frames : f.at = "body" /\ stack' = Append(stack, f)
    <3>1. Born(c) /\ r \in Results /\ SettleNow(c, r, m_pending, stack) /\ held' = held
          /\ m_parent' = m_parent
      BY <1>1, <2>4 DEF AsyncReturnNow, pairVars
    <3> QED BY <1>2, <2>3, <3>1
  <2>5. ASSUME NEW c \in Ctx, CancelNow(c)
        PROVE  /\ UNCHANGED m_parent /\ held' = held
               /\ stack' = stack \/ \E f \in Frames : f.at = "body" /\ stack' = Append(stack, f)
    <3>1. held' = held /\ m_parent' = m_parent
      BY <2>5 DEF CancelNow, pairVars
    <3>2. \/ stack' = stack
          \/ \E x \in Ctx : Born(x) /\ SettleNow(x, "canceled", m_pending, stack)
      BY <2>5, CancelSettles
    <3> QED BY <1>1, <1>2, <2>3, <3>1, <3>2
  <2>6. ASSUME NEW c \in Ctx, AbortNow(c)
        PROVE  UNCHANGED m_parent /\ held' = held /\ stack' = stack
    BY <2>6 DEF AbortNow, pairVars
  <2> QED BY <1>4, <2>1, <2>2, <2>4, <2>5, <2>6 DEF InlineClientCode
<1>5. CASE \/ RunDefaultNow
           \/ \E r \in {"value"} \cup Returned : RunValueNow(r)
           \/ RunCaughtNow
           \/ RunForwardNow
  <2>1. PICK x \in Ctx, r \in Results, pend \in [Ctx -> States] :
          RunsTop(x, r, pend) /\ PassedNow(pend) /\ Born(x) /\ SameFrames(Move("returned"))
    BY <1>5, RunSettles
  <2>2. /\ stack # <<>> /\ SettleNow(x, r, pend, Move("returned"))
        /\ held' = held /\ m_parent' = m_parent
    BY <2>1 DEF RunsTop, pairVars
  <2> QED BY <1>2, <2>1, <2>2
<1>6. CASE KeepContext
  BY <1>6 DEF KeepContext, Body, pairVars
<1>7. CASE LeaveKept
  BY <1>7 DEF LeaveKept, chainVars, pairVars
<1>8. ASSUME NEW i \in Ctx, NEW j \in Ctx, RunARetNow(i, j)
      PROVE  /\ \E y, c \in Ctx : ~Born(c) /\ Born(y) /\ m_parent' = [m_parent EXCEPT ![c] = y]
             /\ held' = held /\ stack # <<>>
             /\ \/ stack' = Move("returned")
                \/ \E f \in Frames : f.at = "body" /\ stack' = Append(Move("returned"), f)
  <2>1. /\ Born(i) /\ AttachNow(i, j, "forward", Top.child, Move("returned"))
        /\ held' = held /\ stack # <<>>
    BY <1>8 DEF RunARetNow, Body, HandleNow, Handle
  <2> QED BY <1>3, <2>1
<1>9. CASE ReturnNow
  BY <1>9 DEF ReturnNow, pairVars
<1> QED BY <1>4, <1>5, <1>6, <1>7, <1>8, <1>9 DEF InlineNext

\* Every step keeps what the mapping to Deferred needs.
LEMMA DeferredStep ==
    ASSUME Reentrant = {}, DeferredInv, InlineNext
    PROVE  DeferredInv'
<1>1. InlineInv' /\ TypeInv
  BY OrderStep DEF DeferredInv, InlineInv
<1>2. Rooted'
  <2>1. CASE UNCHANGED m_parent
    BY <2>1 DEF DeferredInv, Rooted
  <2>2. ASSUME NEW x \in Ctx, NEW child \in Ctx, ~Born(child), Born(x),
               m_parent' = [m_parent EXCEPT ![child] = x]
        PROVE  Rooted'
    <3> SUFFICES ASSUME NEW S \in SUBSET Ctx, \A y \in S : \E z \in S : m_parent'[z] = y
                 PROVE  S = {}
      BY DEF Rooted
    <3>1. \A z \in Ctx : z # child => m_parent'[z] = m_parent[z] /\ m_parent[z] # child
      BY <1>1, <2>2, NullCtxAssumption
         DEF TypeInv, InlineTypeOK, ChainTypeOK, LinksNow, Born
    <3>2. m_parent'[child] = x /\ x # child
      BY <1>1, <2>2 DEF TypeInv, InlineTypeOK, ChainTypeOK
    <3>3. child \notin S
      BY <3>1, <3>2
    <3> QED BY <3>1, <3>3 DEF DeferredInv, Rooted
  <2> QED BY <1>1, <2>1, <2>2, FramesStep
<1>3. KeptHeld'
  <2>1. /\ stack \in Seq(Frames) /\ Len(stack) \in Nat /\ held \subseteq held'
        /\ \A n \in 1 .. Len(stack) : stack[n].at = "kept" => stack[n].child \in held'
    BY <1>1, LenProperties, FramesStep DEF DeferredInv, KeptHeld, TypeInv, FramesNow
  <2>2. ASSUME NEW frames \in Seq(Frames), NEW f \in Frames, f.at = "body",
               \A n \in 1 .. Len(frames) : frames[n].at = "kept" => frames[n].child \in held',
               stack' = Append(frames, f)
        PROVE  KeptHeld'
    <3>1. /\ Len(frames) \in Nat /\ Len(stack') = Len(frames) + 1
          /\ \A n \in 1 .. Len(frames) : stack'[n] = frames[n]
          /\ stack'[Len(frames) + 1] = f
      BY <2>2, AppendProperties, LenProperties
    <3>2. \A n \in 1 .. Len(stack') : n \in 1 .. Len(frames) \/ n = Len(frames) + 1
      BY <3>1
    <3> QED BY <2>2, <3>1, <3>2 DEF KeptHeld
  <2>3. ASSUME stack # <<>>
        PROVE  /\ Move("returned") \in Seq(Frames) /\ Len(Move("returned")) = Len(stack)
               /\ \A n \in 1 .. Len(stack) :
                    Move("returned")[n].at = "kept" => Move("returned")[n].child \in held'
    <3>1. SameFrames(Move("returned"))
          /\ \A n \in 1 .. Len(stack) :
                Move("returned")[n].at = IF n = Len(stack) THEN "returned" ELSE stack[n].at
      BY <1>1, <2>3, MoveFrame
    <3> QED BY <2>1, <3>1 DEF SameFrames
  <2>4. CASE stack' = stack
    BY <2>1, <2>4 DEF KeptHeld
  <2>5. CASE stack # <<>> /\ stack' = Move("kept") /\ Top.child \in held'
    <3>1. SameFrames(Move("kept"))
          /\ \A n \in 1 .. Len(stack) :
                Move("kept")[n].at = IF n = Len(stack) THEN "kept" ELSE stack[n].at
      BY <1>1, <2>5, MoveFrame
    <3>2. Top = stack[Len(stack)]
      BY <1>1, <2>5, TopIs
    <3> QED BY <2>1, <2>5, <3>1, <3>2 DEF SameFrames, KeptHeld
  <2>6. CASE stack # <<>> /\ stack' = Move("returned")
    BY <2>3, <2>6 DEF KeptHeld
  <2>7. CASE stack # <<>> /\ stack' = Front(stack)
    <3>1. /\ Len(stack') = Len(stack) - 1
          /\ \A n \in 1 .. Len(stack) - 1 : stack'[n] = stack[n] /\ n \in 1 .. Len(stack)
      BY <2>1, <2>7, PopFrame
    <3> QED BY <2>1, <3>1 DEF KeptHeld
  <2>8. ASSUME NEW f \in Frames, f.at = "body", stack' = Append(stack, f) PROVE KeptHeld'
    BY <2>1, <2>2, <2>8
  <2>9. ASSUME NEW f \in Frames, stack # <<>>, f.at = "body",
               stack' = Append(Move("returned"), f)
        PROVE  KeptHeld'
    BY <2>2, <2>3, <2>9
  <2> QED BY <1>1, <2>4, <2>5, <2>6, <2>7, <2>8, <2>9, FramesStep
<1> QED BY <1>1, <1>2, <1>3 DEF DeferredInv

\* What the mapping to Deferred needs is invariant.
LEMMA DeferredInvariant == ASSUME Reentrant = {} PROVE InlineSpec => []DeferredInv
<1>1. InlineInit => Rooted /\ KeptHeld
  <2> SUFFICES ASSUME InlineInit PROVE Rooted /\ KeptHeld
    OBVIOUS
  <2>1. Len(stack) = 0 /\ \A c \in Ctx : m_parent[c] = NoCtx
    BY EmptySeq DEF InlineInit, ChainInit
  <2>2. Rooted
    BY <2>1, NullCtxAssumption DEF Rooted
  <2> QED BY <2>1, <2>2 DEF KeptHeld
<1>2. DeferredInv /\ UNCHANGED inlineVars => (Rooted /\ KeptHeld)'
  BY DEF inlineVars, chainVars, pairVars, DeferredInv, Rooted, KeptHeld
<1>3. DeferredInv /\ [InlineNext]_inlineVars /\ InlineInv' => DeferredInv'
  BY <1>2, DeferredStep DEF DeferredInv
<1>4. DeferredInv <=> InlineInv /\ Rooted /\ KeptHeld
  BY DEF DeferredInv
<1> QED BY <1>1, <1>3, <1>4, InlineInvariant, PTL DEF InlineSpec

\* The predicates of Deferred on contexts.
LEMMA DeferredSees ==
    ASSUME TypeInv, TypeInv', NEW c \in Ctx
    PROVE  /\ Deferred!Born(c) <=> Born(c)
           /\ Deferred!Handle(c) <=> Handle(c)
           /\ Deferred!Done(c) <=> Over(c)
<1>1. DeferredPending[c] = IF c \in Delivering THEN "done" ELSE m_pending[c]
  BY DeferredIs DEF Deferring
<1>2. c \in Delivering => m_pending[c] # "unborn"
  BY DeliveringIs, StackBorn DEF TypeInv, FramesNow
<1>3. Deferred!Born(c) <=> Born(c)
  BY <1>1, <1>2 DEF Deferred!Born, Born
<1>4. Deferred!Done(c) <=> Over(c)
  BY <1>1 DEF Deferred!Done, Over, Done
<1> QED BY <1>3, <1>4 DEF Deferred!Handle, Handle

\* The client's calls, except abort(), from outside of functors or within one.
LEMMA DeferredClient ==
    ASSUME Reentrant = {}, DeferredInv, TypeInv',
           \/ \E c \in Ctx : NewOp(c) /\ UNCHANGED stack
           \/ \E x, c \in Ctx, k \in {"then", "then_both", "on_failure"} : ThenNow(x, c, k)
           \/ \E c \in Ctx, r \in Returned : AsyncReturnNow(c, r)
           \/ \E c \in Ctx : CancelNow(c)
    PROVE  Deferred!ChainNext
<1>1. /\ InlineInv /\ TypeInv /\ m_pending \in [Ctx -> States] /\ held \subseteq Ctx
      /\ Returned \subseteq Results /\ "canceled" \in Results
      /\ SameFrames(stack) /\ PassedNow(m_pending)
  BY StackIsSame, ReturnedAssumption
     DEF DeferredInv, InlineInv, TypeInv, InlineTypeOK, ChainTypeOK, States, Results, PassedNow
<1>2. /\ DeferredPending = Deferring(m_pending, Delivering)
      /\ DeferredPending' = Deferring(m_pending', Delivering')
      /\ DeferredTasks = TasksOf(stack) /\ DeferredTasks' = TasksOf(stack')
  BY <1>1, DeferredIs
<1>3. ASSUME NEW method, NEW S \in SUBSET Ctx, MayCall(method, S)
      PROVE  \A x \in S : x \in Delivering => Done(x)
  BY <1>1, <1>3, MayCallIs, AwaitsOrder
<1>4. ASSUME NEW x \in Ctx, x \in Delivering => Done(x), NEW r \in Results,
             SettleNow(x, r, m_pending, stack)
      PROVE  Deferred!Settle(x, r, DeferredPending, DeferredTasks)
  BY <1>1, <1>2, <1>4, DeferredSettle DEF Done
<1>5. ASSUME NEW c \in Ctx, NewOp(c), UNCHANGED stack PROVE Deferred!NewOp(c)
  <2>1. ~Deferred!Born(c) /\ c \notin Delivering /\ Delivering' = Delivering
    BY <1>1, <1>5, DeferredSees, DeliveringIs, StackBorn
       DEF NewOp, TypeInv, FramesNow, Born, Delivering
  <2>2. ASSUME NEW v, m_pending' = [m_pending EXCEPT ![c] = v]
        PROVE  DeferredPending' = [DeferredPending EXCEPT ![c] = v]
    BY <1>1, <1>2, <2>1, <2>2 DEF Deferring
  <2>3. DeferredTasks' = DeferredTasks
    BY <1>2, <1>5
  <2> QED BY <1>5, <2>1, <2>2, <2>3 DEF NewOp, Deferred!NewOp, Deferred!pairVars, pairVars
<1>6. ASSUME NEW x \in Ctx, NEW c \in Ctx, NEW k, ThenNow(x, c, k)
      PROVE  Deferred!Then(x, c, k)
  <2>1. /\ Handle(x) /\ Born(x) /\ AttachNow(x, c, k, NoCtx, stack) /\ MayCall("then", {x})
        /\ UNCHANGED <<held, aborted>>
    BY <1>6 DEF ThenNow, HandleNow, Handle
  <2>2. x \in Delivering => Done(x)
    BY <1>3, <2>1
  <2>3. Deferred!Attach(x, c, k, NoCtx, DeferredTasks)
    BY <1>1, <1>2, <2>1, <2>2, DeferredAttach
  <2>4. Deferred!Handle(x)
    BY <1>1, <2>1, DeferredSees
  <2> QED BY <2>1, <2>3, <2>4 DEF Deferred!Then
<1>7. ASSUME NEW c \in Ctx, NEW r \in Returned, AsyncReturnNow(c, r)
      PROVE  Deferred!AsyncReturn(c, r)
  <2>1. /\ c \in held /\ MayCall("async_return", {c}) /\ SettleNow(c, r, m_pending, stack)
        /\ UNCHANGED <<held, aborted, pairVars>>
    BY <1>7 DEF AsyncReturnNow
  <2>2. c \in Delivering => Done(c)
    BY <1>3, <2>1
  <2>3. Deferred!Settle(c, r, DeferredPending, DeferredTasks)
    BY <1>1, <1>4, <2>1, <2>2
  <2> QED BY <2>1, <2>3 DEF Deferred!AsyncReturn, Deferred!pairVars, pairVars
<1>8. ASSUME NEW c \in Ctx, CancelNow(c) PROVE Deferred!Cancel(c)
  <2>1. Deferred!Handle(c) /\ UNCHANGED <<held, aborted, pairVars>>
    BY <1>1, <1>8, DeferredSees DEF CancelNow, HandleNow
  <2>2. CASE Done(c) /\ UNCHANGED <<m_pending, posts, stack>>
    <3>1. Deferred!Done(c)
      BY <1>1, <2>2, DeferredSees DEF Over
    <3>2. DeferredPending' = DeferredPending /\ DeferredTasks' = DeferredTasks
      BY <1>2, <2>2 DEF Delivering
    <3> QED BY <2>1, <2>2, <3>1, <3>2 DEF Deferred!Cancel, Deferred!pairVars, pairVars
  <2>3. ASSUME NEW S \in SUBSET Ctx, IsOpenChain(S, c), MayCall("cancel", S),
               NEW x \in S, m_parent[x] \notin S, SettleNow(x, "canceled", m_pending, stack)
        PROVE  Deferred!Cancel(c)
    <3>1. \A y \in S : ~Done(y) /\ y \notin Delivering
      BY <1>3, <2>3 DEF IsOpenChain
    <3>2. /\ \A y \in S : ~Deferred!Done(y)
          /\ {p \in Ctx : Done(p)} \subseteq {p \in Ctx : Deferred!Done(p)}
      BY <1>1, <3>1, DeferredSees DEF Over
    <3>3. Deferred!IsOpenChain(S, c)
      BY <2>3, <3>2 DEF IsOpenChain, Deferred!IsOpenChain
    <3>4. Deferred!Settle(x, "canceled", DeferredPending, DeferredTasks)
      BY <1>1, <1>4, <2>3, <3>1
    <3> QED BY <2>1, <2>3, <3>3, <3>4 DEF Deferred!Cancel, Deferred!pairVars, pairVars
  <2> QED BY <1>8, <2>2, <2>3 DEF CancelNow
<1> QED BY <1>5, <1>6, <1>7, <1>8 DEF Deferred!ChainNext, Deferred!ClientCode

\* abort() of a chain some of whose contexts deliver, and so count as done.
LEMMA DeferredAbort ==
    ASSUME DeferredInv, TypeInv', NEW c \in Ctx, AbortNow(c)
    PROVE  Deferred!Abort(c)
<1>1. /\ InlineInv /\ TypeInv /\ m_pending \in [Ctx -> States]
      /\ UNCHANGED <<held, posts, pairVars>> /\ stack' = stack /\ Delivering' = Delivering
  BY DEF DeferredInv, InlineInv, TypeInv, InlineTypeOK, ChainTypeOK, States, AbortNow, Delivering
<1>2. /\ DeferredPending = Deferring(m_pending, Delivering)
      /\ DeferredPending' = Deferring(m_pending', Delivering')
      /\ DeferredTasks = TasksOf(stack) /\ DeferredTasks' = TasksOf(stack')
      /\ Deferred!Handle(c)
  BY <1>1, DeferredIs, DeferredSees DEF AbortNow, HandleNow
<1>3. CASE Done(c) /\ UNCHANGED <<m_pending, aborted>>
  <2>1. Deferred!Done(c)
    BY <1>1, <1>3, DeferredSees DEF Over
  <2> QED BY <1>1, <1>2, <1>3, <2>1 DEF Deferred!Abort, Deferred!pairVars, pairVars
<1>4. ASSUME NEW S \in SUBSET Ctx, IsOpenChain(S, c),
             m_pending' = [x \in Ctx |-> IF x \in S THEN "done" ELSE m_pending[x]],
             aborted' = aborted \cup (S \ Delivering)
      PROVE  Deferred!Abort(c)
  <2>1. ASSUME NEW x \in S \ Delivering, x # c
        PROVE  \E y \in S \ Delivering : m_parent[y] = x
    <3>1. PICK y \in S : m_parent[y] = x
      BY <1>4, <2>1 DEF IsOpenChain
    <3>2. ~Over(x)
      BY <1>4, <2>1 DEF Over, IsOpenChain
    <3>3. y \notin Delivering
      BY <2>1, <3>1, <3>2, NullCtxAssumption DEF DeferredInv, InlineInv, TurnInv, ReadyNow
    <3> QED BY <3>1, <3>3
  <2>2. CASE c \in Delivering
    <3>1. S \ Delivering = {}
      BY <2>1, <2>2 DEF DeferredInv, Rooted
    <3>2. aborted' = aborted
      BY <1>4, <3>1
    <3>3. DeferredPending' = DeferredPending
      BY <1>1, <1>2, <1>4, <3>1 DEF Deferring
    <3>4. Deferred!Done(c)
      BY <1>1, <2>2, DeferredSees DEF Over
    <3> QED BY <1>1, <1>2, <3>2, <3>3, <3>4 DEF Deferred!Abort, Deferred!pairVars, pairVars
  <2>3. CASE c \notin Delivering
    <3> SUFFICES ASSUME NEW T, T = S \ Delivering PROVE Deferred!Abort(c)
      OBVIOUS
    <3>1. T \in SUBSET Ctx /\ c \in T
      BY <1>4, <2>3 DEF IsOpenChain
    <3>2. \A x \in T : ~Deferred!Done(x)
      BY <1>1, <1>4, DeferredSees DEF Over, IsOpenChain
    <3>3. \A x \in T : m_parent[x] \in T \cup {NoCtx} \cup {p \in Ctx : Deferred!Done(p)}
      BY <1>1, <1>4, DeferredSees DEF Over, IsOpenChain
    <3>4. Deferred!IsOpenChain(T, c)
      BY <2>1, <3>1, <3>2, <3>3 DEF Deferred!IsOpenChain
    <3>5. DeferredPending' = [x \in Ctx |-> IF x \in T THEN "done" ELSE DeferredPending[x]]
      BY <1>1, <1>2, <1>4 DEF Deferring
    <3>6. aborted' = aborted \cup T
      BY <1>4
    <3> QED BY <1>1, <1>2, <3>1, <3>4, <3>5, <3>6 DEF Deferred!Abort, Deferred!pairVars, pairVars
  <2> QED BY <2>2, <2>3
<1> QED BY <1>3, <1>4 DEF AbortNow

\* The innermost functor takes its context, or ends, and so does the method that posted it.
LEMMA DeferredRun ==
    ASSUME Reentrant = {}, DeferredInv, TypeInv',
           \/ RunDefaultNow \/ KeepContext \/ LeaveKept \/ RunCaughtNow \/ RunForwardNow
           \/ \E r \in {"value"} \cup Returned : RunValueNow(r)
           \/ \E i, j \in Ctx : RunARetNow(i, j)
    PROVE  Deferred!ChainNext \/ UNCHANGED DeferredVars
<1> SUFFICES ASSUME NEW task, task = TopTask, NEW child, child = Top.child,
                    NEW result, result = Top.result
             PROVE  Deferred!ChainNext \/ UNCHANGED DeferredVars
  OBVIOUS
<1>1. /\ InlineInv /\ TypeInv /\ m_pending \in [Ctx -> States] /\ stack # <<>>
      /\ Returned \subseteq Results /\ "value" \in Results /\ "error" \in Results
      /\ PassedNow(m_pending)
  BY ReturnedAssumption
     DEF DeferredInv, InlineInv, TypeInv, InlineTypeOK, ChainTypeOK, States, Results, PassedNow,
         RunDefaultNow, KeepContext, LeaveKept, RunCaughtNow, RunForwardNow, RunValueNow,
         RunARetNow, Body
<1>2. /\ DeferredPending = Deferring(m_pending, Delivering)
      /\ DeferredPending' = Deferring(m_pending', Delivering')
      /\ DeferredTasks = TasksOf(stack) /\ DeferredTasks' = TasksOf(stack')
      /\ task.child = child /\ task.result = result
  BY <1>1, DeferredIs DEF TopTask
<1>3. /\ child \in Ctx /\ result \in Results /\ child \notin Delivering
      /\ kind[child] = "forward" => outer[child] \in Ctx /\ outer[child] \notin Delivering
      /\ \A l \in {"kept", "returned"} : SameFrames(Move(l))
  <2>1. \A d \in Delivering : /\ child \notin Awaits[d]
                              /\ kind[child] = "forward" => outer[child] \notin Awaits[d]
    BY <1>1, ChildIsAwaited
  <2>2. child \in Ctx /\ result \in Results
    BY <1>1, TopIs
  <2>3. kind[child] = "forward" => outer[child] \in Ctx
    BY <1>1, <2>2 DEF TypeInv, LinksNow
  <2> QED BY <1>1, <2>1, <2>2, <2>3, AwaitsOrder, MoveFrame
<1>4. Top.at = "body" => /\ task \in DeferredTasks
                         /\ TasksOf(Move("kept")) = DeferredTasks \ {task}
                         /\ TasksOf(Move("returned")) = DeferredTasks \ {task}
  BY <1>1, <1>2, TasksMoved
<1>5. Top.at # "body" => TasksOf(Move("returned")) = DeferredTasks
  BY <1>1, <1>2, TasksMoved
<1>6. ASSUME NEW r \in Results, SettleNow(child, r, m_pending, Move("returned"))
      PROVE  Deferred!Settle(child, r, DeferredPending, TasksOf(Move("returned")))
  BY <1>1, <1>2, <1>3, <1>6, DeferredSettle
<1>7. ASSUME Deferred!RunTask(task), task \in DeferredTasks PROVE Deferred!ChainNext
  BY <1>7 DEF Deferred!ChainNext
<1> USE DEF Deferred!pairVars, pairVars, RunsFunctor, Deferred!RunsFunctor
<1>8. CASE RunDefaultNow
  <2>1. /\ Top.at = "body" /\ kind[child] \in {"then", "on_failure"}
        /\ ~RunsFunctor(kind[child], result)
        /\ SettleNow(child, result, m_pending, Move("returned"))
        /\ UNCHANGED <<held, aborted, pairVars>>
    BY <1>8 DEF RunDefaultNow, Body
  <2>2. Deferred!Settle(child, result, DeferredPending, DeferredTasks \ {task})
    BY <1>3, <1>4, <1>6, <2>1
  <2>3. Deferred!RunDefault(task)
    BY <1>2, <2>1, <2>2 DEF Deferred!RunDefault
  <2> QED BY <1>4, <1>7, <2>1, <2>3 DEF Deferred!RunTask
<1>9. ASSUME NEW r \in {"value"} \cup Returned, RunValueNow(r) PROVE Deferred!ChainNext
  <2>1. /\ Top.at = "body" /\ RunsFunctor(kind[child], result) /\ r \in Results
        /\ SettleNow(child, r, m_pending, Move("returned"))
        /\ UNCHANGED <<held, aborted, pairVars>>
    BY <1>1, <1>9 DEF RunValueNow, Body
  <2>2. Deferred!Settle(child, r, DeferredPending, DeferredTasks \ {task})
    BY <1>4, <1>6, <2>1
  <2>3. r = "value" => Deferred!RunSimple(task)
    BY <1>2, <2>1, <2>2 DEF Deferred!RunSimple
  <2>4. Deferred!RunValueOrError(task, r)
    BY <1>2, <2>1, <2>2 DEF Deferred!RunValueOrError
  <2> QED BY <1>4, <1>7, <2>1, <2>3, <2>4 DEF Deferred!RunTask
<1>10. CASE KeepContext
  <2>1. /\ Top.at = "body" /\ RunsFunctor(kind[child], result)
        /\ held' = held \cup {child} /\ stack' = Move("kept")
        /\ UNCHANGED <<m_pending, posts, aborted, pairVars>>
    BY <1>10 DEF KeepContext, Body
  <2>2. Delivering' = Delivering
    BY <1>1, <1>3, <2>1, SameDelivering
  <2>3. Deferred!RunAsync(task)
    BY <1>2, <1>4, <2>1, <2>2 DEF Deferred!RunAsync
  <2> QED BY <1>4, <1>7, <2>1, <2>3 DEF Deferred!RunTask
<1>11. CASE LeaveKept
  <2>1. Top.at # "body" /\ stack' = Move("returned") /\ UNCHANGED chainVars
    BY <1>11 DEF LeaveKept
  <2>2. Delivering' = Delivering
    BY <1>1, <1>3, <2>1, SameDelivering
  <2>3. DeferredPending' = DeferredPending /\ DeferredTasks' = DeferredTasks
    BY <1>2, <1>5, <2>1, <2>2 DEF chainVars
  <2> QED BY <2>1, <2>3 DEF chainVars, DeferredVars
<1>12. CASE RunCaughtNow
  <2>1. /\ InClientCode /\ "error" \in Returned
        /\ SettleNow(child, "error", m_pending, Move("returned"))
        /\ UNCHANGED <<held, aborted, pairVars>>
    BY <1>12 DEF RunCaughtNow
  <2>2. CASE Body /\ RunsFunctor(kind[child], result)
    <3>1. Deferred!Settle(child, "error", DeferredPending, DeferredTasks \ {task})
      BY <1>1, <1>4, <1>6, <2>1, <2>2 DEF Body
    <3>2. Deferred!RunCaught(task)
      BY <1>2, <2>1, <2>2, <3>1 DEF Deferred!RunCaught
    <3> QED BY <1>4, <1>7, <2>2, <3>2 DEF Deferred!RunTask, Body
  <2>3. CASE Top.at = "kept"
    <3>1. child \in held
      BY <1>1, <2>3, TopIs DEF DeferredInv, KeptHeld
    <3>2. Deferred!Settle(child, "error", DeferredPending, DeferredTasks)
      BY <1>1, <1>5, <1>6, <2>1, <2>3
    <3>3. Deferred!AsyncReturn(child, "error")
      BY <2>1, <3>1, <3>2 DEF Deferred!AsyncReturn
    <3> QED BY <1>3, <2>1, <3>3 DEF Deferred!ChainNext, Deferred!ClientCode
  <2> QED BY <1>1, <2>1, <2>2, <2>3 DEF InClientCode
<1>13. ASSUME NEW i \in Ctx, NEW j \in Ctx, RunARetNow(i, j) PROVE Deferred!ChainNext
  <2>1. /\ Top.at = "body" /\ RunsFunctor(kind[child], result)
        /\ Handle(i) /\ Born(i) /\ MayCall("return", {i})
        /\ AttachNow(i, j, "forward", child, Move("returned"))
        /\ UNCHANGED <<held, aborted>>
    BY <1>13 DEF RunARetNow, Body, HandleNow, Handle
  <2>2. i \in Delivering => Done(i)
    BY <1>1, <2>1, MayCallIs, AwaitsOrder
  <2>3. Deferred!Attach(i, j, "forward", child, DeferredTasks \ {task})
    <3>1. SameFrames(Move("returned"))
      BY <1>3
    <3>2. Deferred!Attach(i, j, "forward", child, TasksOf(Move("returned")))
      BY <1>1, <2>1, <2>2, <3>1, DeferredAttach
    <3> QED BY <1>4, <2>1, <3>2
  <2>4. Deferred!Handle(i)
    BY <1>1, <2>1, DeferredSees
  <2>5. Deferred!RunARet(task, i, j)
    BY <1>2, <2>1, <2>3, <2>4 DEF Deferred!RunARet
  <2> QED BY <1>4, <1>7, <2>1, <2>5 DEF Deferred!RunTask
<1>14. CASE RunForwardNow
  <2> SUFFICES ASSUME NEW x, x = outer[child],
                      NEW pend, pend = [m_pending EXCEPT ![child] = "value"]
               PROVE  Deferred!ChainNext
    OBVIOUS
  <2>1. /\ Top.at = "body" /\ kind[child] = "forward"
        /\ SettleNow(x, result, pend, Move("returned"))
        /\ UNCHANGED <<held, aborted, pairVars>>
    BY <1>14 DEF RunForwardNow, Body
  <2>2. x \in Ctx /\ x \notin Delivering
    BY <1>3, <2>1
  <2>3. Born(child)
    BY <1>1, <1>3, <2>1 DEF TypeInv, LinksNow
  <2>4. PassedNow(pend)
    BY <1>1, <1>3, <2>1, <2>3 DEF PassedNow, States, Results
  <2>5. Deferring(pend, Delivering) = [DeferredPending EXCEPT ![child] = "value"]
    BY <1>1, <1>2, <1>3 DEF Deferring
  <2>6. Deferred!Settle(x, result, [DeferredPending EXCEPT ![child] = "value"],
                        DeferredTasks \ {task})
    <3>1. SameFrames(Move("returned"))
      BY <1>3
    <3>2. Deferred!Settle(x, result, Deferring(pend, Delivering), TasksOf(Move("returned")))
      BY <1>1, <1>3, <2>1, <2>2, <2>4, <3>1, DeferredSettle
    <3> QED BY <1>4, <2>1, <2>5, <3>2
  <2>7. Deferred!RunForward(task)
    BY <1>2, <2>1, <2>6 DEF Deferred!RunForward
  <2> QED BY <1>4, <1>7, <2>1, <2>7 DEF Deferred!RunTask
<1> QED BY <1>8, <1>9, <1>10, <1>11, <1>12, <1>13, <1>14

\* The method that posted a functor returns: its context counts as done already.
LEMMA DeferredReturn ==
    ASSUME DeferredInv, TypeInv', ReturnNow
    PROVE  UNCHANGED DeferredVars
<1> SUFFICES ASSUME NEW n, n = Len(stack), NEW p, p = stack[n].ctx
             PROVE  UNCHANGED DeferredVars
  OBVIOUS
<1>1. /\ TypeInv /\ m_pending \in [Ctx -> States] /\ stack \in Seq(Frames)
  BY DEF DeferredInv, InlineInv, TypeInv, InlineTypeOK, ChainTypeOK, States, FramesNow
<1>2. /\ n \in Nat \ {0} /\ stack[n].at = "returned"
      /\ m_pending' = [m_pending EXCEPT ![p] = "done"]
      /\ stack' \in Seq(Frames) /\ Len(stack') = n - 1
      /\ \A m \in 1 .. n - 1 : stack'[m] = stack[m]
      /\ Delivering = Delivering' \cup {p}
      /\ UNCHANGED <<held, tasks, posts, aborted, pairVars>>
  BY <1>1, ReturnPops
<1>3. DeferredPending' = DeferredPending
  BY <1>1, <1>2, DeferredIs DEF Deferring
<1>4. \A m : m \in 1 .. n <=> m \in 1 .. n - 1 \/ m = n
  BY <1>2
<1>5. ASSUME NEW t PROVE t \in TasksOf(stack) <=> t \in TasksOf(stack')
  <2>1. t \in TasksOf(stack') <=>
          \E m \in 1 .. n - 1 : /\ stack'[m].at = "body"
                                /\ t = [child |-> stack'[m].child, result |-> stack'[m].result]
    BY <1>2, TasksAre
  <2>2. t \in TasksOf(stack) <=>
          \E m \in 1 .. n : /\ stack[m].at = "body"
                            /\ t = [child |-> stack[m].child, result |-> stack[m].result]
    BY <1>1, TasksAre
  <2> QED BY <1>2, <1>4, <2>1, <2>2
<1>6. DeferredTasks' = DeferredTasks
  <2>1. \A t : t \in TasksOf(stack) <=> t \in TasksOf(stack')
    BY <1>5
  <2>2. DeferredTasks = TasksOf(stack) /\ DeferredTasks' = TasksOf(stack')
    BY <1>1, DeferredIs
  <2>3. TasksOf(stack) = TasksOf(stack')
    BY <2>1 DEF TasksOf
  <2> QED BY <2>2, <2>3
<1> QED BY <1>2, <1>3, <1>6 DEF DeferredVars

\* Functors that are invoked at once do what functors that are run later could do: with any
\* number of contexts and any depth of nested functors, for a client without reentrant calls.
THEOREM InlineIsDeferred ==
    ASSUME Reentrant = {} PROVE InlineSpec => InlineImplementsOpChain
<1>1. InlineInit => Deferred!ChainInit
  <2> SUFFICES ASSUME InlineInit PROVE Deferred!ChainInit
    OBVIOUS
  <2>1. DeferredPending = m_pending /\ DeferredTasks = {}
    BY DEF InlineInit, DeferredPending, DeferredTasks
  <2> QED BY <2>1 DEF InlineInit, ChainInit, Deferred!ChainInit
<1>2. ASSUME DeferredInv, DeferredInv', [InlineNext]_inlineVars
      PROVE  [Deferred!ChainNext]_(Deferred!chainVars)
  <2> SUFFICES Deferred!ChainNext \/ UNCHANGED DeferredVars
    BY DEF DeferredVars, Deferred!chainVars, Deferred!pairVars, pairVars
  <2>1. TypeInv'
    BY <1>2 DEF DeferredInv, InlineInv
  <2>2. CASE InlineClientCode
    BY <1>2, <2>1, <2>2, DeferredClient, DeferredAbort DEF InlineClientCode, Deferred!ChainNext
  <2>3. CASE \/ RunDefaultNow \/ KeepContext \/ LeaveKept \/ RunCaughtNow \/ RunForwardNow
             \/ \E r \in {"value"} \cup Returned : RunValueNow(r)
             \/ \E i, j \in Ctx : RunARetNow(i, j)
    BY <1>2, <2>1, <2>3, DeferredRun
  <2>4. CASE ReturnNow
    BY <1>2, <2>1, <2>4, DeferredReturn
  <2>5. CASE UNCHANGED inlineVars
    <3>1. DeferredPending' = DeferredPending /\ DeferredTasks' = DeferredTasks
      BY <2>5 DEF inlineVars, chainVars, DeferredPending, DeferredTasks, Delivering
    <3> QED BY <2>5, <3>1 DEF inlineVars, chainVars, DeferredVars
  <2> QED BY <1>2, <2>2, <2>3, <2>4, <2>5 DEF InlineNext
<1> QED BY <1>1, <1>2, DeferredInvariant, PTL
       DEF InlineSpec, InlineImplementsOpChain, Deferred!ChainSpec
=============================================================================
