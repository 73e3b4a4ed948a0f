--------------------------- MODULE Executor_proofs --------------------------
(***************************************************************************)
(* Proofs about the executor, for any number of threads and handlers, any  *)
(* set of threads whose handlers invoke a functor at once, and calls       *)
(* nested to any depth.                                                    *)
(***************************************************************************)
EXTENDS Executor, SequencesExt, SequenceTheorems, TLAPS

\* What holds of the frame f of t; top: f is the innermost one.  Client code runs in a
\* functor, so that only functors have frames above them; whoever has passed the assertion
\* that id is registered can rely on it; a lock_guard belongs to the owner of reg_mutex.
FrameInv(t, f, top) ==
    /\ ~top => f.at = "functor"
    /\ f.guard => f.at \in {"handler", "functor"} /\ reg_mutex = t
    /\ f.at \in {"schedule_execution", "should_sync"} => registry[f.id] # NoImpl
    /\ f.at = "set_impl" => f.impl \in Impls
    /\ f.at = "handler" => f.impl # NoImpl

\* The owner of reg_mutex has locked it in exactly one of its calls.
GuardInv(t) ==
    reg_mutex = t =>
        \E i \in 1 .. Len(stack[t]) :
            /\ stack[t][i].guard
            /\ \A j \in 1 .. Len(stack[t]) : stack[t][j].guard => j = i

ThreadInv(t) ==
    /\ \A i \in 1 .. Len(stack[t]) : FrameInv(t, stack[t][i], i = Len(stack[t]))
    /\ GuardInv(t)

CallInv ==
    /\ registry  \in [Threads -> Impls \cup {NoImpl}]
    /\ this_impl \in [Threads -> Impls \cup {NoImpl}]
    /\ reg_mutex \in Threads \cup {NoThread}
    /\ stack     \in [Threads -> Seq(Frames)]
    /\ waiting   \subseteq Threads
    /\ \A t \in Threads : ThreadInv(t)

\* What holds in addition when set_impl() is only called for the calling thread.  Outside of
\* set_impl() a thread finds the same handler in both places, so schedule_execution() locks
\* reg_mutex for the handler of another thread only, and such a handler defers.
OwnFrameInv(t, f) ==
    /\ f.at = "set_impl" => f.id = t /\ f.impl = this_impl[t]
    /\ (f.at = "schedule_execution" /\ f.id # t) => f.id \notin AtOnce
    /\ f.guard => f.at = "handler" /\ f.id \notin AtOnce

OwnThreadInv(t) ==
    /\ \A i \in 1 .. Len(stack[t]) : OwnFrameInv(t, stack[t][i])
    /\ (\A i \in 1 .. Len(stack[t]) : stack[t][i].at # "set_impl")
         => this_impl[t] = registry[t]

OwnInv == \A t \in Threads : OwnThreadInv(t)
-----------------------------------------------------------------------------
(* The stacks: the calls that a thread has open, the innermost one last.   *)

\* The innermost frame is a frame, the one at the last position.
LEMMA TopFrame ==
    ASSUME NEW S, NEW s \in Seq(S), s # <<>>
    PROVE  /\ Len(s) \in Nat \ {0}
           /\ Last(s) = s[Len(s)]
           /\ Last(s) \in S
<1>1. Len(s) \in Nat \ {0}
  BY EmptySeq
<1>2. s[Len(s)] \in S
  BY <1>1, ElementOfSeq
<1> QED BY <1>1, <1>2 DEF Last

\* A call adds one frame and keeps the others where they are.
LEMMA PushFrame ==
    ASSUME NEW S, NEW s \in Seq(S), NEW e \in S
    PROVE  /\ Append(s, e) \in Seq(S)
           /\ Append(s, e) # <<>>
           /\ Len(s) \in Nat
           /\ Len(Append(s, e)) = Len(s) + 1
           /\ \A i \in 1 .. Len(s) : Append(s, e)[i] = s[i]
           /\ Append(s, e)[Len(s) + 1] = e
BY AppendProperties, LenProperties

\* A return removes the innermost frame and keeps the others.
LEMMA PopFrame ==
    ASSUME NEW S, NEW s \in Seq(S), s # <<>>
    PROVE  /\ Front(s) \in Seq(S)
           /\ Len(s) \in Nat \ {0}
           /\ Len(Front(s)) = Len(s) - 1
           /\ \A i \in 1 .. Len(s) - 1 : Front(s)[i] = s[i]
<1>1. Len(s) \in Nat \ {0}
  BY EmptySeq
<1>2. \A i \in 1 .. Len(s) - 1 : s[i] \in S
  BY <1>1, ElementOfSeq
<1> DEFINE n == Len(s) - 1
<1>3. /\ n \in Nat
      /\ ~(1 <= n) => n = 0
      /\ n - 1 + 1 = n
  <2>1. ASSUME NEW k \in Nat \ {0}
        PROVE  /\ k - 1 \in Nat
               /\ ~(1 <= k - 1) => k - 1 = 0
               /\ k - 1 - 1 + 1 = k - 1
    OBVIOUS
  <2> QED BY <1>1, <2>1
<1>4. /\ SubSeq(s, 1, n) \in Seq(S)
      /\ Len(SubSeq(s, 1, n)) = IF 1 <= n THEN n - 1 + 1 ELSE 0
      /\ \A i \in 1 .. n - 1 + 1 : SubSeq(s, 1, n)[i] = s[1 + i - 1]
  <2> HIDE DEF n
  <2> QED BY <1>2, <1>3, SubSeqProperties DEF n
<1>5. Len(SubSeq(s, 1, n)) = n
  BY <1>3, <1>4
<1>6. \A i \in 1 .. n : SubSeq(s, 1, n)[i] = s[i]
  <2> HIDE DEF n
  <2> QED BY <1>3, <1>4
<1> QED BY <1>1, <1>4, <1>5, <1>6 DEF Front

\* A call that becomes another one replaces the innermost frame.
LEMMA ReplaceFrame ==
    ASSUME NEW S, NEW s \in Seq(S), s # <<>>, NEW e \in S
    PROVE  /\ Append(Front(s), e) \in Seq(S)
           /\ Append(Front(s), e) # <<>>
           /\ Len(s) \in Nat \ {0}
           /\ Len(Append(Front(s), e)) = Len(s)
           /\ \A i \in 1 .. Len(s) :
                Append(Front(s), e)[i] = IF i = Len(s) THEN e ELSE s[i]
<1>1. /\ Front(s) \in Seq(S)
      /\ Len(s) \in Nat \ {0}
      /\ Len(Front(s)) = Len(s) - 1
      /\ \A i \in 1 .. Len(s) - 1 : Front(s)[i] = s[i]
  BY PopFrame
<1>2. /\ Append(Front(s), e) \in Seq(S)
      /\ Append(Front(s), e) # <<>>
      /\ Len(Append(Front(s), e)) = Len(s) - 1 + 1
      /\ \A i \in 1 .. Len(s) - 1 : Append(Front(s), e)[i] = Front(s)[i]
      /\ Append(Front(s), e)[Len(s) - 1 + 1] = e
  BY <1>1, PushFrame
<1> QED BY <1>1, <1>2

\* The frames of a stack are its elements.
LEMMA FramesOf ==
    ASSUME NEW S, NEW s \in Seq(S)
    PROVE  /\ Range(s) \subseteq S
           /\ \A f : f \in Range(s) <=> \E i \in 1 .. Len(s) : f = s[i]
BY RangeOfSeq, RangeEquality

\* What a call does to the stacks: the thread has one frame more.
LEMMA Pushed ==
    ASSUME CallInv, NEW t \in Threads, NEW f \in Frames, Push(t, f)
    PROVE  /\ stack' \in [Threads -> Seq(Frames)]
           /\ \A u \in Threads \ {t} : stack'[u] = stack[u]
           /\ Len(stack[t]) \in Nat
           /\ Len(stack'[t]) = Len(stack[t]) + 1
           /\ \A i \in 1 .. Len(stack[t]) : stack'[t][i] = stack[t][i]
           /\ stack'[t][Len(stack[t]) + 1] = f
<1>1. stack \in [Threads -> Seq(Frames)] /\ stack[t] \in Seq(Frames)
  BY DEF CallInv
<1>2. stack'[t] = Append(stack[t], f) /\ \A u \in Threads \ {t} : stack'[u] = stack[u]
  BY <1>1 DEF Push
<1>3. Append(stack[t], f) \in Seq(Frames)
  BY <1>1, PushFrame
<1>4. stack' \in [Threads -> Seq(Frames)]
  BY <1>1, <1>3 DEF Push
<1> QED BY <1>1, <1>2, <1>4, PushFrame

\* What a return does to them: the innermost frame of the thread is gone.
LEMMA Popped ==
    ASSUME CallInv, NEW t \in Threads, stack[t] # <<>>, Pop(t)
    PROVE  /\ stack' \in [Threads -> Seq(Frames)]
           /\ \A u \in Threads \ {t} : stack'[u] = stack[u]
           /\ Len(stack[t]) \in Nat \ {0}
           /\ Len(stack'[t]) = Len(stack[t]) - 1
           /\ \A i \in 1 .. Len(stack[t]) - 1 : stack'[t][i] = stack[t][i]
<1>1. stack \in [Threads -> Seq(Frames)] /\ stack[t] \in Seq(Frames)
  BY DEF CallInv
<1>2. stack'[t] = Front(stack[t]) /\ \A u \in Threads \ {t} : stack'[u] = stack[u]
  BY <1>1 DEF Pop
<1>3. Front(stack[t]) \in Seq(Frames)
  BY <1>1, PopFrame
<1>4. stack' \in [Threads -> Seq(Frames)]
  BY <1>1, <1>3 DEF Pop
<1> QED BY <1>1, <1>2, <1>4, PopFrame

\* What the next part of a call does to them: the innermost frame is another one.
LEMMA Replaced ==
    ASSUME CallInv, NEW t \in Threads, stack[t] # <<>>, NEW f \in Frames, Replace(t, f)
    PROVE  /\ stack' \in [Threads -> Seq(Frames)]
           /\ \A u \in Threads \ {t} : stack'[u] = stack[u]
           /\ Len(stack[t]) \in Nat \ {0}
           /\ Len(stack'[t]) = Len(stack[t])
           /\ \A i \in 1 .. Len(stack[t]) - 1 : stack'[t][i] = stack[t][i]
           /\ stack'[t][Len(stack[t])] = f
<1>1. stack \in [Threads -> Seq(Frames)] /\ stack[t] \in Seq(Frames)
  BY DEF CallInv
<1>2. /\ stack'[t] = Append(Front(stack[t]), f)
      /\ \A u \in Threads \ {t} : stack'[u] = stack[u]
  BY <1>1 DEF Replace
<1>3. Append(Front(stack[t]), f) \in Seq(Frames)
  BY <1>1, ReplaceFrame
<1>4. stack' \in [Threads -> Seq(Frames)]
  BY <1>1, <1>3 DEF Replace
<1>5. /\ Len(stack[t]) \in Nat \ {0}
      /\ Len(stack'[t]) = Len(stack[t])
      /\ \A i \in 1 .. Len(stack[t]) : stack'[t][i] = IF i = Len(stack[t]) THEN f ELSE stack[t][i]
  BY <1>1, <1>2, ReplaceFrame
<1>6. /\ \A i \in 1 .. Len(stack[t]) - 1 : stack'[t][i] = stack[t][i]
      /\ stack'[t][Len(stack[t])] = f
  BY <1>5
<1> QED BY <1>2, <1>4, <1>5, <1>6

\* The innermost frame of a thread that is in some call.
LEMMA Innermost ==
    ASSUME CallInv, NEW t \in Threads, stack[t] # <<>>
    PROVE  /\ Len(stack[t]) \in Nat \ {0}
           /\ Last(stack[t]) = stack[t][Len(stack[t])]
           /\ Last(stack[t]) \in Frames
           /\ FrameInv(t, Last(stack[t]), TRUE)
<1>1. stack[t] \in Seq(Frames) /\ ThreadInv(t)
  BY DEF CallInv
<1>2. /\ Len(stack[t]) \in Nat \ {0}
      /\ Last(stack[t]) = stack[t][Len(stack[t])]
      /\ Last(stack[t]) \in Frames
  BY <1>1, TopFrame
<1>3. FrameInv(t, stack[t][Len(stack[t])], Len(stack[t]) = Len(stack[t]))
  BY <1>1, <1>2 DEF ThreadInv
<1> QED BY <1>2, <1>3 DEF FrameInv

\* A step of another thread that leaves the entries of the registry filled and does not
\* change whether u owns reg_mutex keeps what holds of u.
LEMMA OtherThread ==
    ASSUME NEW u \in Threads, ThreadInv(u), stack[u] \in Seq(Frames),
           stack'[u] = stack[u],
           \A id \in Threads : registry[id] # NoImpl => registry'[id] # NoImpl,
           reg_mutex' = u <=> reg_mutex = u
    PROVE  ThreadInv(u)'
<1>1. ASSUME NEW i \in 1 .. Len(stack[u]) PROVE stack[u][i].id \in Threads
  <2>1. stack[u][i] \in Frames
    BY ElementOfSeq
  <2> QED BY <2>1 DEF Frames
<1>2. ASSUME NEW i \in 1 .. Len(stack[u])
      PROVE  FrameInv(u, stack[u][i], i = Len(stack[u]))'
  BY <1>1, <1>2 DEF ThreadInv, FrameInv
<1>3. GuardInv(u)'
  BY DEF ThreadInv, GuardInv
<1> QED BY <1>2, <1>3 DEF ThreadInv
-----------------------------------------------------------------------------
(* The steps.                                                              *)

\* The invariant holds when no thread is in a call.
LEMMA InitCall == Init => CallInv
<1> SUFFICES ASSUME Init PROVE CallInv
  OBVIOUS
<1>1. stack \in [Threads -> Seq(Frames)] /\ \A t \in Threads : Len(stack[t]) = 0
  BY EmptySeq DEF Init
<1>2. \A t \in Threads : ThreadInv(t)
  BY <1>1, NullAssumption DEF Init, ThreadInv, FrameInv, GuardInv
<1> QED BY <1>1, <1>2 DEF Init, CallInv

\* A new call, by client code, which runs in a functor or outside of all calls.
LEMMA CallFromClient ==
    ASSUME CallInv, NEW t \in Threads, RunsClientCode(t), NEW f \in Frames, Push(t, f),
           UNCHANGED <<registry, reg_mutex>>,
           ~f.guard,
           f.at \in {"schedule_execution", "should_sync"} => registry[f.id] # NoImpl,
           f.at = "set_impl" => f.impl \in Impls,
           f.at # "handler"
    PROVE  /\ stack' \in [Threads -> Seq(Frames)]
           /\ \A u \in Threads : ThreadInv(u)'
<1>1. /\ stack' \in [Threads -> Seq(Frames)]
      /\ \A u \in Threads \ {t} : stack'[u] = stack[u]
      /\ Len(stack[t]) \in Nat
      /\ Len(stack'[t]) = Len(stack[t]) + 1
      /\ \A i \in 1 .. Len(stack[t]) : stack'[t][i] = stack[t][i]
      /\ stack'[t][Len(stack[t]) + 1] = f
  BY Pushed
<1>2. \A u \in Threads \ {t} : ThreadInv(u)'
  BY <1>1, OtherThread DEF CallInv
<1>3. ThreadInv(t)
  BY DEF CallInv
<1>4. ASSUME NEW i \in 1 .. Len(stack[t])
      PROVE  stack[t][i].at = "functor"
  <2>1. stack[t] # <<>>
    BY <1>4, EmptySeq, SMT DEF CallInv
  <2>2. Last(stack[t]).at = "functor"
    BY <2>1 DEF RunsClientCode, In
  <2> QED BY <1>3, <2>1, <2>2, Innermost DEF ThreadInv, FrameInv
<1>5. ASSUME NEW i \in 1 .. Len(stack'[t])
      PROVE  FrameInv(t, stack[t][i], i = Len(stack[t]))'
  <2>1. CASE i \in 1 .. Len(stack[t])
    <3>1. FrameInv(t, stack[t][i], i = Len(stack[t]))
      BY <1>3, <2>1 DEF ThreadInv
    <3> QED BY <1>1, <1>4, <2>1, <3>1 DEF FrameInv
  <2>2. CASE i = Len(stack[t]) + 1
    BY <1>1, <2>2 DEF FrameInv
  <2> QED BY <1>1, <2>1, <2>2
<1>6. GuardInv(t)'
  <2> SUFFICES ASSUME reg_mutex = t
               PROVE  GuardInv(t)'
    BY DEF GuardInv
  <2>1. PICK i \in 1 .. Len(stack[t]) :
          /\ stack[t][i].guard
          /\ \A j \in 1 .. Len(stack[t]) : stack[t][j].guard => j = i
    BY <1>3 DEF ThreadInv, GuardInv
  <2>2. i \in 1 .. Len(stack'[t]) /\ stack'[t][i].guard
    BY <1>1, <2>1
  <2>3. ASSUME NEW j \in 1 .. Len(stack'[t]), stack'[t][j].guard
        PROVE  j = i
    <3>1. j # Len(stack[t]) + 1
      BY <1>1, <2>3
    <3>2. j \in 1 .. Len(stack[t])
      BY <1>1, <3>1
    <3> QED BY <1>1, <2>1, <2>3, <3>2
  <2> QED BY <2>2, <2>3 DEF GuardInv
<1> QED BY <1>1, <1>2, <1>5, <1>6 DEF ThreadInv

\* A return, to a functor or to the loop, gives reg_mutex back if the frame had locked it.
LEMMA ReturnFromCall ==
    ASSUME CallInv, NEW t \in Threads, stack[t] # <<>>, Return(t),
           \A id \in Threads : registry[id] # NoImpl => registry'[id] # NoImpl
    PROVE  /\ stack' \in [Threads -> Seq(Frames)]
           /\ reg_mutex' \in Threads \cup {NoThread}
           /\ \A u \in Threads : ThreadInv(u)'
<1> DEFINE n == Len(stack[t])
<1>1. /\ stack' \in [Threads -> Seq(Frames)]
      /\ \A u \in Threads \ {t} : stack'[u] = stack[u]
      /\ n \in Nat \ {0}
      /\ Len(stack'[t]) = n - 1
      /\ \A i \in 1 .. n - 1 : stack'[t][i] = stack[t][i]
  BY Popped DEF Return
<1>2. /\ Last(stack[t]) = stack[t][n]
      /\ Last(stack[t]) \in Frames
      /\ FrameInv(t, Last(stack[t]), TRUE)
  BY Innermost
<1>3. /\ reg_mutex' = IF Last(stack[t]).guard THEN NoThread ELSE reg_mutex
      /\ Last(stack[t]).guard => reg_mutex = t
      /\ Last(stack[t]).guard \in BOOLEAN
  BY <1>2 DEF Return, FrameInv, Frames
<1>4. ThreadInv(t) /\ reg_mutex \in Threads \cup {NoThread}
  BY DEF CallInv
<1>5. \A u \in Threads \ {t} : reg_mutex' = u <=> reg_mutex = u
  BY <1>3, NullAssumption
<1>6. \A u \in Threads \ {t} : ThreadInv(u)'
  BY <1>1, <1>5, OtherThread DEF CallInv
<1>7. ASSUME NEW i \in 1 .. n - 1
      PROVE  /\ stack[t][i].at = "functor"
             /\ stack[t][i].guard => reg_mutex = t /\ ~Last(stack[t]).guard
  <2>1. i \in 1 .. n /\ n \in 1 .. n /\ i # n
    BY <1>1, <1>7
  <2>2. FrameInv(t, stack[t][i], i = n)
    BY <1>4, <2>1 DEF ThreadInv
  <2>3. stack[t][i].at = "functor" /\ (stack[t][i].guard => reg_mutex = t)
    BY <2>1, <2>2 DEF FrameInv
  <2>4. ~(stack[t][i].guard /\ stack[t][n].guard)
    BY <1>4, <2>1, <2>3 DEF ThreadInv, GuardInv
  <2> QED BY <1>2, <2>3, <2>4
<1>8. ASSUME NEW i \in 1 .. Len(stack'[t])
      PROVE  FrameInv(t, stack[t][i], i = Len(stack[t]))'
  <2>1. i \in 1 .. n - 1 /\ stack'[t][i] = stack[t][i]
    BY <1>1, <1>8
  <2> QED BY <1>3, <1>7, <2>1 DEF FrameInv
<1>9. GuardInv(t)'
  <2> SUFFICES ASSUME reg_mutex' = t PROVE GuardInv(t)'
    BY DEF GuardInv
  <2>1. reg_mutex = t /\ ~Last(stack[t]).guard
    BY <1>3, NullAssumption
  <2>2. PICK i \in 1 .. n :
          /\ stack[t][i].guard
          /\ \A j \in 1 .. n : stack[t][j].guard => j = i
    BY <1>4, <2>1 DEF ThreadInv, GuardInv
  <2>3. i \in 1 .. n - 1
    BY <1>1, <1>2, <2>1, <2>2
  <2>4. /\ i \in 1 .. Len(stack'[t]) /\ stack'[t][i].guard
        /\ \A j \in 1 .. Len(stack'[t]) : stack'[t][j].guard => j = i
    BY <1>1, <2>2, <2>3
  <2> QED BY <2>4 DEF GuardInv
<1> QED BY <1>1, <1>3, <1>4, <1>6, <1>8, <1>9 DEF ThreadInv

\* The next part of a call, in the place of the last one.
LEMMA NextPartOfCall ==
    ASSUME CallInv, NEW t \in Threads, stack[t] # <<>>,
           NEW f \in Frames, Replace(t, f),
           UNCHANGED registry,
           NEW g \in BOOLEAN, g = f.guard,
           \/ g = Last(stack[t]).guard /\ UNCHANGED reg_mutex
           \/ reg_mutex = NoThread /\ reg_mutex' = t /\ g,
           f.at = "functor" \/ (f.at = "handler" /\ f.impl # NoImpl)
    PROVE  /\ stack' \in [Threads -> Seq(Frames)]
           /\ \A u \in Threads : ThreadInv(u)'
<1> DEFINE n == Len(stack[t])
<1>1. /\ stack' \in [Threads -> Seq(Frames)]
      /\ \A u \in Threads \ {t} : stack'[u] = stack[u]
      /\ n \in Nat \ {0}
      /\ Len(stack'[t]) = n
      /\ \A i \in 1 .. n - 1 : stack'[t][i] = stack[t][i]
      /\ stack'[t][n] = f
  BY Replaced
<1>2. /\ Last(stack[t]) = stack[t][n]
      /\ Last(stack[t]).guard \in BOOLEAN
      /\ Last(stack[t]).guard => reg_mutex = t
  BY Innermost DEF FrameInv, Frames
<1>3. ThreadInv(t)
  BY DEF CallInv
<1>4. \A u \in Threads \ {t} : reg_mutex' = u <=> reg_mutex = u
  BY NullAssumption
<1>5. \A u \in Threads \ {t} : ThreadInv(u)'
  BY <1>1, <1>4, OtherThread DEF CallInv
<1>6. ASSUME NEW i \in 1 .. n - 1
      PROVE  stack[t][i].at = "functor" /\ (stack[t][i].guard => reg_mutex = t)
  <2>1. i \in 1 .. n /\ i # n
    BY <1>1
  <2> QED BY <1>3, <2>1 DEF ThreadInv, FrameInv
<1>7. ASSUME NEW i \in 1 .. Len(stack'[t])
      PROVE  FrameInv(t, stack[t][i], i = Len(stack[t]))'
  <2>1. CASE i \in 1 .. n - 1
    <3>1. stack'[t][i] = stack[t][i]
      BY <1>1, <2>1
    <3>2. stack[t][i].guard => reg_mutex' = t
      BY <1>6, <2>1, NullAssumption
    <3> QED BY <1>6, <2>1, <3>1, <3>2 DEF FrameInv
  <2>2. CASE i = n
    BY <1>1, <1>2, <2>2 DEF FrameInv
  <2> QED BY <1>1, <2>1, <2>2
<1>8. GuardInv(t)'
  <2> SUFFICES ASSUME reg_mutex' = t PROVE GuardInv(t)'
    BY DEF GuardInv
  <2>1. CASE reg_mutex = t
    <3>1. PICK i \in 1 .. n :
            /\ stack[t][i].guard
            /\ \A j \in 1 .. n : stack[t][j].guard => j = i
      BY <1>3, <2>1 DEF ThreadInv, GuardInv
    <3>2. g = Last(stack[t]).guard
      BY <2>1, NullAssumption
    <3>3. ASSUME NEW j \in 1 .. n PROVE stack'[t][j].guard = stack[t][j].guard
      <4>1. CASE j = n
        BY <1>1, <1>2, <3>2, <4>1
      <4>2. CASE j # n
        <5>1. j \in 1 .. n - 1
          BY <1>1, <4>2
        <5> QED BY <1>1, <5>1
      <4> QED BY <4>1, <4>2
    <3> QED BY <1>1, <3>1, <3>3 DEF GuardInv
  <2>2. CASE reg_mutex = NoThread
    <3>1. g
      BY <2>2, NullAssumption
    <3>2. \A j \in 1 .. n - 1 : ~stack[t][j].guard
      BY <1>6, <2>2, NullAssumption
    <3>3. n \in 1 .. n /\ stack'[t][n].guard
      BY <1>1, <3>1
    <3>4. \A j \in 1 .. n : stack'[t][j].guard => j = n
      BY <1>1, <3>2
    <3> QED BY <1>1, <3>3, <3>4 DEF GuardInv
  <2> QED BY <2>1, <2>2
<1> QED BY <1>1, <1>5, <1>7, <1>8 DEF ThreadInv

\* Every call of the executor, every handler, functor and turn of a loop keeps CallInv.
LEMMA CallStep == CallInv /\ [Next]_vars => CallInv'
<1> SUFFICES ASSUME CallInv, [Next]_vars
             PROVE  CallInv'
  OBVIOUS
<1> USE DEF Methods
<1>0. /\ registry  \in [Threads -> Impls \cup {NoImpl}]
      /\ this_impl \in [Threads -> Impls \cup {NoImpl}]
      /\ reg_mutex \in Threads \cup {NoThread}
      /\ waiting   \subseteq Threads
  BY DEF CallInv
<1>1. ASSUME NEW t \in Threads, NEW method \in {"schedule_execution", "should_sync"},
             NEW id \in Threads, Use(t, method, id)
      PROVE  CallInv'
  <2> DEFINE f == Frame(method, id, NoImpl, FALSE)
  <2>1. f \in Frames /\ f.at = method /\ f.id = id /\ f.impl = NoImpl /\ f.guard = FALSE
    BY DEF Frame, Frames
  <2>2. RunsClientCode(t) /\ Push(t, f) /\ registry[id] # NoImpl
    BY <1>1 DEF Use
  <2>3. UNCHANGED <<registry, this_impl, reg_mutex, waiting>>
    BY <1>1 DEF Use
  <2> HIDE DEF f
  <2>4. stack' \in [Threads -> Seq(Frames)] /\ \A u \in Threads : ThreadInv(u)'
    BY <2>1, <2>2, <2>3, CallFromClient
  <2> QED BY <1>0, <2>3, <2>4 DEF CallInv
<1>2. ASSUME NEW t \in Threads, NEW id \in Threads, NEW impl \in Impls,
             SetThisImpl(t, id, impl)
      PROVE  CallInv'
  <2> DEFINE f == Frame("set_impl", id, impl, FALSE)
  <2>1. f \in Frames /\ f.at = "set_impl" /\ f.impl = impl /\ f.guard = FALSE
    BY DEF Frame, Frames
  <2>2. RunsClientCode(t) /\ Push(t, f) /\ UNCHANGED <<registry, reg_mutex, waiting>>
    BY <1>2 DEF SetThisImpl
  <2>3. this_impl' \in [Threads -> Impls \cup {NoImpl}]
    BY <1>0, <1>2 DEF SetThisImpl
  <2> HIDE DEF f
  <2>4. stack' \in [Threads -> Seq(Frames)] /\ \A u \in Threads : ThreadInv(u)'
    BY <2>1, <2>2, CallFromClient
  <2> QED BY <1>0, <2>2, <2>3, <2>4 DEF CallInv
<1>3. ASSUME NEW t \in Threads, SetRegistry(t)
      PROVE  CallInv'
  <2>1. stack[t] # <<>> /\ Last(stack[t]).at = "set_impl" /\ Pop(t)
    BY <1>3 DEF SetRegistry, In
  <2>2. Last(stack[t]).impl \in Impls /\ Last(stack[t]).id \in Threads
        /\ Last(stack[t]).guard = FALSE
    BY <2>1, Innermost DEF FrameInv, Frames
  <2>3. /\ registry' = [registry EXCEPT ![Last(stack[t]).id] = Last(stack[t]).impl]
        /\ UNCHANGED <<this_impl, reg_mutex, waiting>>
    BY <1>3 DEF SetRegistry
  <2>4. registry' \in [Threads -> Impls \cup {NoImpl}]
        /\ \A id \in Threads : registry[id] # NoImpl => registry'[id] # NoImpl
    BY <1>0, <2>2, <2>3, NullAssumption
  <2>5. Return(t)
    BY <2>1, <2>2, <2>3 DEF Return
  <2>6. stack' \in [Threads -> Seq(Frames)] /\ \A u \in Threads : ThreadInv(u)'
    BY <2>1, <2>4, <2>5, ReturnFromCall
  <2> QED BY <1>0, <2>3, <2>4, <2>6 DEF CallInv
<1>4. ASSUME NEW t \in Threads, ShouldSync(t)
      PROVE  CallInv'
  <2>1. stack[t] # <<>> /\ Last(stack[t]).at = "should_sync" /\ Pop(t)
        /\ UNCHANGED <<registry, this_impl, reg_mutex, waiting>>
    BY <1>4 DEF ShouldSync, In
  <2>2. Last(stack[t]).guard = FALSE
    BY <2>1, Innermost DEF FrameInv, Frames
  <2>3. Return(t)
    BY <2>1, <2>2 DEF Return
  <2>4. stack' \in [Threads -> Seq(Frames)] /\ \A u \in Threads : ThreadInv(u)'
    BY <2>1, <2>3, ReturnFromCall
  <2> QED BY <1>0, <2>1, <2>4 DEF CallInv
<1>5. ASSUME NEW t \in Threads, ScheduleExecution(t)
      PROVE  CallInv'
  <2> DEFINE id == Last(stack[t]).id
  <2>1. stack[t] # <<>> /\ Last(stack[t]).at = "schedule_execution"
        /\ UNCHANGED <<registry, this_impl, waiting>>
    BY <1>5 DEF ScheduleExecution, In
  <2>2. id \in Threads /\ registry[id] # NoImpl /\ Last(stack[t]).guard = FALSE
    BY <2>1, Innermost DEF FrameInv, Frames
  <2>3. CASE Cached(t, id) /\ Replace(t, Frame("handler", id, this_impl[t], FALSE))
             /\ UNCHANGED reg_mutex
    <3> DEFINE f == Frame("handler", id, this_impl[t], FALSE)
    <3>1. f \in Frames /\ f.at = "handler" /\ f.impl = this_impl[t] /\ f.guard = FALSE
      BY <1>0, <2>2 DEF Frame, Frames
    <3>2. f.impl # NoImpl
      BY <2>3, <3>1 DEF Cached
    <3>3. Replace(t, f) /\ UNCHANGED reg_mutex
      BY <2>3
    <3> HIDE DEF f
    <3>4. stack' \in [Threads -> Seq(Frames)] /\ \A u \in Threads : ThreadInv(u)'
      BY <2>1, <2>2, <3>1, <3>2, <3>3, NextPartOfCall
    <3> QED BY <1>0, <2>1, <2>3, <3>4 DEF CallInv
  <2>4. CASE reg_mutex = NoThread /\ reg_mutex' = t
             /\ Replace(t, Frame("handler", id, registry[id], TRUE))
    <3> DEFINE f == Frame("handler", id, registry[id], TRUE)
    <3>1. f \in Frames /\ f.at = "handler" /\ f.impl = registry[id] /\ f.guard = TRUE
      BY <1>0, <2>2 DEF Frame, Frames
    <3>2. Replace(t, f)
      BY <2>4
    <3> HIDE DEF f
    <3>3. stack' \in [Threads -> Seq(Frames)] /\ \A u \in Threads : ThreadInv(u)'
      BY <2>1, <2>2, <2>4, <3>1, <3>2, NextPartOfCall
    <3> QED BY <1>0, <2>1, <2>4, <3>3 DEF CallInv
  <2> QED BY <1>5, <2>3, <2>4 DEF ScheduleExecution
<1>6. ASSUME NEW t \in Threads, Handle(t)
      PROVE  CallInv'
  <2> DEFINE g == Last(stack[t])
             f == Frame("functor", g.id, g.impl, g.guard)
  <2>1. stack[t] # <<>> /\ g.at = "handler" /\ UNCHANGED <<registry, this_impl>>
    BY <1>6 DEF Handle, In
  <2>2. /\ g.id \in Threads
        /\ g.impl \in Impls \cup {NoImpl}
        /\ g.guard \in BOOLEAN
    BY <2>1, Innermost DEF Frames
  <2>3. CASE waiting' = waiting \cup {g.id} /\ Return(t)
    <3>1. /\ stack' \in [Threads -> Seq(Frames)]
          /\ reg_mutex' \in Threads \cup {NoThread}
          /\ \A u \in Threads : ThreadInv(u)'
      BY <2>1, <2>3, ReturnFromCall
    <3> QED BY <1>0, <2>1, <2>2, <2>3, <3>1 DEF CallInv
  <2>4. CASE Replace(t, f) /\ UNCHANGED <<waiting, reg_mutex>>
    <3>1. f \in Frames /\ f.at = "functor" /\ f.guard = g.guard
      BY <2>2 DEF Frame, Frames
    <3>2. Replace(t, f)
      BY <2>4
    <3> HIDE DEF f
    <3>3. stack' \in [Threads -> Seq(Frames)] /\ \A u \in Threads : ThreadInv(u)'
      BY <2>1, <2>2, <2>4, <3>1, <3>2, NextPartOfCall
    <3> QED BY <1>0, <2>1, <2>4, <3>3 DEF CallInv
  <2> QED BY <1>6, <2>3, <2>4 DEF Handle
<1>7. ASSUME NEW t \in Threads, RunDeferred(t)
      PROVE  CallInv'
  <2> DEFINE f == Frame("functor", t, NoImpl, FALSE)
  <2>1. f \in Frames /\ f.at = "functor" /\ f.guard = FALSE
    BY DEF Frame, Frames
  <2>2. RunsClientCode(t) /\ Push(t, f) /\ UNCHANGED <<registry, this_impl, reg_mutex>>
        /\ waiting' \subseteq Threads
    BY <1>0, <1>7 DEF RunDeferred, RunsClientCode
  <2> HIDE DEF f
  <2>3. stack' \in [Threads -> Seq(Frames)] /\ \A u \in Threads : ThreadInv(u)'
    BY <2>1, <2>2, CallFromClient
  <2> QED BY <1>0, <2>2, <2>3 DEF CallInv
<1>8. ASSUME NEW t \in Threads, DropDeferred(t)
      PROVE  CallInv'
  <2>1. /\ UNCHANGED <<registry, this_impl, reg_mutex, stack>>
        /\ waiting' \subseteq Threads
    BY <1>0, <1>8 DEF DropDeferred
  <2>2. \A u \in Threads : ThreadInv(u)'
    BY <2>1, OtherThread DEF CallInv
  <2> QED BY <1>0, <2>1, <2>2 DEF CallInv
<1>9. ASSUME NEW t \in Threads, FunctorReturns(t)
      PROVE  CallInv'
  <2>1. stack[t] # <<>> /\ Return(t) /\ UNCHANGED <<registry, this_impl, waiting>>
    BY <1>9 DEF FunctorReturns, In
  <2>2. /\ stack' \in [Threads -> Seq(Frames)]
        /\ reg_mutex' \in Threads \cup {NoThread}
        /\ \A u \in Threads : ThreadInv(u)'
    BY <2>1, ReturnFromCall
  <2> QED BY <1>0, <2>1, <2>2 DEF CallInv
<1>10. CASE UNCHANGED vars
  <2>1. \A u \in Threads : ThreadInv(u)'
    BY <1>10, OtherThread DEF vars, CallInv
  <2> QED BY <1>10, <2>1 DEF vars, CallInv
<1> QED
  BY <1>1, <1>2, <1>3, <1>4, <1>5, <1>6, <1>7, <1>8, <1>9, <1>10 DEF Next

\* In every behaviour the frames of each thread are calls of the executor nested as the code
\* nests them, and reg_mutex belongs to the frame that holds a guard.
THEOREM CallInvariant == Spec => []CallInv
<1>1. Init => CallInv
  BY InitCall
<1>2. CallInv /\ [Next]_vars => CallInv'
  BY CallStep
<1> QED BY <1>1, <1>2, PTL DEF Spec

\* What the frames of a thread say, without positions.
LEMMA FramesOfThread ==
    ASSUME CallInv, NEW t \in Threads
    PROVE  /\ Range(stack[t]) \subseteq Frames
           /\ \A f : f \in Range(stack[t]) <=> \E i \in 1 .. Len(stack[t]) : f = stack[t][i]
<1>1. stack[t] \in Seq(Frames)
  BY DEF CallInv
<1> QED BY <1>1, FramesOf

\* The registry, the thread-locals and the frames of every call have their types, and a
\* handler that is running is one: schedule_execution() never calls through an entry of the
\* registry that is missing, whichever thread filled it and whenever.
THEOREM ExecutorTypeOK == Spec => []TypeOK
<1>1. CallInv => TypeOK
  <2> SUFFICES ASSUME CallInv PROVE TypeOK
    OBVIOUS
  <2>1. ASSUME NEW t \in Threads
        PROVE  /\ Range(stack[t]) \subseteq Frames
               /\ In(t, "handler") => Last(stack[t]).impl # NoImpl
    BY <2>1, FramesOfThread, Innermost DEF In, FrameInv
  <2> QED BY <2>1 DEF CallInv, TypeOK
<1> QED BY <1>1, CallInvariant, PTL

\* reg_mutex is owned by a thread exactly while one of its calls of schedule_execution() is
\* between the lock_guard and the return of the handler, however deep the functors that the
\* handler invokes at once have called the executor again: it is never leaked, and never
\* given back by a call that has not locked it.
THEOREM MutexOwnedInCall == Spec => []OwnedInCall
<1>1. CallInv => OwnedInCall
  <2> SUFFICES ASSUME CallInv, NEW t \in Threads
               PROVE  reg_mutex = t <=> \E f \in Range(stack[t]) : f.guard
    BY DEF OwnedInCall
  <2>1. ThreadInv(t)
    BY DEF CallInv
  <2>2. ASSUME reg_mutex = t PROVE \E f \in Range(stack[t]) : f.guard
    <3>1. PICK i \in 1 .. Len(stack[t]) : stack[t][i].guard
      BY <2>1, <2>2 DEF ThreadInv, GuardInv
    <3> QED BY <3>1, FramesOfThread
  <2>3. ASSUME NEW f \in Range(stack[t]), f.guard PROVE reg_mutex = t
    <3>1. PICK i \in 1 .. Len(stack[t]) : f = stack[t][i]
      BY FramesOfThread
    <3> QED BY <2>1, <2>3, <3>1 DEF ThreadInv, FrameInv
  <2> QED BY <2>2, <2>3
<1> QED BY <1>1, CallInvariant, PTL
-----------------------------------------------------------------------------
(* set_impl() for the calling thread only.                                 *)

\* The frames below the innermost one are functors.
LEMMA OuterFrames ==
    ASSUME CallInv, NEW t \in Threads, NEW i \in 1 .. Len(stack[t]) - 1
    PROVE  stack[t][i].at = "functor"
<1>1. stack[t] \in Seq(Frames) /\ ThreadInv(t)
  BY DEF CallInv
<1>2. Len(stack[t]) \in Nat
  BY <1>1, LenProperties
<1>3. i \in 1 .. Len(stack[t]) /\ i # Len(stack[t])
  BY <1>2
<1> QED BY <1>1, <1>3 DEF ThreadInv, FrameInv

\* The innermost frame, and what it says about all of them.
LEMMA OwnInnermost ==
    ASSUME CallInv, NEW t \in Threads, OwnThreadInv(t), stack[t] # <<>>
    PROVE  /\ OwnFrameInv(t, Last(stack[t]))
           /\ Last(stack[t]).at # "set_impl" => this_impl[t] = registry[t]
<1> DEFINE n == Len(stack[t])
<1>1. n \in 1 .. n /\ Last(stack[t]) = stack[t][n]
  <2>1. n \in Nat \ {0} /\ Last(stack[t]) = stack[t][n]
    BY Innermost
  <2> QED BY <2>1
<1>2. OwnFrameInv(t, stack[t][n])
  BY <1>1 DEF OwnThreadInv
<1>3. ASSUME Last(stack[t]).at # "set_impl", NEW i \in 1 .. n
      PROVE  stack[t][i].at # "set_impl"
  <2>1. CASE i = n
    BY <1>1, <1>3, <2>1
  <2>2. CASE i # n
    <3>1. n \in Nat
      BY Innermost
    <3>2. i \in 1 .. n - 1
      BY <2>2, <3>1
    <3> QED BY <3>2, OuterFrames
  <2> QED BY <2>1, <2>2
<1> QED BY <1>1, <1>2, <1>3 DEF OwnThreadInv

\* A call of client code, other than set_impl().
LEMMA OwnPush ==
    ASSUME CallInv, NEW t \in Threads, OwnThreadInv(t), NEW f \in Frames, Push(t, f),
           UNCHANGED <<registry, this_impl>>, f.at # "set_impl", OwnFrameInv(t, f)
    PROVE  OwnThreadInv(t)'
<1>1. /\ Len(stack[t]) \in Nat
      /\ Len(stack'[t]) = Len(stack[t]) + 1
      /\ \A i \in 1 .. Len(stack[t]) : stack'[t][i] = stack[t][i]
      /\ stack'[t][Len(stack[t]) + 1] = f
  BY Pushed
<1>2. ASSUME NEW i \in 1 .. Len(stack'[t]) PROVE OwnFrameInv(t, stack[t][i])'
  <2>1. CASE i \in 1 .. Len(stack[t])
    BY <1>1, <2>1 DEF OwnThreadInv, OwnFrameInv
  <2>2. CASE i = Len(stack[t]) + 1
    BY <1>1, <2>2 DEF OwnFrameInv
  <2> QED BY <1>1, <2>1, <2>2
<1>3. ASSUME \A i \in 1 .. Len(stack'[t]) : stack'[t][i].at # "set_impl"
      PROVE  this_impl'[t] = registry'[t]
  <2>1. \A i \in 1 .. Len(stack[t]) : i \in 1 .. Len(stack'[t]) /\ stack'[t][i] = stack[t][i]
    BY <1>1
  <2> QED BY <1>3, <2>1 DEF OwnThreadInv
<1> QED BY <1>2, <1>3 DEF OwnThreadInv

\* A return.  With that of set_impl() the registry has what the thread-local has.
LEMMA OwnPop ==
    ASSUME CallInv, NEW t \in Threads, OwnThreadInv(t), stack[t] # <<>>, Pop(t),
           UNCHANGED this_impl,
           IF Last(stack[t]).at = "set_impl" THEN registry'[t] = this_impl[t]
                                             ELSE registry'[t] = registry[t]
    PROVE  OwnThreadInv(t)'
<1> DEFINE n == Len(stack[t])
<1>1. /\ n \in Nat \ {0}
      /\ Len(stack'[t]) = n - 1
      /\ \A i \in 1 .. n - 1 : stack'[t][i] = stack[t][i]
  BY Popped
<1>2. Last(stack[t]) = stack[t][n]
  BY Innermost
<1>3. \A i \in 1 .. n - 1 : i \in 1 .. n /\ stack[t][i].at = "functor"
  BY <1>1, OuterFrames
<1>4. ASSUME NEW i \in 1 .. Len(stack'[t]) PROVE OwnFrameInv(t, stack[t][i])'
  BY <1>1, <1>3, <1>4 DEF OwnThreadInv, OwnFrameInv
<1>5. this_impl'[t] = registry'[t]
  <2>1. CASE Last(stack[t]).at = "set_impl"
    BY <2>1
  <2>2. CASE Last(stack[t]).at # "set_impl"
    <3>1. \A i \in 1 .. n : stack[t][i].at # "set_impl"
      BY <1>1, <1>2, <1>3, <2>2
    <3> QED BY <2>2, <3>1 DEF OwnThreadInv
  <2> QED BY <2>1, <2>2
<1> QED BY <1>4, <1>5 DEF OwnThreadInv

\* The next part of a call.
LEMMA OwnReplace ==
    ASSUME CallInv, NEW t \in Threads, OwnThreadInv(t), stack[t] # <<>>,
           NEW f \in Frames, Replace(t, f),
           UNCHANGED <<registry, this_impl>>,
           Last(stack[t]).at # "set_impl", f.at # "set_impl", OwnFrameInv(t, f)
    PROVE  OwnThreadInv(t)'
<1> DEFINE n == Len(stack[t])
<1>1. /\ n \in Nat \ {0}
      /\ Len(stack'[t]) = n
      /\ \A i \in 1 .. n - 1 : stack'[t][i] = stack[t][i]
      /\ stack'[t][n] = f
  BY Replaced
<1>2. Last(stack[t]) = stack[t][n]
  BY Innermost
<1>3. \A i \in 1 .. n - 1 : i \in 1 .. n /\ stack[t][i].at = "functor"
  BY <1>1, OuterFrames
<1>4. ASSUME NEW i \in 1 .. Len(stack'[t]) PROVE OwnFrameInv(t, stack[t][i])'
  <2>1. CASE i \in 1 .. n - 1
    BY <1>1, <1>3, <2>1 DEF OwnThreadInv, OwnFrameInv
  <2>2. CASE i = n
    BY <1>1, <2>2 DEF OwnFrameInv
  <2> QED BY <1>1, <2>1, <2>2
<1>5. \A i \in 1 .. n : stack[t][i].at # "set_impl"
  BY <1>1, <1>2, <1>3
<1> QED BY <1>4, <1>5 DEF OwnThreadInv

\* If set_impl() is only called for the calling thread, OwnInv is kept.
LEMMA OwnStep ==
    ASSUME OwnHandlers
    PROVE  CallInv /\ OwnInv /\ [Next]_vars => OwnInv'
<1> SUFFICES ASSUME CallInv, OwnInv, [Next]_vars
             PROVE  OwnInv'
  OBVIOUS
<1>0. /\ registry  \in [Threads -> Impls \cup {NoImpl}]
      /\ this_impl \in [Threads -> Impls \cup {NoImpl}]
      /\ \A t \in Threads : OwnThreadInv(t)
  BY DEF CallInv, OwnInv
<1>a. ASSUME NEW t \in Threads, OwnThreadInv(t)',
             \A u \in Threads \ {t} : /\ stack'[u] = stack[u]
                                      /\ this_impl'[u] = this_impl[u]
                                      /\ registry'[u] = registry[u]
      PROVE  OwnInv'
  BY <1>0, <1>a DEF OwnInv, OwnThreadInv, OwnFrameInv
<1>1. ASSUME NEW t \in Threads, NEW method \in {"schedule_execution", "should_sync"},
             NEW id \in Threads, Use(t, method, id)
      PROVE  OwnInv'
  <2> DEFINE f == Frame(method, id, NoImpl, FALSE)
  <2>1. f \in Frames /\ f.at = method /\ f.id = id /\ f.guard = FALSE
    BY DEF Frame, Frames, Methods
  <2>2. /\ Push(t, f) /\ UNCHANGED <<registry, this_impl>>
        /\ (method = "schedule_execution" /\ id # t) => id \notin AtOnce
    BY <1>1 DEF Use
  <2> HIDE DEF f
  <2>3. OwnFrameInv(t, f)
    BY <2>1, <2>2 DEF OwnFrameInv
  <2>4. OwnThreadInv(t)' /\ \A u \in Threads \ {t} : stack'[u] = stack[u]
    BY <1>0, <2>1, <2>2, <2>3, OwnPush, Pushed
  <2> QED BY <1>a, <2>2, <2>4
<1>2. ASSUME NEW t \in Threads, NEW id \in Threads, NEW impl \in Impls,
             SetThisImpl(t, id, impl)
      PROVE  OwnInv'
  <2> DEFINE n == Len(stack[t])
             f == Frame("set_impl", id, impl, FALSE)
  <2>1. f \in Frames /\ f.at = "set_impl" /\ f.id = id /\ f.impl = impl /\ f.guard = FALSE
    BY DEF Frame, Frames, Methods
  <2>2. /\ RunsClientCode(t) /\ Push(t, f) /\ id = t
        /\ this_impl' = [this_impl EXCEPT ![t] = impl]
        /\ UNCHANGED registry
    BY <1>2 DEF SetThisImpl
  <2> HIDE DEF f
  <2>3. /\ n \in Nat
        /\ Len(stack'[t]) = n + 1
        /\ \A i \in 1 .. n : stack'[t][i] = stack[t][i]
        /\ stack'[t][n + 1] = f
        /\ \A u \in Threads \ {t} : stack'[u] = stack[u]
    BY <2>1, <2>2, Pushed
  <2>4. ASSUME NEW i \in 1 .. n PROVE stack[t][i].at = "functor"
    <3>1. stack[t] # <<>>
      BY <2>4, EmptySeq, SMT DEF CallInv
    <3>2. stack[t][n].at = "functor"
      BY <2>2, <3>1, Innermost DEF RunsClientCode, In
    <3>3. CASE i = n
      BY <3>2, <3>3
    <3>4. CASE i # n
      <4>1. i \in 1 .. n - 1
        BY <2>3, <3>4
      <4> QED BY <4>1, OuterFrames
    <3> QED BY <3>3, <3>4
  <2>5. this_impl'[t] = impl /\ \A u \in Threads \ {t} : this_impl'[u] = this_impl[u]
    BY <1>0, <2>2
  <2>6. ASSUME NEW i \in 1 .. Len(stack'[t]) PROVE OwnFrameInv(t, stack[t][i])'
    <3>1. CASE i \in 1 .. n
      BY <1>0, <2>3, <2>4, <3>1 DEF OwnThreadInv, OwnFrameInv
    <3>2. CASE i = n + 1
      BY <2>1, <2>2, <2>3, <2>5, <3>2 DEF OwnFrameInv
    <3> QED BY <2>3, <3>1, <3>2
  <2>7. n + 1 \in 1 .. Len(stack'[t]) /\ stack'[t][n + 1].at = "set_impl"
    BY <2>1, <2>3
  <2>8. OwnThreadInv(t)'
    BY <2>6, <2>7 DEF OwnThreadInv
  <2> QED BY <1>a, <2>2, <2>3, <2>5, <2>8
<1>3. ASSUME NEW t \in Threads, SetRegistry(t)
      PROVE  OwnInv'
  <2> DEFINE f == Last(stack[t])
  <2>1. /\ stack[t] # <<>> /\ f.at = "set_impl" /\ Pop(t)
        /\ registry' = [registry EXCEPT ![f.id] = f.impl] /\ UNCHANGED this_impl
    BY <1>3 DEF SetRegistry, In
  <2>2. f.id = t /\ f.impl = this_impl[t]
    BY <1>0, <2>1, OwnInnermost DEF OwnFrameInv
  <2>3. registry'[t] = this_impl[t] /\ \A u \in Threads \ {t} : registry'[u] = registry[u]
    BY <1>0, <2>1, <2>2
  <2>4. OwnThreadInv(t)' /\ \A u \in Threads \ {t} : stack'[u] = stack[u]
    BY <1>0, <2>1, <2>3, OwnPop, Popped
  <2> QED BY <1>a, <2>1, <2>3, <2>4
<1>b. ASSUME NEW t \in Threads, stack[t] # <<>>, Last(stack[t]).at # "set_impl", Pop(t),
             UNCHANGED <<registry, this_impl>>
      PROVE  OwnInv'
  <2>1. OwnThreadInv(t)' /\ \A u \in Threads \ {t} : stack'[u] = stack[u]
    BY <1>0, <1>b, OwnPop, Popped
  <2> QED BY <1>a, <1>b, <2>1
<1>4. ASSUME NEW t \in Threads, ShouldSync(t)
      PROVE  OwnInv'
  BY <1>4, <1>b DEF ShouldSync, In
<1>5. ASSUME NEW t \in Threads, ScheduleExecution(t)
      PROVE  OwnInv'
  <2> DEFINE id == Last(stack[t]).id
             f  == Frame("handler", id, IF Cached(t, id) THEN this_impl[t] ELSE registry[id],
                         ~Cached(t, id))
  <2>1. /\ stack[t] # <<>> /\ Last(stack[t]).at = "schedule_execution"
        /\ UNCHANGED <<registry, this_impl>>
    BY <1>5 DEF ScheduleExecution, In
  <2>2. id \in Threads /\ registry[id] # NoImpl
    BY <2>1, Innermost DEF FrameInv, Frames
  <2>3. f \in Frames /\ f.at = "handler" /\ f.id = id /\ f.guard = ~Cached(t, id)
    BY <1>0, <2>2 DEF Frame, Frames, Cached
  <2>4. Replace(t, f)
    BY <1>5 DEF ScheduleExecution
  <2>5. OwnFrameInv(t, Last(stack[t]))
    BY <1>0, <2>1, OwnInnermost
  <2>6. ASSUME ~Cached(t, id) PROVE id \notin AtOnce
    <3>1. this_impl[t] = registry[t]
      BY <1>0, <2>1, OwnInnermost
    <3>2. id # t
      BY <2>2, <2>6, <3>1 DEF Cached
    <3> QED BY <2>1, <2>5, <3>2 DEF OwnFrameInv
  <2>7. OwnFrameInv(t, f)
    BY <2>3, <2>6 DEF OwnFrameInv
  <2> HIDE DEF f
  <2>8. OwnThreadInv(t)' /\ \A u \in Threads \ {t} : stack'[u] = stack[u]
    BY <1>0, <2>1, <2>3, <2>4, <2>7, OwnReplace, Replaced
  <2> QED BY <1>a, <2>1, <2>8
<1>6. ASSUME NEW t \in Threads, Handle(t)
      PROVE  OwnInv'
  <2> DEFINE g == Last(stack[t])
             f == Frame("functor", g.id, g.impl, g.guard)
  <2>1. stack[t] # <<>> /\ g.at = "handler" /\ UNCHANGED <<registry, this_impl>>
    BY <1>6 DEF Handle, In
  <2>2. CASE Return(t)
    BY <1>b, <2>1, <2>2 DEF Return
  <2>3. CASE g.id \in AtOnce /\ Replace(t, f)
    <3>1. g \in Frames /\ OwnFrameInv(t, g)
      BY <1>0, <2>1, Innermost, OwnInnermost
    <3>2. f \in Frames /\ f.at = "functor" /\ f.id = g.id /\ f.guard = g.guard
      BY <3>1 DEF Frame, Frames
    <3>3. ~g.guard
      BY <2>3, <3>1 DEF OwnFrameInv
    <3>4. OwnFrameInv(t, f)
      BY <3>2, <3>3 DEF OwnFrameInv
    <3> HIDE DEF f
    <3>5. OwnThreadInv(t)' /\ \A u \in Threads \ {t} : stack'[u] = stack[u]
      BY <1>0, <2>1, <2>3, <3>2, <3>4, OwnReplace, Replaced
    <3> QED BY <1>a, <2>1, <3>5
  <2> QED BY <1>6, <2>2, <2>3 DEF Handle
<1>7. ASSUME NEW t \in Threads, RunDeferred(t)
      PROVE  OwnInv'
  <2> DEFINE f == Frame("functor", t, NoImpl, FALSE)
  <2>1. f \in Frames /\ f.at = "functor" /\ f.guard = FALSE
    BY DEF Frame, Frames
  <2>2. Push(t, f) /\ UNCHANGED <<registry, this_impl>>
    BY <1>7 DEF RunDeferred
  <2> HIDE DEF f
  <2>3. OwnThreadInv(t)' /\ \A u \in Threads \ {t} : stack'[u] = stack[u]
    BY <1>0, <2>1, <2>2, OwnPush, Pushed DEF OwnFrameInv
  <2> QED BY <1>a, <2>2, <2>3
<1>8. ASSUME NEW t \in Threads, DropDeferred(t)
      PROVE  OwnInv'
  BY <1>0, <1>8 DEF DropDeferred, OwnInv, OwnThreadInv, OwnFrameInv
<1>9. ASSUME NEW t \in Threads, FunctorReturns(t)
      PROVE  OwnInv'
  BY <1>9, <1>b DEF FunctorReturns, In, Return
<1>10. CASE UNCHANGED vars
  BY <1>0, <1>10 DEF vars, OwnInv, OwnThreadInv, OwnFrameInv
<1> QED
  BY <1>1, <1>2, <1>3, <1>4, <1>5, <1>6, <1>7, <1>8, <1>9, <1>10 DEF Next

\* If each thread registers handlers for itself only, the frames of a thread concern this
\* thread, and its this_impl is what the registry has for it.
THEOREM OwnInvariant ==
    ASSUME OwnHandlers
    PROVE  Spec => [](CallInv /\ OwnInv)
<1>1. Init => OwnInv
  <2> SUFFICES ASSUME Init, NEW t \in Threads PROVE OwnThreadInv(t)
    BY DEF OwnInv
  <2>1. Len(stack[t]) = 0
    BY EmptySeq DEF Init
  <2> QED BY <2>1 DEF Init, OwnThreadInv, OwnFrameInv
<1>2. CallInv /\ OwnInv /\ [Next]_vars => OwnInv'
  BY OwnStep
<1> QED BY <1>1, <1>2, CallInvariant, PTL DEF Spec

\* If every thread registers its own handler, then outside of set_impl() its thread-local and
\* the entry that the other threads read under reg_mutex are the same handler: nobody
\* schedules through a handler that has been replaced.
THEOREM HandlerStaysCurrent ==
    ASSUME OwnHandlers
    PROVE  Spec => []HandlerIsCurrent
<1>1. CallInv /\ OwnInv => HandlerIsCurrent
  <2> SUFFICES ASSUME CallInv, OwnInv,
                      NEW t \in Threads, \A f \in Range(stack[t]) : f.at # "set_impl"
               PROVE  this_impl[t] = registry[t]
    BY DEF HandlerIsCurrent
  <2>1. \A i \in 1 .. Len(stack[t]) : stack[t][i].at # "set_impl"
    BY FramesOfThread
  <2> QED BY <2>1 DEF OwnInv, OwnThreadInv
<1> QED BY <1>1, OwnInvariant, PTL

\* If every thread registers its own handler, no thread waits for the reg_mutex that it owns,
\* even if handlers invoke functors at once and these call the executor again, to any depth:
\* schedule_execution() only keeps reg_mutex locked in the handler of another thread, and
\* that one defers.
THEOREM NeverRelocks ==
    ASSUME OwnHandlers
    PROVE  Spec => []NoRelock
<1>1. CallInv /\ OwnInv => NoRelock
  <2> SUFFICES ASSUME CallInv, OwnInv, NEW t \in Threads, reg_mutex = t
               PROVE  In(t, "handler")
    BY DEF NoRelock, In
  <2>1. ThreadInv(t) /\ stack[t] \in Seq(Frames)
    BY DEF CallInv
  <2>2. PICK i \in 1 .. Len(stack[t]) : stack[t][i].guard
    BY <2>1 DEF ThreadInv, GuardInv
  <2>3. stack[t][i].at = "handler"
    BY <2>2 DEF OwnInv, OwnThreadInv, OwnFrameInv
  <2>4. i = Len(stack[t])
    BY <2>1, <2>3 DEF ThreadInv, FrameInv
  <2>5. stack[t] # <<>>
    BY <2>1, <2>2, EmptySeq, SMT
  <2> QED BY <2>3, <2>4, <2>5, Innermost DEF In
<1> QED BY <1>1, OwnInvariant, PTL
=============================================================================
