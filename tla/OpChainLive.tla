---------------------------- MODULE OpChainLive -----------------------------
(***************************************************************************)
(* Progress of OpChain under a well-behaved client: it gives a handle one  *)
(* continuation, aborts nothing, returns from a functor only the handle of *)
(* an operation that has no parent, and completes every context it keeps.  *)
(* It may cancel any handle at any time.                                   *)
(***************************************************************************)
EXTENDS OpChain

\* Contexts are numbered in the order of their construction.
ASSUME NumberedAssumption == Ctx \subseteq Nat

InOrder ==
    \A c, d \in Ctx : (c < d /\ m_pending'[d] # "unborn") => m_pending'[c] # "unborn"

OneContinuation ==
    \A c, d \in Ctx : m_parent'[c] = m_parent'[d] => (c = d \/ m_parent'[c] = NoCtx)

ReturnsRoots ==
    \A j \in Ctx : kind'[j] = "forward" => kind'[m_parent'[j]] = "root"

WellBehaved == InOrder /\ OneContinuation /\ ReturnsRoots /\ aborted' = {}

ChainLiveNext == ChainNext /\ WellBehaved

\* The client completes what it keeps; the event loop runs what is posted to it.
ChainFairness ==
    /\ \A c \in Ctx : WF_chainVars(\E r \in Returned : AsyncReturn(c, r))
    /\ \A task \in Tasks : WF_chainVars(task \in tasks /\ RunTask(task) /\ WellBehaved)

ChainLiveSpec == ChainInit /\ [][ChainLiveNext]_chainVars /\ ChainFairness

Settled(c) == m_pending[c] \in Results \cup {"done"}

\* No result gets stuck: every operation of a chain gets a result or delivers one,
\* in whatever order continuations are attached, contexts completed, operations
\* cancelled, and results of returned operations passed on.
EverythingSettles == \A c \in Ctx : Born(c) ~> Settled(c)
=============================================================================
