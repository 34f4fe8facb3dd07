--------------------------- MODULE MCSharedCache ---------------------------
(***************************************************************************)
(* Shims on one bucket for TLC: a builder and a reader, two threads of one *)
(* builder, two threads of one reader.  What the environment does to them  *)
(* is bounded: a step of Environment spends one of MaxTroubles.            *)
(***************************************************************************)
EXTENDS SharedCache, Naturals, TLC

CONSTANTS b1, b2, a1, a2, s1, s2, t1, t2, MaxTroubles

VARIABLE troubles

\* Two results that share a blob, as two bundles.
MCResults == {{b1}, {b1, b2}}
MCBuilderAndReader == t1 :> s1 @@ t2 :> s2
MCOneShim == t1 :> s1 @@ t2 :> s1

MCSymmetry == Permutations({t1, t2}) \cup Permutations({a1, a2})

MCInit == Init /\ troubles = 0

\* A bucket some builder has filled: every bundle, and a pointer per action.
MCFilled ==
  /\ ac \in [Action -> Pointer]
  /\ \A a \in Action : ac[a].action = a
  /\ object = [n \in Results |-> n]
  /\ have = [s \in Shim |-> {}]
  /\ present = [s \in Shim |-> {}]
  /\ from = [s \in Shim |-> [b \in Blob |-> NoBundle]]
  /\ result = [s \in Shim |-> [a \in Action |-> NoPointer]]
  /\ tainted = [s \in Shim |-> {}]
  /\ op = [t \in Thread |-> Done("none")]
  /\ signed = {ac[a] : a \in Action}
  /\ disturbed = {}
  /\ troubles = 0

MCNext ==
  \/ \E t \in Thread : Serve(t) /\ UNCHANGED troubles
  \/ Environment /\ troubles < MaxTroubles /\ troubles' = troubles + 1

MCSpec == MCInit /\ [][MCNext]_<<vars, troubles>>
MCFilledSpec == MCFilled /\ [][MCNext]_<<vars, troubles>>
=============================================================================
