----------------------------- MODULE MCVotePool -----------------------------
(* Small instances of VotePool: two messages and two attestors.            *)
EXTENDS VotePool, TLC

CONSTANTS m1, m2, s1, s2

(* For safety: s1 signs both, s2 neither.                                  *)
MCSigned == {<<m, s1>> : m \in Messages}
MCSymmetry == Permutations({m1, m2})

(* s1 leaves, and the read is torn: the new attestors, a threshold of zero. *)
MCFullSet == [attestors |-> {s1, s2}, threshold |-> 1]
MCReloads == {[attestors |-> {s2}, threshold |-> 0]}

(* For liveness: both have signed m1, and either set can be met.           *)
MCSignedOne == {<<m1, s1>>, <<m1, s2>>}
MCPairSet == [attestors |-> {s1, s2}, threshold |-> 2]
MCOneReload == {[attestors |-> {s1}, threshold |-> 1]}
=============================================================================
