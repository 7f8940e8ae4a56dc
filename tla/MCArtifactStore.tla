-------------------------- MODULE MCArtifactStore --------------------------
(* A small index: one repository, two digests, two tags, one of them        *)
(* protected by the expression.                                             *)
EXTENDS ArtifactStore, TLC

\* Digests are only compared with each other.
DigestSymmetry == Permutations(Digests)
=============================================================================
