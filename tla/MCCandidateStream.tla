---------------------------- MODULE MCCandidateStream ----------------------------
(* CandidateStream for TLC: the pipelines are interchangeable.             *)
EXTENDS CandidateStream, TLC

Symmetry == Permutations(Pipelines)
=============================================================================
