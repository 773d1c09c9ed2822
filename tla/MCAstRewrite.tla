---------------------------- MODULE MCAstRewrite ----------------------------
(* Instances of AstRewrite: two files, both of which match at first.       *)
EXTENDS AstRewrite, TLC

CONSTANTS a, b, match, other, done, t1, t2

MCRewrite == [text \in {match, other, done} |-> done]
MCScan == <<a, b>>
Symmetry == Permutations({t1, t2})
MCFirstDisk == {[p \in {a, b} |-> match]}
=============================================================================
