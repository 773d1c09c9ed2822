----------------------- MODULE MCProviderObservations -----------------------
(***************************************************************************)
(* One file, two texts with one tag and the same first line, and a third   *)
(* text whose tag evicts theirs.  The callers are alike, and so are the    *)
(* second lines of the two texts.                                          *)
(***************************************************************************)
EXTENDS ProviderObservations

CONSTANTS t1, t2, a, b, c, d

MCText == {<<a, b>>, <<a, c>>, <<d>>}
MCTagOf == [text \in MCText |-> IF text = <<d>> THEN "Y" ELSE "X"]
MCSymmetry == Permutations({t1, t2}) \cup Permutations({b, c})
=============================================================================
