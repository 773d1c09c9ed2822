--------------------------- MODULE MCPatchCommit ---------------------------
(* Instances of PatchCommit: up to three operations on three files. *)
EXTENDS PatchCommit

CONSTANTS a, b, c, t1, t2

MCFirstDisk == {[path \in Path |-> IF path = a \/ (both /\ path = b) THEN t1 ELSE Absent] :
                  both \in BOOLEAN}
=============================================================================
