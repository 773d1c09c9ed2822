----------------------- MODULE MCWorkspaceMutations -----------------------
(* Instances of WorkspaceMutations: two sessions of one root. *)
EXTENDS WorkspaceMutations

CONSTANTS a, b, x, y, d1, d2, s1, s2, w1, w2

MCText == {<<x>>, <<x, y>>}
MCTagOf == [text \in MCText |-> IF text = <<x>> THEN d1 ELSE d2]
MCTwoWorkers == [w \in {w1, w2} |-> IF w = w1 THEN s1 ELSE s2]
MCOneSession == [w \in {w1, w2} |-> s1]
MCOneWorker == [w \in {w1} |-> s1]
MCLimits == [max_entries |-> 4, max_bytes |-> 100]
MCFirstDisk == {[path \in Path |-> IF path = a THEN <<x, y>> ELSE Absent]}
=============================================================================
