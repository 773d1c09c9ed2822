------------------------ MODULE MCObservationLedger ------------------------
(* A small instance of ObservationLedger: three texts, two of them with     *)
(* one tag, and limits that hold one entry, too large for its bytes when    *)
(* whole, or two with what they showed.                                     *)
EXTENDS ObservationLedger, TLC

CONSTANTS p1, p2, a, b, t1, t2

MCPath == {p1, p2}
MCLineText == {a, b}
MCText == {<<a, b>>, <<a>>, <<b>>}
MCTag == {t1, t2}
MCTagOf == [text \in MCText |-> IF text = <<b>> THEN t2 ELSE t1]
MCGenerations == {1}
MCLimits == {[max_entries |-> 1, max_bytes |-> 12],
             [max_entries |-> 3, max_bytes |-> 25]}

Symmetry == Permutations(MCPath)
=============================================================================
