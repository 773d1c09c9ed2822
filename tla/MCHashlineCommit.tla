-------------------------- MODULE MCHashlineCommit --------------------------
(* Instances of HashlineCommit: two files, either of them moved to a path   *)
(* of its own, where there may be a file already.                           *)
EXTENDS HashlineCommit

CONSTANTS a, b, c, d

MCPath == {a, b, c, d}
Sections(path, destination) ==
       {[path |-> path, kind |-> kind, destination |-> Absent] : kind \in {"keep", "update", "remove"}}
  \cup {[path |-> path, kind |-> kind, destination |-> destination] : kind \in {"move", "move_update"}}
MCPlans == {<<s, t>> : s \in Sections(a, c), t \in Sections(b, d)}
MCFirstTexts == {[p \in MCPath |-> IF p \in occupied THEN Old(p) ELSE Absent] :
                   occupied \in {{a, b}, {a, b, c}}}
=============================================================================
