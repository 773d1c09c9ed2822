-------------------------- MODULE MCHashlineApply --------------------------
(* Instances of HashlineApply: files of up to three lines, sections of up  *)
(* to two operations, two registers, edits of up to two sections.          *)
EXTENDS HashlineApply

CONSTANTS o1, o2, o3, x, changed, named

MCLine == {o1, o2, o3, x, changed}
MCRegister == {Anonymous, named}
Lines(n) == SubSeq(<<o1, o2, o3>>, 1, n)

Op(kind, start, end, content) ==
  [kind |-> kind, start |-> start, end |-> end, content |-> content]

Ranges(n) == {r \in (1..n) \X (1..n) : r[1] <= r[2]}

Ops(n) ==
       {Op("put_range", r[1], r[2], c) : r \in Ranges(n), c \in {Anonymous, <<x>>}}
  \cup {Op("cut_range", r[1], r[2], c) : r \in Ranges(n), c \in MCRegister}
  \cup {Op("put_after_block", r[1], r[2], <<x>>) : r \in {s \in Ranges(n) : s[1] < s[2]}}
  \cup {Op("put_range", n, s, <<x>>) : s \in 0..n - 1}
  \cup {Op("put_before", s, 0, <<x>>) : s \in 1..n}
  \cup {Op("put_after", s, 0, named) : s \in 1..n}
  \cup {Op(kind, 0, 0, c) : kind \in {"put_begin", "put_end"}, c \in {<<x>>, named}}

Section(n, newline, observed, complete, operations) ==
  [text |-> [lines |-> Lines(n), newline |-> newline],
   observed |-> observed, complete |-> complete, operations |-> operations]

\* Files shown in full, two operations
Shown2 == {Section(3, newline, Lines(3), TRUE, ops) : newline \in BOOLEAN, ops \in Ops(3) \X Ops(3)}
\* All but one line shown, two operations that keep clear of it
Hidden(line) == [Lines(3) EXCEPT ![line] = Unseen]
Hidden2 == {section \in {Section(3, TRUE, Hidden(line), FALSE, ops) :
                          line \in 1..3, ops \in Ops(3) \X Ops(3)} : Resolved(section)}
\* Files shown in part, or changed since, one operation
Part(n) == {f \in [1..n -> {o1, o2, o3, changed, Unseen}] : \A i \in 1..n : f[i] \in {Lines(n)[i], changed, Unseen}}
Shown1 == UNION {{Section(n, newline, observed, FALSE, <<op>>) :
                    newline \in {FALSE, n = 1}, observed \in Part(n), op \in Ops(n)} : n \in {1, 3}}
EmptyFile == {Section(0, FALSE, <<>>, complete, <<op>>) : complete \in BOOLEAN, op \in Ops(0)}

MCSections == Shown2 \cup Hidden2 \cup Shown1 \cup EmptyFile
MCStored == {[r \in MCRegister |-> Empty]}
=============================================================================
