------------------------------ MODULE TextEdits ------------------------------
(***************************************************************************)
(* What the replacement of text (replace.rs) and a unified diff            *)
(* (unified_diff.rs) make of a normalized source.  Confidences are         *)
(* fractions, compared without dividing.                                   *)
(*                                                                         *)
(* An edit is refused, or is the record                                    *)
(*   [source: the new source, required: the lines that must have been      *)
(*    observed, parts: what was found of the old source, range: the lines  *)
(*    presented again].                                                    *)
(***************************************************************************)
EXTENDS TextContent

CONSTANT Threshold  \* fuzzy_replace_threshold, <<numerator, denominator>>

ASSUME ThresholdAssumption == Threshold \in Nat \X (Nat \ {0})

Refusal == [refused |-> TRUE]
-----------------------------------------------------------------------------
(* Similarity *)

LeastOf(a, b, c) == Smaller(a, Smaller(b, c))

\* One row of the table of distances: the next character of left against
\* every prefix of right
NextRow(right, previous, character) ==
  FoldLeftDomain(LAMBDA row, j :
      Append(row, LeastOf(previous[j + 1] + 1, Last(row) + 1,
                          previous[j] + (IF character = right[j] THEN 0 ELSE 1))),
    <<previous[1] + 1>>, right)

Levenshtein(left, right) ==
  Last(FoldLeft(LAMBDA row, character : NextRow(right, row, character),
                [j \in 1..Len(right) + 1 |-> j - 1], left))

\* 1 - distance / length, as a fraction.  Characters are counted: the bytes
\* that only continue one are left out.
Similarity(left, right) ==
  LET Characters(s) == SelectSeq(s, LAMBDA byte : byte \notin Continuation)
      longest == Larger(Len(Characters(left)), Len(Characters(right)))
  IN IF longest = 0 THEN <<1, 1>>
     ELSE <<longest - Levenshtein(Characters(left), Characters(right)), longest>>

AtLeast(p, q) == p[1] * q[2] >= q[1] * p[2]
Exceeds(p, q) == ~AtLeast(q, p)

Joined(lines) ==
  FlattenSeq([k \in DOMAIN lines |-> IF k = 1 THEN lines[1] ELSE <<"LF">> \o lines[k]])

Window(lines, start, count) == Joined(SubSeq(lines, start + 1, start + count))

\* Starts of the windows of count lines that are similar enough to old
Candidates(lines, old, count) ==
  {start \in 0..Len(lines) - count : AtLeast(Similarity(old, Window(lines, start, count)), Threshold)}

\* The candidates no other is more similar than: one, or the choice is
\* ambiguous
Best(lines, old, count) ==
  LET found == Candidates(lines, old, count)
      Of(start) == Similarity(old, Window(lines, start, count))
  IN {start \in found : \A other \in found : AtLeast(Of(start), Of(other))}
-----------------------------------------------------------------------------
(* Replacement *)

Occurs(source, old, at) ==
  /\ at + Len(old) <= Len(source)
  /\ SubSeq(source, at + 1, at + Len(old)) = old
  /\ at < Len(source) => source[at + 1] \notin Continuation

\* match_indices: from the left, none inside another.  An empty pattern is
\* found between all characters.
Exact(source, old) ==
  FoldLeft(LAMBDA found, at :
             IF Occurs(source, old, at) /\ (found = <<>> \/ Last(found)[2] <= at)
             THEN Append(found, <<at, at + Len(old)>>) ELSE found,
           <<>>, [k \in 1..Len(source) + 1 |-> k - 1])

\* fuzzy_matches: the window most similar to old, where its text first
\* occurs.  It is ambiguous or not found otherwise: no part.
Fuzzy(source, old) ==
  LET lines == LinesOf(source)
      count == Newlines(old, Len(old)) + 1
      best == Best(lines, old, count)
  IN IF Cardinality(best) # 1 THEN <<>>
     ELSE LET text == Window(lines, CHOOSE start \in best : TRUE, count)
              at == CHOOSE i \in 0..Len(source) :
                      Occurs(source, text, i) /\ \A j \in 0..i - 1 : ~Occurs(source, text, j)
          IN <<<<at, at + Len(text)>>>>

\* Mutant: only the line a part begins in.
SourceLinesFirst(source, part) == {Newlines(source, part[1]) + 1}

\* source_lines: the lines the bytes of a part are in
SourceLines(source, part) ==
  (Newlines(source, part[1]) + 1)
    ..(Newlines(source, Larger(Larger(part[2] - 1, 0), part[1])) + 1)

ApplyReplacements(source, parts, new) ==
  LET state == FoldLeft(LAMBDA s, part :
                          [text |-> s.text \o SubSeq(source, s.cursor + 1, part[1]) \o new,
                           cursor |-> part[2]],
                        [text |-> <<>>, cursor |-> 0], parts)
  IN state.text \o SubSeq(source, state.cursor + 1, Len(source))

\* Mutant: the lines that went, not those that came.
ChangedLineRangeRemoved(source, parts, new, total) ==
  LET start == Newlines(source, parts[1][1]) + 1
      removed == Newlines(source, Last(parts)[2]) - Newlines(source, parts[1][1]) + 1
  IN <<Larger(start - 2, 1), Smaller(start + removed + 2, total)>>

\* changed_line_range: two lines more than the larger of what went and came
ChangedLineRange(source, parts, new, total) ==
  LET start == Newlines(source, parts[1][1]) + 1
      removed == Newlines(source, Last(parts)[2]) - Newlines(source, parts[1][1]) + 1
      replaced == Newlines(new, Len(new)) + 1
  IN <<Larger(start - 2, 1), Smaller(start + Larger(replaced, removed) + 2, total)>>

\* replace_text between reading the file and writing it
Replacement(source, request) ==
  LET old == FromReplacement(request.old).source
      new == FromReplacement(request.new).source
      exact == Exact(source, old)
      parts == IF exact # <<>> \/ ~request.fuzzy THEN exact ELSE Fuzzy(source, old)
      result == FromReplacement(ApplyReplacements(source, parts, new)).source
  IN IF request.old = <<>> \/ parts = <<>> \/ (~request.all /\ Len(parts) # 1) THEN Refusal
     ELSE [source |-> result, parts |-> parts,
           required |-> UNION {SourceLines(source, parts[i]) : i \in DOMAIN parts},
           range |-> ChangedLineRange(source, parts, new, Len(LinesOf(result)))]
-----------------------------------------------------------------------------
(* Unified diffs: a hunk is a sequence of rows [kind, text] *)

Rows(hunk, left_out) ==
  LET rows == SelectSeq(hunk, LAMBDA row : row.kind # left_out)
  IN [i \in DOMAIN rows |-> rows[i].text]

\* Where the hunk's old rows are all there; nowhere, for a hunk without any
ExactPositions(lines, old) ==
  {start \in 0..Len(lines) - Len(old) : old # <<>> /\ SubSeq(lines, start + 1, start + Len(old)) = old}

Positions(lines, old, fuzzy) ==
  LET exact == ExactPositions(lines, old)
  IN IF exact # {} \/ ~fuzzy \/ old = <<>> THEN exact ELSE Best(lines, Joined(old), Len(old))

\* Mutant: hunks move the lines of those after them.
SpliceForward(lines, parts) ==
  FoldLeft(LAMBDA result, part :
             SubSeq(result, 1, part.start) \o part.new
               \o SubSeq(result, part.start + part.count + 1, Len(result)),
           lines, parts)

\* From the last hunk to the first
SpliceAll(lines, parts) ==
  FoldRight(LAMBDA part, result :
              SubSeq(result, 1, part.start) \o part.new
                \o SubSeq(result, part.start + part.count + 1, Len(result)),
            parts, lines)

\* Every hunk changes something, is found at exactly one place, and none
\* overlaps another.
UnifiedDiff(source, request) ==
  LET lines == LinesOf(source)
      hunks == request.hunks
      Found(hunk) == Positions(lines, Rows(hunk, "+"), request.fuzzy)
      parts == SortSeq([i \in DOMAIN hunks |->
                          [start |-> CHOOSE start \in Found(hunks[i]) : TRUE,
                           count |-> Len(Rows(hunks[i], "+")), new |-> Rows(hunks[i], "-")]],
                       LAMBDA p, q : p.start < q.start)
      result == SpliceAll(lines, parts)
  IN IF \/ \E i \in DOMAIN hunks : \A j \in DOMAIN hunks[i] : hunks[i][j].kind = " "
        \/ \E i \in DOMAIN hunks : Cardinality(Found(hunks[i])) # 1
        \/ \E i \in 1..Len(parts) - 1 : parts[i].start + parts[i].count > parts[i + 1].start
     THEN Refusal
     ELSE [source |-> FromReplacement(Joined(result)
                        \o (IF EndsWithNewline(source) THEN <<"LF">> ELSE <<>>)).source,
           parts |-> parts,
           required |-> UNION {parts[i].start + 1..parts[i].start + parts[i].count : i \in DOMAIN parts},
           range |-> <<Larger(parts[1].start - 1, 1), Smaller(parts[1].start + 5, Len(result))>>]
=============================================================================
