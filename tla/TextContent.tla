----------------------------- MODULE TextContent -----------------------------
(***************************************************************************)
(* Bytes, texts and lines (content.rs, the selection of lines of           *)
(* file_read.rs, and the host's counterpart in source_validation.py).      *)
(*                                                                         *)
(* A file is a sequence of bytes, each named: "CR", "LF" and "NUL"; "b1",  *)
(* "b2", "b3", the byte order mark; "e1", "e2", one two-byte character;    *)
(* and every other name, a character of one byte.  Offsets count from 0    *)
(* and bounds leave their end out, as in the source.                       *)
(***************************************************************************)
EXTENDS Integers, Sequences, FiniteSets, SequencesExt

CONSTANT MaxUsize  \* usize::MAX

ASSUME UsizeAssumption == MaxUsize \in Nat \ {0}

Bom == <<"b1", "b2", "b3">>
\* The byte a byte needs after it
Needs == [e1 |-> "e2", b1 |-> "b2", b2 |-> "b3"]
Continuation == {Needs[byte] : byte \in DOMAIN Needs}

\* No byte where it cannot be; the last character may be unfinished.
WellFormed(bytes) ==
  /\ \A i \in 1..Len(bytes) - 1 : bytes[i] \in DOMAIN Needs => bytes[i + 1] = Needs[bytes[i]]
  /\ \A i \in DOMAIN bytes : bytes[i] \in Continuation => i > 1 /\ bytes[i - 1] \in DOMAIN Needs

\* The bytes of an unfinished last character
Unfinished(bytes) ==
  IF bytes = <<>> \/ Last(bytes) \notin DOMAIN Needs THEN <<>>
  ELSE IF Last(bytes) = "b2" THEN <<"b1", "b2">> ELSE <<Last(bytes)>>

Decodable(bytes) ==
  "NUL" \notin ToSet(bytes) /\ WellFormed(bytes) /\ Unfinished(bytes) = <<>>
-----------------------------------------------------------------------------
(* Line endings *)

Has(s, first, second) == \E i \in 1..Len(s) - 1 : s[i] = first /\ s[i + 1] = second

LineEnding(s) ==
  IF Has(s, "CR", "LF") THEN <<"CR", "LF">> ELSE IF "CR" \in ToSet(s) THEN <<"CR">> ELSE <<"LF">>

\* CR LF and CR become LF.
Normalize(s) ==
  LET kept == SelectSeq([i \in DOMAIN s |-> i],
                        LAMBDA i : ~(s[i] = "LF" /\ i > 1 /\ s[i - 1] = "CR"))
  IN [k \in DOMAIN kept |-> IF s[kept[k]] = "CR" THEN "LF" ELSE s[kept[k]]]

Decode(bytes) ==
  LET bom == IsPrefix(Bom, bytes)
      rest == IF bom THEN SubSeq(bytes, 4, Len(bytes)) ELSE bytes
  IN [source |-> Normalize(rest), bom |-> bom, ending |-> LineEnding(rest)]

\* Text handed in for an edit is read the same way.
FromReplacement(source) == Decode(source)

\* Mutant: a text is written with its own line ending, LF.
SerializeNormalized(source, text) == (IF text.bom THEN Bom ELSE <<>>) \o source

\* A normalized source, encoded as a text is
Serialize(source, text) ==
  (IF text.bom THEN Bom ELSE <<>>)
    \o FlattenSeq([i \in DOMAIN source |-> IF source[i] = "LF" THEN text.ending ELSE <<source[i]>>])
-----------------------------------------------------------------------------
(* Lines *)

Smaller(a, b) == IF a < b THEN a ELSE b
Larger(a, b) == IF a > b THEN a ELSE b

\* Newlines among the first n bytes
Newlines(source, n) == Cardinality({i \in 1..n : source[i] = "LF"})

EndsWithNewline(source) == source # <<>> /\ Last(source) = "LF"

\* Start and end of each line.  A final newline begins no line of its own.
LineBounds(source) ==
  IF source = <<>> THEN <<>>
  ELSE LET logicalEnd == IF EndsWithNewline(source) THEN Len(source) - 1 ELSE Len(source)
           breaks == SelectSeq([i \in 1..logicalEnd |-> i], LAMBDA i : source[i] = "LF")
           starts == <<0>> \o breaks
           ends == [k \in DOMAIN breaks |-> breaks[k] - 1] \o <<logicalEnd>>
       IN [k \in DOMAIN starts |-> <<starts[k], ends[k]>>]

LinesOf(source) ==
  LET bounds == LineBounds(source)
  IN [n \in DOMAIN bounds |-> SubSeq(source, bounds[n][1] + 1, bounds[n][2])]

BomBytes(text) == IF text.bom THEN 3 ELSE 0

\* Mutant: a line counts its own ending among those before it.
SerializedLineBoundsAfter(text, n) ==
  LET bounds == LineBounds(text.source)[n]
      offset == BomBytes(text) + (IF Len(text.ending) = 2 THEN n ELSE 0)
  IN <<bounds[1] + offset, bounds[2] + offset>>

\* Where a line is in the file's bytes
SerializedLineBounds(text, n) ==
  LET bounds == LineBounds(text.source)[n]
      offset == BomBytes(text) + (IF Len(text.ending) = 2 THEN n - 1 ELSE 0)
  IN <<bounds[1] + offset, bounds[2] + offset>>

\* The same, as the host counts it from the lines a provider returned
ProviderLineBounds(lines, text) ==
  [n \in DOMAIN lines |->
     LET start == FoldLeft(LAMBDA offset, line : offset + Len(line) + Len(text.ending),
                           BomBytes(text), SubSeq(lines, 1, n - 1))
     IN <<start, start + Len(lines[n])>>]
-----------------------------------------------------------------------------
(* Selected lines *)

\* A range of lines is <<first, last>>.
Disordered(ranges) == \E i \in DOMAIN ranges : ranges[i][1] = 0 \/ ranges[i][2] < ranges[i][1]

\* The ranges that have lines, cut at the last line and in order
Clipped(ranges, total) ==
  SortSeq(SelectSeq([i \in DOMAIN ranges |-> <<ranges[i][1], Smaller(ranges[i][2], total)>>],
                    LAMBDA range : range[1] <= total),
          LAMBDA p, q : p[1] < q[1])

Overlapping(ranges) == \E i \in 1..Len(ranges) - 1 : ranges[i + 1][1] <= ranges[i][2]

\* Ranges next to each other become one.
Merged(ranges) ==
  FoldLeft(LAMBDA merged, range :
             IF merged # <<>> /\ range[1] = Last(merged)[2] + 1
             THEN Append(Front(merged), <<Last(merged)[1], range[2]>>)
             ELSE Append(merged, range),
           <<>>, ranges)

\* normalize_read_ranges refuses the ranges, or gives these.
Refusable(ranges, total) == Disordered(ranges) \/ Overlapping(Clipped(ranges, total))
NormalizedRanges(ranges, total) ==
  IF ranges # <<>> THEN Merged(Clipped(ranges, total))
  ELSE IF total = 0 THEN <<>> ELSE <<<<1, total>>>>

\* bounded_render: numbered lines up to the first that exceeds what is left
Rendered(source, ranges, budget) ==
  LET lines == LinesOf(source)
      numbers == FlattenSeq([i \in DOMAIN ranges |->
                   [k \in 1..ranges[i][2] - ranges[i][1] + 1 |-> ranges[i][1] + k - 1]])
      Take(state, n) ==
        IF state.full \/ Len(lines[n]) > state.left THEN [state EXCEPT !.full = TRUE]
        ELSE [state EXCEPT !.left = @ - Len(lines[n]), !.lines = Append(@, <<n, lines[n]>>)]
  IN FoldLeft(Take, [lines |-> <<>>, left |-> budget, full |-> FALSE], numbers).lines
=============================================================================
