------------------------------ MODULE TextFiles ------------------------------
(***************************************************************************)
(* One file that is read and edited.  A small file is read as a whole      *)
(* (read_file in file_read.rs); a file beyond the limit of observations is *)
(* scanned, chunk by chunk, and only the selected lines are kept           *)
(* (read_ranges.rs).  The file is edited by replacing text or by a unified *)
(* diff, and written back in its own encoding.  Who may edit, and the      *)
(* writing itself, are in ObservationLedger and WorkspaceMutations.        *)
(***************************************************************************)
EXTENDS TextEdits

CONSTANTS
  Files,         \* contents the file may have
  Reads,         \* read requests: [ranges, budget (max_read_bytes), limit]
  Replacements,  \* replacement requests: [old, new, all, fuzzy]
  Diffs          \* patch updates: [hunks, fuzzy]

VARIABLES
  file,  \* the file's bytes
  read,  \* the read under way, or its result
  edit   \* the edit made, with the bytes it writes

vars == <<file, read, edit>>

NoRead == [phase |-> "none"]
NoEdit == [kind |-> "none"]
RefusedRead(request) == [phase |-> "refused", request |-> request]
RefusedEdit == [kind |-> "refused"]

Idle == read = NoRead /\ edit = NoEdit

Init == file \in Files /\ read = NoRead /\ edit = NoEdit
-----------------------------------------------------------------------------
(* The scanner of oversized files *)

NewScan(budget) ==
  [line |-> 1, index |-> 1, lines |-> <<>>, current |-> <<>>, left |-> budget,
   full |-> FALSE, any |-> FALSE, ends |-> FALSE, cr |-> FALSE]

\* current_selected
Selected(ranges, scan) ==
  /\ scan.index \in DOMAIN ranges
  /\ ranges[scan.index][1] <= scan.line /\ scan.line <= ranges[scan.index][2]

WithoutBom(bytes) == IF IsPrefix(Bom, bytes) THEN SubSeq(bytes, 4, Len(bytes)) ELSE bytes

\* finish_line
FinishLine(ranges, scan) ==
  LET source == IF scan.line = 1 THEN WithoutBom(scan.current) ELSE scan.current
      kept == IF ~Selected(ranges, scan) \/ scan.full THEN scan
              ELSE IF Len(source) > scan.left THEN [scan EXCEPT !.full = TRUE]
              ELSE [scan EXCEPT !.left = @ - Len(source), !.lines = Append(@, <<scan.line, source>>)]
  IN [kept EXCEPT !.current = <<>>, !.line = @ + 1,
                  !.index = 1 + Cardinality({i \in DOMAIN ranges : ranges[i][2] <= scan.line})]

\* push_line_byte: a line longer than what is left is not kept; a first line
\* may begin with a byte order mark.
PushLineByte(ranges, scan, byte) ==
  IF ~Selected(ranges, scan) \/ scan.full THEN scan
  ELSE IF Len(scan.current) >= scan.left + (IF scan.line = 1 THEN 3 ELSE 0)
  THEN [scan EXCEPT !.current = <<>>, !.full = TRUE]
  ELSE [scan EXCEPT !.current = Append(@, byte)]

\* The LF of a CR LF ends no line.
PushByte(ranges, scan, byte) ==
  IF scan.cr /\ byte = "LF" THEN [scan EXCEPT !.cr = FALSE]
  ELSE IF byte \in {"CR", "LF"}
  THEN [FinishLine(ranges, scan) EXCEPT !.any = TRUE, !.ends = TRUE, !.cr = byte = "CR"]
  ELSE [PushLineByte(ranges, scan, byte) EXCEPT !.any = TRUE, !.ends = FALSE, !.cr = FALSE]

\* Mutant: a CR at the end of a chunk is forgotten.
PushChunkAlone(ranges, scan, chunk) ==
  FoldLeft(LAMBDA s, byte : PushByte(ranges, s, byte), [scan EXCEPT !.cr = FALSE], chunk)

PushChunk(ranges, scan, chunk) ==
  FoldLeft(LAMBDA s, byte : PushByte(ranges, s, byte), scan, chunk)

Finish(ranges, scan) == IF scan.any /\ ~scan.ends THEN FinishLine(ranges, scan) ELSE scan
-----------------------------------------------------------------------------
(* Reading *)

RefuseRead(request) ==
  /\ Idle
  /\ \/ Refusable(request.ranges, MaxUsize)
     \/ Len(file) <= request.limit /\ ~Decodable(file)
  /\ read' = RefusedRead(request)
  /\ UNCHANGED <<file, edit>>

\* A file within the limit is decoded and rendered; all lines are presented
\* when none is missing.
ReadWhole(request) ==
  LET source == Decode(file).source
      total == Len(LinesOf(source))
      lines == Rendered(source, NormalizedRanges(request.ranges, total), request.budget)
  IN /\ Idle /\ ~Refusable(request.ranges, MaxUsize)
     /\ Len(file) <= request.limit /\ Decodable(file)
     /\ read' = [phase |-> "read", request |-> request, lines |-> lines, total |-> total,
                 complete |-> Len(lines) = total]
     /\ UNCHANGED <<file, edit>>

BeginScan(request) ==
  /\ Idle /\ ~Refusable(request.ranges, MaxUsize)
  /\ Len(file) > request.limit
  /\ read' = [phase |-> "scanning", request |-> request, at |-> 0, carry |-> <<>>,
              scan |-> NewScan(request.budget)]
  /\ UNCHANGED <<file, edit>>

\* The next chunk is refused with a NUL or when it is not UTF-8 after what
\* the last one left unfinished.
ScanChunk(size) ==
  LET chunk == SubSeq(file, read.at + 1, read.at + size)
      bytes == read.carry \o chunk
      ranges == NormalizedRanges(read.request.ranges, MaxUsize)
  IN /\ read.phase = "scanning" /\ read.at + size <= Len(file)
     /\ read' = IF "NUL" \in ToSet(chunk) \/ ~WellFormed(bytes) THEN RefusedRead(read.request)
                ELSE [read EXCEPT !.at = @ + size, !.carry = Unfinished(bytes),
                                  !.scan = PushChunk(ranges, @, chunk)]
     /\ UNCHANGED <<file, edit>>

EndScan ==
  /\ read.phase = "scanning" /\ read.at = Len(file)
  /\ read' = IF read.carry # <<>> THEN RefusedRead(read.request)
             ELSE LET scan == Finish(NormalizedRanges(read.request.ranges, MaxUsize), read.scan)
                  IN [phase |-> "scanned", request |-> read.request, lines |-> scan.lines,
                      total |-> scan.line - 1, complete |-> FALSE]
  /\ UNCHANGED <<file, edit>>
-----------------------------------------------------------------------------
(* Editing *)

\* An edit writes its text in the encoding the file has.  The ledger refuses
\* lines that are not there.
Write(kind, request, result) ==
  LET text == Decode(file)
  IN edit' = IF result = Refusal \/ ~(result.required \subseteq DOMAIN LinesOf(text.source))
             THEN RefusedEdit
             ELSE result @@ [kind |-> kind, request |-> request,
                             written |-> Serialize(result.source, text)]

Replace(request) ==
  /\ Idle /\ Decodable(file)
  /\ Write("replacement", request, Replacement(Decode(file).source, request))
  /\ UNCHANGED <<file, read>>

Update(request) ==
  /\ Idle /\ Decodable(file)
  /\ Write("diff", request, UnifiedDiff(Decode(file).source, request))
  /\ UNCHANGED <<file, read>>

Next ==
  \/ \E request \in Reads : RefuseRead(request) \/ ReadWhole(request) \/ BeginScan(request)
  \/ \E size \in 1..Len(file) : ScanChunk(size)
  \/ EndScan
  \/ \E request \in Replacements : Replace(request)
  \/ \E request \in Diffs : Update(request)

Spec == Init /\ [][Next]_vars
-----------------------------------------------------------------------------
(* Properties *)

Text == Decode(file)
Before == LinesOf(Text.source)
After == LinesOf(edit.source)
\* Of texts with U+FEFF inside nothing is said: where an edit makes it the
\* first character it is dropped as a byte order mark.
Edited(kinds) == edit.kind \in kinds /\ ToSet(Bom) \cap ToSet(Text.source) = {}

\* However a file is cut into chunks, scanning it selects the lines a whole
\* read would, counts the same lines and refuses the same files.  (A file of
\* nothing but a byte order mark has one empty line for the scanner and none
\* for a whole read.)
ReadersAgree ==
  /\ read.phase = "scanned" =>
       /\ Decodable(file)
       /\ file # Bom =>
            /\ read.total = Len(Before)
            /\ read.lines = Rendered(Text.source, NormalizedRanges(read.request.ranges, read.total),
                                     read.request.budget)
  /\ read.phase = "refused" =>
       ~Decodable(file) \/ Refusable(read.request.ranges, MaxUsize)

\* The kinds of line ending in some bytes
Endings(bytes) ==
  LET At(i) == IF bytes[i] = "CR" THEN (IF i < Len(bytes) /\ bytes[i + 1] = "LF" THEN "CRLF" ELSE "CR")
               ELSE IF i > 1 /\ bytes[i - 1] = "CR" THEN "CRLF" ELSE "LF"
  IN {At(i) : i \in {j \in DOMAIN bytes : bytes[j] \in {"CR", "LF"}}}

\* In a file with one kind of line ending, the bytes that native searches and
\* the host take for a line are those of the line, and both count alike.
SpansFindTheirLines ==
  Decodable(file) /\ Cardinality(Endings(file)) <= 1 =>
    \A n \in DOMAIN Before :
      LET bounds == SerializedLineBounds(Text, n)
      IN /\ bounds = ProviderLineBounds(Before, Text)[n]
         /\ SubSeq(file, bounds[1] + 1, bounds[2]) = Before[n]

\* The lines whose newline a replacement takes without putting one back
Opened(n) ==
  /\ edit.kind = "replacement" /\ ~EndsWithNewline(FromReplacement(edit.request.new).source)
  /\ \E i \in DOMAIN edit.parts :
       LET end == edit.parts[i][2]
       IN /\ edit.parts[i][1] < end /\ Text.source[end] = "LF"
          /\ Newlines(Text.source, end) = n

\* Every line that need not have been observed is in the new text, in order;
\* except that a line may join what replaces the newline before it.  (An
\* empty last line may be there as the end of the newline before it.)
UnobservedLinesSurvive ==
  Edited({"replacement", "diff"}) =>
    LET pieces == IF After = <<>> \/ EndsWithNewline(edit.source) THEN Append(After, <<>>) ELSE After
        spared == SelectSeq([n \in DOMAIN Before |-> n],
                            LAMBDA n : n \notin edit.required /\ ~Opened(n - 1))
        Found(at, n) == LET places == {k \in at + 1..Len(pieces) : pieces[k] = Before[n]}
                        IN IF places = {} THEN Len(pieces) + 1
                           ELSE CHOOSE k \in places : \A l \in places : k <= l
    IN FoldLeft(Found, 0, spared) <= Len(pieces)

\* Lines outside the range presented after a replacement of one part are
\* those the file had.
PresentedRangeCoversTheChange ==
  Edited({"replacement"}) /\ Len(edit.parts) = 1 /\ After # <<>> =>
    LET above == edit.range[1] - 1
        below == Len(After) - edit.range[2]
    IN /\ above <= Len(Before) /\ below <= Len(Before) /\ below >= 0
       /\ SubSeq(After, 1, above) = SubSeq(Before, 1, above)
       /\ SubSeq(After, edit.range[2] + 1, Len(After)) = SubSeq(Before, Len(Before) - below + 1, Len(Before))

\* The hunks of a diff give what all of them at once would: every line that
\* none of them names, and in the place of a hunk's old rows its new ones.
HunksApplyAtOnce ==
  Edited({"diff"}) =>
    LET Of(n) == {i \in DOMAIN edit.parts :
                    n \in edit.parts[i].start + 1..edit.parts[i].start + edit.parts[i].count}
        At(n) == IF Of(n) = {} THEN <<Before[n]>>
                 ELSE LET part == edit.parts[CHOOSE i \in Of(n) : TRUE]
                      IN IF n = part.start + 1 THEN part.new ELSE <<>>
        expected == FlattenSeq([n \in DOMAIN Before |-> At(n)])
    IN /\ \A n \in DOMAIN Before : Cardinality(Of(n)) <= 1
       /\ edit.source = Joined(expected) \o (IF EndsWithNewline(Text.source) THEN <<"LF">> ELSE <<>>)

\* What an edit writes reads back as the text it made, with the byte order
\* mark and the line ending the file had, and no other.
EditsKeepTheEncoding ==
  Edited({"replacement", "diff"}) =>
    LET again == Decode(edit.written)
    IN /\ Decodable(edit.written)
       /\ again.source = edit.source /\ again.bom = Text.bom
       /\ "LF" \in ToSet(edit.source) => again.ending = Text.ending /\ Cardinality(Endings(edit.written)) = 1
=============================================================================
