--------------------------- MODULE HashlineApply ---------------------------
(***************************************************************************)
(* How a hashline edit turns the lines of its files into new lines         *)
(* (hashline_locator.rs, hashline_apply.rs, and the end of build_plan in   *)
(* hashline_plan.rs): the sections of one edit are resolved against what   *)
(* was shown of their files and applied one after the other, handing lines *)
(* on through registers.  Nothing is written here.                         *)
(*                                                                         *)
(* A text is its lines and whether its last line ends with a newline.  The *)
(* two-digit hash of an anchor is part of comparing a shown line with the  *)
(* present one, whose SHA-256 digests are compared as well.                *)
(***************************************************************************)
EXTENDS Integers, Sequences, FiniteSets, SequencesExt

CONSTANTS
  Line,        \* contents of one line (the empty line is left out)
  Anonymous,   \* the register without a name
  Register,    \* all registers, Anonymous included
  Empty,       \* what a register holds that holds nothing
  Unseen,      \* a line that was not shown
  Sections,    \* sections an edit may have
  Stored,      \* named registers earlier edits of the session may have left
  MaxSections  \* bound on the sections of one edit

EditText == {t \in [lines : Seq(Line), newline : BOOLEAN] : t.lines = <<>> => ~t.newline}

\* Operations, of which some concern several lines; 0 is a line not given.
Spans == {"put_range", "cut_range", "put_block", "cut_block", "put_after_block"}
Operation == [kind : Spans \cup {"put_before", "put_after", "put_begin", "put_end"},
              start : Nat, end : Nat, content : Register \cup Seq(Line)]

Cuts(op) == op.kind \in {"cut_range", "cut_block"}

ASSUME RegisterAssumption == Anonymous \in Register /\ Empty \notin EditText
ASSUME StoredAssumption ==
  Stored \subseteq {r \in [Register -> EditText \cup {Empty}] : r[Anonymous] = Empty}
ASSUME SectionsAssumption ==
  \A section \in Sections :
    /\ section.text \in EditText /\ section.operations \in Seq(Operation)
    /\ \A i \in DOMAIN section.operations :
         Cuts(section.operations[i]) => section.operations[i].content \in Register
ASSUME MaxSectionsAssumption == MaxSections \in Nat

VARIABLES
  slots,      \* named and anonymous registers while the edit is planned
  count,      \* sections applied
  applied,    \* the section applied last, and what became of its file
  outcome     \* "planning", or "refused" for good

planVars == <<slots, count, applied, outcome>>

-----------------------------------------------------------------------------
(* Locators *)

\* The lines of a section's file were shown, and are as they were shown.
Shown(section, lines) ==
  \A n \in lines : /\ n \in DOMAIN section.text.lines
                   /\ section.observed[n] = section.text.lines[n]

\* One operation's place: lines first..last go, what is put comes after line
\* gap.  Nothing goes when last < first.
Place(section, op) ==
  LET n == Len(section.text.lines)
      At(gap) == [gap |-> gap, first |-> gap + 1, last |-> gap]
  IN CASE op.kind \in {"put_range", "cut_range", "put_block", "cut_block"} ->
            [gap |-> op.start - 1, first |-> op.start, last |-> op.end]
       [] op.kind = "put_before" -> At(op.start - 1)
       [] op.kind = "put_after" -> At(op.start)
       [] op.kind = "put_after_block" -> At(op.end)
       [] op.kind = "put_begin" -> At(0)
       [] op.kind = "put_end" -> At(n)

\* Mutant: only the two ends of a range are compared.
AnchorsEndsOnly(section, op) ==
  LET n == Len(section.text.lines)
  IN CASE op.kind \in Spans ->
            {op.start, op.end}
       [] op.kind \in {"put_before", "put_after"} -> {op.start}
       [] op.kind = "put_begin" -> {1} \cap 1..n
       [] op.kind = "put_end" -> {n} \cap 1..n

\* The lines an operation must have been shown.  The end of a block is
\* where the parser found it.
Anchors(section, op) ==
  LET n == Len(section.text.lines)
  IN CASE op.kind \in Spans ->
            op.start..op.end
       [] op.kind \in {"put_before", "put_after"} -> {op.start}
       [] op.kind = "put_begin" -> {1} \cap 1..n
       [] op.kind = "put_end" -> {n} \cap 1..n

Resolvable(section, op) ==
  /\ op.kind \in Spans => op.start <= op.end
  /\ Shown(section, Anchors(section, op))
  /\ op.kind \in {"put_begin", "put_end"} /\ section.text.lines = <<>> => section.complete

Destroys(place) == place.first <= place.last

Overlap(p, q) == Destroys(p) /\ Destroys(q) /\ p.first <= q.last /\ q.first <= p.last

\* resolve_operations
Resolved(section) ==
  LET ops == section.operations
      At(i) == Place(section, ops[i])
  IN /\ \A i \in DOMAIN ops : Resolvable(section, ops[i])
     /\ \A i, j \in DOMAIN ops : i < j => ~Overlap(At(i), At(j))

-----------------------------------------------------------------------------
(* Operations in authored order: what is put and what registers hold *)

\* What a cut leaves in its register
CutText(text, op) ==
  [lines |-> SubSeq(text.lines, op.start, op.end),
   newline |-> op.end < Len(text.lines) \/ text.newline]

\* The unterminated end of a text takes the newline before it along.
TakesTail(text, op) == op.end = Len(text.lines) /\ ~text.newline /\ op.start > 1

\* What an operation puts in its place.  newline holds the new ending of the
\* text in case the edit replaces its end, or nothing.
Edit(section, op, order, registers) ==
  LET text == section.text
      place == Place(section, op)
      content ==
        CASE Cuts(op) -> [body |-> <<>>, newline |-> {b \in {TRUE} : TakesTail(text, op)}]
          [] ~Cuts(op) /\ op.content \in Register ->
               [body |-> registers[op.content].lines,
                newline |-> {registers[op.content].newline}]
          [] OTHER -> [body |-> op.content, newline |-> {}]
  IN [gap |-> place.gap, first |-> place.first, last |-> place.last,
      body |-> content.body, newline |-> content.newline, order |-> order]

Unavailable(op, registers) ==
  ~Cuts(op) /\ op.content \in Register /\ registers[op.content] = Empty

\* One operation: the edits so far, the registers, whether all went well
Perform(section, state, order) ==
  LET op == section.operations[order]
  IN IF ~state.ok \/ Unavailable(op, state.registers) THEN [state EXCEPT !.ok = FALSE]
     ELSE [ok |-> TRUE,
           edits |-> state.edits \cup {Edit(section, op, order, state.registers)},
           registers |-> IF Cuts(op)
                         THEN [state.registers EXCEPT ![op.content] = CutText(section.text, op)]
                         ELSE state.registers]

Performed(section, registers) ==
  LET after[n \in 0..Len(section.operations)] ==
        IF n = 0 THEN [ok |-> TRUE, edits |-> {}, registers |-> registers]
        ELSE Perform(section, after[n - 1], n)
  IN after[Len(section.operations)]

-----------------------------------------------------------------------------
(* apply_edits: from the last place to the first *)

\* Mutant: edits of one place are made in authored order.
LaterForward(e, f) == e.gap > f.gap \/ (e.gap = f.gap /\ e.order < f.order)

Later(e, f) == e.gap > f.gap \/ (e.gap = f.gap /\ e.order > f.order)

\* Mutant: any register put back decides about the last newline.
SpliceAnywhere(text, edit) ==
  [lines |-> SubSeq(text.lines, 1, edit.first - 1) \o edit.body
               \o SubSeq(text.lines, edit.last + 1, Len(text.lines)),
   newline |-> IF edit.newline # {} THEN CHOOSE b \in edit.newline : TRUE ELSE text.newline]

\* Mutant: the range is taken out with the line after it.
SpliceInclusive(text, edit) ==
  [lines |-> SubSeq(text.lines, 1, edit.first - 1) \o edit.body
               \o SubSeq(text.lines, edit.last + 2, Len(text.lines)),
   newline |-> IF edit.last = Len(text.lines) /\ edit.newline # {}
               THEN CHOOSE b \in edit.newline : TRUE ELSE text.newline]

Splice(text, edit) ==
  [lines |-> SubSeq(text.lines, 1, edit.first - 1) \o edit.body
               \o SubSeq(text.lines, edit.last + 1, Len(text.lines)),
   newline |-> IF edit.last = Len(text.lines) /\ edit.newline # {}
               THEN CHOOSE b \in edit.newline : TRUE ELSE text.newline]

\* join_lines: an empty text has no newline.
Joined(text) == [text EXCEPT !.newline = @ /\ text.lines # <<>>]

\* The n-th edit made
InTurn(edits, n) ==
  CHOOSE e \in edits : Cardinality({f \in edits : Later(f, e)}) = n - 1

ApplyEdits(text, edits) ==
  LET made[n \in 0..Cardinality(edits)] ==
        IF n = 0 THEN text ELSE Splice(made[n - 1], InTurn(edits, n))
  IN Joined(made[Cardinality(edits)])

\* The number of leading lines two texts share
Common(s, t) ==
  CHOOSE n \in 0..Len(s) :
    /\ n <= Len(t) /\ \A i \in 1..n : s[i] = t[i]
    /\ n < Len(s) /\ n < Len(t) => s[n + 1] # t[n + 1]

\* Mutant: the common end may reach back over the common beginning.
ChangedRangeOverlapping(before, after) ==
  LET prefix == Common(before, after)
      suffix == Common(Reverse(before), Reverse(after))
      end == Len(after) - suffix
      least == IF Len(after) > 1 THEN Len(after) ELSE 1
      start == IF prefix + 1 < least THEN prefix + 1 ELSE least
  IN [start |-> start, end |-> IF end > start THEN end ELSE start]

\* changed_range: the lines of the new text to present again
ChangedRange(before, after) ==
  LET prefix == Common(before, after)
      Rest(lines) == Reverse(SubSeq(lines, prefix + 1, Len(lines)))
      suffix == Common(Rest(before), Rest(after))
      end == Len(after) - suffix
      least == IF Len(after) > 1 THEN Len(after) ELSE 1
      start == IF prefix + 1 < least THEN prefix + 1 ELSE least
  IN [start |-> start, end |-> IF end > start THEN end ELSE start]

-----------------------------------------------------------------------------

Nothing == [section |-> Empty, edits |-> {}, text |-> [lines |-> <<>>, newline |-> FALSE]]

PlanInit ==
  /\ slots \in Stored
  /\ count = 0
  /\ applied = Nothing
  /\ outcome = "planning"

\* The next section is resolved and applied.
Apply(section) ==
  LET performed == Performed(section, slots)
  IN /\ outcome = "planning" /\ count < MaxSections
     /\ Resolved(section) /\ performed.ok
     /\ slots' = performed.registers
     /\ applied' = [section |-> section, edits |-> performed.edits,
                    text |-> ApplyEdits(section.text, performed.edits)]
     /\ count' = count + 1
     /\ UNCHANGED outcome

\* A section that cannot be resolved or applied refuses the whole edit; the
\* session keeps the named registers it had.
RefuseSection(section) ==
  /\ outcome = "planning" /\ count < MaxSections
  /\ ~Resolved(section) \/ ~Performed(section, slots).ok
  /\ outcome' = "refused"
  /\ UNCHANGED <<slots, count, applied>>

PlanNext == \E section \in Sections : Apply(section) \/ RefuseSection(section)

PlanSpec == PlanInit /\ [][PlanNext]_planVars
-----------------------------------------------------------------------------
(* Properties *)

PlanTypeOK ==
  /\ slots \in [Register -> EditText \cup {Empty}]
  /\ count \in 0..MaxSections
  /\ applied.text \in EditText
  /\ outcome \in {"planning", "refused"}

Original == applied.section.text
Edits == applied.edits

\* Nothing is put into or right before a range by an operation written after
\* the one that replaces it, nor anywhere inside it.
PutsKeepClear ==
  \A e, f \in Edits :
    Destroys(f) /\ ~Destroys(e) =>
      \/ e.gap < f.gap \/ e.gap >= f.last
      \/ e.gap = f.gap /\ e.order < f.order

\* All edits at once: at each place what was put there, in authored order,
\* and then the original line if no edit names it.
AtOnce ==
  LET n == Len(Original.lines)
      PutAt(gap) == SetToSortSeq({e \in Edits : e.gap = gap}, LAMBDA e, f : e.order < f.order)
      Bodies(gap) == FlattenSeq([i \in DOMAIN PutAt(gap) |-> PutAt(gap)[i].body])
      Kept(line) == ~\E e \in Edits : line \in e.first..e.last
  IN FlattenSeq([i \in 1..n + 1 |->
       Bodies(i - 1) \o IF i <= n /\ Kept(i) THEN <<Original.lines[i]>> ELSE <<>>])

\* The new text ends with a newline exactly if its last line did where it
\* came from: the file, a register, or, when written out, the file's end.
NewlineFollowsTheLastLine ==
  LET n == Len(Original.lines)
      At(gap) == {e \in Edits : e.gap = gap /\ e.body # <<>>}
      Kept(line) == ~\E e \in Edits : line \in e.first..e.last
      from == CHOOSE g \in 0..n : /\ At(g) # {} \/ (g > 0 /\ Kept(g))
                                  /\ \A h \in g + 1..n : At(h) = {} /\ ~Kept(h)
      last == CHOOSE e \in At(from) : \A f \in At(from) : e.order >= f.order
      tailCut == \E e \in Edits : e.last = n /\ e.body = <<>> /\ e.first > 1
  IN count > 0 /\ PutsKeepClear /\ applied.text.lines # <<>> =>
       applied.text.newline =
         IF At(from) = {} THEN from < n \/ Original.newline
         ELSE IF last.newline # {} THEN TRUE \in last.newline
         ELSE Original.newline \/ (tailCut /\ from < n)

\* The file becomes what its edits say of the lines that were shown, all of
\* them at once, its last newline included, although they are made one after
\* the other and move each other's lines (hashline_apply.rs:69-86).
EditsApplyAtOnce ==
  /\ count > 0 /\ PutsKeepClear => applied.text.lines = AtOnce
  /\ NewlineFollowsTheLastLine

\* A line that was not shown, or is not as it was shown, is not lost: all of
\* them are in the new text, in the order of the file, whatever operations
\* are made around them, one after the other (hashline_locator.rs:87-149 asks
\* for the lines named, hashline_apply.rs:69-86 splices by line numbers).
UnshownLinesSurvive ==
  LET unshown == {n \in DOMAIN Original.lines : applied.section.observed[n] # Original.lines[n]}
      after == applied.text.lines
  IN count > 0 =>
       \E at \in [unshown -> DOMAIN after] :
         /\ \A m, n \in unshown : m < n => at[m] < at[n]
         /\ \A n \in unshown : after[at[n]] = Original.lines[n]

\* Lines outside the range presented after an edit are those the file had.
ChangedRangeCoversTheChange ==
  LET before == Original.lines
      after == applied.text.lines
      range == ChangedRange(before, after)
      below == Len(after) - range.end
  IN count > 0 /\ before # after /\ after # <<>> =>
       /\ range.start \in 1..Len(after) /\ range.end \in range.start..Len(after)
       /\ SubSeq(after, 1, range.start - 1) = SubSeq(before, 1, range.start - 1)
       /\ below <= Len(before) - (range.start - 1)
       /\ SubSeq(after, range.end + 1, Len(after)) =
            SubSeq(before, Len(before) - below + 1, Len(before))
=============================================================================
