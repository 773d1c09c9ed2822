--------------------------- MODULE HashlineCommit ---------------------------
(***************************************************************************)
(* One hashline edit being committed (hashline.rs), under the write guard: *)
(* its planned files one after the other, a file that is removed or moved  *)
(* being renamed into a staging directory first and linked back when       *)
(* something fails.  Every file operation may fail, the caller may cancel, *)
(* the session may be closed, and programs outside Ovid may write.         *)
(*                                                                         *)
(* A file is its text and whether it is the very file whose identity the   *)
(* plan recorded for its path.  ensure_current_file looks twice, at the    *)
(* identity and at the text; a file replaced in between passes or fails as *)
(* one replaced before or after both.                                      *)
(***************************************************************************)
EXTENDS Integers, Sequences, FiniteSets, SequencesExt

CONSTANTS
  Path,         \* paths of the root
  Absent,       \* no file
  Other,        \* the text programs outside Ovid write
  Plans,        \* plans build_plan may return, as sequences of sections
  FirstTexts,   \* what is on disk when the files are planned
  MaxForeign    \* bound on the writes by programs outside Ovid

\* The text of a path when it was planned, and what the edit makes of it.
Old(path) == <<path, "old">>
New(path) == <<path, "new">>
Text == {Old(p) : p \in Path} \cup {New(p) : p \in Path} \cup {Other}
File == [text : Text, planned : BOOLEAN]

\* What happens to a planned file: HashlineFilePlan's remove, destination,
\* and whether the final source differs.
Kind == {"keep", "update", "remove", "move", "move_update"}
Section == [path : Path, kind : Kind, destination : Path \cup {Absent}]

ASSUME PathAssumption == Absent \notin Path /\ Absent \notin File
ASSUME MaxForeignAssumption == MaxForeign \in Nat

VARIABLES
  plan,       \* HashlinePlan.files
  index,      \* the file being committed
  pc,         \* where its commit is
  disk,       \* the file at each path
  source,     \* the staged source of the file, or Absent
  final,      \* the edited copy in the staging directory, or Absent
  kept,       \* texts left in staging directories that were kept
  revision,   \* changes marked
  registers,  \* the session's named registers: "before", "after" or "cleared"
  cancelled, closed, foreign,
  answer,     \* what the caller gets
  done        \* history: files of the plan whose change is in effect

callVars == <<plan, index, pc, answer, done>>
fileVars == <<disk, source, final, kept>>
sessionVars == <<revision, registers>>
elseVars == <<cancelled, closed, foreign>>
vars == <<callVars, fileVars, sessionVars, elseVars>>

Answer(result) == [result |-> result, landed |-> {}, pending |-> {}, changes |-> {}]
Pending == Answer("none")

\* A plan names each path once, and where a file goes that moves (build_plan).
PlanOK(sections) ==
  /\ sections \in Seq(Section) /\ sections # <<>>
  /\ \A i \in DOMAIN sections :
       sections[i].kind \in {"move", "move_update"} => sections[i].destination # Absent
  /\ \A i, j \in DOMAIN sections :
       /\ i # j => sections[i].path # sections[j].path
       /\ sections[i].destination # sections[j].path
       /\ i # j /\ sections[i].destination # Absent =>
            sections[i].destination # sections[j].destination
ASSUME PlansAssumption == \A sections \in Plans : PlanOK(sections)

\* A plan is made of files that were read.
ASSUME FirstTextsAssumption ==
  \A texts \in FirstTexts :
    /\ DOMAIN texts = Path
    /\ \A path \in Path : texts[path] \in {Old(path), Absent}
    /\ \A sections \in Plans : \A i \in DOMAIN sections : texts[sections[i].path] # Absent

Init ==
  /\ plan \in Plans
  /\ index = 1 /\ pc = "next"
  /\ \E texts \in FirstTexts :
       disk = [p \in Path |-> IF texts[p] = Absent THEN Absent
                              ELSE [text |-> texts[p], planned |-> TRUE]]
  /\ source = Absent /\ final = Absent /\ kept = {}
  /\ revision = 0 /\ registers = "before"
  /\ cancelled = FALSE /\ closed = FALSE /\ foreign = 0
  /\ answer = Pending
  /\ done = {}

-----------------------------------------------------------------------------
(* What the steps share *)

Current == plan[index]
PathsOf(indices) == {plan[i].path : i \in indices}
Made(file) == [text |-> file, planned |-> FALSE]

\* What the file holds once it is committed
FinalText(section) ==
  IF section.kind \in {"update", "move_update"} THEN New(section.path) ELSE Old(section.path)

At(step) == pc = step /\ UNCHANGED elseVars
Goto(step) == pc' = step /\ UNCHANGED <<plan, index, answer, done>>
Finish(now) == pc' = "done" /\ answer' = now /\ UNCHANGED <<plan, index, done>>

\* The change of the current file takes effect.
Land(step) == pc' = step /\ done' = done \cup {index} /\ UNCHANGED <<plan, index, answer>>

\* Mutant: the failing file counts as landed.
FailingOffByOne(inner) ==
  IF index = 1 THEN inner
  ELSE [result |-> "partial", landed |-> PathsOf(1..index),
        pending |-> PathsOf(index + 1..Len(plan)), changes |-> 1..index - 1]

\* The current file fails: alone, or with the files before it landed.
Failing(inner) ==
  IF index = 1 THEN inner
  ELSE [result |-> "partial", landed |-> PathsOf(1..index - 1),
        pending |-> PathsOf(index..Len(plan)), changes |-> 1..index - 1]

Fail(result) == Finish(Failing(Answer(result)))

\* A partial commit of the current file itself
FailPartly(landed, pending) ==
  Finish(Failing([Answer("partial") EXCEPT !.landed = landed, !.pending = pending]))

\* The staging directory is removed with what is in it, or kept.
Dropped == source' = Absent /\ final' = Absent /\ UNCHANGED kept
KeptFiles ==
  /\ source' = Absent /\ final' = Absent
  /\ kept' = kept \cup {f.text : f \in {source, final} \ {Absent}}

\* Mutant: the staging directory goes whether or not the file is back.
RestoreOrDrop(result) ==
  \/ /\ disk[Current.path] = Absent
     /\ disk' = [disk EXCEPT ![Current.path] = source]
     /\ Dropped /\ Fail(result)
  \/ /\ Dropped /\ UNCHANGED disk
     /\ FailPartly({}, {Current.path})

\* restore_or: link the source back, or keep it where it is.
RestoreOr(result) ==
  \/ /\ disk[Current.path] = Absent
     /\ disk' = [disk EXCEPT ![Current.path] = source]
     /\ Dropped /\ Fail(result)
  \/ /\ KeptFiles /\ UNCHANGED disk
     /\ FailPartly({}, {Current.path})

-----------------------------------------------------------------------------
(* The files, one after the other *)

\* The loop of apply_hashline: cancellation, the next file, or the end, when
\* the session's named registers become those of the edit.
NextFile ==
  /\ At("next") /\ UNCHANGED <<fileVars, revision>>
  /\ IF index > Len(plan)
     THEN /\ registers' = "after"
          /\ Finish([Answer("ok") EXCEPT !.changes = DOMAIN plan])
     ELSE /\ UNCHANGED registers
          /\ IF cancelled THEN Finish(Answer("cancelled")) ELSE Goto("check")

\* The file as it was planned
IsPlanned(file, section) ==
  file # Absent /\ file.planned /\ file.text = Old(section.path)

Check ==
  /\ At("check") /\ UNCHANGED <<fileVars, sessionVars>>
  /\ IF ~IsPlanned(disk[Current.path], Current) THEN Fail("stale")
     ELSE Goto(CASE Current.kind = "remove" -> "stage"
                 [] Current.kind \in {"move", "move_update"} -> "resolve"
                 [] Current.kind = "update" -> "verify"
                 [] OTHER -> "mark")

\* atomic_replace_path looks at the text only ...
Verify ==
  /\ At("verify") /\ UNCHANGED <<fileVars, sessionVars>>
  /\ IF disk[Current.path] = Absent THEN Fail("stale")
     ELSE IF disk[Current.path].text # Old(Current.path) THEN Fail("stale")
     ELSE Goto("persist")

\* ... and replaces the file.
Persist ==
  /\ At("persist") /\ UNCHANGED <<source, final, kept, sessionVars>>
  /\ \/ Fail("write") /\ UNCHANGED disk
     \/ /\ disk' = [disk EXCEPT ![Current.path] = Made(New(Current.path))]
        /\ Land("mark")

\* resolve_new_file of the destination
Resolve ==
  /\ At("resolve") /\ UNCHANGED <<fileVars, sessionVars>>
  /\ \/ Fail("path")
     \/ disk[Current.destination] = Absent /\ Goto("stage")

-----------------------------------------------------------------------------
(* Staged files *)

\* stage_hashline_file: whatever is at the path is renamed away ...
Stage ==
  /\ At("stage") /\ UNCHANGED <<final, kept, sessionVars>>
  /\ \/ Fail("write") /\ UNCHANGED <<disk, source>>
     \/ /\ disk[Current.path] # Absent
        /\ source' = disk[Current.path]
        /\ disk' = [disk EXCEPT ![Current.path] = Absent]
        /\ Goto("recheck")

AfterStaging(section) ==
  CASE section.kind = "remove" -> "delete"
    [] section.kind = "move_update" -> "prepare"
    [] OTHER -> "link"

\* ... and compared with the plan where nobody else finds it.
Recheck ==
  /\ At("recheck") /\ UNCHANGED sessionVars
  /\ IF IsPlanned(source, Current)
     THEN Goto(AfterStaging(Current)) /\ UNCHANGED fileVars
     ELSE RestoreOr("stale")

\* StagedHashlineFile::remove
Delete ==
  /\ At("delete") /\ UNCHANGED sessionVars
  /\ \/ RestoreOr("write")
     \/ Dropped /\ UNCHANGED disk /\ Land("mark")

\* The edited text is written to a copy of the source.
Prepare ==
  /\ At("prepare") /\ UNCHANGED sessionVars
  /\ \/ RestoreOr("write")
     \/ /\ final' = Made(New(Current.path))
        /\ Goto("link") /\ UNCHANGED <<disk, source, kept>>

\* The destination is linked, never overwritten.
Link ==
  /\ At("link") /\ UNCHANGED sessionVars
  /\ \/ RestoreOr("write")
     \/ /\ disk[Current.destination] = Absent
        /\ disk' = [disk EXCEPT ![Current.destination] = IF final = Absent THEN source ELSE final]
        /\ Goto("unstage") /\ UNCHANGED <<source, final, kept>>

\* The staged source is removed; the edited copy, if any, after it.
Unstage ==
  /\ At("unstage") /\ UNCHANGED <<disk, kept, sessionVars>>
  /\ \/ Goto("rollback") /\ UNCHANGED <<source, final>>
     \/ /\ source' = Absent /\ UNCHANGED final
        /\ Land(IF final = Absent THEN "mark" ELSE "unfinal")

\* Mutant: the source is not restored after a rollback.
RollbackOnly ==
  /\ At("rollback") /\ UNCHANGED sessionVars
  /\ \/ /\ disk' = [disk EXCEPT ![Current.destination] = Absent]
        /\ Dropped /\ Fail("write")
     \/ /\ KeptFiles /\ UNCHANGED disk
        /\ FailPartly({Current.destination}, {Current.path})

\* The source stays: the destination is removed again, whatever it is by
\* then, and the source restored; or both stay.
Rollback ==
  /\ At("rollback") /\ UNCHANGED sessionVars
  /\ \/ /\ disk[Current.destination] # Absent
        /\ \/ /\ disk[Current.path] = Absent
              /\ disk' = [disk EXCEPT ![Current.destination] = Absent, ![Current.path] = source]
              /\ Dropped /\ Fail("write")
           \/ /\ disk' = [disk EXCEPT ![Current.destination] = Absent]
              /\ KeptFiles /\ FailPartly({}, {Current.path})
     \/ /\ KeptFiles /\ UNCHANGED disk
        /\ FailPartly({Current.destination}, {Current.path})

Unfinal ==
  /\ At("unfinal") /\ UNCHANGED <<disk, sessionVars>>
  /\ \/ Dropped /\ Goto("mark")
     \/ KeptFiles /\ FailPartly({Current.destination}, {})

-----------------------------------------------------------------------------
(* Marking and presenting *)

\* mark_file_changed; a removed file is committed with it.
Mark ==
  /\ At("mark") /\ UNCHANGED <<fileVars, registers>>
  /\ revision' = revision + 1
  /\ IF Current.kind = "remove"
     THEN pc' = "next" /\ index' = index + 1 /\ UNCHANGED <<plan, answer, done>>
     ELSE Goto("present")

\* record_post_edit, which a closed session refuses
Present ==
  /\ At("present") /\ UNCHANGED <<fileVars, sessionVars>>
  /\ IF closed THEN Fail("closed")
     ELSE /\ pc' = "next" /\ index' = index + 1
          /\ done' = done \cup {index} /\ UNCHANGED <<plan, answer>>

Step ==
  \/ NextFile \/ Check \/ Verify \/ Persist \/ Resolve \/ Stage \/ Recheck \/ Delete
  \/ Prepare \/ Link \/ Unstage \/ Rollback \/ Unfinal \/ Mark \/ Present

-----------------------------------------------------------------------------
(* Everybody else *)

Cancel ==
  /\ ~cancelled /\ cancelled' = TRUE
  /\ UNCHANGED <<callVars, fileVars, sessionVars, closed, foreign>>

\* Workspace::close also clears the named registers.
Close ==
  /\ ~closed /\ closed' = TRUE
  /\ registers' = "cleared"
  /\ UNCHANGED <<callVars, fileVars, revision, cancelled, foreign>>

\* A program outside Ovid removes a file, rewrites it in place, or puts
\* another one there.
ForeignWrite ==
  /\ foreign < MaxForeign /\ foreign' = foreign + 1
  /\ \E path \in Path :
       \/ disk' = [disk EXCEPT ![path] = Absent]
       \/ disk' = [disk EXCEPT ![path] = Made(Other)]
       \/ disk[path] # Absent /\ disk' = [disk EXCEPT ![path].text = Other]
       \/ disk[path] # Absent /\ disk' = [disk EXCEPT ![path].planned = FALSE]
  /\ UNCHANGED <<callVars, source, final, kept, sessionVars, cancelled, closed>>

Next == Step \/ (pc # "done" /\ (Cancel \/ Close \/ ForeignWrite))

Spec == Init /\ [][Next]_vars
-----------------------------------------------------------------------------
(* Properties *)

TypeOK ==
  /\ PlanOK(plan)
  /\ index \in 1..Len(plan) + 1
  /\ disk \in [Path -> File \cup {Absent}]
  /\ source \in File \cup {Absent} /\ final \in File \cup {Absent}
  /\ kept \subseteq Text
  /\ revision \in 0..Len(plan)
  /\ registers \in {"before", "after", "cleared"}
  /\ answer.landed \subseteq Path /\ answer.pending \subseteq Path
  /\ answer.changes \subseteq DOMAIN plan
  /\ done \subseteq DOMAIN plan

\* Every text there is: at a path, staged, or in a staging directory kept.
World == kept \cup {f.text : f \in ({source, final} \cup {disk[p] : p \in Path}) \ {Absent}}

\* No text is lost, whatever fails: until the change of a file is in effect
\* its old text is somewhere, and then its new one is, unless it was to be
\* removed.
NothingIsLost ==
  foreign = 0 => \A i \in DOMAIN plan :
    IF i \notin done THEN Old(plan[i].path) \in World
    ELSE plan[i].kind # "remove" => FinalText(plan[i]) \in World

\* An edit refused at its first file, short of a partial commit, leaves
\* every file where it was, with its text, however far it had got.
RefusedEditsRestore ==
  foreign = 0 /\ answer.result \in {"stale", "write", "path"} =>
    \A i \in DOMAIN plan :
      /\ disk[plan[i].path] # Absent
      /\ disk[plan[i].path].text = Old(plan[i].path)
      /\ plan[i].destination # Absent /\ disk[plan[i].destination] # Absent =>
           disk[plan[i].destination].text = Old(plan[i].destination)

\* What a partial commit calls landed is in effect, and files that stay in
\* a staging directory are never passed over in silence.
PartialCommitsAreTrue ==
  pc = "done" =>
    /\ \A i \in DOMAIN plan : plan[i].path \in answer.landed => i \in done
    /\ answer.changes \subseteq done
    /\ kept # {} => answer.result = "partial"

\* A caller can go by the answer: an edit that was refused outright left the
\* files as they were, and one that was not names what it did and what it
\* could not put back (hashline.rs:15-53, 131-234).
AnswersAreTrue == RefusedEditsRestore /\ PartialCommitsAreTrue
=============================================================================
