---------------------------- MODULE PatchCommit ----------------------------
(***************************************************************************)
(* One structured patch of several operations (patch.rs, patch_plan.rs,    *)
(* patch_commit.rs): every operation is prepared against the files as they *)
(* are, then the prepared operations are committed in their order, and a   *)
(* failure on the way says what landed and what is pending.                *)
(*                                                                         *)
(* The call holds the write guard throughout, so no other change of any    *)
(* session runs; it can still be cancelled, its session closed, a file     *)
(* operation fail, and a program outside Ovid write.  Contents are opaque: *)
(* a diff turns one into another, and the observation ledger is the set of *)
(* <<path, content>> it authorizes (ObservationLedger models it).          *)
(***************************************************************************)
EXTENDS Naturals, Sequences, FiniteSets

CONSTANTS
  Path,           \* files of the workspace
  Text,           \* file contents
  Absent,         \* no file, no destination
  FirstDisk,      \* what may be on disk when the patch starts
  MaxOperations,  \* bound on the operations of a patch (256 in the code)
  MaxForeign      \* bound on the number of writes by programs outside Ovid

ASSUME PatchAssumption ==
  /\ Absent \notin Text \cup Path
  /\ FirstDisk \subseteq [Path -> Text \cup {Absent}]
  /\ MaxOperations \in Nat /\ MaxForeign \in Nat

VARIABLES
  disk, closed, cancelled, revision, generation, observed,
  request,   \* the operations asked for
  prepared,  \* those prepared so far
  pc,        \* where the call is
  index,     \* the operation being committed
  landed,    \* paths reported as landed
  changes,   \* the operations whose changes are reported
  pending,   \* paths reported as pending
  result,    \* the answer, or "none"
  touched,   \* history: paths whose file this patch has changed
  foreign    \* foreign writes made so far

callVars == <<request, prepared, index, landed, changes, pending, result>>
stateVars == <<revision, generation, observed>>
worldVars == <<closed, cancelled, foreign>>
vars == <<disk, worldVars, stateVars, callVars, pc, touched>>

Operation ==
       [kind : {"create"}, path : Path, destination : {Absent}, text : Text]
  \cup [kind : {"update"}, path : Path, destination : Path \cup {Absent}, text : Text]
  \cup [kind : {"delete"}, path : Path, destination : {Absent}, text : {Absent}]

\* A prepared operation remembers the text it was prepared against.
Prepared == {[kind |-> o.kind, path |-> o.path, destination |-> o.destination,
              text |-> o.text, before |-> before] :
               o \in Operation, before \in Text \cup {Absent}}

Patches == UNION {[1..n -> Operation] : n \in 1..MaxOperations}

Named(o) == {o.path, o.destination} \ {Absent}

Init ==
  /\ disk \in FirstDisk
  /\ observed \in {{}, {<<p, disk[p]>> : p \in {q \in Path : disk[q] # Absent}}}
  /\ closed = FALSE /\ cancelled = FALSE
  /\ revision = 1
  /\ generation = [p \in Path |-> 1]
  /\ request \in Patches
  /\ prepared = <<>>
  /\ pc = "prepare"
  /\ index = 1
  /\ landed = <<>> /\ changes = <<>> /\ pending = <<>>
  /\ result = "none"
  /\ touched = {}
  /\ foreign = 0

Answer(error) ==
  /\ result' = error
  /\ pc' = "done"

-----------------------------------------------------------------------------
(* Preflight *)

NamedBefore == UNION {Named(prepared[i]) : i \in DOMAIN prepared}

\* Mutant: destinations are not compared with the other paths.
DuplicatePathsOnly(o) ==
  \/ o.path \in {prepared[i].path : i \in DOMAIN prepared}
  \/ o.destination = o.path

\* Mutant: paths are compared with destinations only.
DuplicateDestinationsOnly(o) ==
  o.destination \in NamedBefore \cup {o.path}

\* Every path and every destination is named once.
Duplicate(o) ==
  \/ o.path \in NamedBefore
  \/ o.destination \in NamedBefore \cup {o.path}

\* Mutant: the ledger is not asked.
PreparableUnread(o) ==
  IF o.kind = "create" THEN disk[o.path] = Absent
  ELSE /\ disk[o.path] # Absent
       /\ o.destination # Absent => disk[o.destination] = Absent

\* resolve_new_file, load_current and the ledger must agree to operation o.
Preparable(o) ==
  IF o.kind = "create" THEN disk[o.path] = Absent
  ELSE /\ disk[o.path] # Absent
       /\ ~closed
       /\ <<o.path, disk[o.path]>> \in observed
       /\ o.destination # Absent => disk[o.destination] = Absent

\* preflight_patch, one operation at a time; the first one that cannot be
\* prepared refuses the patch.
Prepare ==
  LET o == request[Len(prepared) + 1] IN
  /\ pc = "prepare"
  /\ IF cancelled /\ prepared = <<>> THEN Answer("cancelled") /\ UNCHANGED prepared
     ELSE IF Duplicate(o) \/ ~Preparable(o) THEN Answer("refused") /\ UNCHANGED prepared
     ELSE /\ prepared' = Append(prepared, [kind |-> o.kind, path |-> o.path,
                           destination |-> o.destination, text |-> o.text,
                           before |-> disk[o.path]])
          /\ pc' = IF Len(prepared') = Len(request) THEN "operation" ELSE "prepare"
          /\ UNCHANGED result
  /\ UNCHANGED <<disk, worldVars, stateVars, request, index, landed, changes, pending, touched>>

-----------------------------------------------------------------------------
(* Commit *)

Current == prepared[index]

PathsFrom(i) == [k \in 1..(Len(prepared) - i + 1) |-> prepared[k + i - 1].path]

\* Mutant: the failed operation is not called pending.
FailOffByOne(error) ==
  /\ IF landed = <<>> THEN Answer(error) /\ UNCHANGED pending
     ELSE Answer("partial") /\ pending' = PathsFrom(index + 1)
  /\ UNCHANGED <<request, prepared, index, landed, changes>>

\* The operation at index failed: a patch of which nothing is reported as
\* landed fails with the error itself, any other one is a partial commit.
Fail(error) ==
  /\ IF landed = <<>> THEN Answer(error) /\ UNCHANGED pending
     ELSE Answer("partial") /\ pending' = PathsFrom(index)
  /\ UNCHANGED <<request, prepared, index, landed, changes>>

Complete ==
  /\ landed' = Append(landed, Current.path)
  /\ changes' = Append(changes, Current)
  /\ IF index = Len(prepared)
     THEN Answer("ok") /\ UNCHANGED index
     ELSE index' = index + 1 /\ pc' = "operation" /\ UNCHANGED result
  /\ UNCHANGED <<request, prepared, pending>>

Goto(step) == pc' = step /\ UNCHANGED callVars

\* One path changes on disk.
Change(path, file) ==
  /\ disk' = [disk EXCEPT ![path] = file]
  /\ touched' = IF file = disk[path] THEN touched ELSE touched \cup {path}

Untouched == UNCHANGED <<disk, touched>>

\* ensure_active at the head of every operation
Operate ==
  /\ pc = "operation"
  /\ IF cancelled THEN Fail("cancelled") ELSE Goto(Current.kind)
  /\ Untouched /\ UNCHANGED <<worldVars, stateVars>>

Create ==
  /\ pc = "create"
  /\ \/ Fail("write") /\ Untouched
     \/ disk[Current.path] = Absent /\ Change(Current.path, Current.text) /\ Goto("mark")
  /\ UNCHANGED <<worldVars, stateVars>>

Delete ==
  /\ pc = "delete"
  /\ \/ Fail("write") /\ Untouched
     \/ disk[Current.path] # Absent /\ Change(Current.path, Absent) /\ Goto("mark")
  /\ UNCHANGED <<worldVars, stateVars>>

\* atomic_replace_path compares the file once more and renames over it.
Verify ==
  /\ pc = "update"
  /\ IF disk[Current.path] # Current.before THEN Fail("stale") ELSE Goto("persist")
  /\ Untouched /\ UNCHANGED <<worldVars, stateVars>>

Persist ==
  /\ pc = "persist"
  /\ \/ Fail("write") /\ Untouched
     \/ /\ Change(Current.path, Current.text)
        /\ Goto(IF Current.destination = Absent THEN "mark" ELSE "ask")
  /\ UNCHANGED <<worldVars, stateVars>>

\* An update that also moves asks for cancellation between the two ...
Ask ==
  /\ pc = "ask"
  /\ IF cancelled THEN Fail("cancelled") ELSE Goto("link")
  /\ Untouched /\ UNCHANGED <<worldVars, stateVars>>

Link ==
  /\ pc = "link"
  /\ \/ Fail("write") /\ Untouched
     \/ /\ disk[Current.path] # Absent /\ disk[Current.destination] = Absent
        /\ Change(Current.destination, disk[Current.path]) /\ Goto("unlink")
  /\ UNCHANGED <<worldVars, stateVars>>

\* ... and when the source cannot be removed, what move_file_noclobber says
\* has landed joins what landed before, without a change of its own.
Unlink ==
  /\ pc = "unlink"
  /\ \/ /\ landed' = Append(landed, Current.destination)
        /\ pending' = <<Current.path>> \o PathsFrom(index + 1)
        /\ Answer("partial")
        /\ Untouched /\ UNCHANGED <<request, prepared, index, changes>>
     \/ disk[Current.path] # Absent /\ Change(Current.path, Absent) /\ Goto("mark")
  /\ UNCHANGED <<worldVars, stateVars>>

Target == IF Current.destination = Absent THEN Current.path ELSE Current.destination

\* mark_file_changed; a session closed by now fails the operation when its
\* result is to be presented (see WorkspaceMutations on ensure_open).
Mark ==
  /\ pc = "mark"
  /\ generation' = [generation EXCEPT ![Target] = @ + 1]
  /\ revision' = revision + 1
  /\ IF Current.kind = "delete" THEN Complete
     ELSE IF closed THEN Fail("closed") ELSE Goto("present")
  /\ Untouched /\ UNCHANGED <<worldVars, observed>>

Present ==
  /\ pc = "present"
  /\ \/ closed /\ Fail("closed") /\ UNCHANGED observed
     \/ Complete /\ observed' = observed \cup {<<Target, Current.text>>}
  /\ Untouched /\ UNCHANGED <<worldVars, revision, generation>>

-----------------------------------------------------------------------------

Cancel ==
  /\ ~cancelled /\ cancelled' = TRUE
  /\ pc # "done"
  /\ UNCHANGED <<disk, closed, foreign, stateVars, callVars, pc, touched>>

Close ==
  /\ ~closed /\ closed' = TRUE
  /\ pc # "done"
  /\ UNCHANGED <<disk, cancelled, foreign, stateVars, callVars, pc, touched>>

ForeignWrite ==
  /\ foreign < MaxForeign /\ foreign' = foreign + 1
  /\ pc # "done"
  /\ \E path \in Path, file \in Text \cup {Absent} : disk' = [disk EXCEPT ![path] = file]
  /\ UNCHANGED <<closed, cancelled, stateVars, callVars, pc, touched>>

Next ==
  \/ Prepare \/ Operate \/ Create \/ Delete \/ Verify \/ Persist \/ Ask \/ Link
  \/ Unlink \/ Mark \/ Present
  \/ Cancel \/ Close \/ ForeignWrite

Spec == Init /\ [][Next]_vars
-----------------------------------------------------------------------------
(* Properties *)

TypeOK ==
  /\ disk \in [Path -> Text \cup {Absent}]
  /\ closed \in BOOLEAN /\ cancelled \in BOOLEAN
  /\ revision \in Nat /\ generation \in [Path -> Nat \ {0}]
  /\ observed \subseteq Path \X Text
  /\ request \in Patches
  /\ prepared \in Seq(Prepared) /\ Len(prepared) <= Len(request)
  /\ index \in 1..Len(request)
  /\ landed \in Seq(Path) /\ pending \in Seq(Path)
  /\ changes \in Seq(Prepared)
  /\ touched \subseteq Path
  /\ foreign \in 0..MaxForeign

Outcome(o, path) ==
  IF o.kind # "delete" /\ path \in {o.destination, IF o.destination = Absent THEN o.path ELSE Absent}
  THEN o.text ELSE Absent

\* No operation of a patch undoes or overwrites what an earlier one did.
ReportedChangesHold ==
  foreign = 0 => \A i \in DOMAIN changes :
    \A path \in Named(changes[i]) : disk[path] = Outcome(changes[i], path)

\* The changes of a partial answer, then the operations it calls pending,
\* are the operations asked for, in order.
PartialCommitsAccountForAll ==
  result = "partial" =>
    /\ \A i \in DOMAIN changes : changes[i].path = request[i].path
    /\ Len(changes) + Len(pending) = Len(request)
    /\ \A i \in DOMAIN pending : pending[i] = request[Len(changes) + i].path

\* What a patch answers is so, whatever fails: the changes it reports are on
\* disk, a later failure included, and everything else it was asked for is
\* called pending (patch_commit.rs:11-58).
AnswersAreTrue == ReportedChangesHold /\ PartialCommitsAccountForAll

\* Preflight decides: what an operation was prepared against still holds when
\* its turn comes, so that, unless a program outside Ovid interferes, only a
\* cancellation, a close or a failing file operation can split a patch
\* (workflow_tests.rs, structured_patch_preflights_every_operation_before_commit).
PreflightStillHolds ==
  foreign = 0 /\ result = "none" =>
    \A i \in DOMAIN prepared :
      i > index \/ (i = index /\ pc \in {"prepare", "operation", "create", "update", "persist", "delete"}) =>
        /\ disk[prepared[i].path] = prepared[i].before
        /\ prepared[i].destination # Absent => disk[prepared[i].destination] = Absent

\* A file is overwritten or removed only in a state the ledger authorized, or
\* in one the same patch has just given it.
OnlyAuthorizedFilesAreChanged ==
  [][foreign = 0 /\ foreign' = 0 =>
       \A path \in Path :
         disk'[path] # disk[path] /\ disk[path] # Absent =>
           path \in touched \/ <<path, disk[path]>> \in observed]_vars
=============================================================================
