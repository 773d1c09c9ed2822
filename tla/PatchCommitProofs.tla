-------------------------- MODULE PatchCommitProofs --------------------------
(***************************************************************************)
(* Theorems about structured patches, for any files, contents and number   *)
(* of operations.  A patch does what it was prepared for because every     *)
(* path and destination is named once: an operation leaves alone what the  *)
(* others are about, so that what preflight found still holds when an      *)
(* operation's turn comes, and what an operation did still holds at the    *)
(* end.                                                                    *)
(***************************************************************************)
EXTENDS PatchCommit, TLAPS

\* The steps of the commit
Committing == {"operation", "create", "delete", "update", "persist", "ask", "link", "unlink",
               "mark", "present"}

Steps == Committing \cup {"prepare", "done"}

\* The steps before an operation's own file changes
Early == {"prepare", "operation", "create", "update", "persist", "delete"}

-----------------------------------------------------------------------------
(* The inductive invariant *)

Types == TypeOK /\ pc \in Steps

\* What is prepared is what was asked for, in order.
RequestIsFollowed ==
  \A i \in DOMAIN prepared :
    /\ prepared[i].kind = request[i].kind
    /\ prepared[i].path = request[i].path

\* Every path and destination is named once.
NamesAreDistinct ==
  /\ \A i \in DOMAIN prepared : prepared[i].destination # prepared[i].path
  /\ \A i, j \in DOMAIN prepared : i # j => Named(prepared[i]) \cap Named(prepared[j]) = {}

\* What is overwritten or removed was authorized when it was prepared.
PreparedWasObserved ==
  \A i \in DOMAIN prepared :
    prepared[i].kind # "create" => <<prepared[i].path, prepared[i].before>> \in observed

\* The operations before the current one are those reported as changes;
\* a partial answer calls the others pending.
ReportsAreExact ==
  /\ pc = "prepare" =>
       Len(prepared) < Len(request) /\ index = 1 /\ landed = <<>> /\ changes = <<>>
  /\ pc \in Committing =>
       Len(prepared) = Len(request) /\ Len(landed) = index - 1 /\ Len(changes) = index - 1
  /\ \A i \in DOMAIN changes : i \in DOMAIN prepared /\ changes[i] = prepared[i]
  /\ pc # "done" <=> result = "none"
  /\ result = "partial" =>
       /\ Len(prepared) = Len(request)
       /\ Len(changes) + Len(pending) = Len(request)
       /\ \A i \in DOMAIN pending : pending[i] = prepared[Len(changes) + i].path

\* Where the call is fits the operation it commits.
StepFits ==
  /\ pc \in {"create", "delete", "update"} => Current.kind = pc
  /\ pc = "persist" => Current.kind = "update"
  /\ pc \in {"ask", "link", "unlink"} => Current.kind = "update" /\ Current.destination # Absent
  /\ pc = "present" => Current.kind # "delete"

\* The file of the current operation, once it has changed
CurrentStands ==
  /\ pc \in {"ask", "link", "unlink"} =>
       /\ disk[Current.path] = Current.text
       /\ Current.path \in touched \/ <<Current.path, Current.text>> \in observed
  /\ pc \in {"ask", "link"} => disk[Current.destination] = Absent
  /\ pc = "unlink" => disk[Current.destination] = Current.text
  /\ pc \in {"mark", "present"} =>
       \A path \in Named(Current) : disk[path] = Outcome(Current, path)

\* An operation whose turn has not come finds its files as it was prepared.
Waiting ==
  \A i \in DOMAIN prepared :
    i > index \/ (i = index /\ pc \in Early) =>
      /\ disk[prepared[i].path] = prepared[i].before
      /\ prepared[i].destination # Absent => disk[prepared[i].destination] = Absent

FilesStand == foreign = 0 => ReportedChangesHold /\ CurrentStands /\ Waiting

IInv ==
  /\ Types
  /\ RequestIsFollowed
  /\ NamesAreDistinct
  /\ PreparedWasObserved
  /\ ReportsAreExact
  /\ StepFits
  /\ FilesStand

-----------------------------------------------------------------------------
(* Operations and sequences *)

\* What there is to know of a prepared operation
LEMMA PreparedFields ==
  ASSUME NEW o \in Prepared
  PROVE  /\ o.kind \in {"create", "update", "delete"}
         /\ o.path \in Path /\ o.destination \in Path \cup {Absent}
         /\ o.before \in Text \cup {Absent}
         /\ o.kind # "update" => o.destination = Absent
         /\ IF o.kind = "delete" THEN o.text = Absent ELSE o.text \in Text
         /\ Named(o) = IF o.destination = Absent THEN {o.path} ELSE {o.path, o.destination}
<1>1. PICK q \in Operation, before \in Text \cup {Absent} :
        o = [kind |-> q.kind, path |-> q.path, destination |-> q.destination,
             text |-> q.text, before |-> before]
  BY DEF Prepared
<1>2. /\ o.kind \in {"create", "update", "delete"}
      /\ o.path \in Path /\ o.destination \in Path \cup {Absent}
      /\ o.before \in Text \cup {Absent}
      /\ o.kind # "update" => o.destination = Absent
      /\ IF o.kind = "delete" THEN o.text = Absent ELSE o.text \in Text
  BY <1>1 DEF Operation
<1>3. o.path # Absent
  BY <1>2, PatchAssumption
<1> QED
  BY <1>2, <1>3 DEF Named

\* A patch is a sequence of operations.
LEMMA PatchIsSequence ==
  ASSUME NEW r \in Patches
  PROVE  r \in Seq(Operation) /\ Len(r) \in Nat \ {0} /\ DOMAIN r = 1..Len(r)
<1>1. PICK n \in 1..MaxOperations : r \in [1..n -> Operation]
  BY DEF Patches
<1>2. n \in Nat \ {0}
  BY PatchAssumption
<1> QED
  BY <1>1, <1>2

\* The current operation is one of the prepared.
LEMMA CurrentIsPrepared ==
  ASSUME IInv, pc \in Committing
  PROVE  /\ index \in Nat \ {0} /\ index <= Len(prepared) /\ index \in DOMAIN prepared
         /\ Current \in Prepared /\ Len(prepared) = Len(request)
<1>1. Len(prepared) = Len(request) /\ index \in 1..Len(request) /\ prepared \in Seq(Prepared)
  BY DEF IInv, Types, TypeOK, ReportsAreExact
<1> QED
  BY <1>1 DEF Current

-----------------------------------------------------------------------------
(* What the steps of the commit share *)

\* A step of the call changes nothing of the world but its own records.
SideStep ==
  /\ closed' = closed /\ cancelled' = cancelled /\ foreign' = foreign
  /\ revision' \in Nat /\ generation' \in [Path -> Nat \ {0}]
  /\ observed \subseteq observed' /\ observed' \subseteq Path \X Text

\* Nothing to the side changes when nothing of the world does.
LEMMA QuietSideStep ==
  ASSUME IInv, UNCHANGED <<worldVars, stateVars>>
  PROVE  SideStep
BY DEF IInv, Types, TypeOK, SideStep, worldVars, stateVars

\* A step that goes on within the current operation
LEMMA GotoKeeps ==
  ASSUME IInv, pc \in Committing, NEW step \in Committing, Goto(step), SideStep,
         disk' \in [Path -> Text \cup {Absent}], touched' \subseteq Path,
         StepFits', FilesStand'
  PROVE  IInv'
<1>1. UNCHANGED callVars /\ pc' = step /\ step # "prepare" /\ step # "done"
  BY DEF Goto, Committing
<1>2. Types'
  BY <1>1 DEF IInv, Types, TypeOK, SideStep, Steps, callVars
<1>3. RequestIsFollowed' /\ NamesAreDistinct'
  BY <1>1 DEF IInv, RequestIsFollowed, NamesAreDistinct, callVars
<1>4. PreparedWasObserved'
  BY <1>1 DEF IInv, PreparedWasObserved, SideStep, callVars
<1>5. ReportsAreExact'
  BY <1>1 DEF IInv, ReportsAreExact, Committing, callVars
<1> QED
  BY <1>2, <1>3, <1>4, <1>5 DEF IInv

\* A step that only asks
LEMMA AskKeeps ==
  ASSUME IInv, pc \in Committing, NEW step \in Committing, Goto(step), SideStep, Untouched,
         StepFits', CurrentStands => CurrentStands', pc' \in Early => pc \in Early
  PROVE  IInv'
<1>1. UNCHANGED callVars /\ pc' = step
  BY DEF Goto
<1>2. FilesStand'
  <2>1. SUFFICES ASSUME foreign' = 0 PROVE ReportedChangesHold' /\ CurrentStands' /\ Waiting'
    BY DEF FilesStand
  <2>2. ReportedChangesHold /\ CurrentStands /\ Waiting
    BY <2>1 DEF IInv, FilesStand, SideStep
  <2> QED
    BY <1>1, <2>1, <2>2 DEF Untouched, SideStep, ReportedChangesHold, Waiting, callVars, Outcome,
       Named
<1> QED
  BY <1>2, GotoKeeps DEF IInv, Types, TypeOK, Untouched

\* A step that ends the patch leaves what stands standing.
LEMMA EndKeepsFiles ==
  ASSUME IInv, SideStep, Untouched, pc' = "done",
         UNCHANGED <<prepared, index, changes>>
  PROVE  FilesStand'
<1>1. SUFFICES ASSUME foreign' = 0 PROVE ReportedChangesHold' /\ CurrentStands' /\ Waiting'
  BY DEF FilesStand
<1>2. ReportedChangesHold /\ Waiting
  BY <1>1 DEF IInv, FilesStand, SideStep
<1> QED
  BY <1>1, <1>2 DEF Untouched, SideStep, ReportedChangesHold, CurrentStands, Waiting, Outcome,
     Named, Early

\* The paths from an operation on
LEMMA PathsFromIs ==
  ASSUME IInv, NEW i \in 1..(Len(prepared) + 1)
  PROVE  /\ PathsFrom(i) \in Seq(Path) /\ Len(PathsFrom(i)) = Len(prepared) - i + 1
         /\ \A k \in 1..(Len(prepared) - i + 1) : PathsFrom(i)[k] = prepared[k + i - 1].path
<1>1. Len(prepared) \in Nat /\ \A j \in 1..Len(prepared) : prepared[j] \in Prepared
  BY DEF IInv, Types, TypeOK
<1>2. Len(prepared) - i + 1 \in Nat
  BY <1>1
<1>3. ASSUME NEW k \in 1..(Len(prepared) - i + 1) PROVE prepared[k + i - 1].path \in Path
  <2>1. k + i - 1 \in 1..Len(prepared)
    BY <1>1
  <2> QED
    BY <1>1, <2>1, PreparedFields
<1> QED
  BY <1>2, <1>3 DEF PathsFrom

\* The operation fails: what was reported before makes the patch partial.
LEMMA FailKeeps ==
  ASSUME IInv, pc \in Committing, NEW error, error \notin {"none", "partial"}, Fail(error),
         SideStep, Untouched
  PROVE  IInv'
<1>1. /\ index \in Nat \ {0} /\ index <= Len(prepared) /\ Len(prepared) = Len(request)
      /\ Len(prepared) \in Nat
  BY CurrentIsPrepared DEF IInv, Types, TypeOK
<1>2. /\ UNCHANGED <<request, prepared, index, landed, changes>>
      /\ pc' = "done"
      /\ \/ result' = error /\ pending' = pending
         \/ result' = "partial" /\ pending' = PathsFrom(index)
  BY DEF Fail, Answer
<1>3. /\ PathsFrom(index) \in Seq(Path) /\ Len(PathsFrom(index)) = Len(prepared) - index + 1
      /\ \A k \in 1..(Len(prepared) - index + 1) :
           PathsFrom(index)[k] = prepared[k + index - 1].path
  BY <1>1, PathsFromIs
<1>4. Types'
  BY <1>2, <1>3 DEF IInv, Types, TypeOK, SideStep, Untouched, Steps
<1>5. RequestIsFollowed' /\ NamesAreDistinct' /\ PreparedWasObserved' /\ StepFits'
  BY <1>2 DEF IInv, RequestIsFollowed, NamesAreDistinct, PreparedWasObserved, StepFits, SideStep
<1>6. ReportsAreExact'
  <2>1. /\ Len(changes) = index - 1
        /\ \A i \in DOMAIN changes : i \in DOMAIN prepared /\ changes[i] = prepared[i]
    BY DEF IInv, ReportsAreExact
  <2>2. result' # "none" /\ pc' \notin Committing /\ pc' # "prepare"
    BY <1>2 DEF Committing
  <2>3. CASE result' = "partial"
    <3>1. pending' = PathsFrom(index)
      BY <1>2, <2>3
    <3>2. DOMAIN pending' = 1..(Len(prepared) - index + 1)
      BY <1>3, <3>1
    <3>3. \A i \in DOMAIN pending' : pending'[i] = prepared[Len(changes) + i].path
      BY <1>1, <1>3, <2>1, <3>1, <3>2
    <3>4. Len(changes) + Len(pending') = Len(request)
      BY <1>1, <1>3, <2>1, <3>1
    <3> QED
      BY <1>1, <1>2, <2>1, <2>2, <3>3, <3>4 DEF ReportsAreExact
  <2>4. CASE result' # "partial"
    BY <1>2, <2>1, <2>2, <2>4 DEF ReportsAreExact
  <2> QED
    BY <2>3, <2>4
<1>7. FilesStand'
  BY <1>2, EndKeepsFiles
<1> QED
  BY <1>4, <1>5, <1>6, <1>7 DEF IInv

\* A change of a file of the current operation leaves the files of the
\* others alone.
LEMMA ChangeKeepsOthers ==
  ASSUME IInv, pc \in Committing, NEW path \in Named(Current), NEW file \in Text \cup {Absent},
         Change(path, file), UNCHANGED <<prepared, index, changes>>, foreign' = foreign,
         pc' \notin Early
  PROVE  /\ disk' \in [Path -> Text \cup {Absent}] /\ touched' \subseteq Path
         /\ disk'[path] = file /\ \A q \in Path \ {path} : disk'[q] = disk[q]
         /\ foreign = 0 => ReportedChangesHold' /\ Waiting'
<1>1. /\ index \in DOMAIN prepared /\ Current \in Prepared /\ Current = prepared[index]
      /\ index \in Nat
  BY CurrentIsPrepared DEF Current
<1>2. path \in Path
  BY <1>1, PreparedFields
<1>3. /\ disk' \in [Path -> Text \cup {Absent}] /\ touched' \subseteq Path
      /\ disk'[path] = file /\ \A q \in Path \ {path} : disk'[q] = disk[q]
  BY <1>2 DEF Change, IInv, Types, TypeOK
<1>4. ASSUME NEW i \in DOMAIN prepared, i # index
      PROVE  /\ prepared[i] \in Prepared /\ i \in Nat
             /\ \A q \in Named(prepared[i]) : q \in Path /\ disk'[q] = disk[q]
  <2>1. prepared[i] \in Prepared /\ i \in Nat
    BY DEF IInv, Types, TypeOK
  <2>2. path \notin Named(prepared[i])
    BY <1>1, <1>4 DEF IInv, NamesAreDistinct
  <2>3. Named(prepared[i]) \subseteq Path
    BY <2>1, PreparedFields
  <2> QED
    BY <1>3, <2>1, <2>2, <2>3
<1>5. ASSUME foreign = 0 PROVE ReportedChangesHold'
  <2>1. ReportedChangesHold
    BY <1>5 DEF IInv, FilesStand
  <2>2. ASSUME NEW i \in DOMAIN changes, NEW q \in Named(changes[i])
        PROVE  disk'[q] = Outcome(changes[i], q)
    <3>1. i \in DOMAIN prepared /\ changes[i] = prepared[i] /\ i # index
      <4>1. Len(changes) = index - 1 /\ i \in 1..Len(changes)
        BY DEF IInv, Types, TypeOK, ReportsAreExact
      <4> QED
        BY <1>1, <4>1 DEF IInv, ReportsAreExact
    <3>2. disk'[q] = disk[q]
      BY <1>4, <3>1
    <3> QED
      BY <1>5, <2>1, <3>2 DEF ReportedChangesHold
  <2> QED
    BY <2>2 DEF ReportedChangesHold, Named, Outcome
<1>6. ASSUME foreign = 0 PROVE Waiting'
  <2>1. Waiting
    BY <1>6 DEF IInv, FilesStand
  <2>2. ASSUME NEW i \in DOMAIN prepared, i > index
        PROVE  /\ disk'[prepared[i].path] = prepared[i].before
               /\ prepared[i].destination # Absent => disk'[prepared[i].destination] = Absent
    <3>1. i # index
      BY <1>1, <2>2
    <3>2. /\ disk'[prepared[i].path] = disk[prepared[i].path]
          /\ prepared[i].destination # Absent =>
               disk'[prepared[i].destination] = disk[prepared[i].destination]
      BY <1>4, <3>1, PreparedFields
    <3> QED
      BY <2>1, <2>2, <3>2 DEF Waiting
  <2> QED
    BY <2>2 DEF Waiting
<1> QED
  BY <1>3, <1>5, <1>6

\* A file change after which the current operation stands as it should
LEMMA ChangeKeeps ==
  ASSUME IInv, pc \in Committing, NEW path \in Named(Current), NEW file \in Text \cup {Absent},
         Change(path, file), NEW step \in {"ask", "unlink", "mark"}, Goto(step),
         UNCHANGED <<worldVars, stateVars>>, StepFits', foreign = 0 => CurrentStands'
  PROVE  IInv'
<1>1. /\ pc' = step /\ UNCHANGED <<prepared, index, changes>> /\ foreign' = foreign
      /\ step \in Committing /\ pc' \notin Early
  BY DEF Goto, callVars, worldVars, Committing, Early
<1>2. /\ disk' \in [Path -> Text \cup {Absent}] /\ touched' \subseteq Path
      /\ foreign = 0 => ReportedChangesHold' /\ Waiting'
  BY <1>1, ChangeKeepsOthers
<1>3. FilesStand'
  BY <1>1, <1>2 DEF FilesStand
<1> QED
  BY <1>1, <1>2, <1>3, QuietSideStep, GotoKeeps

-----------------------------------------------------------------------------
(* The steps of the commit *)

\* The next operation is chosen by its kind, unless the call is cancelled.
LEMMA OperateKeeps == ASSUME IInv, Operate PROVE IInv'
<1>1. pc = "operation" /\ pc \in Committing /\ SideStep /\ Untouched
  BY QuietSideStep DEF Operate, Committing
<1>2. CASE Fail("cancelled")
  BY <1>1, <1>2, FailKeeps
<1>3. CASE Goto(Current.kind)
  <2>1. Current.kind \in {"create", "update", "delete"}
    BY <1>1, CurrentIsPrepared, PreparedFields
  <2>2. Current.kind \in Committing /\ pc' = Current.kind /\ Current' = Current
    BY <1>3, <2>1 DEF Committing, Goto, callVars, Current
  <2>3. StepFits' /\ CurrentStands' /\ pc \in Early
    BY <1>1, <2>1, <2>2 DEF StepFits, CurrentStands, Early
  <2> QED
    BY <1>1, <1>3, <2>2, <2>3, AskKeeps
<1> QED
  BY <1>2, <1>3 DEF Operate

\* An updated file is compared with its plan once more.
LEMMA VerifyKeeps == ASSUME IInv, Verify PROVE IInv'
<1>1. pc = "update" /\ pc \in Committing /\ SideStep /\ Untouched
  BY QuietSideStep DEF Verify, Committing
<1>2. CASE Fail("stale")
  BY <1>1, <1>2, FailKeeps
<1>3. CASE Goto("persist")
  <2>1. "persist" \in Committing /\ pc' = "persist" /\ Current' = Current
    BY <1>3 DEF Committing, Goto, callVars, Current
  <2>2. StepFits' /\ CurrentStands' /\ pc \in Early
    BY <1>1, <2>1 DEF StepFits, CurrentStands, Early, IInv
  <2> QED
    BY <1>1, <1>3, <2>1, <2>2, AskKeeps
<1> QED
  BY <1>2, <1>3 DEF Verify

\* A move asks once more whether the call is cancelled.
LEMMA AskMoveKeeps == ASSUME IInv, Ask PROVE IInv'
<1>1. pc = "ask" /\ pc \in Committing /\ SideStep /\ Untouched
  BY QuietSideStep DEF Ask, Committing
<1>2. CASE Fail("cancelled")
  BY <1>1, <1>2, FailKeeps
<1>3. CASE Goto("link")
  <2>1. "link" \in Committing /\ pc' = "link" /\ Current' = Current
    BY <1>3 DEF Committing, Goto, callVars, Current
  <2>2. StepFits' /\ (CurrentStands => CurrentStands') /\ pc' \notin Early
    BY <1>1, <2>1 DEF StepFits, CurrentStands, Early, IInv, SideStep, Untouched
  <2> QED
    BY <1>1, <1>3, <2>1, <2>2, AskKeeps
<1> QED
  BY <1>2, <1>3 DEF Ask

\* A file that is created was absent.
LEMMA CreateKeeps == ASSUME IInv, Create PROVE IInv'
<1>1. /\ pc = "create" /\ pc \in Committing /\ UNCHANGED <<worldVars, stateVars>>
      /\ Current \in Prepared /\ Current.kind = "create"
  BY CurrentIsPrepared DEF Create, Committing, IInv, StepFits
<1>2. CASE Fail("write") /\ Untouched
  BY <1>1, <1>2, QuietSideStep, FailKeeps
<1>3. CASE Change(Current.path, Current.text) /\ Goto("mark")
  <2>1. pc' = "mark" /\ Current' = Current
    BY <1>3 DEF Goto, callVars, Current
  <2>2. /\ Current.path \in Named(Current) /\ Current.text \in Text /\ Current.path \in Path
        /\ Current.destination = Absent /\ Named(Current) = {Current.path}
    BY <1>1, PreparedFields
  <2>3. StepFits'
    BY <2>1 DEF StepFits
  <2>4. disk'[Current.path] = Current.text
    BY <1>3, <2>2 DEF Change, IInv, Types, TypeOK
  <2>5. Outcome(Current, Current.path) = Current.text
    BY <1>1, <2>2 DEF Outcome
  <2>6. Named(Current)' = Named(Current) /\ Outcome(Current, Current.path)' = Outcome(Current, Current.path)
    BY <2>1 DEF Named, Outcome
  <2>7. CurrentStands'
    BY <2>1, <2>2, <2>4, <2>5, <2>6 DEF CurrentStands
  <2> QED
    BY <1>1, <1>3, <2>2, <2>3, <2>7, ChangeKeeps
<1> QED
  BY <1>2, <1>3 DEF Create

\* A file that is deleted is the planned one.
LEMMA DeleteKeeps == ASSUME IInv, Delete PROVE IInv'
<1>1. /\ pc = "delete" /\ pc \in Committing /\ UNCHANGED <<worldVars, stateVars>>
      /\ Current \in Prepared /\ Current.kind = "delete"
  BY CurrentIsPrepared DEF Delete, Committing, IInv, StepFits
<1>2. CASE Fail("write") /\ Untouched
  BY <1>1, <1>2, QuietSideStep, FailKeeps
<1>3. CASE Change(Current.path, Absent) /\ Goto("mark")
  <2>1. pc' = "mark" /\ Current' = Current
    BY <1>3 DEF Goto, callVars, Current
  <2>2. /\ Current.path \in Named(Current) /\ Current.path \in Path
        /\ Named(Current) = {Current.path}
    BY <1>1, PreparedFields
  <2>3. StepFits'
    BY <2>1 DEF StepFits
  <2>4. disk'[Current.path] = Absent
    BY <1>3, <2>2 DEF Change, IInv, Types, TypeOK
  <2>5. Outcome(Current, Current.path) = Absent
    BY <1>1 DEF Outcome
  <2>6. CurrentStands'
    BY <2>1, <2>2, <2>4, <2>5 DEF CurrentStands, Outcome, Named
  <2> QED
    BY <1>1, <1>3, <2>2, <2>3, <2>6, ChangeKeeps
<1> QED
  BY <1>2, <1>3 DEF Delete

\* A persisted update was authorized as it was, unless it changed nothing.
LEMMA PersistKeeps == ASSUME IInv, Persist PROVE IInv'
<1>1. /\ pc = "persist" /\ pc \in Committing /\ UNCHANGED <<worldVars, stateVars>>
      /\ Current \in Prepared /\ Current.kind = "update" /\ index \in DOMAIN prepared
      /\ Current = prepared[index] /\ index \in Nat
  BY CurrentIsPrepared DEF Persist, Committing, IInv, StepFits, Current
<1>2. CASE Fail("write") /\ Untouched
  BY <1>1, <1>2, QuietSideStep, FailKeeps
<1>3. CASE /\ Change(Current.path, Current.text)
           /\ Goto(IF Current.destination = Absent THEN "mark" ELSE "ask")
  <2>1. /\ pc' = (IF Current.destination = Absent THEN "mark" ELSE "ask")
        /\ Current' = Current
    BY <1>3 DEF Goto, callVars, Current
  <2>2. /\ Current.path \in Named(Current) /\ Current.text \in Text /\ Current.path \in Path
        /\ Current.destination \in Path \cup {Absent}
        /\ Named(Current) = IF Current.destination = Absent THEN {Current.path}
                            ELSE {Current.path, Current.destination}
    BY <1>1, PreparedFields
  <2>3. StepFits'
    BY <1>1, <2>1 DEF StepFits
  <2>4. /\ disk'[Current.path] = Current.text
        /\ \A q \in Path \ {Current.path} : disk'[q] = disk[q]
        /\ touched' = IF Current.text = disk[Current.path] THEN touched
                      ELSE touched \cup {Current.path}
    BY <1>3, <2>2 DEF Change, IInv, Types, TypeOK
  <2>5. ASSUME foreign = 0 PROVE CurrentStands'
    <3>1. /\ disk[Current.path] = Current.before
          /\ Current.destination # Absent => disk[Current.destination] = Absent
      BY <1>1, <2>5 DEF IInv, FilesStand, Waiting, Early
    <3>2. <<Current.path, Current.before>> \in observed /\ observed' = observed
      BY <1>1 DEF IInv, PreparedWasObserved, stateVars
    <3>3. CASE Current.destination = Absent
      <4>1. Outcome(Current, Current.path) = Current.text /\ Named(Current) = {Current.path}
        BY <1>1, <2>2, <3>3 DEF Outcome
      <4>2. pc' = "mark"
        BY <2>1, <3>3
      <4> QED
        BY <2>1, <2>4, <4>1, <4>2 DEF CurrentStands, Outcome, Named
    <3>4. CASE Current.destination # Absent
      <4>1. pc' = "ask" /\ Current.destination \in Path /\ Current.destination # Current.path
        BY <1>1, <2>1, <2>2, <3>4 DEF IInv, NamesAreDistinct
      <4>2. disk'[Current.destination] = Absent
        BY <2>4, <3>1, <3>4, <4>1
      <4>3. Current.path \in touched' \/ <<Current.path, Current.text>> \in observed'
        BY <2>4, <3>1, <3>2
      <4> QED
        BY <2>1, <2>4, <4>1, <4>2, <4>3 DEF CurrentStands
    <3> QED
      BY <3>3, <3>4
  <2>6. (IF Current.destination = Absent THEN "mark" ELSE "ask") \in {"ask", "unlink", "mark"}
    OBVIOUS
  <2> QED
    BY <1>1, <1>3, <2>2, <2>3, <2>5, <2>6, ChangeKeeps
<1> QED
  BY <1>2, <1>3 DEF Persist

\* The two halves of a move
LEMMA LinkKeeps == ASSUME IInv, Link PROVE IInv'
<1>1. /\ pc = "link" /\ pc \in Committing /\ UNCHANGED <<worldVars, stateVars>>
      /\ Current \in Prepared /\ Current.kind = "update" /\ Current.destination # Absent
      /\ index \in DOMAIN prepared /\ Current = prepared[index]
  BY CurrentIsPrepared DEF Link, Committing, IInv, StepFits, Current
<1>2. CASE Fail("write") /\ Untouched
  BY <1>1, <1>2, QuietSideStep, FailKeeps
<1>3. CASE Change(Current.destination, disk[Current.path]) /\ Goto("unlink")
  <2>1. pc' = "unlink" /\ Current' = Current
    BY <1>3 DEF Goto, callVars, Current
  <2>2. /\ Current.destination \in Named(Current) /\ Current.path \in Path
        /\ Current.destination \in Path /\ Current.destination # Current.path
        /\ disk[Current.path] \in Text \cup {Absent}
    BY <1>1, PreparedFields DEF IInv, Types, TypeOK, NamesAreDistinct
  <2>3. StepFits'
    BY <1>1, <2>1 DEF StepFits
  <2>4. /\ disk'[Current.destination] = disk[Current.path]
        /\ disk'[Current.path] = disk[Current.path]
        /\ touched \subseteq touched'
    BY <1>3, <2>2 DEF Change, IInv, Types, TypeOK
  <2>5. ASSUME foreign = 0 PROVE CurrentStands'
    <3>1. /\ disk[Current.path] = Current.text
          /\ Current.path \in touched \/ <<Current.path, Current.text>> \in observed
      BY <1>1, <2>5 DEF IInv, FilesStand, CurrentStands
    <3> QED
      BY <1>1, <2>1, <2>4, <3>1 DEF CurrentStands, stateVars
  <2> QED
    BY <1>1, <1>3, <2>2, <2>3, <2>5, ChangeKeeps
<1> QED
  BY <1>2, <1>3 DEF Link

\* The source of a move goes after its destination was linked.
LEMMA UnlinkKeeps == ASSUME IInv, Unlink PROVE IInv'
<1>1. /\ pc = "unlink" /\ pc \in Committing /\ UNCHANGED <<worldVars, stateVars>> /\ SideStep
      /\ Current \in Prepared /\ Current.kind = "update" /\ Current.destination # Absent
      /\ index \in DOMAIN prepared /\ Current = prepared[index]
      /\ index \in Nat \ {0} /\ index <= Len(prepared) /\ Len(prepared) = Len(request)
      /\ Len(prepared) \in Nat
  BY CurrentIsPrepared, QuietSideStep DEF Unlink, Committing, IInv, Types, TypeOK, StepFits, Current
<1>2. /\ Current.path \in Named(Current) /\ Current.path \in Path
      /\ Current.destination \in Path /\ Current.destination # Current.path
      /\ Named(Current) = {Current.path, Current.destination} /\ Current.text \in Text
  BY <1>1, PreparedFields DEF IInv, NamesAreDistinct
<1>3. CASE /\ landed' = Append(landed, Current.destination)
           /\ pending' = <<Current.path>> \o PathsFrom(index + 1)
           /\ Answer("partial")
           /\ Untouched /\ UNCHANGED <<request, prepared, index, changes>>
  <2>1. /\ PathsFrom(index + 1) \in Seq(Path) /\ Len(PathsFrom(index + 1)) = Len(prepared) - index
        /\ \A k \in 1..(Len(prepared) - index) :
             PathsFrom(index + 1)[k] = prepared[k + index].path
    <3>1. index + 1 \in 1..(Len(prepared) + 1)
      BY <1>1
    <3>2. /\ Len(prepared) - (index + 1) + 1 = Len(prepared) - index
          /\ \A k \in 1..(Len(prepared) - index) : k + (index + 1) - 1 = k + index
      BY <1>1
    <3> QED
      BY <3>1, <3>2, PathsFromIs
  <2> DEFINE rest == PathsFrom(index + 1)
  <2> HIDE DEF rest
  <2>2. /\ pending' \in Seq(Path) /\ Len(pending') = 1 + (Len(prepared) - index)
        /\ pending'[1] = Current.path
        /\ \A k \in 1..(Len(prepared) - index) : pending'[k + 1] = rest[k]
    <3>1. pending' = <<Current.path>> \o rest /\ rest \in Seq(Path)
          /\ Len(rest) = Len(prepared) - index
      BY <1>3, <2>1 DEF rest
    <3> QED
      BY <1>1, <1>2, <3>1
  <2>3. pc' = "done" /\ result' = "partial" /\ landed' \in Seq(Path)
    BY <1>2, <1>3 DEF Answer, IInv, Types, TypeOK
  <2>4. Types'
    <3>1. pending' \in Seq(Path)
      BY <2>2
    <3>2. disk' = disk /\ touched' = touched
          /\ UNCHANGED <<request, prepared, index, changes, closed, cancelled, foreign,
                         revision, generation, observed>>
      BY <1>1, <1>3 DEF Untouched, worldVars, stateVars
    <3> QED
      BY <2>3, <3>1, <3>2 DEF IInv, Types, TypeOK, Steps
  <2>5. RequestIsFollowed' /\ NamesAreDistinct' /\ PreparedWasObserved' /\ StepFits'
    BY <1>1, <1>3, <2>3 DEF IInv, RequestIsFollowed, NamesAreDistinct, PreparedWasObserved, StepFits,
       SideStep
  <2>6. ReportsAreExact'
    <3>1. Len(changes) = index - 1
          /\ \A i \in DOMAIN changes : i \in DOMAIN prepared /\ changes[i] = prepared[i]
      BY <1>1 DEF IInv, ReportsAreExact
    <3>2. ASSUME NEW i \in DOMAIN pending' PROVE pending'[i] = prepared[Len(changes) + i].path
      <4>1. i \in 1..(1 + (Len(prepared) - index))
        BY <2>2
      <4>2. CASE i = 1
        BY <1>1, <2>2, <3>1, <4>2
      <4>3. CASE i # 1
        <5>1. i - 1 \in 1..(Len(prepared) - index) /\ (i - 1) + 1 = i
          BY <1>1, <4>1, <4>3
        <5>2. pending'[i] = prepared[(i - 1) + index].path
          BY <2>1, <2>2, <5>1 DEF rest
        <5>3. (i - 1) + index = Len(changes) + i
          BY <1>1, <3>1, <4>1
        <5> QED
          BY <5>2, <5>3
      <4> QED
        BY <4>2, <4>3
    <3>3. Len(changes) + Len(pending') = Len(request)
      <4>1. Len(changes) = index - 1 /\ Len(pending') = 1 + (Len(prepared) - index)
        BY <2>2, <3>1
      <4>2. index \in Nat /\ Len(prepared) \in Nat /\ Len(prepared) = Len(request)
        BY <1>1
      <4> QED
        BY <4>1, <4>2
    <3> QED
      BY <1>1, <1>3, <2>3, <3>1, <3>2, <3>3 DEF ReportsAreExact, Committing
  <2>7. FilesStand'
    BY <1>1, <1>3, <2>3, EndKeepsFiles
  <2> QED
    BY <2>4, <2>5, <2>6, <2>7 DEF IInv
<1>4. CASE Change(Current.path, Absent) /\ Goto("mark")
  <2>1. pc' = "mark" /\ Current' = Current
    BY <1>4 DEF Goto, callVars, Current
  <2>2. StepFits'
    BY <2>1 DEF StepFits
  <2>3. /\ disk'[Current.path] = Absent
        /\ disk'[Current.destination] = disk[Current.destination]
    BY <1>2, <1>4 DEF Change, IInv, Types, TypeOK
  <2>4. ASSUME foreign = 0 PROVE CurrentStands'
    <3>1. disk[Current.destination] = Current.text
      BY <1>1, <2>4 DEF IInv, FilesStand, CurrentStands
    <3>2. Outcome(Current, Current.path) = Absent
      BY <1>1, <1>2, PatchAssumption DEF Outcome
    <3>3. Outcome(Current, Current.destination) = Current.text
      BY <1>1 DEF Outcome
    <3>4. \A path \in Named(Current) : disk'[path] = Outcome(Current, path)
      BY <1>2, <2>3, <3>1, <3>2, <3>3
    <3> QED
      BY <2>1, <3>4 DEF CurrentStands, Named, Outcome
  <2> QED
    BY <1>1, <1>2, <1>4, <2>2, <2>4, ChangeKeeps
<1> QED
  BY <1>3, <1>4 DEF Unlink

\* A completed operation joins the reported changes.
LEMMA CompleteKeeps ==
  ASSUME IInv, pc \in {"mark", "present"}, Complete, SideStep, Untouched
  PROVE  IInv'
<1>1. /\ pc \in Committing /\ index \in Nat \ {0} /\ index <= Len(prepared)
      /\ index \in DOMAIN prepared /\ Current \in Prepared /\ Len(prepared) = Len(request)
      /\ Current = prepared[index] /\ Len(prepared) \in Nat
      /\ prepared \in Seq(Prepared) /\ Len(changes) = index - 1 /\ Len(landed) = index - 1
      /\ landed \in Seq(Path) /\ changes \in Seq(Prepared)
  BY CurrentIsPrepared DEF Committing, IInv, Types, TypeOK, ReportsAreExact, Current
<1>2. Current.path \in Path
  BY <1>1, PreparedFields
<1>3. /\ landed' = Append(landed, Current.path) /\ changes' = Append(changes, Current)
      /\ UNCHANGED <<request, prepared, pending>>
      /\ \/ index = Len(prepared) /\ result' = "ok" /\ pc' = "done" /\ index' = index
         \/ index # Len(prepared) /\ result' = result /\ pc' = "operation" /\ index' = index + 1
  BY DEF Complete, Answer
<1>4. /\ landed' \in Seq(Path) /\ changes' \in Seq(Prepared)
      /\ Len(landed') = index /\ Len(changes') = index
      /\ changes'[index] = Current
      /\ \A i \in 1..(index - 1) : changes'[i] = changes[i]
  BY <1>1, <1>2, <1>3
<1>5. index' \in 1..Len(request)
  BY <1>1, <1>3
<1>6. Types'
  BY <1>3, <1>4, <1>5 DEF IInv, Types, TypeOK, SideStep, Untouched, Steps, Committing
<1>7. RequestIsFollowed' /\ NamesAreDistinct' /\ PreparedWasObserved'
  BY <1>3 DEF IInv, RequestIsFollowed, NamesAreDistinct, PreparedWasObserved, SideStep
<1>8. StepFits'
  BY <1>3 DEF StepFits
<1>9. \A i \in DOMAIN changes' : i \in DOMAIN prepared /\ changes'[i] = prepared[i]
  <2> SUFFICES ASSUME NEW i \in DOMAIN changes'
               PROVE  i \in DOMAIN prepared /\ changes'[i] = prepared[i]
    OBVIOUS
  <2>1. i \in 1..index
    BY <1>4
  <2>2. CASE i = index
    BY <1>1, <1>4, <2>2
  <2>3. CASE i # index
    <3>1. i \in 1..(index - 1) /\ i \in DOMAIN changes
      BY <1>1, <2>1, <2>3
    <3> QED
      BY <1>4, <3>1 DEF IInv, ReportsAreExact
  <2> QED
    BY <2>2, <2>3
<1>10. ReportsAreExact'
  <2>1. result = "none"
    BY <1>1 DEF IInv, ReportsAreExact, Committing
  <2>2. pc' = "operation" => Len(landed') = index' - 1 /\ Len(changes') = index' - 1
    BY <1>1, <1>3, <1>4
  <2> QED
    BY <1>1, <1>3, <1>9, <2>1, <2>2 DEF ReportsAreExact, Committing
<1>11. FilesStand'
  <2>1. SUFFICES ASSUME foreign' = 0 PROVE ReportedChangesHold' /\ CurrentStands' /\ Waiting'
    BY DEF FilesStand
  <2>2. foreign = 0 /\ disk' = disk /\ ReportedChangesHold /\ CurrentStands /\ Waiting
    BY <2>1 DEF IInv, FilesStand, SideStep, Untouched
  <2>3. ReportedChangesHold'
    <3>1. ASSUME NEW i \in DOMAIN changes', NEW q \in Named(changes'[i])
          PROVE  disk'[q] = Outcome(changes'[i], q)
      <4>1. i \in 1..index
        BY <1>4
      <4>2. CASE i = index
        BY <1>4, <2>2, <4>2 DEF CurrentStands
      <4>3. CASE i # index
        <5>1. i \in DOMAIN changes /\ changes'[i] = changes[i]
          BY <1>1, <1>4, <4>1, <4>3
        <5> QED
          BY <2>2, <5>1 DEF ReportedChangesHold
      <4> QED
        BY <4>2, <4>3
    <3> QED
      BY <3>1 DEF ReportedChangesHold, Named, Outcome
  <2>4. CurrentStands'
    BY <1>3 DEF CurrentStands
  <2>5. Waiting'
    <3>1. ASSUME NEW i \in DOMAIN prepared, i > index' \/ (i = index' /\ pc' \in Early)
          PROVE  i > index
      BY <1>1, <1>3, <3>1 DEF Early
    <3> QED
      BY <1>3, <2>2, <3>1 DEF Waiting
  <2> QED
    BY <2>3, <2>4, <2>5
<1> QED
  BY <1>6, <1>7, <1>8, <1>10, <1>11 DEF IInv

\* A change is marked only once it has landed.
LEMMA MarkKeeps == ASSUME IInv, Mark PROVE IInv'
<1>1. /\ pc = "mark" /\ pc \in Committing /\ Current \in Prepared /\ Untouched
      /\ UNCHANGED <<worldVars, observed>>
  BY CurrentIsPrepared DEF Mark, Committing
<1>2. SideStep
  <2>1. Target \in Path
    BY <1>1, PreparedFields DEF Target
  <2> QED
    BY <1>1, <2>1 DEF IInv, Types, TypeOK, Mark, SideStep, worldVars
<1>3. CASE Current.kind = "delete" /\ Complete
  BY <1>1, <1>2, <1>3, CompleteKeeps
<1>4. CASE Fail("closed")
  BY <1>1, <1>2, <1>4, FailKeeps
<1>5. CASE Current.kind # "delete" /\ Goto("present")
  <2>1. "present" \in Committing /\ pc' = "present" /\ Current' = Current
    BY <1>5 DEF Committing, Goto, callVars, Current
  <2>2. StepFits'
    BY <1>5, <2>1 DEF StepFits
  <2>3. CurrentStands => CurrentStands'
    BY <1>1, <2>1 DEF CurrentStands, Untouched, Outcome, Named
  <2>4. pc' \notin Early
    BY <2>1 DEF Early
  <2> QED
    BY <1>1, <1>2, <1>5, <2>1, <2>2, <2>3, <2>4, AskKeeps
<1> QED
  BY <1>3, <1>4, <1>5 DEF Mark

\* A marked change is shown, and the next operation begins.
LEMMA PresentKeeps == ASSUME IInv, Present PROVE IInv'
<1>1. /\ pc = "present" /\ pc \in Committing /\ Current \in Prepared /\ Untouched
      /\ UNCHANGED <<worldVars, revision, generation>> /\ Current.kind # "delete"
  BY CurrentIsPrepared DEF Present, Committing, IInv, StepFits
<1>2. Target \in Path /\ Current.text \in Text
  BY <1>1, PreparedFields DEF Target
<1>3. CASE Fail("closed") /\ UNCHANGED observed
  <2>1. SideStep
    BY <1>1, <1>3 DEF IInv, Types, TypeOK, SideStep, worldVars
  <2> QED
    BY <1>1, <1>3, <2>1, FailKeeps
<1>4. CASE Complete /\ observed' = observed \cup {<<Target, Current.text>>}
  <2>1. SideStep
    BY <1>1, <1>2, <1>4 DEF IInv, Types, TypeOK, SideStep, worldVars
  <2> QED
    BY <1>1, <1>4, <2>1, CompleteKeeps
<1> QED
  BY <1>3, <1>4 DEF Present

-----------------------------------------------------------------------------
(* Preflight *)

\* An operation joins the prepared ones as its files are now.
LEMMA PrepareKeeps == ASSUME IInv, Prepare PROVE IInv'
<1> DEFINE o == request[Len(prepared) + 1]
           new == [kind |-> o.kind, path |-> o.path, destination |-> o.destination,
                   text |-> o.text, before |-> disk[o.path]]
<1>1. /\ pc = "prepare" /\ result = "none" /\ index = 1 /\ landed = <<>> /\ changes = <<>>
      /\ Len(prepared) < Len(request) /\ Len(prepared) \in Nat /\ prepared \in Seq(Prepared)
      /\ Len(request) \in Nat \ {0} /\ request \in Seq(Operation)
  BY PatchIsSequence DEF IInv, Types, TypeOK, ReportsAreExact, Prepare
<1>2. UNCHANGED <<disk, worldVars, stateVars, request, index, landed, changes, pending, touched>>
  BY DEF Prepare
<1>3. SideStep /\ Untouched
  BY <1>2, QuietSideStep DEF Untouched
<1>4. CASE (Answer("cancelled") \/ Answer("refused")) /\ UNCHANGED prepared
  <2>1. pc' = "done" /\ result' \in {"cancelled", "refused"}
    BY <1>4 DEF Answer
  <2>2. Types'
    BY <1>2, <1>4, <2>1 DEF IInv, Types, TypeOK, Steps, worldVars, stateVars
  <2>3. RequestIsFollowed' /\ NamesAreDistinct' /\ PreparedWasObserved' /\ StepFits'
    BY <1>2, <1>4, <2>1 DEF IInv, RequestIsFollowed, NamesAreDistinct, PreparedWasObserved, StepFits,
       stateVars
  <2>4. ReportsAreExact'
    BY <1>2, <1>4, <2>1 DEF IInv, ReportsAreExact, Committing
  <2>5. FilesStand'
    BY <1>2, <1>3, <1>4, <2>1, EndKeepsFiles
  <2> QED
    BY <2>2, <2>3, <2>4, <2>5 DEF IInv
<1>5. CASE /\ ~Duplicate(o) /\ Preparable(o)
           /\ prepared' = Append(prepared, new)
           /\ pc' = IF Len(prepared') = Len(request) THEN "operation" ELSE "prepare"
           /\ UNCHANGED result
  <2>1. o \in Operation
    BY <1>1
  <2>2. /\ new \in Prepared /\ new.kind = o.kind /\ new.path = o.path
        /\ new.destination = o.destination /\ new.before = disk[o.path]
        /\ Named(new) = Named(o)
    <3>1. o.path \in Path
      BY <2>1 DEF Operation
    <3>2. disk[o.path] \in Text \cup {Absent}
      BY <3>1 DEF IInv, Types, TypeOK
    <3>3. new \in Prepared
      <4>1. \A q \in Operation, before \in Text \cup {Absent} :
              [kind |-> q.kind, path |-> q.path, destination |-> q.destination,
               text |-> q.text, before |-> before] \in Prepared
        BY DEF Prepared
      <4> HIDE DEF o
      <4> QED
        BY <2>1, <3>2, <4>1
    <3>4. /\ new.kind = o.kind /\ new.path = o.path /\ new.destination = o.destination
          /\ new.before = disk[o.path]
      OBVIOUS
    <3> HIDE DEF new
    <3> QED
      BY <3>3, <3>4 DEF Named
  <2> HIDE DEF new
  <2>3. /\ prepared' \in Seq(Prepared) /\ Len(prepared') = Len(prepared) + 1
        /\ DOMAIN prepared' = 1..(Len(prepared) + 1)
        /\ prepared'[Len(prepared) + 1] = new
        /\ \A i \in DOMAIN prepared : prepared'[i] = prepared[i]
        /\ DOMAIN prepared = 1..Len(prepared)
    BY <1>1, <1>5, <2>2
  <2> DEFINE n == Len(prepared) + 1
  <2>4. \A i \in DOMAIN prepared' : i = n \/ i \in DOMAIN prepared
    BY <1>1, <2>3
  <2>5. n \notin DOMAIN prepared /\ n \in DOMAIN prepared' /\ n <= Len(request) /\ n \in Nat \ {0}
    BY <1>1, <2>3
  <2>6. pc' = (IF n = Len(request) THEN "operation" ELSE "prepare")
    BY <1>5, <2>3
  <2>7. /\ o.path \in Path /\ o.destination \in Path \cup {Absent} /\ o.path # Absent
        /\ o.kind # "update" => o.destination = Absent
    BY <2>1, PatchAssumption DEF Operation
  <2>8. Types'
    <3>1. Len(prepared') <= Len(request) /\ pc' \in Steps
      BY <1>1, <2>3, <2>5, <2>6 DEF Steps, Committing
    <3> QED
      BY <1>2, <2>3, <3>1 DEF IInv, Types, TypeOK, worldVars, stateVars
  <2>9. RequestIsFollowed'
    BY <1>2, <2>2, <2>3, <2>4 DEF IInv, RequestIsFollowed
  <2>10. NamesAreDistinct'
    <3>1. new.destination # new.path
      BY <1>5, <2>2 DEF Duplicate
    <3>2. \A i \in DOMAIN prepared : Named(prepared[i]) \cap Named(new) = {}
      <4>1. o.path \notin NamedBefore /\ o.destination \notin NamedBefore
        BY <1>5 DEF Duplicate
      <4> QED
        BY <2>2, <4>1 DEF NamedBefore, Named
    <3>3. \A i \in DOMAIN prepared' : prepared'[i].destination # prepared'[i].path
      BY <2>3, <2>4, <3>1 DEF IInv, NamesAreDistinct
    <3>4. ASSUME NEW i \in DOMAIN prepared', NEW j \in DOMAIN prepared', i # j
          PROVE  Named(prepared'[i]) \cap Named(prepared'[j]) = {}
      <4>1. CASE i = n
        BY <2>3, <2>4, <3>2, <3>4, <4>1
      <4>2. CASE j = n
        BY <2>3, <2>4, <3>2, <3>4, <4>2
      <4>3. CASE i # n /\ j # n
        BY <2>3, <2>4, <3>4, <4>3 DEF IInv, NamesAreDistinct
      <4> QED
        BY <4>1, <4>2, <4>3
    <3> QED
      BY <3>3, <3>4 DEF NamesAreDistinct, Named
  <2>11. PreparedWasObserved'
    <3>1. new.kind # "create" => <<new.path, new.before>> \in observed
      BY <1>5, <2>2 DEF Preparable
    <3> QED
      BY <1>2, <2>3, <2>4, <3>1 DEF IInv, PreparedWasObserved, stateVars
  <2>12. ReportsAreExact'
    <3>1. DOMAIN changes' = {} /\ Len(landed') = 0 /\ Len(changes') = 0
      BY <1>1, <1>2
    <3>2. pc' = "prepare" => Len(prepared') < Len(request)
      BY <1>1, <2>3, <2>5, <2>6
    <3>3. pc' = "operation" => Len(prepared') = Len(request)
      BY <2>3, <2>6
    <3>4. /\ pc' \in {"prepare", "operation"} /\ index' = 1 /\ landed' = <<>> /\ changes' = <<>>
          /\ result' = "none" /\ request' = request /\ 1 - 1 = 0
      BY <1>1, <1>2, <1>5, <2>6
    <3> QED
      BY <3>1, <3>2, <3>3, <3>4 DEF ReportsAreExact, Committing
  <2>13. StepFits'
    BY <2>6 DEF StepFits
  <2>14. FilesStand'
    <3>1. SUFFICES ASSUME foreign' = 0 PROVE ReportedChangesHold' /\ CurrentStands' /\ Waiting'
      BY DEF FilesStand
    <3>2. Waiting
      BY <1>2, <3>1 DEF IInv, FilesStand, worldVars
    <3>3. ReportedChangesHold'
      <4>1. DOMAIN changes' = {}
        BY <1>1, <1>2
      <4> QED
        BY <4>1 DEF ReportedChangesHold
    <3>4. CurrentStands'
      BY <2>6 DEF CurrentStands
    <3>5. Waiting'
      <4>1. /\ disk[new.path] = new.before
            /\ new.destination # Absent => disk[new.destination] = Absent
        BY <1>5, <2>2, <2>7 DEF Preparable
      <4>2. \A i \in DOMAIN prepared : i > index \/ (i = index /\ pc \in Early)
        BY <1>1, <2>3 DEF Early
      <4>3. \A i \in DOMAIN prepared' :
              /\ disk[prepared'[i].path] = prepared'[i].before
              /\ prepared'[i].destination # Absent => disk[prepared'[i].destination] = Absent
        BY <2>3, <2>4, <3>2, <4>1, <4>2 DEF Waiting
      <4> QED
        BY <1>2, <4>3 DEF Waiting
    <3> QED
      BY <3>3, <3>4, <3>5
  <2> QED
    BY <2>8, <2>9, <2>10, <2>11, <2>12, <2>13, <2>14 DEF IInv
<1> QED
  BY <1>4, <1>5 DEF Prepare

-----------------------------------------------------------------------------
(* Everybody else *)

\* A cancellation or a close changes no file.
LEMMA CancelOrCloseKeeps == ASSUME IInv, Cancel \/ Close PROVE IInv'
<1>1. /\ UNCHANGED <<disk, stateVars, callVars, pc, touched, foreign>>
      /\ closed' \in BOOLEAN /\ cancelled' \in BOOLEAN
  BY DEF Cancel, Close, IInv, Types, TypeOK
<1>2. Types'
  BY <1>1 DEF IInv, Types, TypeOK, stateVars, callVars
<1>3. RequestIsFollowed' /\ NamesAreDistinct' /\ PreparedWasObserved' /\ ReportsAreExact'
  BY <1>1 DEF IInv, RequestIsFollowed, NamesAreDistinct, PreparedWasObserved, ReportsAreExact,
     stateVars, callVars
<1>4. StepFits'
  BY <1>1 DEF IInv, StepFits, callVars, Current
<1>5. FilesStand'
  BY <1>1 DEF IInv, FilesStand, ReportedChangesHold, CurrentStands, Waiting, Outcome, Named, Current,
     stateVars, callVars
<1> QED
  BY <1>2, <1>3, <1>4, <1>5 DEF IInv

\* A program outside ends what is promised of the files, nothing else.
LEMMA ForeignWriteKeeps == ASSUME IInv, ForeignWrite PROVE IInv'
<1>1. /\ UNCHANGED <<closed, cancelled, stateVars, callVars, pc, touched>>
      /\ foreign' \in 0..MaxForeign /\ foreign' # 0
      /\ disk' \in [Path -> Text \cup {Absent}]
  BY PatchAssumption DEF ForeignWrite, IInv, Types, TypeOK
<1>2. Types'
  BY <1>1 DEF IInv, Types, TypeOK, stateVars, callVars
<1>3. RequestIsFollowed' /\ NamesAreDistinct' /\ PreparedWasObserved' /\ ReportsAreExact'
  BY <1>1 DEF IInv, RequestIsFollowed, NamesAreDistinct, PreparedWasObserved, ReportsAreExact,
     stateVars, callVars
<1>4. StepFits' /\ FilesStand'
  BY <1>1 DEF IInv, StepFits, FilesStand, callVars, Current
<1> QED
  BY <1>2, <1>3, <1>4 DEF IInv

\* Nothing of the patch is committed at first.
LEMMA InitIInv == Init => IInv
<1> SUFFICES ASSUME Init PROVE IInv
  OBVIOUS
<1>1. request \in Patches /\ Len(request) \in Nat \ {0}
  BY PatchIsSequence DEF Init
<1>2. prepared = <<>> /\ Len(prepared) = 0 /\ DOMAIN prepared = {} /\ prepared \in Seq(Prepared)
  BY DEF Init
<1>3. changes = <<>> /\ DOMAIN changes = {} /\ changes \in Seq(Prepared)
  BY DEF Init
<1>4. landed = <<>> /\ pending = <<>> /\ landed \in Seq(Path) /\ pending \in Seq(Path)
  BY DEF Init
<1>5. disk \in [Path -> Text \cup {Absent}]
  BY PatchAssumption DEF Init
<1>6. observed \subseteq Path \X Text
  BY <1>5 DEF Init
<1>7. Types
  <2>1. generation \in [Path -> Nat \ {0}] /\ index \in 1..Len(request) /\ foreign \in 0..MaxForeign
    BY <1>1, PatchAssumption DEF Init
  <2>2. closed \in BOOLEAN /\ cancelled \in BOOLEAN /\ revision \in Nat /\ touched \subseteq Path
    BY DEF Init
  <2>3. pc \in Steps /\ Len(prepared) <= Len(request)
    BY <1>1, <1>2 DEF Init, Steps
  <2> QED
    BY <1>1, <1>2, <1>3, <1>4, <1>5, <1>6, <2>1, <2>2, <2>3 DEF Types, TypeOK
<1>8. RequestIsFollowed /\ NamesAreDistinct /\ PreparedWasObserved
  BY <1>2 DEF RequestIsFollowed, NamesAreDistinct, PreparedWasObserved
<1>9. ReportsAreExact /\ StepFits
  BY <1>1, <1>2, <1>3, <1>4 DEF Init, ReportsAreExact, StepFits, Committing
<1>10. FilesStand
  BY <1>2, <1>3 DEF Init, FilesStand, ReportedChangesHold, CurrentStands, Waiting
<1> QED
  BY <1>7, <1>8, <1>9, <1>10 DEF IInv

\* Every step keeps the invariant.
LEMMA NextKeepsIInv == IInv /\ [Next]_vars => IInv'
<1> SUFFICES ASSUME IInv, [Next]_vars PROVE IInv'
  OBVIOUS
<1>1. CASE UNCHANGED vars
  <2> USE <1>1 DEF vars, worldVars, stateVars, callVars, IInv
  <2>1. Types'
    BY DEF Types, TypeOK
  <2>2. RequestIsFollowed' /\ NamesAreDistinct' /\ PreparedWasObserved' /\ ReportsAreExact'
    BY DEF RequestIsFollowed, NamesAreDistinct, PreparedWasObserved, ReportsAreExact
  <2>3. StepFits' /\ FilesStand'
    BY DEF StepFits, FilesStand, ReportedChangesHold, CurrentStands, Waiting, Outcome, Named, Current
  <2> QED
    BY <2>1, <2>2, <2>3
<1>2. CASE Next
  BY <1>2, PrepareKeeps, OperateKeeps, CreateKeeps, DeleteKeeps, VerifyKeeps, PersistKeeps,
     AskMoveKeeps, LinkKeeps, UnlinkKeeps, MarkKeeps, PresentKeeps, CancelOrCloseKeeps,
     ForeignWriteKeeps DEF Next
<1> QED
  BY <1>1, <1>2

-----------------------------------------------------------------------------
(* Theorems *)

\* The inductive invariant holds, for any patch.
THEOREM InvariantHolds == Spec => []IInv
BY InitIInv, NextKeepsIInv, PTL DEF Spec

\* The state keeps its types.
THEOREM TypesHold == Spec => []TypeOK
<1>1. IInv => TypeOK
  BY DEF IInv, Types
<1> QED
  BY <1>1, InvariantHolds, PTL

\* What a patch reports as changed is on disk, and a partial answer names
\* the rest as pending, in order (patch_commit.rs:11-58).
THEOREM AnswersHold == Spec => []AnswersAreTrue
<1>1. IInv => ReportedChangesHold
  BY DEF IInv, FilesStand, ReportedChangesHold
<1>2. IInv => PartialCommitsAccountForAll
  <2> SUFFICES ASSUME IInv, result = "partial"
               PROVE  /\ \A i \in DOMAIN changes : changes[i].path = request[i].path
                      /\ Len(changes) + Len(pending) = Len(request)
                      /\ \A i \in DOMAIN pending : pending[i] = request[Len(changes) + i].path
    BY DEF PartialCommitsAccountForAll
  <2>1. /\ Len(prepared) = Len(request) /\ Len(changes) + Len(pending) = Len(request)
        /\ \A i \in DOMAIN pending : pending[i] = prepared[Len(changes) + i].path
        /\ \A i \in DOMAIN changes : i \in DOMAIN prepared /\ changes[i] = prepared[i]
    BY DEF IInv, ReportsAreExact
  <2>2. \A i \in DOMAIN prepared : prepared[i].path = request[i].path
    BY DEF IInv, RequestIsFollowed
  <2>3. ASSUME NEW i \in DOMAIN pending PROVE Len(changes) + i \in DOMAIN prepared
    <3>1. /\ Len(changes) \in Nat /\ Len(pending) \in Nat /\ i \in 1..Len(pending)
          /\ DOMAIN prepared = 1..Len(prepared)
      BY DEF IInv, Types, TypeOK
    <3> QED
      BY <2>1, <3>1
  <2> QED
    BY <2>1, <2>2, <2>3
<1> QED
  BY <1>1, <1>2, InvariantHolds, PTL DEF AnswersAreTrue

\* What preflight found of an operation's files still holds when its turn
\* comes, unless a program outside writes (patch_plan.rs, patch_commit.rs).
THEOREM PreflightHolds == Spec => []PreflightStillHolds
<1>1. IInv => PreflightStillHolds
  BY DEF IInv, FilesStand, Waiting, PreflightStillHolds, Early
<1> QED
  BY <1>1, InvariantHolds, PTL

\* A patch overwrites or removes a file only as the ledger authorized it or
\* as the patch itself has left it.
THEOREM ChangesAreAuthorized == Spec => OnlyAuthorizedFilesAreChanged
<1> DEFINE Authorized ==
      \A path \in Path :
        disk'[path] # disk[path] /\ disk[path] # Absent =>
          path \in touched \/ <<path, disk[path]>> \in observed
<1>1. ASSUME IInv, [Next]_vars, foreign = 0, foreign' = 0 PROVE Authorized
  <2>1. CASE disk' = disk
    BY <2>1
  <2>2. CASE ForeignWrite
    BY <1>1, <2>2 DEF ForeignWrite
  <2>3. ASSUME pc \in Committing, NEW path \in Named(Current), NEW file, Change(path, file),
               disk[path] # Absent => path \in touched \/ <<path, disk[path]>> \in observed
        PROVE  Authorized
    BY <2>3 DEF Change
  <2>4. CurrentStands /\ Waiting
    BY <1>1 DEF IInv, FilesStand
  <2>5. ASSUME pc \in Committing
        PROVE  /\ Current \in Prepared /\ index \in DOMAIN prepared /\ Current = prepared[index]
               /\ Current.kind # "create" => <<Current.path, Current.before>> \in observed
               /\ Current.path \in Named(Current)
               /\ Current.destination # Absent => Current.destination \in Named(Current)
    <3>1. Current \in Prepared /\ index \in DOMAIN prepared /\ Current = prepared[index]
      BY <1>1, <2>5, CurrentIsPrepared DEF Current
    <3>2. /\ Current.path \in Named(Current)
          /\ Current.destination # Absent => Current.destination \in Named(Current)
      BY <3>1, PreparedFields
    <3> QED
      BY <1>1, <3>1, <3>2 DEF IInv, PreparedWasObserved
  <2>6. CASE Create /\ Change(Current.path, Current.text) /\ disk[Current.path] = Absent
    BY <2>3, <2>5, <2>6 DEF Create, Committing
  <2>7. CASE Delete /\ Change(Current.path, Absent)
    <3>1. pc \in Committing /\ pc = "delete"
      BY <2>7 DEF Delete, Committing
    <3>2. disk[Current.path] = Current.before /\ Current.kind # "create"
      BY <1>1, <2>4, <2>5, <3>1 DEF Waiting, Early, IInv, StepFits, Types, TypeOK
    <3> QED
      BY <2>3, <2>5, <2>7, <3>1, <3>2
  <2>8. CASE Persist /\ Change(Current.path, Current.text)
    <3>1. pc \in Committing /\ pc = "persist"
      BY <2>8 DEF Persist, Committing
    <3>2. disk[Current.path] = Current.before /\ Current.kind # "create"
      BY <1>1, <2>4, <2>5, <3>1 DEF Waiting, Early, IInv, StepFits, Types, TypeOK
    <3> QED
      BY <2>3, <2>5, <2>8, <3>1, <3>2
  <2>9. CASE Link /\ Change(Current.destination, disk[Current.path]) /\ disk[Current.destination] = Absent
    <3>1. pc \in Committing /\ Current.destination # Absent
      BY <1>1, <2>9 DEF Link, Committing, IInv, StepFits
    <3> QED
      BY <2>3, <2>5, <2>9, <3>1
  <2>10. CASE Unlink /\ Change(Current.path, Absent)
    <3>1. pc \in Committing /\ pc = "unlink"
      BY <2>10 DEF Unlink, Committing
    <3>2. Current.path \in touched \/ <<Current.path, disk[Current.path]>> \in observed
      BY <2>4, <3>1 DEF CurrentStands
    <3> QED
      BY <2>3, <2>5, <2>10, <3>1, <3>2
  <2>11. CASE Next /\ disk' # disk /\ ~ForeignWrite
    BY <2>6, <2>7, <2>8, <2>9, <2>10, <2>11 DEF Next, Prepare, Operate, Create, Delete, Verify,
       Persist, Ask, Link, Unlink, Mark, Present, Cancel, Close, Untouched
  <2> QED
    BY <1>1, <2>1, <2>2, <2>11 DEF vars
<1>2. IInv /\ [Next]_vars => [foreign = 0 /\ foreign' = 0 => Authorized]_vars
  BY <1>1
<1> QED
  BY <1>2, InvariantHolds, PTL DEF Spec, OnlyAuthorizedFilesAreChanged
=============================================================================
