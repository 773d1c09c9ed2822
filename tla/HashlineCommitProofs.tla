------------------------- MODULE HashlineCommitProofs -------------------------
(***************************************************************************)
(* Theorems about hashline edits.  First the commit of an edit, for any    *)
(* plan of any length: a file is where it was, in the staging directory,   *)
(* in a staging directory that was kept, or committed, and no step of one  *)
(* file touches the path or the destination of another.  Then the lines    *)
(* the files of the edit get.                                              *)
(***************************************************************************)
EXTENDS HashlineCommit, HashlineApply, FiniteSetTheorems, TLAPS

Steps == {"next", "check", "verify", "persist", "resolve", "stage", "recheck", "delete",
          "prepare", "link", "unstage", "rollback", "unfinal", "mark", "present", "done"}

\* The steps before a file is touched, and those with its source staged
Before == {"next", "check", "verify", "persist", "resolve", "stage"}
Staged == {"recheck", "delete", "prepare", "link"}
Linked == {"unstage", "rollback"}
After == {"mark", "present"}

-----------------------------------------------------------------------------
(* The inductive invariant *)

Results == {"none", "ok", "cancelled", "stale", "write", "path", "closed", "partial"}
Answers == [result : Results, landed : SUBSET Path, pending : SUBSET Path, changes : SUBSET Nat]

Types ==
  /\ PlanOK(plan) /\ index \in 1..Len(plan) + 1 /\ pc \in Steps
  /\ disk \in [Path -> File \cup {Absent}]
  /\ source \in File \cup {Absent} /\ final \in File \cup {Absent}
  /\ kept \subseteq Text
  /\ registers \in {"before", "after", "cleared"}
  /\ revision \in Nat /\ foreign \in Nat
  /\ answer \in Answers
  /\ done \subseteq DOMAIN plan

\* The files before the current one are done, those after it are not.
InOrder ==
  /\ pc \notin {"next", "done"} => index \in DOMAIN plan
  /\ \A i \in DOMAIN plan : (i < index => i \in done) /\ (i > index => i \notin done)
  /\ index \in done => pc \in {"unfinal", "mark", "present", "done"}
  /\ pc \in After \cup {"unfinal"} => index \in done \/ Current.kind = "keep"
  /\ revision <= Len(plan) /\ (pc \notin {"present", "done"} => revision < index)
  /\ pc = "present" => revision <= index

\* A step is one of those for what happens to the file.
KindFits ==
  /\ pc \in {"verify", "persist"} => Current.kind = "update"
  /\ pc \in {"stage", "recheck"} => Current.kind \in {"remove", "move", "move_update"}
  /\ pc = "delete" => Current.kind = "remove"
  /\ pc = "prepare" => Current.kind = "move_update"
  /\ pc \in {"resolve", "link", "unstage", "rollback", "unfinal"} =>
       Current.kind \in {"move", "move_update"}

\* What is in the staging directory fits the step, and no directory is kept
\* while the edit goes on.
StagingFits ==
  /\ pc # "done" => kept = {}
  /\ pc \in Before \cup After => source = Absent /\ final = Absent
  /\ pc \in Staged \cup Linked => source # Absent
  /\ pc \in Staged \ {"link"} => final = Absent
  /\ pc \in Linked \cup {"link"} =>
       final = IF Current.kind = "move_update" THEN Made(New(Current.path)) ELSE Absent
  /\ pc = "unfinal" => source = Absent

\* The file of a section where it was planned, and its destination as it was
Planned(path) == [text |-> Old(path), planned |-> TRUE]
Untouched(i) == disk[plan[i].path] = Planned(plan[i].path)
DestinationIsUntouched(i) ==
  plan[i].destination # Absent /\ disk[plan[i].destination] # Absent =>
    disk[plan[i].destination].text = Old(plan[i].destination)

\* The committed file of a section
Target(section) ==
  IF section.kind \in {"move", "move_update"} THEN section.destination ELSE section.path
Landed(i) ==
  plan[i].kind # "remove" =>
    disk[Target(plan[i])] # Absent /\ disk[Target(plan[i])].text = FinalText(plan[i])

\* A file that is not the current one is committed or untouched.
FileFits(i) ==
  IF i \in done THEN Landed(i) ELSE Untouched(i) /\ DestinationIsUntouched(i)

\* Where the current one is at each step
CurrentFits ==
  /\ IF index \in done THEN Landed(index)
     ELSE \/ Untouched(index)
          \/ source = Planned(Current.path)
          \/ Old(Current.path) \in kept
  /\ pc \in Before => Untouched(index) /\ DestinationIsUntouched(index)
  /\ pc \in Staged \cup Linked => disk[Current.path] = Absent /\ source = Planned(Current.path)
  /\ pc \in Staged => DestinationIsUntouched(index)
  /\ pc \in Linked => disk[Current.destination] = IF final = Absent THEN source ELSE final

FilesFit ==
  foreign = 0 =>
    /\ \A i \in DOMAIN plan \ {index} : FileFits(i)
    /\ index \in DOMAIN plan => CurrentFits

IInv ==
  /\ Types /\ InOrder /\ KindFits /\ StagingFits /\ FilesFit
  /\ pc # "done" => answer = Pending
  /\ AnswersAreTrue

-----------------------------------------------------------------------------
(* What the steps share *)

\* The sections of a plan
LEMMA PlannedSections ==
  ASSUME PlanOK(plan), NEW i \in DOMAIN plan
  PROVE  /\ plan[i] \in Section /\ plan[i].path \in Path /\ plan[i].kind \in Kind
         /\ plan[i].destination \in Path \cup {Absent}
         /\ plan[i].kind \in {"move", "move_update"} => plan[i].destination \in Path
         /\ Target(plan[i]) \in Path
         /\ Old(plan[i].path) \in Text /\ New(plan[i].path) \in Text
         /\ FinalText(plan[i]) \in {Old(plan[i].path), New(plan[i].path)}
         /\ Planned(plan[i].path) \in File /\ Made(New(plan[i].path)) \in File
<1>1. plan[i] \in Section
  BY DEF PlanOK
<1>2. /\ plan[i].path \in Path /\ plan[i].kind \in Kind /\ plan[i].destination \in Path \cup {Absent}
      /\ plan[i].kind \in {"move", "move_update"} => plan[i].destination \in Path
  BY <1>1 DEF PlanOK, Section
<1>3. Old(plan[i].path) \in Text /\ New(plan[i].path) \in Text
  BY <1>2 DEF Text
<1>4. Planned(plan[i].path) \in File /\ Made(New(plan[i].path)) \in File
  BY <1>3 DEF Planned, Made, File
<1> QED
  BY <1>1, <1>2, <1>3, <1>4 DEF Target, FinalText

\* Two sections of a plan share no path.
LEMMA SectionsAreApart ==
  ASSUME PlanOK(plan), NEW i \in DOMAIN plan, NEW j \in DOMAIN plan, i # j
  PROVE  /\ plan[i].path # plan[j].path /\ plan[i].path # plan[j].destination
         /\ plan[i].destination # plan[j].path
         /\ plan[i].destination # Absent => plan[i].destination # plan[j].destination
         /\ Target(plan[i]) # plan[j].path /\ Target(plan[i]) # plan[j].destination
<1>1. /\ plan[i].path # plan[j].path /\ plan[i].path # plan[j].destination
      /\ plan[i].destination # plan[j].path
      /\ plan[i].destination # Absent => plan[i].destination # plan[j].destination
  BY DEF PlanOK
<1>2. plan[i].kind \in {"move", "move_update"} => plan[i].destination # Absent
  BY DEF PlanOK
<1> QED
  BY <1>1, <1>2 DEF Target

\* A step of the current file changes no other path than its own.
OwnFiles ==
  /\ disk' \in [Path -> File \cup {Absent}]
  /\ \A p \in Path : p # Current.path /\ p # Current.destination => disk'[p] = disk[p]

\* The other files stay as they are.
LEMMA OthersFit ==
  ASSUME Types, plan' = plan, index \in DOMAIN plan, OwnFiles,
         NEW i \in DOMAIN plan, i # index, FileFits(i), i \in done' <=> i \in done
  PROVE  FileFits(i)'
<1>1. /\ plan[i].path # Current.path /\ plan[i].path # Current.destination
      /\ plan[i].destination # Current.path
      /\ plan[i].destination # Absent => plan[i].destination # Current.destination
      /\ Target(plan[i]) # Current.path /\ Target(plan[i]) # Current.destination
  BY SectionsAreApart DEF Types, Current
<1>2. plan[i].path \in Path /\ Target(plan[i]) \in Path /\ plan[i].destination \in Path \cup {Absent}
  BY PlannedSections DEF Types
<1>3. /\ disk'[plan[i].path] = disk[plan[i].path]
      /\ disk'[Target(plan[i])] = disk[Target(plan[i])]
      /\ plan[i].destination # Absent => disk'[plan[i].destination] = disk[plan[i].destination]
  BY <1>1, <1>2 DEF OwnFiles
<1>4. Landed(i)' <=> Landed(i)
  BY <1>3 DEF Landed
<1>5. (Untouched(i) /\ DestinationIsUntouched(i))' <=> Untouched(i) /\ DestinationIsUntouched(i)
  BY <1>3 DEF Untouched, DestinationIsUntouched
<1> QED
  BY <1>4, <1>5 DEF FileFits

\* So the files fit after a step if the current one does.
LEMMA FilesStayFit ==
  ASSUME IInv, plan' = plan, index' = index, index \in DOMAIN plan, foreign' = foreign, OwnFiles,
         \A i \in DOMAIN plan : i # index => (i \in done' <=> i \in done),
         foreign = 0 => CurrentFits'
  PROVE  FilesFit'
<1> SUFFICES ASSUME foreign = 0, NEW i \in DOMAIN plan, i # index
             PROVE  FileFits(i)'
  BY DEF FilesFit
<1>1. FileFits(i)
  BY DEF IInv, FilesFit
<1> QED
  BY <1>1, OthersFit DEF IInv

\* While an edit goes on its answer is pending, which promises nothing.
LEMMA PendingIsTrue ==
  ASSUME answer' = Pending, pc' # "done"
  PROVE  AnswersAreTrue'
BY DEF AnswersAreTrue, RefusedEditsRestore, PartialCommitsAreTrue, Pending, Answer

\* What a step to another one leaves
LEMMA GotoKeeps ==
  ASSUME IInv, index \in DOMAIN plan, pc # "done", NEW step \in Steps \ {"next", "done"}, pc' = step,
         UNCHANGED <<plan, index, answer, kept, foreign, sessionVars>>, OwnFiles,
         done' \in {done, done \cup {index}},
         source' \in File \cup {Absent}, final' \in File \cup {Absent},
         pc # "present", step \in {"check", "verify", "persist", "resolve", "stage", "recheck",
           "delete", "prepare", "link", "unstage", "rollback"} => index \notin done',
         step \in After \cup {"unfinal"} => index \in done' \/ Current.kind = "keep",
         KindFits', StagingFits', foreign = 0 => CurrentFits'
  PROVE  IInv'
<1>1. /\ PlanOK(plan) /\ index \in 1..Len(plan) + 1 /\ revision \in Nat /\ foreign \in Nat
      /\ done \subseteq DOMAIN plan
  BY DEF IInv, Types
<1>2. Types'
  BY <1>1 DEF IInv, Types, OwnFiles, sessionVars
<1>3. InOrder'
  BY <1>1 DEF IInv, InOrder, Current, sessionVars, Steps, After
<1>4. FilesFit'
  BY FilesStayFit
<1>5. answer' = Pending /\ AnswersAreTrue'
  BY PendingIsTrue DEF IInv
<1> QED
  BY <1>2, <1>3, <1>4, <1>5 DEF IInv

\* Answers are answers.
LEMMA AnswersAreAnswers ==
  /\ \A result \in Results : Answer(result) \in Answers /\ Answer(result).result = result
                             /\ Answer(result).landed = {} /\ Answer(result).changes = {}
  /\ Pending \in Answers /\ Pending.result = "none"
BY DEF Answer, Answers, Results, Pending

\* A failing file names as landed the files before it, and what the failure
\* says of itself only when it is the first.
LEMMA FailingIsAnAnswer ==
  ASSUME Types, index \in DOMAIN plan, NEW inner \in Answers
  PROVE  /\ Failing(inner) \in Answers
         /\ index = 1 => Failing(inner) = inner
         /\ index # 1 => /\ Failing(inner).result = "partial"
                         /\ Failing(inner).landed = PathsOf(1..index - 1)
                         /\ Failing(inner).changes = 1..index - 1
<1>1. PlanOK(plan) /\ plan \in Seq(Section) /\ index \in Nat
  BY DEF Types, PlanOK
<1>2. \A indices \in SUBSET DOMAIN plan : PathsOf(indices) \subseteq Path
  BY <1>1, PlannedSections DEF PathsOf
<1>3. PathsOf(1..index - 1) \subseteq Path /\ PathsOf(index..Len(plan)) \subseteq Path
  <2>1. 1..index - 1 \subseteq DOMAIN plan /\ index..Len(plan) \subseteq DOMAIN plan
    BY <1>1
  <2> QED
    BY <1>2, <2>1
<1>4. 1..index - 1 \subseteq Nat
  OBVIOUS
<1> QED
  BY <1>3, <1>4 DEF Failing, Answers, Results

\* The end of an edit that fails at a file
LEMMA FailKeeps ==
  ASSUME IInv, index \in DOMAIN plan, pc # "done", NEW inner \in Answers, Finish(Failing(inner)),
         UNCHANGED <<foreign, sessionVars>>, OwnFiles,
         source' \in File \cup {Absent}, final' \in File \cup {Absent}, kept' \subseteq Text,
         \A i \in DOMAIN plan : plan[i].path \in inner.landed => i \in done,
         inner.changes = {}, kept' # {} => inner.result = "partial",
         foreign = 0 => CurrentFits',
         foreign = 0 /\ inner.result \in {"stale", "write", "path"} =>
           Untouched(index)' /\ DestinationIsUntouched(index)'
  PROVE  IInv'
<1>1. /\ PlanOK(plan) /\ index \in 1..Len(plan) + 1 /\ revision \in Nat /\ foreign \in Nat
      /\ done \subseteq DOMAIN plan /\ plan \in Seq(Section)
  BY DEF IInv, Types, PlanOK
<1>2. pc' = "done" /\ answer' = Failing(inner) /\ UNCHANGED <<plan, index, done>>
  BY DEF Finish
<1>3. answer' \in Answers
  BY <1>2, FailingIsAnAnswer DEF IInv
<1>4. Types'
  BY <1>1, <1>2, <1>3 DEF IInv, Types, OwnFiles, sessionVars, Steps
<1>5. InOrder'
  BY <1>1, <1>2 DEF IInv, InOrder, Current, sessionVars, After
<1>6. KindFits' /\ StagingFits'
  BY <1>2 DEF KindFits, StagingFits, Before, Staged, Linked, After
<1>7. FilesFit'
  BY <1>2, FilesStayFit
<1>8. PartialCommitsAreTrue'
  <2>1. ASSUME NEW i \in DOMAIN plan, plan[i].path \in answer'.landed
        PROVE  i \in done
    <3>1. CASE index = 1
      BY <2>1, <3>1, <1>2, FailingIsAnAnswer DEF IInv
    <3>2. CASE index # 1
      <4>1. PICK j \in 1..index - 1 : plan[i].path = plan[j].path
        BY <2>1, <3>2, <1>2, FailingIsAnAnswer DEF IInv, PathsOf
      <4>2. j \in DOMAIN plan /\ j < index
        BY <1>1, <4>1
      <4>3. i = j
        BY <1>1, <4>1, <4>2, SectionsAreApart
      <4> QED
        BY <4>2, <4>3 DEF IInv, InOrder
    <3> QED
      BY <3>1, <3>2
  <2>2. answer'.changes \subseteq done
    <3>1. CASE index = 1
      BY <3>1, <1>2, FailingIsAnAnswer DEF IInv
    <3>2. CASE index # 1
      <4>1. \A j \in 1..index - 1 : j \in DOMAIN plan /\ j < index
        BY <1>1
      <4> QED
        BY <3>2, <4>1, <1>2, FailingIsAnAnswer DEF IInv, InOrder
    <3> QED
      BY <3>1, <3>2
  <2>3. kept' # {} => answer'.result = "partial"
    BY <1>2, FailingIsAnAnswer DEF IInv
  <2> QED
    BY <1>2, <2>1, <2>2, <2>3 DEF PartialCommitsAreTrue
<1>9. RefusedEditsRestore'
  <2> SUFFICES ASSUME foreign = 0, answer'.result \in {"stale", "write", "path"}, NEW i \in DOMAIN plan
               PROVE  Untouched(i)' /\ DestinationIsUntouched(i)'
    <3>1. ASSUME NEW i \in DOMAIN plan, Untouched(i)', DestinationIsUntouched(i)'
          PROVE  /\ disk'[plan'[i].path] # Absent
                 /\ disk'[plan'[i].path].text = Old(plan'[i].path)
                 /\ plan'[i].destination # Absent /\ disk'[plan'[i].destination] # Absent =>
                      disk'[plan'[i].destination].text = Old(plan'[i].destination)
      <4>1. Planned(plan[i].path) # Absent /\ Planned(plan[i].path).text = Old(plan[i].path)
        BY <1>1, PlannedSections, PathAssumption DEF Planned
      <4> QED
        BY <3>1, <4>1, <1>2 DEF Untouched, DestinationIsUntouched
    <3> QED
      BY <1>2, <3>1 DEF RefusedEditsRestore
  <2>1. index = 1 /\ inner.result \in {"stale", "write", "path"}
    BY <1>2, FailingIsAnAnswer DEF IInv
  <2>2. CASE i = index
    BY <1>2, <2>1, <2>2
  <2>3. CASE i # index
    <3>1. i \notin done
      BY <1>1, <2>1, <2>3 DEF IInv, InOrder
    <3> QED
      BY <1>2, <1>7, <2>3, <3>1 DEF FilesFit, FileFits
  <2> QED
    BY <2>2, <2>3
<1> QED
  BY <1>2, <1>4, <1>5, <1>6, <1>7, <1>8, <1>9 DEF IInv, AnswersAreTrue

\* The section at hand
LEMMA AtHand ==
  ASSUME IInv, pc # "done", index \in DOMAIN plan
  PROVE  /\ PlanOK(plan) /\ Current = plan[index] /\ Current.path \in Path /\ Current.kind \in Kind
         /\ Current.destination \in Path \cup {Absent} /\ Current.path # Current.destination
         /\ Current.kind \in {"move", "move_update"} => Current.destination \in Path
         /\ Target(Current) \in Path
         /\ Old(Current.path) \in Text /\ New(Current.path) \in Text
         /\ Planned(Current.path) \in File /\ Made(New(Current.path)) \in File
         /\ disk \in [Path -> File \cup {Absent}] /\ Absent \notin File
         /\ source \in File \cup {Absent} /\ final \in File \cup {Absent}
         /\ kept = {} /\ {} \subseteq Text
         /\ revision \in Nat /\ foreign \in Nat /\ answer = Pending /\ done \subseteq DOMAIN plan
         /\ pc \in Before \cup Staged \cup Linked => index \notin done
         /\ foreign = 0 => CurrentFits
<1>1. PlanOK(plan) /\ disk \in [Path -> File \cup {Absent}]
      /\ source \in File \cup {Absent} /\ final \in File \cup {Absent}
      /\ revision \in Nat /\ foreign \in Nat /\ done \subseteq DOMAIN plan
  BY DEF IInv, Types
<1>2. Current.path # Current.destination
  BY <1>1 DEF PlanOK, Current
<1>3. pc \in Before \cup Staged \cup Linked => index \notin done
  BY DEF IInv, InOrder, Before, Staged, Linked
<1>4. kept = {} /\ answer = Pending
  BY DEF IInv, StagingFits
<1>5. foreign = 0 => CurrentFits
  BY DEF IInv, FilesFit
<1> QED
  BY <1>1, <1>2, <1>3, <1>4, <1>5, PlannedSections, PathAssumption DEF Current

\* What a step that leaves the files alone leaves of the current one
LEMMA FilesAlone ==
  ASSUME IInv, pc # "done", index \in DOMAIN plan, UNCHANGED fileVars, UNCHANGED <<plan, index>>
  PROVE  /\ OwnFiles /\ UNCHANGED <<disk, source, final, kept>>
         /\ source' \in File \cup {Absent} /\ final' \in File \cup {Absent} /\ kept' \subseteq Text
         /\ Untouched(index)' <=> Untouched(index)
         /\ DestinationIsUntouched(index)' <=> DestinationIsUntouched(index)
         /\ Current' = Current
BY AtHand DEF fileVars, OwnFiles, Untouched, DestinationIsUntouched, Current

\* An edit that fails before it touched the current file
LEMMA UntouchedFails ==
  ASSUME IInv, index \in DOMAIN plan, pc \in Before, NEW result \in Results, Fail(result),
         UNCHANGED <<foreign, sessionVars, fileVars>>
  PROVE  IInv'
<1>1. /\ Answer(result) \in Answers /\ Answer(result).landed = {} /\ Answer(result).changes = {}
  BY AnswersAreAnswers
<1>2. Finish(Failing(Answer(result))) /\ UNCHANGED <<plan, index, done>> /\ pc' = "done" /\ pc # "done"
  BY DEF Fail, Finish, Before
<1>3. /\ UNCHANGED <<disk, source, final, kept>> /\ kept = {} /\ OwnFiles /\ UNCHANGED fileVars
      /\ source' \in File \cup {Absent} /\ final' \in File \cup {Absent}
  BY <1>2, AtHand, FilesAlone
<1>4. ASSUME foreign = 0
      PROVE  Untouched(index)' /\ DestinationIsUntouched(index)' /\ CurrentFits'
  <2>1. CurrentFits /\ index \notin done
    BY <1>2, <1>4, AtHand
  <2>2. Untouched(index)' /\ DestinationIsUntouched(index)'
    BY <1>2, <1>3, <2>1, FilesAlone DEF CurrentFits
  <2> QED
    BY <1>2, <2>1, <2>2 DEF CurrentFits, Before, Staged, Linked
<1>5. kept' \subseteq Text /\ kept' = {}
  BY <1>3
<1> QED
  BY <1>1, <1>2, <1>3, <1>4, <1>5, FailKeeps

\* A step to another one before the current file is touched
LEMMA UntouchedGoes ==
  ASSUME IInv, index \in DOMAIN plan, pc \in Before, NEW step \in (Before \ {"next"}) \cup {"mark"},
         Goto(step), UNCHANGED <<foreign, sessionVars, fileVars>>,
         step = "mark" => Current.kind = "keep", KindFits'
  PROVE  IInv'
<1>1. UNCHANGED <<plan, index, answer, done>> /\ pc' = step /\ pc # "done" /\ pc # "present"
  BY DEF Goto, Before
<1>2. /\ UNCHANGED <<disk, source, final, kept>> /\ OwnFiles /\ UNCHANGED fileVars
      /\ source' \in File \cup {Absent} /\ final' \in File \cup {Absent}
  BY <1>1, AtHand, FilesAlone
<1>3. index \notin done
  BY <1>1, AtHand
<1>4. StagingFits'
  BY <1>1, <1>2 DEF IInv, StagingFits, Before, Staged, Linked, After, Current
<1>5. ASSUME foreign = 0
      PROVE  CurrentFits'
  <2>1. CurrentFits
    BY <1>1, <1>5, AtHand
  <2>2. Untouched(index)' /\ DestinationIsUntouched(index)'
    BY <1>1, <1>2, <2>1, FilesAlone DEF CurrentFits
  <2> QED
    BY <1>1, <1>3, <2>2 DEF CurrentFits, Before, Staged, Linked
<1>6. step \in Steps \ {"next", "done"}
  BY DEF Before, Steps
<1> QED
  BY <1>1, <1>2, <1>3, <1>4, <1>5, <1>6, GotoKeeps DEF Before, After

\* An edit looks at its next file, is given up, or is over.
LEMMA NextFileKeeps ==
  ASSUME IInv, NextFile
  PROVE  IInv'
<1>1. pc = "next" /\ UNCHANGED <<elseVars, fileVars, revision, plan, index, done>>
      /\ kept = {} /\ UNCHANGED <<disk, source, final, kept, foreign, revision>>
  BY DEF NextFile, At, Finish, Goto, IInv, StagingFits, fileVars, elseVars
<1>t. /\ PlanOK(plan) /\ plan \in Seq(Section) /\ index \in 1..Len(plan) + 1
      /\ revision \in Nat /\ done \subseteq DOMAIN plan
  BY DEF IInv, Types, PlanOK
<1>2. ASSUME NEW result \in {"ok", "cancelled"}, NEW changes \in SUBSET done, pc' = "done",
             answer' = [Answer(result) EXCEPT !.changes = changes],
             registers' \in {"before", "after", "cleared"}
      PROVE  IInv'
  <2>1. answer' \in Answers /\ answer'.result = result /\ answer'.landed = {} /\ answer'.changes = changes
    <3>1. changes \subseteq Nat
      BY <1>t
    <3> QED
      BY <1>2, <3>1 DEF Answer, Answers, Results
  <2>2. Types'
    BY <1>1, <1>2, <2>1 DEF IInv, Types, Steps
  <2>3. InOrder' /\ KindFits' /\ StagingFits'
    BY <1>1, <1>2, <1>t DEF IInv, InOrder, KindFits, StagingFits, After, Before, Staged, Linked
  <2>4. FilesFit'
    <3> SUFFICES ASSUME foreign = 0
                 PROVE  /\ \A i \in DOMAIN plan \ {index} : FileFits(i)'
                        /\ index \in DOMAIN plan => CurrentFits'
      BY <1>1 DEF FilesFit
    <3>1. \A i \in DOMAIN plan \ {index} : FileFits(i)'
      BY <1>1 DEF IInv, FilesFit, FileFits, Landed, Untouched, DestinationIsUntouched
    <3>2. index \in DOMAIN plan => CurrentFits'
      BY <1>1, <1>2 DEF IInv, FilesFit, CurrentFits, Landed, Untouched, Current, Before, Staged, Linked
    <3> QED
      BY <3>1, <3>2
  <2>5. AnswersAreTrue'
    BY <1>1, <1>2, <2>1 DEF AnswersAreTrue, RefusedEditsRestore, PartialCommitsAreTrue
  <2> QED
    BY <1>2, <2>2, <2>3, <2>4, <2>5 DEF IInv
<1>3. CASE index > Len(plan)
  <2>1. DOMAIN plan \subseteq done
    BY <1>3, <1>t DEF IInv, InOrder
  <2>2. /\ pc' = "done" /\ answer' = [Answer("ok") EXCEPT !.changes = DOMAIN plan]
        /\ registers' = "after"
    BY <1>3 DEF NextFile, Finish
  <2> QED
    BY <1>2, <2>1, <2>2
<1>4. CASE ~(index > Len(plan))
  <2>1. index \in DOMAIN plan /\ registers' = registers
    BY <1>4, <1>t DEF NextFile
  <2>2. CASE cancelled
    <3>1. pc' = "done" /\ answer' = Answer("cancelled")
      BY <1>4, <2>2 DEF NextFile, Finish
    <3>2. Answer("cancelled") = [Answer("cancelled") EXCEPT !.changes = {}]
      BY DEF Answer
    <3> QED
      BY <1>2, <2>1, <3>1, <3>2 DEF IInv, Types
  <2>3. CASE ~cancelled
    <3>1. Goto("check") /\ UNCHANGED <<foreign, sessionVars, fileVars>>
      BY <1>1, <1>4, <2>1, <2>3 DEF NextFile, sessionVars
    <3>2. KindFits'
      BY <3>1 DEF KindFits, Goto
    <3> QED
      BY <1>1, <2>1, <3>1, <3>2, UntouchedGoes DEF Before
  <2> QED
    BY <2>2, <2>3
<1> QED
  BY <1>3, <1>4

-----------------------------------------------------------------------------
(* The steps before a file is staged *)

\* A file that is not as it was planned is refused; otherwise it is committed.
LEMMA CheckKeeps ==
  ASSUME IInv, Check
  PROVE  IInv'
<1>1. pc = "check" /\ index \in DOMAIN plan /\ UNCHANGED <<foreign, sessionVars, fileVars>>
  BY DEF Check, At, IInv, InOrder, elseVars
<1>2. CASE Fail("stale")
  BY <1>1, <1>2, UntouchedFails DEF Before, Results
<1>3. CASE ~Fail("stale")
  <2>1. PICK step \in {"stage", "resolve", "verify", "mark"} :
          /\ Goto(step)
          /\ step = "stage" => Current.kind = "remove"
          /\ step = "resolve" => Current.kind \in {"move", "move_update"}
          /\ step = "verify" => Current.kind = "update"
          /\ step = "mark" => Current.kind = "keep"
    BY <1>1, <1>3, AtHand DEF Check, Kind
  <2>2. KindFits' /\ step \in (Before \ {"next"}) \cup {"mark"}
    BY <2>1 DEF KindFits, Goto, Current, Before
  <2> QED
    BY <1>1, <2>1, <2>2, UntouchedGoes DEF Before
<1> QED
  BY <1>2, <1>3

\* The text of a file that is updated is looked at again.
LEMMA VerifyKeeps ==
  ASSUME IInv, Verify
  PROVE  IInv'
<1>1. pc = "verify" /\ index \in DOMAIN plan /\ UNCHANGED <<foreign, sessionVars, fileVars>>
      /\ Current.kind = "update"
  BY DEF Verify, At, IInv, InOrder, KindFits, elseVars
<1>2. CASE Fail("stale")
  BY <1>1, <1>2, UntouchedFails DEF Before, Results
<1>3. CASE Goto("persist")
  <2>1. KindFits'
    BY <1>1, <1>3 DEF KindFits, Goto, Current
  <2> QED
    BY <1>1, <1>3, <2>1, UntouchedGoes DEF Before
<1> QED
  BY <1>2, <1>3 DEF Verify

\* A file that is updated is replaced, or not.
LEMMA PersistKeeps ==
  ASSUME IInv, Persist
  PROVE  IInv'
<1>1. pc = "persist" /\ index \in DOMAIN plan
      /\ UNCHANGED <<foreign, source, final, kept, sessionVars>> /\ Current.kind = "update"
  BY DEF Persist, At, IInv, InOrder, KindFits, elseVars
<1>2. CASE Fail("write") /\ UNCHANGED disk
  BY <1>1, <1>2, UntouchedFails DEF Before, Results, fileVars
<1>3. CASE disk' = [disk EXCEPT ![Current.path] = Made(New(Current.path))] /\ Land("mark")
  <2>1. UNCHANGED <<plan, index, answer>> /\ pc' = "mark" /\ done' = done \cup {index}
    BY <1>3 DEF Land
  <2>2. Made(New(Current.path)) \in File /\ Made(New(Current.path)).text = New(Current.path)
    BY <1>1, AtHand DEF Made
  <2>3. OwnFiles /\ disk'[Current.path] = Made(New(Current.path))
    BY <1>1, <1>3, <2>2, AtHand DEF OwnFiles
  <2>4. CurrentFits'
    <3>1. Landed(index)'
      BY <1>1, <2>1, <2>2, <2>3, AtHand DEF Landed, Target, FinalText, Current
    <3> QED
      BY <2>1, <3>1 DEF CurrentFits, Before, Staged, Linked
  <2>5. KindFits' /\ StagingFits'
    BY <1>1, <2>1 DEF IInv, KindFits, StagingFits, Before, Staged, Linked, After
  <2>6. source' \in File \cup {Absent} /\ final' \in File \cup {Absent}
    BY <1>1, AtHand
  <2> QED
    BY <1>1, <2>1, <2>3, <2>4, <2>5, <2>6, GotoKeeps DEF Steps, After
<1> QED
  BY <1>2, <1>3 DEF Persist

\* The destination of a file that moves is looked for.
LEMMA ResolveKeeps ==
  ASSUME IInv, Resolve
  PROVE  IInv'
<1>1. pc = "resolve" /\ index \in DOMAIN plan /\ UNCHANGED <<foreign, sessionVars, fileVars>>
      /\ Current.kind \in {"move", "move_update"}
  BY DEF Resolve, At, IInv, InOrder, KindFits, elseVars
<1>2. CASE Fail("path")
  BY <1>1, <1>2, UntouchedFails DEF Before, Results
<1>3. CASE Goto("stage")
  <2>1. KindFits'
    BY <1>1, <1>3 DEF KindFits, Goto, Current
  <2> QED
    BY <1>1, <1>3, <2>1, UntouchedGoes DEF Before
<1> QED
  BY <1>2, <1>3 DEF Resolve

-----------------------------------------------------------------------------
(* The steps with a file staged *)

\* A file that is renamed away is where its directory says.
LEMMA StageKeeps ==
  ASSUME IInv, Stage
  PROVE  IInv'
<1>1. pc = "stage" /\ index \in DOMAIN plan /\ UNCHANGED <<foreign, final, kept, sessionVars>>
      /\ Current.kind \in {"remove", "move", "move_update"} /\ final = Absent
  BY DEF Stage, At, IInv, InOrder, KindFits, StagingFits, elseVars, Before
<1>2. CASE Fail("write") /\ UNCHANGED <<disk, source>>
  BY <1>1, <1>2, UntouchedFails DEF Before, Results, fileVars
<1>3. CASE /\ disk[Current.path] # Absent /\ source' = disk[Current.path]
           /\ disk' = [disk EXCEPT ![Current.path] = Absent] /\ Goto("recheck")
  <2>1. UNCHANGED <<plan, index, answer, done>> /\ pc' = "recheck"
    BY <1>3 DEF Goto
  <2>2. /\ OwnFiles /\ disk'[Current.path] = Absent /\ source' \in File
        /\ Current.destination \in Path => disk'[Current.destination] = disk[Current.destination]
    BY <1>1, <1>3, AtHand DEF OwnFiles
  <2>3. ASSUME foreign = 0
        PROVE  CurrentFits'
    <3>1. Untouched(index) /\ DestinationIsUntouched(index) /\ index \notin done
      BY <1>1, <2>3, AtHand DEF CurrentFits, Before
    <3>2. source' = Planned(Current.path)
      BY <1>1, <1>3, <3>1, AtHand DEF Untouched
    <3>3. DestinationIsUntouched(index)'
      BY <1>1, <2>1, <2>2, <3>1, AtHand DEF DestinationIsUntouched
    <3> QED
      BY <2>1, <2>2, <3>1, <3>2, <3>3 DEF CurrentFits, Current, Before, Staged, Linked
  <2>4. KindFits' /\ StagingFits'
    BY <1>1, <2>1, <2>2, AtHand DEF IInv, KindFits, StagingFits, Before, Staged, Linked, After, Current
  <2>5. index \notin done
    BY <1>1, AtHand DEF Before
  <2>6. final' \in File \cup {Absent}
    BY <1>1
  <2> QED
    BY <1>1, <2>1, <2>2, <2>3, <2>4, <2>5, <2>6, GotoKeeps DEF Steps, After
<1> QED
  BY <1>2, <1>3 DEF Stage

\* The texts of a directory that is kept
LEMMA KeptTexts ==
  ASSUME IInv, pc # "done", index \in DOMAIN plan, KeptFiles
  PROVE  /\ source' = Absent /\ final' = Absent /\ kept' \subseteq Text
         /\ source # Absent => source.text \in kept'
<1>1. \A f \in {source, final} \ {Absent} : f \in File /\ f.text \in Text
  BY AtHand DEF File
<1> QED
  BY <1>1, AtHand DEF KeptFiles

\* A staged file is linked back, or kept.
LEMMA RestoreKeeps ==
  ASSUME IInv, pc \in Staged, index \in DOMAIN plan, NEW result \in {"stale", "write"},
         RestoreOr(result), UNCHANGED <<foreign, sessionVars>>
  PROVE  IInv'
<1>0. pc # "done" /\ source \in File /\ index \notin done /\ kept = {}
  BY AtHand DEF IInv, StagingFits, Staged
<1>1. CASE /\ disk' = [disk EXCEPT ![Current.path] = source]
           /\ Dropped /\ Fail(result)
  <2>1. /\ Answer(result) \in Answers /\ Answer(result).landed = {} /\ Answer(result).changes = {}
    BY AnswersAreAnswers DEF Results
  <2>2. Finish(Failing(Answer(result))) /\ UNCHANGED <<plan, index, done>> /\ pc' = "done"
    BY <1>1 DEF Fail, Finish
  <2>3. source' = Absent /\ final' = Absent /\ kept' = {}
    BY <1>0, <1>1 DEF Dropped
  <2>4. /\ OwnFiles /\ disk'[Current.path] = source
        /\ Current.destination \in Path => disk'[Current.destination] = disk[Current.destination]
    BY <1>0, <1>1, AtHand DEF OwnFiles
  <2>5. ASSUME foreign = 0
        PROVE  Untouched(index)' /\ DestinationIsUntouched(index)' /\ CurrentFits'
    <3>1. source = Planned(Current.path) /\ DestinationIsUntouched(index)
      BY <1>0, <2>5, AtHand DEF CurrentFits
    <3>2. Untouched(index)'
      BY <2>2, <2>4, <3>1, AtHand, <1>0 DEF Untouched
    <3>3. DestinationIsUntouched(index)'
      BY <1>0, <2>2, <2>4, <3>1, AtHand DEF DestinationIsUntouched
    <3> QED
      BY <1>0, <2>2, <3>2, <3>3 DEF CurrentFits, Before, Staged, Linked
  <2> QED
    BY <1>0, <2>1, <2>2, <2>3, <2>4, <2>5, FailKeeps
<1>2. CASE KeptFiles /\ UNCHANGED disk /\ FailPartly({}, {Current.path})
  <2> DEFINE inner == [Answer("partial") EXCEPT !.landed = {}, !.pending = {Current.path}]
  <2>1. inner \in Answers /\ inner.result = "partial" /\ inner.landed = {} /\ inner.changes = {}
    <3>1. {} \subseteq Path /\ {Current.path} \subseteq Path
      BY <1>0, AtHand
    <3> QED
      BY <3>1 DEF Answer, Answers, Results
  <2>2. Finish(Failing(inner)) /\ UNCHANGED <<plan, index, done>> /\ pc' = "done"
    BY <1>2 DEF FailPartly, Finish
  <2> HIDE DEF inner
  <2>3. source' = Absent /\ final' = Absent /\ kept' \subseteq Text /\ source.text \in kept'
    BY <1>0, <1>2, KeptTexts, AtHand
  <2>4. OwnFiles
    BY <1>0, <1>2, AtHand DEF OwnFiles
  <2>5. ASSUME foreign = 0
        PROVE  CurrentFits'
    <3>1. source = Planned(Current.path)
      BY <1>0, <2>5, AtHand DEF CurrentFits
    <3> QED
      BY <1>0, <2>2, <2>3, <3>1 DEF CurrentFits, Current, Planned, Before, Staged, Linked
  <2> QED
    BY <1>0, <2>1, <2>2, <2>3, <2>4, <2>5, FailKeeps
<1> QED
  BY <1>1, <1>2 DEF RestoreOr

\* A step to another one with the file still staged
LEMMA StagedGoes ==
  ASSUME IInv, index \in DOMAIN plan, pc \in Staged, NEW step \in {"delete", "prepare", "link"},
         Goto(step), UNCHANGED <<foreign, sessionVars, disk, source, kept>>,
         final' \in File \cup {Absent}, step # "link" => final' = Absent,
         step = "link" => final' = IF Current.kind = "move_update" THEN Made(New(Current.path)) ELSE Absent,
         KindFits'
  PROVE  IInv'
<1>1. UNCHANGED <<plan, index, answer, done>> /\ pc' = step /\ pc \notin {"done", "present"}
  BY DEF Goto, Staged
<1>2. index \notin done /\ OwnFiles /\ source' \in File \cup {Absent}
  BY <1>1, AtHand DEF OwnFiles
<1>3. StagingFits'
  BY <1>1 DEF IInv, StagingFits, Current, Before, Staged, Linked, After
<1>4. ASSUME foreign = 0
      PROVE  CurrentFits'
  <2>1. CurrentFits
    BY <1>1, <1>4, AtHand
  <2> QED
    BY <1>1, <1>2, <2>1 DEF CurrentFits, DestinationIsUntouched, Current, Before, Staged, Linked
<1>5. step \in Steps \ {"next", "done"} /\ step \notin After
  BY DEF Steps, After
<1> QED
  BY <1>1, <1>2, <1>3, <1>4, <1>5, GotoKeeps

\* What was staged is compared with the plan.
LEMMA RecheckKeeps ==
  ASSUME IInv, Recheck
  PROVE  IInv'
<1>1. pc = "recheck" /\ index \in DOMAIN plan /\ UNCHANGED <<foreign, sessionVars>>
      /\ Current.kind \in {"remove", "move", "move_update"} /\ final = Absent
  BY DEF Recheck, At, IInv, InOrder, KindFits, StagingFits, elseVars, Staged
<1>2. CASE RestoreOr("stale")
  BY <1>1, <1>2, RestoreKeeps DEF Staged
<1>3. CASE Goto(AfterStaging(Current)) /\ UNCHANGED fileVars
  <2>1. PICK step \in {"delete", "prepare", "link"} :
          /\ Goto(step)
          /\ step = "delete" => Current.kind = "remove"
          /\ step = "prepare" => Current.kind = "move_update"
          /\ step = "link" => Current.kind = "move"
    BY <1>1, <1>3 DEF AfterStaging
  <2>2. KindFits' /\ final' = Absent /\ UNCHANGED <<disk, source, kept>>
    BY <1>1, <1>3, <2>1 DEF KindFits, Goto, Current, fileVars
  <2> QED
    BY <1>1, <2>1, <2>2, StagedGoes DEF Staged
<1> QED
  BY <1>2, <1>3 DEF Recheck

\* A removed file is gone with its directory, or restored.
LEMMA DeleteKeeps ==
  ASSUME IInv, Delete
  PROVE  IInv'
<1>1. pc = "delete" /\ index \in DOMAIN plan /\ UNCHANGED <<foreign, sessionVars>>
      /\ Current.kind = "remove"
  BY DEF Delete, At, IInv, InOrder, KindFits, elseVars
<1>2. CASE RestoreOr("write")
  BY <1>1, <1>2, RestoreKeeps DEF Staged
<1>3. CASE Dropped /\ UNCHANGED disk /\ Land("mark")
  <2>1. UNCHANGED <<plan, index, answer>> /\ pc' = "mark" /\ done' = done \cup {index}
    BY <1>3 DEF Land
  <2>2. OwnFiles /\ source' = Absent /\ final' = Absent /\ kept' = kept
    BY <1>1, <1>3, AtHand DEF OwnFiles, Dropped
  <2>3. CurrentFits'
    BY <1>1, <2>1 DEF CurrentFits, Landed, Current, Before, Staged, Linked
  <2>4. KindFits' /\ StagingFits'
    BY <1>1, <2>1, <2>2 DEF IInv, KindFits, StagingFits, Before, Staged, Linked, After
  <2> QED
    BY <1>1, <2>1, <2>2, <2>3, <2>4, GotoKeeps DEF Steps, After
<1> QED
  BY <1>2, <1>3 DEF Delete

\* An edited copy is made next to the staged source.
LEMMA PrepareKeeps ==
  ASSUME IInv, Prepare
  PROVE  IInv'
<1>1. pc = "prepare" /\ index \in DOMAIN plan /\ UNCHANGED <<foreign, sessionVars>>
      /\ Current.kind = "move_update"
  BY DEF Prepare, At, IInv, InOrder, KindFits, elseVars
<1>2. CASE RestoreOr("write")
  BY <1>1, <1>2, RestoreKeeps DEF Staged
<1>3. CASE final' = Made(New(Current.path)) /\ Goto("link") /\ UNCHANGED <<disk, source, kept>>
  <2>1. KindFits'
    BY <1>1, <1>3 DEF KindFits, Goto, Current
  <2>2. final' \in File \cup {Absent}
    BY <1>1, <1>3, AtHand
  <2> QED
    BY <1>1, <1>3, <2>1, <2>2, StagedGoes DEF Staged
<1> QED
  BY <1>2, <1>3 DEF Prepare

\* A file that moves is linked where nothing was.
LEMMA LinkKeeps ==
  ASSUME IInv, Link
  PROVE  IInv'
<1>1. pc = "link" /\ index \in DOMAIN plan /\ UNCHANGED <<foreign, sessionVars>>
      /\ Current.kind \in {"move", "move_update"} /\ source # Absent
  BY DEF Link, At, IInv, InOrder, KindFits, StagingFits, elseVars, Staged
<1>2. CASE RestoreOr("write")
  BY <1>1, <1>2, RestoreKeeps DEF Staged
<1>3. CASE /\ disk' = [disk EXCEPT ![Current.destination] = IF final = Absent THEN source ELSE final]
           /\ Goto("unstage") /\ UNCHANGED <<source, final, kept>>
  <2> DEFINE linked == IF final = Absent THEN source ELSE final
  <2>1. UNCHANGED <<plan, index, answer, done>> /\ pc' = "unstage"
    BY <1>3 DEF Goto
  <2>2. linked \in File
    BY <1>1, AtHand
  <2>3. OwnFiles /\ disk'[Current.destination] = linked /\ disk'[Current.path] = disk[Current.path]
    BY <1>1, <1>3, <2>2, AtHand DEF OwnFiles
  <2>4. ASSUME foreign = 0
        PROVE  CurrentFits'
    <3>1. CurrentFits /\ index \notin done
      BY <1>1, <2>4, AtHand DEF Staged
    <3> QED
      BY <1>1, <1>3, <2>1, <2>3, <3>1 DEF CurrentFits, Current, Before, Staged, Linked
  <2>5. KindFits' /\ StagingFits'
    BY <1>1, <1>3, <2>1 DEF IInv, KindFits, StagingFits, Current, Before, Staged, Linked, After
  <2>6. source' \in File \cup {Absent} /\ final' \in File \cup {Absent} /\ index \notin done
    BY <1>1, <1>3, AtHand DEF Staged
  <2> QED
    BY <1>1, <1>3, <2>1, <2>3, <2>4, <2>5, <2>6, GotoKeeps DEF Steps, After
<1> QED
  BY <1>2, <1>3 DEF Link

\* The staged source goes, which commits the move; or it stays.
LEMMA UnstageKeeps ==
  ASSUME IInv, Unstage
  PROVE  IInv'
<1>1. pc = "unstage" /\ index \in DOMAIN plan /\ UNCHANGED <<foreign, disk, kept, sessionVars>>
      /\ Current.kind \in {"move", "move_update"} /\ source # Absent
      /\ final = IF Current.kind = "move_update" THEN Made(New(Current.path)) ELSE Absent
  BY DEF Unstage, At, IInv, InOrder, KindFits, StagingFits, elseVars, Linked
<1>2. OwnFiles /\ index \notin done /\ source \in File \cup {Absent} /\ final \in File \cup {Absent}
  BY <1>1, AtHand DEF OwnFiles, Linked
<1>3. CASE Goto("rollback") /\ UNCHANGED <<source, final>>
  <2>1. UNCHANGED <<plan, index, answer, done>> /\ pc' = "rollback"
    BY <1>3 DEF Goto
  <2>2. ASSUME foreign = 0
        PROVE  CurrentFits'
    <3>1. CurrentFits
      BY <1>1, <2>2, AtHand
    <3> QED
      BY <1>1, <1>2, <1>3, <2>1, <3>1 DEF CurrentFits, Current, Before, Staged, Linked
  <2>3. KindFits' /\ StagingFits'
    BY <1>1, <1>3, <2>1 DEF IInv, KindFits, StagingFits, Current, Before, Staged, Linked, After
  <2> QED
    BY <1>1, <1>2, <1>3, <2>1, <2>2, <2>3, GotoKeeps DEF Steps, After
<1>4. CASE /\ source' = Absent /\ UNCHANGED final
           /\ Land(IF final = Absent THEN "mark" ELSE "unfinal")
  <2>1. PICK step \in {"mark", "unfinal"} : Land(step) /\ (step = "mark" <=> final = Absent)
    BY <1>4
  <2>2. UNCHANGED <<plan, index, answer>> /\ pc' = step /\ done' = done \cup {index}
    BY <2>1 DEF Land
  <2>3. ASSUME foreign = 0
        PROVE  CurrentFits'
    <3>1. /\ disk[Current.destination] = IF final = Absent THEN source ELSE final
          /\ source = Planned(Current.path)
      BY <1>1, <2>3, AtHand DEF CurrentFits, Linked
    <3>2. Current.destination \in Path /\ Current = plan[index] /\ Absent \notin File
          /\ Planned(Current.path) \in File /\ Made(New(Current.path)) \in File
      BY <1>1, AtHand
    <3>3. Landed(index)
      <4>1. CASE Current.kind = "move"
        BY <1>1, <3>1, <3>2, <4>1 DEF Landed, Target, FinalText, Planned
      <4>2. CASE Current.kind = "move_update"
        <5>1. disk[Current.destination] = Made(New(Current.path)) /\ Made(New(Current.path)) # Absent
          BY <1>1, <3>1, <3>2, <4>2
        <5>2. Made(New(Current.path)).text = New(Current.path)
          BY DEF Made
        <5> QED
          BY <3>2, <4>2, <5>1, <5>2 DEF Landed, Target, FinalText
      <4> QED
        BY <1>1, <4>1, <4>2
    <3>4. Landed(index)'
      BY <1>1, <2>2, <3>3 DEF Landed
    <3> QED
      BY <2>2, <3>4 DEF CurrentFits, Before, Staged, Linked
  <2>4. KindFits' /\ StagingFits'
    BY <1>1, <1>4, <2>1, <2>2 DEF IInv, KindFits, StagingFits, Current, Before, Staged, Linked, After
  <2>5. source' \in File \cup {Absent} /\ final' \in File \cup {Absent}
    BY <1>2, <1>4
  <2> QED
    BY <1>1, <1>2, <2>2, <2>3, <2>4, <2>5, GotoKeeps DEF Steps, After
<1> QED
  BY <1>3, <1>4 DEF Unstage

\* A move that could not be completed is taken back, or both files stay.
LEMMA RollbackKeeps ==
  ASSUME IInv, Rollback
  PROVE  IInv'
<1>1. pc = "rollback" /\ index \in DOMAIN plan /\ UNCHANGED <<foreign, sessionVars>>
      /\ Current.kind \in {"move", "move_update"} /\ source # Absent
  BY DEF Rollback, At, IInv, InOrder, KindFits, StagingFits, elseVars, Linked
<1>2. /\ index \notin done /\ source \in File /\ kept = {} /\ pc # "done"
      /\ Current.destination \in Path /\ Current.path \in Path /\ Current.path # Current.destination
  BY <1>1, AtHand DEF Linked
<1>f. foreign = 0 =>
        /\ disk[Current.path] = Absent /\ source = Planned(Current.path)
        /\ disk[Current.destination] # Absent
  <2> SUFFICES ASSUME foreign = 0
               PROVE  /\ disk[Current.path] = Absent /\ source = Planned(Current.path)
                      /\ disk[Current.destination] # Absent
    OBVIOUS
  <2>1. CurrentFits /\ Absent \notin File
    BY <1>1, AtHand
  <2> QED
    BY <1>1, <1>2, <2>1 DEF CurrentFits, Linked
<1>3. CASE /\ disk' = [disk EXCEPT ![Current.destination] = Absent, ![Current.path] = source]
           /\ Dropped /\ Fail("write")
  <2>1. /\ Answer("write") \in Answers /\ Answer("write").landed = {} /\ Answer("write").changes = {}
    BY AnswersAreAnswers DEF Results
  <2>2. Finish(Failing(Answer("write"))) /\ UNCHANGED <<plan, index, done>> /\ pc' = "done"
    BY <1>3 DEF Fail, Finish
  <2>3. source' = Absent /\ final' = Absent /\ kept' = {}
    BY <1>2, <1>3 DEF Dropped
  <2>4. OwnFiles /\ disk'[Current.path] = source /\ disk'[Current.destination] = Absent
    BY <1>1, <1>2, <1>3, AtHand DEF OwnFiles
  <2>5. ASSUME foreign = 0
        PROVE  Untouched(index)' /\ DestinationIsUntouched(index)' /\ CurrentFits'
    <3>1. Untouched(index)'
      BY <1>f, <2>2, <2>4, <2>5 DEF Untouched, Current
    <3>2. DestinationIsUntouched(index)'
      BY <2>2, <2>4 DEF DestinationIsUntouched, Current
    <3> QED
      BY <1>2, <2>2, <3>1, <3>2 DEF CurrentFits, Before, Staged, Linked
  <2> QED
    BY <1>1, <1>2, <2>1, <2>2, <2>3, <2>4, <2>5, FailKeeps
<1>4. ASSUME NEW landed \in SUBSET {Current.destination}, KeptFiles, FailPartly(landed, {Current.path}),
             \/ disk' = [disk EXCEPT ![Current.destination] = Absent]
             \/ disk' = disk
      PROVE  IInv'
  <2> DEFINE inner == [Answer("partial") EXCEPT !.landed = landed, !.pending = {Current.path}]
  <2>1. inner \in Answers /\ inner.result = "partial" /\ inner.landed = landed /\ inner.changes = {}
    <3>1. landed \subseteq Path /\ {Current.path} \subseteq Path
      BY <1>2
    <3> QED
      BY <3>1 DEF Answer, Answers, Results
  <2>2. Finish(Failing(inner)) /\ UNCHANGED <<plan, index, done>> /\ pc' = "done"
    BY <1>4 DEF FailPartly, Finish
  <2> HIDE DEF inner
  <2>3. source' = Absent /\ final' = Absent /\ kept' \subseteq Text /\ source.text \in kept'
    BY <1>1, <1>2, <1>4, KeptTexts, AtHand
  <2>4. OwnFiles
    BY <1>1, <1>2, <1>4, AtHand DEF OwnFiles
  <2>5. ASSUME foreign = 0
        PROVE  CurrentFits'
    BY <1>2, <1>f, <2>2, <2>3, <2>5 DEF CurrentFits, Current, Planned, Before, Staged, Linked
  <2>6. \A i \in DOMAIN plan : plan[i].path \notin landed
    BY <1>1, AtHand DEF PlanOK
  <2> QED
    BY <1>1, <1>2, <2>1, <2>2, <2>3, <2>4, <2>5, <2>6, FailKeeps
<1> QED
  BY <1>3, <1>4 DEF Rollback

\* The edited copy goes too, or its directory stays.
LEMMA UnfinalKeeps ==
  ASSUME IInv, Unfinal
  PROVE  IInv'
<1>1. pc = "unfinal" /\ index \in DOMAIN plan /\ UNCHANGED <<foreign, disk, sessionVars>>
      /\ Current.kind \in {"move", "move_update"} /\ pc # "done"
  BY DEF Unfinal, At, IInv, InOrder, KindFits, elseVars
<1>2. OwnFiles /\ kept = {} /\ Current.destination \in Path /\ disk' = disk
  BY <1>1, AtHand DEF OwnFiles
<1>3. CASE Dropped /\ Goto("mark")
  <2>1. UNCHANGED <<plan, index, answer, done>> /\ pc' = "mark"
    BY <1>3 DEF Goto
  <2>2. source' = Absent /\ final' = Absent /\ kept' = kept
    BY <1>3 DEF Dropped
  <2>3. index \in done
    BY <1>1 DEF IInv, InOrder, After
  <2>4. ASSUME foreign = 0
        PROVE  CurrentFits'
    <3>1. CurrentFits
      BY <1>1, <2>4, AtHand
    <3>2. Landed(index)'
      BY <1>2, <2>1, <2>3, <3>1 DEF CurrentFits, Landed
    <3> QED
      BY <2>1, <2>3, <3>2 DEF CurrentFits, Before, Staged, Linked
  <2>5. KindFits' /\ StagingFits'
    BY <1>1, <2>1, <2>2 DEF IInv, KindFits, StagingFits, Before, Staged, Linked, After
  <2> QED
    BY <1>1, <1>2, <2>1, <2>2, <2>3, <2>4, <2>5, GotoKeeps DEF Steps, After
<1>4. CASE KeptFiles /\ FailPartly({Current.destination}, {})
  <2> DEFINE inner == [Answer("partial") EXCEPT !.landed = {Current.destination}, !.pending = {}]
  <2>1. inner \in Answers /\ inner.result = "partial" /\ inner.landed = {Current.destination}
        /\ inner.changes = {}
    <3>1. {Current.destination} \subseteq Path /\ {} \subseteq Path
      BY <1>2
    <3> QED
      BY <3>1 DEF Answer, Answers, Results
  <2>2. Finish(Failing(inner)) /\ UNCHANGED <<plan, index, done>> /\ pc' = "done"
    BY <1>4 DEF FailPartly, Finish
  <2> HIDE DEF inner
  <2>3. source' = Absent /\ final' = Absent /\ kept' \subseteq Text
    BY <1>1, <1>4, KeptTexts
  <2>4. index \in done
    BY <1>1 DEF IInv, InOrder, After
  <2>5. ASSUME foreign = 0
        PROVE  CurrentFits'
    <3>1. CurrentFits
      BY <1>1, <2>5, AtHand
    <3>2. Landed(index)'
      BY <1>2, <2>2, <2>4, <3>1 DEF CurrentFits, Landed
    <3> QED
      BY <2>2, <2>4, <3>2 DEF CurrentFits, Before, Staged, Linked
  <2>6. \A i \in DOMAIN plan : plan[i].path # Current.destination
    BY <1>1, AtHand DEF PlanOK
  <2> QED
    BY <1>1, <1>2, <2>1, <2>2, <2>3, <2>4, <2>5, <2>6, FailKeeps
<1> QED
  BY <1>3, <1>4 DEF Unfinal

-----------------------------------------------------------------------------
(* The steps after a file is committed, and everybody else *)

\* The edit goes on to the next file, which is as it was planned.
LEMMA NextFileFits ==
  ASSUME IInv, pc \in After, index \in DOMAIN plan, pc' = "next", index' = index + 1,
         UNCHANGED <<plan, answer, foreign, registers, disk, source, final, kept>>,
         revision' \in Nat, revision' <= index, done' = done \cup {index}
  PROVE  IInv'
<1>1. /\ PlanOK(plan) /\ plan \in Seq(Section) /\ index \in 1..Len(plan) + 1 /\ foreign \in Nat
      /\ done \subseteq DOMAIN plan /\ pc # "done" /\ kept = {} /\ source = Absent /\ final = Absent
      /\ index' \in 1..Len(plan) + 1 /\ index \in Nat /\ index' > index
  BY DEF IInv, Types, PlanOK, StagingFits, After
<1>2. Types'
  BY <1>1 DEF IInv, Types, Steps
<1>3. InOrder'
  BY <1>1 DEF IInv, InOrder, After
<1>4. KindFits' /\ StagingFits'
  BY <1>1 DEF KindFits, StagingFits, Before, Staged, Linked, After
<1>5. FilesFit'
  <2> SUFFICES ASSUME foreign = 0
               PROVE  /\ \A i \in DOMAIN plan : i # index' => FileFits(i)'
                      /\ index' \in DOMAIN plan => CurrentFits'
    BY DEF FilesFit
  <2>1. \A i \in DOMAIN plan : /\ Landed(i)' <=> Landed(i)
                               /\ Untouched(i)' <=> Untouched(i)
                               /\ DestinationIsUntouched(i)' <=> DestinationIsUntouched(i)
    BY DEF Landed, Untouched, DestinationIsUntouched
  <2>2. Landed(index)
    <3>1. CurrentFits /\ (index \in done \/ Current.kind = "keep")
      BY <1>1, AtHand DEF IInv, InOrder
    <3>2. CASE index \in done
      BY <3>1, <3>2 DEF CurrentFits
    <3>3. CASE index \notin done
      <4>1. Untouched(index) /\ Current.kind = "keep"
        BY <1>1, <3>1, <3>3, AtHand DEF CurrentFits
      <4>2. disk[Current.path] = Planned(Current.path) /\ Planned(Current.path) # Absent
        BY <1>1, <4>1, AtHand DEF Untouched
      <4>3. Planned(Current.path).text = Old(Current.path)
        BY DEF Planned
      <4> QED
        BY <1>1, <4>1, <4>2, <4>3, AtHand DEF Landed, Target, FinalText
    <3> QED
      BY <3>2, <3>3
  <2>3. ASSUME NEW i \in DOMAIN plan, i # index
        PROVE  FileFits(i)'
    BY <2>1, <2>3 DEF IInv, FilesFit, FileFits
  <2>4. ASSUME NEW i \in DOMAIN plan, i = index
        PROVE  FileFits(i)'
    <3>1. Landed(i)' /\ i \in done'
      BY <2>1, <2>2, <2>4
    <3> QED
      BY <3>1 DEF FileFits
  <2>5. ASSUME index' \in DOMAIN plan
        PROVE  CurrentFits'
    <3>1. index' \notin done /\ index' # index
      BY <1>1, <2>5 DEF IInv, InOrder
    <3>2. Untouched(index') /\ DestinationIsUntouched(index')
      BY <2>5, <3>1 DEF IInv, FilesFit, FileFits
    <3>3. Untouched(index)' /\ DestinationIsUntouched(index)'
      BY <3>2 DEF Untouched, DestinationIsUntouched
    <3> QED
      BY <3>1, <3>3 DEF CurrentFits, Staged, Linked
  <2> QED
    BY <2>3, <2>4, <2>5
<1>6. answer' = Pending /\ AnswersAreTrue'
  BY <1>1, PendingIsTrue DEF IInv
<1> QED
  BY <1>2, <1>3, <1>4, <1>5, <1>6 DEF IInv

\* The change is marked; a removed file needs no more.
LEMMA MarkKeeps ==
  ASSUME IInv, Mark
  PROVE  IInv'
<1>1. pc = "mark" /\ index \in DOMAIN plan /\ UNCHANGED <<foreign, registers, fileVars>>
      /\ UNCHANGED <<disk, source, final, kept>> /\ revision' = revision + 1
      /\ index \in Nat /\ revision \in Nat /\ revision < index
  BY DEF Mark, At, IInv, Types, InOrder, elseVars, fileVars
<1>2. CASE Current.kind = "remove"
  <2>1. pc' = "next" /\ index' = index + 1 /\ UNCHANGED <<plan, answer, done>>
    BY <1>2 DEF Mark
  <2>2. index \in done
    BY <1>1, <1>2 DEF IInv, InOrder, After
  <2>3. done' = done \cup {index}
    BY <2>1, <2>2
  <2> QED
    BY <1>1, <2>1, <2>3, NextFileFits DEF After
<1>3. CASE Current.kind # "remove"
  <2>1. pc' = "present" /\ UNCHANGED <<plan, index, answer, done>>
    BY <1>3 DEF Mark, Goto
  <2>t. /\ PlanOK(plan) /\ plan \in Seq(Section) /\ index <= Len(plan)
    BY <1>1 DEF IInv, Types, PlanOK
  <2>2. Types'
    BY <1>1, <2>1 DEF IInv, Types, Steps
  <2>3. InOrder'
    BY <1>1, <2>1, <2>t DEF IInv, InOrder, After, Current
  <2>4. KindFits' /\ StagingFits'
    BY <1>1, <2>1 DEF IInv, KindFits, StagingFits, Before, Staged, Linked, After
  <2>5. OwnFiles
    BY <1>1, AtHand DEF OwnFiles
  <2>6. ASSUME foreign = 0
        PROVE  CurrentFits'
    <3>1. CurrentFits
      BY <1>1, <2>6, AtHand
    <3> QED
      BY <1>1, <2>1, <3>1 DEF CurrentFits, Landed, Untouched, Current, Before, Staged, Linked
  <2>7. FilesFit'
    BY <1>1, <2>1, <2>5, <2>6, FilesStayFit
  <2>8. answer' = Pending /\ AnswersAreTrue'
    BY <1>1, <2>1, PendingIsTrue DEF IInv
  <2> QED
    BY <2>1, <2>2, <2>3, <2>4, <2>7, <2>8 DEF IInv
<1> QED
  BY <1>2, <1>3

\* The change is shown, unless the session is closed by now.
LEMMA PresentKeeps ==
  ASSUME IInv, Present
  PROVE  IInv'
<1>1. pc = "present" /\ index \in DOMAIN plan /\ UNCHANGED <<foreign, sessionVars, fileVars>>
      /\ UNCHANGED <<disk, source, final, kept>> /\ pc # "done"
      /\ source = Absent /\ final = Absent /\ kept = {}
  BY DEF Present, At, IInv, InOrder, StagingFits, elseVars, fileVars, After
<1>2. CASE Fail("closed")
  <2>1. /\ Answer("closed") \in Answers /\ Answer("closed").landed = {} /\ Answer("closed").changes = {}
        /\ Answer("closed").result = "closed"
    BY AnswersAreAnswers DEF Results
  <2>2. Finish(Failing(Answer("closed"))) /\ UNCHANGED <<plan, index, done>> /\ pc' = "done"
    BY <1>2 DEF Fail, Finish
  <2>3. OwnFiles
    BY <1>1, AtHand DEF OwnFiles
  <2>4. ASSUME foreign = 0
        PROVE  CurrentFits'
    <3>1. CurrentFits
      BY <1>1, <2>4, AtHand
    <3> QED
      BY <1>1, <2>2, <3>1 DEF CurrentFits, Landed, Untouched, Current, Before, Staged, Linked
  <2> QED
    BY <1>1, <2>1, <2>2, <2>3, <2>4, FailKeeps
<1>3. CASE pc' = "next" /\ index' = index + 1 /\ done' = done \cup {index} /\ UNCHANGED <<plan, answer>>
  <2>1. revision \in Nat /\ revision <= index
    BY <1>1 DEF IInv, Types, InOrder
  <2> QED
    BY <1>1, <1>3, <2>1, NextFileFits DEF After, sessionVars
<1> QED
  BY <1>2, <1>3 DEF Present

-----------------------------------------------------------------------------
(* Everybody else, and the whole *)

\* A cancellation or a close touches no file.
LEMMA CancelOrCloseKeeps ==
  ASSUME IInv, pc # "done", Cancel \/ Close
  PROVE  IInv'
<1>1. UNCHANGED <<plan, index, pc, answer, done, disk, source, final, kept, revision, foreign>>
  BY DEF Cancel, Close, callVars, fileVars, sessionVars
<1>2. registers' \in {"before", "after", "cleared"}
  BY DEF Cancel, Close, sessionVars, IInv, Types
<1>3. Types'
  BY <1>1, <1>2 DEF IInv, Types
<1>4. InOrder' /\ KindFits' /\ StagingFits'
  BY <1>1 DEF IInv, InOrder, KindFits, StagingFits, Current
<1>5. ASSUME NEW i \in DOMAIN plan
      PROVE  /\ Landed(i)' <=> Landed(i)
             /\ Untouched(i)' <=> Untouched(i)
             /\ DestinationIsUntouched(i)' <=> DestinationIsUntouched(i)
             /\ FileFits(i)' <=> FileFits(i)
  BY <1>1 DEF FileFits, Landed, Untouched, DestinationIsUntouched
<1>6. CurrentFits => CurrentFits'
  BY <1>1 DEF CurrentFits, Current, Landed, Untouched, DestinationIsUntouched
<1>7. FilesFit'
  BY <1>1, <1>5, <1>6 DEF IInv, FilesFit
<1>8. answer' = Pending /\ AnswersAreTrue'
  BY <1>1, PendingIsTrue DEF IInv
<1> QED
  BY <1>3, <1>4, <1>7, <1>8 DEF IInv

\* What a program outside Ovid writes is a file like any other, and nothing
\* is said of the files from then on.
LEMMA ForeignWriteKeeps ==
  ASSUME IInv, pc # "done", ForeignWrite
  PROVE  IInv'
<1>1. /\ UNCHANGED <<plan, index, pc, answer, done, source, final, kept, revision, registers>>
      /\ foreign \in Nat /\ foreign' = foreign + 1
  BY DEF ForeignWrite, callVars, sessionVars, IInv, Types
<1>2. disk' \in [Path -> File \cup {Absent}]
  <2>1. disk \in [Path -> File \cup {Absent}]
    BY DEF IInv, Types
  <2>2. Made(Other) \in File
    BY DEF Made, File, Text
  <2>3. PICK path \in Path :
          \/ disk' = [disk EXCEPT ![path] = Absent]
          \/ disk' = [disk EXCEPT ![path] = Made(Other)]
          \/ disk[path] # Absent /\ disk' = [disk EXCEPT ![path].text = Other]
          \/ disk[path] # Absent /\ disk' = [disk EXCEPT ![path].planned = FALSE]
    BY DEF ForeignWrite
  <2>4. disk[path] # Absent => /\ [disk[path] EXCEPT !.text = Other] \in File
                               /\ [disk[path] EXCEPT !.planned = FALSE] \in File
    <3>1. disk[path] # Absent => disk[path] \in File
      BY <2>1
    <3> QED
      BY <3>1 DEF File, Text
  <2> QED
    BY <2>1, <2>2, <2>3, <2>4
<1>3. foreign' \in Nat /\ foreign' # 0
  BY <1>1
<1>4. Types'
  BY <1>1, <1>2, <1>3 DEF IInv, Types
<1>5. InOrder' /\ KindFits' /\ StagingFits'
  BY <1>1 DEF IInv, InOrder, KindFits, StagingFits, Current
<1>6. FilesFit'
  BY <1>3 DEF FilesFit
<1>7. answer' = Pending /\ AnswersAreTrue'
  BY <1>1, PendingIsTrue DEF IInv
<1> QED
  BY <1>4, <1>5, <1>6, <1>7 DEF IInv

\* A plan is committed over the files it was made of.
LEMMA InitIInv ==
  ASSUME Init
  PROVE  IInv
<1>1. /\ plan \in Plans /\ PlanOK(plan) /\ plan \in Seq(Section) /\ plan # <<>>
      /\ index = 1 /\ pc = "next" /\ source = Absent /\ final = Absent /\ kept = {}
      /\ revision = 0 /\ registers = "before" /\ foreign = 0 /\ answer = Pending /\ done = {}
  BY PlansAssumption DEF Init, PlanOK
<1>2. PICK texts \in FirstTexts :
        disk = [p \in Path |-> IF texts[p] = Absent THEN Absent
                               ELSE [text |-> texts[p], planned |-> TRUE]]
  BY DEF Init
<1>3. /\ \A p \in Path : texts[p] \in {Old(p), Absent}
      /\ \A i \in DOMAIN plan : texts[plan[i].path] # Absent
  BY <1>1, FirstTextsAssumption
<1>4. \A p \in Path : Old(p) \in Text /\ Planned(p) \in File /\ Planned(p).text = Old(p)
  BY DEF Text, Planned, File
<1>5. \A p \in Path : disk[p] = IF texts[p] = Absent THEN Absent ELSE Planned(p)
  BY <1>2, <1>3 DEF Planned
<1>6. disk \in [Path -> File \cup {Absent}]
  BY <1>2, <1>4, <1>5
<1>7. index \in DOMAIN plan /\ DOMAIN plan = 1..Len(plan) /\ Len(plan) \in Nat
  BY <1>1
<1>8. Types
  <2>1. answer \in Answers
    BY <1>1, AnswersAreAnswers
  <2> QED
    BY <1>1, <1>6, <1>7, <2>1 DEF Types, Steps
<1>9. InOrder /\ KindFits /\ StagingFits
  BY <1>1, <1>7 DEF InOrder, KindFits, StagingFits, Before, Staged, Linked, After
<1>10. ASSUME NEW i \in DOMAIN plan
       PROVE  Untouched(i) /\ DestinationIsUntouched(i)
  <2>1. plan[i].path \in Path /\ plan[i].destination \in Path \cup {Absent}
    BY <1>1, PlannedSections
  <2>2. Untouched(i)
    BY <1>3, <1>5, <2>1 DEF Untouched
  <2>3. DestinationIsUntouched(i)
    BY <1>4, <1>5, <2>1 DEF DestinationIsUntouched
  <2> QED
    BY <2>2, <2>3
<1>11. FilesFit
  BY <1>1, <1>7, <1>10 DEF FilesFit, FileFits, CurrentFits, Staged, Linked
<1>12. AnswersAreTrue
  BY <1>1 DEF AnswersAreTrue, RefusedEditsRestore, PartialCommitsAreTrue, Pending, Answer
<1> QED
  BY <1>1, <1>8, <1>9, <1>11, <1>12 DEF IInv

\* Every step keeps the invariant.
LEMMA NextKeeps ==
  ASSUME IInv, [Next]_vars
  PROVE  IInv'
<1>1. ASSUME UNCHANGED vars
      PROVE  IInv'
  BY <1>1 DEF vars, callVars, fileVars, sessionVars, elseVars, IInv, Types, InOrder, KindFits,
              StagingFits, FilesFit, FileFits, CurrentFits, Landed, Untouched,
              DestinationIsUntouched, Current, AnswersAreTrue, RefusedEditsRestore,
              PartialCommitsAreTrue
<1>2. ASSUME Step
      PROVE  IInv'
  BY <1>2, NextFileKeeps, CheckKeeps, VerifyKeeps, PersistKeeps, ResolveKeeps, StageKeeps,
     RecheckKeeps, DeleteKeeps, PrepareKeeps, LinkKeeps, UnstageKeeps, RollbackKeeps,
     UnfinalKeeps, MarkKeeps, PresentKeeps DEF Step
<1> QED
  BY <1>1, <1>2, CancelOrCloseKeeps, ForeignWriteKeeps DEF Next

\* A file of the edit is untouched, staged, kept or committed in every
\* reachable state.
THEOREM InvariantHolds == Spec => []IInv
<1>1. Init => IInv
  BY InitIInv
<1>2. IInv /\ [Next]_vars => IInv'
  BY NextKeeps
<1> QED
  BY <1>1, <1>2, PTL DEF Spec

\* The state is of its types; no change is marked twice.
THEOREM TypesHold == Spec => []TypeOK
<1>1. IInv => TypeOK
  BY DEF IInv, TypeOK, Types, InOrder, Answers, AnswersAreTrue, PartialCommitsAreTrue, Pending, Answer
<1> QED
  BY <1>1, InvariantHolds, PTL

\* While nobody else writes, whatever fails and whenever the edit is
\* cancelled, no text of an edited file is lost (hashline.rs:131-234).
THEOREM NothingLost == Spec => []NothingIsLost
<1>1. ASSUME IInv
      PROVE  NothingIsLost
  <2> SUFFICES ASSUME foreign = 0, NEW i \in DOMAIN plan
               PROVE  IF i \notin done THEN Old(plan[i].path) \in World
                      ELSE plan[i].kind # "remove" => FinalText(plan[i]) \in World
    BY DEF NothingIsLost
  <2>1. PlanOK(plan) /\ plan[i].path \in Path /\ Target(plan[i]) \in Path
    BY <1>1, PlannedSections DEF IInv, Types
  <2>2. \A p \in Path : disk[p] # Absent => disk[p].text \in World
    BY DEF World
  <2>3. source # Absent => source.text \in World
    BY DEF World
  <2>4. Planned(plan[i].path).text = Old(plan[i].path)
    BY DEF Planned
  <2>5. Planned(plan[i].path) # Absent
    BY <2>1, PlannedSections, PathAssumption
  <2>6. CASE i \in done
    <3>1. Landed(i)
      BY <1>1, <2>6 DEF IInv, FilesFit, FileFits, CurrentFits
    <3> QED
      BY <2>1, <2>2, <2>6, <3>1 DEF Landed
  <2>7. CASE i \notin done
    <3>1. \/ Untouched(i)
          \/ source = Planned(plan[i].path)
          \/ Old(plan[i].path) \in kept
      BY <1>1, <2>7 DEF IInv, FilesFit, FileFits, CurrentFits, Current
    <3>2. Old(plan[i].path) \in kept => Old(plan[i].path) \in World
      BY DEF World
    <3> QED
      BY <2>1, <2>2, <2>3, <2>4, <2>5, <2>7, <3>1, <3>2 DEF Untouched
  <2> QED
    BY <2>6, <2>7
<1> QED
  BY <1>1, InvariantHolds, PTL

\* An edit that is refused outright left every file where it was, and one
\* that is committed in part names what it did (hashline.rs:15-53).
THEOREM AnswersHold == Spec => []AnswersAreTrue
<1>1. IInv => AnswersAreTrue
  BY DEF IInv
<1> QED
  BY <1>1, InvariantHolds, PTL
-----------------------------------------------------------------------------
(***************************************************************************)
(* Theorems about the lines of a hashline edit, for any sections, lines    *)
(* and registers.  The edits of a section lie where lines were shown, and  *)
(* no two remove the same line; made from the last place to the first,     *)
(* each finds the lines before it as they were.                            *)
(***************************************************************************)

Registers == [Register -> EditText \cup {Empty}]
Ops(section) == section.operations
LineCount(section) == Len(section.text.lines)

-----------------------------------------------------------------------------
(* Natural numbers *)

\* A set of natural numbers has a least one.
LEMMA LeastOfNaturals ==
  ASSUME NEW S, S \subseteq Nat, S # {}
  PROVE  \E least \in S : \A n \in S : least <= n
<1>1. PICK least \in S : \A n \in S : ~(<<n, least>> \in OpToRel(<, Nat))
  BY NatLessThanWellFounded, WFMin
<1>2. \A n \in S : ~(n < least)
  BY <1>1 DEF OpToRel
<1> QED
  BY <1>2

\* What holds of 0, and of a number if of the one before, holds up to a bound.
LEMMA UpTo ==
  ASSUME NEW N \in Nat, NEW Good, 0 \in Good,
         \A n \in 0 .. N : n > 0 /\ n - 1 \in Good => n \in Good
  PROVE  \A n \in 0 .. N : n \in Good
<1> DEFINE bad == {n \in 0 .. N : n \notin Good}
<1>1. SUFFICES ASSUME bad # {}
               PROVE  FALSE
  OBVIOUS
<1>2. bad \subseteq Nat
  OBVIOUS
<1>3. PICK least \in bad : \A n \in bad : least <= n
  BY <1>1, <1>2, LeastOfNaturals
<1>4. least > 0 /\ least - 1 \in 0 .. N
  BY <1>3
<1>5. least - 1 \in Good
  BY <1>3, <1>4
<1> QED
  BY <1>3, <1>4, <1>5

LEMMA Concatenated ==
  ASSUME NEW S, NEW s \in Seq(S), NEW t \in Seq(S)
  PROVE  s \o t \in Seq(S) /\ Len(s \o t) = Len(s) + Len(t)
OBVIOUS

-----------------------------------------------------------------------------
(* The operations of a section, one after the other *)

Begun(held) == [ok |-> TRUE, edits |-> {}, registers |-> held]

\* The states between the operations
Between(section, held, states) ==
  states = [n \in 0 .. Len(Ops(section)) |->
              IF n = 0 THEN Begun(held) ELSE Perform(section, states[n - 1], n)]

LEMMA StatesBetween ==
  ASSUME NEW section, Len(Ops(section)) \in Nat, NEW held
  PROVE  \E states : /\ Between(section, held, states)
                     /\ Performed(section, held) = states[Len(Ops(section))]
<1> DEFINE N == Len(Ops(section))
           Upto(m, f) == f = [n \in 0 .. m |->
                                IF n = 0 THEN Begun(held) ELSE Perform(section, f[n - 1], n)]
           Good == {m \in 0 .. N : \E f : Upto(m, f)}
<1>1. 0 \in Good
  <2> DEFINE f == [n \in 0 .. 0 |-> Begun(held)]
  <2>1. Upto(0, f)
    OBVIOUS
  <2> HIDE DEF f
  <2>2. \E g : Upto(0, g)
    BY <2>1
  <2> QED
    BY <2>2
<1>2. ASSUME NEW m \in 0 .. N, m > 0, m - 1 \in Good
      PROVE  m \in Good
  <2>1. PICK f : Upto(m - 1, f)
    BY <1>2
  <2> DEFINE g == [n \in 0 .. m |-> IF n = m THEN Perform(section, f[m - 1], m) ELSE f[n]]
  <2>2. g[m] = Perform(section, g[m - 1], m)
    BY <1>2
  <2>3. \A n \in 0 .. m - 1 : g[n] = IF n = 0 THEN Begun(held) ELSE Perform(section, g[n - 1], n)
    <3> SUFFICES ASSUME NEW n \in 0 .. m - 1
                 PROVE  g[n] = IF n = 0 THEN Begun(held) ELSE Perform(section, g[n - 1], n)
      OBVIOUS
    <3>1. g[n] = f[n] /\ (n > 0 => g[n - 1] = f[n - 1])
      OBVIOUS
    <3>2. f[n] = IF n = 0 THEN Begun(held) ELSE Perform(section, f[n - 1], n)
      <4> DEFINE h == [k \in 0 .. m - 1 |->
                         IF k = 0 THEN Begun(held) ELSE Perform(section, f[k - 1], k)]
      <4>1. f = h
        BY <2>1
      <4>2. h[n] = IF n = 0 THEN Begun(held) ELSE Perform(section, f[n - 1], n)
        OBVIOUS
      <4> HIDE DEF h
      <4> QED
        BY <4>1, <4>2
    <3> QED
      BY <3>1, <3>2
  <2>4. \A n \in 0 .. m : g[n] = IF n = 0 THEN Begun(held) ELSE Perform(section, g[n - 1], n)
    BY <1>2, <2>2, <2>3
  <2>5. g = [n \in 0 .. m |-> g[n]]
    OBVIOUS
  <2> HIDE DEF g
  <2>6. Upto(m, g)
    BY <2>4, <2>5
  <2> QED
    BY <2>6
<1>3. N \in Good
  <2> HIDE DEF Good
  <2> QED
    BY <1>1, <1>2, UpTo
<1>4. \E f : Upto(N, f)
  BY <1>3
<1> DEFINE states == CHOOSE f : Upto(N, f)
<1>5. Upto(N, states)
  BY <1>4
<1>6. Performed(section, held) = states[N]
  BY DEF Performed, Begun, Ops
<1> HIDE DEF states
<1> QED
  BY <1>5, <1>6 DEF Between

-----------------------------------------------------------------------------
(* What an operation edits *)

\* An edit is an operation's, lies in the file, and removes lines that were
\* shown as they are.
Fits(section, e) ==
  /\ e.gap \in 0 .. LineCount(section) /\ e.first = e.gap + 1
  /\ e.last \in e.gap .. LineCount(section)
  /\ e.body \in Seq(Line) /\ e.newline \subseteq BOOLEAN
  /\ e.order \in DOMAIN Ops(section)
  /\ e.first = Place(section, Ops(section)[e.order]).first
  /\ e.last = Place(section, Ops(section)[e.order]).last
  /\ \A line \in e.first .. e.last : section.observed[line] = section.text.lines[line]

LEMMA SectionTypes ==
  ASSUME NEW section \in Sections
  PROVE  /\ section.text \in EditText /\ section.text.lines \in Seq(Line)
         /\ section.text.newline \in BOOLEAN
         /\ LineCount(section) \in Nat /\ DOMAIN section.text.lines = 1 .. LineCount(section)
         /\ Len(Ops(section)) \in Nat /\ DOMAIN Ops(section) = 1 .. Len(Ops(section))
         /\ \A i \in DOMAIN Ops(section) :
              /\ Ops(section)[i] \in Operation
              /\ Cuts(Ops(section)[i]) => Ops(section)[i].content \in Register
<1>1. /\ section.text \in EditText /\ section.operations \in Seq(Operation)
      /\ \A i \in DOMAIN section.operations :
           Cuts(section.operations[i]) => section.operations[i].content \in Register
  BY SectionsAssumption
<1>2. section.text.lines \in Seq(Line) /\ section.text.newline \in BOOLEAN
  BY <1>1 DEF EditText
<1>3. LineCount(section) \in Nat /\ DOMAIN section.text.lines = 1 .. LineCount(section)
  BY <1>2 DEF LineCount
<1>4. /\ Len(Ops(section)) \in Nat /\ DOMAIN Ops(section) = 1 .. Len(Ops(section))
      /\ \A i \in DOMAIN Ops(section) : Ops(section)[i] \in Operation
  <2> HIDE DEF Operation
  <2> QED
    BY <1>1 DEF Ops
<1> QED
  BY <1>1, <1>2, <1>3, <1>4 DEF Ops

LEMMA PlacesFit ==
  ASSUME NEW section \in Sections, NEW op \in Operation, Resolvable(section, op),
         NEW place, place = Place(section, op)
  PROVE  /\ place.gap \in 0 .. LineCount(section) /\ place.first = place.gap + 1
         /\ place.last \in place.gap .. LineCount(section)
         /\ \A line \in place.first .. place.last :
              section.observed[line] = section.text.lines[line]
<1> DEFINE n == LineCount(section)
           Here(gap) == [gap |-> gap, first |-> gap + 1, last |-> gap]
<1>1. /\ op.start \in Nat /\ op.end \in Nat
      /\ op.kind \in Spans \cup {"put_before", "put_after", "put_begin", "put_end"}
      /\ n \in Nat /\ DOMAIN section.text.lines = 1 .. n
  BY SectionTypes DEF Operation
<1>2. /\ op.kind \in Spans => op.start <= op.end
      /\ \A line \in Anchors(section, op) :
           line \in 1 .. n /\ section.observed[line] = section.text.lines[line]
  BY <1>1 DEF Resolvable, Shown
<1>3. CASE op.kind \in {"put_range", "cut_range", "put_block", "cut_block"}
  <2>1. place = [gap |-> op.start - 1, first |-> op.start, last |-> op.end]
    BY <1>3 DEF Place
  <2>2. Anchors(section, op) = op.start .. op.end /\ op.start <= op.end
    BY <1>2, <1>3 DEF Anchors, Spans
  <2>3. op.start \in 1 .. n /\ op.end \in 1 .. n
    BY <1>1, <1>2, <2>2
  <2> QED
    BY <1>1, <1>2, <2>1, <2>2, <2>3
<1>4. ASSUME NEW gap \in 0 .. n, place = Here(gap)
      PROVE  /\ place.gap \in 0 .. n /\ place.first = place.gap + 1 /\ place.last \in place.gap .. n
             /\ \A line \in place.first .. place.last : FALSE
  BY <1>1, <1>4
<1>5. CASE op.kind = "put_before"
  <2>1. place = Here(op.start - 1)
    BY <1>5 DEF Place
  <2>2. op.start \in 1 .. n
    BY <1>2, <1>5 DEF Anchors, Spans
  <2> QED
    BY <1>1, <1>4, <2>1, <2>2
<1>6. CASE op.kind = "put_after"
  <2>1. place = Here(op.start)
    BY <1>6 DEF Place
  <2>2. op.start \in 1 .. n
    BY <1>2, <1>6 DEF Anchors, Spans
  <2> QED
    BY <1>1, <1>4, <2>1, <2>2
<1>7. CASE op.kind = "put_after_block"
  <2>1. place = Here(op.end)
    BY <1>7 DEF Place
  <2>2. op.end \in 1 .. n
    BY <1>1, <1>2, <1>7 DEF Anchors, Spans
  <2> QED
    BY <1>1, <1>4, <2>1, <2>2
<1>8. CASE op.kind = "put_begin"
  <2>1. place = Here(0)
    BY <1>8 DEF Place
  <2> QED
    BY <1>1, <1>4, <2>1
<1>9. CASE op.kind = "put_end"
  <2>1. place = Here(n)
    BY <1>9 DEF Place, LineCount
  <2> QED
    BY <1>1, <1>4, <2>1
<1> QED
  BY <1>1, <1>3, <1>5, <1>6, <1>7, <1>8, <1>9 DEF Spans

LEMMA EditsFit ==
  ASSUME NEW section \in Sections, Resolved(section), NEW i \in DOMAIN Ops(section),
         NEW held \in Registers, ~Unavailable(Ops(section)[i], held),
         NEW e, e = Edit(section, Ops(section)[i], i, held)
  PROVE  Fits(section, e) /\ e.order = i
<1> DEFINE op == Ops(section)[i]
           place == Place(section, op)
           content ==
             CASE Cuts(op) ->
                    [body |-> <<>>,
                     newline |-> {b \in {TRUE} : TakesTail(section.text, op)}]
               [] ~Cuts(op) /\ op.content \in Register ->
                    [body |-> held[op.content].lines, newline |-> {held[op.content].newline}]
               [] OTHER -> [body |-> op.content, newline |-> {}]
<1>1. /\ op \in Operation /\ (Cuts(op) => op.content \in Register)
      /\ Resolvable(section, op)
  BY SectionTypes DEF Resolved, Ops
<1>2. op.content \in Register \cup Seq(Line)
  BY <1>1 DEF Operation
<1>3. /\ place.gap \in 0 .. LineCount(section) /\ place.first = place.gap + 1
      /\ place.last \in place.gap .. LineCount(section)
      /\ \A line \in place.first .. place.last :
           section.observed[line] = section.text.lines[line]
  BY <1>1, PlacesFit
<1>4. content.body \in Seq(Line) /\ content.newline \subseteq BOOLEAN
  <2>1. CASE Cuts(op)
    <3> DEFINE tail == {b \in {TRUE} : TakesTail(section.text, op)}
    <3>1. content = [body |-> <<>>, newline |-> tail]
      BY <2>1
    <3>2. tail \subseteq BOOLEAN
      OBVIOUS
    <3> HIDE DEF tail, content
    <3>3. content.body = <<>> /\ content.newline = tail
      BY <3>1
    <3> QED
      BY <3>2, <3>3
  <2>2. CASE ~Cuts(op) /\ op.content \in Register
    <3>1. held[op.content] \in EditText
      BY <2>2 DEF Registers, Unavailable
    <3>2. held[op.content].lines \in Seq(Line) /\ held[op.content].newline \in BOOLEAN
      BY <3>1 DEF EditText
    <3> QED
      BY <2>2, <3>2
  <2>3. CASE ~Cuts(op) /\ op.content \notin Register
    BY <1>2, <2>3
  <2> QED
    BY <2>1, <2>2, <2>3
<1>5. e = [gap |-> place.gap, first |-> place.first, last |-> place.last,
           body |-> content.body, newline |-> content.newline, order |-> i]
  BY DEF Edit
<1> HIDE DEF content, place
<1>6. /\ e.gap = place.gap /\ e.first = place.first /\ e.last = place.last
      /\ e.body = content.body /\ e.newline = content.newline /\ e.order = i
  BY <1>5
<1> HIDE DEF op
<1> QED
  BY <1>3, <1>4, <1>6 DEF Fits, place, op

-----------------------------------------------------------------------------
(* The states between the operations *)

\* Every edit so far is that of one operation, with what registers held.
Stands(section, n, state) ==
  /\ state = [ok |-> state.ok, edits |-> state.edits, registers |-> state.registers]
  /\ state.registers \in Registers
  /\ IsFiniteSet(state.edits)
  /\ \A e \in state.edits : Fits(section, e) /\ e.order \in 1 .. n
  /\ \A e, f \in state.edits : e.order = f.order => e = f

LEMMA CutTextIsText ==
  ASSUME NEW section \in Sections, NEW i \in DOMAIN Ops(section), Resolved(section),
         Cuts(Ops(section)[i])
  PROVE  CutText(section.text, Ops(section)[i]) \in EditText
<1> DEFINE op == Ops(section)[i]
           place == Place(section, op)
           text == section.text
<1>1. op \in Operation /\ Resolvable(section, op) /\ op.kind \in {"cut_range", "cut_block"}
  BY SectionTypes DEF Resolved, Ops, Cuts
<1>2. place = [gap |-> op.start - 1, first |-> op.start, last |-> op.end]
  BY <1>1 DEF Place
<1>3. op.start \in Nat /\ op.end \in Nat /\ op.start <= op.end
  BY <1>1 DEF Operation, Resolvable, Spans
<1>4. op.start \in 1 .. LineCount(section) /\ op.end \in 1 .. LineCount(section)
  <2>1. op.start - 1 \in 0 .. LineCount(section) /\ op.end <= LineCount(section)
    BY <1>1, <1>2, PlacesFit
  <2> QED
    BY <1>3, <2>1, SectionTypes
<1>5. text.lines \in Seq(Line) /\ text.newline \in BOOLEAN /\ LineCount(section) = Len(text.lines)
  BY SectionTypes DEF LineCount
<1> DEFINE lines == SubSeq(text.lines, op.start, op.end)
           newline == op.end < Len(text.lines) \/ text.newline
<1> HIDE DEF op, text
<1>6. lines \in Seq(Line) /\ Len(lines) = op.end - op.start + 1
  BY <1>3, <1>4, <1>5
<1>7. lines # <<>>
  <2> HIDE DEF lines
  <2>1. Len(lines) > 0
    BY <1>3, <1>6
  <2> QED
    BY <2>1
<1>8. newline \in BOOLEAN
  BY <1>5
<1>9. CutText(text, op) = [lines |-> lines, newline |-> newline]
  BY DEF CutText
<1> HIDE DEF lines, newline
<1>10. CutText(text, op) \in EditText
  BY <1>6, <1>7, <1>8, <1>9 DEF EditText
<1> QED
  BY <1>10 DEF text, op

LEMMA OneMore ==
  ASSUME NEW section \in Sections, Resolved(section), NEW n \in DOMAIN Ops(section),
         NEW state, Stands(section, n - 1, state),
         NEW then, then = Perform(section, state, n)
  PROVE  Stands(section, n, then)
<1> DEFINE op == Ops(section)[n]
           edit == Edit(section, op, n, state.registers)
           edits == state.edits \cup {edit}
           held == IF Cuts(op)
                   THEN [state.registers EXCEPT ![op.content] = CutText(section.text, op)]
                   ELSE state.registers
<1>1. /\ state = [ok |-> state.ok, edits |-> state.edits, registers |-> state.registers]
      /\ state.registers \in Registers /\ IsFiniteSet(state.edits)
      /\ \A e \in state.edits : Fits(section, e) /\ e.order \in 1 .. n - 1
      /\ \A e, f \in state.edits : e.order = f.order => e = f
      /\ n \in Nat \ {0}
  BY SectionTypes DEF Stands
<1>2. CASE ~state.ok \/ Unavailable(op, state.registers)
  <2>1. then = [state EXCEPT !.ok = FALSE]
    BY <1>2 DEF Perform, Ops
  <2>2. then = [ok |-> FALSE, edits |-> state.edits, registers |-> state.registers]
    BY <1>1, <2>1
  <2>3. \A e \in state.edits : e.order \in 1 .. n
    BY <1>1
  <2> QED
    BY <1>1, <2>2, <2>3 DEF Stands
<1>3. CASE state.ok /\ ~Unavailable(op, state.registers)
  <2>1. then = [ok |-> TRUE, edits |-> edits, registers |-> held]
    BY <1>3 DEF Perform, Ops
  <2>2. Fits(section, edit) /\ edit.order = n
    BY <1>1, <1>3, EditsFit
  <2>3. held \in Registers
    <3>1. CASE Cuts(op)
      <4>1. op.content \in Register /\ CutText(section.text, op) \in EditText
        BY <3>1, SectionTypes, CutTextIsText
      <4> QED
        BY <1>1, <3>1, <4>1 DEF Registers
    <3>2. CASE ~Cuts(op)
      BY <1>1, <3>2
    <3> QED
      BY <3>1, <3>2
  <2> HIDE DEF edit, held
  <2>4. IsFiniteSet(edits)
    BY <1>1, FS_AddElement
  <2>5. \A e \in edits : Fits(section, e) /\ e.order \in 1 .. n
    BY <1>1, <2>2
  <2>6. \A e, f \in edits : e.order = f.order => e = f
    BY <1>1, <2>2
  <2> HIDE DEF edits
  <2> QED
    BY <2>1, <2>3, <2>4, <2>5, <2>6 DEF Stands
<1> QED
  BY <1>2, <1>3

\* What the operations of a section edit, and what registers hold after it
LEMMA PerformedStands ==
  ASSUME NEW section \in Sections, Resolved(section), NEW held \in Registers
  PROVE  Stands(section, Len(Ops(section)), Performed(section, held))
<1> DEFINE N == Len(Ops(section))
<1>1. N \in Nat /\ DOMAIN Ops(section) = 1 .. N
  BY SectionTypes
<1>2. PICK states : Between(section, held, states) /\ Performed(section, held) = states[N]
  BY <1>1, StatesBetween
<1> DEFINE Good == {n \in 0 .. N : Stands(section, n, states[n])}
<1>3. 0 \in Good
  <2>1. states[0] = Begun(held)
    BY <1>1, <1>2 DEF Between
  <2>2. Stands(section, 0, Begun(held))
    BY FS_EmptySet DEF Stands, Begun
  <2> QED
    BY <1>1, <2>1, <2>2
<1>4. ASSUME NEW n \in 0 .. N, n > 0, n - 1 \in Good
      PROVE  n \in Good
  <2>1. states[n] = Perform(section, states[n - 1], n)
    BY <1>1, <1>2, <1>4 DEF Between
  <2>2. n \in DOMAIN Ops(section)
    BY <1>1, <1>4
  <2>3. Stands(section, n - 1, states[n - 1])
    BY <1>4
  <2>4. Stands(section, n, states[n])
    BY <2>1, <2>2, <2>3, OneMore
  <2> QED
    BY <2>4
<1>5. N \in Good
  <2> HIDE DEF Good, N
  <2>1. N \in Nat
    BY <1>1
  <2>2. \A n \in 0 .. N : n \in Good
    BY <2>1, <1>3, <1>4, UpTo
  <2> QED
    BY <2>1, <2>2
<1> QED
  BY <1>2, <1>5

-----------------------------------------------------------------------------
(* The order in which edits are made *)

\* Edits whose orders differ, each with a place
Ordered(edits) ==
  /\ IsFiniteSet(edits)
  /\ \A e \in edits : e.gap \in Nat /\ e.order \in Nat
  /\ \A e, f \in edits : e.order = f.order => e = f

MadeBefore(edits, e) == {f \in edits : Later(f, e)}
Rank(edits, e) == Cardinality(MadeBefore(edits, e))

LEMMA RanksRise ==
  ASSUME NEW edits, Ordered(edits), NEW e \in edits, NEW f \in edits, e # f
  PROVE  \/ Later(e, f) /\ Rank(edits, e) < Rank(edits, f)
         \/ Later(f, e) /\ Rank(edits, f) < Rank(edits, e)
<1>1. ASSUME NEW g \in edits, NEW h \in edits, Later(g, h)
      PROVE  Rank(edits, g) < Rank(edits, h)
  <2>1. \A k \in edits : k.gap \in Nat /\ k.order \in Nat
    BY DEF Ordered
  <2>2. MadeBefore(edits, g) \subseteq MadeBefore(edits, h)
    BY <1>1, <2>1 DEF MadeBefore, Later
  <2>3. g \in MadeBefore(edits, h) /\ g \notin MadeBefore(edits, g)
    BY <1>1, <2>1 DEF MadeBefore, Later
  <2>4. IsFiniteSet(MadeBefore(edits, h))
    BY FS_Subset DEF MadeBefore, Ordered
  <2>5. Cardinality(MadeBefore(edits, g)) < Cardinality(MadeBefore(edits, h))
    <3>1. MadeBefore(edits, g) # MadeBefore(edits, h)
      BY <2>3
    <3>2. /\ IsFiniteSet(MadeBefore(edits, g))
          /\ Cardinality(MadeBefore(edits, g)) <= Cardinality(MadeBefore(edits, h))
          /\ (Cardinality(MadeBefore(edits, g)) = Cardinality(MadeBefore(edits, h)) =>
                MadeBefore(edits, g) = MadeBefore(edits, h))
      BY <2>2, <2>4, FS_Subset
    <3>3. Cardinality(MadeBefore(edits, g)) \in Nat /\ Cardinality(MadeBefore(edits, h)) \in Nat
      BY <2>4, <3>2, FS_CardinalityType
    <3> QED
      BY <3>1, <3>2, <3>3
  <2> QED
    BY <2>5 DEF Rank
<1>2. Later(e, f) \/ Later(f, e)
  <2>1. e.gap \in Nat /\ f.gap \in Nat /\ e.order \in Nat /\ f.order \in Nat /\ e.order # f.order
    BY DEF Ordered
  <2> QED
    BY <2>1 DEF Later
<1> QED
  BY <1>1, <1>2

LEMMA RanksFit ==
  ASSUME NEW edits, Ordered(edits), NEW e \in edits
  PROVE  Rank(edits, e) \in 0 .. Cardinality(edits) - 1
<1>1. IsFiniteSet(edits) /\ Cardinality(edits) \in Nat
  BY FS_CardinalityType DEF Ordered
<1>2. MadeBefore(edits, e) \subseteq edits \ {e}
  BY DEF MadeBefore, Later, Ordered
<1>3. IsFiniteSet(edits \ {e}) /\ Cardinality(edits \ {e}) = Cardinality(edits) - 1
  BY <1>1, FS_RemoveElement
<1>4. /\ IsFiniteSet(MadeBefore(edits, e))
      /\ Cardinality(MadeBefore(edits, e)) <= Cardinality(edits \ {e})
  BY <1>2, <1>3, FS_Subset
<1>5. Cardinality(MadeBefore(edits, e)) \in Nat
  BY <1>4, FS_CardinalityType
<1> QED
  BY <1>1, <1>3, <1>4, <1>5 DEF Rank

\* Every turn is an edit's.
LEMMA TurnsAreEdits ==
  ASSUME NEW edits, Ordered(edits), NEW n \in 1 .. Cardinality(edits)
  PROVE  InTurn(edits, n) \in edits /\ Rank(edits, InTurn(edits, n)) = n - 1
<1> DEFINE N == Cardinality(edits)
<1>1. IsFiniteSet(edits) /\ N \in Nat /\ n - 1 \in 0 .. N - 1
  BY FS_CardinalityType DEF Ordered
<1>2. \E e \in edits : Rank(edits, e) = n - 1
  <2> DEFINE all == 0 .. N - 1
             ranks == all \ {n - 1}
             rank == [e \in edits |-> Rank(edits, e)]
  <2>1. SUFFICES ASSUME \A e \in edits : Rank(edits, e) # n - 1
                 PROVE  FALSE
    OBVIOUS
  <2>2. rank \in [edits -> ranks]
    BY <2>1, RanksFit
  <2>3. IsFiniteSet(0 .. N - 1) /\ Cardinality(0 .. N - 1) = N
    <3>1. 0 \in Int /\ N - 1 \in Int /\ 0 <= N - 1
      BY <1>1
    <3> HIDE DEF N
    <3> QED
      BY <1>1, <3>1, FS_Interval
  <2>4. IsFiniteSet(ranks) /\ Cardinality(ranks) = N - 1
    <3>1. IsFiniteSet(all) /\ Cardinality(all) = N /\ n - 1 \in all
      BY <1>1, <2>3
    <3> HIDE DEF all
    <3> QED
      BY <3>1, FS_RemoveElement
  <2> HIDE DEF ranks, rank
  <2>5. Cardinality(ranks) < Cardinality(edits)
    BY <1>1, <2>4
  <2>6. \E e, f \in edits : e # f /\ rank[e] = rank[f]
    BY <1>1, <2>2, <2>4, <2>5, FS_PigeonHole
  <2>7. PICK e \in edits, f \in edits : e # f /\ Rank(edits, e) = Rank(edits, f)
    BY <2>6 DEF rank
  <2>8. Rank(edits, e) \in Int /\ Rank(edits, f) \in Int
    BY <1>1, RanksFit
  <2> QED
    BY <2>7, <2>8, RanksRise
<1> QED
  BY <1>2 DEF InTurn, Rank, MadeBefore

-----------------------------------------------------------------------------
(* The edits of a section, made one after the other *)

LEMMA SplicesFit ==
  ASSUME NEW text, text.lines \in Seq(Line), text.newline \in BOOLEAN,
         NEW edit, edit.gap \in Nat, edit.first = edit.gap + 1, edit.last \in Nat,
         edit.gap <= edit.last, edit.last <= Len(text.lines), edit.body \in Seq(Line),
         edit.newline \subseteq BOOLEAN, NEW new, new = Splice(text, edit)
  PROVE  /\ new \in [lines : Seq(Line), newline : BOOLEAN] /\ new.lines \in Seq(Line)
         /\ Len(new.lines) = edit.gap + Len(edit.body) + Len(text.lines) - edit.last
<1> DEFINE head == SubSeq(text.lines, 1, edit.first - 1)
           tail == SubSeq(text.lines, edit.last + 1, Len(text.lines))
           newline == IF edit.last = Len(text.lines) /\ edit.newline # {}
                      THEN CHOOSE b \in edit.newline : TRUE ELSE text.newline
<1>1. head \in Seq(Line) /\ Len(head) = edit.gap
  <2>1. edit.first - 1 = edit.gap /\ edit.gap <= Len(text.lines) /\ Len(text.lines) \in Nat
    OBVIOUS
  <2> QED
    BY <2>1
<1>2. tail \in Seq(Line) /\ Len(tail) = Len(text.lines) - edit.last
  OBVIOUS
<1>3. newline \in BOOLEAN
  OBVIOUS
<1>4. new = [lines |-> head \o edit.body \o tail, newline |-> newline]
  BY DEF Splice
<1> HIDE DEF head, tail, newline
<1>5. edit.body \in Seq(Line) /\ Len(edit.body) \in Nat /\ Len(text.lines) \in Nat
  OBVIOUS
<1> DEFINE front == head \o edit.body
<1>6. front \in Seq(Line) /\ Len(front) = Len(head) + Len(edit.body)
  BY <1>1, <1>5, Concatenated
<1>7. new = [lines |-> front \o tail, newline |-> newline]
  BY <1>4
<1> HIDE DEF front
<1>8. front \o tail \in Seq(Line) /\ Len(front \o tail) = Len(front) + Len(tail)
  BY <1>2, <1>6, Concatenated
<1> DEFINE lines == front \o tail
<1>9. new = [lines |-> lines, newline |-> newline]
  BY <1>7
<1>10. lines \in Seq(Line) /\ Len(lines) = edit.gap + Len(edit.body) + Len(text.lines) - edit.last
  BY <1>1, <1>2, <1>5, <1>6, <1>8
<1> HIDE DEF lines
<1>11. new.lines = lines
  BY <1>9
<1> QED
  BY <1>3, <1>9, <1>10, <1>11

\* The edits of one section
EditsOf(section, edits) ==
  /\ Ordered(edits)
  /\ \A e \in edits : Fits(section, e)
  /\ \A e, f \in edits : e # f => ~Overlap(e, f)

LEMMA PerformedEdits ==
  ASSUME NEW section \in Sections, Resolved(section), NEW held \in Registers
  PROVE  EditsOf(section, Performed(section, held).edits)
<1> DEFINE edits == Performed(section, held).edits
<1>1. /\ IsFiniteSet(edits)
      /\ \A e \in edits : Fits(section, e)
      /\ \A e, f \in edits : e.order = f.order => e = f
  BY PerformedStands DEF Stands
<1> HIDE DEF edits
<1>2. \A e \in edits : e.gap \in Nat /\ e.order \in Nat
  BY <1>1, SectionTypes DEF Fits
<1>3. ASSUME NEW e \in edits, NEW f \in edits, e # f
      PROVE  ~Overlap(e, f)
  <2>1. /\ e.order \in DOMAIN Ops(section) /\ f.order \in DOMAIN Ops(section)
        /\ e.order \in Nat /\ f.order \in Nat /\ e.order # f.order
    BY <1>1, <1>2, <1>3 DEF Fits
  <2> DEFINE p == Place(section, Ops(section)[e.order])
             q == Place(section, Ops(section)[f.order])
  <2>2. ~Overlap(p, q) \/ ~Overlap(q, p)
    BY <2>1 DEF Resolved, Ops
  <2>3. /\ e.first = p.first /\ e.last = p.last /\ f.first = q.first /\ f.last = q.last
    BY <1>1 DEF Fits
  <2> HIDE DEF p, q
  <2> QED
    BY <2>2, <2>3 DEF Overlap, Destroys
<1> QED
  BY <1>1, <1>2, <1>3 DEF EditsOf, Ordered, edits

\* The texts between the edits
Making(text, edits, texts) ==
  texts = [n \in 0 .. Cardinality(edits) |->
             IF n = 0 THEN text ELSE Splice(texts[n - 1], InTurn(edits, n))]

LEMMA TextsMade ==
  ASSUME NEW text, NEW edits, Cardinality(edits) \in Nat
  PROVE  \E texts : /\ Making(text, edits, texts)
                    /\ ApplyEdits(text, edits) = Joined(texts[Cardinality(edits)])
<1> DEFINE N == Cardinality(edits)
           Upto(m, f) == f = [n \in 0 .. m |->
                                IF n = 0 THEN text ELSE Splice(f[n - 1], InTurn(edits, n))]
           Good == {m \in 0 .. N : \E f : Upto(m, f)}
<1>1. 0 \in Good
  <2> DEFINE f == [n \in 0 .. 0 |-> text]
  <2>1. Upto(0, f)
    OBVIOUS
  <2> HIDE DEF f
  <2>2. \E g : Upto(0, g)
    BY <2>1
  <2> QED
    BY <2>2
<1>2. ASSUME NEW m \in 0 .. N, m > 0, m - 1 \in Good
      PROVE  m \in Good
  <2>1. PICK f : Upto(m - 1, f)
    BY <1>2
  <2> DEFINE g == [n \in 0 .. m |->
                     IF n = m THEN Splice(f[m - 1], InTurn(edits, m)) ELSE f[n]]
  <2>2. g[m] = Splice(g[m - 1], InTurn(edits, m))
    BY <1>2
  <2>3. \A n \in 0 .. m - 1 :
          g[n] = IF n = 0 THEN text ELSE Splice(g[n - 1], InTurn(edits, n))
    <3> SUFFICES ASSUME NEW n \in 0 .. m - 1
                 PROVE  g[n] = IF n = 0 THEN text ELSE Splice(g[n - 1], InTurn(edits, n))
      OBVIOUS
    <3>1. g[n] = f[n] /\ (n > 0 => g[n - 1] = f[n - 1])
      OBVIOUS
    <3>2. f[n] = IF n = 0 THEN text ELSE Splice(f[n - 1], InTurn(edits, n))
      <4> DEFINE h == [k \in 0 .. m - 1 |->
                         IF k = 0 THEN text ELSE Splice(f[k - 1], InTurn(edits, k))]
      <4>1. f = h
        BY <2>1
      <4>2. h[n] = IF n = 0 THEN text ELSE Splice(f[n - 1], InTurn(edits, n))
        OBVIOUS
      <4> HIDE DEF h
      <4> QED
        BY <4>1, <4>2
    <3> QED
      BY <3>1, <3>2
  <2>4. g = [n \in 0 .. m |-> g[n]]
    OBVIOUS
  <2> HIDE DEF g
  <2>5. \A n \in 0 .. m :
          g[n] = IF n = 0 THEN text ELSE Splice(g[n - 1], InTurn(edits, n))
    <3>1. \A n \in 0 .. m : n = m \/ n \in 0 .. m - 1
      OBVIOUS
    <3> QED
      BY <1>2, <2>2, <2>3, <3>1
  <2>6. Upto(m, g)
    BY <2>4, <2>5
  <2> QED
    BY <2>6
<1>3. N \in Good
  <2> HIDE DEF Good
  <2> QED
    BY <1>1, <1>2, UpTo
<1>4. \E f : Upto(N, f)
  BY <1>3
<1> DEFINE texts == CHOOSE f : Upto(N, f)
<1>5. Upto(N, texts)
  BY <1>4
<1>6. ApplyEdits(text, edits) = Joined(texts[N])
  BY DEF ApplyEdits
<1> HIDE DEF texts
<1> QED
  BY <1>5, <1>6 DEF Making

\* After some of its edits a text is a sequence of lines, and it still has
\* the lines before all that these removed.
Reaches(section, edits, n, text) ==
  /\ text \in [lines : Seq(Line), newline : BOOLEAN]
  /\ \A m \in 0 .. LineCount(section) :
       (\A f \in edits : Rank(edits, f) < n /\ Destroys(f) => m < f.first)
         => m <= Len(text.lines)

\* The edit whose turn it is lies before all that were made.
LEMMA TurnFits ==
  ASSUME NEW section \in Sections, NEW edits, EditsOf(section, edits),
         NEW n \in 1 .. Cardinality(edits), NEW e, e = InTurn(edits, n)
  PROVE  /\ e \in edits /\ Rank(edits, e) = n - 1
         /\ \A f \in edits : Rank(edits, f) \in 0 .. Cardinality(edits) - 1
         /\ e.gap \in Nat /\ e.first = e.gap + 1 /\ e.last \in Nat /\ e.gap <= e.last
         /\ e.last <= LineCount(section) /\ e.body \in Seq(Line) /\ e.newline \subseteq BOOLEAN
         /\ LineCount(section) \in Nat
         /\ \A f \in edits : f.gap \in Nat /\ f.first \in Nat
         /\ \A f \in edits : Rank(edits, f) < n - 1 =>
              e.gap <= f.gap /\ (Destroys(f) => e.last < f.first)
<1>1. Ordered(edits) /\ e \in edits /\ Rank(edits, e) = n - 1
  BY TurnsAreEdits DEF EditsOf
<1>2. \A f \in edits : Rank(edits, f) \in 0 .. Cardinality(edits) - 1
  BY <1>1, RanksFit
<1>3. /\ e.gap \in Nat /\ e.first = e.gap + 1 /\ e.last \in Nat /\ e.gap <= e.last
      /\ e.last <= LineCount(section) /\ e.body \in Seq(Line) /\ e.newline \subseteq BOOLEAN
      /\ LineCount(section) \in Nat
  BY <1>1, SectionTypes DEF EditsOf, Fits
<1>4. \A f \in edits : f.gap \in Nat /\ f.first = f.gap + 1 /\ f.last \in Nat
  BY SectionTypes DEF EditsOf, Fits
<1>5. ASSUME NEW f \in edits, Rank(edits, f) < n - 1
      PROVE  e.gap <= f.gap /\ (Destroys(f) => e.last < f.first)
  <2>1. f # e /\ Later(f, e)
    <3>1. Cardinality(edits) \in Nat
      BY <1>1, FS_CardinalityType DEF Ordered
    <3>2. Rank(edits, f) \in Int /\ Rank(edits, e) \in Int
      BY <1>1, <1>2, <3>1
    <3> QED
      BY <1>1, <1>5, <3>2, RanksRise
  <2>2. e.gap <= f.gap /\ f.first >= e.first
    BY <1>3, <1>4, <2>1 DEF Later
  <2>3. ASSUME Destroys(f), Destroys(e)
        PROVE  e.last < f.first
    <3>1. ~Overlap(e, f)
      BY <1>1, <2>1 DEF EditsOf
    <3> QED
      BY <1>3, <1>4, <2>2, <2>3, <3>1 DEF Overlap, Destroys
  <2>4. ~Destroys(e) => e.last < f.first
    BY <1>3, <1>4, <2>2 DEF Destroys
  <2> QED
    BY <2>2, <2>3, <2>4
<1> QED
  BY <1>1, <1>2, <1>3, <1>4, <1>5

LEMMA SpliceReaches ==
  ASSUME NEW section \in Sections, NEW edits, EditsOf(section, edits),
         NEW n \in 1 .. Cardinality(edits), NEW text, Reaches(section, edits, n - 1, text),
         NEW new, new = Splice(text, InTurn(edits, n))
  PROVE  /\ text.lines \in Seq(Line) /\ text.newline \in BOOLEAN
         /\ InTurn(edits, n).last <= Len(text.lines)
         /\ Reaches(section, edits, n, new)
<1> DEFINE e == InTurn(edits, n)
<1>1. e \in edits /\ Rank(edits, e) = n - 1
  BY TurnFits
<1>2. \A f \in edits : Rank(edits, f) \in Int
  <2>1. Cardinality(edits) \in Nat
    BY FS_CardinalityType DEF EditsOf, Ordered
  <2> QED
    BY <2>1, TurnFits
<1>3. /\ e.gap \in Nat /\ e.first = e.gap + 1 /\ e.last \in Nat /\ e.gap <= e.last
      /\ e.last \in 0 .. LineCount(section) /\ e.body \in Seq(Line) /\ e.newline \subseteq BOOLEAN
      /\ LineCount(section) \in Nat
  BY TurnFits
<1>5. \A f \in edits : Rank(edits, f) < n - 1 /\ Destroys(f) => e.last < f.first
  BY TurnFits
<1>7. new = Splice(text, e)
  OBVIOUS
<1> HIDE DEF e
<1>6. text.lines \in Seq(Line) /\ text.newline \in BOOLEAN /\ e.last <= Len(text.lines)
  <2>1. text.lines \in Seq(Line) /\ text.newline \in BOOLEAN
    BY DEF Reaches
  <2> QED
    BY <1>3, <1>5, <2>1 DEF Reaches
<1>8. /\ new \in [lines : Seq(Line), newline : BOOLEAN] /\ new.lines \in Seq(Line)
      /\ Len(new.lines) = e.gap + Len(e.body) + Len(text.lines) - e.last
  BY <1>3, <1>6, <1>7, SplicesFit
<1>9. ASSUME NEW m \in 0 .. LineCount(section),
             \A f \in edits : Rank(edits, f) < n /\ Destroys(f) => m < f.first
      PROVE  m <= Len(new.lines)
  <2>1. Len(e.body) \in Nat /\ Len(text.lines) \in Nat
    BY <1>3, <1>6
  <2>2. CASE Destroys(e)
    <3>1. m < e.first
      BY <1>1, <1>9, <2>2
    <3> QED
      <4>1. m <= e.gap
        BY <1>3, <3>1
      <4>2. Len(new.lines) >= e.gap
        BY <1>3, <1>6, <1>8, <2>1
      <4>3. Len(new.lines) \in Nat
        BY <1>8
      <4> QED
        BY <1>3, <4>1, <4>2, <4>3
  <2>3. CASE ~Destroys(e)
    <3>1. e.last = e.gap
      BY <1>3, <2>3 DEF Destroys
    <3>2. \A f \in edits : Rank(edits, f) < n - 1 /\ Destroys(f) => m < f.first
      BY <1>2, <1>9
    <3>3. m <= Len(text.lines)
      BY <3>2 DEF Reaches
    <3> QED
      BY <1>3, <1>8, <2>1, <3>1, <3>3
  <2> QED
    BY <2>2, <2>3
<1> QED
  BY <1>6, <1>8, <1>9 DEF Reaches, e

\* What the edits of a section make of its text is a text: none of them
\* reaches past the end of what the others left.
LEMMA AppliedIsText ==
  ASSUME NEW section \in Sections, NEW edits, EditsOf(section, edits)
  PROVE  ApplyEdits(section.text, edits) \in EditText
<1> DEFINE N == Cardinality(edits)
<1>1. N \in Nat
  BY FS_CardinalityType DEF EditsOf, Ordered
<1>2. PICK texts : /\ Making(section.text, edits, texts)
                   /\ ApplyEdits(section.text, edits) = Joined(texts[N])
  BY <1>1, TextsMade
<1> DEFINE Good == {n \in 0 .. N : Reaches(section, edits, n, texts[n])}
<1>3. 0 \in Good
  <2>1. texts[0] = section.text
    BY <1>1, <1>2 DEF Making
  <2>2. Reaches(section, edits, 0, section.text)
    BY SectionTypes DEF Reaches, LineCount, EditText
  <2> QED
    BY <1>1, <2>1, <2>2
<1>4. ASSUME NEW n \in 0 .. N, n > 0, n - 1 \in Good
      PROVE  n \in Good
  <2>1. texts[n] = Splice(texts[n - 1], InTurn(edits, n))
    BY <1>1, <1>2, <1>4 DEF Making
  <2>2. n \in 1 .. Cardinality(edits)
    BY <1>1, <1>4
  <2>3. Reaches(section, edits, n - 1, texts[n - 1])
    BY <1>4
  <2>4. Reaches(section, edits, n, texts[n])
    BY <2>1, <2>2, <2>3, SpliceReaches
  <2> QED
    BY <2>4
<1>5. N \in Good
  <2> HIDE DEF Good, N
  <2>1. \A n \in 0 .. N : n \in Good
    BY <1>1, <1>3, <1>4, UpTo
  <2> QED
    BY <1>1, <2>1
<1> DEFINE last == texts[N]
<1>6. last \in [lines : Seq(Line), newline : BOOLEAN]
  BY <1>5 DEF Reaches
<1> HIDE DEF last
<1> DEFINE newline == last.newline /\ last.lines # <<>>
<1>7. Joined(last) = [lines |-> last.lines, newline |-> newline]
  BY <1>6 DEF Joined
<1>8. /\ newline \in BOOLEAN /\ (last.lines = <<>> => ~newline)
      /\ last.lines \in Seq(Line)
  BY <1>6
<1> HIDE DEF newline
<1>9. Joined(last) \in [lines : Seq(Line), newline : BOOLEAN]
  BY <1>7, <1>8
<1>10. Joined(last).lines = last.lines /\ Joined(last).newline = newline
  BY <1>7
<1>11. Joined(last) \in EditText
  BY <1>8, <1>9, <1>10 DEF EditText
<1> QED
  BY <1>2, <1>11 DEF last

-----------------------------------------------------------------------------
(* The lines no edit removes *)

\* What a sequence of three parts has where
LEMMA ThreeParts ==
  ASSUME NEW S, NEW s \in Seq(S), NEW t \in Seq(S), NEW u \in Seq(S), NEW w, w = s \o t \o u
  PROVE  /\ \A i \in 1 .. Len(s) : w[i] = s[i]
         /\ \A i \in 1 .. Len(u) : w[Len(s) + Len(t) + i] = u[i]
<1> DEFINE front == s \o t
<1>1. /\ front \in Seq(S) /\ Len(front) = Len(s) + Len(t)
      /\ \A i \in 1 .. Len(s) : front[i] = s[i]
  OBVIOUS
<1>2. w = front \o u
  OBVIOUS
<1>3. Len(s) \in Nat /\ Len(t) \in Nat /\ Len(u) \in Nat
  OBVIOUS
<1> HIDE DEF front
<1>4. \A i \in 1 .. Len(front) : w[i] = front[i]
  BY <1>1, <1>2
<1>5. \A i \in 1 .. Len(u) : w[Len(front) + i] = u[i]
  BY <1>1, <1>2
<1> QED
  BY <1>1, <1>3, <1>4, <1>5

\* Before its range a splice changes no line, after it only their numbers.
LEMMA SpliceMoves ==
  ASSUME NEW text, text.lines \in Seq(Line), text.newline \in BOOLEAN,
         NEW edit, edit.gap \in Nat, edit.first = edit.gap + 1, edit.last \in Nat,
         edit.gap <= edit.last, edit.last <= Len(text.lines), edit.body \in Seq(Line),
         NEW new, new = Splice(text, edit)
  PROVE  /\ \A i \in 1 .. edit.gap : new.lines[i] = text.lines[i]
         /\ \A i \in edit.last + 1 .. Len(text.lines) :
              new.lines[i + edit.gap + Len(edit.body) - edit.last] = text.lines[i]
<1> DEFINE head == SubSeq(text.lines, 1, edit.first - 1)
           tail == SubSeq(text.lines, edit.last + 1, Len(text.lines))
<1>1. /\ edit.first - 1 = edit.gap /\ edit.gap <= Len(text.lines) /\ Len(text.lines) \in Nat
      /\ Len(edit.body) \in Nat
  OBVIOUS
<1>2. head \in Seq(Line) /\ Len(head) = edit.gap /\ \A i \in 1 .. edit.gap : head[i] = text.lines[i]
  BY <1>1
<1>3. /\ tail \in Seq(Line) /\ Len(tail) = Len(text.lines) - edit.last
      /\ \A i \in 1 .. Len(text.lines) - edit.last : tail[i] = text.lines[edit.last + i]
  BY <1>1
<1>4. new.lines = head \o edit.body \o tail
  BY DEF Splice
<1> HIDE DEF head, tail
<1>5. /\ \A i \in 1 .. Len(head) : new.lines[i] = head[i]
      /\ \A i \in 1 .. Len(tail) : new.lines[Len(head) + Len(edit.body) + i] = tail[i]
  <2> DEFINE body == edit.body
             lines == new.lines
  <2>1. head \in Seq(Line) /\ body \in Seq(Line) /\ tail \in Seq(Line)
    BY <1>2, <1>3
  <2>2. lines = head \o body \o tail
    BY <1>4
  <2> HIDE DEF body, lines
  <2>3. /\ \A i \in 1 .. Len(head) : lines[i] = head[i]
        /\ \A i \in 1 .. Len(tail) : lines[Len(head) + Len(body) + i] = tail[i]
    BY <2>1, <2>2, ThreeParts
  <2> QED
    BY <2>3 DEF body, lines
<1>6. ASSUME NEW i \in edit.last + 1 .. Len(text.lines)
      PROVE  new.lines[i + edit.gap + Len(edit.body) - edit.last] = text.lines[i]
  <2>1. /\ i - edit.last \in 1 .. Len(tail) /\ edit.last + (i - edit.last) = i
        /\ Len(head) + Len(edit.body) + (i - edit.last) = i + edit.gap + Len(edit.body) - edit.last
    BY <1>1, <1>2, <1>3
  <2>2. new.lines[Len(head) + Len(edit.body) + (i - edit.last)] = tail[i - edit.last]
    BY <1>5, <2>1
  <2>3. tail[i - edit.last] = text.lines[edit.last + (i - edit.last)]
    BY <1>3, <2>1
  <2> QED
    BY <2>1, <2>2, <2>3
<1> QED
  BY <1>2, <1>5, <1>6

\* The lines the first n edits leave
Left(section, edits, n) ==
  {m \in 1 .. LineCount(section) :
     \A f \in edits : Rank(edits, f) < n => m < f.first \/ f.last < m}

\* Where they are: in their order, at their own places before all that was
\* edited, and never before what they come after.
Located(section, edits, n, text, at) ==
  /\ \A m \in Left(section, edits, n) :
       at[m] \in 1 .. Len(text.lines) /\ text.lines[at[m]] = section.text.lines[m]
  /\ \A l, m \in Left(section, edits, n) : l < m => at[l] < at[m]
  /\ \A m \in Left(section, edits, n) :
       (\A f \in edits : Rank(edits, f) < n => m <= f.gap) => at[m] = m
  /\ \A m \in Left(section, edits, n) : \A k \in 1 .. m :
       (\A f \in edits : Rank(edits, f) < n /\ Destroys(f) => k <= f.first) => k <= at[m]

Carries(section, edits, n, text) == \E at : Located(section, edits, n, text, at)

LEMMA SpliceCarries ==
  ASSUME NEW section \in Sections, NEW edits, EditsOf(section, edits),
         NEW n \in 1 .. Cardinality(edits), NEW text, Reaches(section, edits, n - 1, text),
         Carries(section, edits, n - 1, text), NEW new, new = Splice(text, InTurn(edits, n))
  PROVE  Carries(section, edits, n, new)
<1> DEFINE e == InTurn(edits, n)
           shift == e.gap + Len(e.body) - e.last
<1>1. /\ e \in edits /\ Rank(edits, e) = n - 1
      /\ e.gap \in Nat /\ e.first = e.gap + 1 /\ e.last \in Nat /\ e.gap <= e.last
      /\ e.body \in Seq(Line) /\ e.newline \subseteq BOOLEAN /\ LineCount(section) \in Nat
  BY TurnFits
<1>2. /\ \A f \in edits : f.gap \in Nat /\ f.first \in Nat
      /\ \A f \in edits : Rank(edits, f) < n - 1 =>
           e.gap <= f.gap /\ (Destroys(f) => e.last < f.first)
  BY TurnFits
<1>3. \A f \in edits : Rank(edits, f) < n - 1 => Rank(edits, f) < n
  <2>1. Cardinality(edits) \in Nat
    BY FS_CardinalityType DEF EditsOf, Ordered
  <2>2. \A f \in edits : Rank(edits, f) \in Int
    BY <2>1, TurnFits
  <2> QED
    BY <2>1, <2>2
<1>4. Rank(edits, e) < n /\ n \in Int
  BY <1>1
<1>5. text.lines \in Seq(Line) /\ text.newline \in BOOLEAN /\ e.last <= Len(text.lines)
  BY SpliceReaches
<1>6. new = Splice(text, e)
  OBVIOUS
<1> HIDE DEF e
<1>7. Len(new.lines) = e.gap + Len(e.body) + Len(text.lines) - e.last
  BY <1>1, <1>5, <1>6, SplicesFit
<1>8. /\ \A i \in 1 .. e.gap : new.lines[i] = text.lines[i]
      /\ \A i \in e.last + 1 .. Len(text.lines) :
           new.lines[i + e.gap + Len(e.body) - e.last] = text.lines[i]
  BY <1>1, <1>5, <1>6, SpliceMoves
<1>9. Len(e.body) \in Nat /\ Len(text.lines) \in Nat
  BY <1>1, <1>5
<1>10. PICK was : Located(section, edits, n - 1, text, was)
  BY DEF Carries
<1> DEFINE left == Left(section, edits, n)
           before == Left(section, edits, n - 1)
           at == [m \in left |-> IF m <= e.gap THEN m ELSE was[m] + shift]
<1>11. left \subseteq before /\ \A m \in left : m \in Nat /\ (m <= e.gap \/ e.last < m)
  BY <1>1, <1>3, <1>4 DEF Left
<1>12. \A m \in left : was[m] \in 1 .. Len(text.lines) /\ text.lines[was[m]] = section.text.lines[m]
  BY <1>10, <1>11 DEF Located
<1>13. \A m \in left : m <= e.gap => was[m] = m /\ at[m] = m
  <2> SUFFICES ASSUME NEW m \in left, m <= e.gap
               PROVE  was[m] = m
    OBVIOUS
  <2>1. \A f \in edits : Rank(edits, f) < n - 1 => m <= f.gap
    BY <1>1, <1>2, <1>11
  <2> QED
    BY <1>10, <1>11, <2>1 DEF Located
<1>14. \A m \in left : e.last < m => was[m] > e.last /\ at[m] = was[m] + shift
  <2> SUFFICES ASSUME NEW m \in left, e.last < m
               PROVE  was[m] > e.last /\ ~(m <= e.gap)
    OBVIOUS
  <2>1. \A f \in edits : Rank(edits, f) < n - 1 /\ Destroys(f) => e.last + 1 <= f.first
    BY <1>1, <1>2
  <2>2. e.last + 1 \in 1 .. m
    BY <1>1, <1>11
  <2>3. e.last + 1 <= was[m]
    BY <1>10, <1>11, <2>1, <2>2 DEF Located
  <2>4. m \in Nat /\ was[m] \in Nat
    BY <1>11, <1>12, <1>9
  <2> QED
    BY <1>1, <2>3, <2>4
<1> HIDE DEF at
<1>15. ASSUME NEW m \in left
       PROVE  at[m] \in 1 .. Len(new.lines) /\ new.lines[at[m]] = section.text.lines[m]
  <2>1. CASE m <= e.gap
    <3>1. at[m] = m /\ was[m] = m /\ m \in 1 .. e.gap
      BY <1>1, <1>9, <1>12, <1>13, <2>1
    <3>2. new.lines[m] = text.lines[m]
      BY <1>8, <3>1
    <3>3. at[m] \in 1 .. Len(new.lines)
      <4>1. m \in 1 .. Len(new.lines)
        BY <1>1, <1>5, <1>7, <1>9, <3>1
      <4> QED
        BY <3>1, <4>1
    <3> QED
      BY <1>12, <3>1, <3>2, <3>3
  <2>2. CASE e.last < m
    <3>1. was[m] \in e.last + 1 .. Len(text.lines) /\ at[m] = was[m] + shift
      BY <1>1, <1>9, <1>12, <1>14, <2>2
    <3>2. new.lines[was[m] + e.gap + Len(e.body) - e.last] = text.lines[was[m]]
      BY <1>8, <3>1
    <3>3. at[m] = was[m] + e.gap + Len(e.body) - e.last
      BY <1>1, <1>9, <3>1
    <3>4. at[m] \in 1 .. Len(new.lines)
      <4> DEFINE w == was[m]
                 gap == e.gap
                 last == e.last
                 more == Len(e.body)
                 length == Len(text.lines)
      <4>1. /\ gap \in Nat /\ last \in Nat /\ more \in Nat /\ length \in Nat
            /\ w \in last + 1 .. length
        BY <1>1, <1>9, <3>1
      <4>2. at[m] = w + gap + more - last /\ Len(new.lines) = gap + more + length - last
        BY <1>7, <3>3
      <4> HIDE DEF w, gap, last, more, length
      <4>3. w + gap + more - last \in 1 .. gap + more + length - last
        BY <4>1
      <4> QED
        BY <4>2, <4>3
    <3> QED
      BY <1>12, <3>2, <3>3, <3>4
  <2> QED
    BY <1>11, <2>1, <2>2
<1>16. ASSUME NEW l \in left, NEW m \in left, l < m
       PROVE  at[l] < at[m]
  <2>0. /\ was[l] \in Nat /\ was[m] \in Nat /\ l \in Nat /\ m \in Nat /\ was[l] < was[m]
        /\ shift \in Int
    BY <1>1, <1>9, <1>10, <1>11, <1>12, <1>16 DEF Located
  <2>1. CASE l <= e.gap /\ m <= e.gap
    BY <1>13, <1>16, <2>1
  <2>2. CASE l <= e.gap /\ e.last < m
    <3>1. at[l] = l /\ at[m] = was[m] + shift /\ was[m] > e.last
      BY <1>13, <1>14, <2>2
    <3> QED
      BY <1>1, <1>9, <2>0, <2>2, <3>1
  <2>3. CASE e.last < l /\ e.last < m
    <3>1. at[l] = was[l] + shift /\ at[m] = was[m] + shift
      BY <1>14, <2>3
    <3> HIDE DEF shift
    <3> QED
      BY <2>0, <3>1
  <2> QED
    BY <1>1, <1>11, <1>16, <2>0, <2>1, <2>2, <2>3
<1>17. ASSUME NEW m \in left, \A f \in edits : Rank(edits, f) < n => m <= f.gap
       PROVE  at[m] = m
  BY <1>1, <1>4, <1>13, <1>17
<1>18. ASSUME NEW m \in left, NEW k \in 1 .. m,
              \A f \in edits : Rank(edits, f) < n /\ Destroys(f) => k <= f.first
       PROVE  k <= at[m]
  <2>0. was[m] \in Nat /\ m \in Nat /\ k \in Nat
    BY <1>9, <1>11, <1>12
  <2>1. CASE m <= e.gap
    BY <1>13, <2>0, <2>1
  <2>2. CASE e.last < m /\ Destroys(e)
    <3>1. k <= e.first
      BY <1>1, <1>4, <1>18, <2>2
    <3>2. was[m] > e.last /\ at[m] = was[m] + shift
      BY <1>14, <2>2
    <3> QED
      BY <1>1, <1>9, <2>0, <3>1, <3>2
  <2>3. CASE e.last < m /\ ~Destroys(e)
    <3>1. e.last = e.gap
      BY <1>1, <2>3 DEF Destroys
    <3>2. \A f \in edits : Rank(edits, f) < n - 1 /\ Destroys(f) => k <= f.first
      BY <1>3, <1>18
    <3>3. k <= was[m]
      BY <1>10, <1>11, <3>2 DEF Located
    <3>4. at[m] = was[m] + shift
      BY <1>14, <2>3
    <3> QED
      BY <1>1, <1>9, <2>0, <3>1, <3>3, <3>4
  <2> QED
    BY <1>11, <2>1, <2>2, <2>3
<1>19. Located(section, edits, n, new, at)
  BY <1>15, <1>16, <1>17, <1>18 DEF Located
<1> QED
  BY <1>19 DEF Carries

\* In what is made of a text every line that no edit names is found, in order.
LEMMA AppliedCarries ==
  ASSUME NEW section \in Sections, NEW edits, EditsOf(section, edits)
  PROVE  Carries(section, edits, Cardinality(edits), ApplyEdits(section.text, edits))
<1> DEFINE N == Cardinality(edits)
<1>1. N \in Nat
  BY FS_CardinalityType DEF EditsOf, Ordered
<1>2. PICK texts : /\ Making(section.text, edits, texts)
                   /\ ApplyEdits(section.text, edits) = Joined(texts[N])
  BY <1>1, TextsMade
<1> DEFINE Good == {n \in 0 .. N : /\ Reaches(section, edits, n, texts[n])
                                  /\ Carries(section, edits, n, texts[n])}
<1>3. 0 \in Good
  <2>1. texts[0] = section.text
    BY <1>1, <1>2 DEF Making
  <2>2. Reaches(section, edits, 0, section.text)
    BY SectionTypes DEF Reaches, LineCount, EditText
  <2>3. Carries(section, edits, 0, section.text)
    <3> DEFINE at == [m \in 1 .. LineCount(section) |-> m]
    <3>1. LineCount(section) \in Nat
      BY SectionTypes
    <3>2. Left(section, edits, 0) \subseteq 1 .. LineCount(section)
      BY DEF Left
    <3>3. Located(section, edits, 0, section.text, at)
      BY <3>1, <3>2 DEF Located, LineCount
    <3> QED
      BY <3>3 DEF Carries
  <2> QED
    BY <1>1, <2>1, <2>2, <2>3
<1>4. ASSUME NEW n \in 0 .. N, n > 0, n - 1 \in Good
      PROVE  n \in Good
  <2>1. texts[n] = Splice(texts[n - 1], InTurn(edits, n))
    BY <1>1, <1>2, <1>4 DEF Making
  <2>2. n \in 1 .. Cardinality(edits)
    BY <1>1, <1>4
  <2>3. Reaches(section, edits, n - 1, texts[n - 1]) /\ Carries(section, edits, n - 1, texts[n - 1])
    BY <1>4
  <2>4. Reaches(section, edits, n, texts[n])
    BY <2>1, <2>2, <2>3, SpliceReaches
  <2>5. Carries(section, edits, n, texts[n])
    BY <2>1, <2>2, <2>3, SpliceCarries
  <2> QED
    BY <2>4, <2>5
<1>5. N \in Good
  <2> HIDE DEF Good, N
  <2>1. \A n \in 0 .. N : n \in Good
    BY <1>1, <1>3, <1>4, UpTo
  <2> QED
    BY <1>1, <2>1
<1> DEFINE last == texts[N]
<1>6. last \in [lines : Seq(Line), newline : BOOLEAN] /\ Carries(section, edits, N, last)
  BY <1>5 DEF Reaches
<1> HIDE DEF last
<1>7. Joined(last).lines = last.lines
  BY <1>6 DEF Joined
<1>8. Carries(section, edits, N, Joined(last))
  BY <1>6, <1>7 DEF Carries, Located
<1> QED
  BY <1>2, <1>8 DEF last

-----------------------------------------------------------------------------
(* The range presented after an edit *)

LEMMA CommonFits ==
  ASSUME NEW S, NEW s \in Seq(S), NEW t \in Seq(S), NEW n, n = Common(s, t)
  PROVE  n \in 0 .. Len(s) /\ n <= Len(t) /\ \A i \in 1 .. n : s[i] = t[i]
<1> DEFINE Shared(k) == k <= Len(t) /\ \A i \in 1 .. k : s[i] = t[i]
           left == {Len(s) - k : k \in {m \in 0 .. Len(s) : Shared(m)}}
<1>1. Len(s) \in Nat /\ Len(t) \in Nat
  OBVIOUS
<1>2. \E most \in 0 .. Len(s) : Shared(most) /\ \A m \in 0 .. Len(s) : Shared(m) => m <= most
  <2>1. left \subseteq Nat
    BY <1>1
  <2>2. Shared(0) /\ 0 \in 0 .. Len(s)
    BY <1>1
  <2>3. left # {}
    <3> HIDE DEF Shared
    <3> QED
      BY <2>2
  <2> HIDE DEF left
  <2>4. PICK least \in left : \A k \in left : least <= k
    BY <2>1, <2>3, LeastOfNaturals
  <2> USE DEF left
  <2> HIDE DEF Shared
  <2>5. PICK most \in 0 .. Len(s) : Shared(most) /\ least = Len(s) - most
    BY <2>4
  <2>6. ASSUME NEW m \in 0 .. Len(s), Shared(m)
        PROVE  m <= most
    <3>1. Len(s) - m \in left
      BY <2>6
    <3>2. least <= Len(s) - m
      BY <2>4, <3>1
    <3> QED
      BY <1>1, <2>5, <3>2
  <2> QED
    BY <2>5, <2>6
<1>3. PICK most \in 0 .. Len(s) : Shared(most) /\ \A m \in 0 .. Len(s) : Shared(m) => m <= most
  BY <1>2
<1>4. most < Len(s) /\ most < Len(t) => s[most + 1] # t[most + 1]
  <2>1. SUFFICES ASSUME most < Len(s), most < Len(t), s[most + 1] = t[most + 1]
                 PROVE  FALSE
    OBVIOUS
  <2>2. most + 1 \in 0 .. Len(s) /\ most + 1 <= Len(t)
    BY <1>1, <2>1
  <2>3. \A i \in 1 .. most + 1 : s[i] = t[i]
    BY <1>3, <2>1
  <2> QED
    BY <1>3, <2>2, <2>3
<1>5. \E k \in 0 .. Len(s) :
        /\ k <= Len(t) /\ \A i \in 1 .. k : s[i] = t[i]
        /\ k < Len(s) /\ k < Len(t) => s[k + 1] # t[k + 1]
  BY <1>3, <1>4
<1> QED
  BY <1>5 DEF Common

LEMMA SameSequence ==
  ASSUME NEW S, NEW s \in Seq(S), NEW t \in Seq(S), Len(s) = Len(t),
         \A i \in 1 .. Len(s) : s[i] = t[i]
  PROVE  s = t
OBVIOUS

LEMMA SameParts ==
  ASSUME NEW S, NEW s \in Seq(S), NEW t \in Seq(S), NEW from \in Nat, NEW start \in Nat,
         NEW size \in Nat, from + size <= Len(s), start + size <= Len(t),
         \A i \in 1 .. size : s[from + i] = t[start + i]
  PROVE  SubSeq(s, from + 1, from + size) = SubSeq(t, start + 1, start + size)
<1> DEFINE left == SubSeq(s, from + 1, from + size)
           right == SubSeq(t, start + 1, start + size)
<1>1. /\ left \in Seq(S) /\ Len(left) = size
      /\ \A i \in 1 .. size : left[i] = s[from + i]
  OBVIOUS
<1>2. /\ right \in Seq(S) /\ Len(right) = size
      /\ \A i \in 1 .. size : right[i] = t[start + i]
  OBVIOUS
<1> HIDE DEF left, right
<1>3. left = right
  BY <1>1, <1>2, SameSequence
<1> QED
  BY <1>3 DEF left, right

LEMMA RestFits ==
  ASSUME NEW S, NEW s \in Seq(S), NEW p \in 0 .. Len(s),
         NEW rest, rest = Reverse(SubSeq(s, p + 1, Len(s)))
  PROVE  /\ rest \in Seq(S) /\ Len(rest) = Len(s) - p
         /\ \A i \in 1 .. Len(s) - p : rest[i] = s[Len(s) - i + 1]
<1> DEFINE part == SubSeq(s, p + 1, Len(s))
<1>1. /\ part \in Seq(S) /\ Len(part) = Len(s) - p /\ Len(s) \in Nat
      /\ \A i \in 1 .. Len(s) - p : part[i] = s[p + i]
  OBVIOUS
<1> HIDE DEF part
<1>2. rest = [i \in 1 .. Len(part) |-> part[Len(part) - i + 1]]
  BY DEF Reverse, part
<1>3. \A i \in 1 .. Len(s) - p : Len(part) - i + 1 \in 1 .. Len(s) - p
  BY <1>1
<1>4. \A i \in 1 .. Len(s) - p : part[Len(part) - i + 1] = s[Len(s) - i + 1]
  BY <1>1, <1>3
<1>5. \A i \in 1 .. Len(s) - p : part[Len(part) - i + 1] \in S
  BY <1>1, <1>3
<1>6. rest \in [1 .. Len(s) - p -> S] /\ Len(s) - p \in Nat
  BY <1>1, <1>2, <1>5
<1>7. rest \in Seq(S) /\ Len(rest) = Len(s) - p
  BY <1>6
<1> QED
  BY <1>1, <1>2, <1>4, <1>7

\* A range of the new lines covers all that differ from the old ones.
Covers(before, after, range) ==
  LET below == Len(after) - range.end
  IN /\ range.start \in 1..Len(after) /\ range.end \in range.start..Len(after)
     /\ SubSeq(after, 1, range.start - 1) = SubSeq(before, 1, range.start - 1)
     /\ below <= Len(before) - (range.start - 1)
     /\ SubSeq(after, range.end + 1, Len(after)) =
          SubSeq(before, Len(before) - below + 1, Len(before))

LEMMA ChangedRangeFits ==
  ASSUME NEW S, NEW before \in Seq(S), NEW after \in Seq(S), after # <<>>
  PROVE  Covers(before, after, ChangedRange(before, after))
<1> DEFINE range == ChangedRange(before, after)
           below == Len(after) - range.end
           p == Common(before, after)
           restB == Reverse(SubSeq(before, p + 1, Len(before)))
           restA == Reverse(SubSeq(after, p + 1, Len(after)))
           q == Common(restB, restA)
           end == Len(after) - q
           least == IF Len(after) > 1 THEN Len(after) ELSE 1
           start == IF p + 1 < least THEN p + 1 ELSE least
           last == IF end > start THEN end ELSE start
<1>1. range = [start |-> start, end |-> last]
  BY DEF ChangedRange
<1>2. Len(before) \in Nat /\ Len(after) \in Nat \ {0}
  OBVIOUS
<1> HIDE DEF p
<1>3. p \in 0 .. Len(before) /\ p <= Len(after) /\ \A i \in 1 .. p : before[i] = after[i]
  BY CommonFits DEF p
<1> HIDE DEF restA, restB
<1>4. /\ restB \in Seq(S) /\ Len(restB) = Len(before) - p
      /\ \A i \in 1 .. Len(before) - p : restB[i] = before[Len(before) - i + 1]
  BY <1>3, RestFits DEF restB
<1>5. /\ restA \in Seq(S) /\ Len(restA) = Len(after) - p
      /\ \A i \in 1 .. Len(after) - p : restA[i] = after[Len(after) - i + 1]
  <2>1. p \in 0 .. Len(after)
    BY <1>2, <1>3
  <2> QED
    BY <2>1, RestFits DEF restA
<1> HIDE DEF q
<1>6. q \in 0 .. Len(restB) /\ q <= Len(restA) /\ \A i \in 1 .. q : restB[i] = restA[i]
  <2>1. restB \in Seq(S) /\ restA \in Seq(S) /\ q = Common(restB, restA)
    BY <1>4, <1>5 DEF q
  <2> QED
    BY <2>1, CommonFits
<1>7. /\ q \in Nat /\ q <= Len(before) - p /\ q <= Len(after) - p
      /\ \A i \in 1 .. q : before[Len(before) - i + 1] = after[Len(after) - i + 1]
  <2>1. q \in Nat /\ q <= Len(before) - p /\ q <= Len(after) - p
    BY <1>2, <1>3, <1>4, <1>5, <1>6
  <2>2. ASSUME NEW i \in 1 .. q
        PROVE  before[Len(before) - i + 1] = after[Len(after) - i + 1]
    <3>1. i \in 1 .. Len(before) - p /\ i \in 1 .. Len(after) - p
      BY <1>2, <1>3, <2>1
    <3> QED
      BY <1>4, <1>5, <1>6, <3>1
  <2> QED
    BY <2>1, <2>2
<1>8. /\ start \in 1 .. Len(after) /\ start <= p + 1 /\ last \in start .. Len(after)
      /\ last >= Len(after) - q
  BY <1>2, <1>3, <1>7
<1> HIDE DEF start, last
<1>9. range.start = start /\ range.end = last /\ below = Len(after) - last
  BY <1>1
<1> HIDE DEF range
<1>10. below \in Nat /\ below <= q /\ below <= Len(before) - (start - 1)
  BY <1>2, <1>3, <1>7, <1>8, <1>9
<1>11. SubSeq(after, 1, start - 1) = SubSeq(before, 1, start - 1)
  <2> DEFINE k == start - 1
  <2>1. k \in Nat /\ 0 + k <= Len(after) /\ 0 + k <= Len(before) /\ k <= p
    BY <1>2, <1>3, <1>8
  <2> HIDE DEF k
  <2>2. \A i \in 1 .. k : after[0 + i] = before[0 + i]
    BY <1>3, <2>1
  <2>3. SubSeq(after, 0 + 1, 0 + k) = SubSeq(before, 0 + 1, 0 + k)
    BY <2>1, <2>2, SameParts
  <2>4. 0 + 1 = 1 /\ 0 + k = k
    BY <2>1
  <2> QED
    BY <2>3, <2>4 DEF k
<1>12. SubSeq(after, last + 1, Len(after)) = SubSeq(before, Len(before) - below + 1, Len(before))
  <2> DEFINE from == Len(before) - below
  <2>1. /\ last \in Nat /\ from \in Nat /\ below \in Nat
        /\ last + below = Len(after) /\ from + below = Len(before)
    BY <1>2, <1>3, <1>7, <1>8, <1>9, <1>10
  <2>2. ASSUME NEW i \in 1 .. below
        PROVE  after[last + i] = before[from + i]
    <3> DEFINE j == below - i + 1
    <3>1. i \in Int /\ 1 <= i /\ i <= below /\ below \in Int /\ below <= q /\ q \in Int
      BY <1>7, <1>10
    <3>2. j \in Int /\ 1 <= j /\ j <= q
      BY <3>1
    <3>3. Len(before) - j + 1 = from + i
      BY <1>2, <3>1
    <3>4. Len(after) - j + 1 = last + i
      <4>1. /\ last \in Int /\ Len(after) \in Int /\ Len(after) = last + below
            /\ below \in Int /\ i \in Int
        BY <1>2, <2>1, <3>1
      <4> HIDE DEF from
      <4> QED
        BY <4>1
    <3> HIDE DEF j, from
    <3>5. j \in 1 .. q
      BY <1>7, <3>2
    <3>6. before[Len(before) - j + 1] = after[Len(after) - j + 1]
      BY <1>7, <3>5
    <3> QED
      BY <3>3, <3>4, <3>6
  <2> HIDE DEF from
  <2>3. SubSeq(after, last + 1, last + below) = SubSeq(before, from + 1, from + below)
    BY <1>2, <2>1, <2>2, SameParts
  <2> QED
    BY <2>1, <2>3 DEF from
<1> QED
  BY <1>8, <1>9, <1>10, <1>11, <1>12 DEF Covers, range

-----------------------------------------------------------------------------
(* The invariant *)

\* What is known of the section applied last
Kept ==
  count > 0 => /\ applied.section \in Sections
               /\ EditsOf(applied.section, applied.edits)
               /\ applied.text = ApplyEdits(applied.section.text, applied.edits)

LinesInv == PlanTypeOK /\ Kept

LEMMA InitialInvariant ==
  ASSUME PlanInit
  PROVE  LinesInv
<1>1. slots \in Registers
  BY StoredAssumption DEF PlanInit, Registers
<1>2. count = 0 /\ 0 \in 0 .. MaxSections
  BY MaxSectionsAssumption DEF PlanInit
<1>3. applied.text = [lines |-> <<>>, newline |-> FALSE]
  BY DEF PlanInit, Nothing
<1>4. applied.text \in EditText
  BY <1>3 DEF EditText
<1>5. PlanTypeOK
  BY <1>1, <1>2, <1>4 DEF PlanTypeOK, PlanInit, Registers
<1>6. Kept
  BY <1>2 DEF Kept
<1> QED
  BY <1>5, <1>6 DEF LinesInv

LEMMA ApplyKeepsInvariant ==
  ASSUME LinesInv, NEW section \in Sections, Apply(section)
  PROVE  LinesInv'
<1> DEFINE performed == Performed(section, slots)
<1>1. /\ slots \in Registers /\ count \in 0 .. MaxSections
      /\ MaxSections \in Nat
  BY MaxSectionsAssumption DEF LinesInv, PlanTypeOK, Registers
<1>2. /\ Resolved(section) /\ count < MaxSections /\ outcome = "planning"
      /\ slots' = performed.registers /\ count' = count + 1 /\ outcome' = outcome
      /\ applied' = [section |-> section, edits |-> performed.edits,
                     text |-> ApplyEdits(section.text, performed.edits)]
  BY DEF Apply
<1>3. performed.registers \in Registers
  BY <1>1, <1>2, PerformedStands DEF Stands
<1>4. EditsOf(section, performed.edits)
  BY <1>1, <1>2, PerformedEdits
<1> HIDE DEF performed
<1>5. ApplyEdits(section.text, performed.edits) \in EditText
  BY <1>1, <1>4, AppliedIsText
<1>6. /\ applied'.section = section /\ applied'.edits = performed.edits
      /\ applied'.text = ApplyEdits(section.text, performed.edits)
  BY <1>2
<1>7. count' \in 0 .. MaxSections
  BY <1>1, <1>2
<1>8. PlanTypeOK'
  BY <1>2, <1>3, <1>5, <1>6, <1>7 DEF PlanTypeOK, Registers
<1>9. Kept'
  BY <1>4, <1>6 DEF Kept
<1> QED
  BY <1>8, <1>9 DEF LinesInv

LEMMA RefuseKeepsInvariant ==
  ASSUME LinesInv, NEW section \in Sections, RefuseSection(section)
  PROVE  LinesInv'
BY DEF RefuseSection, LinesInv, PlanTypeOK, Kept

\* Sections resolved and applied one after the other keep what is known of them.
THEOREM LinesInvHolds == PlanSpec => []LinesInv
<1>1. PlanInit => LinesInv
  BY InitialInvariant
<1>2. LinesInv /\ [PlanNext]_planVars => LinesInv'
  <2>1. ASSUME LinesInv, PlanNext
        PROVE  LinesInv'
    BY <2>1, ApplyKeepsInvariant, RefuseKeepsInvariant DEF PlanNext
  <2>2. ASSUME LinesInv, UNCHANGED planVars
        PROVE  LinesInv'
    BY <2>2 DEF planVars, LinesInv, PlanTypeOK, Kept
  <2> QED
    BY <2>1, <2>2
<1> QED
  BY <1>1, <1>2, PTL DEF PlanSpec

\* An edit leaves texts: no place is past the end of the lines it is made in,
\* whatever was made before it (hashline_apply.rs:69-86), a register holds a
\* text or nothing, and a text without lines has no last newline.
THEOREM LinesAreTexts == PlanSpec => []PlanTypeOK
<1>1. LinesInv => PlanTypeOK
  BY DEF LinesInv
<1> QED
  BY <1>1, LinesInvHolds, PTL

\* A line that was not shown as it is stays, and in its place among the
\* others of its kind, however many operations are made around it: the places
\* of the edits lie before all that was spliced (hashline_apply.rs:69-86), and
\* what an edit removes was shown (hashline_locator.rs:72-149).
THEOREM WhatWasNotShownStays == PlanSpec => []UnshownLinesSurvive
<1>1. LinesInv => UnshownLinesSurvive
  <2> DEFINE section == applied.section
             edits == applied.edits
             after == applied.text.lines
             unshown == {n \in DOMAIN section.text.lines : section.observed[n] # section.text.lines[n]}
             Kin(f) == /\ \A m, n \in unshown : m < n => f[m] < f[n]
                       /\ \A n \in unshown : after[f[n]] = section.text.lines[n]
  <2> SUFFICES ASSUME LinesInv, count > 0
               PROVE  \E at \in [unshown -> DOMAIN after] : Kin(at)
    BY DEF UnshownLinesSurvive, Original
  <2>1. /\ section \in Sections /\ EditsOf(section, edits)
        /\ applied.text = ApplyEdits(section.text, edits)
    BY DEF LinesInv, Kept
  <2>2. after \in Seq(Line)
    BY DEF LinesInv, PlanTypeOK, EditText
  <2>3. DOMAIN section.text.lines = 1 .. LineCount(section) /\ LineCount(section) \in Nat
    BY <2>1, SectionTypes
  <2> DEFINE N == Cardinality(edits)
  <2>4. PICK f : Located(section, edits, N, applied.text, f)
    BY <2>1, AppliedCarries DEF Carries
  <2> HIDE DEF section, edits
  <2>5. unshown \subseteq Left(section, edits, N)
    <3> SUFFICES ASSUME NEW m \in unshown, NEW e \in edits
                 PROVE  m < e.first \/ e.last < m
      BY <2>3 DEF Left
    <3>1. /\ e.first \in Nat /\ e.last \in Nat
          /\ \A line \in e.first .. e.last : section.observed[line] = section.text.lines[line]
      BY <2>1, <2>3 DEF EditsOf, Fits
    <3>2. m \in Nat /\ m \notin e.first .. e.last
      BY <2>3, <3>1
    <3> QED
      BY <3>1, <3>2
  <2> HIDE DEF after
  <2> DEFINE at == [m \in unshown |-> f[m]]
  <2>6. \A m \in unshown : f[m] \in 1 .. Len(after) /\ after[f[m]] = section.text.lines[m]
    BY <2>4, <2>5 DEF Located, after
  <2>7. \A m, n \in unshown : m < n => f[m] < f[n]
    BY <2>4, <2>5 DEF Located
  <2>8. DOMAIN after = 1 .. Len(after)
    BY <2>2
  <2> HIDE DEF unshown
  <2>9. at \in [unshown -> DOMAIN after] /\ Kin(at)
    BY <2>6, <2>7, <2>8
  <2> QED
    BY <2>9
<1> QED
  BY <1>1, LinesInvHolds, PTL

\* The range presented after an edit is one of the new text, and outside of
\* it the lines are those the file had (changed_range, hashline_plan.rs).
THEOREM WhatChangedIsPresented == PlanSpec => []ChangedRangeCoversTheChange
<1>1. LinesInv => ChangedRangeCoversTheChange
  <2>1. SUFFICES ASSUME LinesInv, count > 0, applied.text.lines # <<>>
                 PROVE  ChangedRangeCoversTheChange
    BY DEF ChangedRangeCoversTheChange
  <2>2. Original.lines \in Seq(Line)
    BY <2>1, SectionTypes DEF LinesInv, Kept, Original
  <2>3. applied.text.lines \in Seq(Line) /\ applied.text.lines # <<>>
    BY <2>1 DEF LinesInv, PlanTypeOK, EditText
  <2>4. Covers(Original.lines, applied.text.lines,
               ChangedRange(Original.lines, applied.text.lines))
    BY <2>2, <2>3, ChangedRangeFits
  <2> QED
    BY <2>4 DEF ChangedRangeCoversTheChange, Covers
<1> QED
  BY <1>1, LinesInvHolds, PTL
=============================================================================
