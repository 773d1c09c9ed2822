------------------------- MODULE WorkspaceMutations -------------------------
(***************************************************************************)
(* Workspace sessions changing the files of one root: reads, whole-file    *)
(* creates, replacements, deletions and moves (file_read.rs,               *)
(* file_mutations.rs, write.rs) running on worker threads under the write  *)
(* guard of mod.rs, with cancellation, session close, failing file         *)
(* operations and writers outside Ovid.                                    *)
(*                                                                         *)
(* A step of a worker is what it does between two accesses to state others *)
(* can change.  ensure_open of observations() runs just before the ledger  *)
(* mutex is taken: a worker whose session was open at its previous step    *)
(* and is closed now may have checked before or after the close, so it may *)
(* still use the ledger or answer Closed.  A worker that can see its        *)
(* session closed before it gets there will find it closed there, and is   *)
(* answered at once.                                                       *)
(***************************************************************************)
EXTENDS Ledger

CONSTANTS
  Session,    \* workspace sessions of the root, in one or several processes
  Worker,     \* worker threads
  Home,       \* the session each worker works for
  Absent,     \* no file at a path
  Free,       \* nobody holds a lock
  Limits,     \* the retention limits of the sessions' policies
  FirstDisk,  \* what is on disk before any session opens
  MaxCalls,   \* bound on the number of calls made
  MaxForeign  \* bound on the number of writes by programs outside Ovid

ASSUME HomeAssumption == Home \in [Worker -> Session]
ASSUME PathAssumption == Path # {}
ASSUME DiskAssumption ==
  /\ Absent \notin Text
  /\ Free \notin Worker
  /\ FirstDisk \subseteq [Path -> Text \cup {Absent}]
ASSUME BoundAssumption ==
  Limits \in Retention /\ MaxCalls \in Nat /\ MaxForeign \in Nat

VARIABLES
  disk,         \* the file at each path
  closed,       \* WorkspaceState.closed of each session
  ledger,       \* WorkspaceState.observations of each session
  generation,   \* WorkspaceState.file_generations of each session
  revision,     \* WorkspaceState.revision of each session
  coordinator,  \* the worker holding each session's write_coordinator
  flock,        \* the worker holding the root's lock file
  pc,           \* where each worker is
  call,         \* the call each worker is making
  calls,        \* calls made so far
  foreign,      \* foreign writes made so far
  shown,        \* history: texts shown whole to each session
  landings      \* history: changes carried out in full for each session

sessionVars == <<closed, ledger, generation, revision>>
lockVars == <<coordinator, flock>>
vars == <<disk, sessionVars, lockVars, pc, call, calls, foreign, shown, landings>>

\* What a call is answered: success, or the WorkspaceError it failed with
Answer == {"none", "ok", "closed", "cancelled", "missing", "unreadable", "stale", "write",
           "partial", "not_found", "collision", "changed", "unseen"}

Op == {"read", "create", "replace", "delete", "move"}

\* One call: its request, what the worker has learned and done so far, and
\* its answer.  Fields that do not apply hold Absent.
Call == [op : Op, path : Path, destination : Path \cup {Absent},
         tag : Tag \cup {Absent}, base : Text \cup {Absent},
         after : Text \cup {Absent}, generation : Nat, cancelled : BOOLEAN,
         landed : SUBSET Path, changes : SUBSET Path, result : Answer]

Request(op, path, destination, tag, after) ==
  [op |-> op, path |-> path, destination |-> destination, tag |-> tag,
   base |-> Absent, after |-> after, generation |-> 0, cancelled |-> FALSE,
   landed |-> {}, changes |-> {}, result |-> "none"]

Requests ==
       {Request("read", p, Absent, Absent, Absent) : p \in Path}
  \cup {Request("create", p, Absent, Absent, text) : p \in Path, text \in Text}
  \cup {Request("replace", p, Absent, tag, text) : p \in Path, tag \in Tag, text \in Text}
  \cup {Request("delete", p, Absent, Absent, Absent) : p \in Path}
  \cup {Request("move", pq[1], pq[2], Absent, Absent) :
          pq \in {r \in Path \X Path : r[1] # r[2]}}

Idle == Request("read", CHOOSE p \in Path : TRUE, Absent, Absent, Absent)

Init ==
  /\ disk \in FirstDisk
  /\ closed = [s \in Session |-> FALSE]
  /\ ledger = [s \in Session |-> EmptyLedger]
  /\ generation = [s \in Session |-> [p \in Path |-> 1]]
  /\ revision = [s \in Session |-> 1]
  /\ coordinator = [s \in Session |-> Free]
  /\ flock = Free
  /\ pc = [w \in Worker |-> "idle"]
  /\ call = [w \in Worker |-> Idle]
  /\ calls = 0
  /\ foreign = 0
  /\ shown = [s \in Session |-> {}]
  /\ landings = [s \in Session |-> 0]

-----------------------------------------------------------------------------
(* What the steps share *)

\* The worker goes on at a step, having learned more about its call.
Goto(w, next, now) == pc' = [pc EXCEPT ![w] = next] /\ call' = [call EXCEPT ![w] = now]

\* The call has its answer; the worker returns it.
AnswerWith(w, now, result) == Goto(w, "return", [now EXCEPT !.result = result])

\* The call ends here and the worker changes nothing more.
Refuse(w, result) ==
  /\ AnswerWith(w, call[w], result)
  /\ UNCHANGED <<disk, sessionVars, shown, landings>>

KeepLocks == UNCHANGED <<lockVars, calls, foreign>>

\* The change of w's call is on disk: it remains to mark it.
Landed(w, paths) ==
  /\ Goto(w, "mark", [call[w] EXCEPT !.landed = @ \cup paths])
  /\ landings' = [landings EXCEPT ![Home[w]] = @ + 1]
  /\ UNCHANGED <<sessionVars, shown>>

\* Lines that fit the bytes a presentation may render: all or the first
\* (bounded_render, normalize_read_ranges).
Renderings(text) == {DOMAIN text} \cup {{1} \cap DOMAIN text}

\* Present text to the session of w through its ledger.
Present(w, path, text, at, rendered) ==
  LET s == Home[w]
      complete == rendered = DOMAIN text
  IN /\ ledger' = [ledger EXCEPT ![s] =
                     RecordIn(@, path, text, at, rendered, complete, Limits)]
     /\ shown' = IF complete THEN [shown EXCEPT ![s] = @ \cup {<<path, text>>}] ELSE shown

-----------------------------------------------------------------------------
(* Calls and locks *)

\* A caller makes a request.  Only create asks for cancellation this early.
Begin(w) ==
  /\ pc[w] = "idle" /\ calls < MaxCalls
  /\ \E request \in Requests : \E cancelled \in {FALSE, request.op = "create"} :
       LET now == [request EXCEPT !.cancelled = cancelled] IN
       IF closed[Home[w]] THEN AnswerWith(w, now, "closed")
       ELSE CASE request.op = "read" -> Goto(w, "read", now)
              [] request.op = "create" /\ cancelled -> AnswerWith(w, now, "cancelled")
              [] OTHER -> Goto(w, "coordinator", now)
  /\ calls' = calls + 1
  /\ UNCHANGED <<disk, sessionVars, lockVars, foreign, shown, landings>>

\* write_guard: first the session's coordinator, then the lock file shared
\* by all sessions of the root, which may not open or refuse to be locked.
\* Whether the session is still open by then is not asked again.
LockCoordinator(w) ==
  /\ pc[w] = "coordinator" /\ coordinator[Home[w]] = Free
  /\ coordinator' = [coordinator EXCEPT ![Home[w]] = w]
  /\ Goto(w, "flock", call[w]) \/ AnswerWith(w, call[w], "write")
  /\ UNCHANGED <<disk, sessionVars, flock, calls, foreign, shown, landings>>

\* Mutant: the lock file is locked for sharing.
LockWorkspaceShared(w) ==
  /\ pc[w] = "flock"
  /\ flock' = w
  /\ Goto(w, IF call[w].op = "create" THEN "create" ELSE "load", call[w])
  /\ UNCHANGED <<disk, sessionVars, coordinator, calls, foreign, shown, landings>>

\* The lock file is waited for, however long.
LockWorkspace(w) ==
  /\ pc[w] = "flock" /\ flock = Free
  /\ flock' = w
  /\ Goto(w, IF call[w].op = "create" THEN "create" ELSE "load", call[w])
  /\ UNCHANGED <<disk, sessionVars, coordinator, calls, foreign, shown, landings>>

\* Mutant: a failed call keeps the lock file.
ReturnFailedHolding(w) ==
  /\ pc[w] = "return"
  /\ coordinator' = [s \in Session |-> IF coordinator[s] = w THEN Free ELSE coordinator[s]]
  /\ flock' = IF flock = w /\ call[w].result = "ok" THEN Free ELSE flock
  /\ Goto(w, "idle", Idle)
  /\ UNCHANGED <<disk, sessionVars, calls, foreign, shown, landings>>

\* The call returns and its guard, if it has one, is dropped.
Return(w) ==
  /\ pc[w] = "return"
  /\ coordinator' = [s \in Session |-> IF coordinator[s] = w THEN Free ELSE coordinator[s]]
  /\ flock' = IF flock = w THEN Free ELSE flock
  /\ Goto(w, "idle", Idle)
  /\ UNCHANGED <<disk, sessionVars, calls, foreign, shown, landings>>

-----------------------------------------------------------------------------
(* Reading: no lock is held from the content to the record *)

\* A file too large to be observed is read without a record.
ReadContent(w) ==
  LET text == disk[call[w].path] IN
  /\ pc[w] = "read" /\ KeepLocks
  /\ \/ text = Absent /\ Refuse(w, "missing")
     \/ text # Absent /\ \E result \in {"unreadable", "ok"} : Refuse(w, result)
     \/ /\ text # Absent
        /\ Goto(w, "generation", [call[w] EXCEPT !.base = text])
        /\ UNCHANGED <<disk, sessionVars, shown, landings>>

ReadGeneration(w) ==
  /\ pc[w] = "generation" /\ KeepLocks
  /\ IF closed[Home[w]] THEN Refuse(w, "closed")
     ELSE /\ Goto(w, "record",
                  [call[w] EXCEPT !.generation = generation[Home[w]][call[w].path]])
          /\ UNCHANGED <<disk, sessionVars, shown, landings>>

RecordRead(w) ==
  /\ pc[w] = "record" /\ KeepLocks
  /\ \/ closed[Home[w]] /\ Refuse(w, "closed")
     \/ /\ \E rendered \in Renderings(call[w].base) :
             Present(w, call[w].path, call[w].base, call[w].generation, rendered)
        /\ AnswerWith(w, call[w], "ok")
        /\ UNCHANGED <<disk, closed, generation, revision, landings>>

-----------------------------------------------------------------------------
(* Changing: load, authorize, land, mark, present the result *)

\* load_current, which may fail to read the file, find it too large or not
\* to be text; every change but a move asks for cancellation before it.
Load(w) ==
  LET text == disk[call[w].path] IN
  /\ pc[w] = "load" /\ KeepLocks
  /\ IF call[w].cancelled /\ call[w].op # "move" THEN Refuse(w, "cancelled")
     ELSE IF text = Absent THEN Refuse(w, "missing")
     ELSE \/ Refuse(w, "unreadable")
          \/ closed[Home[w]] /\ Refuse(w, "closed")
          \/ /\ ~closed[Home[w]]
             /\ Goto(w, "authorize", [call[w] EXCEPT !.base = text])
             /\ UNCHANGED <<disk, sessionVars, shown, landings>>

LandingStep(op) ==
  CASE op = "replace" -> "verify" [] op = "delete" -> "remove" [] OTHER -> "link"

\* Mutant: a partial observation is as good as a whole one.
AuthorizeIncomplete(w) ==
  LET c == call[w]
      s == Home[w]
      key == <<c.path, c.base>>
      result == IF c.op = "replace" THEN ResolveResult(ledger[s], c.path, c.tag, c.base)
                ELSE CurrentResult(ledger[s], c.path, c.base)
  IN /\ pc[w] = "authorize" /\ KeepLocks
     /\ \/ closed[s] /\ Refuse(w, "closed")
        \/ /\ ledger' = [ledger EXCEPT ![s] = AfterResult(@, key, result)]
           /\ IF result # "granted" THEN AnswerWith(w, c, result)
              ELSE IF c.cancelled THEN AnswerWith(w, c, "cancelled")
              ELSE Goto(w, LandingStep(c.op), c)
           /\ UNCHANGED <<disk, closed, generation, revision, shown, landings>>

\* The observation must be that of the loaded text and must be complete; a
\* replacement names it by its tag.  Cancellation is asked for a last time.
Authorize(w) ==
  LET c == call[w]
      s == Home[w]
      key == <<c.path, c.base>>
      result == IF c.op = "replace" THEN ResolveResult(ledger[s], c.path, c.tag, c.base)
                ELSE CurrentResult(ledger[s], c.path, c.base)
  IN /\ pc[w] = "authorize" /\ KeepLocks
     /\ \/ closed[s] /\ Refuse(w, "closed")
        \/ /\ ledger' = [ledger EXCEPT ![s] = AfterResult(@, key, result)]
           /\ IF result # "granted" THEN AnswerWith(w, c, result)
              ELSE IF ~ledger[s].entries[key].complete THEN AnswerWith(w, c, "unseen")
              ELSE IF c.cancelled THEN AnswerWith(w, c, "cancelled")
              ELSE Goto(w, LandingStep(c.op), c)
           /\ UNCHANGED <<disk, closed, generation, revision, shown, landings>>

\* atomic_replace_path reads the file once more, which may fail ...
Verify(w) ==
  /\ pc[w] = "verify" /\ KeepLocks
  /\ \/ \E result \in {"stale", "unreadable"} : Refuse(w, result)
     \/ /\ disk[call[w].path] = call[w].base
        /\ Goto(w, "persist", call[w])
        /\ UNCHANGED <<disk, sessionVars, shown, landings>>

\* Mutant: cancellation is asked for once more when the file is in place.
PersistThenAsk(w) ==
  /\ pc[w] = "persist" /\ KeepLocks
  /\ disk' = [disk EXCEPT ![call[w].path] = call[w].after]
  /\ IF call[w].cancelled
     THEN /\ AnswerWith(w, [call[w] EXCEPT !.landed = {call[w].path}], "cancelled")
          /\ UNCHANGED <<sessionVars, shown, landings>>
     ELSE Landed(w, {call[w].path})

\* ... and renames the prepared file over whatever is there by then.
Persist(w) ==
  /\ pc[w] = "persist" /\ KeepLocks
  /\ \/ Refuse(w, "write")
     \/ /\ disk' = [disk EXCEPT ![call[w].path] = call[w].after]
        /\ Landed(w, {call[w].path})

\* create_text_file up to persist_noclobber
Create(w) ==
  /\ pc[w] = "create" /\ KeepLocks
  /\ \/ call[w].cancelled /\ Refuse(w, "cancelled")
     \/ ~call[w].cancelled /\ Refuse(w, "write")
     \/ /\ ~call[w].cancelled /\ disk[call[w].path] = Absent
        /\ disk' = [disk EXCEPT ![call[w].path] = call[w].after]
        /\ Landed(w, {call[w].path})

\* delete_text_file removes the path, whatever is there by then.
Remove(w) ==
  /\ pc[w] = "remove" /\ KeepLocks
  /\ \/ Refuse(w, "write")
     \/ /\ disk[call[w].path] # Absent
        /\ disk' = [disk EXCEPT ![call[w].path] = Absent]
        /\ Landed(w, {call[w].path})

\* move_file_noclobber links the file at its destination ...
Link(w) ==
  LET c == call[w] IN
  /\ pc[w] = "link" /\ KeepLocks
  /\ \/ Refuse(w, "write")
     \/ /\ disk[c.path] # Absent /\ disk[c.destination] = Absent
        /\ disk' = [disk EXCEPT ![c.destination] = disk[c.path]]
        /\ Goto(w, "unlink", [c EXCEPT !.landed = {c.destination}])
        /\ UNCHANGED <<sessionVars, shown, landings>>

\* Mutant: the new name is removed instead of the old one.
UnlinkDestination(w) ==
  /\ pc[w] = "unlink" /\ KeepLocks
  /\ disk' = [disk EXCEPT ![call[w].destination] = Absent]
  /\ Landed(w, {call[w].path})

\* Mutant: the new name is removed when the old one cannot be, and the answer
\* is still that of a file at both.
UnlinkOrUndo(w) ==
  /\ pc[w] = "unlink" /\ KeepLocks
  /\ \/ /\ disk' = [disk EXCEPT ![call[w].destination] = Absent]
        /\ AnswerWith(w, call[w], "partial")
        /\ UNCHANGED <<sessionVars, shown, landings>>
     \/ /\ disk[call[w].path] # Absent
        /\ disk' = [disk EXCEPT ![call[w].path] = Absent]
        /\ Landed(w, {call[w].path})

\* ... and removes the source; when that fails the call is a PartialCommit
\* without changes.
Unlink(w) ==
  /\ pc[w] = "unlink" /\ KeepLocks
  /\ \/ Refuse(w, "partial")
     \/ /\ disk[call[w].path] # Absent
        /\ disk' = [disk EXCEPT ![call[w].path] = Absent]
        /\ Landed(w, {call[w].path})

\* The path whose generation a change advances and whose text it presents
Target(c) == IF c.op = "move" THEN c.destination ELSE c.path
Result(c) == IF c.op = "move" THEN c.base ELSE c.after

\* Mutant: only the generation of the file advances.
MarkFileOnly(w) ==
  LET c == call[w]
      s == Home[w]
      now == [c EXCEPT !.generation = generation[s][Target(c)] + 1,
                       !.changes = {c.path, Target(c)}]
  IN /\ pc[w] = "mark" /\ KeepLocks
     /\ generation' = [generation EXCEPT ![s][Target(c)] = @ + 1]
     /\ IF c.op = "delete" THEN AnswerWith(w, now, "ok") ELSE Goto(w, "present", now)
     /\ UNCHANGED <<disk, closed, ledger, revision, shown, landings>>

\* Mutant: every path of the change is marked.
MarkEachPath(w) ==
  LET c == call[w]
      s == Home[w]
      now == [c EXCEPT !.generation = generation[s][Target(c)] + 1,
                       !.changes = {c.path, Target(c)}]
  IN /\ pc[w] = "mark" /\ KeepLocks
     /\ generation' = [generation EXCEPT ![s][Target(c)] = @ + 1]
     /\ revision' = [revision EXCEPT ![s] = @ + Cardinality(now.changes)]
     /\ IF c.op = "delete" THEN AnswerWith(w, now, "ok") ELSE Goto(w, "present", now)
     /\ UNCHANGED <<disk, closed, ledger, shown, landings>>

\* mark_file_changed, and the answer of a delete
Mark(w) ==
  LET c == call[w]
      s == Home[w]
      now == [c EXCEPT !.generation = generation[s][Target(c)] + 1,
                       !.changes = {c.path, Target(c)}]
  IN /\ pc[w] = "mark" /\ KeepLocks
     /\ generation' = [generation EXCEPT ![s][Target(c)] = @ + 1]
     /\ revision' = [revision EXCEPT ![s] = @ + 1]
     /\ IF c.op = "delete" THEN AnswerWith(w, now, "ok") ELSE Goto(w, "present", now)
     /\ UNCHANGED <<disk, closed, ledger, shown, landings>>

\* record_post_edit: the lines of the new text that fit are presented, none
\* if it is too large to be observed, and the call succeeds; a session closed
\* by now fails the call although its change landed.
PresentResult(w) ==
  LET c == call[w] IN
  /\ pc[w] = "present" /\ KeepLocks
  /\ \/ Refuse(w, "ok")
     \/ closed[Home[w]] /\ Refuse(w, "closed")
     \/ /\ \E rendered \in Renderings(Result(c)) :
             Present(w, Target(c), Result(c), c.generation, rendered)
        /\ AnswerWith(w, c, "ok")
        /\ UNCHANGED <<disk, closed, generation, revision, landings>>

-----------------------------------------------------------------------------
(* Everybody else *)

\* The caller cancels a change at any time; past its last look it is too late.
Cancel(w) ==
  /\ pc[w] \notin {"idle", "return", "read", "generation", "record"}
  /\ ~call[w].cancelled
  /\ call' = [call EXCEPT ![w].cancelled = TRUE]
  /\ UNCHANGED <<disk, sessionVars, lockVars, pc, calls, foreign, shown, landings>>

\* Workspace::close waits for nobody.
Close(s) ==
  /\ ~closed[s]
  /\ closed' = [closed EXCEPT ![s] = TRUE]
  /\ UNCHANGED <<disk, ledger, generation, revision, lockVars, pc, call, calls,
                 foreign, shown, landings>>

\* A program outside Ovid replaces or removes a file; it knows no locks.
ForeignWrite ==
  /\ foreign < MaxForeign
  /\ foreign' = foreign + 1
  /\ \E path \in Path, file \in Text \cup {Absent} : disk' = [disk EXCEPT ![path] = file]
  /\ UNCHANGED <<sessionVars, lockVars, pc, call, calls, shown, landings>>

\* What a worker does once it has a call.
Step(w) ==
  \/ LockCoordinator(w) \/ LockWorkspace(w) \/ Return(w)
  \/ ReadContent(w) \/ ReadGeneration(w) \/ RecordRead(w)
  \/ Load(w) \/ Authorize(w) \/ Verify(w) \/ Persist(w) \/ Create(w) \/ Remove(w)
  \/ Link(w) \/ Unlink(w) \/ Mark(w) \/ PresentResult(w)

Next ==
  \/ \E w \in Worker : Begin(w) \/ Step(w) \/ Cancel(w)
  \/ \E s \in Session : Close(s)
  \/ ForeignWrite

\* A worker that can go on does: threads are scheduled and file operations
\* return.  Locks are not fair, but only finitely many calls compete.
Spec == Init /\ [][Next]_vars /\ \A w \in Worker : WF_vars(Step(w))
-----------------------------------------------------------------------------
(* Properties *)

Steps == {"idle", "return", "coordinator", "flock", "read", "generation", "record",
          "load", "authorize", "verify", "persist", "create", "remove", "link",
          "unlink", "mark", "present"}

TypeOK ==
  /\ disk \in [Path -> Text \cup {Absent}]
  /\ closed \in [Session -> BOOLEAN]
  /\ \A s \in Session : /\ DOMAIN ledger[s].entries \subseteq Key
                        /\ \A k \in DOMAIN ledger[s].entries : ledger[s].entries[k] \in Entry
  /\ generation \in [Session -> [Path -> Nat \ {0}]]
  /\ revision \in [Session -> Nat \ {0}]
  /\ coordinator \in [Session -> Worker \cup {Free}]
  /\ flock \in Worker \cup {Free}
  /\ pc \in [Worker -> Steps]
  /\ call \in [Worker -> Call]
  /\ calls \in 0..MaxCalls /\ foreign \in 0..MaxForeign
  /\ shown \in [Session -> SUBSET Key]
  /\ landings \in [Session -> Nat]

\* While a change is between its load and its answer, nobody else changes
\* the files it works on, in this session or another: the text it loaded
\* stays until its own change, and that change stays until it has been
\* presented.
GuardKeepsFiles ==
  foreign = 0 => \A w \in Worker :
    /\ pc[w] \in {"authorize", "verify", "persist", "remove", "link", "unlink"} =>
         disk[call[w].path] = call[w].base
    /\ pc[w] \in {"mark", "present"} => disk[Target(call[w])] = Result(call[w])

\* A refused call leaves the files alone: whatever the answer, cancelled
\* and stale included, nothing of it landed unless the call succeeded, was a
\* move that lost its source, or found its session closed after it landed.
RefusedCallsLeaveNoTrace ==
  \A w \in Worker :
    pc[w] = "return" /\ call[w].result \notin {"ok", "partial", "closed"} =>
      call[w].landed = {}

\* When no change is under way, a session's revision has advanced once for
\* each of its changes carried out in full and for nothing else.
RevisionCountsChanges ==
  flock = Free => \A s \in Session : revision[s] = 1 + landings[s]

\* A move answered as a partial commit says that its destination landed, and
\* until it has been answered the file is at both names, as it was loaded,
\* whatever the other sessions do.
PartialMovesKeepBoth ==
  \A w \in Worker :
    LET c == call[w] IN
    pc[w] = "return" /\ c.result = "partial" =>
      /\ c.landed = {c.destination}
      /\ foreign = 0 => disk[c.path] = c.base /\ disk[c.destination] = c.base

\* Whoever kept an earlier revision of a session learns of every change it
\* made, whatever else was refused, cancelled or closed meanwhile, and of
\* nothing else; what a move left undone its answer names
\* (file_mutations.rs:55-77, mod.rs:208-218, write.rs:196-212).
ChangesAreAccountedFor ==
  RefusedCallsLeaveNoTrace /\ RevisionCountsChanges /\ PartialMovesKeepBoth

\* Every call is answered, in spite of the other calls, sessions, closes and
\* cancellations: no path out of a change keeps a lock.
EveryCallIsAnswered == \A w \in Worker : (pc[w] # "idle") ~> (pc[w] = "idle")

Guarded == INSTANCE GuardedDisk WITH outside <- foreign

\* Changes by several sessions are atomic on the files and overwrite or
\* remove only what their session was shown whole, as long as no program
\* outside writes.
ImplementsGuardedDisk == Guarded!GSpec
=============================================================================
