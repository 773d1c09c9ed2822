----------------------------- MODULE AstRewrite -----------------------------
(***************************************************************************)
(* Structural rewrites in two calls: a preview computes a proposal, which  *)
(* the engine keeps for a while, and an apply writes it (ast/engine.py     *)
(* over ast/rewrite/preview.rs and apply.rs).                              *)
(*                                                                         *)
(* Tasks of one event loop call the engine; what the loop runs without an  *)
(* await in between is one step.  The native parts run on threads: there,  *)
(* every look at a file is a step, and other changes go on meanwhile: of   *)
(* the same session, which hold the write guard and advance the revision;  *)
(* of other sessions, which hold the guard; of programs that do not.       *)
(*                                                                         *)
(* A text is a model value and Rewrite what the operations make of it.     *)
(***************************************************************************)
EXTENDS Integers, Sequences, FiniteSets

CONSTANTS
  Path, Text,
  Rewrite,     \* Text -> Text, the text itself where nothing matches
  Scan,        \* the files a preview reads, in the order of the scan
  FirstDisk,
  Task,        \* tasks of the event loop
  Editor,      \* the holder of the guard that is no rewrite
  Nobody,      \* the holder of a lock nobody holds
  Lifetime,    \* proposal_ttl_seconds
  Capacities,  \* values of max_pending_proposals
  MaxChanged,  \* max_changed_files
  MaxCalls, MaxEdits, MaxClock  \* bounds: calls, other changes, time

ASSUME RewriteAssumption == Rewrite \in [Text -> Text] /\ FirstDisk \subseteq [Path -> Text]
ASSUME ScanAssumption ==
  Scan \in Seq(Path) /\ \A i, j \in DOMAIN Scan : Scan[i] = Scan[j] => i = j
ASSUME HolderAssumption == Nobody \notin Task /\ Editor \notin Task /\ Nobody # Editor
ASSUME LimitsAssumption ==
  /\ Lifetime \in Nat \ {0} /\ Capacities \subseteq Nat \ {0} /\ MaxChanged \in Nat
  /\ MaxCalls \in Nat /\ MaxEdits \in Nat /\ MaxClock \in Nat

VARIABLES
  disk,       \* the text of each file
  revision,   \* changes the session has marked
  closed,     \* whether the session is closed
  guard,      \* who holds the write guard of the workspace
  writeLock,  \* the task that holds the engine's _workspace_write_lock
  capacity,   \* max_pending_proposals
  pending,    \* _proposals, whose ids are given in order
  clock,      \* time.monotonic
  at, call,   \* where each task is, and what it knows
  calls, edits,  \* calls and other changes so far
  foreign,    \* whether a program without the guard has written
  stored,     \* history: all proposals stored
  gone        \* history: ids of proposals asked for by apply or reject

lockVars == <<guard, writeLock>>
proposalVars == <<capacity, pending, stored, gone>>
taskVars == <<at, call>>
boundVars == <<calls, edits, clock>>
sessionVars == <<revision, closed>>
rewriteVars == <<disk, foreign, sessionVars, lockVars, proposalVars, taskVars, boundVars>>

Idle == [op |-> "none", id |-> 0, files |-> <<>>, index |-> 0, landed |-> 0,
         stale |-> FALSE, failed |-> FALSE, cancelled |-> FALSE, result |-> "none"]

RewriteInit ==
  /\ disk \in FirstDisk /\ foreign = FALSE
  /\ revision = 0 /\ closed = FALSE
  /\ guard = Nobody /\ writeLock = Nobody
  /\ capacity \in Capacities /\ pending = {} /\ stored = <<>> /\ gone = {}
  /\ at = [t \in Task |-> "idle"] /\ call = [t \in Task |-> Idle]
  /\ calls = 0 /\ edits = 0 /\ clock = 0

-----------------------------------------------------------------------------
(* What the steps share *)

GoesTo(t, step, now) == at' = [at EXCEPT ![t] = step] /\ call' = [call EXCEPT ![t] = now]

\* The next file of a scan or a proposal
NextFile(t, step, now) == GoesTo(t, step, [now EXCEPT !.index = @ + 1])

\* The call is over.
Answer(t) == GoesTo(t, "idle", Idle)

Begins(t, step, now) ==
  /\ at[t] = "idle" /\ calls < MaxCalls /\ calls' = calls + 1
  /\ ~closed
  /\ GoesTo(t, step, now)

\* The native part ends with a result, and drops its guard.
Leave(t, now, result) ==
  /\ GoesTo(t, "resume", [now EXCEPT !.result = result])
  /\ guard' = IF guard = t THEN Nobody ELSE guard

File(t) == call[t].files[call[t].index]
Finished(t) == call[t].index > Len(call[t].files)

-----------------------------------------------------------------------------
(* The pending proposals *)

\* _purge_expired
Purged(proposals) == {p \in proposals : p.expires > clock}

Newer(proposals, p) == {q \in proposals : q.id > p.id}

\* Mutant: a proposal goes while there is room for one more.
RoomEarly(proposals) ==
  IF Cardinality(proposals) + 1 < capacity THEN proposals
  ELSE {p \in proposals : Cardinality(Newer(proposals, p)) < capacity - 2}

\* The oldest proposals go until there is room.
Room(proposals) ==
  IF Cardinality(proposals) < capacity THEN proposals
  ELSE {p \in proposals : Cardinality(Newer(proposals, p)) < capacity - 1}

Without(proposals, id) == {p \in proposals : p.id # id}

\* The proposal of an id that can be applied
Usable(id) == {p \in pending : p.id = id /\ p.expires > clock /\ p.revision = revision}

Store(files) ==
  LET proposal == [id |-> Len(stored) + 1, files |-> files, revision |-> revision,
                   expires |-> clock + Lifetime]
  IN /\ pending' = Room(Purged(pending)) \cup {proposal}
     /\ stored' = Append(stored, proposal)
     /\ UNCHANGED <<capacity, gone>>

\* Mutant: looking a proposal up leaves it where it is.
PopKeeping(id) ==
  /\ pending' = Purged(pending)
  /\ gone' = gone \cup {id}
  /\ UNCHANGED <<capacity, stored>>

\* A proposal is popped by whoever asks for it first.
Pop(id) ==
  /\ pending' = Purged(Without(pending, id))
  /\ gone' = gone \cup {id}
  /\ UNCHANGED <<capacity, stored>>

-----------------------------------------------------------------------------
(* Preview *)

\* The native call begins on its thread; an apply may fail to open the lock
\* file.
EnterThread(t) ==
  /\ at[t] = "enter"
  /\ LET now == call[t] IN
     IF closed THEN Leave(t, now, "closed")
     ELSE \/ /\ GoesTo(t, IF now.op = "preview" THEN "scan" ELSE "guard", now)
             /\ UNCHANGED guard
          \/ now.op = "apply" /\ Leave(t, [now EXCEPT !.failed = TRUE], "write")
  /\ UNCHANGED <<disk, foreign, revision, closed, writeLock, proposalVars, boundVars>>

Preview(t) ==
  /\ Begins(t, "enter", [Idle EXCEPT !.op = "preview", !.index = 1])
  /\ UNCHANGED <<disk, foreign, sessionVars, lockVars, proposalVars, edits, clock>>

\* The next file is read and its matches computed.  One that cannot be read
\* or parsed is left out with an issue; edits that overlap, or are too many,
\* refuse the preview.
ReadTree(t) ==
  /\ at[t] = "scan"
  /\ UNCHANGED <<disk, foreign, revision, closed, writeLock, proposalVars, boundVars>>
  /\ LET now == call[t] IN
     IF now.index > Len(Scan) THEN Leave(t, now, "ok")
     ELSE LET text == disk[Scan[now.index]] IN
       \/ now.cancelled /\ Leave(t, now, "cancelled")
       \/ NextFile(t, "scan", now) /\ UNCHANGED guard
       \/ /\ ~now.cancelled /\ Rewrite[text] # text
          /\ \/ Leave(t, now, "refused")
             \/ /\ Len(now.files) < MaxChanged
                /\ NextFile(t, "scan",
                     [now EXCEPT !.files = Append(@, [path |-> Scan[now.index], original |-> text])])
                /\ UNCHANGED guard

\* Back on the loop the proposal is stored with the revision of that moment,
\* if it replaces anything.
ResumePreview(t) ==
  /\ at[t] = "resume" /\ call[t].op = "preview"
  /\ IF call[t].cancelled \/ call[t].result # "ok" \/ call[t].files = <<>>
     THEN UNCHANGED proposalVars ELSE Store(call[t].files)
  /\ Answer(t)
  /\ UNCHANGED <<disk, foreign, sessionVars, lockVars, boundVars>>

Reject(t, id) ==
  /\ at[t] = "idle" /\ calls < MaxCalls /\ calls' = calls + 1
  /\ Pop(id)
  /\ UNCHANGED <<disk, foreign, sessionVars, lockVars, taskVars, edits, clock>>

-----------------------------------------------------------------------------
(* Apply *)

Apply(t, id) ==
  /\ Begins(t, "lock", [Idle EXCEPT !.op = "apply", !.id = id])
  /\ UNCHANGED <<disk, foreign, sessionVars, lockVars, proposalVars, edits, clock>>

\* With the engine's lock: the proposal is taken, whether it is then used or
\* not, and its revision compared.
Take(t) ==
  /\ at[t] = "lock" /\ writeLock = Nobody
  /\ Pop(call[t].id)
  /\ \/ /\ \E p \in Usable(call[t].id) :
             GoesTo(t, "enter", [call[t] EXCEPT !.files = p.files, !.index = 1])
        /\ writeLock' = t
     \/ /\ Usable(call[t].id) = {}
        /\ Answer(t) /\ UNCHANGED writeLock
  /\ UNCHANGED <<disk, foreign, sessionVars, guard, boundVars>>

\* Mutant: the write guard is not waited for.
LockGuardNever(t) ==
  /\ at[t] = "guard"
  /\ GoesTo(t, "preflight", call[t])
  /\ UNCHANGED <<disk, foreign, sessionVars, lockVars, proposalVars, boundVars>>

LockGuard(t) ==
  /\ at[t] = "guard" /\ guard = Nobody
  /\ guard' = t
  /\ GoesTo(t, "preflight", call[t])
  /\ UNCHANGED <<disk, foreign, sessionVars, writeLock, proposalVars, boundVars>>

\* Mutant: the files are not looked at before the first is replaced.
PreflightNever(t) ==
  /\ at[t] = "preflight"
  /\ GoesTo(t, "verify", [call[t] EXCEPT !.index = 1])
  /\ UNCHANGED <<disk, foreign, sessionVars, lockVars, proposalVars, boundVars>>

\* Every file is compared with the preview before the first is replaced.
Preflight(t) ==
  /\ at[t] = "preflight"
  /\ LET now == call[t] IN
     IF now.cancelled THEN Leave(t, now, IF Finished(t) /\ now.stale THEN "stale" ELSE "cancelled")
     ELSE IF Finished(t)
     THEN IF now.stale THEN Leave(t, now, "stale")
          ELSE GoesTo(t, "verify", [now EXCEPT !.index = 1]) /\ UNCHANGED guard
     ELSE \/ Leave(t, [now EXCEPT !.failed = TRUE], "write")
          \/ /\ NextFile(t, "preflight",
                  [now EXCEPT !.stale = @ \/ disk[File(t).path] # File(t).original])
             /\ UNCHANGED guard
  /\ UNCHANGED <<disk, foreign, revision, closed, writeLock, proposalVars, boundVars>>

\* replace_file compares once more.  A cancellation is answered as such, or
\* as a failed write when replace_file is the one to see it.
Verify(t) ==
  /\ at[t] = "verify"
  /\ LET now == call[t] IN
     IF Finished(t)
     THEN GoesTo(t, "mark", [now EXCEPT !.index = 1]) /\ UNCHANGED guard
     ELSE IF now.cancelled THEN \E result \in {"cancelled", "write"} : Leave(t, now, result)
     ELSE IF disk[File(t).path] # File(t).original
     THEN Leave(t, now, IF now.landed = 0 THEN "stale" ELSE "write")
     ELSE GoesTo(t, "persist", now) /\ UNCHANGED guard
  /\ UNCHANGED <<disk, foreign, revision, closed, writeLock, proposalVars, boundVars>>

Persist(t) ==
  /\ at[t] = "persist"
  /\ LET now == call[t] IN
     \/ Leave(t, [now EXCEPT !.failed = TRUE], "write") /\ UNCHANGED disk
     \/ /\ ~now.cancelled
        /\ disk' = [disk EXCEPT ![File(t).path] = Rewrite[File(t).original]]
        /\ NextFile(t, "verify", [now EXCEPT !.landed = @ + 1])
        /\ UNCHANGED guard
  /\ UNCHANGED <<foreign, revision, closed, writeLock, proposalVars, boundVars>>

\* When all files are replaced they are marked, one after the other.
Mark(t) ==
  /\ at[t] = "mark"
  /\ IF Finished(t) THEN Leave(t, call[t], "ok") /\ UNCHANGED revision
     ELSE /\ revision' = revision + 1
          /\ NextFile(t, "mark", call[t]) /\ UNCHANGED guard
  /\ UNCHANGED <<disk, foreign, closed, writeLock, proposalVars, boundVars>>

ResumeApply(t) ==
  /\ at[t] = "resume" /\ call[t].op = "apply"
  /\ writeLock' = Nobody
  /\ Answer(t)
  /\ UNCHANGED <<disk, foreign, sessionVars, guard, proposalVars, boundVars>>

-----------------------------------------------------------------------------
(* Everybody else *)

\* run_native: the thread is told, and waited for; its result is dropped.
\* A task that waits for the engine's lock leaves at once.
CancelRewrite(t) ==
  /\ at[t] # "idle" /\ ~call[t].cancelled
  /\ IF at[t] = "lock" THEN Answer(t) ELSE GoesTo(t, at[t], [call[t] EXCEPT !.cancelled = TRUE])
  /\ UNCHANGED <<disk, foreign, sessionVars, lockVars, proposalVars, boundVars>>

CloseRewrites ==
  /\ ~closed /\ closed' = TRUE
  /\ UNCHANGED <<disk, foreign, revision, lockVars, proposalVars, taskVars, boundVars>>

Tick ==
  /\ clock < MaxClock /\ clock' = clock + 1
  /\ UNCHANGED <<disk, foreign, sessionVars, lockVars, proposalVars, taskVars, calls, edits>>

Write(path, text) ==
  /\ edits < MaxEdits /\ edits' = edits + 1
  /\ disk' = [disk EXCEPT ![path] = text]

\* Another change of the session: it lands and is then marked, under the
\* guard.
Edit(path, text) ==
  /\ guard = Nobody /\ guard' = Editor /\ ~closed
  /\ Write(path, text)
  /\ UNCHANGED <<foreign, revision, closed, writeLock, proposalVars, taskVars, calls, clock>>

MarkEdit ==
  /\ guard = Editor /\ guard' = Nobody
  /\ revision' = revision + 1
  /\ UNCHANGED <<disk, foreign, closed, writeLock, proposalVars, taskVars, boundVars>>

\* A change of another session, under the guard, or of another program
Outside(path, text) ==
  /\ Write(path, text)
  /\ foreign' = (foreign \/ guard # Nobody)
  /\ UNCHANGED <<sessionVars, lockVars, proposalVars, taskVars, calls, clock>>

RewriteStep(t) ==
  \/ ReadTree(t) \/ ResumePreview(t)
  \/ Take(t) \/ EnterThread(t) \/ LockGuard(t) \/ Preflight(t) \/ Verify(t) \/ Persist(t) \/ Mark(t)
  \/ ResumeApply(t)

RewriteNext ==
  \/ \E t \in Task : RewriteStep(t) \/ Preview(t) \/ CancelRewrite(t)
  \/ \E t \in Task, id \in DOMAIN stored : Apply(t, id) \/ Reject(t, id)
  \/ \E path \in Path, text \in Text : Edit(path, text) \/ Outside(path, text)
  \/ CloseRewrites \/ Tick \/ MarkEdit

RewriteSpec == RewriteInit /\ [][RewriteNext]_rewriteVars
-----------------------------------------------------------------------------
(* Properties *)

Proposal == [id : Nat \ {0}, files : Seq([path : Path, original : Text]),
             revision : Nat, expires : Nat]

\* Types; in particular never more proposals than max_pending_proposals.
RewriteTypeOK ==
  /\ disk \in [Path -> Text] /\ revision \in Nat
  /\ closed \in BOOLEAN /\ foreign \in BOOLEAN
  /\ guard \in Task \cup {Editor, Nobody} /\ writeLock \in Task \cup {Nobody}
  /\ pending \subseteq Proposal /\ Cardinality(pending) <= capacity
  /\ \A t \in Task : /\ at[t] \in {"idle", "scan", "lock", "enter", "guard", "preflight",
                                    "verify", "persist", "mark", "resume"}
                     /\ call[t].landed <= Len(call[t].files)

\* A proposal stays until someone asks for it, it expires, or as many newer
\* ones as the engine keeps have been stored.
NewestProposalsStay ==
  \A i \in DOMAIN stored :
    \/ stored[i] \in pending
    \/ stored[i].id \in gone
    \/ stored[i].expires <= clock
    \/ Len(stored) - i >= capacity

\* Among sessions, a rewrite replaces all of its files or none, unless it is
\* cancelled or a file operation fails: what was compared still holds when
\* the last file is replaced, although the revision was compared long before.
RewritesAreWhole ==
  ~foreign => \A t \in Task :
    call[t].op = "apply" /\ at[t] = "resume" /\ ~call[t].cancelled /\ ~call[t].failed =>
      call[t].landed \in {0, Len(call[t].files)}

\* A rewrite replaces exactly the text its preview was computed from, and
\* no proposal is applied twice, nor one that was rejected, whatever tasks
\* retry (test_preview_apply_once_and_permission_preservation).
RewritesReplaceWhatWasPreviewed ==
  [][\A t \in Task :
       /\ ~foreign /\ call'[t].landed > call[t].landed => disk[File(t).path] = File(t).original
       /\ at[t] = "lock" /\ at'[t] = "enter" => call[t].id \notin gone]_rewriteVars
=============================================================================
