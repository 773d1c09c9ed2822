------------------------------ MODULE FffIndex ------------------------------
(***************************************************************************)
(* The fuzzy file finder of one session: several asyncio callers search    *)
(* one native index while the files of the workspace change.  A call is a  *)
(* sequence of native jobs, each run on a thread of the executor; between  *)
(* two jobs the caller is back on the event loop.                          *)
(*                                                                         *)
(* Revisions stand for contents: an index is as fresh as the last change   *)
(* it reflects.  The index itself (the fff_search crate) is external: a    *)
(* scan reflects at least what was there when it was requested, and the    *)
(* old index answers until the scan ends.                                  *)
(***************************************************************************)
EXTENDS Integers, Sequences

CONSTANTS
  Caller,       \* asyncio tasks that hold the engine
  Watch,        \* FffConfig.watch: changes may reach the index by themselves
  MaxRevision,  \* bound on the changes of the workspace
  NoOne         \* the startup lock is free

ASSUME FffAssumption ==
  NoOne \notin Caller /\ Watch \in BOOLEAN /\ MaxRevision \in Nat \ {0}

Nothing == 0     \* indexed: the first scan has not ended; scan: none under way;
                 \* indexed_revision: None.  Revisions start at 1.
NoPicker == [indexed |-> Nothing, scan |-> Nothing, present |-> FALSE]

VARIABLES
  revision,          \* the workspace's revision
  picker,            \* the shared picker: present, what it indexed, the scan under way
  started, closed,   \* FffEngineState.started, .closed
  startup_lock,      \* the caller that holds it
  readers,           \* callers that hold the picker's read lock
  indexed_revision,  \* FffEngine._indexed_revision
  call,              \* [Caller -> the call under way]
  answer,            \* [Caller -> how the last call ended]
  settled            \* history: the last change made while no call was under way

engine == <<picker, started, closed, startup_lock, readers>>
vars == <<revision, engine, indexed_revision, call, answer, settled>>

\* Mutant: a refresh only waits for the index, and requests no scan.
RefreshWithoutRescan(op, stale) ==
  CASE op \in {"find", "grep"} -> IF stale THEN <<"wait_ready", "search">> ELSE <<"search">>
    [] OTHER -> <<op>>

\* The native jobs of each operation, in order.
Plan(op, stale) ==
  CASE op \in {"find", "grep"} -> IF stale THEN <<"rescan", "wait_ready", "search">> ELSE <<"search">>
    [] OTHER -> <<op>>

NoCall == [op |-> "none", jobs |-> <<>>, stage |-> "idle", saw |-> Nothing,
           must |-> Nothing, second |-> FALSE, cancelled |-> FALSE]

Idle(c) == call[c].stage = "idle"
At(c, jobs, stage) == call[c].stage = stage /\ Head(call[c].jobs) \in jobs
Goto(c, stage) == call' = [call EXCEPT ![c].stage = stage]

Init ==
  /\ revision = 1
  /\ picker = NoPicker
  /\ started = FALSE /\ closed = FALSE
  /\ startup_lock = NoOne
  /\ readers = {}
  /\ indexed_revision = Nothing
  /\ call = [c \in Caller |-> NoCall]
  /\ answer = [c \in Caller |-> "none"]
  /\ settled = Nothing
-----------------------------------------------------------------------------
(* The Python engine *)

\* _refresh_if_stale: a search rescans first when the revision is not the
\* one the engine was last indexed at; before any search or wait it is not.
Stale == indexed_revision # Nothing /\ indexed_revision # revision

Begin(c, op) ==
  LET stale == op \in {"find", "grep"} /\ Stale
  IN /\ Idle(c)
     /\ call' = [call EXCEPT ![c] =
          [NoCall EXCEPT !.op = op, !.jobs = Plan(op, stale),
                         !.stage = IF op = "close" THEN "act" ELSE "start",
                         !.must = IF stale THEN revision
                                  ELSE IF op \in {"find", "grep"} THEN settled ELSE Nothing]]
     /\ answer' = [answer EXCEPT ![c] = "none"]
     /\ UNCHANGED <<revision, engine, indexed_revision, settled>>

\* The caller gets its answer; an error is translated and raised.
Return(c, result) ==
  /\ call' = [call EXCEPT ![c] = NoCall]
  /\ answer' = [answer EXCEPT ![c] = IF call[c].cancelled THEN "cancelled" ELSE result]

Fail(c, result) == Return(c, result) /\ UNCHANGED <<indexed_revision, settled>>

\* A native job ended and its caller runs on.  Waiting for the index and
\* searching it both end by taking the revision of this moment for indexed;
\* a caller that was cancelled drops the result instead.
JobEnds(c) ==
  LET job == Head(call[c].jobs)
  IN IF call[c].cancelled
     THEN Fail(c, "cancelled")
     ELSE /\ IF Len(call[c].jobs) = 1
             THEN Return(c, "ok")
             ELSE /\ call' = [call EXCEPT ![c].jobs = Tail(@), ![c].stage = "start"]
                  /\ UNCHANGED answer
          /\ indexed_revision' = IF job \in {"wait_ready", "search"} THEN revision ELSE indexed_revision
          /\ settled' = IF call[c].op = "wait_ready" THEN Nothing ELSE settled

\* run_native: a cancelled caller waits for its thread all the same.
Cancel(c) ==
  /\ ~Idle(c) /\ ~call[c].cancelled
  /\ call' = [call EXCEPT ![c].cancelled = TRUE]
  /\ UNCHANGED <<revision, engine, indexed_revision, answer, settled>>
-----------------------------------------------------------------------------
(* The native engine *)

\* Mutant: the engine is not asked again under the lock whether it is open.
StartUnchecked(c) ==
  /\ At(c, {"start", "wait_ready", "rescan", "search"}, "start")
  /\ startup_lock = NoOne
  /\ started' = TRUE
  /\ picker' = IF started THEN picker
               ELSE [indexed |-> Nothing, scan |-> revision, present |-> TRUE]
  /\ IF Head(call[c].jobs) = "start"
     THEN JobEnds(c)
     ELSE Goto(c, "wait") /\ UNCHANGED <<answer, indexed_revision, settled>>
  /\ UNCHANGED <<revision, closed, startup_lock, readers>>

\* start: one picker is ever made, under the startup lock, and none once
\* the engine is closed.  The first scan begins with it.
Start(c) ==
  /\ At(c, {"start", "wait_ready", "rescan", "search"}, "start")
  /\ startup_lock = NoOne
  /\ IF closed
     THEN Fail(c, "closed") /\ UNCHANGED <<picker, started>>
     ELSE /\ started' = TRUE
          /\ picker' = IF started THEN picker
                       ELSE [indexed |-> Nothing, scan |-> revision, present |-> TRUE]
          /\ IF Head(call[c].jobs) = "start"
             THEN JobEnds(c)
             ELSE Goto(c, "wait") /\ UNCHANGED <<answer, indexed_revision, settled>>
  /\ UNCHANGED <<revision, closed, startup_lock, readers>>

\* FilePicker::new_with_shared_state fails: a later start tries again.
StartFails(c) ==
  /\ At(c, {"start", "wait_ready", "rescan", "search"}, "start")
  /\ startup_lock = NoOne /\ ~closed /\ ~started
  /\ Fail(c, "startup")
  /\ UNCHANGED <<revision, engine>>

\* wait_ready: the thread waits for the scan, at most for its timeout.
WaitEnds(c) ==
  /\ At(c, {"wait_ready", "rescan", "search"}, "wait")
  /\ picker.scan = Nothing
  /\ Goto(c, "check")
  /\ UNCHANGED <<revision, engine, indexed_revision, answer, settled>>

\* The watcher, if there is one, is waited for as well and may be late
\* without a scan.
WaitTimesOut(c) ==
  /\ At(c, {"wait_ready", "rescan", "search"}, "wait")
  /\ picker.scan # Nothing \/ Watch
  /\ Fail(c, "not_ready")
  /\ UNCHANGED <<revision, engine>>

\* status, after the wait: the engine may be closed by now, or scanning
\* again for another caller, which ensure_started answers as not ready.
Check(c) ==
  /\ At(c, {"wait_ready", "rescan", "search"}, "check")
  /\ CASE closed -> Fail(c, "closed")
       [] ~closed /\ Head(call[c].jobs) = "wait_ready" -> JobEnds(c)
       [] ~closed /\ Head(call[c].jobs) # "wait_ready" /\ picker.scan # Nothing -> Fail(c, "not_ready")
       [] OTHER -> Goto(c, "act") /\ UNCHANGED <<answer, indexed_revision, settled>>
  /\ UNCHANGED <<revision, engine>>

\* rescan: the scan is only requested here, also while another caller is
\* closing the engine ...
Trigger(c) ==
  /\ At(c, {"rescan"}, "act")
  /\ IF picker.present
     THEN /\ picker' = [picker EXCEPT !.scan = revision]
          /\ Goto(c, "asked")
          /\ UNCHANGED <<answer, indexed_revision, settled>>
     ELSE Fail(c, "unavailable") /\ UNCHANGED picker
  /\ UNCHANGED <<revision, started, closed, startup_lock, readers>>

\* ... which the status after it finds.
Triggered(c) ==
  /\ At(c, {"rescan"}, "asked")
  /\ IF closed THEN Fail(c, "closed") ELSE JobEnds(c)
  /\ UNCHANGED <<revision, engine>>

\* find, execute_grep and multi_grep: the request's limits and query are
\* checked once the index is ready.
Refuse(c) ==
  /\ At(c, {"search"}, "act") /\ ~call[c].second
  /\ Fail(c, "invalid")
  /\ UNCHANGED <<revision, engine>>

\* The picker is searched under its read lock.
Search(c) ==
  /\ At(c, {"search"}, "act")
  /\ IF picker.present
     THEN /\ readers' = readers \cup {c}
          /\ call' = [call EXCEPT ![c].stage = "search", ![c].saw = picker.indexed]
          /\ UNCHANGED <<indexed_revision, answer, settled>>
     ELSE Fail(c, "unavailable") /\ UNCHANGED readers
  /\ UNCHANGED <<revision, picker, started, closed, startup_lock>>

\* grep in auto mode: an empty first pass with no further page is searched
\* again as a fuzzy query, under a read lock of its own.
FallBack(c) ==
  /\ At(c, {"search"}, "search")
  /\ call[c].op = "grep" /\ ~call[c].second
  /\ readers' = readers \ {c}
  /\ call' = [call EXCEPT ![c].stage = "act", ![c].second = TRUE]
  /\ UNCHANGED <<revision, picker, started, closed, startup_lock, indexed_revision, answer, settled>>

\* The pattern is refused, or the search was cancelled: the lock is released.
SearchFails(c) ==
  /\ At(c, {"search"}, "search")
  /\ readers' = readers \ {c}
  /\ Fail(c, "invalid")
  /\ UNCHANGED <<revision, picker, started, closed, startup_lock>>

\* Mutant: the search of a cancelled caller keeps its read lock.
SearchEndsHeld(c) ==
  /\ At(c, {"search"}, "search")
  /\ readers' = IF call[c].cancelled THEN readers ELSE readers \ {c}
  /\ JobEnds(c)
  /\ UNCHANGED <<revision, picker, started, closed, startup_lock>>

SearchEnds(c) ==
  /\ At(c, {"search"}, "search")
  /\ readers' = readers \ {c}
  /\ JobEnds(c)
  /\ UNCHANGED <<revision, picker, started, closed, startup_lock>>

\* close: the first one marks the engine closed and cancels the scan under
\* the startup lock, keeps the lock until the readers are gone, and takes
\* the picker, with a scan that was requested meanwhile.
CloseBegins(c) ==
  /\ At(c, {"close"}, "act")
  /\ startup_lock = NoOne
  /\ IF closed
     THEN JobEnds(c) /\ UNCHANGED <<picker, closed, startup_lock>>
     ELSE /\ closed' = TRUE
          /\ startup_lock' = c
          /\ picker' = [picker EXCEPT !.scan = Nothing]
          /\ Goto(c, "drain")
          /\ UNCHANGED <<answer, indexed_revision, settled>>
  /\ UNCHANGED <<revision, started, readers>>

CloseEnds(c) ==
  /\ At(c, {"close"}, "drain")
  /\ readers = {}
  /\ picker' = NoPicker
  /\ startup_lock' = NoOne
  /\ JobEnds(c)
  /\ UNCHANGED <<revision, started, closed, readers>>
-----------------------------------------------------------------------------
(* The index and the workspace *)

ScanEnds ==
  /\ picker.scan # Nothing
  /\ \E fresh \in picker.scan .. revision :
       picker' = [picker EXCEPT !.scan = Nothing,
                                !.indexed = IF fresh > @ THEN fresh ELSE @]
  /\ UNCHANGED <<revision, started, closed, startup_lock, readers, indexed_revision, call, answer, settled>>

WatcherNotices ==
  /\ Watch /\ picker.present /\ ~closed
  /\ picker.indexed # Nothing /\ picker.indexed < revision
  /\ picker' = [picker EXCEPT !.indexed = @ + 1]
  /\ UNCHANGED <<revision, started, closed, startup_lock, readers, indexed_revision, call, answer, settled>>

\* A mutation of the session marks a file changed.
Change ==
  /\ revision < MaxRevision
  /\ revision' = revision + 1
  /\ settled' = IF indexed_revision # Nothing /\ \A c \in Caller : Idle(c) THEN revision + 1 ELSE settled
  /\ UNCHANGED <<engine, indexed_revision, call, answer>>

Native(c) ==
  \/ Start(c) \/ StartFails(c)
  \/ WaitEnds(c) \/ WaitTimesOut(c) \/ Check(c)
  \/ Trigger(c) \/ Triggered(c)
  \/ Refuse(c) \/ Search(c) \/ FallBack(c) \/ SearchFails(c) \/ SearchEnds(c)
  \/ CloseBegins(c) \/ CloseEnds(c)

Next ==
  \/ \E c \in Caller :
       \/ \E op \in {"start", "wait_ready", "rescan", "find", "grep", "close"} : Begin(c, op)
       \/ Cancel(c)
       \/ Native(c)
  \/ ScanEnds \/ WatcherNotices \/ Change

\* Threads of the executor run, and a scan that is not cancelled ends.
Fairness == WF_vars(ScanEnds) /\ \A c \in Caller : WF_vars(Native(c))

Spec == Init /\ [][Next]_vars /\ Fairness
-----------------------------------------------------------------------------
(* Properties *)

\* What a search may miss: it shows every change that was made while no call
\* was under way (unless the caller itself declared the index ready since),
\* and after a rescan every change made before it began.  Only a change made
\* during a call, or before the first one ended, is ever taken for indexed.
SearchesShowSettledChanges ==
  [][\A c \in Caller :
       call[c].stage = "search" /\ answer'[c] = "ok" => call[c].saw >= call[c].must]_vars

\* Once a close has returned nothing searches the index, nothing scans, and
\* no start under way brings the picker back.
ClosedEngineLetsGo ==
  /\ closed /\ startup_lock = NoOne => ~picker.present /\ picker.scan = Nothing /\ readers = {}
  /\ readers # {} => picker.present

\* Every call is answered: no search, wait or close waits for another forever.
CallsReturn == \A c \in Caller : ~Idle(c) ~> Idle(c)
=============================================================================
