# ovid-native in TLA+

ovid-native gives an agent access to a directory: it reads, searches and
changes files and runs commands in a *workspace session*. Its core is a
promise about changes: a file is changed only on the evidence of text that was
shown, one change at a time, and every change that landed is reported. This
directory states that promise, models the code that keeps it, model-checks the
models with TLC and proves the most important results with TLAPS.

## The system

Rust (`src/src`) does the work; Python (`src/python/ovid_native`) is the
asynchronous face of it. A session is one `WorkspaceState` behind an `Arc`;
its calls run on worker threads with the interpreter released, so calls of one
session are concurrent, and any number of sessions, in one process or several,
may be open on one root.

| component | state | operations | what is hard | what makes it correct |
|---|---|---|---|---|
| observation ledger (`workspace/observations.rs`) | entries by path and digest, tags, accounted bytes, use clock | record, resolve, resolve_tag, current | tags of 16 bits collide, partial presentations merge, entries are evicted | a grant is evidence: nothing is granted beyond what was shown, no tag names two texts |
| file mutations (`file_mutations.rs`, `write.rs`, `mod.rs`, `workflows.rs`) | the files; per session closed, generations, revision; coordinator mutex, lock file | read, create, replace, delete, move, close, cancel | two levels of locks, reads that take none, programs outside, closes and cancellations in the middle of a change | changes are atomic, overwrite only what was shown, are counted once and reported |
| structured patches (`patch*.rs`) | a prepared patch; progress through it | preflight, commit | everything is checked before anything changes, files touched by several operations, failures half way | what was checked still holds at commit; the report accounts for every path |
| hashline edits (`hashline*.rs`) | planned files, staging directories, registers | plan, stage, commit, restore, apply | files leave their path while staged; line operations move each other | no text is lost; the lines changed are those named |
| text algorithms (`content.rs`, `read_ranges.rs`, `replace.rs`, `unified_diff.rs`, `text_similarity.rs`) | a scan in chunks | decode, select, scan, match, replace, diff, encode | offsets and lines at boundaries, three line endings, byte order marks, characters cut by a chunk | two readers agree; an edit changes the lines that had to be observed and no others |
| syntax-aware rewrite (`ast/`) | pending proposals | preview, apply, discard | revisions compared outside the lock, several files | only a current preview is applied, and whole |
| fuzzy finder (`fff/`) | the index, the scan under way, the revision taken for indexed | start, wait, find, grep, rescan, close | the index trails the files, searches race rescans and close | a settled change is shown by the next search; close lets go |
| command execution (`command/`) | active calls, global execution lock, baseline and found processes, pipe | execute, cancel, close | timeout, processes that stay, output drain | a command ends, its processes with it and no others, and close waits for it |
| provider observations, evidence (`provider_observations.py`, `evidence.py`, `source_validation.py`) | entries by path and tag, collisions | observe, present, validate | the file is read across an `await`; first in, first out forgetting | what is found valid was shown, and is there now |
| views (`views.py`) | the finder's engine and view, proposals, two locks | start, search, close, preview, apply | failing and cancelled starts, closes during searches, views that go stale | every view is held while it is read, then given back |
| native execution and events (`_native_execution.py`, `events.py`) | awaiting callers, subscribers | run, cancel, publish | results of cancelled calls | a cancelled caller waits for its thread |
| session service, plugins (`service.py`, `plugins.py`) | service states | build, close | failing plugins, calls while closing | everything opened is closed |
| policy and edit modes | current policy and mode, generations | set, register, capture | captured under separate locks | a change runs under one policy |
| reads of directories, scans, selections; search, discovery | none | walk, list, grep, glob | limits and deadlines met half way | truncation is reported |

Calls interact through the files, the lock file, the mutexes of one
`WorkspaceState`, and the revision counter that indexes and proposals compare.
`PROJECT.json` lists every component with what is and is not modelled, and the
hazards of the code at their lines with the properties that cover them.

## Modules

### Ledger, ObservationLedger, ObservationAuthority

`Ledger` translates `observations.rs` into operators on a ledger value, one per
function: `RecordIn` is `record` (`MergedEntry`, `RegisteredTags` for
`register_tag`, `Survivors` for the loop of `evict`), `ResolveResult`,
`ResolveTagResult` and `CurrentResult` are the three lookups, `Touched` the use
they count. A text is the sequence of its lines and is its own digest, so two
texts never share a SHA-256 digest; `TagOf` may map several texts to one tag.
`evict` is a loop that removes the least recently used entry; `Survivors`
says at once which entries it leaves: those that with everything used after
them fit, and the one just recorded.

`ObservationLedger` is the state machine: every operation runs under the
ledger's mutex, so it is one action. `shown`, `known`, `used` and `decision`
are history. `ObservationAuthority` is the abstract specification:
an unbounded memory of what was shown that grants any text whose tag it has not
seen on another text of the path, with at most the lines that were shown. It
knows of no entries, eviction, merging or clock. `ObservationLedger` implements
it with the identity on the history (`ImplementsAuthority`).

### WorkspaceMutations, GuardedDisk

`WorkspaceMutations` composes the ledgers of several sessions with the files.
A worker's call is a sequence of steps, one for each access to something others
may change: take the coordinator (`LockCoordinator`) and the lock file
(`LockWorkspace`), load, authorize, verify, land (`Persist`, `Create`,
`Remove`, `Link` and `Unlink`), mark, present, return. Reads take no lock
(`ReadContent`, `ReadGeneration`, `RecordRead`). `Cancel` sets the flag the
code asks for at given places, `Close` closes a session at any moment,
`ForeignWrite` is a program that takes no lock. File operations may fail
wherever the code handles it: `Load` may find the file missing, unreadable, too
large or no text, and `PresentResult` presents as many lines of the new text as
fit, or nothing of a text too large to be observed. `shown` and `landings` are
history.

`GuardedDisk` is the abstract specification: files, and what each session was
shown of them; a file that exists is overwritten or removed, in one step, only
by a session that was shown its present content in full.

### PatchCommit

One call of `apply_patch_operations` under the write guard, which the previous
module shows to be exclusive among sessions: `Prepare` is the preflight of the
next operation, with `Preparable` its checks and `Duplicate` the check of its
paths; then the commit of each operation step by step, with cancellation,
close, failing file operations and a program outside Ovid. `Fail` and
`Complete` are the bookkeeping of `landed`, `pending` and `changes`.

### HashlineApply

How the sections of one hashline edit become new texts, without writing
anything. `Place`, `Anchors`, `Resolvable` and `Resolved` are
`hashline_locator.rs`: where an operation acts, which lines it must have been
shown as they are, that no range is reversed, and that no two operations remove
the same line. `Perform` and `ApplyEdits` are `hashline_apply.rs`: operations are
performed in authored order, for the registers, and their edits, a set, made
from the last place to the first (`InTurn`). The state machine hands registers from section to section, as
`build_plan` does. The reference is `AtOnce`, which knows of no order: at each
place what was put there, then the original line if no operation names it.

### HashlineCommit

The commit of the files `build_plan` planned (`hashline.rs`), under the write
guard. `Check`, `Verify` and `Persist` rewrite a file; a file that is removed or
moved is renamed away (`Stage`), compared once more (`Recheck`), and removed
(`Delete`) or linked to its destination (`Prepare`, `Link`, `Unstage`,
`Unfinal`); `RestoreOr` and `Rollback` undo. Every step that is a file operation
may fail. A file is its text and whether it is the very file the plan saw,
which is what `ensure_current_file` compares. `kept` holds what stays in staging
directories; with it, "no text is lost" is an invariant.

### AstRewrite

A preview scans files (`ReadTree`, one step a file) and the engine keeps its
proposal (`Store`, `Room`, `Purged`) with the revision it then reads (the dict of
pending proposals is a set here, since each has an id that says when it came); an apply
takes the proposal under the engine's own lock (`Take`), compares the revision,
and on a thread takes the write guard (`LockGuard`), compares every file
(`Preflight`), replaces them one by one (`Verify`, `Persist`) and marks them
(`Mark`). Between an `await` and the next the event loop runs one task, so that
much is one step; `EnterThread` to `Mark` run on threads. `CancelRewrite` is what
`run_native` does with a cancelled caller: it tells the thread and waits for it.
Changes of the same session are in two steps (`Edit`, `MarkEdit`) under the
guard; `Outside` stands for other sessions, while the guard is free, and for
programs that take none (`foreign`).

### CommandExecution

A call of `execute` from the engine's `_active` (`Execute`, `Resume`) through
the thread (`Enter`), the lock of the whole program (`Acquire`), the baseline and
the shell (`Register`), the end of the command (`Run`: completed, cancelled or
out of time), the waves of termination (`Snapshot`, `Kill`, `EndWave`), the
shell's own jobs (`Jobs`) and the drain of the output (`Drain`). A wave looks
once and then kills one process after the other, and processes start others
(`Fork`), exit and leave orphans (`Exit`) or close their output at any moment in
between; the background jobs of the shell start programs then as well
(`ShellStart`), and `Jobs` kills those of them that a process represents, which
may be any. `Close`, `Closed` and `LeaveClose` are the close of a session, which
waits for its calls unless it is itself cancelled. `before`, `attached` and
`killed` are history. Of `SpawnRegistry` the Unix variant is modelled. A wave's look
at the table of processes is one step here, where the code reads entry by entry:
a process that is started, or loses its ancestors, during the reading may be
missed, as one is that does so before it. A background job that holds the output
counts among the processes whose output the drain waits for.

### FffIndex

The finder of one session. A call of the Python engine is the sequence of native
jobs that `Plan` gives: a search whose index is stale (`Stale`) first requests a
rescan and waits for it. A job runs on a thread: `Start` takes the startup lock
and makes the one picker there ever is; `WaitEnds`, `WaitTimesOut` and `Check`
are `wait_ready` (the watcher, too, may be late) and the status asked after it;
`Trigger` and `Triggered` are `rescan` and the status after it; `Search`,
`FallBack`, `SearchFails` and `SearchEnds` hold the picker's read lock; the close
(`CloseBegins`, `CloseEnds`) keeps the startup lock until the readers are gone.
`JobEnds` is the event loop taking the caller up again: only there is the
revision of that moment taken for indexed. Contents are revisions. The index
(the `fff_search` crate) is external: a scan reflects at least what was there
when it was requested (`ScanEnds`), the old index answers until it ends, and
with `Watch` changes may reach it by themselves (`WatcherNotices`). A scan
requested while the engine is being closed is taken to end with its picker.
`settled` is history.

### ProviderObservations

The session of a custom files provider, whose observations Python keeps. Each
call awaits one read of the provider; `BeginObserve`, `BeginPresent` and
`BeginValidate` are what happens before the `await`, `EndObserve`, `EndPresent`
and `EndValidate` what happens after, with whatever text and receipt the provider
then answers. The receipt names a path, canonical or refused (`ProviderFails`),
and its lines are recorded under that path, which the code does not compare with
the one that was read. `Record` is `_record`: it extends, collides, appends and forgets
the oldest. A call that waits holds the dict of digests it found, which later
records extend (`SharedWith`, `Detach`). `ClaimsHold` and `TrustHolds` are the
checks of `evidence.py`. That the lines shown by `observe_file` are lines of the
receipt's text is up to the provider and taken for granted (`EndObserve`); a
source for edits is compared with its receipt (`ClaimsHold`). In the run there is
one file, whose path every receipt names; the theorems are about any.
`shown` is history.

### TextContent, TextEdits, TextFiles

A file is a sequence of named bytes, enough to tell line endings, byte order
marks and characters of two bytes. `TextContent` is `content.rs`: decoding,
encoding, lines, byte spans as both sides compute them, ranges (`Refusable`,
`NormalizedRanges`) and the bounded rendering. `TextEdits` is `replace.rs`
(`Exact`, `Fuzzy`, `Replacement`), `text_similarity.rs` (`Best`) and
`unified_diff.rs` (`UnifiedDiff`): the new source, the lines that must have been
observed (`required`) and those presented again (`range`). `TextFiles` is a
file under all of this: `ReadWhole`, or the scanner of a file beyond the limit,
one chunk of any size at a time (`BeginScan`, `ScanChunk`, `EndScan`), or one
edit (`Replace`, `Update`) with the bytes it writes. The references are stated on
the lines of the decoded file, and know of no chunks, offsets or orders.

### WorkspaceViews

The finder and the rewrites of a session whose files are shown through views. A
step is what the event loop runs from one `await` to the next. `StartLocks`,
`Opens`, `FailsToOpen` and `StartReturns` are `start` with its undoing;
`CloseLocks`, `CloseEngine` and `CloseReturns` are `close`, which first takes the
engine away, then closes it, then gives the view back; `SessionCloses` is the
closing of the session, under a lock of its own. `SearchBegins` to `SearchEnds`
are a search, whose revision is asked for and compared (`Validate`) before the
engine is entered. `PreviewBegins` to `Store` and `Take` to `ApplyPatches` are
the rewrites. `Cancel` is a task cancelled where it waits for a lock or for the
provider. An engine is open or closed here; inside, it is as `FffIndex` says.
The view provider is external: a view shows the workspace as it was when the
view was acquired, and any acquisition may fail. A caller may have kept a
provider from before the session was closed: the provider does not ask
(`Begin`), and a start made then is one of those `overtaken` counts. `overtaken`
is history.

## Runs

| run | configuration | shows |
|---|---|---|
| `ledger` | 2 paths, 3 texts of which 2 share a tag, limits of 1 entry (too small for a whole one) or 3 entries of which 2 fit with what they showed, 4 uses | evidence, tags, accounting and eviction of the ledger; it implements `ObservationAuthority` |
| `workspace_sessions` | 2 sessions, 1 worker each, 1 path, 2 texts, 4 calls, 1 foreign write | the lock file keeps the files of a change still; every change is counted in its session, refused calls leave no trace, whatever is written outside |
| `workspace_workers` | 1 session, 2 workers, 2 paths, 3 calls | moves and overwrites implement `GuardedDisk`; the changes of two workers are counted in one revision, a half done move is answered as what it is; every call is answered |
| `patch` | up to 3 operations on 3 paths, 1 foreign write | preflight still holds at commit, answers are true, only authorized files change |
| `hashline_apply` | files of up to 3 lines, up to 2 operations a section, 2 sections, 2 registers, files shown in part or changed since | operations one after the other give what all at once would; lines that were not shown are not lost; the range presented covers the change |
| `hashline_commit` | 2 files, each kept, updated, removed or moved, 1 foreign write | no text is lost, refusals restore, partial commits are true |
| `ast_rewrite` | 2 files, 2 tasks, 3 calls, room for 1 or 2 proposals, 1 other change, 1 tick | proposals are kept and used once; a rewrite replaces all of what was previewed or nothing |
| `command` | 2 sessions, 1 command each, 2 processes | commands end what they started and nothing else; closed sessions run nothing; calls and closes return |
| `fff` | 2 callers, watching, 3 revisions | what a search may miss, that a closed engine lets go, that calls return |
| `provider` | 2 callers, 1 path, 3 texts of which 2 share a tag and a line, 1 entry | what is valid was shown as one text, what is editable is current, tags keep their text |
| `text_files` | every file of up to 4 pieces or 5 characters and short files that are no text; 18 reads, 112 replacements, 112 diffs | the readers agree, spans find their lines, unobserved lines survive, encodings are kept |
| `views` | 2 callers, 1 pending proposal, 3 revisions, 2 engines, 2 previews | views are held while needed and given back, nobody waits for ever, answers are of a current view |

Why the bounds are enough. In the ledger a collision takes two records, its
eviction a third and a question a fourth use, so every property meets its
hazard within four uses; the two limits make eviction by count, by bytes and of
everything but the protected entry happen. In the workspaces a change needs
two calls (a read and the change), so four calls let two sessions read and change
one file against each other, and three calls let one worker move or replace
what another is working on. The paths of a patch interfere pairwise, and three
operations give a first, a middle and a last one. Operations
of a hashline section interfere pairwise, on three lines in every way two
places can lie to each other, and a second section is enough to receive a
register; two files are a first one, which fails alone, and a later one, which
makes a partial commit. Three calls of an engine are two previews against one
place and an apply, or a preview and two applies of its proposal; one change
before, between or after its files meets a rewrite at every point, and one tick
ends the lifetime of a proposal. Two commands are one that holds the lock and
one that waits for it or comes after; two processes are a parent and its child,
or what an earlier command or the embedding program left and what the present
one starts.

Two callers of the finder are one that searches and one that rescans, starts or
closes against it, any number of times; three revisions are an index, a change
it misses and a change during the rescan for that one. Two callers of a provider
are one that waits with an entry and one that records, collides or, with room for
one entry, forgets it; the third text is the one that makes the store forget. In
the text files four pieces put every line ending, a byte order mark and a
character of two bytes next to each other in every order, with a chunk ending
between any two bytes; five characters are three lines, on which two hunks lie
before, next to and across each other. A second engine is what a close and a
start during a search exchange, and a second preview is what makes one pending
proposal give way.

All bounds are named: `MaxClock`, `MaxCalls`, `MaxForeign`, `MaxEdits`,
`MaxChanged`, `MaxOperations`, `MaxSections`, `MaxRevision`, `MaxEngines`,
`MaxPreviews`; `MaxEntries`, `MaxPending` and `MaxUsize` are limits of the code at
a small value. Models that stop at their bounds, or at the end of the one thing
they do, are not checked for deadlock; `fff` and `provider` never stop and are.
Callers, texts and tasks that are alike are symmetric where no liveness is
checked.

`TypeOK`, where a module has it, documents the state; it is proved for the ledger,
the workspaces, patches, both halves of a hashline edit, commands and rewrites.

### Known behaviours

What the code does and a reader may not expect. Each is in the models, and the
properties are stated so as to leave it out, where the comment of the property
says so.

Answers that do not tell of a change:
- A session that is closed after its change landed answers `Closed`, as if
  nothing had happened (`workflows.rs:91`; `Present` of `WorkspaceMutations`;
  `tests/test_files_state_models.py:185` expects changes to be reported).
- A patch cancelled between the update and the move of its first operation
  answers `Cancelled` with the file rewritten (`patch_commit.rs:105`; `Ask` of
  `PatchCommit`), and a hashline edit cancelled between its files does with
  earlier files changed (`hashline.rs:33`; `NextFile` of `HashlineCommit`). A
  rewrite does so, too, and leaves those files unmarked (`Verify`, `Persist` of
  `AstRewrite`).
- A move that links its destination and cannot remove its source answers a
  partial commit with the destination landed and no change for it, and does not
  mark it (`Unlink`).
- A hashline file whose session closes after its change landed is named pending
  (`Fail` of `HashlineCommit`).
- An observation that was evicted is reported as a changed file (`CurrentResult`
  of `Ledger`).

Edits that do more or other than they name:
- A line put inside a range that another operation removes goes with it, or a
  line of the range stays (`hashline_apply.rs:74`; `Perform`).
- A replacement that takes a newline without putting one back joins the next
  line, which need not have been observed (`replace.rs:116`; `Opened` of
  `TextFiles`).
- U+FEFF that an edit makes the first character is dropped as a byte order mark
  (`content.rs:71`; `FromReplacement`).
- A fuzzy match replaces the first occurrence of its text, in the middle of
  another line perhaps (`replace.rs:189`; `Fuzzy`).
- A hunk that only adds lines is never found (`unified_diff.rs:40`;
  `ExactPositions`).
- A rewrite through a view patches the file of that moment, which may have
  changed since it was read (`views.py:125`; `ApplyPatches` of `WorkspaceViews`).

Readers that differ:
- In a file with several kinds of line endings the byte spans of lines are not
  those of the file (`content.rs:103`; `SpansFindTheirLines` is about the others).
- A file of nothing but a byte order mark has one line for the scanner of
  oversized files and none for a whole read (`read_ranges.rs:95`;
  `ReadersAgree`).

Waiting and closing:
- A command out of time waits for the end of its output, with the lock of all
  commands, while a process it cannot reach keeps the pipe open
  (`command/mod.rs:86`; README.md:132 of the repository says a timeout ends it).
  `CallsAndClosesReturn` has the premise that such a process closes its output.
- A process that the embedding program starts while a command runs is killed
  with the command's (`HostStart`, `Snapshot` of `CommandExecution`).
- A session close that is cancelled while it waits leaves the session closed and
  its services open, and a start queued behind the close, or made later on a
  provider kept from before, acquires a view nobody gives back (`service.py:168`,
  `views.py:192`; `overtaken` of `WorkspaceViews`).

Freshness:
- A change made during a search, or while the index is waited for, is taken for
  indexed and not rescanned for (`fff/engine.py:156`; `JobEnds` of `FffIndex`);
  `SearchesShowSettledChanges` is about changes made while no call is under way.
- A search whose wait was overtaken by the rescan of another answers that the
  index is not ready (`fff/engine.rs:164`; `Check`).
- A provider's tag may come to stand for another text once its entry is
  forgotten (`provider_observations.py:161`; `Record` of `ProviderObservations`).
- A program that takes no lock can rewrite a file between the last look at it and
  its removal or replacement (`write.rs:166`; `Verify`, `Persist`).

### Fairness

`WF_vars(Step(w))` for every worker: a thread that can go on is scheduled and a
file operation returns. Neither the mutex nor the lock file is fair, and no
fairness of a lock is assumed: finitely many calls compete, and `Step` is
disabled while another holds the lock. A lock file that fails does so when it is
opened, never as a way out of waiting. Nothing is assumed of callers,
cancellations, closes and foreign writes. `EveryCallIsAnswered` needs no more.

In `CommandExecution`, `WF_vars(Step(c))` for every call and `WF_vars(Closed(s))`
for every close: threads, timers and the event loop go on. A timer is what makes
`Run` end a command. Nothing is assumed of processes: whether they exit, fork or
close their output is up to them. That is why `CallsAndClosesReturn` has the
premise that what survives a command closes its output.

In `FffIndex`, `WF_vars(Native(c))` for every caller and `WF_vars(ScanEnds)`: the
threads of the executor run, timers included, and a scan that is not cancelled
ends. Nothing is assumed of callers, of changes and of the watcher.

The other modules are checked for safety alone and state no fairness.
`WorkspaceViews` says what its liveness would rest on as an invariant
(`HoldersRunOn`): whoever holds a lock waits for none that its waiters hold.

## Proofs

TLC checks the runs above on small instances; TLAPS proves the following for
every value of the constants: any paths, texts, callers, sessions and
processes, any limits, and any number of steps. The only assumptions are the
named `ASSUME`s of the modules, which TLC evaluates on every run. Eight modules
hold the proofs of ten components, and each proof is laid out alike: an inductive
invariant in named parts (checked by TLC before it was proved), a lemma for each
action that keeps it, `Spec => []IInv`, and the properties from there. Two
modules are about a second component as well: `CommandExecutionProofs` about
`AstRewrite` (its invariant is `RewriteInv`), because rewrites and commands are
what an event loop runs on other threads, and `HashlineCommitProofs` about
`HashlineApply` (`LinesInv`), the first half of the same edit. They extend both
modules, which is why `AstRewrite` and `HashlineApply` have names of their own
for what every module has (`RewriteSpec`, `PlanSpec` and so on).

| module of proofs | proves |
|---|---|
| `ObservationLedgerProofs` | `LedgerTypes`, `GrantsOnlyPresentedLines`, `GrantsAreUnambiguous`, `RetainedBytesAreExact`, `RetainsMostRecentlyUsed`, `ImplementsAuthority` |
| `WorkspaceMutationsProofs` | `TypeOK`, `GuardKeepsFiles`, `ChangesAreAccountedFor`, `ImplementsGuardedDisk` |
| `PatchCommitProofs` | `TypeOK`, `AnswersAreTrue`, `PreflightStillHolds`, `OnlyAuthorizedFilesAreChanged` |
| `HashlineCommitProofs` | `TypeOK`, `NothingIsLost`, `AnswersAreTrue`; of `HashlineApply`: `PlanTypeOK`, `UnshownLinesSurvive`, `ChangedRangeCoversTheChange` |
| `CommandExecutionProofs` | `TypeOK`, `EarlierProcessesAreSpared`, `OnlyUnattachedProcessesSurvive`, `ClosedSessionsRunNothing`; of `AstRewrite`: `RewriteTypeOK`, `NewestProposalsStay`, `RewritesAreWhole`, `RewritesReplaceWhatWasPreviewed` |
| `FffIndexProofs` | `ClosedEngineLetsGo`, `SearchesShowSettledChanges` |
| `ProviderObservationsProofs` | `ValidLinesAreOfOneShownText`, `EditableSourceIsCurrent`, `TagsAreNeverRebound` |
| `WorkspaceViewsProofs` | `ViewsAreHeldWhileNeeded`, `HoldersRunOn`, `AnswersAreOfACurrentView` |

Why each holds, and what had to be added to make it inductive:

- **Ledger.** A grant is made from an entry, but entries come and go; so the
  invariant speaks of what they are evidence of. Each entry's lines were shown
  and a complete one has all lines of its text; every known text's tag is
  registered, to that text or as a collision; a registered collision and a
  tombstone go together. The refinement of `ObservationAuthority` follows. The
  accounting is a second invariant, `Retained`: the lines of an entry
  are a finite set, merging adds those that were not there, and the bytes of what
  is left after an eviction are those of a smaller set; every entry's last use is
  that of the history, and the survivors of an eviction are the newest.
- **Workspaces.** A worker from its load to its answer holds the lock file
  (`HoldsLock`), so no two workers of any session are there together. What it may
  overwrite was shown whole to its session (`WasShown`), because a complete entry
  of the ledger was (`CompleteWasShown`); the files of its change are as its own
  steps left them (`FilesStay`). A step that lands is therefore a step of
  `GuardedDisk`, a move in two: the link and the removal.
- **Patches.** Preflight has every path and destination named once
  (`NamesAreDistinct`). So an operation leaves alone the files of all others: those
  before it stand as they were reported, and those after it as preflight found
  them (`Waiting`); `ReportsAreExact` relates the progress to what is reported.
- **Hashline commit.** `FileFits` says where each file is: at its path as it was
  planned, or committed; `CurrentFits` where the current one is at each step,
  staged or kept included. `StagingFits` ties the two handles of the staging
  directory to the step. `PlanOK`, which planning guarantees, has the names of the
  files apart.
- **Lines of a hashline edit.** The state to know of is inside one step: the edits
  of a section and the texts between them. `Stands` says of the operations
  performed so far that each edit lies within the file, removes only lines shown
  as they are, and has an order of its own; with `Resolved` no two remove the same
  line (`EditsOf`). `Later` then puts the edits in one sequence (`TurnsAreEdits`,
  by counting), and after the first n of them the text still has a line for each
  line of the file before the first range removed so far (`Reaches`), so that no
  edit reaches past the text it is made in. There the lines no edit removes so far
  are, in order, those below that range at their own places (`Located`), so a line
  nobody was shown, which no range includes, is in the new text. What the
  recursive functions compute is reached by the least number for which it would
  fail (`UpTo`). The range presented is an argument of its own about the
  lines two texts share at both ends (`ChangedRangeFits`).
- **Commands.** A wave looks once and then kills what it found, while processes
  come and go. What it finds descends from the program and was not in the
  baseline. A process from before the command descends from such processes only,
  since a parent that exits leaves orphans and never a foster child of the
  program (`EarlierStayApart`). The other way round, `Caught` says that a process
  once within reach is dead or among the targets of the wave. Descendants are the
  least set closed under children, so both facts are shown by giving a closed set.
- **Rewrites.** Proposals are stored in the order of their ids, one for each
  position of `stored`, and what is pending is among the newest (`ProposalsStand`);
  with the size of the set bounded by its capacity, a proposal that gave way has as
  many newer ones. A task between its lock and its answer holds the write guard
  (`TaskFits`), alone, so the files it has compared and not yet replaced stay as they
  were compared (`FilesStay`), and how many it has replaced follows from the step it
  is at (`Progress`).
- **Finder.** The index reflects the settled change, or will when the scan under
  way ends, as long as the revision taken for indexed is the present one
  (`IndexIsFresh`); the same of what each search owes, from the end of its rescan
  until it is shown (`CallIsFresh`). The closer that holds the startup lock is the
  one whose stage says so (`LockIsTheClosers`).
- **Provider.** A call keeps the dict it found across its `await`, and later
  records extend it. The invariant says of the entries and of every dict a call
  holds that it has digests of lines of one text with that tag, all of them shown
  (`HeldDigestsFit`), and that no two entries have one key.
- **Views.** The finder's lock is held by a call that opens or closes
  (`CallHolds`), and an engine that is held and not the provider's belongs to that
  call (`EnginesStand`); so a search has the provider's engine or one that its
  closer keeps until the search is done. `ClosedStaysEmpty` is the closing of the
  session.

The proofs are about `foreign = 0`, `~overtaken` and the like exactly where the
properties are.

Only model-checked:

- `EveryCallIsAnswered`, `CallsAndClosesReturn` and `CallsReturn`: liveness under
  fairness, which is out of the prover's reach with `ENABLED`.
- `EditsApplyAtOnce` of `HashlineApply`, and all properties of `TextFiles`: what a
  fold or a sort of the community modules makes of a text of any length needs
  induction over the text, which the installed provers cannot do. Where the models
  have recursive functions of their own, induction on their argument was enough.

## Not modelled

- Third-party code: the shell, parsers, regular expressions, ranking, the
  index's contents. What it answers is a nondeterministic choice where it
  matters.
- Directory reads, scans, selections, content search and discovery: sequential
  walks with limits that keep no state between calls; their entries and ignore
  rules come from a library. The deadlines of `control.rs` belong to them.
- Paths: normalization and containment depend on the platform's file system; the
  modules take normalized paths.
- Policies and edit modes: two settings with a generation each. That they are
  captured under separate locks matters little: nothing relates the two.
- Building of sessions, plugins, subscriptions and the publication of events,
  which is up to the embedding program's listeners.
- The native evidence (`evidence.rs`): a read and a record of the ledger, without
  a step of its own.
- The envelope of a structured patch and the parsing of diffs; which bytes of a
  command's output are kept; the Windows job object.
- Layout of results, tool descriptions, value models and conversions between
  Rust and Python.

Symbolic links and permissions are part of what "a file operation may fail"
stands for. Crashes in the middle of a call lose nothing but the call: no state of
a session is persistent, the lock file is released by the operating system, and a
file is replaced by one rename. The exception is a process killed while a
hashline edit has a file staged: the file stays in the staging directory, and
nothing in the code looks for it.

## Plan

Next, in order of what a failure would cost:

1. `PatchCommit` with the hunks of `TextEdits` in place of opaque texts;
2. `EditsApplyAtOnce` for edits of any number, with folds and sorts that can be
   reasoned about in place of those of the community modules;
3. the tail of a command's output, the bounds of scans and listings, paths.
