-------------------------- MODULE CommandExecution --------------------------
(***************************************************************************)
(* Shell commands of workspace sessions: the engine of each session        *)
(* (command/engine.py), the native execution under one lock of the whole   *)
(* program (command/mod.rs), and the termination of the processes that a   *)
(* command leaves (command/processes.rs, as built for Unix).               *)
(*                                                                         *)
(* A process stands for its number and start time together, so no process  *)
(* is taken for a later one.  What processes do is up to them: they start  *)
(* others, which inherit their output, close it, and exit whenever they    *)
(* like; the children of a process that is gone belong to nobody.  Output  *)
(* is left out but for one thing: a command's output ends when no process  *)
(* can write to it any more.                                               *)
(***************************************************************************)
EXTENDS Naturals

CONSTANTS
  Process,
  Call,       \* calls of execute, one command each
  Session,
  Home,       \* the session of a call
  Host,       \* the program that embeds the sessions
  Orphan,     \* the parent of children whose own is gone
  Free        \* the holder of a lock nobody holds

ASSUME HomeAssumption == Home \in [Call -> Session]
ASSUME ProcessAssumption ==
  /\ {Host, Orphan} \cap Process = {} /\ Host # Orphan
  /\ {Host, Free} \cap Call = {}

VARIABLES
  pc, result,  \* where each call is, and how its command ended
  cancelled,   \* the cancellation of each call
  closing,     \* close of each session: "open", "waiting", "left" or "closed"
  lock,        \* COMMAND_EXECUTION_LOCK
  baseline,    \* SpawnRegistry: processes that were there before
  identities,  \* SpawnRegistry: processes found so far
  wave, targets,  \* the wave of termination and who is still to be killed
  alive, parent,  \* processes and their parents
  owner,       \* the call each process was started for, or Host
  writers,     \* processes that hold the output of their command open
  \* history of the command that has the lock:
  before,      \* the processes there before it
  attached,    \* the processes the host was an ancestor of in some wave
  killed       \* the processes it killed

engineVars == <<cancelled, closing>>
registryVars == <<baseline, identities, wave, targets>>
processVars == <<alive, parent, owner, writers>>
historyVars == <<before, attached, killed>>
vars == <<pc, result, engineVars, lock, registryVars, processVars, historyVars>>

Waves == 3

Init ==
  /\ pc = [c \in Call |-> "idle"] /\ result = [c \in Call |-> "none"]
  /\ cancelled = [c \in Call |-> FALSE] /\ closing = [s \in Session |-> "open"]
  /\ lock = Free
  /\ baseline = {} /\ identities = {} /\ wave = 1 /\ targets = {}
  /\ alive = {} /\ parent = [p \in Process |-> p] /\ owner = [p \in Process |-> Host]
  /\ writers = {}
  /\ before = {} /\ attached = {} /\ killed = {}

\* Calls in _active of a session's engine
Active(s) == {c \in Call : Home[c] = s /\ pc[c] \notin {"idle", "done"}}

\* Calls that will still ask whether they are cancelled: after Run nobody does.
Heeding == {c \in Call : pc[c] \in {"enter", "lock", "shell", "run"}}

Goto(c, step) == pc' = [pc EXCEPT ![c] = step]

Ended(c, step, how) == Goto(c, step) /\ result' = [result EXCEPT ![c] = how]

-----------------------------------------------------------------------------
(* Processes *)

\* descendant_order: the roots and what descends from them, which is the least
\* set that has the roots and every child of its processes.
ClosedUnderChildren(found) == \A p \in alive : parent[p] \in found => p \in found
Descendants(roots) ==
  {p \in Process : \A found \in SUBSET Process :
                      roots \subseteq found /\ ClosedUnderChildren(found) => p \in found}

OfHost == Descendants({p \in alive : parent[p] = Host})

Children(p) == {q \in alive : parent[q] = p}

\* A process appears, with a parent and on behalf of a call.
Start(p, by, for) ==
  /\ parent[p] = p  \* which has not been there yet
  /\ alive' = alive \cup {p}
  /\ parent' = [parent EXCEPT ![p] = by]
  /\ owner' = [owner EXCEPT ![p] = for]

Gone(p) ==
  /\ alive' = alive \ {p}
  /\ writers' = writers \ {p}
  /\ parent' = [q \in Process |-> IF q \in Children(p) \cup {p} THEN Orphan ELSE parent[q]]
  /\ owner' = [owner EXCEPT ![p] = Host]

\* The shell of a command starts a program, or its background jobs do: they
\* go on whenever the runtime of the call waits, until its output has been
\* read.
ShellStart(c, p) ==
  /\ pc[c] \in {"run", "wave", "kill", "jobs", "drain"} /\ result[c] # "failed"
  /\ Start(p, Host, c)
  /\ writers' = writers \cup {p}
  /\ UNCHANGED <<pc, result, engineVars, lock, registryVars, historyVars>>

Fork(q, p) ==
  /\ q \in alive
  /\ Start(p, q, owner[q])
  /\ writers' = IF q \in writers THEN writers \cup {p} ELSE writers
  /\ UNCHANGED <<pc, result, engineVars, lock, registryVars, historyVars>>

\* The program that embeds the sessions starts a process of its own.
HostStart(p) ==
  /\ Start(p, Host, Host)
  /\ UNCHANGED <<pc, result, engineVars, lock, registryVars, writers, historyVars>>

CloseOutput(p) ==
  /\ p \in writers /\ writers' = writers \ {p}
  /\ UNCHANGED <<pc, result, engineVars, lock, registryVars, alive, parent, owner, historyVars>>

Exit(p) ==
  /\ p \in alive
  /\ Gone(p)
  /\ UNCHANGED <<pc, result, engineVars, lock, registryVars, historyVars>>

-----------------------------------------------------------------------------
(* A call of execute *)

Execute(c) ==
  /\ pc[c] = "idle"
  /\ Goto(c, IF closing[Home[c]] = "open" THEN "enter" ELSE "done")
  /\ UNCHANGED <<result, engineVars, lock, registryVars, processVars, historyVars>>

\* command_execute on its thread
Enter(c) ==
  /\ pc[c] = "enter"
  /\ IF closing[Home[c]] \in {"left", "closed"} THEN Ended(c, "resume", "closed")
     ELSE Goto(c, "lock") /\ UNCHANGED result
  /\ UNCHANGED <<engineVars, lock, registryVars, processVars, historyVars>>

\* Mutant: the lock stays taken when the command cannot be prepared.
AcquireForGood(c) ==
  /\ pc[c] = "lock" /\ lock = Free /\ lock' = c
  /\ \/ Ended(c, "resume", "failed")
     \/ Goto(c, "shell") /\ UNCHANGED result
  /\ UNCHANGED <<engineVars, registryVars, processVars, historyVars>>

\* The lock is waited for, whatever happens to the call meanwhile.  The
\* directory or the pipe may not be there.
Acquire(c) ==
  /\ pc[c] = "lock" /\ lock = Free
  /\ \/ Ended(c, "resume", "failed") /\ UNCHANGED lock
     \/ Goto(c, "shell") /\ lock' = c /\ UNCHANGED result
  /\ UNCHANGED <<engineVars, registryVars, processVars, historyVars>>

\* Mutant: a registry knows of no process before it.
RegisterNothing(c) ==
  /\ pc[c] = "shell"
  /\ baseline' = {} /\ identities' = {} /\ wave' = 1 /\ targets' = {}
  /\ before' = alive /\ UNCHANGED <<attached, killed>>
  /\ \/ Goto(c, "run") /\ UNCHANGED result
     \/ Ended(c, "drain", "failed")
  /\ UNCHANGED <<engineVars, lock, processVars>>

\* SpawnRegistry::new, and the shell, which may not be created
Register(c) ==
  /\ pc[c] = "shell"
  /\ baseline' = OfHost /\ identities' = {} /\ wave' = 1 /\ targets' = {}
  /\ before' = alive /\ UNCHANGED <<attached, killed>>
  /\ \/ Goto(c, "run") /\ UNCHANGED result
     \/ Ended(c, "drain", "failed")
  /\ UNCHANGED <<engineVars, lock, processVars>>

\* The command is over for execute when it is, when it is cancelled or when
\* its time is up, whichever is noticed first.
Run(c) ==
  /\ pc[c] = "run"
  /\ \/ Ended(c, "wave", "completed")
     \/ cancelled[c] /\ Ended(c, "wave", "cancelled")
     \/ Ended(c, "wave", "timed_out")
  /\ cancelled' = [cancelled EXCEPT ![c] = FALSE]
  /\ UNCHANGED <<closing, lock, registryVars, processVars, historyVars>>

\* Mutant: only children of the host are looked for.
SnapshotChildren(c) ==
  /\ pc[c] = "wave"
  /\ targets' = (identities \cap alive) \cup {p \in alive : parent[p] = Host /\ p \notin baseline}
  /\ identities' = identities \cup targets'
  /\ attached' = attached \cup OfHost
  /\ \/ targets' = {} /\ Goto(c, "jobs")
     \/ targets' \cup identities # {} /\ Goto(c, "kill")
  /\ UNCHANGED <<result, engineVars, lock, baseline, wave, processVars, killed, before>>

\* terminate_wave looks for processes known from earlier waves and for what
\* descends from the host and was not there before, with what descends from
\* these.  Who was killed but not waited for yet still counts as found.  The
\* table of processes is read entry by entry; here it is as of one instant.
Snapshot(c) ==
  /\ pc[c] = "wave"
  /\ targets' = Descendants((identities \cap alive) \cup (OfHost \ baseline))
  /\ identities' = identities \cup targets'
  /\ attached' = attached \cup OfHost
  /\ \/ targets' = {} /\ Goto(c, "jobs")
     \/ targets' \cup identities # {} /\ Goto(c, "kill")
  /\ UNCHANGED <<result, engineVars, lock, baseline, wave, processVars, killed, before>>

\* ... and kills them one by one, children before their parents.
Kill(c, p) ==
  /\ pc[c] = "kill" /\ p \in targets /\ Children(p) \cap targets = {}
  /\ targets' = targets \ {p}
  /\ IF p \in alive
     THEN Gone(p) /\ killed' = killed \cup {p}
     ELSE UNCHANGED <<processVars, killed>>
  /\ UNCHANGED <<pc, result, engineVars, lock, baseline, identities, wave, before, attached>>

\* The next wave comes after a pause, if there is one.
EndWave(c) ==
  /\ pc[c] = "kill" /\ targets = {}
  /\ IF wave < Waves THEN wave' = wave + 1 /\ Goto(c, "wave")
     ELSE Goto(c, "jobs") /\ UNCHANGED wave
  /\ UNCHANGED <<result, engineVars, lock, baseline, identities, targets, processVars, historyVars>>

\* terminate_jobs: jobs of the shell that still run are killed and waited
\* for, those that have a process to represent them.
Jobs(c) ==
  /\ pc[c] = "jobs"
  /\ \/ Goto(c, "drain") /\ UNCHANGED <<processVars, killed>>
     \/ \E p \in alive : /\ parent[p] = Host /\ owner[p] = c
                         /\ Gone(p) /\ killed' = killed \cup {p}
                         /\ UNCHANGED pc
  /\ UNCHANGED <<result, engineVars, lock, registryVars, before, attached>>

\* Processes that keep the output of a call open
Writing(c) == {p \in writers : owner[p] = c}

\* The output is read to its end, and the lock and the registry dropped.
Drain(c) ==
  /\ pc[c] = "drain" /\ Writing(c) = {}
  /\ lock' = Free
  /\ baseline' = {} /\ identities' = {} /\ wave' = 1 /\ targets' = {}
  /\ before' = {} /\ attached' = {} /\ killed' = {}
  /\ Goto(c, "resume")
  /\ UNCHANGED <<result, engineVars, processVars>>

\* Back on the loop, the call leaves _active and answers.
Resume(c) ==
  /\ pc[c] = "resume"
  /\ Ended(c, "done", "none")
  /\ cancelled' = [cancelled EXCEPT ![c] = FALSE]
  /\ UNCHANGED <<closing, lock, registryVars, processVars, historyVars>>

\* The task that awaits the call is cancelled.
Cancel(c) ==
  /\ c \in Heeding /\ ~cancelled[c]
  /\ cancelled' = [cancelled EXCEPT ![c] = TRUE]
  /\ UNCHANGED <<pc, result, closing, lock, registryVars, processVars, historyVars>>

-----------------------------------------------------------------------------
(* Closing a session *)

Close(s) ==
  /\ closing[s] = "open"
  /\ closing' = [closing EXCEPT ![s] = "waiting"]
  /\ cancelled' = [c \in Call |-> cancelled[c] \/ c \in Active(s) \cap Heeding]
  /\ UNCHANGED <<pc, result, lock, registryVars, processVars, historyVars>>

\* Mutant: close tells the calls, and does not wait for them.
CloseNow(s) ==
  /\ closing[s] = "waiting"
  /\ closing' = [closing EXCEPT ![s] = "closed"]
  /\ UNCHANGED <<pc, result, cancelled, lock, registryVars, processVars, historyVars>>

\* The native session is closed after its calls have ended.
Closed(s) ==
  /\ closing[s] = "waiting" /\ Active(s) = {}
  /\ closing' = [closing EXCEPT ![s] = "closed"]
  /\ UNCHANGED <<pc, result, cancelled, lock, registryVars, processVars, historyVars>>

\* A close that is itself cancelled closes the native session and leaves.
LeaveClose(s) ==
  /\ closing[s] = "waiting"
  /\ closing' = [closing EXCEPT ![s] = "left"]
  /\ UNCHANGED <<pc, result, cancelled, lock, registryVars, processVars, historyVars>>

Step(c) ==
  \/ Enter(c) \/ Acquire(c) \/ Register(c) \/ Run(c)
  \/ Snapshot(c) \/ EndWave(c) \/ (\E p \in Process : Kill(c, p)) \/ Jobs(c)
  \/ Drain(c) \/ Resume(c)

Next ==
  \/ \E c \in Call : Execute(c) \/ Step(c) \/ Cancel(c)
  \/ \E s \in Session : Close(s) \/ Closed(s) \/ LeaveClose(s)
  \/ \E p \in Process : CloseOutput(p) \/ Exit(p) \/ HostStart(p)
  \/ \E p, q \in Process : Fork(q, p)
  \/ \E c \in Call, p \in Process : ShellStart(c, p)

\* Threads, timers and the event loop go on; processes and callers need not.
Fairness ==
  /\ \A c \in Call : WF_vars(Step(c))
  /\ \A s \in Session : WF_vars(Closed(s))

Spec == Init /\ [][Next]_vars /\ Fairness
-----------------------------------------------------------------------------
(* Properties *)

\* Types; whoever writes to a command's output is there, and one command at
\* a time is past the lock.
TypeOK ==
  /\ pc \in [Call -> {"idle", "enter", "lock", "shell", "run", "wave", "kill", "jobs",
                      "drain", "resume", "done"}]
  /\ result \in [Call -> {"none", "completed", "failed", "cancelled", "timed_out", "closed"}]
  /\ cancelled \in [Call -> BOOLEAN]
  /\ closing \in [Session -> {"open", "waiting", "left", "closed"}]
  /\ lock \in Call \cup {Free}
  /\ \A c \in Call : pc[c] \in {"shell", "run", "wave", "kill", "jobs", "drain"} => lock = c
  /\ baseline \subseteq Process /\ identities \subseteq Process /\ targets \subseteq identities
  /\ wave \in 1..Waves
  /\ writers \subseteq alive /\ alive \subseteq Process
  /\ parent \in [Process -> Process \cup {Host, Orphan}]
  /\ owner \in [Process -> Call \cup {Host}]

\* A command ends no process that was there before it, in particular none
\* the embedding program had started or an earlier command had left.
EarlierProcessesAreSpared == killed \cap before = {}

\* What is left of a command while its output is awaited was never within
\* reach: at no snapshot did the host descend to it.  It came after the last
\* one, from background jobs too, or had lost its ancestors before each.
OnlyUnattachedProcessesSurvive ==
  \A c \in Call :
    pc[c] = "drain" => \A p \in alive : owner[p] = c => p \notin attached

\* When a close has returned no command of the session runs, and none will
\* (test_workspace_close_cancels_active_command_before_returning).
ClosedSessionsRunNothing ==
  \A s \in Session : closing[s] = "closed" => Active(s) = {}

\* Provided that what survives a command closes its output in the end, every
\* call returns, whatever other sessions run, and every close with it.
CallsAndClosesReturn ==
  (\A c \in Call : []<>(pc[c] = "drain" => Writing(c) = {})) =>
    /\ \A c \in Call : pc[c] = "enter" ~> pc[c] = "done"
    /\ \A s \in Session : closing[s] = "waiting" ~> closing[s] # "waiting"
=============================================================================
