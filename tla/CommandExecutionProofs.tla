------------------------ MODULE CommandExecutionProofs ------------------------
(***************************************************************************)
(* Theorems about what the event loop runs on other threads: commands, and *)
(* then structural rewrites.  About commands, for any number of calls,     *)
(* sessions and processes: a process that was there before a command has   *)
(* no ancestor among those the command started, and none was ever moved    *)
(* under the program; so what a wave of termination finds is the command's *)
(* own.                                                                    *)
(***************************************************************************)
EXTENDS CommandExecution, AstRewrite, FiniteSetTheorems, TLAPS

Steps == {"idle", "enter", "lock", "shell", "run", "wave", "kill", "jobs", "drain", "resume", "done"}
Results == {"none", "completed", "failed", "cancelled", "timed_out", "closed"}

\* The steps of a command that has the lock, and those in which it has or
\* had processes
Locked == {"shell", "run", "wave", "kill", "jobs", "drain"}
Working == Locked \ {"shell"}

-----------------------------------------------------------------------------
(* The inductive invariant *)

\* A process has its parent for as long as that is there.
Rooted == \A p \in alive : parent[p] # p /\ parent[p] \in alive \cup {Host, Orphan}

\* Processes from before a command descend from such processes only, and
\* those the host did not descend to then it never descends to.
EarlierStayApart ==
  /\ before \subseteq Process /\ baseline \subseteq before
  /\ \A p \in before : parent[p] # p /\ parent[p] \in before \cup {Host, Orphan}
  /\ \A p \in before \ baseline : parent[p] \in (before \ baseline) \cup {Orphan}

\* What a command finds and kills was not there before it.
Spared == identities \cap before = {} /\ killed \cap before = {}

\* A process is of a command that has run its shell, and not of one that
\* began after it.
Owned ==
  /\ \A p \in alive, c \in Call : owner[p] = c => pc[c] \in Working \cup {"resume", "done"}
  /\ \A p \in before, c \in Call : pc[c] \in Working => owner[p] # c

\* A process of the command that was within reach is gone, or about to be
\* killed.
Caught ==
  /\ \A p \in attached : p \in Process /\ parent[p] # p
  /\ \A p \in alive \cap attached, c \in Call :
       pc[c] \in Working /\ owner[p] = c => pc[c] = "kill" /\ p \in targets

\* A command starts with its history empty.
Fresh ==
  /\ lock = Free => attached = {} /\ killed = {}
  /\ \A c \in Call : pc[c] \in {"shell", "run"} => attached = {} /\ killed = {}

\* A closed session has no call on its way.
Quiet == \A c \in Call : closing[Home[c]] = "closed" => pc[c] \in {"idle", "done"}

IInv ==
  /\ TypeOK /\ Rooted /\ EarlierStayApart /\ Spared
  /\ Owned /\ Caught /\ Fresh /\ Quiet

-----------------------------------------------------------------------------
(* Descendants *)

\* The descendants of processes are processes, the roots among them, and the
\* children of a descendant that is there.
LEMMA DescendantsAreClosed ==
  ASSUME NEW roots \in SUBSET Process, TypeOK
  PROVE  /\ Descendants(roots) \subseteq Process /\ roots \subseteq Descendants(roots)
         /\ ClosedUnderChildren(Descendants(roots))
<1>1. Descendants(roots) \subseteq Process /\ roots \subseteq Descendants(roots)
  BY DEF Descendants
<1>2. ASSUME NEW p \in alive, parent[p] \in Descendants(roots)
      PROVE  p \in Descendants(roots)
  BY <1>2 DEF Descendants, ClosedUnderChildren, TypeOK
<1> QED
  BY <1>1, <1>2 DEF ClosedUnderChildren

\* They are in every set that has the roots and is closed under children.
LEMMA DescendantsAreLeast ==
  ASSUME NEW roots, NEW found \in SUBSET Process, roots \subseteq found, ClosedUnderChildren(found)
  PROVE  Descendants(roots) \subseteq found
BY DEF Descendants

\* The host descends to a process of its own, and from there on.
LEMMA HostDescends ==
  ASSUME TypeOK
  PROVE  /\ OfHost \subseteq Process
         /\ \A p \in alive : parent[p] = Host \/ parent[p] \in OfHost => p \in OfHost
<1> DEFINE roots == {p \in alive : parent[p] = Host}
<1>1. roots \in SUBSET Process
  BY DEF TypeOK
<1>2. OfHost = Descendants(roots)
  BY DEF OfHost
<1> HIDE DEF roots
<1>3. OfHost \subseteq Process /\ roots \subseteq OfHost /\ ClosedUnderChildren(OfHost)
  BY <1>1, <1>2, DescendantsAreClosed
<1> QED
  BY <1>3 DEF ClosedUnderChildren, roots

\* The host does not descend to a process it did not descend to before the
\* command.
LEMMA HostDescendsToNewOnes ==
  ASSUME TypeOK, EarlierStayApart
  PROVE  (OfHost \ baseline) \cap before = {}
<1> DEFINE roots == {p \in alive : parent[p] = Host}
           found == Process \ (before \ baseline)
<1>1. roots \subseteq found /\ found \in SUBSET Process
  BY ProcessAssumption DEF TypeOK, EarlierStayApart
<1>2. ClosedUnderChildren(found)
  BY ProcessAssumption DEF ClosedUnderChildren, TypeOK, EarlierStayApart
<1>3. OfHost = Descendants(roots)
  BY DEF OfHost
<1> HIDE DEF roots, found
<1>4. OfHost \subseteq found
  BY <1>1, <1>2, <1>3, DescendantsAreLeast
<1> QED
  BY <1>4 DEF found

\* A process from before a command descends from none of its own.
LEMMA NewOnesDescendToNewOnes ==
  ASSUME TypeOK, EarlierStayApart, NEW roots \in SUBSET Process, roots \cap before = {}
  PROVE  Descendants(roots) \cap before = {}
<1> DEFINE found == Process \ before
<1>1. roots \subseteq found /\ found \in SUBSET Process
  OBVIOUS
<1>2. ClosedUnderChildren(found)
  BY ProcessAssumption DEF ClosedUnderChildren, TypeOK, EarlierStayApart
<1> HIDE DEF found
<1>3. Descendants(roots) \subseteq found
  BY <1>1, <1>2, DescendantsAreLeast
<1> QED
  BY <1>3 DEF found

-----------------------------------------------------------------------------
(* Processes come and go *)

\* A new process belongs to nobody's history.
LEMMA StartKeeps ==
  ASSUME IInv, NEW p \in Process, NEW by \in alive \cup {Host}, NEW for \in Call \cup {Host},
         Start(p, by, for), for \in Call => pc[for] \in Working \cup {"resume", "done"},
         writers' \in {writers, writers \cup {p}},
         UNCHANGED <<pc, result, engineVars, lock, registryVars, historyVars>>
  PROVE  IInv'
<1>1. /\ parent[p] = p /\ alive' = alive \cup {p} /\ parent' = [parent EXCEPT ![p] = by]
      /\ owner' = [owner EXCEPT ![p] = for]
      /\ UNCHANGED <<pc, result, cancelled, closing, lock, baseline, identities, wave, targets>>
      /\ UNCHANGED <<before, attached, killed>>
  BY DEF Start, engineVars, registryVars, historyVars
<1>2. /\ alive \subseteq Process /\ parent \in [Process -> Process \cup {Host, Orphan}]
      /\ owner \in [Process -> Call \cup {Host}] /\ writers \subseteq alive
  BY DEF IInv, TypeOK
<1>3. p \notin alive /\ p \notin before /\ p \notin attached /\ by # p
  BY <1>1, ProcessAssumption DEF IInv, Rooted, EarlierStayApart, Caught
<1>4. /\ parent'[p] = by /\ owner'[p] = for
      /\ \A q \in Process : q # p => parent'[q] = parent[q] /\ owner'[q] = owner[q]
  BY <1>1, <1>2
<1>5. TypeOK'
  <2>1. parent' \in [Process -> Process \cup {Host, Orphan}]
    BY <1>1, <1>2
  <2>2. owner' \in [Process -> Call \cup {Host}]
    BY <1>1, <1>2
  <2> QED
    BY <1>1, <1>2, <2>1, <2>2 DEF IInv, TypeOK
<1>6. Rooted'
  BY <1>1, <1>2, <1>3, <1>4 DEF IInv, Rooted
<1>7. EarlierStayApart'
  BY <1>1, <1>3, <1>4 DEF IInv, EarlierStayApart
<1>8. Spared' /\ Fresh' /\ Quiet'
  BY <1>1 DEF IInv, Spared, Fresh, Quiet
<1>9. Owned'
  <2>1. ASSUME NEW q \in alive', NEW c \in Call, owner'[q] = c
        PROVE  pc[c] \in Working \cup {"resume", "done"}
    BY <1>1, <1>2, <1>4, <2>1 DEF IInv, Owned
  <2>2. ASSUME NEW q \in before, NEW c \in Call, pc[c] \in Working
        PROVE  owner'[q] # c
    BY <1>3, <1>4, <2>2 DEF IInv, Owned, EarlierStayApart
  <2> QED
    BY <1>1, <2>1, <2>2 DEF Owned
<1>10. Caught'
  BY <1>1, <1>2, <1>3, <1>4 DEF IInv, Caught
<1> QED
  BY <1>5, <1>6, <1>7, <1>8, <1>9, <1>10 DEF IInv

\* A process ends, by itself or killed by a command it is no elder of.
LEMMA GoneKeeps ==
  ASSUME IInv, NEW p \in alive, Gone(p),
         targets' \in {targets, targets \ {p}},
         killed' = killed \/ (killed' = killed \cup {p} /\ p \notin before),
         \A c \in Call : pc[c] \in {"shell", "run"} => killed' = killed,
         lock = Free => killed' = killed,
         UNCHANGED <<pc, result, engineVars, lock, baseline, identities, wave, before, attached>>
  PROVE  IInv'
<1>1. /\ alive' = alive \ {p} /\ writers' = writers \ {p}
      /\ parent' = [q \in Process |-> IF q \in Children(p) \cup {p} THEN Orphan ELSE parent[q]]
      /\ owner' = [owner EXCEPT ![p] = Host] /\ UNCHANGED <<cancelled, closing>>
  BY DEF Gone, engineVars
<1>2. /\ alive \subseteq Process /\ parent \in [Process -> Process \cup {Host, Orphan}]
      /\ owner \in [Process -> Call \cup {Host}] /\ writers \subseteq alive
      /\ targets \subseteq identities
  BY DEF IInv, TypeOK
<1>3. \A q \in Process : /\ parent'[q] \in {parent[q], Orphan}
                         /\ q \in alive /\ parent[q] = p => parent'[q] = Orphan
                         /\ q # p => owner'[q] = owner[q]
  BY <1>1, <1>2 DEF Children
<1>4. owner'[p] = Host /\ Host \notin Call /\ Orphan \notin Process
  BY <1>1, <1>2, ProcessAssumption
<1>5. TypeOK'
  <2>1. parent' \in [Process -> Process \cup {Host, Orphan}]
    BY <1>1, <1>2
  <2>2. owner' \in [Process -> Call \cup {Host}]
    BY <1>1, <1>2
  <2> QED
    BY <1>1, <1>2, <2>1, <2>2 DEF IInv, TypeOK
<1>6. Rooted'
  BY <1>1, <1>2, <1>3, <1>4 DEF IInv, Rooted
<1>7. EarlierStayApart'
  BY <1>3, <1>4 DEF IInv, EarlierStayApart
<1>8. Spared'
  BY DEF IInv, Spared
<1>9. Fresh' /\ Quiet'
  BY <1>1 DEF IInv, Fresh, Quiet
<1>10. Owned'
  BY <1>1, <1>2, <1>3, <1>4 DEF IInv, Owned, EarlierStayApart
<1>11. Caught'
  BY <1>1, <1>2, <1>3, <1>4 DEF IInv, Caught
<1> QED
  BY <1>5, <1>6, <1>7, <1>8, <1>9, <1>10, <1>11 DEF IInv

\* The same whether or not the process is known to anybody
LEMMA ProcessStepKeeps ==
  ASSUME IInv, NEW p \in Process,
         \/ CloseOutput(p) \/ Exit(p) \/ HostStart(p)
         \/ \E q \in Process : Fork(q, p)
         \/ \E c \in Call : ShellStart(c, p)
  PROVE  IInv'
<1>1. CASE CloseOutput(p)
  <2>1. /\ writers' \subseteq writers
        /\ UNCHANGED <<pc, result, cancelled, closing, lock, baseline, identities, wave, targets>>
        /\ UNCHANGED <<alive, parent, owner, before, attached, killed>>
    BY <1>1 DEF CloseOutput, engineVars, registryVars, historyVars
  <2>2. TypeOK'
    BY <2>1 DEF IInv, TypeOK
  <2>3. Rooted' /\ EarlierStayApart' /\ Spared' /\ Owned' /\ Caught' /\ Fresh' /\ Quiet'
    BY <2>1 DEF IInv, Rooted, EarlierStayApart, Spared, Owned, Caught, Fresh, Quiet
  <2> QED
    BY <2>2, <2>3 DEF IInv
<1>2. CASE Exit(p)
  BY <1>2, GoneKeeps DEF Exit, registryVars, historyVars
<1>3. CASE HostStart(p)
  BY <1>3, StartKeeps, ProcessAssumption DEF HostStart
<1>4. CASE \E q \in Process : Fork(q, p)
  <2>1. PICK q \in Process : Fork(q, p)
    BY <1>4
  <2>2. q \in alive /\ Start(p, q, owner[q]) /\ writers' \in {writers, writers \cup {p}}
    BY <2>1 DEF Fork
  <2>3. owner[q] \in Call \cup {Host}
    BY DEF IInv, TypeOK
  <2>4. owner[q] \in Call => pc[owner[q]] \in Working \cup {"resume", "done"}
    BY <2>2 DEF IInv, Owned
  <2> QED
    BY <2>1, <2>2, <2>3, <2>4, StartKeeps DEF Fork
<1>5. CASE \E c \in Call : ShellStart(c, p)
  BY <1>5, StartKeeps DEF ShellStart, Working, Locked
<1> QED
  BY <1>1, <1>2, <1>3, <1>4, <1>5

-----------------------------------------------------------------------------
(* Calls and sessions *)

\* A call moves on, and nothing changes of the processes.
LEMMA GotoKeeps ==
  ASSUME IInv, NEW c \in Call, NEW step \in Steps, Goto(c, step),
         result' \in [Call -> Results], cancelled' \in [Call -> BOOLEAN], wave' \in 1..Waves,
         UNCHANGED <<closing, baseline, identities, targets, processVars, historyVars>>,
         lock' = lock \/ (lock = Free /\ lock' = c), step \in Locked => lock' = c,
         step = "shell" => lock = Free, step # "run", step \in Working => pc[c] \in Working,
         pc[c] \in Working \cup {"resume", "done"} => step \in Working \cup {"resume", "done"},
         pc[c] = "kill" => targets = {},
         closing[Home[c]] = "closed" => step \in {"idle", "done"}
  PROVE  IInv'
<1>1. /\ UNCHANGED <<closing, baseline, identities, targets, before, attached, killed>>
      /\ UNCHANGED <<alive, parent, owner, writers>>
  BY DEF processVars, historyVars
<1>2. /\ pc \in [Call -> Steps] /\ pc' = [pc EXCEPT ![c] = step] /\ c # Free
      /\ pc'[c] = step /\ \A d \in Call : d # c => pc'[d] = pc[d]
  BY ProcessAssumption DEF IInv, TypeOK, Steps, Goto
<1>3. TypeOK'
  <2>1. pc' \in [Call -> Steps] /\ lock' \in Call \cup {Free}
    BY <1>2 DEF IInv, TypeOK
  <2>2. \A d \in Call : pc'[d] \in Locked => lock' = d
    <3>1. \A d \in Call : pc[d] \in Locked => lock = d
      BY DEF IInv, TypeOK, Locked
    <3> QED
      BY <1>2, <3>1, ProcessAssumption
  <2> QED
    BY <1>1, <2>1, <2>2 DEF IInv, TypeOK, Steps, Results, Locked
<1>4. Rooted' /\ EarlierStayApart' /\ Spared'
  BY <1>1 DEF IInv, Rooted, EarlierStayApart, Spared
<1>5. Owned'
  BY <1>1, <1>2 DEF IInv, Owned
<1>6. Caught'
  BY <1>1, <1>2 DEF IInv, Caught
<1>7. Fresh'
  BY <1>1, <1>2 DEF IInv, Fresh
<1>8. Quiet'
  BY <1>1, <1>2 DEF IInv, Quiet
<1> QED
  BY <1>3, <1>4, <1>5, <1>6, <1>7, <1>8 DEF IInv

\* What a step of one call finds
LEMMA AtHand ==
  ASSUME IInv, NEW c \in Call
  PROVE  /\ pc[c] \in Steps
         /\ closing[Home[c]] = "closed" => pc[c] \in {"idle", "done"}
         /\ pc[c] \in Locked => lock = c
         /\ result \in [Call -> Results] /\ cancelled \in [Call -> BOOLEAN] /\ wave \in 1..Waves
         /\ Home[c] \in Session
<1>1. pc[c] \in Steps /\ result \in [Call -> Results]
  BY DEF IInv, TypeOK, Steps, Results
<1>2. cancelled \in [Call -> BOOLEAN] /\ wave \in 1..Waves
  BY DEF IInv, TypeOK
<1>3. pc[c] \in Locked => lock = c
  BY DEF IInv, TypeOK, Locked
<1> QED
  BY <1>1, <1>2, <1>3, HomeAssumption DEF IInv, Quiet

\* How a command ended
LEMMA EndedIsGoto ==
  ASSUME IInv, NEW c \in Call, NEW step, NEW how \in Results, Ended(c, step, how)
  PROVE  Goto(c, step) /\ result' \in [Call -> Results]
<1>1. result \in [Call -> Results]
  BY AtHand
<1> QED
  BY <1>1 DEF Ended

\* A call begins, and waits for the lock, which it gets when nobody has it.
LEMMA BeginKeeps ==
  ASSUME IInv, NEW c \in Call, Execute(c) \/ Enter(c) \/ Acquire(c)
  PROVE  IInv'
<1>a. /\ closing[Home[c]] = "closed" => pc[c] \in {"idle", "done"}
      /\ result \in [Call -> Results] /\ cancelled \in [Call -> BOOLEAN] /\ wave \in 1..Waves
  BY AtHand
<1>1. CASE Execute(c)
  <2>1. /\ pc[c] = "idle"
        /\ UNCHANGED <<result, engineVars, lock, registryVars, processVars, historyVars>>
        /\ \/ closing[Home[c]] = "open" /\ Goto(c, "enter")
           \/ Goto(c, "done")
    BY <1>1 DEF Execute
  <2> QED
    BY <1>a, <2>1, GotoKeeps DEF Steps, Locked, Working, engineVars, registryVars
<1>2. CASE Enter(c)
  <2>1. /\ pc[c] = "enter" /\ UNCHANGED <<engineVars, lock, registryVars, processVars, historyVars>>
        /\ closing[Home[c]] # "closed"
    BY <1>a, <1>2 DEF Enter
  <2>2. CASE Ended(c, "resume", "closed")
    BY <1>a, <2>1, <2>2, EndedIsGoto, GotoKeeps
       DEF Steps, Results, Locked, Working, engineVars, registryVars
  <2>3. CASE Goto(c, "lock") /\ UNCHANGED result
    BY <1>a, <2>1, <2>3, GotoKeeps DEF Steps, Locked, Working, engineVars, registryVars
  <2> QED
    BY <1>2, <2>2, <2>3 DEF Enter
<1>3. CASE Acquire(c)
  <2>1. /\ pc[c] = "lock" /\ UNCHANGED <<engineVars, registryVars, processVars, historyVars>>
        /\ closing[Home[c]] # "closed" /\ lock = Free
    BY <1>a, <1>3 DEF Acquire
  <2>2. CASE Ended(c, "resume", "failed") /\ UNCHANGED lock
    BY <1>a, <2>1, <2>2, EndedIsGoto, GotoKeeps
       DEF Steps, Results, Locked, Working, engineVars, registryVars
  <2>3. CASE Goto(c, "shell") /\ lock' = c /\ UNCHANGED result
    BY <1>a, <2>1, <2>3, GotoKeeps DEF Steps, Locked, Working, engineVars, registryVars
  <2> QED
    BY <1>3, <2>2, <2>3 DEF Acquire
<1> QED
  BY <1>1, <1>2, <1>3

\* What its time, its caller or itself ended, the command's processes are
\* looked for.
LEMMA RunKeeps ==
  ASSUME IInv, NEW c \in Call, Run(c)
  PROVE  IInv'
<1>1. /\ pc[c] = "run" /\ lock = c /\ closing[Home[c]] # "closed"
      /\ UNCHANGED <<closing, lock, registryVars, processVars, historyVars>>
  BY AtHand DEF Run, Locked
<1>2. wave \in 1..Waves /\ cancelled' \in [Call -> BOOLEAN]
  BY AtHand DEF Run
<1>3. PICK how \in Results : Ended(c, "wave", how)
  BY DEF Run, Results
<1>4. Goto(c, "wave") /\ result' \in [Call -> Results]
  BY <1>3, EndedIsGoto
<1> QED
  BY <1>1, <1>2, <1>4, GotoKeeps DEF Steps, Locked, Working, registryVars

\* The next wave begins when everybody found is dealt with.
LEMMA EndWaveKeeps ==
  ASSUME IInv, NEW c \in Call, EndWave(c)
  PROVE  IInv'
<1>1. /\ pc[c] = "kill" /\ lock = c /\ closing[Home[c]] # "closed" /\ targets = {}
      /\ UNCHANGED <<result, engineVars, lock, baseline, identities, targets, processVars, historyVars>>
  BY AtHand DEF EndWave, Locked
<1>2. cancelled \in [Call -> BOOLEAN] /\ result \in [Call -> Results]
  BY AtHand
<1>3. wave' \in 1..Waves /\ (Goto(c, "wave") \/ Goto(c, "jobs"))
  BY AtHand DEF EndWave, Waves
<1> QED
  BY <1>1, <1>2, <1>3, GotoKeeps DEF Steps, Locked, Working, engineVars

\* A call answers.
LEMMA ResumeKeeps ==
  ASSUME IInv, NEW c \in Call, Resume(c)
  PROVE  IInv'
<1>1. pc[c] = "resume" /\ UNCHANGED <<closing, lock, registryVars, processVars, historyVars>>
      /\ Ended(c, "done", "none")
  BY DEF Resume
<1>2. wave \in 1..Waves /\ cancelled' \in [Call -> BOOLEAN]
  BY AtHand DEF Resume
<1>3. Goto(c, "done") /\ result' \in [Call -> Results]
  BY <1>1, EndedIsGoto DEF Results
<1> QED
  BY <1>1, <1>2, <1>3, GotoKeeps DEF Steps, Locked, Working, registryVars

\* The processes that are there are remembered, none of them the command's.
LEMMA RegisterKeeps ==
  ASSUME IInv, NEW c \in Call, Register(c)
  PROVE  IInv'
<1>1. /\ pc[c] = "shell" /\ lock = c /\ closing[Home[c]] # "closed"
      /\ attached = {} /\ killed = {}
      /\ baseline' = OfHost /\ identities' = {} /\ wave' = 1 /\ targets' = {} /\ before' = alive
      /\ UNCHANGED <<cancelled, closing, lock, alive, parent, owner, writers, attached, killed>>
  BY AtHand DEF Register, Locked, IInv, Fresh, engineVars, processVars
<1>2. PICK step \in {"run", "drain"} : Goto(c, step) /\ result' \in [Call -> Results]
  <2>1. Ended(c, "drain", "failed") => Goto(c, "drain") /\ result' \in [Call -> Results]
    BY EndedIsGoto DEF Results
  <2>2. result \in [Call -> Results]
    BY AtHand
  <2> QED
    BY <2>1, <2>2 DEF Register
<1>3. /\ pc \in [Call -> Steps] /\ pc' = [pc EXCEPT ![c] = step] /\ pc'[c] = step /\ c # Free
      /\ \A d \in Call : d # c => pc'[d] = pc[d]
  BY <1>2, ProcessAssumption DEF IInv, TypeOK, Steps, Goto
<1>4. \A d \in Call : d # c => pc[d] \notin Locked /\ pc'[d] \notin Locked
  BY <1>1, <1>3, AtHand
<1>5. OfHost \subseteq alive /\ \A p \in alive \ OfHost : parent[p] \in (alive \ OfHost) \cup {Orphan}
  <2>1. /\ OfHost \subseteq Process /\ alive \subseteq Process
        /\ \A p \in alive : parent[p] = Host \/ parent[p] \in OfHost => p \in OfHost
    BY HostDescends DEF IInv, TypeOK
  <2>2. OfHost \subseteq alive
    <3>1. ClosedUnderChildren(alive)
      BY DEF ClosedUnderChildren
    <3> QED
      BY <2>1, <3>1, DescendantsAreLeast DEF OfHost
  <2> QED
    BY <2>1, <2>2 DEF IInv, Rooted
<1>6. TypeOK'
  <2>1. pc' \in [Call -> Steps]
    BY <1>3 DEF Steps
  <2>2. \A d \in Call : pc'[d] \in Locked => lock = d
    BY <1>1, <1>4
  <2>3. /\ baseline' \subseteq Process /\ identities' \subseteq Process /\ targets' \subseteq identities'
        /\ wave' \in 1..Waves
    BY <1>1, <1>5 DEF IInv, TypeOK, Waves
  <2> QED
    BY <1>1, <1>2, <2>1, <2>2, <2>3 DEF IInv, TypeOK, Steps, Results, Locked
<1>7. Rooted'
  BY <1>1 DEF IInv, Rooted
<1>8. EarlierStayApart'
  BY <1>1, <1>5 DEF IInv, TypeOK, Rooted, EarlierStayApart
<1>9. Spared' /\ Caught'
  BY <1>1 DEF Spared, Caught
<1>10. Owned'
  <2>1. \A p \in alive : owner[p] # c
    BY <1>1 DEF IInv, Owned, Working, Locked
  <2> QED
    BY <1>1, <1>3, <1>4, <2>1 DEF IInv, Owned, Working
<1>11. Fresh' /\ Quiet'
  BY <1>1, <1>3 DEF IInv, Fresh, Quiet
<1> QED
  BY <1>6, <1>7, <1>8, <1>9, <1>10, <1>11 DEF IInv

\* What is found is the command's: whatever of it is within reach.
LEMMA SnapshotKeeps ==
  ASSUME IInv, NEW c \in Call, Snapshot(c)
  PROVE  IInv'
<1> DEFINE roots == (identities \cap alive) \cup (OfHost \ baseline)
<1>1. /\ pc[c] = "wave" /\ lock = c /\ closing[Home[c]] # "closed"
      /\ targets' = Descendants(roots) /\ identities' = identities \cup targets'
      /\ attached' = attached \cup OfHost
      /\ UNCHANGED <<result, cancelled, closing, lock, baseline, wave, alive, parent, owner, writers>>
      /\ UNCHANGED <<killed, before>>
  BY AtHand DEF Snapshot, Locked, engineVars, processVars
<1>2. PICK step \in {"jobs", "kill"} : Goto(c, step) /\ (step = "jobs" => targets' = {})
  BY DEF Snapshot
<1>3. /\ pc \in [Call -> Steps] /\ pc' = [pc EXCEPT ![c] = step] /\ pc'[c] = step /\ c # Free
      /\ \A d \in Call : d # c => pc'[d] = pc[d]
  BY <1>2, ProcessAssumption DEF IInv, TypeOK, Steps, Goto
<1>4. \A d \in Call : d # c => pc[d] \notin Locked /\ pc'[d] \notin Locked
  BY <1>1, <1>3, AtHand
<1>5. /\ roots \in SUBSET Process /\ roots \cap before = {}
  <2>1. OfHost \subseteq Process /\ (OfHost \ baseline) \cap before = {}
    BY HostDescends, HostDescendsToNewOnes DEF IInv
  <2> QED
    BY <2>1 DEF IInv, TypeOK, Spared
<1> HIDE DEF roots
<1>6. targets' \subseteq Process /\ roots \subseteq targets' /\ targets' \cap before = {}
  BY <1>1, <1>5, DescendantsAreClosed, NewOnesDescendToNewOnes DEF IInv
<1>7. OfHost \ baseline \subseteq targets'
  BY <1>6 DEF roots
<1>8. \A p \in OfHost : p \in Process /\ p \in alive
  <2>1. ClosedUnderChildren(alive)
    BY DEF ClosedUnderChildren
  <2> QED
    BY <2>1, DescendantsAreLeast DEF OfHost, IInv, TypeOK
<1>9. TypeOK'
  <2>1. pc' \in [Call -> Steps]
    BY <1>3 DEF Steps
  <2>2. \A d \in Call : pc'[d] \in Locked => lock = d
    BY <1>1, <1>4
  <2> QED
    BY <1>1, <1>6, <2>1, <2>2 DEF IInv, TypeOK, Steps, Locked
<1>10. Rooted' /\ EarlierStayApart'
  BY <1>1 DEF IInv, Rooted, EarlierStayApart
<1>11. Spared'
  BY <1>1, <1>6 DEF IInv, Spared
<1>12. Owned'
  BY <1>1, <1>3, <1>4 DEF IInv, Owned, Working, Locked
<1>13. Caught'
  <2>1. \A p \in attached' : p \in Process /\ parent'[p] # p
    BY <1>1, <1>8 DEF IInv, Caught, Rooted
  <2>2. ASSUME NEW p \in alive, p \in attached', NEW d \in Call, pc'[d] \in Working, owner[p] = d
        PROVE  pc'[d] = "kill" /\ p \in targets'
    <3>1. d = c
      BY <1>4, <2>2 DEF Working
    <3>2. p \notin attached
      BY <1>1, <2>2, <3>1 DEF IInv, Caught, Working, Locked
    <3>3. p \notin baseline
      BY <1>1, <2>2, <3>1 DEF IInv, Owned, EarlierStayApart, Working, Locked
    <3>4. p \in targets'
      BY <1>1, <1>7, <2>2, <3>2, <3>3
    <3> QED
      BY <1>2, <1>3, <3>1, <3>4
  <2> QED
    BY <1>1, <2>1, <2>2 DEF Caught
<1>14. Fresh' /\ Quiet'
  BY <1>1, <1>3, <1>4 DEF IInv, Fresh, Quiet, Locked
<1> QED
  BY <1>9, <1>10, <1>11, <1>12, <1>13, <1>14 DEF IInv

\* Whoever was found is killed, unless it is gone.
LEMMA KillKeeps ==
  ASSUME IInv, NEW c \in Call, NEW p \in Process, Kill(c, p)
  PROVE  IInv'
<1>1. /\ pc[c] = "kill" /\ lock = c /\ p \in targets /\ targets' = targets \ {p}
      /\ UNCHANGED <<pc, result, engineVars, lock, baseline, identities, wave, before, attached>>
  BY AtHand DEF Kill, Locked
<1>2. p \notin before /\ c # Free
  BY <1>1, ProcessAssumption DEF IInv, Spared, TypeOK
<1>3. \A d \in Call : pc[d] \notin {"shell", "run"}
  BY <1>1, AtHand DEF Locked
<1>4. CASE p \in alive
  BY <1>1, <1>2, <1>3, <1>4, GoneKeeps DEF Kill
<1>5. CASE p \notin alive
  <2>1. UNCHANGED <<alive, parent, owner, writers, killed, cancelled, closing>>
    BY <1>1, <1>5 DEF Kill, processVars, engineVars
  <2>2. TypeOK'
    BY <1>1, <2>1 DEF IInv, TypeOK
  <2>3. Rooted' /\ EarlierStayApart' /\ Spared' /\ Owned' /\ Fresh' /\ Quiet'
    BY <1>1, <2>1 DEF IInv, Rooted, EarlierStayApart, Spared, Owned, Fresh, Quiet
  <2>4. Caught'
    BY <1>1, <1>5, <2>1 DEF IInv, Caught
  <2> QED
    BY <2>2, <2>3, <2>4 DEF IInv
<1> QED
  BY <1>4, <1>5

\* Of what the shell itself started and still runs, some is killed.
LEMMA JobsKeeps ==
  ASSUME IInv, NEW c \in Call, Jobs(c)
  PROVE  IInv'
<1>1. /\ pc[c] = "jobs" /\ lock = c /\ closing[Home[c]] # "closed"
      /\ UNCHANGED <<result, engineVars, lock, registryVars, before, attached>>
  BY AtHand DEF Jobs, Locked
<1>2. c # Free /\ \A d \in Call : pc[d] \notin {"shell", "run"}
  BY <1>1, AtHand, ProcessAssumption DEF Locked
<1>3. CASE Goto(c, "drain") /\ UNCHANGED <<processVars, killed>>
  <2>1. /\ result \in [Call -> Results] /\ cancelled \in [Call -> BOOLEAN] /\ wave \in 1..Waves
    BY AtHand
  <2> QED
    BY <1>1, <1>3, <2>1, GotoKeeps DEF Steps, Locked, Working, engineVars, registryVars, historyVars
<1>4. CASE \E p \in alive : /\ parent[p] = Host /\ owner[p] = c
                           /\ Gone(p) /\ killed' = killed \cup {p} /\ UNCHANGED pc
  <2>1. PICK p \in alive : owner[p] = c /\ Gone(p) /\ killed' = killed \cup {p} /\ UNCHANGED pc
    BY <1>4
  <2>2. p \notin before
    BY <1>1, <2>1 DEF IInv, Owned, Working, Locked
  <2> QED
    BY <1>1, <1>2, <2>1, <2>2, GoneKeeps DEF registryVars
<1> QED
  BY <1>3, <1>4 DEF Jobs

\* The lock is given back with the history of the command.
LEMMA DrainKeeps ==
  ASSUME IInv, NEW c \in Call, Drain(c)
  PROVE  IInv'
<1>1. /\ pc[c] = "drain" /\ lock = c /\ closing[Home[c]] # "closed" /\ lock' = Free
      /\ baseline' = {} /\ identities' = {} /\ wave' = 1 /\ targets' = {}
      /\ before' = {} /\ attached' = {} /\ killed' = {}
      /\ UNCHANGED <<result, cancelled, closing, alive, parent, owner, writers>>
  BY AtHand DEF Drain, Locked, engineVars, processVars
<1>2. /\ pc \in [Call -> Steps] /\ pc'[c] = "resume" /\ pc' = [pc EXCEPT ![c] = "resume"]
      /\ \A d \in Call : d # c => pc'[d] = pc[d]
  BY DEF Drain, IInv, TypeOK, Steps, Goto
<1>3. \A d \in Call : pc'[d] \notin Locked
  BY <1>1, <1>2, AtHand DEF Locked
<1>4. TypeOK'
  <2>1. pc' \in [Call -> Steps]
    BY <1>2 DEF Steps
  <2> QED
    BY <1>1, <1>3, <2>1 DEF IInv, TypeOK, Steps, Locked, Waves
<1>5. Rooted' /\ EarlierStayApart' /\ Spared' /\ Caught' /\ Fresh'
  BY <1>1 DEF IInv, Rooted, EarlierStayApart, Spared, Caught, Fresh
<1>6. Owned'
  BY <1>1, <1>2 DEF IInv, Owned
<1>7. Quiet'
  BY <1>1, <1>2 DEF IInv, Quiet
<1> QED
  BY <1>4, <1>5, <1>6, <1>7 DEF IInv

\* A cancellation, or a step of closing a session, stops no call by itself.
LEMMA CancelOrCloseKeeps ==
  ASSUME IInv, \/ \E c \in Call : Cancel(c)
               \/ \E s \in Session : Close(s) \/ Closed(s) \/ LeaveClose(s)
  PROVE  IInv'
<1>1. /\ UNCHANGED <<pc, result, lock, baseline, identities, wave, targets>>
      /\ UNCHANGED <<alive, parent, owner, writers, before, attached, killed>>
  BY DEF Cancel, Close, Closed, LeaveClose, registryVars, processVars, historyVars
<1>2. cancelled' \in [Call -> BOOLEAN]
  BY DEF IInv, TypeOK, Cancel, Close, Closed, LeaveClose
<1>3. /\ closing' \in [Session -> {"open", "waiting", "left", "closed"}]
      /\ \A s \in Session : closing'[s] = "closed" => closing[s] = "closed" \/ Active(s) = {}
  BY DEF IInv, TypeOK, Cancel, Close, Closed, LeaveClose
<1>4. TypeOK'
  BY <1>1, <1>2, <1>3 DEF IInv, TypeOK
<1>5. Rooted' /\ EarlierStayApart' /\ Spared' /\ Owned' /\ Caught' /\ Fresh'
  BY <1>1 DEF IInv, Rooted, EarlierStayApart, Spared, Owned, Caught, Fresh
<1>6. Quiet'
  BY <1>1, <1>3, HomeAssumption DEF IInv, Quiet, Active
<1> QED
  BY <1>4, <1>5, <1>6 DEF IInv

-----------------------------------------------------------------------------
(* The theorems *)

\* Nothing has happened yet.
LEMMA InitIInv ==
  ASSUME Init
  PROVE  IInv
<1>1. TypeOK
  BY HomeAssumption, ProcessAssumption DEF Init, TypeOK, Waves
<1>2. Rooted /\ EarlierStayApart /\ Spared /\ Owned /\ Caught /\ Fresh /\ Quiet
  BY HomeAssumption DEF Init, Rooted, EarlierStayApart, Spared, Owned, Caught, Fresh, Quiet
<1> QED
  BY <1>1, <1>2 DEF IInv

\* Every step keeps the invariant.
LEMMA NextKeeps ==
  ASSUME IInv, [Next]_vars
  PROVE  IInv'
<1>1. ASSUME UNCHANGED vars
      PROVE  IInv'
  BY <1>1 DEF vars, engineVars, registryVars, processVars, historyVars, IInv, TypeOK, Rooted,
              EarlierStayApart, Spared, Owned, Caught, Fresh, Quiet
<1>2. ASSUME NEW c \in Call, Execute(c) \/ Step(c)
      PROVE  IInv'
  BY <1>2, BeginKeeps, RegisterKeeps, RunKeeps, SnapshotKeeps, EndWaveKeeps, KillKeeps, JobsKeeps,
     DrainKeeps, ResumeKeeps DEF Step
<1>3. ASSUME NEW p \in Process,
             \/ CloseOutput(p) \/ Exit(p) \/ HostStart(p)
             \/ \E q \in Process : Fork(q, p)
             \/ \E c \in Call : ShellStart(c, p)
      PROVE  IInv'
  BY <1>3, ProcessStepKeeps
<1> QED
  BY <1>1, <1>2, <1>3, CancelOrCloseKeeps DEF Next

\* The invariant holds in every reachable state.
THEOREM InvariantHolds == Spec => []IInv
<1>1. Init => IInv
  BY InitIInv
<1>2. IInv /\ [Next]_vars => IInv'
  BY NextKeeps
<1> QED
  BY <1>1, <1>2, PTL DEF Spec

\* The state is of its types, and one command at a time is past the lock of
\* the program (command/mod.rs).
THEOREM TypesHold == Spec => []TypeOK
<1>1. IInv => TypeOK
  BY DEF IInv
<1> QED
  BY <1>1, InvariantHolds, PTL

\* No command ends a process that was there before it, whatever processes
\* start, exit or lose their parents meanwhile (processes.rs:88-131).
THEOREM EarlierProcessesLive == Spec => []EarlierProcessesAreSpared
<1>1. IInv => EarlierProcessesAreSpared
  BY DEF IInv, Spared, EarlierProcessesAreSpared
<1> QED
  BY <1>1, InvariantHolds, PTL

\* A process of a command that survives it was out of the host's reach in
\* every wave (processes.rs:71-131).
THEOREM SurvivorsWereUnattached == Spec => []OnlyUnattachedProcessesSurvive
<1>1. IInv => OnlyUnattachedProcessesSurvive
  BY DEF IInv, Caught, OnlyUnattachedProcessesSurvive, Working, Locked
<1> QED
  BY <1>1, InvariantHolds, PTL

\* A session that is closed runs nothing and begins nothing (engine.py).
THEOREM ClosedSessionsAreQuiet == Spec => []ClosedSessionsRunNothing
<1>1. IInv => ClosedSessionsRunNothing
  BY DEF IInv, Quiet, ClosedSessionsRunNothing, Active
<1> QED
  BY <1>1, InvariantHolds, PTL
-----------------------------------------------------------------------------
(***************************************************************************)
(* Theorems about structural rewrites, for any number of files, tasks and  *)
(* proposals and any capacity.  Under the guard a rewrite is alone with    *)
(* its files, but for programs that take no guard; what was compared       *)
(* before the first file is replaced therefore stands until the last is.   *)
(***************************************************************************)

RewriteSteps == {"idle", "scan", "lock", "enter", "guard", "preflight", "verify", "persist",
                 "mark", "resume"}
UnderGuard == {"preflight", "verify", "persist", "mark"}
Untouched == {"idle", "scan", "lock", "enter", "guard", "preflight"}

RewriteResults == {"none", "ok", "closed", "write", "cancelled", "refused", "stale"}
Files == Seq([path : Path, original : Text])
RewriteCalls ==
  [op : {"none", "preview", "apply"}, id : Nat, files : Files, index : Nat, landed : Nat,
   stale : BOOLEAN, failed : BOOLEAN, cancelled : BOOLEAN, result : RewriteResults]

-----------------------------------------------------------------------------
(* The inductive invariant *)

SharedTypes ==
  /\ disk \in [Path -> Text] /\ revision \in Nat /\ closed \in BOOLEAN /\ foreign \in BOOLEAN
  /\ guard \in Task \cup {Editor, Nobody} /\ writeLock \in Task \cup {Nobody}

Distinct(files) == \A i, j \in DOMAIN files : files[i].path = files[j].path => i = j

\* A pending proposal is a stored one nobody has asked for.
ProposalsStand ==
  /\ stored \in Seq(Proposal) /\ pending \subseteq Proposal /\ clock \in Nat
  /\ capacity \in Nat \ {0}
  /\ \A i \in DOMAIN stored : stored[i].id = i /\ Distinct(stored[i].files)
  /\ \A p \in pending : p.id \in DOMAIN stored /\ p = stored[p.id] /\ p.id \notin gone
  /\ gone \subseteq DOMAIN stored
  /\ IsFiniteSet(pending) /\ Cardinality(pending) <= capacity
  /\ NewestProposalsStay

\* Where a task is fits what it was called for, and under the guard it is alone.
TaskFits(t) ==
  /\ at[t] = "scan" => call[t].op = "preview"
  /\ at[t] = "enter" => call[t].op # "none"
  /\ at[t] \in {"lock", "guard"} \cup UnderGuard => call[t].op = "apply"
  /\ at[t] = "lock" => call[t].id \in DOMAIN stored
  /\ at[t] \in UnderGuard => guard = t

\* No file is named twice, as the scan names none twice.
FilesAreDistinct(t) ==
  /\ Distinct(call[t].files)
  /\ call[t].op = "preview" /\ at[t] = "enter" => call[t].files = <<>>
  /\ at[t] = "scan" => /\ call[t].index \in Nat \ {0}
                       /\ \A i \in DOMAIN call[t].files :
                            \E j \in DOMAIN Scan : j < call[t].index /\ call[t].files[i].path = Scan[j]

\* How many files are replaced is known from the step.
Progress(t) ==
  /\ call[t].landed <= Len(call[t].files)
  /\ at[t] \in Untouched => call[t].landed = 0
  /\ at[t] \in {"enter", "guard"} => call[t].index = 1
  /\ at[t] \in {"preflight", "verify", "persist"} => call[t].index \in 1..Len(call[t].files) + 1
  /\ at[t] \in {"verify", "persist"} => call[t].landed = call[t].index - 1
  /\ at[t] = "persist" => call[t].index <= Len(call[t].files)
  /\ at[t] = "mark" => call[t].landed = Len(call[t].files)

Original(t, i) == disk[call[t].files[i].path] = call[t].files[i].original

\* The files still to be replaced are as they were compared.
FilesStay(t) ==
  ~foreign =>
    /\ at[t] = "preflight" /\ ~call[t].stale =>
         \A i \in DOMAIN call[t].files : i < call[t].index => Original(t, i)
    /\ at[t] \in {"verify", "persist"} =>
         \A i \in DOMAIN call[t].files : i >= call[t].index => Original(t, i)
    /\ call[t].op = "apply" /\ at[t] = "resume" /\ ~call[t].cancelled /\ ~call[t].failed =>
         call[t].landed \in {0, Len(call[t].files)}

TaskStands(t) == TaskFits(t) /\ FilesAreDistinct(t) /\ Progress(t) /\ FilesStay(t)

TaskTypes == at \in [Task -> RewriteSteps] /\ call \in [Task -> RewriteCalls]

RewriteInv ==
  /\ SharedTypes
  /\ ProposalsStand
  /\ TaskTypes
  /\ \A t \in Task : TaskStands(t)

\* What a step may do to a task
Replaces(t) ==
  ~foreign /\ call'[t].landed > call[t].landed => disk[File(t).path] = File(t).original
Takes(t) == at[t] = "lock" /\ at'[t] = "enter" => call[t].id \notin gone
StepsRightly(t) == Replaces(t) /\ Takes(t)
Kept == RewriteInv' /\ \A t \in Task : StepsRightly(t)

-----------------------------------------------------------------------------
(* Proposals *)

\* A set of natural numbers has a least one.
LEMMA LeastOfNaturals ==
  ASSUME NEW S, S \subseteq Nat, S # {}
  PROVE  \E least \in S : \A n \in S : least <= n
<1>1. PICK least \in S : \A n \in S : ~(<<n, least>> \in OpToRel(<, Nat))
  BY NatLessThanWellFounded, WFMin
<1>2. \A n \in S : ~(n < least)
  BY <1>1 DEF OpToRel
<1> QED
  BY <1>2

\* Room makes room for one more, at the cost of the oldest.
LEMMA RoomForOne ==
  ASSUME NEW P, IsFiniteSet(P), capacity \in Nat \ {0}, Cardinality(P) <= capacity,
         \A p \in P : p.id \in Nat, \A p, q \in P : p.id = q.id => p = q
  PROVE  /\ Room(P) \subseteq P /\ IsFiniteSet(Room(P))
         /\ Cardinality(Room(P)) <= capacity - 1
         /\ \A p \in P \ Room(P) : Cardinality(Newer(P, p)) >= capacity - 1
<1>1. Cardinality(P) \in Nat
  BY FS_CardinalityType
<1>2. CASE Cardinality(P) < capacity
  BY <1>1, <1>2 DEF Room
<1>3. CASE ~(Cardinality(P) < capacity)
  <2> DEFINE kept == {p \in P : Cardinality(Newer(P, p)) < capacity - 1}
  <2>1. Room(P) = kept
    BY <1>3 DEF Room
  <2>2. IsFiniteSet(kept) /\ Cardinality(kept) \in Nat
    BY FS_Subset, FS_CardinalityType
  <2>3. \A p \in P : IsFiniteSet(Newer(P, p)) /\ Cardinality(Newer(P, p)) \in Nat
    BY FS_Subset, FS_CardinalityType DEF Newer
  <2>4. \A p \in P \ kept : Cardinality(Newer(P, p)) >= capacity - 1
    BY <2>3
  <2>5. Cardinality(kept) <= capacity - 1
    <3>1. CASE kept = {}
      <4>1. Cardinality(kept) = 0
        BY <3>1, FS_EmptySet
      <4> HIDE DEF kept
      <4> QED
        BY <4>1
    <3>2. CASE kept # {}
      <4> DEFINE ids == {p.id : p \in kept}
      <4>0. ids \subseteq Nat /\ ids # {}
        BY <3>2
      <4> HIDE DEF ids
      <4>1. PICK least \in ids : \A n \in ids : least <= n
        BY <4>0, LeastOfNaturals
      <4> USE DEF ids
      <4>2. PICK oldest \in kept : oldest.id = least
        BY <4>1
      <4>3. \A p \in kept : p # oldest => p.id > oldest.id
        BY <4>1, <4>2
      <4>4. kept \ {oldest} \subseteq Newer(P, oldest)
        BY <4>3 DEF Newer
      <4>5. Cardinality(kept \ {oldest}) <= Cardinality(Newer(P, oldest))
        BY <4>2, <4>4, <2>3, FS_Subset
      <4>6. Cardinality(kept \ {oldest}) = Cardinality(kept) - 1
        BY <4>2, <2>2, FS_RemoveElement
      <4>7. /\ Cardinality(Newer(P, oldest)) < capacity - 1
            /\ Cardinality(Newer(P, oldest)) \in Nat
        BY <4>2, <2>3
      <4> HIDE DEF kept
      <4> QED
        BY <4>5, <4>6, <4>7, <2>2
    <3> QED
      BY <3>1, <3>2
  <2>6. kept \subseteq P
    OBVIOUS
  <2> HIDE DEF kept
  <2> QED
    BY <2>1, <2>2, <2>4, <2>5, <2>6
<1> QED
  BY <1>2, <1>3

LEMMA StoredProposals ==
  ASSUME RewriteInv
  PROVE  \A i \in DOMAIN stored : stored[i] \in Proposal
BY DEF RewriteInv, ProposalsStand

\* Time passes, and the proposals stay as they are.
LEMMA ProposalsKept ==
  ASSUME RewriteInv, UNCHANGED proposalVars, clock' \in Nat, clock <= clock'
  PROVE  ProposalsStand'
<1>1. UNCHANGED <<capacity, pending, stored, gone>>
  BY DEF proposalVars
<1>2. \A i \in DOMAIN stored : stored[i].expires \in Nat
  BY StoredProposals DEF Proposal
<1>3. NewestProposalsStay'
  <2> SUFFICES ASSUME NEW i \in DOMAIN stored
               PROVE  \/ stored[i] \in pending
                      \/ stored[i].id \in gone
                      \/ stored[i].expires <= clock'
                      \/ Len(stored) - i >= capacity
    BY <1>1 DEF NewestProposalsStay
  <2> QED
    BY <1>2 DEF RewriteInv, ProposalsStand, NewestProposalsStay
<1> QED
  BY <1>1, <1>3 DEF RewriteInv, ProposalsStand, Distinct

\* A stored proposal is the newest, and those that go for it are expired or
\* the oldest.
LEMMA StoreKeeps ==
  ASSUME RewriteInv, NEW files \in Files, Distinct(files), Store(files), UNCHANGED clock
  PROVE  ProposalsStand' /\ DOMAIN stored \subseteq DOMAIN stored'
<1> DEFINE new == [id |-> Len(stored) + 1, files |-> files, revision |-> revision,
                   expires |-> clock + Lifetime]
           P == Purged(pending)
<1>1. /\ pending' = Room(P) \cup {new} /\ stored' = Append(stored, new)
      /\ UNCHANGED <<capacity, gone>>
  BY DEF Store
<1>2. /\ stored \in Seq(Proposal) /\ Len(stored) \in Nat /\ DOMAIN stored = 1 .. Len(stored)
      /\ \A i \in DOMAIN stored : stored[i].expires \in Nat
      /\ clock \in Nat /\ capacity \in Nat \ {0}
  <2>1. \A i \in DOMAIN stored : stored[i].expires \in Nat
    BY StoredProposals DEF Proposal
  <2> QED
    BY <2>1 DEF RewriteInv, ProposalsStand
<1>3. new \in Proposal /\ new.id = Len(stored) + 1 /\ new.files = files
  BY <1>2, LimitsAssumption DEF RewriteInv, SharedTypes, Proposal, Files
<1> HIDE DEF new
<1>4. /\ stored' \in Seq(Proposal) /\ Len(stored') = Len(stored) + 1
      /\ DOMAIN stored' = 1 .. Len(stored) + 1
      /\ \A i \in DOMAIN stored : stored'[i] = stored[i]
      /\ stored'[Len(stored) + 1] = new
  BY <1>1, <1>2, <1>3
<1>5. /\ P \subseteq pending /\ IsFiniteSet(P) /\ Cardinality(P) <= capacity
      /\ \A p \in P : p.id \in DOMAIN stored /\ p = stored[p.id] /\ p.id \notin gone
  <2>1. P \subseteq pending
    BY DEF Purged
  <2>2. IsFiniteSet(pending) /\ Cardinality(pending) <= capacity /\ Cardinality(pending) \in Nat
    BY FS_CardinalityType DEF RewriteInv, ProposalsStand
  <2>3. IsFiniteSet(P) /\ Cardinality(P) <= Cardinality(pending) /\ Cardinality(P) \in Nat
    BY <2>1, <2>2, FS_Subset, FS_CardinalityType
  <2> QED
    BY <1>2, <2>1, <2>2, <2>3 DEF RewriteInv, ProposalsStand
<1> HIDE DEF P
<1>6. /\ Room(P) \subseteq P /\ IsFiniteSet(Room(P))
      /\ Cardinality(Room(P)) <= capacity - 1
      /\ \A p \in P \ Room(P) : Cardinality(Newer(P, p)) >= capacity - 1
  BY <1>2, <1>5, RoomForOne
<1>7. /\ IsFiniteSet(pending') /\ Cardinality(pending') <= capacity
  <2>1. Cardinality(Room(P)) \in Nat
    BY <1>6, FS_CardinalityType
  <2>2. /\ IsFiniteSet(Room(P) \cup {new})
        /\ Cardinality(Room(P) \cup {new}) <= Cardinality(Room(P)) + 1
    <3> DEFINE room == Room(P)
    <3>1. IsFiniteSet(room)
      BY <1>6
    <3>2. Cardinality(room) \in Nat
      BY <2>1
    <3> HIDE DEF room, new
    <3>3. /\ IsFiniteSet(room \cup {new})
          /\ Cardinality(room \cup {new}) \in {Cardinality(room), Cardinality(room) + 1}
      BY <3>1, FS_AddElement
    <3>4. Cardinality(room \cup {new}) <= Cardinality(room) + 1
      BY <3>2, <3>3
    <3> QED
      BY <3>3, <3>4 DEF room
  <2>3. Cardinality(Room(P) \cup {new}) \in Nat
    BY <2>2, FS_CardinalityType
  <2> QED
    BY <1>1, <1>2, <1>6, <2>1, <2>2, <2>3
<1>8. \A p \in pending' : p.id \in DOMAIN stored' /\ p = stored'[p.id] /\ p.id \notin gone'
  BY <1>1, <1>2, <1>3, <1>4, <1>5, <1>6 DEF RewriteInv, ProposalsStand
<1>9. \A i \in DOMAIN stored' : stored'[i].id = i /\ Distinct(stored'[i].files)
  <2> SUFFICES ASSUME NEW i \in DOMAIN stored'
               PROVE  stored'[i].id = i /\ Distinct(stored'[i].files)
    OBVIOUS
  <2>1. CASE i \in DOMAIN stored
    BY <2>1, <1>4 DEF RewriteInv, ProposalsStand
  <2>2. CASE i = Len(stored) + 1
    BY <2>2, <1>3, <1>4
  <2> QED
    BY <1>2, <1>4, <2>1, <2>2
<1>10. NewestProposalsStay'
  <2> SUFFICES ASSUME NEW i \in DOMAIN stored'
               PROVE  \/ stored'[i] \in pending'
                      \/ stored'[i].id \in gone'
                      \/ stored'[i].expires <= clock'
                      \/ Len(stored') - i >= capacity'
    BY DEF NewestProposalsStay
  <2>1. CASE i = Len(stored) + 1
    BY <2>1, <1>1, <1>4
  <2>2. CASE i \in DOMAIN stored /\ stored[i] \notin pending
    <3>1. \/ stored[i].id \in gone
          \/ stored[i].expires <= clock
          \/ Len(stored) - i >= capacity
      BY <2>2 DEF RewriteInv, ProposalsStand, NewestProposalsStay
    <3> QED
      BY <3>1, <2>2, <1>1, <1>2, <1>4
  <2>3. CASE i \in DOMAIN stored /\ stored[i] \in pending /\ stored[i] \notin P
    <3>1. ~(stored[i].expires > clock)
      BY <2>3 DEF P, Purged
    <3> QED
      BY <3>1, <2>3, <1>1, <1>2, <1>4
  <2>4. CASE i \in DOMAIN stored /\ stored[i] \in P /\ stored[i] \notin Room(P)
    <3> DEFINE newer == Newer(P, stored[i])
               id == [p \in newer |-> p.id]
    <3>1. Cardinality(newer) >= capacity - 1
      BY <2>4, <1>6
    <3>2. stored[i].id = i
      BY <2>4 DEF RewriteInv, ProposalsStand
    <3>3. \A p \in newer : p \in P /\ p.id \in i + 1 .. Len(stored) /\ p = stored[p.id]
      BY <3>2, <2>4, <1>2, <1>5 DEF Newer
    <3>4. id \in Injection(newer, i + 1 .. Len(stored))
      <4>1. id \in [newer -> i + 1 .. Len(stored)]
        BY <3>3
      <4>2. \A p, q \in newer : id[p] = id[q] => p = q
        BY <3>3
      <4> QED
        BY <4>1, <4>2 DEF Injection, IsInjective
    <3>0. i + 1 \in Int /\ Len(stored) \in Int
      BY <2>4, <1>2
    <3>5. /\ IsFiniteSet(i + 1 .. Len(stored))
          /\ Cardinality(i + 1 .. Len(stored)) =
               IF i + 1 > Len(stored) THEN 0 ELSE Len(stored) - (i + 1) + 1
      BY <3>0, FS_Interval
    <3>6. IsFiniteSet(newer) /\ Cardinality(newer) <= Cardinality(i + 1 .. Len(stored))
      BY <3>4, <3>5, FS_Injection
    <3>7. Cardinality(newer) \in Nat
      BY <3>6, FS_CardinalityType
    <3> HIDE DEF newer, id
    <3>8. Len(stored) - i >= capacity - 1
      BY <3>1, <3>5, <3>6, <3>7, <2>4, <1>2
    <3> QED
      BY <3>8, <2>4, <1>1, <1>2, <1>4
  <2>5. CASE i \in DOMAIN stored /\ stored[i] \in Room(P)
    BY <2>5, <1>1, <1>4
  <2> QED
    BY <1>2, <1>4, <2>1, <2>2, <2>3, <2>4, <2>5
<1>11. gone' \subseteq DOMAIN stored'
  BY <1>1, <1>2, <1>4 DEF RewriteInv, ProposalsStand
<1>12. pending' \subseteq Proposal
  BY <1>1, <1>3, <1>5, <1>6 DEF RewriteInv, ProposalsStand
<1> QED
  BY <1>1, <1>2, <1>4, <1>7, <1>8, <1>9, <1>10, <1>11, <1>12 DEF ProposalsStand

\* A proposal that is asked for is nobody else's.
LEMMA PopKeeps ==
  ASSUME RewriteInv, NEW id \in DOMAIN stored, Pop(id), UNCHANGED clock
  PROVE  ProposalsStand' /\ stored' = stored
<1>1. /\ pending' = Purged(Without(pending, id)) /\ gone' = gone \cup {id}
      /\ UNCHANGED <<capacity, stored>>
  BY DEF Pop
<1>2. pending' = {p \in pending : p.id # id /\ p.expires > clock}
  BY <1>1 DEF Purged, Without
<1>3. IsFiniteSet(pending') /\ Cardinality(pending') <= capacity'
  <2>1. IsFiniteSet(pending) /\ Cardinality(pending) <= capacity /\ Cardinality(pending) \in Nat
        /\ capacity \in Nat
    BY FS_CardinalityType DEF RewriteInv, ProposalsStand
  <2>2. pending' \subseteq pending
    BY <1>2
  <2>3. IsFiniteSet(pending') /\ Cardinality(pending') <= Cardinality(pending)
        /\ Cardinality(pending') \in Nat
    BY <2>1, <2>2, FS_Subset, FS_CardinalityType
  <2> QED
    BY <1>1, <2>1, <2>3
<1>4. \A p \in pending' : p.id \in DOMAIN stored' /\ p = stored'[p.id] /\ p.id \notin gone'
  BY <1>1, <1>2 DEF RewriteInv, ProposalsStand
<1>5. NewestProposalsStay'
  <2> SUFFICES ASSUME NEW i \in DOMAIN stored
               PROVE  \/ stored[i] \in pending'
                      \/ stored[i].id \in gone'
                      \/ stored[i].expires <= clock
                      \/ Len(stored) - i >= capacity
    BY <1>1 DEF NewestProposalsStay
  <2>1. stored[i].expires \in Nat /\ clock \in Nat
    BY StoredProposals DEF RewriteInv, ProposalsStand, Proposal
  <2> QED
    BY <1>1, <1>2, <2>1 DEF RewriteInv, ProposalsStand, NewestProposalsStay
<1> QED
  BY <1>1, <1>2, <1>3, <1>4, <1>5 DEF RewriteInv, ProposalsStand, Distinct

-----------------------------------------------------------------------------
(* Where a step leaves the tasks *)

\* A step of one task, or of none of them, leaves the others where they are;
\* it writes no file while another task holds the guard, unless it is
\* foreign.
LeavesOthers(t) ==
  /\ \A u \in Task : u # t => at'[u] = at[u] /\ call'[u] = call[u] /\ (guard = u => guard' = u)
  /\ DOMAIN stored \subseteq DOMAIN stored'
  /\ foreign => foreign'
  /\ disk' = disk \/ foreign' \/ guard \notin Task \ {t}

LEMMA OthersStand ==
  ASSUME RewriteInv, NEW t, LeavesOthers(t), NEW u \in Task, u # t
  PROVE  TaskStands(u)' /\ StepsRightly(u)
<1>1. /\ at'[u] = at[u] /\ call'[u] = call[u] /\ (guard = u => guard' = u)
      /\ DOMAIN stored \subseteq DOMAIN stored' /\ (foreign => foreign')
      /\ disk' = disk \/ foreign' \/ guard \notin Task \ {t}
  BY DEF LeavesOthers
<1>2. TaskFits(u) /\ FilesAreDistinct(u) /\ Progress(u) /\ FilesStay(u)
  BY DEF RewriteInv, TaskStands
<1>3. TaskFits(u)'
  BY <1>1, <1>2 DEF TaskFits
<1>4. FilesAreDistinct(u)'
  BY <1>1, <1>2 DEF FilesAreDistinct, Distinct
<1>5. Progress(u)'
  BY <1>1, <1>2 DEF Progress
<1>6. FilesStay(u)'
  <2>1. CASE at[u] \in UnderGuard
    <3>1. disk' = disk \/ foreign'
      BY <2>1, <1>1, <1>2 DEF TaskFits
    <3> QED
      BY <3>1, <1>1, <1>2 DEF FilesStay, Original
  <2>2. CASE at[u] \notin UnderGuard
    BY <2>2, <1>1, <1>2 DEF FilesStay, UnderGuard
  <2> QED
    BY <2>1, <2>2
<1>7. StepsRightly(u)
  <2>1. call[u].landed \in Nat
    BY DEF RewriteInv, TaskTypes, RewriteCalls
  <2> QED
    BY <1>1, <2>1 DEF StepsRightly, Replaces, Takes
<1> QED
  BY <1>3, <1>4, <1>5, <1>6, <1>7 DEF TaskStands

\* What is left to show of a step
LEMMA StepKeeps ==
  ASSUME RewriteInv, NEW t, LeavesOthers(t), SharedTypes', ProposalsStand', TaskTypes',
         t \in Task => TaskStands(t)' /\ StepsRightly(t)
  PROVE  Kept
<1>1. \A u \in Task : TaskStands(u)' /\ StepsRightly(u)
  BY OthersStand
<1> QED
  BY <1>1 DEF RewriteInv, Kept

LEMMA Moves ==
  ASSUME RewriteInv, NEW t \in Task, NEW step \in RewriteSteps, NEW now \in RewriteCalls,
         GoesTo(t, step, now)
  PROVE  /\ TaskTypes' /\ at'[t] = step /\ call'[t] = now
         /\ \A u \in Task : u # t => at'[u] = at[u] /\ call'[u] = call[u]
BY DEF RewriteInv, TaskTypes, GoesTo

\* A task goes on; it may have taken the guard nobody held.
LEMMA GoesOn ==
  ASSUME RewriteInv, NEW t \in Task, NEW step \in RewriteSteps, NEW now \in RewriteCalls,
         GoesTo(t, step, now),
         guard' \in Task \cup {Editor, Nobody}, guard # guard' => guard \in {Nobody, t},
         UNCHANGED <<closed, foreign, disk>>, revision' \in Nat,
         writeLock' \in Task \cup {Nobody}, ProposalsStand', DOMAIN stored \subseteq DOMAIN stored',
         TaskStands(t)', StepsRightly(t)
  PROVE  Kept
<1>1. /\ TaskTypes' /\ at'[t] = step /\ call'[t] = now
      /\ \A u \in Task : u # t => at'[u] = at[u] /\ call'[u] = call[u]
  BY Moves
<1>2. LeavesOthers(t)
  BY <1>1, HolderAssumption DEF LeavesOthers, RewriteInv
<1>3. SharedTypes'
  BY DEF RewriteInv, SharedTypes
<1> QED
  BY <1>1, <1>2, <1>3, StepKeeps

\* A task that has nothing under the guard stands anywhere else.
LEMMA NothingLands ==
  ASSUME RewriteInv, NEW t \in Task, call'[t].landed <= call[t].landed, call'[t].landed \in Nat,
         at[t] = "lock" => at'[t] # "enter"
  PROVE  StepsRightly(t)
<1>1. call[t].landed \in Nat
  BY DEF RewriteInv, TaskTypes, RewriteCalls
<1> QED
  BY <1>1 DEF StepsRightly, Replaces, Takes

\* The native part ends.
LEMMA LeaveKeeps ==
  ASSUME RewriteInv, NEW t \in Task, NEW now \in RewriteCalls, NEW answer \in RewriteResults,
         Leave(t, now, answer), now.files = call[t].files, now.landed = call[t].landed,
         ~foreign /\ now.op = "apply" /\ ~now.cancelled /\ ~now.failed =>
           now.landed \in {0, Len(now.files)},
         at[t] # "lock",
         UNCHANGED <<disk, foreign, closed, writeLock, proposalVars, clock, revision>>
  PROVE  Kept
<1> DEFINE then == [now EXCEPT !.result = answer]
<1>1. GoesTo(t, "resume", then) /\ guard' = IF guard = t THEN Nobody ELSE guard
  BY DEF Leave
<1>2. /\ then \in RewriteCalls /\ then.files = now.files /\ then.landed = now.landed /\ then.op = now.op
      /\ then.cancelled = now.cancelled /\ then.failed = now.failed
  BY DEF RewriteCalls
<1> HIDE DEF then
<1>3. at'[t] = "resume" /\ call'[t] = then
  BY <1>1, <1>2, Moves DEF RewriteSteps
<1>4. then.landed \in Nat /\ FilesAreDistinct(t) /\ Progress(t)
  BY <1>2 DEF RewriteInv, TaskStands, RewriteCalls
<1>5. TaskStands(t)'
  <2>1. TaskFits(t)'
    BY <1>3 DEF TaskFits, UnderGuard
  <2>2. FilesAreDistinct(t)'
    BY <1>2, <1>3, <1>4 DEF FilesAreDistinct, Distinct
  <2>3. Progress(t)'
    BY <1>2, <1>3, <1>4 DEF Progress, Untouched
  <2>4. FilesStay(t)'
    BY <1>2, <1>3 DEF FilesStay
  <2> QED
    BY <2>1, <2>2, <2>3, <2>4 DEF TaskStands
<1>6. StepsRightly(t)
  <2>1. call[t].landed \in Nat
    BY DEF RewriteInv, TaskTypes, RewriteCalls
  <2> QED
    BY <2>1, <1>2, <1>3, NothingLands
<1>7. ProposalsStand'
  BY ProposalsKept DEF RewriteInv, ProposalsStand
<1>8. guard' \in Task \cup {Editor, Nobody} /\ (guard # guard' => guard \in {Nobody, t})
  BY <1>1 DEF RewriteInv, SharedTypes
<1>9. revision' \in Nat /\ writeLock' \in Task \cup {Nobody} /\ DOMAIN stored \subseteq DOMAIN stored'
  BY DEF RewriteInv, SharedTypes, proposalVars
<1> QED
  BY <1>1, <1>2, <1>5, <1>6, <1>7, <1>8, <1>9, GoesOn DEF RewriteSteps

LEMMA IdleIsJob == Idle \in RewriteCalls
BY DEF Idle, RewriteCalls, Files, RewriteResults

\* The call is over.
LEMMA AnswerKeeps ==
  ASSUME RewriteInv, NEW t \in Task, Answer(t), ProposalsStand',
         DOMAIN stored \subseteq DOMAIN stored',
         writeLock' \in Task \cup {Nobody},
         UNCHANGED <<disk, foreign, closed, guard, revision>>
  PROVE  Kept
<1>1. GoesTo(t, "idle", Idle)
  BY DEF Answer
<1>2. Idle \in RewriteCalls
  BY IdleIsJob
<1>3. at'[t] = "idle" /\ call'[t] = Idle
  BY <1>1, <1>2, Moves DEF RewriteSteps
<1>4. TaskStands(t)'
  BY <1>3 DEF TaskStands, TaskFits, FilesAreDistinct, Distinct, Progress, FilesStay, Idle,
              UnderGuard, Untouched
<1>5. StepsRightly(t)
  <2>1. call[t].landed \in Nat
    BY DEF RewriteInv, TaskTypes, RewriteCalls
  <2> QED
    BY <2>1, <1>3, NothingLands DEF Idle
<1>6. guard' \in Task \cup {Editor, Nobody} /\ revision' \in Nat
  BY DEF RewriteInv, SharedTypes
<1> QED
  BY <1>1, <1>2, <1>4, <1>5, <1>6, GoesOn DEF RewriteSteps

-----------------------------------------------------------------------------
(* The steps *)

LEMMA FileTypes ==
  ASSUME NEW files \in Files, NEW i \in DOMAIN files
  PROVE  files[i] \in [path : Path, original : Text]
<1> DEFINE R == [path : Path, original : Text]
<1>1. files \in Seq(R)
  BY DEF Files
<1> HIDE DEF R
<1>2. files[i] \in R
  BY <1>1
<1> QED
  BY <1>2 DEF R

\* What is known of a task before its step
LEMMA Before ==
  ASSUME RewriteInv, NEW t \in Task
  PROVE  /\ call[t] \in RewriteCalls /\ at[t] \in RewriteSteps
         /\ TaskFits(t) /\ FilesAreDistinct(t) /\ Progress(t) /\ FilesStay(t)
         /\ call[t].landed \in Nat /\ call[t].index \in Nat /\ call[t].files \in Files
         /\ Len(call[t].files) \in Nat /\ DOMAIN call[t].files = 1 .. Len(call[t].files)
         /\ guard \in Task \cup {Editor, Nobody} /\ writeLock \in Task \cup {Nobody}
         /\ revision \in Nat
<1>1. call[t] \in RewriteCalls /\ at[t] \in RewriteSteps
  BY DEF RewriteInv, TaskTypes
<1>2. call[t].landed \in Nat /\ call[t].index \in Nat /\ call[t].files \in Files
  BY <1>1 DEF RewriteCalls
<1>3. Len(call[t].files) \in Nat /\ DOMAIN call[t].files = 1 .. Len(call[t].files)
  BY <1>2 DEF Files
<1> QED
  BY <1>1, <1>2, <1>3 DEF RewriteInv, TaskStands, SharedTypes

LEMMA ProposalsQuiet ==
  ASSUME RewriteInv, UNCHANGED <<proposalVars, clock>>
  PROVE  ProposalsStand' /\ DOMAIN stored \subseteq DOMAIN stored'
<1>1. ProposalsStand'
  BY ProposalsKept DEF RewriteInv, ProposalsStand
<1> QED
  BY <1>1 DEF proposalVars

LEMMA EnterKeeps ==
  ASSUME RewriteInv, NEW t \in Task, EnterThread(t)
  PROVE  Kept
<1> DEFINE now == call[t]
<1>1. /\ at[t] = "enter"
      /\ UNCHANGED <<disk, foreign, revision, closed, writeLock, proposalVars, clock>>
  BY DEF EnterThread, boundVars
<1>2. /\ now \in RewriteCalls /\ now.landed = 0 /\ now.index = 1 /\ now.op # "none"
      /\ FilesAreDistinct(t) /\ Progress(t)
  BY <1>1, Before DEF TaskFits, Progress, Untouched
<1>3. CASE Leave(t, now, "closed")
  BY <1>1, <1>2, <1>3, LeaveKeeps DEF RewriteResults
<1>4. CASE Leave(t, [now EXCEPT !.failed = TRUE], "write")
  <2> DEFINE then == [now EXCEPT !.failed = TRUE]
  <2>1. then \in RewriteCalls /\ then.files = now.files /\ then.landed = now.landed /\ then.failed
    BY <1>2 DEF RewriteCalls
  <2> HIDE DEF then
  <2>2. Leave(t, then, "write")
    BY <1>4 DEF then
  <2> QED
    BY <1>1, <1>2, <2>1, <2>2, LeaveKeeps DEF RewriteResults
<1>5. CASE /\ GoesTo(t, IF now.op = "preview" THEN "scan" ELSE "guard", now)
           /\ UNCHANGED guard
  <2> DEFINE step == IF now.op = "preview" THEN "scan" ELSE "guard"
  <2>1. step \in RewriteSteps /\ (step = "scan" <=> now.op = "preview") /\ step \in {"scan", "guard"}
    BY DEF RewriteSteps
  <2> HIDE DEF step
  <2>2. GoesTo(t, step, now)
    BY <1>5 DEF step
  <2>3. at'[t] = step /\ call'[t] = now
    BY <1>2, <2>1, <2>2, Moves
  <2>4. TaskFits(t)'
    BY <1>2, <2>1, <2>3 DEF TaskFits, UnderGuard, RewriteCalls
  <2>5. FilesAreDistinct(t)'
    BY <1>1, <1>2, <2>1, <2>3 DEF FilesAreDistinct, Distinct
  <2>6. Progress(t)'
    BY <1>2, <2>1, <2>3 DEF Progress
  <2>7. FilesStay(t)'
    BY <2>1, <2>3 DEF FilesStay
  <2>8. StepsRightly(t)
    BY <1>1, <1>2, <2>3, NothingLands
  <2> QED
    BY <1>1, <1>2, <1>5, <2>1, <2>2, <2>4, <2>5, <2>6, <2>7, <2>8, Before, ProposalsQuiet, GoesOn
       DEF TaskStands
<1> QED
  BY <1>3, <1>4, <1>5 DEF EnterThread

LEMMA PreviewKeeps ==
  ASSUME RewriteInv, NEW t \in Task, Preview(t)
  PROVE  Kept
<1> DEFINE now == [Idle EXCEPT !.op = "preview", !.index = 1]
<1>1. /\ at[t] = "idle" /\ GoesTo(t, "enter", now)
      /\ UNCHANGED <<disk, foreign, revision, closed, guard, writeLock, proposalVars, clock>>
  BY DEF Preview, Begins, sessionVars, lockVars
<1>2. /\ now \in RewriteCalls /\ now.files = <<>> /\ now.index = 1 /\ now.landed = 0
      /\ now.op = "preview"
  BY IdleIsJob DEF Idle, RewriteCalls
<1> HIDE DEF now
<1>3. at'[t] = "enter" /\ call'[t] = now
  BY <1>1, <1>2, Moves DEF RewriteSteps
<1>4. TaskStands(t)'
  BY <1>2, <1>3 DEF TaskStands, TaskFits, FilesAreDistinct, Distinct, Progress, FilesStay,
                    UnderGuard, Untouched
<1>5. StepsRightly(t)
  BY <1>1, <1>2, <1>3, Before, NothingLands
<1> QED
  BY <1>1, <1>2, <1>4, <1>5, Before, ProposalsQuiet, GoesOn DEF RewriteSteps

LEMMA ApplyKeeps ==
  ASSUME RewriteInv, NEW t \in Task, NEW id \in DOMAIN stored, Apply(t, id)
  PROVE  Kept
<1> DEFINE now == [Idle EXCEPT !.op = "apply", !.id = id]
<1>1. /\ at[t] = "idle" /\ GoesTo(t, "lock", now)
      /\ UNCHANGED <<disk, foreign, revision, closed, guard, writeLock, proposalVars, clock>>
  BY DEF Apply, Begins, sessionVars, lockVars
<1>2. id \in Nat /\ id \in DOMAIN stored'
  BY <1>1 DEF RewriteInv, ProposalsStand, proposalVars
<1>3. /\ now \in RewriteCalls /\ now.files = <<>> /\ now.landed = 0 /\ now.op = "apply" /\ now.id = id
  BY <1>2, IdleIsJob DEF Idle, RewriteCalls
<1> HIDE DEF now
<1>4. at'[t] = "lock" /\ call'[t] = now
  BY <1>1, <1>3, Moves DEF RewriteSteps
<1>5. TaskStands(t)'
  BY <1>2, <1>3, <1>4 DEF TaskStands, TaskFits, FilesAreDistinct, Distinct, Progress, FilesStay,
                    UnderGuard, Untouched
<1>6. StepsRightly(t)
  BY <1>1, <1>3, <1>4, Before, NothingLands
<1> QED
  BY <1>1, <1>3, <1>5, <1>6, Before, ProposalsQuiet, GoesOn DEF RewriteSteps

LEMMA ReadTreeKeeps ==
  ASSUME RewriteInv, NEW t \in Task, ReadTree(t)
  PROVE  Kept
<1> DEFINE now == call[t]
<1>1. /\ at[t] = "scan"
      /\ UNCHANGED <<disk, foreign, revision, closed, writeLock, proposalVars, clock>>
  BY DEF ReadTree, boundVars
<1>2. /\ now \in RewriteCalls /\ now.landed = 0 /\ now.op = "preview"
      /\ FilesAreDistinct(t) /\ Progress(t)
      /\ now.index \in Nat \ {0} /\ now.files \in Files /\ Distinct(now.files)
  BY <1>1, Before DEF TaskFits, Progress, Untouched, FilesAreDistinct
<1>3. \A i \in DOMAIN now.files :
        \E j \in DOMAIN Scan : j < now.index /\ now.files[i].path = Scan[j]
  BY <1>1, Before DEF FilesAreDistinct
<1>4. /\ Scan \in Seq(Path) /\ DOMAIN Scan = 1 .. Len(Scan) /\ Len(Scan) \in Nat
      /\ \A i, j \in DOMAIN Scan : Scan[i] = Scan[j] => i = j
  BY ScanAssumption DEF RewriteInv
<1>5. CASE \E answer \in RewriteResults : Leave(t, now, answer)
  BY <1>1, <1>2, <1>5, LeaveKeeps
<1>6. CASE now.index <= Len(Scan) /\ NextFile(t, "scan", now) /\ UNCHANGED guard
  <2> DEFINE then == [now EXCEPT !.index = @ + 1]
  <2>1. then \in RewriteCalls /\ then.files = now.files /\ then.landed = 0 /\ then.op = "preview"
        /\ then.index = now.index + 1
    BY <1>2 DEF RewriteCalls
  <2>2. GoesTo(t, "scan", then)
    BY <1>6 DEF NextFile
  <2> HIDE DEF then
  <2>3. at'[t] = "scan" /\ call'[t] = then
    BY <2>1, <2>2, Moves DEF RewriteSteps
  <2>4. FilesAreDistinct(t)'
    BY <1>2, <1>3, <1>4, <2>1, <2>3 DEF FilesAreDistinct, Distinct
  <2>5. TaskFits(t)' /\ FilesStay(t)'
    BY <2>1, <2>3 DEF TaskFits, FilesStay, UnderGuard
  <2>6. Progress(t)'
    BY <1>2, <2>1, <2>3 DEF Progress
  <2>7. StepsRightly(t)
    BY <1>1, <1>2, <2>1, <2>3, NothingLands
  <2> QED
    BY <1>1, <1>6, <2>1, <2>2, <2>4, <2>5, <2>6, <2>7, Before, ProposalsQuiet, GoesOn
       DEF TaskStands, RewriteSteps
<1>7. ASSUME now.index <= Len(Scan), UNCHANGED guard,
             NextFile(t, "scan", [now EXCEPT !.files =
               Append(@, [path |-> Scan[now.index], original |-> disk[Scan[now.index]]])])
      PROVE  Kept
  <2> DEFINE file == [path |-> Scan[now.index], original |-> disk[Scan[now.index]]]
             files == Append(now.files, file)
             then == [now EXCEPT !.files = files, !.index = now.index + 1]
  <2>1. now.index \in DOMAIN Scan /\ file.path = Scan[now.index]
        /\ file \in [path : Path, original : Text]
    BY <1>2, <1>4, <1>7 DEF RewriteInv, SharedTypes
  <2> HIDE DEF file
  <2>2. /\ files \in Files /\ DOMAIN files = 1 .. Len(now.files) + 1 /\ Len(files) = Len(now.files) + 1
        /\ \A i \in DOMAIN now.files : files[i] = now.files[i]
        /\ files[Len(now.files) + 1] = file
        /\ Len(now.files) \in Nat /\ DOMAIN now.files = 1 .. Len(now.files)
    BY <1>2, <2>1 DEF Files
  <2>3. NextFile(t, "scan", [now EXCEPT !.files = files])
    BY <1>7 DEF file, files
  <2> HIDE DEF files
  <2>4. then \in RewriteCalls /\ then.files = files /\ then.landed = 0 /\ then.op = "preview"
        /\ then.index = now.index + 1
    <3>1. now.index + 1 \in Nat /\ files \in Files /\ now \in RewriteCalls
      BY <1>2, <2>2
    <3>2. then \in RewriteCalls
      BY <3>1 DEF RewriteCalls
    <3> QED
      BY <1>2, <3>1 DEF RewriteCalls
  <2>5. GoesTo(t, "scan", then)
    BY <1>2, <2>3 DEF NextFile, RewriteCalls
  <2> HIDE DEF then
  <2>6. at'[t] = "scan" /\ call'[t] = then
    BY <2>4, <2>5, Moves DEF RewriteSteps
  <2>7. \A i \in DOMAIN files :
          \E j \in DOMAIN Scan : j < now.index + 1 /\ files[i].path = Scan[j]
    BY <1>2, <1>3, <1>4, <2>1, <2>2
  <2>8. \A i \in DOMAIN now.files : now.files[i].path # file.path
    BY <1>2, <1>3, <1>4, <2>1
  <2>9. Distinct(files)
    <3>1. \A i, j \in DOMAIN now.files : files[i].path = files[j].path => i = j
      BY <1>2, <2>2 DEF Distinct
    <3>2. \A i \in DOMAIN files : i \in DOMAIN now.files \/ i = Len(now.files) + 1
      BY <2>2
    <3>3. \A i \in DOMAIN now.files : files[i].path # files[Len(now.files) + 1].path
      BY <2>2, <2>8
    <3> QED
      BY <3>1, <3>2, <3>3 DEF Distinct
  <2>10. FilesAreDistinct(t)'
    BY <1>2, <2>4, <2>6, <2>7, <2>9 DEF FilesAreDistinct, Distinct
  <2>11. TaskFits(t)' /\ FilesStay(t)'
    BY <2>4, <2>6 DEF TaskFits, FilesStay, UnderGuard
  <2>12. Progress(t)'
    BY <1>2, <2>2, <2>4, <2>6 DEF Progress
  <2>13. StepsRightly(t)
    BY <1>1, <1>2, <2>4, <2>6, NothingLands
  <2> QED
    BY <1>1, <1>7, <2>4, <2>5, <2>10, <2>11, <2>12, <2>13, Before, ProposalsQuiet, GoesOn
       DEF TaskStands, RewriteSteps
<1> QED
  BY <1>2, <1>4, <1>5, <1>6, <1>7 DEF ReadTree, RewriteResults

LEMMA ResumePreviewKeeps ==
  ASSUME RewriteInv, NEW t \in Task, ResumePreview(t)
  PROVE  Kept
<1>1. /\ Answer(t) /\ UNCHANGED <<disk, foreign, revision, closed, guard, writeLock, clock>>
      /\ (UNCHANGED proposalVars \/ Store(call[t].files))
  BY DEF ResumePreview, sessionVars, lockVars, boundVars
<1>2. call[t].files \in Files /\ Distinct(call[t].files) /\ writeLock' \in Task \cup {Nobody}
  BY <1>1, Before DEF FilesAreDistinct
<1>3. ProposalsStand' /\ DOMAIN stored \subseteq DOMAIN stored'
  BY <1>1, <1>2, ProposalsQuiet, StoreKeeps
<1> QED
  BY <1>1, <1>2, <1>3, AnswerKeeps

LEMMA RejectKeeps ==
  ASSUME RewriteInv, NEW t \in Task, NEW id \in DOMAIN stored, Reject(t, id)
  PROVE  Kept
<1>1. /\ Pop(id)
      /\ UNCHANGED <<disk, foreign, revision, closed, guard, writeLock, at, call, clock>>
  BY DEF Reject, sessionVars, lockVars, taskVars
<1>2. ProposalsStand' /\ stored' = stored
  BY <1>1, PopKeeps
<1>3. LeavesOthers(Nobody) /\ Nobody \notin Task
  BY <1>1, <1>2, HolderAssumption DEF LeavesOthers, RewriteInv
<1>4. SharedTypes' /\ TaskTypes'
  BY <1>1 DEF RewriteInv, SharedTypes, TaskTypes
<1> QED
  BY <1>2, <1>3, <1>4, StepKeeps

LEMMA TakeKeeps ==
  ASSUME RewriteInv, NEW t \in Task, Take(t)
  PROVE  Kept
<1> DEFINE id == call[t].id
<1>1. /\ at[t] = "lock" /\ Pop(id)
      /\ UNCHANGED <<disk, foreign, revision, closed, guard, clock>>
  BY DEF Take, sessionVars, boundVars
<1>2. /\ id \in DOMAIN stored /\ call[t].op = "apply" /\ call[t].landed = 0 /\ call[t] \in RewriteCalls
  BY <1>1, Before DEF TaskFits, Progress, Untouched
<1>3. ProposalsStand' /\ stored' = stored
  BY <1>1, <1>2, PopKeeps
<1>4. CASE Answer(t) /\ UNCHANGED writeLock
  BY <1>1, <1>3, <1>4, Before, AnswerKeeps
<1>5. ASSUME writeLock' = t, NEW p \in Usable(id),
             GoesTo(t, "enter", [call[t] EXCEPT !.files = p.files, !.index = 1])
      PROVE  Kept
  <2> DEFINE now == [call[t] EXCEPT !.files = p.files, !.index = 1]
  <2>1. p \in pending /\ p.id = id
    BY DEF Usable
  <2>2. p \in Proposal /\ p = stored[id] /\ id \notin gone /\ Distinct(stored[id].files)
    BY <2>1, <1>2 DEF RewriteInv, ProposalsStand
  <2>3. p.files \in Files
    BY <2>2 DEF Proposal, Files
  <2>4. /\ now \in RewriteCalls /\ now.files = p.files /\ now.landed = 0 /\ now.op = "apply"
        /\ now.index = 1
    BY <1>2, <2>3 DEF RewriteCalls
  <2> HIDE DEF now
  <2>5. GoesTo(t, "enter", now)
    BY <1>5 DEF now
  <2>6. at'[t] = "enter" /\ call'[t] = now
    BY <2>4, <2>5, Moves DEF RewriteSteps
  <2>7. Len(now.files) \in Nat /\ Distinct(now.files)
    BY <2>2, <2>3, <2>4 DEF Files
  <2>8. TaskStands(t)'
    BY <2>4, <2>6, <2>7 DEF TaskStands, TaskFits, FilesAreDistinct, Distinct, Progress, FilesStay,
                      UnderGuard, Untouched
  <2>9. StepsRightly(t)
    BY <1>2, <2>2, <2>4, <2>6 DEF StepsRightly, Takes, Replaces
  <2>10. writeLock' \in Task \cup {Nobody}
    BY <1>5
  <2> QED
    BY <1>1, <1>3, <2>4, <2>5, <2>8, <2>9, <2>10, Before, GoesOn DEF RewriteSteps
<1> QED
  BY <1>4, <1>5 DEF Take


\* The guard is granted, and nothing has been compared yet.
LEMMA LockGuardKeeps ==
  ASSUME RewriteInv, NEW t \in Task, LockGuard(t)
  PROVE  Kept
<1>1. /\ at[t] = "guard" /\ guard = Nobody /\ guard' = t /\ GoesTo(t, "preflight", call[t])
      /\ UNCHANGED <<disk, foreign, revision, closed, writeLock, proposalVars, clock>>
  BY DEF LockGuard, sessionVars, boundVars
<1>2. at'[t] = "preflight" /\ call'[t] = call[t]
  BY <1>1, Before, Moves DEF RewriteSteps
<1>3. call[t].op = "apply" /\ call[t].landed = 0 /\ call[t].index = 1
  BY <1>1, Before DEF TaskFits, Progress, UnderGuard, Untouched
<1>4. TaskFits(t)' /\ FilesAreDistinct(t)'
  BY <1>1, <1>2, <1>3, Before DEF TaskFits, FilesAreDistinct, Distinct, UnderGuard
<1>5. Progress(t)'
  BY <1>2, <1>3, Before DEF Progress
<1>6. FilesStay(t)'
  <2>1. \A i \in DOMAIN call[t].files : ~(i < 1)
    BY Before DEF Files
  <2> QED
    BY <1>2, <1>3, <2>1 DEF FilesStay, Original
<1>7. StepsRightly(t)
  BY <1>1, <1>2, Before, NothingLands
<1> QED
  BY <1>1, <1>4, <1>5, <1>6, <1>7, Before, ProposalsQuiet, GoesOn
       DEF TaskStands, RewriteSteps

LEMMA PreflightKeeps ==
  ASSUME RewriteInv, NEW t \in Task, Preflight(t)
  PROVE  Kept
<1> DEFINE now == call[t]
<1>1. /\ at[t] = "preflight"
      /\ UNCHANGED <<disk, foreign, revision, closed, writeLock, proposalVars, clock>>
  BY DEF Preflight, boundVars
<1>2. /\ now \in RewriteCalls /\ now.landed = 0 /\ now.op = "apply" /\ guard = t /\ Distinct(now.files)
      /\ now.index \in 1 .. Len(now.files) + 1 /\ now.files \in Files /\ Len(now.files) \in Nat
      /\ DOMAIN now.files = 1 .. Len(now.files)
  BY <1>1, Before DEF TaskFits, Progress, Untouched, UnderGuard, FilesAreDistinct
<1>3. ~foreign /\ ~now.stale => \A i \in DOMAIN now.files : i < now.index => Original(t, i)
  BY <1>1, Before DEF FilesStay
<1>4. CASE \E answer \in RewriteResults : Leave(t, now, answer)
  BY <1>1, <1>2, <1>4, LeaveKeeps
<1>5. CASE Leave(t, [now EXCEPT !.failed = TRUE], "write")
  <2> DEFINE then == [now EXCEPT !.failed = TRUE]
  <2>1. then \in RewriteCalls /\ then.files = now.files /\ then.landed = now.landed /\ then.failed
    BY <1>2 DEF RewriteCalls
  <2> HIDE DEF then
  <2>2. Leave(t, then, "write")
    BY <1>5 DEF then
  <2> QED
    BY <1>1, <1>2, <2>1, <2>2, LeaveKeeps DEF RewriteResults
<1>6. CASE /\ Finished(t) /\ ~now.stale /\ GoesTo(t, "verify", [now EXCEPT !.index = 1])
           /\ UNCHANGED guard
  <2> DEFINE then == [now EXCEPT !.index = 1]
  <2>1. then \in RewriteCalls /\ then.files = now.files /\ then.landed = 0 /\ then.op = "apply"
        /\ then.index = 1
    BY <1>2 DEF RewriteCalls
  <2> HIDE DEF then
  <2>2. GoesTo(t, "verify", then)
    BY <1>6 DEF then
  <2>3. at'[t] = "verify" /\ call'[t] = then
    BY <2>1, <2>2, Moves DEF RewriteSteps
  <2>4. TaskFits(t)' /\ FilesAreDistinct(t)'
    BY <1>2, <1>6, <2>1, <2>3 DEF TaskFits, FilesAreDistinct, Distinct, UnderGuard
  <2>5. Progress(t)'
    BY <1>2, <2>1, <2>3 DEF Progress, Untouched
  <2>6. ~foreign => \A i \in DOMAIN now.files : Original(t, i)
    BY <1>2, <1>3, <1>6 DEF Finished
  <2>7. FilesStay(t)'
    BY <1>1, <2>1, <2>3, <2>6 DEF FilesStay, Original
  <2>8. StepsRightly(t)
    BY <1>1, <1>2, <2>1, <2>3, NothingLands
  <2> QED
    BY <1>1, <1>6, <2>1, <2>2, <2>4, <2>5, <2>7, <2>8, Before, ProposalsQuiet, GoesOn
       DEF TaskStands, RewriteSteps
<1>7. ASSUME ~Finished(t), UNCHANGED guard,
             NextFile(t, "preflight",
               [now EXCEPT !.stale = @ \/ disk[File(t).path] # File(t).original])
      PROVE  Kept
  <2> DEFINE stale == now.stale \/ disk[File(t).path] # File(t).original
             then == [now EXCEPT !.stale = stale, !.index = now.index + 1]
  <2>1. stale \in BOOLEAN
    BY <1>2 DEF RewriteCalls
  <2>2. NextFile(t, "preflight", [now EXCEPT !.stale = stale])
    BY <1>7
  <2>3. ~stale => ~now.stale /\ Original(t, now.index)
    BY <1>2 DEF Original, File, RewriteCalls
  <2> HIDE DEF stale
  <2>4. then \in RewriteCalls /\ then.files = now.files /\ then.landed = 0 /\ then.op = "apply"
        /\ then.index = now.index + 1 /\ then.stale = stale
    <3>1. now.index + 1 \in Nat
      BY <1>2
    <3> QED
      BY <1>2, <2>1, <3>1 DEF RewriteCalls
  <2>5. GoesTo(t, "preflight", then)
    BY <1>2, <2>2 DEF NextFile, RewriteCalls
  <2> HIDE DEF then
  <2>6. at'[t] = "preflight" /\ call'[t] = then
    BY <2>4, <2>5, Moves DEF RewriteSteps
  <2>7. TaskFits(t)' /\ FilesAreDistinct(t)'
    BY <1>2, <1>7, <2>4, <2>6 DEF TaskFits, FilesAreDistinct, Distinct, UnderGuard
  <2>8. now.index <= Len(now.files)
    BY <1>2, <1>7 DEF Finished
  <2>9. Progress(t)'
    BY <1>2, <2>4, <2>6, <2>8 DEF Progress
  <2>10. ~foreign /\ ~stale => \A i \in DOMAIN now.files : i < now.index + 1 => Original(t, i)
    BY <1>2, <1>3, <2>3
  <2>11. FilesStay(t)'
    BY <1>1, <2>4, <2>6, <2>10 DEF FilesStay, Original
  <2>12. StepsRightly(t)
    BY <1>1, <1>2, <2>4, <2>6, NothingLands
  <2> QED
    BY <1>1, <1>7, <2>4, <2>5, <2>7, <2>9, <2>11, <2>12, Before, ProposalsQuiet, GoesOn
       DEF TaskStands, RewriteSteps
<1> QED
  BY <1>4, <1>5, <1>6, <1>7 DEF Preflight, RewriteResults

LEMMA VerifyKeeps ==
  ASSUME RewriteInv, NEW t \in Task, Verify(t)
  PROVE  Kept
<1> DEFINE now == call[t]
<1>1. /\ at[t] = "verify"
      /\ UNCHANGED <<disk, foreign, revision, closed, writeLock, proposalVars, clock>>
  BY DEF Verify, boundVars
<1>2. /\ now \in RewriteCalls /\ now.landed = now.index - 1 /\ now.op = "apply" /\ guard = t
      /\ Distinct(now.files)
      /\ now.index \in 1 .. Len(now.files) + 1 /\ now.files \in Files /\ Len(now.files) \in Nat
      /\ DOMAIN now.files = 1 .. Len(now.files)
  BY <1>1, Before DEF TaskFits, Progress, UnderGuard, FilesAreDistinct
<1>3. ~foreign => \A i \in DOMAIN now.files : i >= now.index => Original(t, i)
  BY <1>1, Before DEF FilesStay
<1>4. CASE now.cancelled /\ \E answer \in RewriteResults : Leave(t, now, answer)
  BY <1>1, <1>2, <1>4, LeaveKeeps
<1>5. CASE /\ ~Finished(t) /\ disk[File(t).path] # File(t).original
           /\ \E answer \in RewriteResults : Leave(t, now, answer)
  <2>1. foreign
    BY <1>2, <1>3, <1>5, Before DEF Finished, Original, File, RewriteInv, SharedTypes
  <2> QED
    BY <1>1, <1>2, <1>5, <2>1, LeaveKeeps
<1>6. CASE Finished(t) /\ GoesTo(t, "mark", [now EXCEPT !.index = 1]) /\ UNCHANGED guard
  <2> DEFINE then == [now EXCEPT !.index = 1]
  <2>1. then \in RewriteCalls /\ then.files = now.files /\ then.landed = now.landed /\ then.op = "apply"
    BY <1>2 DEF RewriteCalls
  <2> HIDE DEF then
  <2>2. GoesTo(t, "mark", then)
    BY <1>6 DEF then
  <2>3. at'[t] = "mark" /\ call'[t] = then
    BY <2>1, <2>2, Moves DEF RewriteSteps
  <2>4. TaskFits(t)' /\ FilesAreDistinct(t)'
    BY <1>2, <1>6, <2>1, <2>3 DEF TaskFits, FilesAreDistinct, Distinct, UnderGuard
  <2>5. now.landed = Len(now.files)
    BY <1>2, <1>6 DEF Finished
  <2>6. Progress(t)'
    BY <1>2, <2>1, <2>3, <2>5 DEF Progress, Untouched
  <2>7. FilesStay(t)'
    BY <2>3 DEF FilesStay
  <2>8. StepsRightly(t)
    BY <1>1, <1>2, <2>1, <2>3, Before, NothingLands
  <2> QED
    BY <1>1, <1>6, <2>1, <2>2, <2>4, <2>6, <2>7, <2>8, Before, ProposalsQuiet, GoesOn
       DEF TaskStands, RewriteSteps
<1>7. CASE ~Finished(t) /\ GoesTo(t, "persist", now) /\ UNCHANGED guard
  <2>1. at'[t] = "persist" /\ call'[t] = now
    BY <1>2, <1>7, Moves DEF RewriteSteps
  <2>2. TaskFits(t)' /\ FilesAreDistinct(t)'
    BY <1>2, <1>7, <2>1 DEF TaskFits, FilesAreDistinct, UnderGuard
  <2>3. now.index <= Len(now.files)
    BY <1>2, <1>7 DEF Finished
  <2>4. Progress(t)'
    BY <1>2, <2>1, <2>3 DEF Progress, Untouched
  <2>5. FilesStay(t)'
    BY <1>1, <1>3, <2>1 DEF FilesStay, Original
  <2>6. StepsRightly(t)
    BY <1>1, <1>2, <2>1, Before, NothingLands
  <2> QED
    BY <1>1, <1>2, <1>7, <2>2, <2>4, <2>5, <2>6, Before, ProposalsQuiet, GoesOn
       DEF TaskStands, RewriteSteps
<1> QED
  BY <1>4, <1>5, <1>6, <1>7 DEF Verify, RewriteResults

LEMMA PersistKeeps ==
  ASSUME RewriteInv, NEW t \in Task, Persist(t)
  PROVE  Kept
<1> DEFINE now == call[t]
<1>1. /\ at[t] = "persist"
      /\ UNCHANGED <<foreign, revision, closed, writeLock, proposalVars, clock>>
  BY DEF Persist, boundVars
<1>2. /\ now \in RewriteCalls /\ now.landed = now.index - 1 /\ now.op = "apply" /\ guard = t
      /\ Distinct(now.files) /\ now.index \in DOMAIN now.files
      /\ now.files \in Files /\ Len(now.files) \in Nat /\ DOMAIN now.files = 1 .. Len(now.files)
  BY <1>1, Before DEF TaskFits, Progress, UnderGuard, FilesAreDistinct
<1>3. ~foreign => \A i \in DOMAIN now.files : i >= now.index => Original(t, i)
  BY <1>1, Before DEF FilesStay
<1>4. CASE Leave(t, [now EXCEPT !.failed = TRUE], "write") /\ UNCHANGED disk
  <2> DEFINE then == [now EXCEPT !.failed = TRUE]
  <2>1. then \in RewriteCalls /\ then.files = now.files /\ then.landed = now.landed /\ then.failed
    BY <1>2 DEF RewriteCalls
  <2> HIDE DEF then
  <2>2. Leave(t, then, "write")
    BY <1>4 DEF then
  <2> QED
    BY <1>1, <1>4, <2>1, <2>2, LeaveKeeps DEF RewriteResults
<1>5. ASSUME disk' = [disk EXCEPT ![File(t).path] = Rewrite[File(t).original]], UNCHANGED guard,
             NextFile(t, "verify", [now EXCEPT !.landed = @ + 1])
      PROVE  Kept
  <2> DEFINE then == [now EXCEPT !.landed = now.landed + 1, !.index = now.index + 1]
  <2>1. now.landed + 1 \in Nat /\ now.index + 1 \in Nat /\ now.landed \in Nat /\ now.index \in Nat
    BY <1>2, Before
  <2>2. then \in RewriteCalls /\ then.files = now.files /\ then.landed = now.landed + 1
        /\ then.op = "apply" /\ then.index = now.index + 1
    BY <1>2, <2>1 DEF RewriteCalls
  <2>3. GoesTo(t, "verify", then)
    BY <1>2, <1>5 DEF NextFile, RewriteCalls
  <2> HIDE DEF then
  <2>4. /\ TaskTypes' /\ at'[t] = "verify" /\ call'[t] = then
        /\ \A u \in Task : u # t => at'[u] = at[u] /\ call'[u] = call[u]
    BY <2>2, <2>3, Moves DEF RewriteSteps
  <2>5. /\ File(t) = now.files[now.index]
        /\ File(t).path \in Path /\ File(t).original \in Text
    <3>1. now.files[now.index] \in [path : Path, original : Text]
      BY <1>2, FileTypes
    <3>2. File(t) = now.files[now.index]
      BY DEF File
    <3> QED
      BY <3>1, <3>2
  <2>6. disk' \in [Path -> Text]
    BY <1>5, <2>5, RewriteAssumption DEF RewriteInv, SharedTypes
  <2>7. TaskFits(t)' /\ FilesAreDistinct(t)'
    BY <1>2, <1>5, <2>2, <2>4 DEF TaskFits, FilesAreDistinct, Distinct, UnderGuard
  <2>8. Progress(t)'
    BY <1>2, <2>2, <2>4 DEF Progress, Untouched
  <2>9. \A i \in DOMAIN now.files : i >= now.index + 1 =>
          i >= now.index /\ now.files[i].path # now.files[now.index].path
    BY <1>2, <2>1 DEF Distinct
  <2>10. \A i \in DOMAIN now.files : i >= now.index + 1 =>
           disk'[now.files[i].path] = disk[now.files[i].path]
    BY <1>5, <2>5, <2>9 DEF RewriteInv, SharedTypes
  <2>11. ~foreign => \A i \in DOMAIN now.files : i >= now.index + 1 =>
           disk'[now.files[i].path] = now.files[i].original
    BY <1>3, <2>9, <2>10 DEF Original
  <2>12. FilesStay(t)'
    BY <1>1, <2>2, <2>4, <2>11 DEF FilesStay, Original
  <2>13. StepsRightly(t)
    BY <1>1, <1>2, <1>3, <2>1, <2>5 DEF StepsRightly, Takes, Replaces, Original
  <2>14. LeavesOthers(t)
    BY <1>1, <1>2, <1>5, <2>4, HolderAssumption DEF LeavesOthers, proposalVars, RewriteInv
  <2>15. SharedTypes'
    BY <1>1, <1>5, <2>6 DEF RewriteInv, SharedTypes
  <2> QED
    BY <1>1, <2>4, <2>7, <2>8, <2>12, <2>13, <2>14, <2>15, ProposalsQuiet, StepKeeps DEF TaskStands
<1> QED
  BY <1>4, <1>5 DEF Persist

LEMMA MarkKeeps ==
  ASSUME RewriteInv, NEW t \in Task, Mark(t)
  PROVE  Kept
<1> DEFINE now == call[t]
<1>1. /\ at[t] = "mark"
      /\ UNCHANGED <<disk, foreign, closed, writeLock, proposalVars, clock>>
  BY DEF Mark, boundVars
<1>2. /\ now \in RewriteCalls /\ now.landed = Len(now.files) /\ now.op = "apply" /\ guard = t
      /\ Len(now.files) \in Nat /\ now.landed \in Nat
  BY <1>1, Before DEF TaskFits, Progress, UnderGuard
<1>3. CASE Leave(t, now, "ok") /\ UNCHANGED revision
  BY <1>1, <1>2, <1>3, LeaveKeeps DEF RewriteResults
<1>4. CASE revision' = revision + 1 /\ NextFile(t, "mark", now) /\ UNCHANGED guard
  <2> DEFINE then == [now EXCEPT !.index = now.index + 1]
  <2>1. then \in RewriteCalls /\ then.files = now.files /\ then.landed = now.landed /\ then.op = "apply"
    BY <1>2 DEF RewriteCalls
  <2>2. GoesTo(t, "mark", then)
    BY <1>4 DEF NextFile
  <2> HIDE DEF then
  <2>3. at'[t] = "mark" /\ call'[t] = then
    BY <2>1, <2>2, Moves DEF RewriteSteps
  <2>4. TaskFits(t)' /\ FilesAreDistinct(t)'
    BY <1>2, <1>4, <2>1, <2>3, Before DEF TaskFits, FilesAreDistinct, Distinct, UnderGuard
  <2>5. Progress(t)' /\ FilesStay(t)'
    BY <1>2, <2>1, <2>3 DEF Progress, FilesStay, Untouched
  <2>6. StepsRightly(t)
    BY <1>1, <1>2, <2>1, <2>3, NothingLands
  <2>7. revision' \in Nat
    BY <1>4, Before
  <2> QED
    BY <1>1, <1>4, <2>1, <2>2, <2>4, <2>5, <2>6, <2>7, Before, ProposalsQuiet, GoesOn
       DEF TaskStands, RewriteSteps
<1> QED
  BY <1>3, <1>4 DEF Mark

LEMMA ResumeApplyKeeps ==
  ASSUME RewriteInv, NEW t \in Task, ResumeApply(t)
  PROVE  Kept
<1>1. /\ Answer(t) /\ writeLock' = Nobody
      /\ UNCHANGED <<disk, foreign, revision, closed, guard, proposalVars, clock>>
  BY DEF ResumeApply, sessionVars, boundVars
<1> QED
  BY <1>1, ProposalsQuiet, AnswerKeeps

LEMMA CancelKeeps ==
  ASSUME RewriteInv, NEW t \in Task, CancelRewrite(t)
  PROVE  Kept
<1> DEFINE now == [call[t] EXCEPT !.cancelled = TRUE]
<1>1. UNCHANGED <<disk, foreign, revision, closed, guard, writeLock, proposalVars, clock>>
  BY DEF CancelRewrite, sessionVars, boundVars, lockVars
<1>2. CASE Answer(t)
  BY <1>1, <1>2, Before, ProposalsQuiet, AnswerKeeps
<1>3. CASE at[t] # "lock" /\ GoesTo(t, at[t], now)
  <2>1. /\ now \in RewriteCalls /\ now.files = call[t].files /\ now.landed = call[t].landed
        /\ now.op = call[t].op /\ now.index = call[t].index /\ now.stale = call[t].stale
        /\ now.cancelled
    BY Before DEF RewriteCalls
  <2> HIDE DEF now
  <2>2. at'[t] = at[t] /\ call'[t] = now
    BY <1>3, <2>1, Before, Moves
  <2>3. TaskFits(t)'
    BY <1>1, <1>3, <2>1, <2>2, Before DEF TaskFits
  <2>4. FilesAreDistinct(t)'
    BY <2>1, <2>2, Before DEF FilesAreDistinct, Distinct
  <2>5. Progress(t)'
    BY <2>1, <2>2, Before DEF Progress
  <2>6. FilesStay(t)'
    BY <1>1, <2>1, <2>2, Before DEF FilesStay, Original
  <2>7. StepsRightly(t)
    BY <1>3, <2>1, <2>2, Before, NothingLands
  <2> QED
    BY <1>1, <1>3, <2>1, <2>3, <2>4, <2>5, <2>6, <2>7, Before, ProposalsQuiet, GoesOn
       DEF TaskStands
<1> QED
  BY <1>2, <1>3 DEF CancelRewrite

\* A step that is no task's
LEMMA OthersKeep ==
  ASSUME RewriteInv, UNCHANGED <<at, call, writeLock, proposalVars>>,
         clock' \in Nat, clock <= clock', closed' \in BOOLEAN, foreign' \in BOOLEAN,
         revision' \in Nat, disk' \in [Path -> Text], guard' \in {guard, Editor, Nobody},
         guard \in Task => guard' = guard, foreign => foreign',
         disk' = disk \/ foreign' \/ guard \notin Task
  PROVE  Kept
<1>1. ProposalsStand'
  BY ProposalsKept
<1>2. LeavesOthers(Nobody) /\ Nobody \notin Task
  BY HolderAssumption DEF LeavesOthers, proposalVars, RewriteInv
<1>3. SharedTypes' /\ TaskTypes'
  BY DEF RewriteInv, SharedTypes, TaskTypes
<1> QED
  BY <1>1, <1>2, <1>3, StepKeeps

LEMMA AroundKeeps ==
  ASSUME RewriteInv, CloseRewrites \/ Tick \/ MarkEdit \/ UNCHANGED rewriteVars
  PROVE  Kept
<1>1. clock \in Nat /\ SharedTypes /\ Editor \notin Task /\ Nobody \notin Task
  BY HolderAssumption DEF RewriteInv, ProposalsStand
<1>2. CASE CloseRewrites
  BY <1>1, <1>2, OthersKeep DEF CloseRewrites, SharedTypes, taskVars, lockVars, boundVars
<1>3. CASE Tick
  BY <1>1, <1>3, OthersKeep DEF Tick, SharedTypes, taskVars, lockVars, sessionVars
<1>4. CASE MarkEdit
  BY <1>1, <1>4, OthersKeep DEF MarkEdit, SharedTypes, taskVars, boundVars
<1>5. CASE UNCHANGED rewriteVars
  BY <1>1, <1>5, OthersKeep DEF rewriteVars, SharedTypes, taskVars, lockVars, boundVars,
     sessionVars
<1> QED
  BY <1>2, <1>3, <1>4, <1>5

LEMMA WritesKeep ==
  ASSUME RewriteInv, NEW path \in Path, NEW text \in Text,
         Edit(path, text) \/ Outside(path, text)
  PROVE  Kept
<1>1. /\ clock \in Nat /\ SharedTypes /\ Editor \notin Task /\ Nobody \notin Task
      /\ Write(path, text)
  BY HolderAssumption DEF RewriteInv, ProposalsStand, Edit, Outside
<1>2. disk' \in [Path -> Text]
  BY <1>1 DEF Write, SharedTypes
<1>3. CASE Edit(path, text)
  BY <1>1, <1>2, <1>3, OthersKeep DEF Edit, SharedTypes, taskVars
<1>4. CASE Outside(path, text)
  <2>1. /\ foreign' = (foreign \/ guard # Nobody)
        /\ UNCHANGED <<at, call, guard, writeLock, proposalVars, clock, closed, revision>>
    BY <1>4 DEF Outside, taskVars, lockVars, sessionVars
  <2>2. foreign' \in BOOLEAN /\ (foreign => foreign') /\ (foreign' \/ guard \notin Task)
    BY <1>1, <2>1 DEF SharedTypes
  <2> QED
    BY <1>1, <1>2, <2>1, <2>2, OthersKeep DEF SharedTypes
<1> QED
  BY <1>3, <1>4

LEMMA RewritesKeep ==
  ASSUME RewriteInv, [RewriteNext]_rewriteVars
  PROVE  Kept
<1>1. ASSUME NEW t \in Task, RewriteStep(t) \/ Preview(t) \/ CancelRewrite(t)
      PROVE  Kept
  BY <1>1, ReadTreeKeeps, ResumePreviewKeeps, TakeKeeps, EnterKeeps, LockGuardKeeps, PreflightKeeps,
     VerifyKeeps, PersistKeeps, MarkKeeps, ResumeApplyKeeps, PreviewKeeps, CancelKeeps DEF RewriteStep
<1>2. ASSUME NEW t \in Task, NEW id \in DOMAIN stored, Apply(t, id) \/ Reject(t, id)
      PROVE  Kept
  BY <1>2, ApplyKeeps, RejectKeeps
<1>3. ASSUME NEW path \in Path, NEW text \in Text, Edit(path, text) \/ Outside(path, text)
      PROVE  Kept
  BY <1>3, WritesKeep
<1> QED
  BY <1>1, <1>2, <1>3, AroundKeeps DEF RewriteNext

LEMMA RewritesBegin ==
  ASSUME RewriteInit
  PROVE  RewriteInv
<1>1. SharedTypes
  BY RewriteAssumption DEF RewriteInit, SharedTypes
<1>2. ProposalsStand
  <2>1. capacity \in Nat \ {0} /\ pending = {} /\ stored = <<>> /\ gone = {} /\ clock = 0
    BY LimitsAssumption DEF RewriteInit
  <2>2. IsFiniteSet(pending) /\ Cardinality(pending) = 0
    BY <2>1, FS_EmptySet
  <2> QED
    BY <2>1, <2>2 DEF ProposalsStand, NewestProposalsStay
<1>3. TaskTypes
  BY IdleIsJob DEF RewriteInit, TaskTypes, RewriteSteps
<1>4. ASSUME NEW t \in Task
      PROVE  TaskStands(t)
  <2>1. at[t] = "idle" /\ call[t] = Idle
    BY DEF RewriteInit
  <2> QED
    BY <2>1 DEF TaskStands, TaskFits, FilesAreDistinct, Distinct, Progress, FilesStay, Idle,
                UnderGuard, Untouched
<1> QED
  BY <1>1, <1>2, <1>3, <1>4 DEF RewriteInv

-----------------------------------------------------------------------------
\* The invariant of rewrites holds in every reachable state.
THEOREM RewriteInvHolds == RewriteSpec => []RewriteInv
<1>1. RewriteInit => RewriteInv
  BY RewritesBegin
<1>2. RewriteInv /\ [RewriteNext]_rewriteVars => RewriteInv'
  BY RewritesKeep DEF Kept
<1> QED
  BY <1>1, <1>2, PTL DEF RewriteSpec

\* The state of the rewrites is of its types, and the engine never keeps
\* more proposals than max_pending_proposals (engine.py:212-216).
THEOREM RewriteTypesHold == RewriteSpec => []RewriteTypeOK
<1>1. RewriteInv => RewriteTypeOK
  BY DEF RewriteInv, RewriteTypeOK, SharedTypes, ProposalsStand, TaskTypes,
         RewriteSteps, TaskStands, Progress
<1> QED
  BY <1>1, RewriteInvHolds, PTL

\* A proposal stays until it is asked for, expires, or as many newer ones
\* as the engine keeps are stored (engine.py:154-217).
THEOREM NewestProposalsAreKept == RewriteSpec => []NewestProposalsStay
<1>1. RewriteInv => NewestProposalsStay
  BY DEF RewriteInv, ProposalsStand
<1> QED
  BY <1>1, RewriteInvHolds, PTL

\* Among sessions a rewrite replaces all of its files or none, unless it is
\* cancelled or a file operation fails (apply.rs).
THEOREM RewritesReplaceAllOrNothing == RewriteSpec => []RewritesAreWhole
<1>1. RewriteInv => RewritesAreWhole
  BY DEF RewriteInv, TaskStands, FilesStay, RewritesAreWhole
<1> QED
  BY <1>1, RewriteInvHolds, PTL

\* A file is replaced only while it has the text its preview was computed
\* from, and no proposal is taken twice (apply.rs, engine.py).
THEOREM RewritesAreAsPreviewed == RewriteSpec => RewritesReplaceWhatWasPreviewed
<1>1. RewriteInv /\ [RewriteNext]_rewriteVars =>
        [\A t \in Task :
           /\ ~foreign /\ call'[t].landed > call[t].landed =>
                disk[File(t).path] = File(t).original
           /\ at[t] = "lock" /\ at'[t] = "enter" => call[t].id \notin gone]_rewriteVars
  BY RewritesKeep DEF Kept, StepsRightly, Replaces, Takes
<1> QED
  BY <1>1, RewriteInvHolds, PTL DEF RewriteSpec, RewritesReplaceWhatWasPreviewed
=============================================================================
