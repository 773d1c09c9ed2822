---------------------- MODULE WorkspaceMutationsProofs ----------------------
(***************************************************************************)
(* Theorems about guarded file changes, for any number of sessions,        *)
(* workers, paths and calls.  They rest on one argument: a worker between  *)
(* the load of a file and its answer holds the lock file, so nobody else   *)
(* changes a file meanwhile; and what it may overwrite, the ledger of its  *)
(* session has been shown whole.                                           *)
(***************************************************************************)
EXTENDS WorkspaceMutations, TLAPS

\* The steps of a worker that holds the lock file
Holding == {"load", "authorize", "verify", "persist", "create", "remove", "link",
            "unlink", "mark", "present"}

\* The steps of a worker whose call has changed nothing yet
Unlanded == {"coordinator", "flock", "read", "generation", "record", "load", "authorize",
             "verify", "persist", "create", "remove", "link"}

\* The steps of a worker whose change the ledger has authorized
Authorized == {"verify", "persist", "remove", "link", "unlink"}

-----------------------------------------------------------------------------
(* The inductive invariant *)

\* Types: those of TypeOK and what its ledgers need
Types ==
  /\ TypeOK
  /\ DOMAIN ledger = Session
  /\ \A s \in Session : ledger[s].clock \in Nat

\* Where a worker is fits the operation it was called for.
StepFits(w) ==
  /\ pc[w] \in {"coordinator", "flock", "mark"} => call[w].op # "read"
  /\ pc[w] \in {"read", "generation", "record"} => call[w].op = "read"
  /\ pc[w] \in {"load", "authorize"} => call[w].op \in {"replace", "delete", "move"}
  /\ pc[w] \in {"verify", "persist"} => call[w].op = "replace"
  /\ pc[w] = "create" => call[w].op = "create"
  /\ pc[w] = "remove" => call[w].op = "delete"
  /\ pc[w] \in {"link", "unlink"} => call[w].op = "move"
  /\ pc[w] = "present" => call[w].op \in {"create", "replace", "move"}

\* What is asked for makes sense.
RequestFits(c) ==
  /\ c.op \in {"create", "replace"} => c.after \in Text
  /\ c.op = "delete" => c.after = Absent
  /\ c.op = "move" => c.destination \in Path /\ c.destination # c.path

\* A worker that has read a text keeps it.
TextIsKnown(w) ==
  (\/ pc[w] \in {"generation", "record", "authorize"} \cup Authorized
   \/ pc[w] \in {"mark", "present"} /\ call[w].op = "move") => call[w].base \in Text

\* Nothing lands before the call's own change, and what landed is answered
\* for.
LandingIsAnswered(w) ==
  /\ pc[w] \in Unlanded => call[w].landed = {}
  /\ pc[w] = "return" /\ call[w].result \notin {"ok", "partial", "closed"} => call[w].landed = {}

\* The lock file excludes the workers of all sessions from each other.
HoldsLock(w) == pc[w] \in Holding => flock = w

\* What a worker may overwrite or remove, its session was shown whole.
WasShown(w) == pc[w] \in Authorized => <<call[w].path, call[w].base>> \in shown[Home[w]]

\* The files of a change under way are as its steps left them; a move has
\* its file at both names before it removes the first.
FilesStay(w) ==
  foreign = 0 =>
    /\ pc[w] \in {"authorize"} \cup Authorized => disk[call[w].path] = call[w].base
    /\ pc[w] = "unlink" => disk[call[w].destination] = call[w].base
    /\ pc[w] \in {"mark", "present"} => disk[Target(call[w])] = Result(call[w])

\* A move that could not remove its source is answered with the lock file
\* held and the file at both names.
MoveIsLeft(w) ==
  LET c == call[w] IN
  /\ pc[w] = "unlink" => c.landed = {c.destination}
  /\ pc[w] = "return" /\ c.result = "partial" =>
       /\ flock = w
       /\ c.landed = {c.destination}
       /\ foreign = 0 => disk[c.path] = c.base /\ disk[c.destination] = c.base

WorkerInv(w) ==
  /\ StepFits(w)
  /\ RequestFits(call[w])
  /\ TextIsKnown(w)
  /\ LandingIsAnswered(w)
  /\ HoldsLock(w)
  /\ WasShown(w)
  /\ FilesStay(w)
  /\ MoveIsLeft(w)

\* An entry that says so was shown whole.
CompleteWasShown ==
  \A s \in Session : \A k \in DOMAIN ledger[s].entries :
    ledger[s].entries[k].complete => k \in shown[s]

\* A change that has landed and is not marked yet is counted by landings
\* alone.
Marking(s) == \E w \in Worker : pc[w] = "mark" /\ Home[w] = s
RevisionTrails ==
  \A s \in Session : revision[s] = IF Marking(s) THEN landings[s] ELSE landings[s] + 1

IInv ==
  /\ Types
  /\ \A w \in Worker : WorkerInv(w)
  /\ CompleteWasShown
  /\ RevisionTrails

-----------------------------------------------------------------------------
(* What a step of one worker leaves to the others *)

OthersStay(w) == \A v \in Worker \ {w} : pc'[v] = pc[v] /\ call'[v] = call[v]

\* Types of what the workers share
SharedTypes ==
  /\ disk \in [Path -> Text \cup {Absent}]
  /\ closed \in [Session -> BOOLEAN]
  /\ DOMAIN ledger = Session
  /\ \A s \in Session : /\ DOMAIN ledger[s].entries \subseteq Key
                        /\ \A k \in DOMAIN ledger[s].entries : ledger[s].entries[k] \in Entry
                        /\ ledger[s].clock \in Nat
  /\ generation \in [Session -> [Path -> Nat \ {0}]]
  /\ revision \in [Session -> Nat \ {0}]
  /\ coordinator \in [Session -> Worker \cup {Free}]
  /\ flock \in Worker \cup {Free}
  /\ calls \in 0..MaxCalls /\ foreign \in 0..MaxForeign
  /\ shown \in [Session -> SUBSET Key]
  /\ landings \in [Session -> Nat]

\* Types are those of what workers share and of each worker's own.
LEMMA SplitTypes ==
  Types <=> SharedTypes /\ pc \in [Worker -> Steps] /\ call \in [Worker -> Call]
BY DEF Types, TypeOK, SharedTypes

\* A worker that goes on changes its own step and call only.
LEMMA GotoEffect ==
  ASSUME Types, NEW w \in Worker, NEW next \in Steps, NEW now \in Call, Goto(w, next, now)
  PROVE  /\ pc' \in [Worker -> Steps] /\ call' \in [Worker -> Call]
         /\ pc'[w] = next /\ call'[w] = now
         /\ OthersStay(w)
BY DEF Types, TypeOK, Goto, OthersStay

\* An answer keeps all of the call but its result.
LEMMA AnswerEffect ==
  ASSUME Types, NEW w \in Worker, NEW now \in Call, NEW result \in Answer,
         AnswerWith(w, now, result)
  PROVE  /\ pc' \in [Worker -> Steps] /\ call' \in [Worker -> Call]
         /\ pc'[w] = "return"
         /\ call'[w].op = now.op /\ call'[w].path = now.path
         /\ call'[w].destination = now.destination
         /\ call'[w].base = now.base /\ call'[w].after = now.after
         /\ call'[w].landed = now.landed /\ call'[w].result = result
         /\ OthersStay(w)
<1> DEFINE answered == [now EXCEPT !.result = result]
<1>1. /\ answered \in Call
      /\ answered.op = now.op /\ answered.path = now.path
      /\ answered.destination = now.destination
      /\ answered.base = now.base /\ answered.after = now.after
      /\ answered.landed = now.landed /\ answered.result = result
  BY DEF Call
<1>2. Goto(w, "return", answered)
  BY DEF AnswerWith
<1>3. "return" \in Steps
  BY DEF Steps
<1> HIDE DEF answered
<1> QED
  BY <1>1, <1>2, <1>3, GotoEffect

\* A worker that is left alone keeps its invariant as long as nobody takes
\* the lock file from it or, while it holds it, changes a file.
LEMMA OtherKeeps ==
  ASSUME Types, NEW v \in Worker, WorkerInv(v),
         pc'[v] = pc[v], call'[v] = call[v],
         foreign' = foreign \/ foreign' # 0,
         \A s \in Session : shown[s] \subseteq shown'[s],
         flock = v => flock' = v /\ (disk' = disk \/ foreign' # 0)
  PROVE  WorkerInv(v)'
<1>1. StepFits(v)' /\ RequestFits(call[v])' /\ TextIsKnown(v)' /\ LandingIsAnswered(v)'
  BY DEF WorkerInv, StepFits, RequestFits, TextIsKnown, LandingIsAnswered
<1>2. HoldsLock(v)'
  BY DEF WorkerInv, HoldsLock
<1>3. WasShown(v)'
  BY HomeAssumption DEF WorkerInv, WasShown
<1>4. FilesStay(v)'
  <2>1. SUFFICES ASSUME foreign' = 0, pc[v] \in Holding PROVE FilesStay(v)'
    BY DEF FilesStay, Holding, Authorized
  <2>2. foreign = 0 /\ disk' = disk
    BY <2>1 DEF WorkerInv, HoldsLock
  <2> QED
    BY <2>2 DEF WorkerInv, FilesStay, Target, Result
<1>5. MoveIsLeft(v)'
  BY DEF WorkerInv, MoveIsLeft
<1> QED
  BY <1>1, <1>2, <1>3, <1>4, <1>5 DEF WorkerInv

\* So a step is judged by its own worker, the ledgers and the revisions.
LEMMA StepKeeps ==
  ASSUME IInv, NEW w \in Worker,
         pc' \in [Worker -> Steps], call' \in [Worker -> Call], OthersStay(w),
         SharedTypes', foreign' = foreign,
         \A s \in Session : shown[s] \subseteq shown'[s],
         flock' = flock \/ flock \in {w, Free},
         disk' = disk \/ pc[w] \in Holding,
         WorkerInv(w)', CompleteWasShown', RevisionTrails'
  PROVE  IInv'
<1>1. Types'
  BY DEF Types, TypeOK, SharedTypes
<1>2. ASSUME NEW v \in Worker, v # w PROVE WorkerInv(v)'
  <2>1. flock = v => flock' = v /\ disk' = disk
    BY <1>2, DiskAssumption DEF IInv, WorkerInv, HoldsLock
  <2>2. pc'[v] = pc[v] /\ call'[v] = call[v]
    BY <1>2 DEF OthersStay
  <2> QED
    BY <2>1, <2>2, OtherKeeps DEF IInv
<1> QED
  BY <1>1, <1>2 DEF IInv

-----------------------------------------------------------------------------
(* Steps that change nothing but their worker and the locks *)

Unseen == UNCHANGED <<disk, sessionVars, shown, landings, foreign>>

\* The locks stay locks, and nobody takes one from another.
LocksMove(w) ==
  /\ coordinator' \in [Session -> Worker \cup {Free}]
  /\ flock' \in Worker \cup {Free}
  /\ flock' = flock \/ flock \in {w, Free}
  /\ calls' \in 0..MaxCalls

\* A step that changes no file, no ledger and no count keeps the invariant
\* if its worker fits its new step.
LEMMA UnseenStep ==
  ASSUME IInv, NEW w \in Worker, Unseen, LocksMove(w), OthersStay(w),
         pc' \in [Worker -> Steps], call' \in [Worker -> Call],
         pc[w] = "mark" <=> pc'[w] = "mark", WorkerInv(w)'
  PROVE  IInv'
<1> USE DEF Unseen, sessionVars
<1>1. SharedTypes'
  BY SplitTypes DEF IInv, SharedTypes, LocksMove
<1>2. CompleteWasShown'
  BY DEF IInv, CompleteWasShown
<1>3. RevisionTrails'
  <2>1. \A s \in Session : Marking(s)' <=> Marking(s)
    BY DEF Marking, OthersStay
  <2> QED
    BY <2>1 DEF IInv, RevisionTrails
<1> QED
  BY <1>1, <1>2, <1>3, StepKeeps DEF LocksMove

\* Steps that leave the locks alone
LEMMA KeepLocksMoves ==
  ASSUME Types, NEW w \in Worker, KeepLocks
  PROVE  LocksMove(w) /\ foreign' = foreign
BY DEF KeepLocks, lockVars, LocksMove, Types, TypeOK

\* An answer needs no more than that nothing landed, or that it says so.
LEMMA AnswerFits ==
  ASSUME Types, NEW w \in Worker, NEW now \in Call, NEW result \in Answer \ {"partial"},
         AnswerWith(w, now, result),
         RequestFits(now), now.landed = {} \/ result \in {"ok", "closed"}
  PROVE  /\ pc' \in [Worker -> Steps] /\ call' \in [Worker -> Call]
         /\ pc'[w] = "return" /\ OthersStay(w) /\ WorkerInv(w)'
<1>1. /\ pc' \in [Worker -> Steps] /\ call' \in [Worker -> Call]
      /\ pc'[w] = "return"
      /\ call'[w].op = now.op /\ call'[w].path = now.path
      /\ call'[w].destination = now.destination
      /\ call'[w].after = now.after
      /\ call'[w].landed = now.landed /\ call'[w].result = result
      /\ OthersStay(w)
  BY AnswerEffect
<1>2. WorkerInv(w)'
  BY <1>1 DEF WorkerInv, StepFits, RequestFits, TextIsKnown, LandingIsAnswered, HoldsLock,
              WasShown, FilesStay, MoveIsLeft, Holding, Unlanded, Authorized
<1> QED
  BY <1>1, <1>2

\* So it keeps the invariant when the step changes nothing else.
LEMMA AnswerKeeps ==
  ASSUME IInv, NEW w \in Worker, NEW now \in Call, NEW result \in Answer \ {"partial"},
         AnswerWith(w, now, result), Unseen, LocksMove(w), pc[w] # "mark",
         RequestFits(now), now.landed = {} \/ result \in {"ok", "closed"}
  PROVE  IInv'
<1>1. /\ pc' \in [Worker -> Steps] /\ call' \in [Worker -> Call]
      /\ pc'[w] = "return" /\ OthersStay(w) /\ WorkerInv(w)'
  BY AnswerFits DEF IInv
<1> QED
  BY <1>1, UnseenStep

\* A refusal does, before anything landed or with an answer that says so.
LEMMA RefuseKeeps ==
  ASSUME IInv, NEW w \in Worker, NEW result \in Answer \ {"partial"}, Refuse(w, result),
         KeepLocks, pc[w] # "mark", pc[w] \in Unlanded \/ result \in {"ok", "closed"}
  PROVE  IInv'
<1>1. call[w] \in Call
  BY DEF IInv, Types, TypeOK
<1>2. RequestFits(call[w]) /\ (call[w].landed = {} \/ result \in {"ok", "closed"})
  BY DEF IInv, WorkerInv, LandingIsAnswered
<1>3. Unseen /\ LocksMove(w)
  BY KeepLocksMoves DEF IInv, Refuse, Unseen
<1>4. AnswerWith(w, call[w], result)
  BY DEF Refuse
<1> QED
  BY <1>1, <1>2, <1>3, <1>4, AnswerKeeps

\* What a request asks for, and that nothing is known of it yet
LEMMA RequestIsCall ==
  ASSUME NEW op, NEW path, NEW destination, NEW tag, NEW after,
         op \in Op, path \in Path, destination \in Path \cup {Absent},
         tag \in Tag \cup {Absent}, after \in Text \cup {Absent}
  PROVE  LET r == Request(op, path, destination, tag, after)
         IN /\ r \in Call /\ r.op = op /\ r.path = path /\ r.destination = destination
            /\ r.after = after /\ r.landed = {}
<1>1. {} \in SUBSET Path /\ "none" \in Answer /\ 0 \in Nat /\ FALSE \in BOOLEAN
      /\ Absent \in Text \cup {Absent}
  BY DEF Answer
<1>2. Request(op, path, destination, tag, after) \in Call
  BY <1>1 DEF Request, Call
<1> QED
  BY <1>2 DEF Request

\* A caller's requests make sense, and so does the call of an idle worker.
LEMMA RequestsAreCalls ==
  /\ \A request \in Requests : /\ request \in Call
                                /\ RequestFits(request)
                                /\ request.landed = {}
  /\ Idle \in Call /\ RequestFits(Idle)
<1>1. Idle \in Call /\ RequestFits(Idle)
  <2>1. PICK p \in Path : p = CHOOSE q \in Path : TRUE
    BY PathAssumption
  <2> QED
    BY RequestIsCall, <2>1 DEF Idle, Op, RequestFits
<1>2. ASSUME NEW request \in Requests
      PROVE  request \in Call /\ RequestFits(request) /\ request.landed = {}
  <2>1. CASE \E p \in Path, op \in {"read", "delete"} :
               request = Request(op, p, Absent, Absent, Absent)
    <3>1. PICK p \in Path, op \in {"read", "delete"} :
            request = Request(op, p, Absent, Absent, Absent)
      BY <2>1
    <3>2. op \in Op /\ Absent \in Path \cup {Absent} /\ Absent \in Tag \cup {Absent}
          /\ Absent \in Text \cup {Absent}
      BY DEF Op
    <3>3. request \in Call /\ request.op = op /\ request.landed = {} /\ request.after = Absent
      BY RequestIsCall, <3>1, <3>2
    <3> QED
      BY <3>3 DEF RequestFits
  <2>2. CASE \E p \in Path, text \in Text : request = Request("create", p, Absent, Absent, text)
    <3>1. PICK p \in Path, text \in Text : request = Request("create", p, Absent, Absent, text)
      BY <2>2
    <3>2. "create" \in Op /\ Absent \in Path \cup {Absent} /\ Absent \in Tag \cup {Absent}
          /\ text \in Text \cup {Absent}
      BY DEF Op
    <3>3. request \in Call /\ request.op = "create" /\ request.landed = {}
          /\ request.after = text
      BY RequestIsCall, <3>1, <3>2
    <3> QED
      BY <3>3 DEF RequestFits
  <2>3. CASE \E p \in Path, tag \in Tag, text \in Text :
               request = Request("replace", p, Absent, tag, text)
    BY RequestIsCall, <2>3 DEF Op, RequestFits
  <2>4. CASE \E pq \in Path \X Path : /\ pq[1] # pq[2]
                                       /\ request = Request("move", pq[1], pq[2], Absent, Absent)
    BY RequestIsCall, <2>4 DEF Op, RequestFits
  <2> QED
    BY <2>1, <2>2, <2>3, <2>4 DEF Requests
<1> QED
  BY <1>1, <1>2

\* No worker has begun.
LEMMA InitIInv == Init => IInv
<1> SUFFICES ASSUME Init PROVE IInv
  OBVIOUS
<1>1. Types
  <2>1. SharedTypes
    BY DiskAssumption, BoundAssumption DEF Init, SharedTypes, EmptyLedger
  <2> QED
    BY <2>1, SplitTypes, RequestsAreCalls DEF Init, Steps
<1>2. ASSUME NEW w \in Worker PROVE WorkerInv(w)
  BY RequestsAreCalls DEF Init, WorkerInv, StepFits, TextIsKnown, LandingIsAnswered, HoldsLock,
       WasShown, FilesStay, MoveIsLeft, Holding, Unlanded, Authorized
<1>3. CompleteWasShown /\ RevisionTrails
  BY DEF Init, CompleteWasShown, EmptyLedger, RevisionTrails, Marking
<1> QED
  BY <1>1, <1>2, <1>3 DEF IInv

\* A call begins holding nothing.
LEMMA BeginKeeps == ASSUME IInv, NEW w \in Worker, Begin(w) PROVE IInv'
<1>1. PICK request \in Requests : \E cancelled \in {FALSE, request.op = "create"} :
        LET now == [request EXCEPT !.cancelled = cancelled] IN
        IF closed[Home[w]] THEN AnswerWith(w, now, "closed")
        ELSE CASE request.op = "read" -> Goto(w, "read", now)
               [] request.op = "create" /\ cancelled -> AnswerWith(w, now, "cancelled")
               [] OTHER -> Goto(w, "coordinator", now)
  BY DEF Begin
<1>0. PICK cancelled \in {FALSE, request.op = "create"} :
        LET now == [request EXCEPT !.cancelled = cancelled] IN
        IF closed[Home[w]] THEN AnswerWith(w, now, "closed")
        ELSE CASE request.op = "read" -> Goto(w, "read", now)
               [] request.op = "create" /\ cancelled -> AnswerWith(w, now, "cancelled")
               [] OTHER -> Goto(w, "coordinator", now)
  BY <1>1
<1> DEFINE now == [request EXCEPT !.cancelled = cancelled]
<1>2. request \in Call /\ RequestFits(request) /\ request.landed = {} /\ cancelled \in BOOLEAN
  BY RequestsAreCalls
<1>3. now \in Call /\ RequestFits(now) /\ now.landed = {} /\ now.op = request.op
  BY <1>2 DEF Call, RequestFits
<1>4. Unseen /\ LocksMove(w) /\ pc[w] = "idle"
  BY BoundAssumption DEF IInv, Types, TypeOK, Begin, Unseen, LocksMove, lockVars
<1>5. \/ AnswerWith(w, now, "closed") \/ AnswerWith(w, now, "cancelled")
      \/ request.op = "read" /\ Goto(w, "read", now)
      \/ request.op # "read" /\ Goto(w, "coordinator", now)
  BY <1>0
<1> HIDE DEF now
<1>6. CASE AnswerWith(w, now, "closed") \/ AnswerWith(w, now, "cancelled")
  <2>1. PICK result \in {"closed", "cancelled"} : AnswerWith(w, now, result)
    BY <1>6
  <2>2. result \in Answer
    BY DEF Answer
  <2> QED
    BY <1>3, <1>4, <2>1, <2>2, AnswerKeeps
<1>7. ASSUME NEW next \in {"read", "coordinator"}, Goto(w, next, now),
             request.op = "read" <=> next = "read"
      PROVE  IInv'
  <2>1. /\ pc' \in [Worker -> Steps] /\ call' \in [Worker -> Call]
        /\ pc'[w] = next /\ call'[w] = now /\ OthersStay(w)
    BY <1>3, <1>7, GotoEffect DEF IInv, Steps
  <2>2. WorkerInv(w)'
    BY <1>3, <1>7, <2>1 DEF WorkerInv, StepFits, TextIsKnown, LandingIsAnswered, HoldsLock,
         WasShown, FilesStay, MoveIsLeft, Holding, Unlanded, Authorized, RequestFits
  <2> QED
    BY <1>4, <2>1, <2>2, UnseenStep
<1> QED
  BY <1>5, <1>6, <1>7

\* The first lock, or the failure to open or lock the file
LEMMA LockCoordinatorKeeps == ASSUME IInv, NEW w \in Worker, LockCoordinator(w) PROVE IInv'
<1>1. call[w] \in Call /\ pc[w] = "coordinator"
  BY DEF IInv, Types, TypeOK, LockCoordinator
<1>2. Unseen /\ LocksMove(w)
  BY DEF IInv, Types, TypeOK, LockCoordinator, Unseen, LocksMove
<1>3. CASE Goto(w, "flock", call[w])
  <2>1. /\ pc' \in [Worker -> Steps] /\ call' \in [Worker -> Call]
        /\ pc'[w] = "flock" /\ call'[w] = call[w] /\ OthersStay(w)
    BY <1>1, <1>3, GotoEffect DEF IInv, Steps
  <2>2. WorkerInv(w)'
    BY <1>1, <2>1 DEF IInv, WorkerInv, StepFits, RequestFits, TextIsKnown, LandingIsAnswered,
       HoldsLock, WasShown, FilesStay, MoveIsLeft, Holding, Unlanded, Authorized
  <2> QED
    BY <1>1, <1>2, <2>1, <2>2, UnseenStep
<1>4. CASE AnswerWith(w, call[w], "write")
  <2>1. RequestFits(call[w]) /\ call[w].landed = {} /\ "write" \in Answer
    BY <1>1 DEF IInv, WorkerInv, LandingIsAnswered, Unlanded, Answer
  <2> QED
    BY <1>1, <1>2, <1>4, <2>1, AnswerKeeps
<1> QED
  BY <1>3, <1>4 DEF LockCoordinator

\* The second lock: nobody else was holding it.
LEMMA LockWorkspaceKeeps == ASSUME IInv, NEW w \in Worker, LockWorkspace(w) PROVE IInv'
<1> DEFINE next == IF call[w].op = "create" THEN "create" ELSE "load"
<1>1. call[w] \in Call /\ pc[w] = "flock" /\ next \in Steps
  BY DEF IInv, Types, TypeOK, LockWorkspace, Steps
<1>2. Unseen /\ LocksMove(w)
  BY DEF IInv, Types, TypeOK, LockWorkspace, Unseen, LocksMove
<1>3. Goto(w, next, call[w]) /\ flock' = w
  BY DEF LockWorkspace
<1>4. next \in {"create", "load"} /\ (next = "create" <=> call[w].op = "create")
  OBVIOUS
<1> HIDE DEF next
<1>5. /\ pc' \in [Worker -> Steps] /\ call' \in [Worker -> Call]
      /\ pc'[w] = next /\ call'[w] = call[w] /\ OthersStay(w)
  BY <1>1, <1>3, GotoEffect DEF IInv
<1>6. WorkerInv(w)'
  BY <1>1, <1>3, <1>4, <1>5 DEF IInv, WorkerInv, StepFits, RequestFits, TextIsKnown,
     LandingIsAnswered, HoldsLock, WasShown, FilesStay, MoveIsLeft, Holding, Unlanded, Authorized,
     Call, Op
<1> QED
  BY <1>1, <1>2, <1>4, <1>5, <1>6, UnseenStep

\* The guard is dropped with the call.
LEMMA ReturnKeeps == ASSUME IInv, NEW w \in Worker, Return(w) PROVE IInv'
<1>1. Idle \in Call /\ RequestFits(Idle) /\ "idle" \in Steps /\ pc[w] = "return"
  BY RequestsAreCalls DEF Steps, Return
<1>2. Unseen /\ LocksMove(w)
  BY DEF IInv, Types, TypeOK, Return, Unseen, LocksMove
<1>3. /\ pc' \in [Worker -> Steps] /\ call' \in [Worker -> Call]
      /\ pc'[w] = "idle" /\ call'[w] = Idle /\ OthersStay(w)
  BY <1>1, GotoEffect DEF IInv, Return
<1>4. WorkerInv(w)'
  BY <1>1, <1>3 DEF WorkerInv, StepFits, RequestFits, TextIsKnown, LandingIsAnswered,
     HoldsLock, WasShown, FilesStay, MoveIsLeft, Holding, Unlanded, Authorized
<1> QED
  BY <1>1, <1>2, <1>3, <1>4, UnseenStep

\* Reading the file without a lock
LEMMA ReadContentKeeps == ASSUME IInv, NEW w \in Worker, ReadContent(w) PROVE IInv'
<1> DEFINE text == disk[call[w].path]
           now == [call[w] EXCEPT !.base = text]
<1>1. call[w] \in Call /\ pc[w] = "read" /\ text \in Text \cup {Absent}
  BY DEF IInv, Types, TypeOK, ReadContent, Call
<1>2. CASE \E result \in {"missing", "unreadable", "ok"} : Refuse(w, result)
  <2>1. PICK result \in {"missing", "unreadable", "ok"} : Refuse(w, result)
    BY <1>2
  <2>2. result \in Answer \ {"partial"} /\ pc[w] \in Unlanded
    BY <1>1 DEF Answer, Unlanded
  <2> QED
    BY <1>1, <2>1, <2>2, RefuseKeeps DEF ReadContent
<1>3. CASE text # Absent /\ Goto(w, "generation", now)
           /\ UNCHANGED <<disk, sessionVars, shown, landings>>
  <2>1. Unseen /\ LocksMove(w)
    BY <1>3, KeepLocksMoves DEF IInv, Unseen, ReadContent
  <2>2. /\ now \in Call /\ now.op = call[w].op /\ now.path = call[w].path /\ now.base = text
        /\ now.destination = call[w].destination /\ now.after = call[w].after
        /\ now.landed = call[w].landed
    BY <1>1 DEF Call
  <2> HIDE DEF now
  <2>3. /\ pc' \in [Worker -> Steps] /\ call' \in [Worker -> Call]
        /\ pc'[w] = "generation" /\ call'[w] = now /\ OthersStay(w)
    BY <1>3, <2>2, GotoEffect DEF IInv, Steps
  <2>4. WorkerInv(w)'
    BY <1>1, <1>3, <2>2, <2>3 DEF IInv, WorkerInv, StepFits, RequestFits, TextIsKnown,
       LandingIsAnswered, HoldsLock, WasShown, FilesStay, MoveIsLeft, Holding, Unlanded, Authorized
  <2> QED
    BY <1>1, <2>1, <2>3, <2>4, UnseenStep
<1> QED
  BY <1>1, <1>2, <1>3 DEF ReadContent

\* Reading the file's generation, and finding the session closed
LEMMA ReadGenerationKeeps == ASSUME IInv, NEW w \in Worker, ReadGeneration(w) PROVE IInv'
<1> DEFINE now == [call[w] EXCEPT !.generation = generation[Home[w]][call[w].path]]
<1>1. call[w] \in Call /\ pc[w] = "generation"
  BY DEF IInv, Types, TypeOK, ReadGeneration
<1>2. CASE Refuse(w, "closed")
  <2>1. "closed" \in Answer /\ pc[w] \in Unlanded
    BY <1>1 DEF Answer, Unlanded
  <2> QED
    BY <1>1, <1>2, <2>1, RefuseKeeps DEF ReadGeneration
<1>3. CASE Goto(w, "record", now) /\ UNCHANGED <<disk, sessionVars, shown, landings>>
  <2>1. Unseen /\ LocksMove(w)
    BY <1>3, KeepLocksMoves DEF IInv, Unseen, ReadGeneration
  <2>2. generation[Home[w]][call[w].path] \in Nat
    BY <1>1, HomeAssumption DEF IInv, Types, TypeOK, Call
  <2>3. /\ now \in Call /\ now.op = call[w].op /\ now.path = call[w].path
        /\ now.base = call[w].base /\ now.destination = call[w].destination
        /\ now.after = call[w].after /\ now.landed = call[w].landed
    BY <1>1, <2>2 DEF Call
  <2> HIDE DEF now
  <2>4. /\ pc' \in [Worker -> Steps] /\ call' \in [Worker -> Call]
        /\ pc'[w] = "record" /\ call'[w] = now /\ OthersStay(w)
    BY <1>3, <2>3, GotoEffect DEF IInv, Steps
  <2>5. WorkerInv(w)'
    BY <1>1, <2>3, <2>4 DEF IInv, WorkerInv, StepFits, RequestFits, TextIsKnown,
       LandingIsAnswered, HoldsLock, WasShown, FilesStay, MoveIsLeft, Holding, Unlanded, Authorized
  <2> QED
    BY <1>1, <2>1, <2>4, <2>5, UnseenStep
<1> QED
  BY <1>2, <1>3 DEF ReadGeneration

\* Loading the file under the lock: it stays as it is from here on.
LEMMA LoadKeeps == ASSUME IInv, NEW w \in Worker, Load(w) PROVE IInv'
<1> DEFINE text == disk[call[w].path]
           now == [call[w] EXCEPT !.base = text]
<1>1. call[w] \in Call /\ pc[w] = "load" /\ text \in Text \cup {Absent}
  BY DEF IInv, Types, TypeOK, Load, Call
<1>2. CASE \E result \in {"cancelled", "missing", "unreadable", "closed"} : Refuse(w, result)
  <2>1. pc[w] \in Unlanded /\ KeepLocks
    BY <1>1 DEF Unlanded, Load
  <2>2. PICK result \in {"cancelled", "missing", "unreadable", "closed"} : Refuse(w, result)
    BY <1>2
  <2>3. result \in Answer \ {"partial"}
    BY DEF Answer
  <2> QED
    BY <1>1, <2>1, <2>2, <2>3, RefuseKeeps
<1>3. CASE text # Absent /\ Goto(w, "authorize", now)
           /\ UNCHANGED <<disk, sessionVars, shown, landings>>
  <2>1. Unseen /\ LocksMove(w) /\ flock' = flock
    BY <1>3, KeepLocksMoves DEF IInv, Unseen, Load, KeepLocks, lockVars
  <2>2. /\ now \in Call /\ now.op = call[w].op /\ now.path = call[w].path /\ now.base = text
        /\ now.destination = call[w].destination /\ now.after = call[w].after
        /\ now.landed = call[w].landed
    BY <1>1 DEF Call
  <2> HIDE DEF now
  <2>3. /\ pc' \in [Worker -> Steps] /\ call' \in [Worker -> Call]
        /\ pc'[w] = "authorize" /\ call'[w] = now /\ OthersStay(w)
    BY <1>3, <2>2, GotoEffect DEF IInv, Steps
  <2>4. WorkerInv(w)'
    BY <1>1, <1>3, <2>1, <2>2, <2>3 DEF IInv, WorkerInv, StepFits, RequestFits, TextIsKnown,
       LandingIsAnswered, HoldsLock, WasShown, FilesStay, MoveIsLeft, Holding, Unlanded, Authorized
  <2> QED
    BY <1>1, <2>1, <2>3, <2>4, UnseenStep
<1> QED
  BY <1>1, <1>2, <1>3 DEF Load

\* The last look at the file before it is replaced
LEMMA VerifyKeeps == ASSUME IInv, NEW w \in Worker, Verify(w) PROVE IInv'
<1>1. call[w] \in Call /\ pc[w] = "verify"
  BY DEF IInv, Types, TypeOK, Verify
<1>2. CASE \E result \in {"stale", "unreadable"} : Refuse(w, result)
  <2>1. PICK result \in {"stale", "unreadable"} : Refuse(w, result)
    BY <1>2
  <2>2. result \in Answer \ {"partial"} /\ pc[w] \in Unlanded
    BY <1>1 DEF Answer, Unlanded
  <2> QED
    BY <1>1, <2>1, <2>2, RefuseKeeps DEF Verify
<1>3. CASE Goto(w, "persist", call[w]) /\ UNCHANGED <<disk, sessionVars, shown, landings>>
  <2>1. Unseen /\ LocksMove(w) /\ flock' = flock
    BY <1>3, KeepLocksMoves DEF IInv, Unseen, Verify, KeepLocks, lockVars
  <2>2. /\ pc' \in [Worker -> Steps] /\ call' \in [Worker -> Call]
        /\ pc'[w] = "persist" /\ call'[w] = call[w] /\ OthersStay(w)
    BY <1>1, <1>3, GotoEffect DEF IInv, Steps
  <2>3. WorkerInv(w)'
    BY <1>1, <1>3, <2>1, <2>2 DEF IInv, WorkerInv, StepFits, RequestFits, TextIsKnown, Unseen,
       LandingIsAnswered, HoldsLock, WasShown, FilesStay, MoveIsLeft, Holding, Unlanded, Authorized
  <2> QED
    BY <1>1, <2>1, <2>2, <2>3, UnseenStep
<1> QED
  BY <1>2, <1>3 DEF Verify

\* A cancelled call is the same call.
LEMMA CancelKeeps == ASSUME IInv, NEW w \in Worker, Cancel(w) PROVE IInv'
<1> DEFINE now == [call[w] EXCEPT !.cancelled = TRUE]
<1>1. call[w] \in Call
  BY DEF IInv, Types, TypeOK
<1>2. /\ now \in Call /\ now.op = call[w].op /\ now.path = call[w].path
      /\ now.base = call[w].base /\ now.destination = call[w].destination
      /\ now.after = call[w].after /\ now.landed = call[w].landed
      /\ now.result = call[w].result
  BY <1>1 DEF Call
<1>3. call' = [call EXCEPT ![w] = now]
  BY DEF Cancel
<1> HIDE DEF now
<1>4. /\ call' \in [Worker -> Call] /\ pc' \in [Worker -> Steps] /\ pc' = pc
      /\ call'[w] = now /\ OthersStay(w)
  BY <1>2, <1>3 DEF IInv, Types, TypeOK, Cancel, OthersStay
<1>5. Unseen /\ LocksMove(w)
  BY DEF IInv, Types, TypeOK, Cancel, Unseen, LocksMove, lockVars
<1>6. WorkerInv(w)'
  BY <1>2, <1>4, <1>5 DEF IInv, WorkerInv, StepFits, RequestFits, TextIsKnown, Unseen,
     LandingIsAnswered, HoldsLock, WasShown, FilesStay, MoveIsLeft, Holding, Authorized, Target, Result,
     Cancel, lockVars
<1> QED
  BY <1>4, <1>5, <1>6, UnseenStep

-----------------------------------------------------------------------------
(* Steps that present a text or ask the ledger *)

\* The entries a presentation leaves are old ones, and the recorded one
\* merged.
LEMMA RecordInEntries ==
  ASSUME NEW L, NEW path, NEW text, NEW at, NEW rendered, NEW complete, NEW limits, NEW key,
         NEW entry, NEW R, key = <<path, text>>,
         entry = MergedEntry(L, key, at, rendered, complete),
         R = RecordIn(L, path, text, at, rendered, complete, limits)
  PROVE  /\ DOMAIN R.entries \subseteq DOMAIN L.entries \cup {key}
         /\ \A k \in DOMAIN R.entries : R.entries[k] = IF k = key THEN entry ELSE L.entries[k]
         /\ R.clock = L.clock + 1
<1> DEFINE entries == [k \in DOMAIN L.entries \cup {key} |->
                         IF k = key THEN entry ELSE L.entries[k]]
           bytes == AccountedWithout(L, key) + RetainedSize(entry)
           kept == Survivors(entries, bytes, limits, key)
<1>1. DOMAIN entries = DOMAIN L.entries \cup {key} /\ kept \subseteq DOMAIN entries
  BY DEF Survivors
<1>2. R.entries = [k \in kept |-> entries[k]] /\ R.clock = L.clock + 1
  BY DEF RecordIn, Keep
<1> HIDE DEF kept, bytes
<1> QED
  BY <1>1, <1>2

\* The lines of a text are numbered from one.
LEMMA LinesAreNumbered == \A text \in Text : DOMAIN text \subseteq Nat \ {0}
<1> SUFFICES ASSUME NEW text \in Text PROVE DOMAIN text \subseteq Nat \ {0}
  OBVIOUS
<1>1. text \in Seq(LineText)
  BY TextAssumption
<1>2. DOMAIN text = 1..Len(text)
  BY <1>1
<1> QED
  BY <1>2

\* A presentation adds one entry, which says it is complete only when all
\* of its text has been shown, now or before.
LEMMA PresentEffect ==
  ASSUME IInv, NEW w \in Worker, NEW path \in Path, NEW text \in Text, NEW at \in Nat,
         NEW rendered \in SUBSET DOMAIN text, Present(w, path, text, at, rendered)
  PROVE  /\ DOMAIN ledger' = Session
         /\ \A s \in Session : /\ DOMAIN ledger'[s].entries \subseteq Key
                               /\ \A k \in DOMAIN ledger'[s].entries :
                                    ledger'[s].entries[k] \in Entry
                               /\ ledger'[s].clock \in Nat
         /\ shown' \in [Session -> SUBSET Key]
         /\ \A s \in Session : shown[s] \subseteq shown'[s]
         /\ CompleteWasShown'
<1> DEFINE s == Home[w]
           key == <<path, text>>
           L == ledger[s]
<1>a. PICK complete : complete = (rendered = DOMAIN text)
  OBVIOUS
<1>b. PICK R : R = RecordIn(L, path, text, at, rendered, complete, Limits)
  OBVIOUS
<1>c. RecordIn(L, path, text, at, rendered, rendered = DOMAIN text, Limits) = R
  BY <1>a, <1>b, Zenon
<1> DEFINE entry == MergedEntry(L, key, at, rendered, complete)
<1>1. s \in Session /\ key \in Key
  BY HomeAssumption DEF Key
<1>2. /\ DOMAIN ledger' = Session
      /\ ledger'[s] = R
      /\ \A r \in Session \ {s} : ledger'[r] = ledger[r]
  BY <1>1, <1>c DEF Present, IInv, Types
<1>3. /\ shown' \in [Session -> SUBSET Key]
      /\ \A r \in Session : shown[r] \subseteq shown'[r]
      /\ complete => key \in shown'[s]
  BY <1>1, <1>a DEF Present, IInv, Types, TypeOK
<1>4. entry \in Entry
  <2>1. rendered \subseteq Nat \ {0}
    BY LinesAreNumbered
  <2>2. key \in DOMAIN L.entries => L.entries[key] \in Entry
    BY <1>1 DEF IInv, Types, TypeOK
  <2>3. L.clock + 1 \in Nat
    BY <1>1 DEF IInv, Types
  <2> QED
    BY <1>a, <2>1, <2>2, <2>3 DEF MergedEntry, Entry
<1>5. entry.complete => complete \/ (key \in DOMAIN L.entries /\ L.entries[key].complete)
  BY DEF MergedEntry
<1>6. /\ DOMAIN R.entries \subseteq DOMAIN L.entries \cup {key}
      /\ \A k \in DOMAIN R.entries : R.entries[k] = IF k = key THEN entry ELSE L.entries[k]
      /\ R.clock = L.clock + 1
  <2>1. key = <<path, text>> /\ entry = MergedEntry(L, key, at, rendered, complete)
    OBVIOUS
  <2> HIDE DEF L, key, entry
  <2> QED
    BY <1>b, <2>1, RecordInEntries
<1> HIDE DEF entry, L
<1>7. ASSUME NEW r \in Session
      PROVE  /\ DOMAIN ledger'[r].entries \subseteq Key
             /\ \A k \in DOMAIN ledger'[r].entries : ledger'[r].entries[k] \in Entry
             /\ ledger'[r].clock \in Nat
             /\ \A k \in DOMAIN ledger'[r].entries :
                  ledger'[r].entries[k].complete => k \in shown'[r]
  <2>1. CASE r = s
    <3>1. /\ DOMAIN L.entries \subseteq Key
          /\ \A k \in DOMAIN L.entries : L.entries[k] \in Entry
          /\ L.clock \in Nat
          /\ \A k \in DOMAIN L.entries : L.entries[k].complete => k \in shown[s]
      BY <1>1 DEF L, IInv, Types, TypeOK, CompleteWasShown
    <3> HIDE DEF key
    <3> QED
      BY <1>1, <1>2, <1>3, <1>4, <1>5, <1>6, <2>1, <3>1
  <2>2. CASE r # s
    BY <1>2, <1>3, <2>2 DEF IInv, Types, TypeOK, CompleteWasShown
  <2> QED
    BY <2>1, <2>2
<1> QED
  BY <1>2, <1>3, <1>7 DEF CompleteWasShown

\* What a grant changes of an entry is when it was last used.
LEMMA AfterResultEffect ==
  ASSUME IInv, NEW s \in Session, NEW key, NEW result,
         ledger' = [ledger EXCEPT ![s] = AfterResult(@, key, result)], shown' = shown
  PROVE  /\ DOMAIN ledger' = Session
         /\ \A r \in Session : /\ DOMAIN ledger'[r].entries \subseteq Key
                               /\ \A k \in DOMAIN ledger'[r].entries :
                                    ledger'[r].entries[k] \in Entry
                               /\ ledger'[r].clock \in Nat
         /\ CompleteWasShown'
<1> DEFINE L == ledger[s]
           Used(k) == [L.entries[k] EXCEPT !.last_used = L.clock + 1]
<1>1. /\ DOMAIN ledger' = Session
      /\ ledger'[s] = AfterResult(L, key, result)
      /\ \A r \in Session \ {s} : ledger'[r] = ledger[r]
  BY DEF IInv, Types
<1>2. ASSUME NEW k \in DOMAIN L.entries
      PROVE  Used(k) \in Entry /\ Used(k).complete = L.entries[k].complete
  <2>1. L.entries[k] \in Entry /\ L.clock + 1 \in Nat
    BY DEF IInv, Types, TypeOK
  <2> QED
    BY <2>1 DEF Entry
<1>3. /\ DOMAIN AfterResult(L, key, result).entries = DOMAIN L.entries
      /\ \A k \in DOMAIN L.entries :
           /\ AfterResult(L, key, result).entries[k] \in Entry
           /\ AfterResult(L, key, result).entries[k].complete = L.entries[k].complete
      /\ AfterResult(L, key, result).clock \in Nat
  <2>1. CASE result = "granted"
    <3>1. /\ Touched(L, key).entries =
              [k \in DOMAIN L.entries |-> IF k = key THEN Used(k) ELSE L.entries[k]]
          /\ Touched(L, key).clock = L.clock + 1
      BY DEF Touched
    <3>2. AfterResult(L, key, result) = Touched(L, key)
      BY <2>1 DEF AfterResult
    <3>3. L.clock \in Nat /\ \A k \in DOMAIN L.entries : L.entries[k] \in Entry
      BY DEF IInv, Types, TypeOK
    <3> HIDE DEF Used, L
    <3> QED
      BY <1>2, <3>1, <3>2, <3>3
  <2>2. CASE result # "granted"
    BY <2>2 DEF AfterResult, IInv, Types, TypeOK
  <2> QED
    BY <2>1, <2>2
<1> HIDE DEF L
<1>4. ASSUME NEW r \in Session
      PROVE  /\ DOMAIN ledger'[r].entries \subseteq Key
             /\ \A k \in DOMAIN ledger'[r].entries : ledger'[r].entries[k] \in Entry
             /\ ledger'[r].clock \in Nat
             /\ \A k \in DOMAIN ledger'[r].entries :
                  ledger'[r].entries[k].complete => k \in shown'[r]
  BY <1>1, <1>3 DEF L, IInv, Types, TypeOK, CompleteWasShown
<1> QED
  BY <1>1, <1>4 DEF CompleteWasShown

\* Steps that change the ledgers, but neither files nor locks
LEMMA LedgerStep ==
  ASSUME IInv, NEW w \in Worker,
         UNCHANGED <<disk, closed, generation, revision, landings>>, KeepLocks,
         OthersStay(w), pc' \in [Worker -> Steps], call' \in [Worker -> Call],
         pc[w] # "mark", pc'[w] # "mark", WorkerInv(w)',
         DOMAIN ledger' = Session,
         \A s \in Session : /\ DOMAIN ledger'[s].entries \subseteq Key
                            /\ \A k \in DOMAIN ledger'[s].entries :
                                 ledger'[s].entries[k] \in Entry
                            /\ ledger'[s].clock \in Nat,
         shown' \in [Session -> SUBSET Key],
         \A s \in Session : shown[s] \subseteq shown'[s],
         CompleteWasShown'
  PROVE  IInv'
<1>1. foreign' = foreign /\ flock' = flock /\ coordinator' = coordinator /\ calls' = calls
  BY DEF KeepLocks, lockVars
<1>2. SharedTypes'
  BY <1>1 DEF IInv, Types, TypeOK, SharedTypes
<1>3. RevisionTrails'
  <2>1. \A s \in Session : Marking(s)' <=> Marking(s)
    BY DEF Marking, OthersStay
  <2> QED
    BY <2>1 DEF IInv, RevisionTrails
<1> QED
  BY <1>1, <1>2, <1>3, StepKeeps

\* A read presents what it read, whatever happened to the file meanwhile.
LEMMA RecordReadKeeps == ASSUME IInv, NEW w \in Worker, RecordRead(w) PROVE IInv'
<1>1. /\ call[w] \in Call /\ pc[w] = "record" /\ KeepLocks
      /\ call[w].path \in Path /\ call[w].base \in Text /\ call[w].generation \in Nat
      /\ RequestFits(call[w])
  BY DEF IInv, Types, TypeOK, RecordRead, Call, WorkerInv, TextIsKnown
<1>2. CASE Refuse(w, "closed")
  <2>1. "closed" \in Answer
    BY DEF Answer
  <2> QED
    BY <1>1, <1>2, <2>1, RefuseKeeps
<1>3. CASE /\ \E rendered \in Renderings(call[w].base) :
                Present(w, call[w].path, call[w].base, call[w].generation, rendered)
           /\ AnswerWith(w, call[w], "ok")
           /\ UNCHANGED <<disk, closed, generation, revision, landings>>
  <2>1. PICK rendered \in SUBSET DOMAIN call[w].base :
          Present(w, call[w].path, call[w].base, call[w].generation, rendered)
    BY <1>3 DEF Renderings
  <2>2. "ok" \in Answer
    BY DEF Answer
  <2>3. /\ pc' \in [Worker -> Steps] /\ call' \in [Worker -> Call]
        /\ pc'[w] = "return" /\ OthersStay(w) /\ WorkerInv(w)'
    BY <1>1, <1>3, <2>2, AnswerFits DEF IInv
  <2> QED
    BY <1>1, <1>3, <2>1, <2>3, PresentEffect, LedgerStep
<1> QED
  BY <1>2, <1>3 DEF RecordRead

\* A change presents its new text.
LEMMA PresentResultKeeps == ASSUME IInv, NEW w \in Worker, PresentResult(w) PROVE IInv'
<1> DEFINE c == call[w]
<1>1. /\ c \in Call /\ pc[w] = "present" /\ KeepLocks /\ RequestFits(c)
      /\ Target(c) \in Path /\ Result(c) \in Text /\ c.generation \in Nat
  BY DEF IInv, Types, TypeOK, PresentResult, Call, WorkerInv, StepFits, RequestFits,
     TextIsKnown, Target, Result
<1>2. CASE Refuse(w, "closed") \/ Refuse(w, "ok")
  <2>1. "closed" \in Answer /\ "ok" \in Answer
    BY DEF Answer
  <2> QED
    BY <1>1, <1>2, <2>1, RefuseKeeps
<1>3. CASE /\ \E rendered \in Renderings(Result(c)) :
                Present(w, Target(c), Result(c), c.generation, rendered)
           /\ AnswerWith(w, c, "ok")
           /\ UNCHANGED <<disk, closed, generation, revision, landings>>
  <2>1. "ok" \in Answer
    BY DEF Answer
  <2>2. /\ pc' \in [Worker -> Steps] /\ call' \in [Worker -> Call]
        /\ pc'[w] = "return" /\ OthersStay(w) /\ WorkerInv(w)'
    BY <1>1, <1>3, <2>1, AnswerFits DEF IInv
  <2>3. PICK rendered \in SUBSET DOMAIN Result(c) :
          Present(w, Target(c), Result(c), c.generation, rendered)
    BY <1>3 DEF Renderings
  <2> QED
    BY <1>1, <1>3, <2>2, <2>3, PresentEffect, LedgerStep
<1> QED
  BY <1>2, <1>3 DEF PresentResult

\* A granted change has a complete entry: its session was shown the text.
LEMMA AuthorizeKeeps == ASSUME IInv, NEW w \in Worker, Authorize(w) PROVE IInv'
<1> DEFINE c == call[w]
           s == Home[w]
           key == <<c.path, c.base>>
           result == IF c.op = "replace" THEN ResolveResult(ledger[s], c.path, c.tag, c.base)
                     ELSE CurrentResult(ledger[s], c.path, c.base)
<1>1. /\ c \in Call /\ pc[w] = "authorize" /\ KeepLocks /\ RequestFits(c)
      /\ c.landed = {} /\ s \in Session
  BY HomeAssumption DEF IInv, Types, TypeOK, Authorize, WorkerInv, LandingIsAnswered, Unlanded
<1>2. CASE Refuse(w, "closed")
  <2>1. "closed" \in Answer
    BY DEF Answer
  <2> QED
    BY <1>1, <1>2, <2>1, RefuseKeeps
<1>3. CASE /\ ledger' = [ledger EXCEPT ![s] = AfterResult(@, key, result)]
           /\ IF result # "granted" THEN AnswerWith(w, c, result)
              ELSE IF ~ledger[s].entries[key].complete THEN AnswerWith(w, c, "unseen")
              ELSE IF c.cancelled THEN AnswerWith(w, c, "cancelled")
              ELSE Goto(w, LandingStep(c.op), c)
           /\ UNCHANGED <<disk, closed, generation, revision, shown, landings>>
  <2>1. result \in {"granted"} \cup (Answer \cap {"collision", "changed", "not_found", "stale"})
    BY DEF ResolveResult, CurrentResult, Answer
  <2>2. result = "granted" => key \in DOMAIN ledger[s].entries
    BY DEF ResolveResult, CurrentResult
  <2> HIDE DEF result
  <2>3. CASE \E answer \in Answer \ {"partial"} : AnswerWith(w, c, answer)
    <3>1. PICK answer \in Answer \ {"partial"} : AnswerWith(w, c, answer)
      BY <2>3
    <3>2. /\ pc' \in [Worker -> Steps] /\ call' \in [Worker -> Call]
          /\ pc'[w] = "return" /\ OthersStay(w) /\ WorkerInv(w)'
      BY <1>1, <3>1, AnswerFits DEF IInv
    <3> QED
      BY <1>1, <1>3, <3>2, AfterResultEffect, LedgerStep DEF IInv, Types, TypeOK
  <2>4. CASE /\ result = "granted" /\ ledger[s].entries[key].complete
             /\ Goto(w, LandingStep(c.op), c)
    <3> DEFINE next == LandingStep(c.op)
    <3>1. /\ next \in {"verify", "remove", "link"} /\ next \in Steps
          /\ next = "verify" => c.op = "replace"
          /\ next = "remove" => c.op = "delete"
          /\ next = "link" => c.op = "move"
      BY <1>1 DEF IInv, WorkerInv, StepFits, LandingStep, Steps
    <3> HIDE DEF next
    <3>2. /\ pc' \in [Worker -> Steps] /\ call' \in [Worker -> Call]
          /\ pc'[w] = next /\ call'[w] = c /\ OthersStay(w)
      BY <1>1, <2>4, <3>1, GotoEffect DEF IInv, next
    <3>3. key \in shown[s]
      BY <1>1, <2>2, <2>4 DEF IInv, CompleteWasShown
    <3>4. WorkerInv(w)'
      BY <1>1, <1>3, <3>1, <3>2, <3>3 DEF IInv, WorkerInv, StepFits, RequestFits, TextIsKnown,
         LandingIsAnswered, HoldsLock, WasShown, FilesStay, MoveIsLeft, Holding, Unlanded, Authorized,
         KeepLocks, lockVars
    <3> QED
      BY <1>1, <1>3, <3>1, <3>2, <3>4, AfterResultEffect, LedgerStep DEF IInv, Types, TypeOK
  <2>5. "unseen" \in Answer /\ "cancelled" \in Answer
    BY DEF Answer
  <2> QED
    BY <1>3, <2>1, <2>3, <2>4, <2>5
<1> QED
  BY <1>2, <1>3 DEF Authorize

-----------------------------------------------------------------------------
(* Steps that change files *)

\* The lock file has one holder.
LEMMA OneHolder ==
  ASSUME IInv, NEW w \in Worker, pc[w] \in Holding, NEW v \in Worker, pc[v] \in Holding
  PROVE  v = w
BY DEF IInv, WorkerInv, HoldsLock

\* A change that lands owes its session one revision, and no other change
\* is under way.
LEMMA LandedKeeps ==
  ASSUME IInv, NEW w \in Worker, NEW path \in Path, Landed(w, {path}), KeepLocks,
         pc[w] \in {"persist", "create", "remove", "unlink"},
         disk' \in [Path -> Text \cup {Absent}],
         foreign = 0 => disk'[Target(call[w])] = Result(call[w])
  PROVE  IInv'
<1> DEFINE now == [call[w] EXCEPT !.landed = @ \cup {path}]
           s == Home[w]
<1>1. /\ call[w] \in Call /\ s \in Session /\ RequestFits(call[w]) /\ pc[w] \in Holding
      /\ call[w].op # "read" /\ (call[w].op = "move" => call[w].base \in Text)
  BY HomeAssumption DEF IInv, Types, TypeOK, WorkerInv, StepFits, TextIsKnown, Authorized, Holding
<1>2. /\ now \in Call /\ now.op = call[w].op /\ now.path = call[w].path
      /\ now.destination = call[w].destination /\ now.after = call[w].after
      /\ now.base = call[w].base
  BY <1>1 DEF Call
<1>3. Goto(w, "mark", now) /\ landings' = [landings EXCEPT ![s] = @ + 1]
      /\ UNCHANGED <<sessionVars, shown>>
  BY DEF Landed
<1> HIDE DEF now
<1>4. /\ pc' \in [Worker -> Steps] /\ call' \in [Worker -> Call]
      /\ pc'[w] = "mark" /\ call'[w] = now /\ OthersStay(w)
  BY <1>2, <1>3, GotoEffect DEF IInv, Steps
<1>5. foreign' = foreign /\ flock' = flock /\ coordinator' = coordinator /\ calls' = calls
  BY DEF KeepLocks, lockVars
<1>6. WorkerInv(w)'
  <2>1. StepFits(w)' /\ RequestFits(call[w])' /\ TextIsKnown(w)'
    BY <1>1, <1>2, <1>4 DEF StepFits, RequestFits, TextIsKnown, Authorized
  <2>2. LandingIsAnswered(w)' /\ HoldsLock(w)' /\ WasShown(w)' /\ MoveIsLeft(w)'
    BY <1>1, <1>4, <1>5 DEF LandingIsAnswered, HoldsLock, WasShown, Unlanded, Authorized,
       MoveIsLeft, IInv, WorkerInv
  <2>3. FilesStay(w)'
    BY <1>2, <1>4, <1>5 DEF FilesStay, Authorized, Target, Result
  <2> QED
    BY <2>1, <2>2, <2>3 DEF WorkerInv
<1>7. SharedTypes'
  BY <1>1, <1>3, <1>5 DEF IInv, Types, TypeOK, SharedTypes, sessionVars
<1>8. CompleteWasShown'
  BY <1>3 DEF IInv, CompleteWasShown, sessionVars
<1>9. RevisionTrails'
  <2>1. \A v \in Worker : pc[v] # "mark"
    BY <1>1, OneHolder DEF Holding
  <2>2. \A r \in Session : Marking(r)' <=> r = s
    BY <2>1, <1>4 DEF Marking, OthersStay
  <2>3. \A r \in Session : revision[r] = landings[r] + 1
    BY <2>1 DEF IInv, RevisionTrails, Marking
  <2>4. ASSUME NEW r \in Session
        PROVE  /\ revision'[r] = revision[r]
               /\ landings'[r] = IF r = s THEN landings[r] + 1 ELSE landings[r]
    BY <1>1, <1>3 DEF sessionVars, IInv, Types, TypeOK
  <2> QED
    BY <2>2, <2>3, <2>4 DEF RevisionTrails
<1> QED
  BY <1>1, <1>3, <1>4, <1>5, <1>6, <1>7, <1>8, <1>9, StepKeeps

\* A replacement
LEMMA PersistKeeps == ASSUME IInv, NEW w \in Worker, Persist(w) PROVE IInv'
<1>1. /\ call[w] \in Call /\ pc[w] = "persist" /\ KeepLocks
      /\ call[w].op = "replace" /\ call[w].after \in Text /\ call[w].path \in Path
  BY DEF IInv, Types, TypeOK, Persist, WorkerInv, StepFits, RequestFits, Call
<1>2. CASE Refuse(w, "write")
  <2>1. "write" \in Answer /\ pc[w] \in Unlanded
    BY <1>1 DEF Answer, Unlanded
  <2> QED
    BY <1>1, <1>2, <2>1, RefuseKeeps
<1>3. CASE /\ disk' = [disk EXCEPT ![call[w].path] = call[w].after]
           /\ Landed(w, {call[w].path})
  <2>1. disk' \in [Path -> Text \cup {Absent}] /\ disk'[Target(call[w])] = Result(call[w])
    BY <1>1, <1>3 DEF IInv, Types, TypeOK, Target, Result
  <2> QED
    BY <1>1, <1>3, <2>1, LandedKeeps
<1> QED
  BY <1>2, <1>3 DEF Persist

\* A creation
LEMMA CreateKeeps == ASSUME IInv, NEW w \in Worker, Create(w) PROVE IInv'
<1>1. /\ call[w] \in Call /\ pc[w] = "create" /\ KeepLocks
      /\ call[w].op = "create" /\ call[w].after \in Text /\ call[w].path \in Path
  BY DEF IInv, Types, TypeOK, Create, WorkerInv, StepFits, RequestFits, Call
<1>2. CASE Refuse(w, "cancelled") \/ Refuse(w, "write")
  <2>1. "write" \in Answer /\ "cancelled" \in Answer /\ pc[w] \in Unlanded
    BY <1>1 DEF Answer, Unlanded
  <2> QED
    BY <1>1, <1>2, <2>1, RefuseKeeps
<1>3. CASE /\ disk' = [disk EXCEPT ![call[w].path] = call[w].after]
           /\ Landed(w, {call[w].path})
  <2>1. disk' \in [Path -> Text \cup {Absent}] /\ disk'[Target(call[w])] = Result(call[w])
    BY <1>1, <1>3 DEF IInv, Types, TypeOK, Target, Result
  <2> QED
    BY <1>1, <1>3, <2>1, LandedKeeps
<1> QED
  BY <1>2, <1>3 DEF Create

\* A deletion
LEMMA RemoveKeeps == ASSUME IInv, NEW w \in Worker, Remove(w) PROVE IInv'
<1>1. /\ call[w] \in Call /\ pc[w] = "remove" /\ KeepLocks
      /\ call[w].op = "delete" /\ call[w].after = Absent /\ call[w].path \in Path
  BY DEF IInv, Types, TypeOK, Remove, WorkerInv, StepFits, RequestFits, Call
<1>2. CASE Refuse(w, "write")
  <2>1. "write" \in Answer /\ pc[w] \in Unlanded
    BY <1>1 DEF Answer, Unlanded
  <2> QED
    BY <1>1, <1>2, <2>1, RefuseKeeps
<1>3. CASE /\ disk' = [disk EXCEPT ![call[w].path] = Absent]
           /\ Landed(w, {call[w].path})
  <2>1. disk' \in [Path -> Text \cup {Absent}] /\ disk'[Target(call[w])] = Result(call[w])
    BY <1>1, <1>3 DEF IInv, Types, TypeOK, Target, Result
  <2> QED
    BY <1>1, <1>3, <2>1, LandedKeeps
<1> QED
  BY <1>2, <1>3 DEF Remove

\* The first half of a move: the file is at both names.
LEMMA LinkKeeps == ASSUME IInv, NEW w \in Worker, Link(w) PROVE IInv'
<1> DEFINE c == call[w]
           now == [c EXCEPT !.landed = {c.destination}]
<1>1. /\ c \in Call /\ pc[w] = "link" /\ KeepLocks /\ c.op = "move" /\ RequestFits(c)
      /\ c.path \in Path /\ c.destination \in Path /\ c.destination # c.path
  BY DEF IInv, Types, TypeOK, Link, WorkerInv, StepFits, RequestFits, Call
<1>2. CASE Refuse(w, "write")
  <2>1. "write" \in Answer /\ pc[w] \in Unlanded
    BY <1>1 DEF Answer, Unlanded
  <2> QED
    BY <1>1, <1>2, <2>1, RefuseKeeps
<1>3. CASE /\ disk' = [disk EXCEPT ![c.destination] = disk[c.path]]
           /\ Goto(w, "unlink", now)
           /\ UNCHANGED <<sessionVars, shown, landings>>
  <2>1. /\ now \in Call /\ now.op = c.op /\ now.path = c.path
        /\ now.destination = c.destination /\ now.after = c.after /\ now.base = c.base
        /\ now.landed = {c.destination}
    BY <1>1 DEF Call
  <2> HIDE DEF now
  <2>2. /\ pc' \in [Worker -> Steps] /\ call' \in [Worker -> Call]
        /\ pc'[w] = "unlink" /\ call'[w] = now /\ OthersStay(w)
    BY <1>3, <2>1, GotoEffect DEF IInv, Steps
  <2>3. foreign' = foreign /\ flock' = flock /\ coordinator' = coordinator /\ calls' = calls
    BY <1>1 DEF KeepLocks, lockVars
  <2>4. /\ disk' \in [Path -> Text \cup {Absent}]
        /\ disk'[c.destination] = disk[c.path] /\ disk'[c.path] = disk[c.path]
    BY <1>1, <1>3 DEF IInv, Types, TypeOK
  <2>5. WorkerInv(w)'
    <3>1. StepFits(w)' /\ RequestFits(call[w])' /\ TextIsKnown(w)'
      BY <1>1, <2>1, <2>2 DEF IInv, WorkerInv, StepFits, RequestFits, TextIsKnown, Authorized
    <3>2. LandingIsAnswered(w)' /\ HoldsLock(w)' /\ WasShown(w)' /\ MoveIsLeft(w)'
      BY <1>1, <1>3, <2>1, <2>2, <2>3 DEF LandingIsAnswered, HoldsLock, WasShown, Unlanded,
         MoveIsLeft, Authorized, Holding, IInv, WorkerInv
    <3>3. FilesStay(w)'
      BY <1>1, <2>1, <2>2, <2>3, <2>4 DEF FilesStay, Authorized, IInv, WorkerInv
    <3> QED
      BY <3>1, <3>2, <3>3 DEF WorkerInv
  <2>6. SharedTypes'
    BY <1>3, <2>3, <2>4 DEF IInv, Types, TypeOK, SharedTypes, sessionVars
  <2>7. CompleteWasShown'
    BY <1>3 DEF IInv, CompleteWasShown, sessionVars
  <2>8. RevisionTrails'
    <3>1. \A s \in Session : Marking(s)' <=> Marking(s)
      BY <1>1, <2>2 DEF Marking, OthersStay
    <3> QED
      BY <1>3, <3>1 DEF IInv, RevisionTrails, sessionVars
  <2> QED
    BY <1>1, <1>3, <2>2, <2>3, <2>5, <2>6, <2>7, <2>8, StepKeeps DEF Holding
<1> QED
  BY <1>2, <1>3 DEF Link

\* The second half of a move, or a file left at both names
LEMMA UnlinkKeeps == ASSUME IInv, NEW w \in Worker, Unlink(w) PROVE IInv'
<1> DEFINE c == call[w]
<1>1. /\ c \in Call /\ pc[w] = "unlink" /\ KeepLocks /\ c.op = "move"
      /\ c.path \in Path /\ c.destination \in Path /\ c.destination # c.path
  BY DEF IInv, Types, TypeOK, Unlink, WorkerInv, StepFits, RequestFits, Call
<1>2. CASE Refuse(w, "partial")
  <2>1. "partial" \in Answer /\ AnswerWith(w, c, "partial") /\ Unseen /\ flock' = flock
    BY <1>1, <1>2 DEF Answer, Refuse, Unseen, KeepLocks, lockVars
  <2>2. /\ pc' \in [Worker -> Steps] /\ call' \in [Worker -> Call] /\ pc'[w] = "return"
        /\ call'[w].op = c.op /\ call'[w].path = c.path
        /\ call'[w].destination = c.destination
        /\ call'[w].base = c.base /\ call'[w].after = c.after
        /\ call'[w].landed = c.landed /\ call'[w].result = "partial"
        /\ OthersStay(w)
    BY <1>1, <2>1, AnswerEffect DEF IInv
  <2>3. MoveIsLeft(w)'
    BY <1>1, <2>1, <2>2 DEF IInv, WorkerInv, HoldsLock, Holding, FilesStay, Authorized,
       MoveIsLeft, Unseen
  <2>4. WorkerInv(w)'
    BY <1>1, <2>2, <2>3 DEF IInv, WorkerInv, StepFits, RequestFits, TextIsKnown,
       LandingIsAnswered, HoldsLock, WasShown, FilesStay, Holding, Unlanded, Authorized
  <2>5. LocksMove(w)
    BY <1>1, KeepLocksMoves DEF IInv
  <2> QED
    BY <1>1, <2>1, <2>2, <2>4, <2>5, UnseenStep
<1>3. CASE disk' = [disk EXCEPT ![c.path] = Absent] /\ Landed(w, {c.path})
  <2>1. disk' \in [Path -> Text \cup {Absent}] /\ disk'[c.destination] = disk[c.destination]
    BY <1>1, <1>3 DEF IInv, Types, TypeOK
  <2>2. foreign = 0 => disk'[Target(c)] = Result(c)
    BY <1>1, <2>1 DEF IInv, WorkerInv, FilesStay, Target, Result
  <2> QED
    BY <1>1, <1>3, <2>1, <2>2, LandedKeeps
<1> QED
  BY <1>2, <1>3 DEF Unlink

\* The marking pays the revision its change owes.
LEMMA MarkKeeps == ASSUME IInv, NEW w \in Worker, Mark(w) PROVE IInv'
<1> DEFINE c == call[w]
           s == Home[w]
           now == [c EXCEPT !.generation = generation[s][Target(c)] + 1,
                            !.changes = {c.path, Target(c)}]
<1>1. /\ c \in Call /\ pc[w] = "mark" /\ KeepLocks /\ RequestFits(c) /\ s \in Session
      /\ c.path \in Path /\ Target(c) \in Path /\ c.op # "read"
  BY HomeAssumption DEF IInv, Types, TypeOK, Mark, WorkerInv, StepFits, RequestFits, Call, Target
<1>2. generation[s][Target(c)] + 1 \in Nat \ {0}
  BY <1>1 DEF IInv, Types, TypeOK
<1>3. /\ now \in Call /\ now.op = c.op /\ now.path = c.path
      /\ now.destination = c.destination /\ now.after = c.after /\ now.base = c.base
      /\ now.landed = c.landed
  BY <1>1, <1>2 DEF Call
<1>4. /\ generation' = [generation EXCEPT ![s][Target(c)] = @ + 1]
      /\ revision' = [revision EXCEPT ![s] = @ + 1]
      /\ IF c.op = "delete" THEN AnswerWith(w, now, "ok") ELSE Goto(w, "present", now)
      /\ UNCHANGED <<disk, closed, ledger, shown, landings>>
  BY DEF Mark
<1> HIDE DEF now
<1>5. foreign' = foreign /\ flock' = flock /\ coordinator' = coordinator /\ calls' = calls
  BY <1>1 DEF KeepLocks, lockVars
<1>6. /\ pc' \in [Worker -> Steps] /\ call' \in [Worker -> Call]
      /\ pc'[w] # "mark" /\ OthersStay(w) /\ WorkerInv(w)'
  <2>1. CASE AnswerWith(w, now, "ok")
    <3>1. RequestFits(now) /\ "ok" \in Answer
      BY <1>1, <1>3 DEF RequestFits, Answer
    <3> QED
      BY <1>3, <2>1, <3>1, AnswerFits DEF IInv
  <2>2. CASE c.op # "delete" /\ Goto(w, "present", now)
    <3>1. /\ pc' \in [Worker -> Steps] /\ call' \in [Worker -> Call]
          /\ pc'[w] = "present" /\ call'[w] = now /\ OthersStay(w)
      BY <1>3, <2>2, GotoEffect DEF IInv, Steps
    <3>2. StepFits(w)' /\ RequestFits(call[w])' /\ TextIsKnown(w)'
      BY <1>1, <1>3, <2>2, <3>1 DEF IInv, WorkerInv, StepFits, RequestFits, TextIsKnown,
         Authorized, Call, Op
    <3>3. LandingIsAnswered(w)' /\ HoldsLock(w)' /\ WasShown(w)' /\ MoveIsLeft(w)'
      BY <1>1, <1>5, <3>1 DEF LandingIsAnswered, HoldsLock, WasShown, Unlanded, Authorized,
         MoveIsLeft, Holding, IInv, WorkerInv
    <3>4. FilesStay(w)'
      BY <1>1, <1>3, <1>4, <1>5, <3>1 DEF FilesStay, Authorized, IInv, WorkerInv, Target, Result
    <3> QED
      BY <3>1, <3>2, <3>3, <3>4 DEF WorkerInv
  <2> QED
    BY <1>4, <2>1, <2>2
<1>7. SharedTypes'
  <2>1. generation' \in [Session -> [Path -> Nat \ {0}]]
    BY <1>1, <1>2, <1>4 DEF IInv, Types, TypeOK
  <2> QED
    BY <1>1, <1>4, <1>5, <2>1 DEF IInv, Types, TypeOK, SharedTypes
<1>8. CompleteWasShown'
  BY <1>4 DEF IInv, CompleteWasShown
<1>9. RevisionTrails'
  <2>1. \A v \in Worker : pc[v] = "mark" <=> v = w
    BY <1>1, OneHolder DEF Holding
  <2>2. \A r \in Session : ~Marking(r)' /\ (Marking(r) <=> r = s)
    BY <2>1, <1>6 DEF Marking, OthersStay
  <2>3. ASSUME NEW r \in Session
        PROVE  /\ landings'[r] = landings[r]
               /\ revision'[r] = IF r = s THEN revision[r] + 1 ELSE revision[r]
    BY <1>1, <1>4 DEF IInv, Types, TypeOK
  <2> QED
    BY <2>2, <2>3 DEF IInv, RevisionTrails
<1> QED
  BY <1>1, <1>4, <1>5, <1>6, <1>7, <1>8, <1>9, StepKeeps

-----------------------------------------------------------------------------
(* Everybody else *)

\* Closing a session disturbs nothing that is under way.
LEMMA CloseKeeps == ASSUME IInv, NEW s \in Session, Close(s) PROVE IInv'
<1>1. Types'
  BY DEF IInv, Types, TypeOK, Close, lockVars
<1>2. ASSUME NEW v \in Worker PROVE WorkerInv(v)'
  BY OtherKeeps DEF IInv, Close, lockVars
<1>3. CompleteWasShown' /\ RevisionTrails'
  BY DEF IInv, Close, CompleteWasShown, RevisionTrails, Marking
<1> QED
  BY <1>1, <1>2, <1>3 DEF IInv

\* A write from outside ends what is promised of the files, nothing else.
LEMMA ForeignWriteKeeps == ASSUME IInv, ForeignWrite PROVE IInv'
<1>1. foreign' # 0 /\ foreign' \in 0..MaxForeign
  BY BoundAssumption DEF IInv, Types, TypeOK, ForeignWrite
<1>2. Types'
  BY <1>1 DEF IInv, Types, TypeOK, ForeignWrite, lockVars, sessionVars
<1>3. ASSUME NEW v \in Worker PROVE WorkerInv(v)'
  BY <1>1, OtherKeeps DEF IInv, ForeignWrite, lockVars, sessionVars
<1>4. CompleteWasShown' /\ RevisionTrails'
  BY DEF IInv, ForeignWrite, CompleteWasShown, RevisionTrails, Marking, lockVars, sessionVars
<1> QED
  BY <1>2, <1>3, <1>4 DEF IInv

\* Every step keeps the invariant.
LEMMA NextKeepsIInv == IInv /\ [Next]_vars => IInv'
<1> SUFFICES ASSUME IInv, [Next]_vars PROVE IInv'
  OBVIOUS
<1>1. ASSUME NEW w \in Worker, Begin(w) \/ Step(w) \/ Cancel(w) PROVE IInv'
  <2>1. CASE Begin(w) \/ Cancel(w)
    BY <2>1, BeginKeeps, CancelKeeps
  <2>2. CASE LockCoordinator(w) \/ LockWorkspace(w) \/ Return(w)
    BY <2>2, LockCoordinatorKeeps, LockWorkspaceKeeps, ReturnKeeps
  <2>3. CASE ReadContent(w) \/ ReadGeneration(w) \/ RecordRead(w)
    BY <2>3, ReadContentKeeps, ReadGenerationKeeps, RecordReadKeeps
  <2>4. CASE Load(w) \/ Authorize(w) \/ Verify(w) \/ Mark(w) \/ PresentResult(w)
    BY <2>4, LoadKeeps, AuthorizeKeeps, VerifyKeeps, MarkKeeps, PresentResultKeeps
  <2>5. CASE Persist(w) \/ Create(w) \/ Remove(w) \/ Link(w) \/ Unlink(w)
    BY <2>5, PersistKeeps, CreateKeeps, RemoveKeeps, LinkKeeps, UnlinkKeeps
  <2> QED
    BY <1>1, <2>1, <2>2, <2>3, <2>4, <2>5 DEF Step
<1>2. ASSUME NEW s \in Session, Close(s) PROVE IInv'
  BY <1>2, CloseKeeps
<1>3. CASE ForeignWrite
  BY <1>3, ForeignWriteKeeps
<1>4. CASE UNCHANGED vars
  <2>1. Types'
    BY <1>4 DEF vars, sessionVars, lockVars, IInv, Types, TypeOK
  <2>2. ASSUME NEW v \in Worker PROVE WorkerInv(v)'
    BY <1>4, OtherKeeps DEF IInv, vars, lockVars, sessionVars
  <2>3. CompleteWasShown' /\ RevisionTrails'
    BY <1>4 DEF vars, sessionVars, IInv, CompleteWasShown, RevisionTrails, Marking
  <2> QED
    BY <2>1, <2>2, <2>3 DEF IInv
<1> QED
  BY <1>1, <1>2, <1>3, <1>4 DEF Next

-----------------------------------------------------------------------------
(* Theorems *)

\* The inductive invariant holds, for any number of sessions and workers.
THEOREM InvariantHolds == Spec => []IInv
BY InitIInv, NextKeepsIInv, PTL DEF Spec

\* Whatever the interleaving of reads, changes, cancellations and closes,
\* the state keeps its types.
THEOREM TypesHold == Spec => []TypeOK
<1>1. IInv => TypeOK
  BY DEF IInv, Types
<1> QED
  BY <1>1, InvariantHolds, PTL

\* From its load to its answer a change finds its files as its own steps
\* left them, whatever the other sessions do (mod.rs:164-187).
THEOREM FilesAreKept == Spec => []GuardKeepsFiles
<1>1. IInv => GuardKeepsFiles
  BY DEF IInv, WorkerInv, FilesStay, Authorized, GuardKeepsFiles
<1> QED
  BY <1>1, InvariantHolds, PTL

\* Refused calls leave no trace, every landed change is counted once, and a
\* move that could not remove its source has its file at both names
\* (file_mutations.rs:55-77, mod.rs:208-218, write.rs:196-212).
THEOREM ChangesAreCounted == Spec => []ChangesAreAccountedFor
<1>1. IInv => RefusedCallsLeaveNoTrace
  BY DEF IInv, WorkerInv, LandingIsAnswered, RefusedCallsLeaveNoTrace
<1>2. IInv => RevisionCountsChanges
  <2> SUFFICES ASSUME IInv, flock = Free, NEW s \in Session PROVE revision[s] = 1 + landings[s]
    BY DEF RevisionCountsChanges
  <2>1. ~Marking(s)
    BY DiskAssumption DEF IInv, WorkerInv, HoldsLock, Holding, Marking
  <2> QED
    BY <2>1 DEF IInv, RevisionTrails, Types, TypeOK
<1>3. IInv => PartialMovesKeepBoth
  BY DEF IInv, WorkerInv, MoveIsLeft, PartialMovesKeepBoth
<1> QED
  BY <1>1, <1>2, <1>3, InvariantHolds, PTL DEF ChangesAreAccountedFor

-----------------------------------------------------------------------------
(* The files of a workspace are a guarded disk *)

\* Presenting a text whole shows it; presenting a part of it shows nothing.
LEMMA PresentShows ==
  ASSUME IInv, NEW w \in Worker, NEW path \in Path, NEW text \in Text, NEW at, NEW rendered,
         Present(w, path, text, at, rendered), disk' = disk
  PROVE  Guarded!GNext \/ UNCHANGED <<disk, shown>>
<1>1. Home[w] \in Session
  BY HomeAssumption
<1>2. \/ shown' = [shown EXCEPT ![Home[w]] = @ \cup {<<path, text>>}]
      \/ shown' = shown
  BY DEF Present
<1> QED
  BY <1>1, <1>2 DEF Guarded!GNext, Guarded!Show

\* A worker's change of a file overwrites what its session was shown.
LEMMA OverwriteIsGuarded ==
  ASSUME IInv, NEW w \in Worker, pc[w] \in Authorized, foreign = 0,
         NEW file \in Text \cup {Absent},
         disk' = [disk EXCEPT ![call[w].path] = file], shown' = shown
  PROVE  Guarded!GNext
<1>1. /\ Home[w] \in Session /\ call[w].path \in Path
      /\ <<call[w].path, disk[call[w].path]>> \in shown[Home[w]]
  BY HomeAssumption DEF IInv, Types, TypeOK, Call, WorkerInv, WasShown, FilesStay
<1> QED
  BY <1>1 DEF Guarded!GNext, Guarded!Overwrite

\* Every step of the workers is one of the guarded disk, as long as no
\* program outside takes part.
LEMMA StepRefines ==
  ASSUME IInv, NEW w \in Worker, Begin(w) \/ Step(w) \/ Cancel(w), foreign' = 0
  PROVE  Guarded!GNext \/ UNCHANGED <<disk, shown>>
<1>1. foreign = 0
  BY DEF Begin, Step, Cancel, LockCoordinator, LockWorkspace, Return, ReadContent, ReadGeneration,
     RecordRead, Load, Authorize, Verify, Persist, Create, Remove, Link, Unlink, Mark,
     PresentResult, KeepLocks
<1>2. CASE Begin(w) \/ Cancel(w) \/ LockCoordinator(w) \/ LockWorkspace(w) \/ Return(w)
  BY <1>2 DEF Begin, Cancel, LockCoordinator, LockWorkspace, Return
<1>3. CASE ReadContent(w) \/ ReadGeneration(w) \/ Load(w) \/ Authorize(w) \/ Verify(w) \/ Mark(w)
  BY <1>3 DEF ReadContent, ReadGeneration, Load, Authorize, Verify, Mark, Refuse
<1>4. CASE RecordRead(w)
  <2>1. call[w].path \in Path /\ call[w].base \in Text
    BY <1>4 DEF IInv, Types, TypeOK, RecordRead, Call, WorkerInv, TextIsKnown
  <2> QED
    BY <1>4, <2>1, PresentShows DEF RecordRead, Refuse
<1>5. CASE PresentResult(w)
  <2>1. Target(call[w]) \in Path /\ Result(call[w]) \in Text
    BY <1>5 DEF IInv, Types, TypeOK, PresentResult, Call, WorkerInv, StepFits, RequestFits,
       TextIsKnown, Target, Result
  <2> QED
    BY <1>5, <2>1, PresentShows DEF PresentResult, Refuse
<1>6. CASE Persist(w)
  <2>1. pc[w] \in Authorized /\ call[w].after \in Text
    BY <1>6 DEF Persist, Authorized, IInv, WorkerInv, StepFits, RequestFits
  <2> QED
    BY <1>1, <1>6, <2>1, OverwriteIsGuarded DEF Persist, Refuse, Landed
<1>7. CASE Remove(w) \/ Unlink(w)
  <2>1. pc[w] \in Authorized
    BY <1>7 DEF Remove, Unlink, Authorized
  <2> QED
    BY <1>1, <1>7, <2>1, OverwriteIsGuarded DEF Remove, Unlink, Refuse, Landed
<1>8. CASE Create(w)
  <2>1. call[w].path \in Path /\ call[w].after \in Text
    BY <1>8 DEF Create, IInv, Types, TypeOK, Call, WorkerInv, StepFits, RequestFits
  <2> QED
    BY <1>8, <2>1 DEF Create, Refuse, Landed, Guarded!GNext, Guarded!Put
<1>9. CASE Link(w)
  <2>1. /\ call[w].path \in Path /\ call[w].destination \in Path
        /\ disk[call[w].path] \in Text \cup {Absent}
    BY <1>9 DEF Link, IInv, Types, TypeOK, Call, WorkerInv, StepFits, RequestFits
  <2> QED
    BY <1>9, <2>1 DEF Link, Refuse, Guarded!GNext, Guarded!Put
<1> QED
  BY <1>2, <1>3, <1>4, <1>5, <1>6, <1>7, <1>8, <1>9 DEF Step

\* Changes of any number of sessions overwrite or remove only what their
\* session was shown whole, and are atomic on the files, as long as no
\* program outside writes: the sessions implement the guarded disk.
THEOREM SessionsGuardTheDisk == Spec => ImplementsGuardedDisk
<1>1. Init => Guarded!GInit
  BY DiskAssumption DEF Init, Guarded!GInit
<1>2. IInv /\ [Next]_vars => [foreign' = 0 => Guarded!GNext]_<<disk, shown>>
  <2> SUFFICES ASSUME IInv, [Next]_vars, foreign' = 0
               PROVE  Guarded!GNext \/ UNCHANGED <<disk, shown>>
    OBVIOUS
  <2>1. CASE \E w \in Worker : Begin(w) \/ Step(w) \/ Cancel(w)
    BY <2>1, StepRefines
  <2>2. CASE \E s \in Session : Close(s)
    BY <2>2 DEF Close
  <2>3. CASE ForeignWrite
    BY <2>3 DEF ForeignWrite, IInv, Types, TypeOK
  <2>4. CASE UNCHANGED vars
    BY <2>4 DEF vars
  <2> QED
    BY <2>1, <2>2, <2>3, <2>4 DEF Next
<1> QED
  BY <1>1, <1>2, InvariantHolds, PTL DEF Spec, ImplementsGuardedDisk, Guarded!GSpec
=============================================================================
