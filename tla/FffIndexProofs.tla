--------------------------- MODULE FffIndexProofs ---------------------------
(***************************************************************************)
(* Theorems about the fuzzy file finder, for any callers and any number of *)
(* changes.  A search shows what it must because the index always reflects *)
(* it, or will when the scan under way ends, from the moment the engine    *)
(* takes a revision for indexed until it is closed.                        *)
(***************************************************************************)
EXTENDS FffIndex, TLAPS

Searches == {"find", "grep"}
Waits == {"start", "wait", "check"}
Full == <<"rescan", "wait_ready", "search">>
WaitThenSearch == <<"wait_ready", "search">>

\* The jobs an operation may have before it
JobsOf(op) ==
  IF op = "none" THEN {<<>>}
  ELSE IF op \in Searches THEN {Full, WaitThenSearch, <<"search">>}
  ELSE {<<op>>}

\* The stages of a job
StagesOf(job) ==
  CASE job = "start" -> {"start"}
    [] job = "wait_ready" -> Waits
    [] job = "rescan" -> Waits \cup {"act", "asked"}
    [] job = "search" -> Waits \cup {"act", "search"}
    [] job = "close" -> {"act", "drain"}

-----------------------------------------------------------------------------
(* The inductive invariant *)

Calls == [op : {"none", "start", "wait_ready", "rescan", "find", "grep", "close"},
          jobs : {<<>>, Full, WaitThenSearch, <<"search">>, <<"start">>,
                  <<"wait_ready">>, <<"rescan">>, <<"close">>},
          stage : {"idle", "start", "wait", "check", "act", "asked", "search", "drain"},
          saw : Nat, must : Nat, second : BOOLEAN, cancelled : BOOLEAN]

Pickers == [indexed : Nat, scan : Nat, present : BOOLEAN]

Answers == {"none", "ok", "cancelled", "closed", "startup", "not_ready", "unavailable", "invalid"}

Types ==
  /\ revision \in Nat \ {0}
  /\ picker \in Pickers
  /\ started \in BOOLEAN /\ closed \in BOOLEAN
  /\ startup_lock \in Caller \cup {NoOne}
  /\ indexed_revision \in Nat /\ settled \in Nat
  /\ call \in [Caller -> Calls]
  /\ answer \in [Caller -> Answers]

\* The index shows the change of a revision, or will when the scan ends.
Reflects(change) == picker.indexed >= change \/ picker.scan >= change

\* Where a call is fits what it asked for.
CallFits(c) ==
  /\ call[c].jobs \in JobsOf(call[c].op)
  /\ Idle(c) <=> call[c].op = "none"
  /\ ~Idle(c) => call[c].stage \in StagesOf(Head(call[c].jobs))
  /\ call[c].stage \in {"wait", "check", "act", "search"} /\ call[c].op # "close" => started

\* A search owes at least the last settled change, and the index reflects
\* what it owes from the end of its rescan, if it has one, until it is shown.
CallIsFresh(c) ==
  call[c].op \in Searches =>
    /\ settled <= call[c].must /\ call[c].must <= revision
    /\ \/ call[c].jobs # Full /\ call[c].stage \in Waits
       \/ call[c].stage = "asked"
       => closed \/ Reflects(call[c].must)
    /\ call[c].jobs = <<"search">> /\ call[c].stage \in {"act", "search"} /\ picker.present =>
         call[c].must <= picker.indexed
    /\ call[c].stage = "search" =>
         call[c].must <= call[c].saw /\ call[c].saw <= picker.indexed

\* One closer holds the startup lock, and takes the picker when it lets go.
LockIsTheClosers ==
  /\ \A c \in Caller : startup_lock = c <=> call[c].stage = "drain"
  /\ startup_lock # NoOne => closed
  /\ closed /\ startup_lock = NoOne => ~picker.present /\ picker.scan = Nothing

ReadersSearch ==
  /\ readers = {c \in Caller : call[c].stage = "search"}
  /\ readers # {} => picker.present

\* The revision taken for indexed is at most the present one, and the index
\* reflects the settled change as long as that is the revision it is at.
IndexIsFresh ==
  /\ picker.scan <= revision
  /\ ~started => picker = NoPicker
  /\ indexed_revision <= revision /\ settled <= revision
  /\ indexed_revision = Nothing => settled = Nothing
  /\ indexed_revision = revision => closed \/ Reflects(settled)

IInv ==
  /\ Types
  /\ \A c \in Caller : CallFits(c) /\ CallIsFresh(c)
  /\ LockIsTheClosers
  /\ ReadersSearch
  /\ IndexIsFresh

-----------------------------------------------------------------------------
(* What the steps share *)

\* The same of the index a step leaves
WillReflect(change) == picker'.indexed >= change \/ picker'.scan >= change

\* What the native steps do to the engine: an open index goes on reflecting
\* what it reflected, and what it shows is never older than before.
IndexKeepsUp ==
  /\ picker' \in Pickers /\ revision' \in Nat
  /\ closed => closed'
  /\ started => started'
  /\ revision <= revision'
  /\ closed' \/ \A change \in Nat : Reflects(change) => WillReflect(change)
  /\ started /\ picker'.present => picker.present /\ picker.indexed <= picker'.indexed
  /\ readers # {} => picker.indexed <= picker'.indexed

\* What a step of a caller does besides: only its own call moves on.
Moves(c) ==
  /\ call' \in [Caller -> Calls] /\ answer' \in [Caller -> Answers]
  /\ indexed_revision' \in Nat /\ settled' \in Nat
  /\ settled' <= settled
  /\ \A d \in Caller : d # c => call'[d] = call[d]
  /\ CallFits(c)' /\ CallIsFresh(c)'
  /\ indexed_revision' <= revision'
  /\ indexed_revision' = Nothing => settled' = Nothing
  /\ indexed_revision' = revision' => closed' \/ WillReflect(settled')

\* The job sequences, taken apart
LEMMA JobSequences ==
  /\ Head(Full) = "rescan" /\ Tail(Full) = WaitThenSearch /\ Len(Full) = 3
  /\ Head(WaitThenSearch) = "wait_ready" /\ Tail(WaitThenSearch) = <<"search">>
  /\ Len(WaitThenSearch) = 2
  /\ Full # WaitThenSearch /\ Full # <<"search">> /\ WaitThenSearch # <<"search">>
  /\ \A job : Head(<<job>>) = job /\ Len(<<job>>) = 1
<1>1. Len(Full) = 3 /\ Len(WaitThenSearch) = 2 /\ \A job : Head(<<job>>) = job /\ Len(<<job>>) = 1
  BY DEF Full, WaitThenSearch
<1>2. Full # WaitThenSearch /\ Full # <<"search">> /\ WaitThenSearch # <<"search">>
  BY <1>1, Len(<<"search">>) = 1
<1>3. /\ Head(Full) = "rescan" /\ Tail(Full) = WaitThenSearch
      /\ Head(WaitThenSearch) = "wait_ready" /\ Tail(WaitThenSearch) = <<"search">>
  BY DEF Full, WaitThenSearch
<1> QED
  BY <1>1, <1>2, <1>3

\* The job a call is at, from what it asked for
LEMMA JobAtHand ==
  ASSUME IInv, NEW c \in Caller, ~Idle(c)
  PROVE  /\ call[c] \in Calls
         /\ call[c].op \in {"start", "wait_ready", "rescan", "find", "grep", "close"}
         /\ call[c].op \in Searches =>
              \/ call[c].jobs = Full /\ Head(call[c].jobs) = "rescan"
              \/ call[c].jobs = WaitThenSearch /\ Head(call[c].jobs) = "wait_ready"
              \/ call[c].jobs = <<"search">> /\ Head(call[c].jobs) = "search"
         /\ call[c].op \notin Searches =>
              /\ call[c].jobs = <<call[c].op>>
              /\ Head(call[c].jobs) = call[c].op /\ Len(call[c].jobs) = 1
         /\ call[c].stage \in StagesOf(Head(call[c].jobs))
<1>1. call[c] \in Calls /\ CallFits(c)
  BY DEF IInv, Types
<1>2. call[c].op # "none" /\ call[c].op \in {"none", "start", "wait_ready", "rescan", "find", "grep", "close"}
  BY <1>1 DEF CallFits, Calls
<1> QED
  BY <1>1, <1>2, JobSequences DEF CallFits, JobsOf
\* A call of another caller stays as it fits and as fresh as it was.
LEMMA OthersAreFine ==
  ASSUME IInv, Types', IndexKeepsUp, NEW d \in Caller, call'[d] = call[d], settled' <= settled
  PROVE  CallFits(d)' /\ CallIsFresh(d)'
<1>1. CallFits(d) /\ CallIsFresh(d) /\ call[d] \in Calls
  BY DEF IInv, Types
<1>2. CallFits(d)'
  BY <1>1 DEF CallFits, Idle, IndexKeepsUp
<1> SUFFICES ASSUME call[d].op \in Searches
             PROVE  CallIsFresh(d)'
  BY <1>2 DEF CallIsFresh
<1> DEFINE must == call[d].must
           saw == call[d].saw
<1>n. /\ must \in Nat /\ saw \in Nat /\ revision \in Nat /\ settled \in Nat
      /\ revision' \in Nat /\ settled' \in Nat /\ picker.indexed \in Nat /\ picker'.indexed \in Nat
  BY <1>1 DEF Calls, IInv, Types, Pickers
<1>3. settled' <= must /\ must <= revision'
  BY <1>1, <1>n DEF CallIsFresh, IndexKeepsUp
<1>4. \/ call[d].jobs # Full /\ call[d].stage \in Waits
      \/ call[d].stage = "asked"
      => closed' \/ WillReflect(must)
  BY <1>1, <1>n DEF CallIsFresh, IndexKeepsUp
<1>5. ASSUME call[d].jobs = <<"search">>, call[d].stage \in {"act", "search"}, picker'.present
      PROVE  must <= picker'.indexed
  <2>1. started /\ ~Idle(d)
    BY <1>1, <1>5 DEF CallFits, Searches, Idle
  <2>2. picker.present /\ picker.indexed <= picker'.indexed
    BY <2>1, <1>5 DEF IndexKeepsUp
  <2>3. must <= picker.indexed
    BY <2>2, <1>1, <1>5 DEF CallIsFresh
  <2> QED
    BY <2>2, <2>3, <1>n
<1>6. ASSUME call[d].stage = "search"
      PROVE  must <= saw /\ saw <= picker'.indexed
  <2>1. must <= saw /\ saw <= picker.indexed
    BY <1>1, <1>6 DEF CallIsFresh
  <2>2. d \in readers
    BY <1>6 DEF IInv, ReadersSearch
  <2>3. picker.indexed <= picker'.indexed
    BY <2>2 DEF IndexKeepsUp
  <2> QED
    BY <2>1, <2>3, <1>n
<1> QED
  BY <1>3, <1>4, <1>5, <1>6 DEF CallIsFresh, Reflects, WillReflect

\* The invariant from what each step shows of its own call and the engine
LEMMA StepKeeps ==
  ASSUME IInv, Types', NEW c \in Caller, Moves(c), IndexKeepsUp,
         LockIsTheClosers', ReadersSearch',
         picker'.scan <= revision', ~started' => picker' = NoPicker
  PROVE  IInv'
<1>1. \A d \in Caller : CallFits(d)' /\ CallIsFresh(d)'
  <2> TAKE d \in Caller
  <2>1. CASE d = c
    BY <2>1 DEF Moves
  <2>2. CASE d # c
    BY <2>2, OthersAreFine DEF Moves
  <2> QED
    BY <2>1, <2>2
<1>2. IndexIsFresh'
  <2>1. settled' <= revision'
    BY DEF Moves, IndexKeepsUp, IInv, IndexIsFresh, Types
  <2> QED
    BY <2>1 DEF Moves, IndexIsFresh, Reflects, WillReflect
<1> QED
  BY <1>1, <1>2 DEF IInv

\* An engine left alone keeps up.
LEMMA IdleEngineKeepsUp ==
  ASSUME IInv, UNCHANGED <<revision, picker, started, closed>>
  PROVE  IndexKeepsUp /\ picker'.scan <= revision' /\ (~started' => picker' = NoPicker)
<1> QED
  BY DEF IInv, Types, Pickers, IndexKeepsUp, Reflects, WillReflect, IndexIsFresh

\* A failed call is over and leaves the index as it was.
LEMMA FailedCallMoves ==
  ASSUME IInv, IndexKeepsUp, NEW c \in Caller, NEW result \in Answers, Fail(c, result),
         revision' = revision
  PROVE  Moves(c) /\ call'[c].stage = "idle"
<1> DEFINE ending == IF call[c].cancelled THEN "cancelled" ELSE result
<1>1. NoCall \in Calls /\ NoCall.stage = "idle" /\ NoCall.op = "none" /\ NoCall.jobs = <<>>
  BY DEF NoCall, Calls, Nothing
<1>2. /\ call \in [Caller -> Calls] /\ answer \in [Caller -> Answers]
      /\ indexed_revision' = indexed_revision /\ settled' = settled
      /\ indexed_revision \in Nat /\ settled \in Nat
      /\ call' = [call EXCEPT ![c] = NoCall]
      /\ answer' = [answer EXCEPT ![c] = ending]
      /\ ending \in Answers
  BY DEF IInv, Types, Fail, Return, Answers
<1>3. /\ call' \in [Caller -> Calls] /\ answer' \in [Caller -> Answers]
      /\ call'[c] = NoCall
      /\ \A d \in Caller : d # c => call'[d] = call[d]
  BY <1>1, <1>2
<1>4. CallFits(c)' /\ CallIsFresh(c)'
  BY <1>1, <1>3 DEF CallFits, CallIsFresh, Idle, JobsOf, Searches
<1>5. /\ indexed_revision' <= revision'
      /\ indexed_revision' = Nothing => settled' = Nothing
      /\ indexed_revision' = revision' => closed' \/ WillReflect(settled')
  <2>1. /\ indexed_revision <= revision
        /\ indexed_revision = Nothing => settled = Nothing
        /\ indexed_revision = revision => closed \/ Reflects(settled)
    BY DEF IInv, IndexIsFresh
  <2>2. closed \/ Reflects(settled) => closed' \/ WillReflect(settled')
    BY <1>2 DEF IndexKeepsUp, Reflects, WillReflect
  <2> QED
    BY <2>1, <2>2, <1>2
<1>6. settled' <= settled
  BY <1>2
<1> QED
  BY <1>1, <1>2, <1>3, <1>4, <1>5, <1>6 DEF Moves
\* A call goes to another stage, and the revision taken for indexed stays.
LEMMA OwnCallMoves ==
  ASSUME IInv, IndexKeepsUp, NEW c \in Caller, NEW now \in Calls,
         call' = [call EXCEPT ![c] = now], answer' \in [Caller -> Answers],
         UNCHANGED <<revision, indexed_revision, settled>>,
         CallFits(c)', CallIsFresh(c)'
  PROVE  Moves(c)
<1>1. /\ call \in [Caller -> Calls] /\ indexed_revision \in Nat /\ settled \in Nat
  BY DEF IInv, Types
<1>2. call' \in [Caller -> Calls] /\ \A d \in Caller : d # c => call'[d] = call[d]
  BY <1>1
<1>3. /\ indexed_revision <= revision
      /\ indexed_revision = Nothing => settled = Nothing
      /\ indexed_revision = revision => closed \/ Reflects(settled)
  BY DEF IInv, IndexIsFresh
<1>4. closed \/ Reflects(settled) => closed' \/ WillReflect(settled')
  BY <1>1 DEF IndexKeepsUp, Reflects, WillReflect
<1> QED
  BY <1>1, <1>2, <1>3, <1>4 DEF Moves

\* What the end of a job leaves: a call that is over, or one at its next job
\* with an index that reflects what it owes; and the revision of this moment
\* is taken for indexed only when the index reflects the settled change.
LEMMA EndedJobMoves ==
  ASSUME IInv, IndexKeepsUp, NEW c \in Caller, ~Idle(c), JobEnds(c), revision' = revision,
         Head(call[c].jobs) = "rescan" => call[c].stage = "asked",
         Head(call[c].jobs) = "search" => call[c].stage = "search"
  PROVE  Moves(c) /\ call'[c].stage \in {"idle", "start"}
<1> DEFINE job == Head(call[c].jobs)
<1>1. CASE call[c].cancelled
  <2>1. Fail(c, "cancelled") /\ "cancelled" \in Answers
    BY <1>1 DEF JobEnds, Answers
  <2> QED
    BY <2>1, FailedCallMoves
<1>2. CASE ~call[c].cancelled
  <2>1. /\ IF Len(call[c].jobs) = 1
             THEN Return(c, "ok")
             ELSE /\ call' = [call EXCEPT ![c].jobs = Tail(@), ![c].stage = "start"]
                  /\ UNCHANGED answer
        /\ indexed_revision' = IF job \in {"wait_ready", "search"} THEN revision ELSE indexed_revision
        /\ settled' = IF call[c].op = "wait_ready" THEN Nothing ELSE settled
    BY <1>2 DEF JobEnds
  <2>n. /\ call \in [Caller -> Calls] /\ answer \in [Caller -> Answers] /\ call[c] \in Calls
        /\ indexed_revision \in Nat /\ settled \in Nat /\ revision \in Nat \ {0}
        /\ picker.indexed \in Nat /\ picker.scan \in Nat /\ picker'.indexed \in Nat /\ picker'.scan \in Nat
        /\ settled <= revision /\ indexed_revision <= revision
        /\ indexed_revision = Nothing => settled = Nothing
        /\ indexed_revision = revision => closed \/ Reflects(settled)
    BY DEF IInv, Types, Pickers, IndexIsFresh, IndexKeepsUp
  <2>m. settled' \in Nat /\ settled' <= settled /\ indexed_revision' \in Nat
    BY <2>1, <2>n DEF Nothing
  <2>2. /\ CallFits(c) /\ CallIsFresh(c)
        /\ call[c].must \in Nat /\ call[c].saw \in Nat
    BY <2>n DEF IInv, Calls
  <2>3. ASSUME call[c].op \in Searches
        PROVE  closed' \/ WillReflect(call[c].must)
    <3>1. CASE call[c].jobs = Full
      <4>1. call[c].stage = "asked"
        BY <3>1, JobSequences
      <4>2. closed \/ Reflects(call[c].must)
        BY <4>1, <2>2, <2>3 DEF CallIsFresh
      <4> QED
        BY <4>2, <2>2 DEF IndexKeepsUp
    <3>2. CASE call[c].jobs = WaitThenSearch
      <4>1. call[c].jobs # Full /\ call[c].stage \in Waits
        BY <3>2, JobSequences, JobAtHand DEF StagesOf
      <4>2. closed \/ Reflects(call[c].must)
        BY <4>1, <2>2, <2>3 DEF CallIsFresh
      <4> QED
        BY <4>2, <2>2 DEF IndexKeepsUp
    <3>3. CASE call[c].jobs = <<"search">>
      <4>1. call[c].stage = "search" /\ c \in readers
        BY <3>3, JobSequences DEF IInv, ReadersSearch
      <4>2. call[c].must <= picker.indexed
        BY <4>1, <2>n, <2>2, <2>3 DEF CallIsFresh
      <4>3. call[c].must <= picker'.indexed
        BY <4>1, <4>2, <2>n, <2>2 DEF IndexKeepsUp
      <4> QED
        BY <4>3, <2>2, <2>n DEF Reflects, WillReflect
    <3> QED
      BY <3>1, <3>2, <3>3, <2>3, JobAtHand
  <2>4. ASSUME job \in {"wait_ready", "search"}
        PROVE  closed' \/ WillReflect(settled')
    <3>1. CASE call[c].op \in Searches
      <4>1. closed' \/ WillReflect(call[c].must)
        BY <3>1, <2>3
      <4>2. settled' <= call[c].must
        BY <3>1, <2>1, <2>2, <2>n DEF CallIsFresh, Searches
      <4> QED
        BY <4>1, <4>2, <2>m, <2>n, <2>2 DEF Reflects, WillReflect
    <3>2. CASE call[c].op \notin Searches
      <4>1. call[c].op = "wait_ready"
        BY <3>2, <2>4, JobAtHand
      <4> QED
        BY <4>1, <2>1, <2>n DEF Reflects, WillReflect, Nothing
    <3> QED
      BY <3>1, <3>2
  <2>5. /\ indexed_revision' <= revision'
        /\ indexed_revision' = Nothing => settled' = Nothing
        /\ indexed_revision' = revision' => closed' \/ WillReflect(settled')
    <3>1. CASE job \in {"wait_ready", "search"}
      BY <3>1, <2>1, <2>4, <2>n DEF Nothing
    <3>2. CASE job \notin {"wait_ready", "search"}
      <4>1. indexed_revision' = indexed_revision /\ (settled' = Nothing \/ settled' = settled)
        BY <3>2, <2>1
      <4>2. closed \/ Reflects(settled) => closed' \/ WillReflect(settled')
        BY <4>1, <2>n DEF IndexKeepsUp, Reflects, WillReflect, Nothing
      <4> QED
        BY <4>1, <4>2, <2>n DEF Reflects, WillReflect
    <3> QED
      BY <3>1, <3>2
  <2>6. CASE Len(call[c].jobs) = 1
    <3>1. call' = [call EXCEPT ![c] = NoCall] /\ answer' = [answer EXCEPT ![c] = "ok"]
      BY <1>2, <2>6, <2>1 DEF Return
    <3>2. /\ NoCall \in Calls /\ NoCall.stage = "idle" /\ NoCall.op = "none" /\ NoCall.jobs = <<>>
          /\ "ok" \in Answers
      BY DEF NoCall, Calls, Nothing, Answers
    <3>3. /\ call' \in [Caller -> Calls] /\ answer' \in [Caller -> Answers]
          /\ call'[c] = NoCall
          /\ \A d \in Caller : d # c => call'[d] = call[d]
      BY <3>1, <3>2, <2>n
    <3>4. CallFits(c)' /\ CallIsFresh(c)'
      BY <3>2, <3>3 DEF CallFits, CallIsFresh, Idle, JobsOf, Searches
    <3> QED
      BY <3>2, <3>3, <3>4, <2>m, <2>5 DEF Moves
  <2>7. CASE Len(call[c].jobs) # 1
    <3> DEFINE now == [call[c] EXCEPT !.jobs = Tail(@), !.stage = "start"]
    <3>1. call' = [call EXCEPT ![c] = now] /\ answer' = answer
      BY <2>7, <2>1
    <3>2. call[c].op \in Searches /\ call[c].jobs \in {Full, WaitThenSearch}
      BY <2>7, JobAtHand, JobSequences
    <3>3. /\ Tail(call[c].jobs) \in {WaitThenSearch, <<"search">>}
          /\ Head(Tail(call[c].jobs)) \in {"wait_ready", "search"}
      BY <3>2, JobSequences
    <3>4. /\ now \in Calls /\ now.op = call[c].op /\ now.must = call[c].must
          /\ now.jobs = Tail(call[c].jobs) /\ now.stage = "start"
      BY <3>3, <2>n DEF Calls
    <3> HIDE DEF now
    <3>5. call' \in [Caller -> Calls] /\ call'[c] = now /\ \A d \in Caller : d # c => call'[d] = call[d]
      BY <3>1, <3>4, <2>n
    <3>6. CallFits(c)'
      <4>1. now.jobs \in JobsOf(now.op) /\ now.op # "none" /\ now.stage \in StagesOf(Head(now.jobs))
        BY <3>2, <3>3, <3>4 DEF JobsOf, Searches, StagesOf, Waits
      <4> QED
        BY <4>1, <3>4, <3>5 DEF CallFits, Idle
    <3>7. CallIsFresh(c)'
      <4>1. now.stage \in Waits /\ now.stage \notin {"act", "asked", "search"}
        BY <3>4 DEF Waits
      <4>2. settled' <= now.must /\ now.must <= revision'
        BY <3>2, <3>4, <2>m, <2>n, <2>2 DEF CallIsFresh
      <4>3. closed' \/ WillReflect(now.must)
        BY <2>3, <3>2, <3>4
      <4> QED
        BY <4>1, <4>2, <4>3, <3>5 DEF CallIsFresh, Reflects, WillReflect
    <3> QED
      BY <3>1, <3>4, <3>5, <3>6, <3>7, <2>m, <2>n, <2>5 DEF Moves
  <2> QED
    BY <2>6, <2>7
<1> QED
  BY <1>1, <1>2

\* The lock, the readers and the engine after a step of a caller that takes
\* and releases neither lock
LEMMA LocksStand ==
  ASSUME IInv, NEW c \in Caller, Moves(c), UNCHANGED <<startup_lock, readers>>,
         call[c].stage = "search" <=> call'[c].stage = "search",
         call[c].stage = "drain" <=> call'[c].stage = "drain",
         closed' = closed,
         closed /\ startup_lock = NoOne => ~picker'.present /\ picker'.scan = Nothing,
         readers # {} => picker'.present
  PROVE  LockIsTheClosers' /\ ReadersSearch'
<1>1. \A d \in Caller : call'[d].stage = "search" <=> call[d].stage = "search"
  BY DEF Moves
<1>2. \A d \in Caller : call'[d].stage = "drain" <=> call[d].stage = "drain"
  BY DEF Moves
<1>3. ReadersSearch'
  BY <1>1 DEF IInv, ReadersSearch
<1>4. LockIsTheClosers'
  BY <1>2 DEF IInv, LockIsTheClosers
<1> QED
  BY <1>3, <1>4

\* A step of a caller that leaves the engine alone keeps the invariant.
LEMMA QuietStepKeeps ==
  ASSUME IInv, NEW c \in Caller, Moves(c), UNCHANGED <<revision, engine>>,
         call[c].stage = "search" <=> call'[c].stage = "search",
         call[c].stage = "drain" <=> call'[c].stage = "drain"
  PROVE  IInv'
<1>1. IndexKeepsUp /\ picker'.scan <= revision' /\ (~started' => picker' = NoPicker)
  BY IdleEngineKeepsUp DEF engine
<1>2. LockIsTheClosers' /\ ReadersSearch'
  BY LocksStand DEF engine, IInv, LockIsTheClosers, ReadersSearch
<1>3. Types'
  BY DEF IInv, Types, Moves, engine
<1> QED
  BY <1>1, <1>2, <1>3, StepKeeps

\* A call that fails, and leaves the engine alone
LEMMA QuietFailureKeeps ==
  ASSUME IInv, NEW c \in Caller, NEW result \in Answers, Fail(c, result),
         UNCHANGED <<revision, engine>>, call[c].stage \notin {"search", "drain"}
  PROVE  IInv'
<1>1. IndexKeepsUp
  BY IdleEngineKeepsUp DEF engine
<1>2. Moves(c) /\ call'[c].stage = "idle"
  BY <1>1, FailedCallMoves
<1> QED
  BY <1>2, QuietStepKeeps

\* A call that goes to another stage, and leaves the engine alone
LEMMA QuietMoveKeeps ==
  ASSUME IInv, NEW c \in Caller, NEW now \in Calls, call' = [call EXCEPT ![c] = now],
         answer' \in [Caller -> Answers], UNCHANGED <<revision, engine, indexed_revision, settled>>,
         CallFits(c)', CallIsFresh(c)',
         call[c].stage = "search" <=> now.stage = "search",
         call[c].stage = "drain" <=> now.stage = "drain"
  PROVE  IInv'
<1>1. IndexKeepsUp
  BY IdleEngineKeepsUp DEF engine
<1>2. Moves(c)
  BY <1>1, OwnCallMoves
<1>3. call'[c] = now
  BY DEF IInv, Types
<1> QED
  BY <1>2, <1>3, QuietStepKeeps

-----------------------------------------------------------------------------
(* The invariant holds at the start and each step keeps it *)

\* No engine is started and no call is under way.
LEMMA InitIInv == Init => IInv
<1> SUFFICES ASSUME Init PROVE IInv
  OBVIOUS
<1>1. NoCall \in Calls /\ NoCall.op = "none" /\ NoCall.stage = "idle" /\ NoCall.jobs = <<>>
  BY DEF NoCall, Calls, Nothing
<1>2. NoPicker \in Pickers /\ NoPicker.scan = 0
  BY DEF NoPicker, Pickers, Nothing
<1>3. Types
  <2>1. call \in [Caller -> Calls] /\ answer \in [Caller -> Answers]
    BY <1>1 DEF Init, Answers
  <2>2. /\ revision \in Nat \ {0} /\ indexed_revision \in Nat /\ settled \in Nat
    BY DEF Init, Nothing
  <2> QED
    BY <2>1, <2>2, <1>2 DEF Init, Types
<1>4. \A c \in Caller : CallFits(c) /\ CallIsFresh(c)
  BY <1>1 DEF Init, CallFits, CallIsFresh, Idle, JobsOf, Searches
<1>5. LockIsTheClosers /\ ReadersSearch
  BY <1>1, FffAssumption DEF Init, LockIsTheClosers, ReadersSearch
<1>6. IndexIsFresh
  BY <1>2 DEF Init, IndexIsFresh, Nothing, Reflects
<1> QED
  BY <1>3, <1>4, <1>5, <1>6 DEF IInv

\* A call begins: it owes the revision it finds, or the settled change.
LEMMA BeginKeeps ==
  ASSUME IInv, NEW c \in Caller,
         NEW op \in {"start", "wait_ready", "rescan", "find", "grep", "close"}, Begin(c, op)
  PROVE  IInv'
<1> DEFINE stale == op \in Searches /\ Stale
           stage == IF op = "close" THEN "act" ELSE "start"
           must == IF stale THEN revision ELSE IF op \in Searches THEN settled ELSE Nothing
           now == [NoCall EXCEPT !.op = op, !.jobs = Plan(op, stale), !.stage = stage, !.must = must]
<1>1. /\ call[c].stage = "idle" /\ call' = [call EXCEPT ![c] = now]
      /\ answer' = [answer EXCEPT ![c] = "none"]
      /\ UNCHANGED <<revision, engine, indexed_revision, settled>>
  BY DEF Begin, Idle, Searches
<1>2. /\ revision \in Nat /\ settled \in Nat /\ must \in Nat
      /\ picker.indexed \in Nat /\ picker.scan \in Nat /\ settled <= revision
      /\ call \in [Caller -> Calls] /\ answer \in [Caller -> Answers]
  BY DEF IInv, Types, Pickers, IndexIsFresh, Nothing
<1>3. Plan(op, stale) = IF op \in Searches THEN IF stale THEN Full ELSE <<"search">> ELSE <<op>>
  BY DEF Plan, Searches, Full
<1>4. /\ now \in Calls /\ now.op = op /\ now.jobs = Plan(op, stale) /\ now.stage = stage
      /\ now.must = must
  BY <1>2, <1>3 DEF Calls, NoCall, Nothing, Searches
<1> HIDE DEF now
<1>5. call'[c] = now /\ answer' \in [Caller -> Answers]
  BY <1>1, <1>2 DEF Answers
<1>6. CallFits(c)'
  <2>1. now.jobs \in JobsOf(op) /\ now.stage # "idle"
    BY <1>3, <1>4 DEF JobsOf, Searches
  <2>2. now.stage \in StagesOf(Head(now.jobs))
    BY <1>3, <1>4, JobSequences DEF StagesOf, Searches, Waits
  <2> QED
    BY <2>1, <2>2, <1>4, <1>5 DEF CallFits, Idle
<1>7. CallIsFresh(c)'
  <2> SUFFICES ASSUME op \in Searches PROVE CallIsFresh(c)'
    BY <1>4, <1>5 DEF CallIsFresh
  <2>1. settled <= must /\ must <= revision
    BY <1>2
  <2>2. stage = "start"
    BY DEF Searches
  <2>3. ASSUME now.jobs # Full
        PROVE  closed \/ Reflects(must)
    <3>1. ~stale /\ must = settled
      BY <2>3, <1>3, <1>4
    <3>2. indexed_revision = Nothing \/ indexed_revision = revision
      BY <3>1 DEF Stale
    <3> QED
      BY <3>1, <3>2, <1>2 DEF IInv, IndexIsFresh, Reflects, Nothing
  <2> QED
    BY <2>1, <2>2, <2>3, <1>1, <1>4, <1>5 DEF CallIsFresh, Reflects, engine
<1> QED
  BY <1>1, <1>4, <1>5, <1>6, <1>7, QuietMoveKeeps

\* A cancelled caller waits for its thread all the same.
LEMMA CancelKeeps ==
  ASSUME IInv, NEW c \in Caller, Cancel(c)
  PROVE  IInv'
<1> DEFINE now == [call[c] EXCEPT !.cancelled = TRUE]
<1>1. call \in [Caller -> Calls] /\ call[c] \in Calls /\ CallFits(c) /\ CallIsFresh(c)
  BY DEF IInv, Types
<1>2. /\ now \in Calls /\ now.op = call[c].op /\ now.jobs = call[c].jobs
      /\ now.stage = call[c].stage /\ now.must = call[c].must /\ now.saw = call[c].saw
  BY <1>1 DEF Calls
<1>3. call' = [call EXCEPT ![c] = now]
  BY DEF Cancel
<1> HIDE DEF now
<1>4. call'[c] = now /\ answer' \in [Caller -> Answers]
  BY <1>1, <1>3 DEF Cancel, IInv, Types
<1>5. CallFits(c)' /\ CallIsFresh(c)'
  BY <1>1, <1>2, <1>4 DEF Cancel, engine, CallFits, CallIsFresh, Idle, Reflects
<1> QED
  BY <1>2, <1>3, <1>4, <1>5, QuietMoveKeeps DEF Cancel
\* A call goes to another stage of its job: on with its wait, from the wait
\* to an index that does not scan, from a scan requested to its status, or
\* from the lock to the readers' end.
LEMMA StageMoves ==
  ASSUME IInv, IndexKeepsUp, NEW c \in Caller, ~Idle(c), NEW stage, Goto(c, stage),
         stage \in StagesOf(Head(call[c].jobs)),
         UNCHANGED <<revision, answer, indexed_revision, settled>>,
         \/ call[c].stage \in Waits /\ stage \in {"wait", "check"} /\ started'
         \/ call[c].stage = "check" /\ stage = "act" /\ ~closed /\ UNCHANGED <<picker, started>>
            /\ picker.scan = Nothing
         \/ call[c].stage = "act" /\ stage = "asked" /\ picker'.scan = revision
         \/ stage = "drain"
  PROVE  Moves(c) /\ call'[c].stage = stage
<1> DEFINE now == [call[c] EXCEPT !.stage = stage]
<1>1. /\ call \in [Caller -> Calls] /\ call[c] \in Calls /\ CallFits(c) /\ CallIsFresh(c)
      /\ answer \in [Caller -> Answers]
      /\ revision \in Nat /\ settled \in Nat /\ picker.indexed \in Nat /\ picker.scan \in Nat
      /\ picker' \in Pickers
  BY DEF IInv, Types, Pickers, IndexKeepsUp
<1>2. /\ now \in Calls /\ now.op = call[c].op /\ now.jobs = call[c].jobs
      /\ now.stage = stage /\ now.must = call[c].must /\ now.saw = call[c].saw /\ now.must \in Nat
  BY <1>1 DEF Calls
<1>3. call' = [call EXCEPT ![c] = now]
  BY DEF Goto
<1> HIDE DEF now
<1>4. call'[c] = now
  BY <1>1, <1>3
<1>5. CallFits(c)'
  <2>1. /\ now.jobs \in JobsOf(now.op) /\ now.op # "none" /\ now.stage # "idle"
        /\ now.stage \in StagesOf(Head(now.jobs))
    BY <1>1, <1>2 DEF CallFits, Idle
  <2>2. stage \in {"wait", "check", "act", "search"} /\ call[c].op # "close" => started'
    <3>1. stage # "search"
      OBVIOUS
    <3>2. stage = "act" => call[c].stage = "check" /\ started' = started
      OBVIOUS
    <3> QED
      BY <3>1, <3>2, <1>1 DEF CallFits
  <2> QED
    BY <2>1, <2>2, <1>2, <1>4 DEF CallFits, Idle
<1>6. CallIsFresh(c)'
  <2> SUFFICES ASSUME call[c].op \in Searches PROVE CallIsFresh(c)'
    BY <1>2, <1>4 DEF CallIsFresh
  <2>1. settled <= now.must /\ now.must <= revision
    BY <1>1, <1>2 DEF CallIsFresh
  <2>2. stage # "drain" /\ stage # "search"
    BY JobAtHand DEF StagesOf, Waits
  <2>5. ASSUME stage = "asked"
        PROVE  WillReflect(now.must)
    <3>1. picker'.scan = revision /\ now.must <= revision
      BY <2>1, <2>5 DEF Waits
    <3> QED
      BY <3>1 DEF WillReflect
  <2>3. ASSUME now.jobs # Full, stage \in Waits
        PROVE  closed' \/ WillReflect(now.must)
    <3>1. call[c].stage \in Waits
      BY <2>2, <2>3 DEF Waits
    <3>2. closed \/ Reflects(now.must)
      BY <3>1, <2>3, <1>1, <1>2 DEF CallIsFresh
    <3> QED
      BY <3>2, <1>2 DEF IndexKeepsUp
  <2>4. ASSUME now.jobs = <<"search">>, stage = "act"
        PROVE  now.must <= picker'.indexed
    <3>1. call[c].stage \in Waits /\ ~closed /\ picker' = picker /\ picker.scan = Nothing
      BY <2>4 DEF Waits
    <3>2. Reflects(now.must)
      BY <3>1, <2>4, <1>1, <1>2, JobSequences DEF CallIsFresh
    <3> QED
      BY <3>1, <3>2, <1>1, <1>2 DEF Reflects, Nothing
  <2> QED
    BY <2>1, <2>2, <2>3, <2>4, <2>5, <1>2, <1>4 DEF CallIsFresh, Reflects, WillReflect
<1> QED
  BY <1>1, <1>2, <1>3, <1>4, <1>5, <1>6, OwnCallMoves

\* A first start makes the picker and begins its scan; another finds them.
LEMMA StartKeeps ==
  ASSUME IInv, NEW c \in Caller, Start(c)
  PROVE  IInv'
<1>1. /\ ~Idle(c) /\ call[c].stage = "start" /\ startup_lock = NoOne
      /\ Head(call[c].jobs) \in {"start", "wait_ready", "rescan", "search"}
      /\ UNCHANGED <<revision, closed, startup_lock, readers>>
  BY DEF Start, At, Idle
<1>2. CASE closed
  BY <1>1, <1>2, QuietFailureKeeps DEF Start, engine, Answers
<1>3. CASE ~closed
  <2>1. /\ started' = TRUE
        /\ picker' = IF started THEN picker
                     ELSE [indexed |-> Nothing, scan |-> revision, present |-> TRUE]
        /\ IF Head(call[c].jobs) = "start"
             THEN JobEnds(c)
             ELSE Goto(c, "wait") /\ UNCHANGED <<answer, indexed_revision, settled>>
    BY <1>3 DEF Start
  <2>2. /\ picker \in Pickers /\ revision \in Nat /\ picker.scan <= revision
        /\ ~started => picker = NoPicker
        /\ readers # {} => picker.present
    BY DEF IInv, Types, IndexIsFresh, ReadersSearch
  <2>3. /\ picker' \in Pickers /\ picker'.scan <= revision'
        /\ ~started => picker.indexed = 0 /\ picker.scan = 0 /\ ~picker.present /\ readers = {}
        /\ readers # {} => picker'.present
    BY <1>1, <2>1, <2>2 DEF Pickers, NoPicker, Nothing
  <2>4. IndexKeepsUp
    <3>1. CASE started
      BY <3>1, <1>1, <2>1, <2>2, <2>3 DEF IndexKeepsUp, Reflects, WillReflect, Pickers
    <3>2. CASE ~started
      <4>1. picker'.scan = revision /\ picker'.indexed = 0
        BY <3>2, <2>1 DEF Nothing
      <4>2. \A change \in Nat : Reflects(change) => WillReflect(change)
        BY <4>1, <3>2, <2>2, <2>3 DEF Reflects, WillReflect
      <4> QED
        BY <4>2, <3>2, <1>1, <1>3, <2>1, <2>2, <2>3 DEF IndexKeepsUp
    <3> QED
      BY <3>1, <3>2
  <2>5. Moves(c) /\ call'[c].stage \in {"idle", "start", "wait"}
    <3>1. CASE Head(call[c].jobs) = "start"
      BY <3>1, <1>1, <2>1, <2>4, EndedJobMoves
    <3>2. CASE Head(call[c].jobs) # "start"
      <4>1. "wait" \in StagesOf(Head(call[c].jobs)) /\ "start" \in Waits
        BY <3>2, <1>1 DEF StagesOf, Waits
      <4> QED
        BY <4>1, <3>2, <1>1, <2>1, <2>4, StageMoves
    <3> QED
      BY <3>1, <3>2
  <2>6. LockIsTheClosers' /\ ReadersSearch'
    BY <2>5, <2>3, <1>1, <1>3, LocksStand
  <2>7. Types'
    BY <2>5, <2>3, <2>1, <1>1 DEF IInv, Types, Moves
  <2> QED
    BY <2>1, <2>3, <2>4, <2>5, <2>6, <2>7, StepKeeps
<1> QED
  BY <1>2, <1>3

\* The picker cannot be made: the call fails.
LEMMA StartFailsKeeps ==
  ASSUME IInv, NEW c \in Caller, StartFails(c)
  PROVE  IInv'
<1> QED
  BY QuietFailureKeeps DEF StartFails, At, Answers

\* The wait for the scan ends, with the scan or with its time.
LEMMA WaitEndsKeeps ==
  ASSUME IInv, NEW c \in Caller, WaitEnds(c) \/ WaitTimesOut(c)
  PROVE  IInv'
<1>1. CASE WaitEnds(c)
  <2>1. /\ ~Idle(c) /\ call[c].stage = "wait"
        /\ Head(call[c].jobs) \in {"wait_ready", "rescan", "search"}
        /\ Goto(c, "check") /\ UNCHANGED <<revision, engine, indexed_revision, answer, settled>>
    BY <1>1 DEF WaitEnds, At, Idle
  <2>2. IndexKeepsUp
    BY <2>1, IdleEngineKeepsUp DEF engine
  <2>3. "check" \in StagesOf(Head(call[c].jobs)) /\ "wait" \in Waits
    BY <2>1 DEF StagesOf, Waits
  <2>4. started'
    BY <2>1, JobAtHand DEF IInv, CallFits, engine, Searches
  <2>5. Moves(c) /\ call'[c].stage = "check"
    BY <2>1, <2>2, <2>3, <2>4, StageMoves
  <2> QED
    BY <2>1, <2>5, QuietStepKeeps
<1>2. CASE WaitTimesOut(c)
  BY <1>2, QuietFailureKeeps DEF WaitTimesOut, At, Answers
<1> QED
  BY <1>1, <1>2
\* After the wait the engine is asked again.
LEMMA CheckKeeps ==
  ASSUME IInv, NEW c \in Caller, Check(c)
  PROVE  IInv'
<1>1. /\ ~Idle(c) /\ call[c].stage = "check"
      /\ Head(call[c].jobs) \in {"wait_ready", "rescan", "search"}
      /\ UNCHANGED <<revision, engine>>
  BY DEF Check, At, Idle
<1>2. IndexKeepsUp
  BY <1>1, IdleEngineKeepsUp DEF engine
<1>3. \/ closed /\ Fail(c, "closed")
      \/ ~closed /\ Head(call[c].jobs) = "wait_ready" /\ JobEnds(c)
      \/ Fail(c, "not_ready")
      \/ /\ ~closed /\ Head(call[c].jobs) # "wait_ready" /\ picker.scan = Nothing
         /\ Goto(c, "act") /\ UNCHANGED <<answer, indexed_revision, settled>>
  BY DEF Check
<1>4. CASE Fail(c, "closed") \/ Fail(c, "not_ready")
  BY <1>1, <1>4, QuietFailureKeeps DEF Answers
<1>5. CASE ~closed /\ Head(call[c].jobs) = "wait_ready" /\ JobEnds(c)
  <2>1. Moves(c) /\ call'[c].stage \in {"idle", "start"}
    BY <1>1, <1>2, <1>5, EndedJobMoves
  <2> QED
    BY <2>1, <1>1, QuietStepKeeps
<1>6. CASE /\ ~closed /\ Head(call[c].jobs) # "wait_ready" /\ picker.scan = Nothing
           /\ Goto(c, "act") /\ UNCHANGED <<answer, indexed_revision, settled>>
  <2>1. "act" \in StagesOf(Head(call[c].jobs))
    BY <1>1, <1>6 DEF StagesOf
  <2>2. Moves(c) /\ call'[c].stage = "act"
    BY <2>1, <1>1, <1>2, <1>6, StageMoves DEF engine
  <2> QED
    BY <2>2, <1>1, QuietStepKeeps
<1> QED
  BY <1>3, <1>4, <1>5, <1>6

\* The scan a rescan requests reflects the present revision.
LEMMA TriggerKeeps ==
  ASSUME IInv, NEW c \in Caller, Trigger(c)
  PROVE  IInv'
<1>1. /\ ~Idle(c) /\ call[c].stage = "act" /\ Head(call[c].jobs) = "rescan"
      /\ UNCHANGED <<revision, started, closed, startup_lock, readers>>
  BY DEF Trigger, At, Idle
<1>2. CASE picker.present
  <2>1. /\ picker' = [picker EXCEPT !.scan = revision] /\ Goto(c, "asked")
        /\ UNCHANGED <<answer, indexed_revision, settled>>
    BY <1>2 DEF Trigger
  <2>2. picker \in Pickers /\ revision \in Nat /\ picker.scan <= revision
    BY DEF IInv, Types, IndexIsFresh
  <2>3. /\ picker' \in Pickers /\ picker'.scan = revision /\ picker'.indexed = picker.indexed
        /\ picker'.present = picker.present
    BY <2>1, <2>2 DEF Pickers
  <2>4. IndexKeepsUp
    BY <2>2, <2>3, <1>1 DEF IndexKeepsUp, Reflects, WillReflect, Pickers
  <2>5. "asked" \in StagesOf(Head(call[c].jobs))
    BY <1>1 DEF StagesOf
  <2>6. Moves(c) /\ call'[c].stage = "asked"
    BY <1>1, <2>1, <2>3, <2>4, <2>5, StageMoves
  <2>7. LockIsTheClosers' /\ ReadersSearch'
    BY <2>6, <2>3, <1>1, <1>2, LocksStand DEF IInv, LockIsTheClosers
  <2>8. Types'
    BY <2>6, <2>3, <1>1 DEF IInv, Types, Moves
  <2>9. started
    BY <1>2 DEF IInv, IndexIsFresh, NoPicker
  <2> QED
    BY <2>2, <2>3, <2>4, <2>6, <2>7, <2>8, <2>9, <1>1, StepKeeps
<1>3. CASE ~picker.present
  BY <1>1, <1>3, QuietFailureKeeps DEF Trigger, engine, Answers
<1> QED
  BY <1>2, <1>3

\* The status after the request ends the job, or finds the engine closed.
LEMMA TriggeredKeeps ==
  ASSUME IInv, NEW c \in Caller, Triggered(c)
  PROVE  IInv'
<1>1. /\ ~Idle(c) /\ call[c].stage = "asked" /\ Head(call[c].jobs) = "rescan"
      /\ UNCHANGED <<revision, engine>>
  BY DEF Triggered, At, Idle
<1>2. CASE closed
  BY <1>1, <1>2, QuietFailureKeeps DEF Triggered, Answers
<1>3. CASE ~closed
  <2>1. IndexKeepsUp
    BY <1>1, IdleEngineKeepsUp DEF engine
  <2>2. Moves(c) /\ call'[c].stage \in {"idle", "start"}
    BY <1>1, <1>3, <2>1, EndedJobMoves DEF Triggered
  <2> QED
    BY <1>1, <2>2, QuietStepKeeps
<1> QED
  BY <1>2, <1>3

\* A request that is refused
LEMMA RefuseKeeps ==
  ASSUME IInv, NEW c \in Caller, Refuse(c)
  PROVE  IInv'
<1> QED
  BY QuietFailureKeeps DEF Refuse, At, Answers
\* A search takes the read lock and sees an index that shows what it owes.
LEMMA SearchKeeps ==
  ASSUME IInv, NEW c \in Caller, Search(c)
  PROVE  IInv'
<1>1. /\ ~Idle(c) /\ call[c].stage = "act" /\ Head(call[c].jobs) = "search"
      /\ UNCHANGED <<revision, picker, started, closed, startup_lock>>
  BY DEF Search, At, Idle
<1>2. CASE picker.present
  <2> DEFINE now == [call[c] EXCEPT !.stage = "search", !.saw = picker.indexed]
  <2>1. /\ readers' = readers \cup {c}
        /\ call' = [call EXCEPT ![c] = now]
        /\ UNCHANGED <<indexed_revision, answer, settled>>
    BY <1>2 DEF Search
  <2>2. /\ call \in [Caller -> Calls] /\ call[c] \in Calls /\ answer \in [Caller -> Answers]
        /\ CallFits(c) /\ CallIsFresh(c) /\ picker \in Pickers /\ picker.indexed \in Nat
    BY DEF IInv, Types, Pickers
  <2>3. /\ now \in Calls /\ now.op = call[c].op /\ now.jobs = call[c].jobs
        /\ now.stage = "search" /\ now.must = call[c].must /\ now.saw = picker.indexed
    BY <2>2 DEF Calls
  <2> HIDE DEF now
  <2>4. call'[c] = now
    BY <2>1, <2>2
  <2>5. call[c].op \in Searches /\ call[c].jobs = <<"search">>
    BY <1>1, JobAtHand
  <2>6. CallFits(c)'
    BY <2>2, <2>3, <2>4, <2>5, <1>1 DEF CallFits, Idle, StagesOf
  <2>7. CallIsFresh(c)'
    <3>1. /\ settled <= now.must /\ now.must <= revision
          /\ now.must <= picker.indexed
      BY <1>1, <1>2, <2>2, <2>3, <2>5 DEF CallIsFresh
    <3>2. now.saw <= picker.indexed
      BY <2>2, <2>3
    <3> QED
      BY <3>1, <3>2, <1>1, <2>1, <2>3, <2>4 DEF CallIsFresh, Waits
  <2>8. IndexKeepsUp /\ picker'.scan <= revision' /\ (~started' => picker' = NoPicker)
    BY <1>1, IdleEngineKeepsUp
  <2>9. Moves(c)
    BY <1>1, <2>1, <2>2, <2>3, <2>6, <2>7, <2>8, OwnCallMoves
  <2>10. ReadersSearch'
    <3>1. \A d \in Caller : call'[d].stage = "search" <=> call[d].stage = "search" \/ d = c
      BY <2>3, <2>4, <2>9 DEF Moves
    <3> QED
      BY <3>1, <2>1, <1>1, <1>2 DEF IInv, ReadersSearch
  <2>11. LockIsTheClosers'
    <3>1. \A d \in Caller : call'[d].stage = "drain" <=> call[d].stage = "drain"
      BY <1>1, <2>3, <2>4, <2>9 DEF Moves
    <3> QED
      BY <3>1, <1>1 DEF IInv, LockIsTheClosers
  <2>12. Types'
    BY <2>9, <1>1 DEF IInv, Types, Moves
  <2> QED
    BY <2>8, <2>9, <2>10, <2>11, <2>12, StepKeeps
<1>3. CASE ~picker.present
  BY <1>1, <1>3, QuietFailureKeeps DEF Search, engine, Answers
<1> QED
  BY <1>2, <1>3

\* A search that gives its read lock back
LEMMA ReleaseKeeps ==
  ASSUME IInv, NEW c \in Caller, call[c].stage = "search", readers' = readers \ {c},
         UNCHANGED <<revision, picker, started, closed, startup_lock>>,
         Moves(c), call'[c].stage \in {"idle", "start", "act"}
  PROVE  IInv'
<1>1. IndexKeepsUp /\ picker'.scan <= revision' /\ (~started' => picker' = NoPicker)
  BY IdleEngineKeepsUp
<1>2. ReadersSearch'
  <2>1. \A d \in Caller : call'[d].stage = "search" <=> call[d].stage = "search" /\ d # c
    BY DEF Moves
  <2> QED
    BY <2>1 DEF IInv, ReadersSearch
<1>3. LockIsTheClosers'
  <2>1. \A d \in Caller : call'[d].stage = "drain" <=> call[d].stage = "drain"
    BY DEF Moves
  <2> QED
    BY <2>1 DEF IInv, LockIsTheClosers
<1>4. Types'
  BY DEF IInv, Types, Moves
<1> QED
  BY <1>1, <1>2, <1>3, <1>4, StepKeeps

\* An empty first pass: the call is about to search again.
LEMMA FallBackKeeps ==
  ASSUME IInv, NEW c \in Caller, FallBack(c)
  PROVE  IInv'
<1> DEFINE now == [call[c] EXCEPT !.stage = "act", !.second = TRUE]
<1>1. /\ ~Idle(c) /\ call[c].stage = "search" /\ Head(call[c].jobs) = "search"
      /\ readers' = readers \ {c} /\ call' = [call EXCEPT ![c] = now]
      /\ UNCHANGED <<revision, picker, started, closed, startup_lock, indexed_revision, answer, settled>>
  BY DEF FallBack, At, Idle
<1>2. /\ call \in [Caller -> Calls] /\ call[c] \in Calls /\ answer \in [Caller -> Answers]
      /\ CallFits(c) /\ CallIsFresh(c) /\ picker.indexed \in Nat
  BY DEF IInv, Types, Pickers
<1>3. /\ now \in Calls /\ now.op = call[c].op /\ now.jobs = call[c].jobs
      /\ now.stage = "act" /\ now.must = call[c].must /\ now.saw = call[c].saw
      /\ now.must \in Nat /\ now.saw \in Nat
  BY <1>2 DEF Calls
<1> HIDE DEF now
<1>4. call'[c] = now
  BY <1>1, <1>2
<1>5. CallFits(c)'
  BY <1>1, <1>2, <1>3, <1>4 DEF CallFits, Idle, StagesOf
<1>6. CallIsFresh(c)'
  <2> SUFFICES ASSUME call[c].op \in Searches PROVE CallIsFresh(c)'
    BY <1>3, <1>4 DEF CallIsFresh
  <2>1. /\ settled <= now.must /\ now.must <= revision
        /\ now.must <= now.saw /\ now.saw <= picker.indexed
    BY <1>1, <1>2, <1>3 DEF CallIsFresh
  <2>2. now.must <= picker.indexed
    BY <2>1, <1>2, <1>3
  <2> QED
    BY <2>1, <2>2, <1>1, <1>3, <1>4 DEF CallIsFresh, Waits
<1>7. IndexKeepsUp
  BY <1>1, IdleEngineKeepsUp
<1>8. Moves(c)
  BY <1>1, <1>2, <1>3, <1>5, <1>6, <1>7, OwnCallMoves
<1> QED
  BY <1>1, <1>3, <1>4, <1>8, ReleaseKeeps

\* A search ends, with its answer or without.
LEMMA SearchEndsKeeps ==
  ASSUME IInv, NEW c \in Caller, SearchFails(c) \/ SearchEnds(c)
  PROVE  IInv'
<1>1. /\ ~Idle(c) /\ call[c].stage = "search" /\ Head(call[c].jobs) = "search"
      /\ readers' = readers \ {c}
      /\ UNCHANGED <<revision, picker, started, closed, startup_lock>>
      /\ Fail(c, "invalid") \/ JobEnds(c)
  BY DEF SearchFails, SearchEnds, At, Idle
<1>2. IndexKeepsUp
  BY <1>1, IdleEngineKeepsUp
<1>3. Moves(c) /\ call'[c].stage \in {"idle", "start"}
  <2>1. CASE Fail(c, "invalid")
    BY <2>1, <1>1, <1>2, FailedCallMoves DEF Answers
  <2>2. CASE JobEnds(c)
    BY <2>2, <1>1, <1>2, EndedJobMoves
  <2> QED
    BY <1>1, <2>1, <2>2
<1> QED
  BY <1>1, <1>3, ReleaseKeeps
\* The first close marks the engine closed, cancels the scan and keeps the
\* lock; a later one finds it closed.
LEMMA CloseBeginsKeeps ==
  ASSUME IInv, NEW c \in Caller, CloseBegins(c)
  PROVE  IInv'
<1>1. /\ ~Idle(c) /\ call[c].stage = "act" /\ Head(call[c].jobs) = "close" /\ startup_lock = NoOne
      /\ UNCHANGED <<revision, started, readers>>
  BY DEF CloseBegins, At, Idle
<1>2. CASE closed
  <2>1. JobEnds(c) /\ UNCHANGED <<revision, engine>>
    BY <1>1, <1>2 DEF CloseBegins, engine
  <2>2. Moves(c) /\ call'[c].stage \in {"idle", "start"}
    BY <2>1, <1>1, IdleEngineKeepsUp, EndedJobMoves DEF engine
  <2> QED
    BY <1>1, <2>1, <2>2, QuietStepKeeps
<1>3. CASE ~closed
  <2>1. /\ closed' = TRUE /\ startup_lock' = c
        /\ picker' = [picker EXCEPT !.scan = Nothing]
        /\ Goto(c, "drain") /\ UNCHANGED <<answer, indexed_revision, settled>>
    BY <1>3 DEF CloseBegins
  <2>2. picker \in Pickers /\ revision \in Nat /\ (~started => picker = NoPicker)
    BY DEF IInv, Types, IndexIsFresh
  <2>3. /\ picker' \in Pickers /\ picker'.scan = 0 /\ picker'.indexed = picker.indexed
        /\ picker'.present = picker.present
    BY <2>1, <2>2 DEF Pickers, Nothing
  <2>4. IndexKeepsUp /\ (~started' => picker' = NoPicker)
    <3>1. picker.indexed \in Nat
      BY <2>2 DEF Pickers
    <3>2. ~started => picker' = NoPicker
      <4> SUFFICES ASSUME picker = NoPicker PROVE picker' = NoPicker
        BY <2>2, <1>1
      <4>1. picker' = [indexed |-> picker.indexed, scan |-> Nothing, present |-> picker.present]
        BY <2>1, <2>2 DEF Pickers
      <4> QED
        BY <4>1 DEF NoPicker
    <3> QED
      BY <3>1, <3>2, <2>1, <2>2, <2>3, <1>1 DEF IndexKeepsUp
  <2>5. Moves(c) /\ call'[c].stage = "drain"
    BY <1>1, <2>1, <2>4, StageMoves DEF StagesOf
  <2>6. ReadersSearch'
    <3>1. \A d \in Caller : call'[d].stage = "search" <=> call[d].stage = "search"
      BY <1>1, <2>5 DEF Moves
    <3> QED
      BY <3>1, <1>1, <2>3 DEF IInv, ReadersSearch
  <2>7. LockIsTheClosers'
    <3>1. \A d \in Caller : call'[d].stage = "drain" <=> d = c
      BY <1>1, <2>5, FffAssumption DEF Moves, IInv, LockIsTheClosers
    <3> QED
      BY <3>1, <2>1, <2>3, FffAssumption DEF LockIsTheClosers, Nothing
  <2>8. Types'
    BY <1>1, <2>1, <2>3, <2>5 DEF IInv, Types, Moves
  <2> QED
    BY <1>1, <2>2, <2>3, <2>4, <2>5, <2>6, <2>7, <2>8, StepKeeps
<1> QED
  BY <1>2, <1>3

\* The closer takes the picker once nobody searches it, and lets go.
LEMMA CloseEndsKeeps ==
  ASSUME IInv, NEW c \in Caller, CloseEnds(c)
  PROVE  IInv'
<1>1. /\ ~Idle(c) /\ call[c].stage = "drain" /\ Head(call[c].jobs) = "close"
      /\ readers = {} /\ picker' = NoPicker /\ startup_lock' = NoOne
      /\ JobEnds(c)
      /\ UNCHANGED <<revision, started, closed, readers>>
  BY DEF CloseEnds, At, Idle
<1>2. closed /\ startup_lock = c /\ revision \in Nat
  BY <1>1, FffAssumption DEF IInv, LockIsTheClosers, Types
<1>3. picker' \in Pickers /\ picker'.scan = 0 /\ ~picker'.present
  BY <1>1 DEF Pickers, NoPicker, Nothing
<1>4. IndexKeepsUp
  BY <1>1, <1>2, <1>3 DEF IndexKeepsUp
<1>5. Moves(c) /\ call'[c].stage \in {"idle", "start"}
  BY <1>1, <1>4, EndedJobMoves
<1>6. ReadersSearch'
  <2>1. \A d \in Caller : call'[d].stage = "search" <=> call[d].stage = "search"
    BY <1>1, <1>5 DEF Moves
  <2> QED
    BY <2>1, <1>1 DEF IInv, ReadersSearch
<1>7. LockIsTheClosers'
  <2>1. \A d \in Caller : call'[d].stage # "drain"
    BY <1>2, <1>5 DEF Moves, IInv, LockIsTheClosers
  <2> QED
    BY <2>1, <1>1, <1>2, <1>3, FffAssumption DEF LockIsTheClosers, Nothing
<1>8. Types'
  BY <1>1, <1>3, <1>5 DEF IInv, Types, Moves
<1> QED
  BY <1>1, <1>2, <1>3, <1>4, <1>5, <1>6, <1>7, <1>8, StepKeeps

\* What happens to the index while every call stands where it is
LEMMA IndexStepKeeps ==
  ASSUME IInv, IndexKeepsUp,
         UNCHANGED <<revision, started, closed, startup_lock, readers, indexed_revision, call, answer, settled>>,
         picker'.scan <= revision', picker'.present = picker.present,
         closed => picker'.scan = Nothing, ~started => picker' = NoPicker
  PROVE  IInv'
<1>1. Types'
  BY DEF IInv, Types, IndexKeepsUp
<1>2. settled \in Nat /\ settled' <= settled
  BY DEF IInv, Types
<1>3. \A d \in Caller : CallFits(d)' /\ CallIsFresh(d)'
  BY <1>1, <1>2, OthersAreFine
<1>4. LockIsTheClosers' /\ ReadersSearch'
  BY DEF IInv, LockIsTheClosers, ReadersSearch
<1>5. IndexIsFresh'
  <2>1. closed \/ Reflects(settled) => closed' \/ WillReflect(settled')
    BY <1>2 DEF IndexKeepsUp
  <2> QED
    BY <2>1 DEF IInv, IndexIsFresh, Reflects, WillReflect
<1> QED
  BY <1>1, <1>3, <1>4, <1>5 DEF IInv

\* A scan ends and the index shows what the scan was asked for.
LEMMA ScanEndsKeeps == ASSUME IInv, ScanEnds PROVE IInv'
<1>1. /\ picker.scan # Nothing
      /\ UNCHANGED <<revision, started, closed, startup_lock, readers, indexed_revision, call, answer, settled>>
  BY DEF ScanEnds
<1>2. PICK fresh \in picker.scan .. revision :
        picker' = [picker EXCEPT !.scan = Nothing, !.indexed = IF fresh > @ THEN fresh ELSE @]
  BY DEF ScanEnds
<1>3. picker \in Pickers /\ revision \in Nat /\ picker.scan \in Nat /\ picker.indexed \in Nat
  BY DEF IInv, Types, Pickers
<1>4. fresh \in Nat /\ picker.scan <= fresh
  BY <1>3
<1>5. /\ picker' \in Pickers /\ picker'.scan = 0 /\ picker'.present = picker.present
      /\ picker'.indexed = IF fresh > picker.indexed THEN fresh ELSE picker.indexed
  BY <1>2, <1>3, <1>4 DEF Pickers, Nothing
<1>6. \A change \in Nat : Reflects(change) => WillReflect(change)
  BY <1>3, <1>4, <1>5 DEF Reflects, WillReflect
<1>7. picker.indexed <= picker'.indexed
  BY <1>3, <1>4, <1>5
<1>8. IndexKeepsUp
  BY <1>1, <1>3, <1>5, <1>6, <1>7 DEF IndexKeepsUp
<1>9. started
  BY <1>1 DEF IInv, IndexIsFresh, NoPicker
<1> QED
  BY <1>1, <1>3, <1>5, <1>8, <1>9, IndexStepKeeps DEF Nothing

\* The watcher brings the index one change further.
LEMMA WatcherNoticesKeeps == ASSUME IInv, WatcherNotices PROVE IInv'
<1>1. /\ picker.present /\ ~closed
      /\ picker' = [picker EXCEPT !.indexed = @ + 1]
      /\ UNCHANGED <<revision, started, closed, startup_lock, readers, indexed_revision, call, answer, settled>>
  BY DEF WatcherNotices
<1>2. /\ picker \in Pickers /\ revision \in Nat
      /\ picker.scan \in Nat /\ picker.indexed \in Nat /\ picker.scan <= revision
  BY DEF IInv, Types, Pickers, IndexIsFresh
<1>3. /\ picker' \in Pickers /\ picker'.scan = picker.scan /\ picker'.present = picker.present
      /\ picker'.indexed = picker.indexed + 1
  <2>1. picker.indexed + 1 \in Nat
    BY <1>2
  <2> QED
    BY <2>1, <1>1, <1>2 DEF Pickers
<1>4. IndexKeepsUp
  BY <1>1, <1>2, <1>3 DEF IndexKeepsUp, Reflects, WillReflect
<1>5. started
  BY <1>1 DEF IInv, IndexIsFresh, NoPicker
<1> QED
  BY <1>1, <1>2, <1>3, <1>4, <1>5, IndexStepKeeps

\* A change leaves the engine behind; it is settled when no call is under way.
LEMMA ChangeKeeps == ASSUME IInv, Change PROVE IInv'
<1>1. /\ revision' = revision + 1
      /\ settled' = IF indexed_revision # Nothing /\ \A c \in Caller : Idle(c)
                    THEN revision + 1 ELSE settled
      /\ UNCHANGED <<picker, started, closed, startup_lock, readers, indexed_revision, call, answer>>
  BY DEF Change, engine
<1>2. /\ revision \in Nat \ {0} /\ settled \in Nat /\ indexed_revision \in Nat
      /\ picker \in Pickers /\ picker.scan \in Nat /\ picker.scan <= revision
      /\ indexed_revision <= revision /\ settled <= revision
      /\ ~started => picker = NoPicker
      /\ indexed_revision = Nothing => settled = Nothing
  BY DEF IInv, Types, Pickers, IndexIsFresh
<1>3. Types'
  <2>1. revision' \in Nat \ {0} /\ settled' \in Nat
    BY <1>1, <1>2
  <2> QED
    BY <1>1, <2>1 DEF IInv, Types
<1>4. IndexIsFresh'
  <2>1. indexed_revision' <= revision' /\ settled' <= revision' /\ indexed_revision' # revision'
        /\ picker'.scan <= revision'
    BY <1>1, <1>2
  <2>2. indexed_revision' = Nothing => settled' = Nothing
    BY <1>1, <1>2
  <2> QED
    BY <2>1, <2>2, <1>1, <1>2 DEF IndexIsFresh
<1>5. LockIsTheClosers' /\ ReadersSearch'
  BY <1>1 DEF IInv, LockIsTheClosers, ReadersSearch
<1>6. \A d \in Caller : CallFits(d)' /\ CallIsFresh(d)'
  <2> TAKE d \in Caller
  <2>1. CASE \A c \in Caller : Idle(c)
    <3>1. CallFits(d)' /\ call'[d].op = "none"
      BY <2>1, <1>1 DEF IInv, CallFits, Idle
    <3> QED
      BY <3>1 DEF CallIsFresh, Searches
  <2>2. CASE ~\A c \in Caller : Idle(c)
    <3>1. settled' <= settled
      BY <2>2, <1>1, <1>2
    <3>2. IndexKeepsUp
      <4>1. picker.indexed \in Nat
        BY <1>2 DEF Pickers
      <4> QED
        BY <4>1, <1>1, <1>2 DEF IndexKeepsUp, Reflects, WillReflect
    <3> QED
      BY <3>1, <3>2, <1>1, <1>3, OthersAreFine
  <2> QED
    BY <2>1, <2>2
<1> QED
  BY <1>3, <1>4, <1>5, <1>6 DEF IInv

\* A step in which nothing happens
LEMMA StutterKeeps == ASSUME IInv, UNCHANGED vars PROVE IInv'
<1> QED
  BY DEF vars, engine, IInv, Types, CallFits, CallIsFresh, Idle, LockIsTheClosers, ReadersSearch,
         IndexIsFresh, Reflects

-----------------------------------------------------------------------------
(* The theorems *)

\* Every step of every caller, of the scan, the watcher and the workspace
LEMMA NextKeeps == ASSUME IInv, [Next]_vars PROVE IInv'
<1>1. CASE UNCHANGED vars
  BY <1>1, StutterKeeps
<1>2. ASSUME NEW c \in Caller, Native(c)
      PROVE  IInv'
  BY <1>2, StartKeeps, StartFailsKeeps, WaitEndsKeeps, CheckKeeps, TriggerKeeps,
     TriggeredKeeps, RefuseKeeps, SearchKeeps, FallBackKeeps, SearchEndsKeeps,
     CloseBeginsKeeps, CloseEndsKeeps DEF Native
<1>3. CASE Next
  BY <1>2, <1>3, BeginKeeps, CancelKeeps, ScanEndsKeeps, WatcherNoticesKeeps, ChangeKeeps DEF Next
<1> QED
  BY <1>1, <1>3

\* The invariant holds in every reachable state, whatever the callers do and
\* however many changes the workspace sees.
THEOREM InvariantHolds == Spec => []IInv
<1> QED
  BY InitIInv, NextKeeps, PTL DEF Spec

\* FffEngine.close: once it has returned nothing searches the index, nothing
\* scans and no start under way brings the picker back, for any callers.
THEOREM ClosedEngineStaysClosed == Spec => []ClosedEngineLetsGo
<1>1. IInv => ClosedEngineLetsGo
  <2> SUFFICES ASSUME IInv PROVE ClosedEngineLetsGo
    OBVIOUS
  <2>1. readers # {} => picker.present
    BY DEF IInv, ReadersSearch
  <2> QED
    BY <2>1 DEF ClosedEngineLetsGo, IInv, LockIsTheClosers
<1> QED
  BY <1>1, InvariantHolds, PTL

\* FffEngine._refresh_if_stale: a search that answers shows every change that
\* was made while no call was under way and, after a rescan, every change made
\* before it began, for any callers and any number of changes.
THEOREM SearchesAreFresh == Spec => SearchesShowSettledChanges
<1> DEFINE Fresh == \A c \in Caller :
             call[c].stage = "search" /\ answer'[c] = "ok" => call[c].saw >= call[c].must
<1>1. IInv => Fresh
  <2> SUFFICES ASSUME IInv, NEW c \in Caller, call[c].stage = "search"
               PROVE  call[c].saw >= call[c].must
    OBVIOUS
  <2>1. ~Idle(c) /\ call[c] \in Calls /\ CallIsFresh(c)
    BY DEF Idle, IInv, Types
  <2>2. call[c].op \in Searches
    BY <2>1, JobAtHand DEF StagesOf, Waits, Searches
  <2>3. call[c].must <= call[c].saw
    BY <2>1, <2>2 DEF CallIsFresh
  <2> QED
    BY <2>1, <2>3 DEF Calls
<1>2. IInv /\ [Next]_vars => [Fresh]_vars
  BY <1>1
<1> QED
  BY <1>2, InvariantHolds, PTL DEF Spec, SearchesShowSettledChanges
=============================================================================
