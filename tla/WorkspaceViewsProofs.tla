------------------------- MODULE WorkspaceViewsProofs -------------------------
(***************************************************************************)
(* Theorems about the views of a session, for any callers and any number   *)
(* of views, changes and proposals.  Whoever holds the finder's lock is    *)
(* the only one that can hold an engine the provider does not show, so a   *)
(* search has either the provider's engine or one that is being closed.    *)
(***************************************************************************)
EXTENDS WorkspaceViews, TLAPS

Operations == {"none", "start", "close", "session_close", "search", "preview", "apply"}
AllStages == {"idle", "lock", "close_lock", "opening", "asking", "validate", "restart", "closing",
              "take", "enter", "search", "acquire", "match", "store", "read", "patch"}

\* The stages of an operation
StagesOf(op) ==
  CASE op = "none" -> {"idle"}
    [] op = "start" -> {"lock", "opening", "asking", "validate", "restart"}
    [] op = "close" -> {"lock", "closing"}
    [] op = "session_close" -> {"close_lock", "lock", "closing"}
    [] op = "search" -> {"take", "asking", "validate", "enter", "search"}
    [] op = "preview" -> {"acquire", "match", "store"}
    [] op = "apply" -> {"take", "acquire", "read", "patch"}

-----------------------------------------------------------------------------
(* The inductive invariant *)

Proposals == [id : Nat, revision : Nat, source : Nat, expired : BOOLEAN]
Engines == [revision : Nat, open : BOOLEAN, held : BOOLEAN]
Calls == [op : Operations, stage : AllStages, engine : Nat, asked : Nat,
          since : Nat, proposal : Proposals]

Types ==
  /\ revision \in Nat \ {0} /\ source \in Nat
  /\ session \in [closed : BOOLEAN, lock : Caller \cup {NoOne}]
  /\ lifecycle_lock \in Caller \cup {NoOne}
  /\ provider \in [engine : Nat, revision : Nat]
  /\ engines \in Seq(Engines)
  /\ proposals \subseteq Proposals /\ previews \in Nat
  /\ viewing \subseteq Caller
  /\ call \in [Caller -> Calls]
  /\ overtaken \in BOOLEAN

Opening(c) == At(c, {"start"}, "opening")
Closing(c) == call[c].stage = "closing"
Starting(c) == call[c].op = "start" /\ call[c].stage # "lock"
Viewing(c) == At(c, {"preview"}, "match") \/ At(c, {"apply"}, "read") \/ At(c, {"apply"}, "patch")
Searching(c) == call[c].op = "search" /\ call[c].stage # "take"

\* The locks and the views a call holds are those its stage says.
CallHolds(c) ==
  /\ call[c].stage \in StagesOf(call[c].op)
  /\ lifecycle_lock = c <=> Starting(c) \/ Closing(c)
  /\ session.lock = c <=> call[c].op = "session_close" /\ call[c].stage \in {"lock", "closing"}
  /\ c \in viewing <=> Viewing(c)

\* The engine a call is about is there; while a start opens it, or a close
\* still has it, its view is held, and so it is while it is searched.
CallHasItsEngine(c) ==
  LET n == call[c].engine
  IN /\ Opening(c) => provider.engine = 0 /\ n \in DOMAIN engines /\ engines[n].open /\ engines[n].held
     /\ Closing(c) => provider.engine = 0 /\ (n # 0 => n \in DOMAIN engines /\ engines[n].held)
     /\ Searching(c) => n \in DOMAIN engines
     /\ call[c].op = "apply" => n = 0

\* What a call has seen was current in the course of it: the revision it was
\* told, which becomes that of the engine it reads, and that of the proposal.
CallIsFresh(c) ==
  LET n == call[c].engine
      now == call[c].asked
  IN ~Idle(c) =>
     /\ 1 <= call[c].since /\ call[c].since <= revision
     /\ call[c].stage \in {"validate", "enter", "search"} => call[c].since <= now /\ now <= revision
     /\ call[c].stage = "enter" /\ engines[n].open => engines[n].revision = now
     /\ call[c].stage = "search" => engines[n].revision = now /\ engines[n].held
     /\ call[c].op = "apply" /\ call[c].stage \in {"read", "patch"} =>
          call[c].since <= call[c].proposal.revision /\ call[c].proposal.revision <= revision

CallStands(c) == CallHolds(c) /\ CallHasItsEngine(c) /\ CallIsFresh(c)

\* The provider shows an open engine whose view is held; any other view is
\* that of the call that opens or closes its engine.
ProviderStands ==
  IF provider.engine = 0 THEN provider.revision = 0
  ELSE /\ provider.engine \in DOMAIN engines
       /\ engines[provider.engine].open /\ engines[provider.engine].held
       /\ engines[provider.engine].revision = provider.revision

EnginesStand ==
  \A n \in DOMAIN engines :
    /\ engines[n].open => engines[n].held
    /\ engines[n].held =>
         provider.engine = n \/ \E c \in Caller : call[c].engine = n /\ (Opening(c) \/ Closing(c))

\* Nobody searches an engine that was not shown yet.
SearchesStayApart ==
  \A c, d \in Caller : Opening(c) /\ Searching(d) => call[c].engine # call[d].engine

\* A closed session is being closed, or has no engine and gets none.
ClosedStaysEmpty ==
  session.closed /\ ~overtaken =>
    \/ \E c \in Caller : At(c, {"session_close"}, "lock")
    \/ provider.engine = 0 /\ \A c \in Caller : call[c].op # "start"

IInv ==
  /\ Types
  /\ \A c \in Caller : CallStands(c)
  /\ ProviderStands
  /\ EnginesStand
  /\ SearchesStayApart
  /\ ClosedStaysEmpty
  /\ session.lock # NoOne => session.closed

-----------------------------------------------------------------------------
(* What the steps share *)

\* What a step of others leaves to a call: what it holds, the engine it
\* opens or closes, and the view it searches.
Spares(d) ==
  /\ revision <= revision'
  /\ lifecycle_lock' = d <=> lifecycle_lock = d
  /\ session'.lock = d <=> session.lock = d
  /\ d \in viewing' <=> d \in viewing
  /\ call'[d] = call[d]
  /\ DOMAIN engines \subseteq DOMAIN engines'
  /\ \A n \in DOMAIN engines :
       /\ engines'[n].revision = engines[n].revision
       /\ engines'[n].open => engines[n].open
       /\ Searched(n) /\ engines[n].held => engines'[n].held
  /\ lifecycle_lock = d => provider' = provider /\ engines' = engines

\* A step of a call that goes on to open, or to close, the engine it did
LeavesEngines(d) ==
  /\ Opening(d)' <=> Opening(d)
  /\ Closing(d)' <=> Closing(d)
  /\ Opening(d) \/ Closing(d) => call'[d].engine = call[d].engine
  /\ Searching(d)' => \/ Searching(d) /\ call'[d].engine = call[d].engine
                      \/ call'[d].engine = provider.engine /\ provider.engine # 0

\* The same, if it also does nothing about the closing of the session
Calm(d) ==
  /\ LeavesEngines(d)
  /\ At(d, {"session_close"}, "lock") => At(d, {"session_close"}, "lock")'
  /\ call'[d].op = "start" => call[d].op = "start" \/ ~session.closed \/ overtaken'

\* A step of a call that touches neither the engines nor the session, and
\* of the lock and the views only its own
Quiet(c) ==
  /\ UNCHANGED <<session, provider, engines>>
  /\ overtaken' \in BOOLEAN /\ (overtaken => overtaken')
  /\ revision' \in Nat /\ revision <= revision' /\ source' \in Nat
  /\ proposals' \subseteq Proposals /\ previews' \in Nat
  /\ viewing' \subseteq Caller /\ lifecycle_lock' \in Caller \cup {NoOne}
  /\ \A d \in Caller : d # c => (lifecycle_lock' = d <=> lifecycle_lock = d)
  /\ \A d \in Caller : d # c => (d \in viewing' <=> d \in viewing)

\* The call that another step spares stands as before.
LEMMA OthersStand ==
  ASSUME IInv, Types', NEW d \in Caller, Spares(d)
  PROVE  CallStands(d)'
<1>1. /\ CallHolds(d) /\ CallHasItsEngine(d) /\ CallIsFresh(d) /\ call[d] \in Calls
      /\ call'[d] = call[d]
  BY DEF IInv, Types, CallStands, Spares
<1>2. CallHolds(d)'
  BY <1>1 DEF CallHolds, Starting, Closing, Viewing, At, Spares
<1>3. CallHasItsEngine(d)'
  <2>1. Opening(d) \/ Closing(d) => provider' = provider /\ engines' = engines
    BY <1>1 DEF CallHolds, Opening, Closing, Starting, At, Spares
  <2>2. DOMAIN engines \subseteq DOMAIN engines'
    BY DEF Spares
  <2> QED
    BY <1>1, <2>1, <2>2 DEF CallHasItsEngine, Opening, Closing, Searching, At
<1>4. CallIsFresh(d)'
  <2> SUFFICES ASSUME ~Idle(d)
               PROVE  CallIsFresh(d)'
    BY <1>1 DEF CallIsFresh, Idle
  <2> DEFINE n == call[d].engine
  <2>n. /\ call[d].since \in Nat /\ call[d].asked \in Nat /\ call[d].proposal.revision \in Nat
        /\ revision \in Nat /\ revision' \in Nat /\ revision <= revision'
    BY <1>1 DEF Calls, Proposals, IInv, Types, Spares
  <2>1. /\ 1 <= call[d].since /\ call[d].since <= revision'
        /\ call[d].stage \in {"validate", "enter", "search"} =>
             call[d].since <= call[d].asked /\ call[d].asked <= revision'
        /\ call[d].op = "apply" /\ call[d].stage \in {"read", "patch"} =>
             call[d].since <= call[d].proposal.revision /\ call[d].proposal.revision <= revision'
    BY <1>1, <2>n DEF CallIsFresh
  <2>2. ASSUME call[d].stage \in {"enter", "search"}
        PROVE  n \in DOMAIN engines /\ (call[d].stage = "search" => Searched(n))
    BY <1>1, <2>2 DEF CallHolds, StagesOf, CallHasItsEngine, Searching, Searched, At, Calls, Operations
  <2>3. ASSUME call[d].stage = "enter", engines'[n].open
        PROVE  engines'[n].revision = call[d].asked
    BY <1>1, <2>2, <2>3 DEF CallIsFresh, Spares
  <2>4. ASSUME call[d].stage = "search"
        PROVE  engines'[n].revision = call[d].asked /\ engines'[n].held
    BY <1>1, <2>2, <2>4 DEF CallIsFresh, Spares
  <2> QED
    BY <1>1, <2>1, <2>3, <2>4 DEF CallIsFresh
<1> QED
  BY <1>2, <1>3, <1>4 DEF CallStands

\* Steps that leave the engines alone keep what is shared of them.
LEMMA EnginesStayAsTheyStand ==
  ASSUME IInv, UNCHANGED <<provider, engines>>, \A d \in Caller : LeavesEngines(d)
  PROVE  ProviderStands' /\ EnginesStand' /\ SearchesStayApart'
<1>1. ProviderStands'
  BY DEF IInv, ProviderStands
<1>2. EnginesStand'
  <2> SUFFICES ASSUME NEW n \in DOMAIN engines, engines[n].held, provider.engine # n
               PROVE  \E c \in Caller : call'[c].engine = n /\ (Opening(c)' \/ Closing(c)')
    BY DEF IInv, EnginesStand
  <2>1. PICK c \in Caller : call[c].engine = n /\ (Opening(c) \/ Closing(c))
    BY DEF IInv, EnginesStand
  <2> QED
    BY <2>1 DEF LeavesEngines
<1>3. SearchesStayApart'
  <2> SUFFICES ASSUME NEW c \in Caller, NEW d \in Caller, Opening(c)', Searching(d)'
               PROVE  call'[c].engine # call'[d].engine
    BY DEF SearchesStayApart
  <2>1. Opening(c) /\ call'[c].engine = call[c].engine /\ provider.engine = 0
    BY DEF LeavesEngines, IInv, CallStands, CallHasItsEngine
  <2>2. Searching(d) /\ call'[d].engine = call[d].engine
    BY <2>1 DEF LeavesEngines
  <2> QED
    BY <2>1, <2>2 DEF IInv, SearchesStayApart
<1> QED
  BY <1>1, <1>2, <1>3

\* Calm steps that leave the session alone too keep it empty once closed.
LEMMA CalmStepsKeep ==
  ASSUME IInv, UNCHANGED <<session, provider, engines>>, overtaken => overtaken',
         \A d \in Caller : Calm(d)
  PROVE  /\ ProviderStands' /\ EnginesStand' /\ SearchesStayApart' /\ ClosedStaysEmpty'
         /\ session'.lock # NoOne => session'.closed
<1>1. ClosedStaysEmpty'
  <2> SUFFICES ASSUME session.closed, ~overtaken, ~overtaken'
               PROVE  \/ \E c \in Caller : At(c, {"session_close"}, "lock")'
                      \/ provider.engine = 0 /\ \A c \in Caller : call'[c].op # "start"
    BY DEF ClosedStaysEmpty
  <2>1. CASE \E c \in Caller : At(c, {"session_close"}, "lock")
    BY <2>1 DEF Calm
  <2>2. CASE provider.engine = 0 /\ \A c \in Caller : call[c].op # "start"
    BY <2>2 DEF Calm
  <2> QED
    BY <2>1, <2>2 DEF IInv, ClosedStaysEmpty
<1>2. \A d \in Caller : LeavesEngines(d)
  BY DEF Calm
<1> QED
  BY <1>1, <1>2, EnginesStayAsTheyStand DEF IInv

\* A calm step of a call, from how the call itself stands after it
LEMMA QuietStepKeeps ==
  ASSUME IInv, NEW c \in Caller, NEW now \in Calls, call' = [call EXCEPT ![c] = now],
         Quiet(c),
         Calm(c), CallStands(c)'
  PROVE  IInv'
<1>1. call' \in [Caller -> Calls] /\ \A d \in Caller : d # c => call'[d] = call[d]
  BY DEF IInv, Types
<1>2. revision \in Nat /\ revision # 0
  BY DEF IInv, Types
<1>3. Types'
  BY <1>1, <1>2 DEF IInv, Types, Quiet
<1>4. \A d \in Caller : CallStands(d)'
  <2> SUFFICES ASSUME NEW d \in Caller, d # c
               PROVE  CallStands(d)'
    OBVIOUS
  <2>1. Spares(d)
    BY <1>1 DEF Spares, Quiet
  <2> QED
    BY <2>1, <1>3, OthersStand
<1>5. \A d \in Caller : Calm(d)
  <2> SUFFICES ASSUME NEW d \in Caller, d # c
               PROVE  Calm(d)
    OBVIOUS
  <2> QED
    BY <1>1 DEF Calm, LeavesEngines, Opening, Closing, Searching, At
<1> QED
  BY <1>3, <1>4, <1>5, CalmStepsKeep DEF IInv, Quiet

\* What a call is before it asks for anything
LEMMA NoCallIsACall ==
  /\ NoProposal \in Proposals /\ NoCall \in Calls
  /\ NoCall.op = "none" /\ NoCall.stage = "idle" /\ NoCall.engine = 0
BY DEF NoProposal, NoCall, Proposals, Calls, Operations, AllStages

\* A call that is over holds nothing.
LEMMA EndedCallKeeps ==
  ASSUME IInv, NEW c \in Caller, call' = [call EXCEPT ![c] = NoCall],
         Quiet(c),
         lifecycle_lock' # c, c \notin viewing',
         ~Opening(c), ~Closing(c), ~At(c, {"session_close"}, "lock")
  PROVE  IInv'
<1>1. call \in [Caller -> Calls] /\ CallHolds(c)
  BY DEF IInv, Types, CallStands
<1>2. call'[c] = NoCall
  BY <1>1
<1>3. CallStands(c)'
  <2>1. session.lock # c
    BY <1>1 DEF CallHolds, At, Closing
  <2> QED
    BY <1>2, <2>1, NoCallIsACall DEF Quiet, CallStands, CallHolds, CallHasItsEngine, CallIsFresh, Idle,
         Opening, Closing, Starting, Searching, Viewing, At, StagesOf
<1>4. Calm(c)
  BY <1>2, NoCallIsACall DEF Calm, LeavesEngines, Opening, Closing, Searching, At
<1> QED
  BY <1>3, <1>4, QuietStepKeeps, NoCallIsACall

\* The sets that give the variables their types, without those of engines
LEMMA TypesAtHand ==
  ASSUME IInv, NEW c \in Caller
  PROVE  /\ call \in [Caller -> Calls] /\ call[c] \in Calls /\ call[c].proposal \in Proposals
         /\ revision \in Nat /\ 1 <= revision /\ source \in Nat /\ previews \in Nat
         /\ proposals \subseteq Proposals /\ viewing \subseteq Caller
         /\ lifecycle_lock \in Caller \cup {NoOne} /\ NoOne \notin Caller
         /\ call[c].stage \in StagesOf(call[c].op)
         /\ call[c].engine \in Nat /\ call[c].asked \in Nat /\ call[c].since \in Nat
         /\ call[c].op \in Operations /\ call[c].stage \in AllStages
         /\ overtaken \in BOOLEAN
<1>1. call \in [Caller -> Calls] /\ call[c] \in Calls
  BY DEF IInv, Types
<1>2. /\ call[c].proposal \in Proposals
      /\ call[c].engine \in Nat /\ call[c].asked \in Nat /\ call[c].since \in Nat
      /\ call[c].op \in Operations /\ call[c].stage \in AllStages
  BY <1>1 DEF Calls
<1>3. /\ revision \in Nat /\ 1 <= revision /\ source \in Nat /\ previews \in Nat
      /\ proposals \subseteq Proposals /\ viewing \subseteq Caller
      /\ lifecycle_lock \in Caller \cup {NoOne} /\ NoOne \notin Caller
      /\ overtaken \in BOOLEAN
  BY ViewsAssumption DEF IInv, Types
<1>4. call[c].stage \in StagesOf(call[c].op)
  BY DEF IInv, CallStands, CallHolds
<1> QED
  BY <1>1, <1>2, <1>3, <1>4

-----------------------------------------------------------------------------
(* The steps of every call *)

\* A call that begins has seen nothing yet.
LEMMA BeginKeeps ==
  ASSUME IInv, NEW c \in Caller, Begins(c)
  PROVE  IInv'
<1>1. PICK op \in Operations \ {"none"}, stage \in {"lock", "close_lock", "take", "acquire"} :
        /\ Begin(c, op, stage) /\ stage \in StagesOf(op)
        /\ op \in {"preview"} => stage = "acquire"
        /\ op = "session_close" => stage = "close_lock"
        /\ op = "start" => stage = "lock"
        /\ op = "search" => stage = "take"
        /\ op = "apply" => stage = "take"
  BY DEF Begins, Operations, StagesOf
<1> DEFINE now == [NoCall EXCEPT !.op = op, !.stage = stage, !.since = revision]
<1>2. /\ call' = [call EXCEPT ![c] = now]
      /\ Idle(c) /\ overtaken' = (overtaken \/ (op = "start" /\ session.closed))
      /\ UNCHANGED <<revision, session, fff, ast>>
  BY <1>1 DEF Begin
<1>3. /\ now \in Calls /\ now.op = op /\ now.stage = stage /\ now.engine = 0 /\ now.since = revision
  BY NoCallIsACall, TypesAtHand DEF NoCall, Calls, Operations, AllStages
<1> HIDE DEF now
<1>4. call'[c] = now /\ call[c].stage = "idle" /\ CallHolds(c)
  BY <1>2, TypesAtHand DEF Idle, IInv, CallStands
<1>5. ~Starting(c) /\ ~Closing(c) /\ ~Viewing(c) /\ session.lock # c
  <2>1. call[c].op = "none"
    BY <1>4, TypesAtHand DEF StagesOf, Operations
  <2> QED
    BY <1>4, <2>1 DEF CallHolds, Starting, Closing, Viewing, At
<1>6. CallHolds(c)'
  BY <1>1, <1>2, <1>3, <1>4, <1>5 DEF CallHolds, Starting, Closing, Viewing, At, fff, ast
<1>7. CallHasItsEngine(c)' /\ CallIsFresh(c)'
  BY <1>1, <1>2, <1>3, <1>4, TypesAtHand DEF CallHasItsEngine, CallIsFresh, Opening, Closing, Searching, Idle, At
<1>8. Calm(c)
  BY <1>1, <1>2, <1>3, <1>4 DEF Calm, LeavesEngines, Opening, Closing, Searching, At
<1> QED
  <2>1. CallStands(c)'
    BY <1>6, <1>7 DEF CallStands
  <2>2. Quiet(c)
    BY <1>2, TypesAtHand DEF Quiet, fff, ast
  <2> QED
    BY <1>2, <1>3, <1>8, <2>1, <2>2, QuietStepKeeps

\* A start that is refused under the lock leaves it.
LEMMA StartIsRefusedKeeps ==
  ASSUME IInv, NEW c \in Caller, StartIsRefused(c)
  PROVE  IInv'
<1>1. c \notin viewing
  BY DEF IInv, CallStands, CallHolds, Viewing, StartIsRefused, At
<1>2. Quiet(c) /\ call' = [call EXCEPT ![c] = NoCall] /\ lifecycle_lock' # c /\ c \notin viewing'
  BY <1>1, TypesAtHand DEF StartIsRefused, Return, ReturnNaming, Quiet, fff, ast
<1> QED
  BY <1>2, EndedCallKeeps DEF StartIsRefused, Opening, Closing, At

\* A start that is answered gives the lock back.
LEMMA StartReturnsKeeps ==
  ASSUME IInv, NEW c \in Caller, NEW result, StartReturns(c, result)
  PROVE  IInv'
<1>1. c \notin viewing /\ lifecycle_lock = c
  BY DEF IInv, CallStands, CallHolds, Viewing, Starting, StartReturns, At
<1>2. Quiet(c) /\ call' = [call EXCEPT ![c] = NoCall] /\ lifecycle_lock' # c /\ c \notin viewing'
  BY <1>1, TypesAtHand DEF StartReturns, Return, ReturnNaming, Quiet, fff, ast
<1> QED
  BY <1>2, EndedCallKeeps DEF StartReturns, Opening, Closing, At

\* A search takes the engine the provider shows.
LEMMA SearchBeginsKeeps ==
  ASSUME IInv, NEW c \in Caller, SearchBegins(c)
  PROVE  IInv'
<1>1. /\ At(c, {"search"}, "take") /\ UNCHANGED <<revision, session, fff, ast, overtaken>>
      /\ CallHolds(c) /\ CallIsFresh(c)
  BY DEF SearchBegins, IInv, CallStands
<1>2. c \notin viewing /\ lifecycle_lock # c /\ session.lock # c
  BY <1>1 DEF CallHolds, Starting, Closing, Viewing, At
<1>q. Quiet(c) /\ lifecycle_lock' # c /\ c \notin viewing'
  BY <1>1, <1>2, TypesAtHand DEF Quiet, fff, ast
<1>3. CASE provider.engine = 0
  <2>1. call' = [call EXCEPT ![c] = NoCall]
    BY <1>3 DEF SearchBegins, Return, ReturnNaming
  <2> QED
    BY <1>1, <1>q, <2>1, EndedCallKeeps DEF Opening, Closing, At
<1>4. CASE provider.engine # 0
  <2> DEFINE now == [call[c] EXCEPT !.engine = provider.engine, !.stage = "asking"]
  <2>1. call' = [call EXCEPT ![c] = now]
    BY <1>4, TypesAtHand DEF SearchBegins
  <2>2. /\ now \in Calls /\ now.op = "search" /\ now.stage = "asking"
        /\ now.engine = provider.engine /\ now.since = call[c].since
    BY <1>1, TypesAtHand DEF Calls, AllStages, At, IInv, Types
  <2> HIDE DEF now
  <2>3. call'[c] = now /\ provider.engine \in DOMAIN engines
    BY <2>1, <1>4, TypesAtHand DEF IInv, ProviderStands
  <2>4. CallHolds(c)'
    BY <1>1, <1>2, <2>2, <2>3 DEF CallHolds, Starting, Closing, Viewing, At, StagesOf, fff, ast
  <2>5. CallHasItsEngine(c)' /\ CallIsFresh(c)'
    BY <1>1, <2>2, <2>3, TypesAtHand
       DEF CallHasItsEngine, CallIsFresh, Opening, Closing, Searching, Idle, At, fff, ast
  <2>6. Calm(c)
    BY <1>1, <1>4, <2>2, <2>3 DEF Calm, LeavesEngines, Opening, Closing, Searching, At
  <2> QED
    BY <1>q, <2>1, <2>2, <2>4, <2>5, <2>6, QuietStepKeeps DEF CallStands
<1> QED
  BY <1>3, <1>4

\* The revision a call is told is the one of this moment.
LEMMA ProviderAnswersKeeps ==
  ASSUME IInv, NEW c \in Caller, ProviderAnswers(c)
  PROVE  IInv'
<1>1. /\ call[c].op \in {"search", "start"} /\ call[c].stage = "asking"
      /\ UNCHANGED <<revision, session, fff, ast, overtaken>>
      /\ CallHolds(c) /\ CallHasItsEngine(c) /\ CallIsFresh(c)
  BY DEF ProviderAnswers, At, IInv, CallStands
<1> DEFINE now == [call[c] EXCEPT !.asked = revision, !.stage = "validate"]
<1>2. call' = [call EXCEPT ![c] = now]
  BY TypesAtHand DEF ProviderAnswers
<1>3. /\ now \in Calls /\ now.op = call[c].op /\ now.stage = "validate" /\ now.asked = revision
      /\ now.engine = call[c].engine /\ now.since = call[c].since
  BY <1>1, TypesAtHand DEF Calls, AllStages
<1> HIDE DEF now
<1>4. call'[c] = now
  BY <1>2, TypesAtHand
<1>5. CallHolds(c)'
  BY <1>1, <1>3, <1>4 DEF CallHolds, Starting, Closing, Viewing, At, StagesOf, fff, ast
<1>6. CallHasItsEngine(c)' /\ CallIsFresh(c)'
  BY <1>1, <1>3, <1>4, TypesAtHand
     DEF CallHasItsEngine, CallIsFresh, Opening, Closing, Searching, Idle, At, fff, ast
<1>7. Calm(c)
  BY <1>1, <1>3, <1>4 DEF Calm, LeavesEngines, Opening, Closing, Searching, At
<1>8. Quiet(c)
  BY <1>1, TypesAtHand DEF Quiet, fff, ast
<1> QED
  BY <1>2, <1>3, <1>5, <1>6, <1>7, <1>8, QuietStepKeeps DEF CallStands

\* An open engine that was shown has the revision the provider shows, or it
\* is being closed and the provider shows none.
LEMMA OpenEngineIsTheProviders ==
  ASSUME IInv, NEW c \in Caller, Searching(c), engines[call[c].engine].open, provider.revision # 0
  PROVE  engines[call[c].engine].revision = provider.revision
<1> DEFINE n == call[c].engine
<1>1. n \in DOMAIN engines
  BY DEF IInv, CallStands, CallHasItsEngine
<1>2. provider.engine # 0
  BY DEF IInv, ProviderStands
<1>3. provider.engine = n \/ \E d \in Caller : Opening(d) \/ Closing(d)
  BY <1>1 DEF IInv, EnginesStand
<1>4. \A d \in Caller : ~Opening(d) /\ ~Closing(d)
  BY <1>2 DEF IInv, CallStands, CallHasItsEngine
<1> QED
  BY <1>2, <1>3, <1>4 DEF IInv, ProviderStands

\* A call goes on only with the provider's revision, which is that of the
\* engine it took, unless that one is closed.
LEMMA ValidateKeeps ==
  ASSUME IInv, NEW c \in Caller, Validate(c)
  PROVE  IInv'
<1>1. /\ call[c].op \in {"search", "start"} /\ call[c].stage = "validate"
      /\ UNCHANGED <<revision, session, provider, engines, ast, overtaken>>
      /\ CallHolds(c) /\ CallHasItsEngine(c) /\ CallIsFresh(c)
  BY DEF Validate, At, IInv, CallStands
<1>2. c \notin viewing /\ (call[c].op = "search" => lifecycle_lock # c)
      /\ (call[c].op = "start" => lifecycle_lock = c)
  BY <1>1 DEF CallHolds, Starting, Closing, Viewing, At
<1>3. CASE call[c].asked = provider.revision
  <2> DEFINE next == IF call[c].op = "start" THEN "restart" ELSE "enter"
             now == [call[c] EXCEPT !.stage = next]
  <2>1. call' = [call EXCEPT ![c] = now] /\ lifecycle_lock' = lifecycle_lock
    BY <1>3, TypesAtHand DEF Validate, Goto
  <2>2. /\ now \in Calls /\ now.op = call[c].op /\ now.stage = next /\ now.asked = call[c].asked
        /\ now.engine = call[c].engine /\ now.since = call[c].since
        /\ next \in {"restart", "enter"} /\ next \in StagesOf(call[c].op)
        /\ next = "enter" => call[c].op = "search"
    BY <1>1, TypesAtHand DEF Calls, AllStages, StagesOf
  <2> HIDE DEF now, next
  <2>3. call'[c] = now
    BY <2>1, TypesAtHand
  <2>4. CallHolds(c)'
    BY <1>1, <2>1, <2>2, <2>3 DEF CallHolds, Starting, Closing, Viewing, At, ast
  <2>5. CallHasItsEngine(c)'
    BY <1>1, <2>2, <2>3 DEF CallHasItsEngine, Opening, Closing, Searching, At
  <2>6. ASSUME call[c].op = "search", engines[call[c].engine].open
        PROVE  engines[call[c].engine].revision = call[c].asked
    <3>1. Searching(c) /\ provider.revision # 0
      BY <1>1, <1>3, <2>6, TypesAtHand DEF Searching, CallIsFresh, Idle
    <3> QED
      BY <3>1, <1>3, <2>6, OpenEngineIsTheProviders
  <2>7. CallIsFresh(c)'
    BY <1>1, <2>2, <2>3, <2>6 DEF CallIsFresh, Idle
  <2>8. Calm(c)
    BY <1>1, <2>2, <2>3 DEF Calm, LeavesEngines, Opening, Closing, Searching, At
  <2>9. Quiet(c)
    BY <1>1, <2>1, TypesAtHand DEF Quiet, ast
  <2> QED
    BY <2>1, <2>2, <2>4, <2>5, <2>7, <2>8, <2>9, QuietStepKeeps DEF CallStands
<1>4. CASE call[c].asked # provider.revision
  <2>1. /\ call' = [call EXCEPT ![c] = NoCall]
        /\ lifecycle_lock' = IF call[c].op = "start" THEN NoOne ELSE lifecycle_lock
    BY <1>4 DEF Validate, Return, ReturnNaming
  <2>2. Quiet(c) /\ lifecycle_lock' # c /\ c \notin viewing'
    BY <1>1, <1>2, <2>1, TypesAtHand DEF Quiet, ast
  <2> QED
    BY <1>1, <2>1, <2>2, EndedCallKeeps DEF Opening, Closing, At
<1> QED
  BY <1>3, <1>4

\* A search of the finder that ends holds neither lock nor view.
LEMMA SearchIsQuiet ==
  ASSUME IInv, NEW c \in Caller, call[c].op = "search",
         UNCHANGED <<revision, session, fff, ast, overtaken>>
  PROVE  Quiet(c) /\ lifecycle_lock' # c /\ c \notin viewing'
<1>1. CallHolds(c) /\ call[c].stage \in {"take", "asking", "validate", "enter", "search"}
  BY TypesAtHand DEF IInv, CallStands, StagesOf
<1>2. c \notin viewing /\ lifecycle_lock # c
  BY <1>1 DEF CallHolds, Starting, Closing, Viewing, At
<1> QED
  BY <1>2, TypesAtHand DEF Quiet, fff, ast

\* An engine that lets a search in is open, so its view is held.
LEMMA EnterKeeps ==
  ASSUME IInv, NEW c \in Caller, Enter(c)
  PROVE  IInv'
<1>1. /\ call[c].op = "search" /\ call[c].stage = "enter"
      /\ UNCHANGED <<revision, session, fff, ast, overtaken>>
      /\ CallHolds(c) /\ CallHasItsEngine(c) /\ CallIsFresh(c)
  BY DEF Enter, At, IInv, CallStands
<1>2. Quiet(c) /\ lifecycle_lock' # c /\ c \notin viewing'
  BY <1>1, SearchIsQuiet
<1>3. CASE engines[call[c].engine].open
  <2> DEFINE now == [call[c] EXCEPT !.stage = "search"]
  <2>1. call' = [call EXCEPT ![c] = now]
    BY <1>3, TypesAtHand DEF Enter, Goto
  <2>2. /\ now \in Calls /\ now.op = "search" /\ now.stage = "search" /\ now.asked = call[c].asked
        /\ now.engine = call[c].engine /\ now.since = call[c].since
    BY <1>1, TypesAtHand DEF Calls, AllStages
  <2> HIDE DEF now
  <2>3. call'[c] = now
    BY <2>1, TypesAtHand
  <2>4. CallHolds(c)'
    BY <1>1, <2>2, <2>3 DEF CallHolds, Starting, Closing, Viewing, At, StagesOf, fff, ast
  <2>5. CallHasItsEngine(c)'
    BY <1>1, <2>2, <2>3 DEF CallHasItsEngine, Opening, Closing, Searching, At, fff
  <2>6. call[c].engine \in DOMAIN engines /\ engines[call[c].engine].held
    BY <1>1, <1>3 DEF CallHasItsEngine, Searching, IInv, EnginesStand
  <2>7. CallIsFresh(c)'
    BY <1>1, <1>3, <2>2, <2>3, <2>6 DEF CallIsFresh, Idle, fff
  <2>8. Calm(c)
    BY <1>1, <2>2, <2>3 DEF Calm, LeavesEngines, Opening, Closing, Searching, At
  <2> QED
    BY <1>2, <2>1, <2>2, <2>4, <2>5, <2>7, <2>8, QuietStepKeeps DEF CallStands
<1>4. CASE ~engines[call[c].engine].open
  <2>1. call' = [call EXCEPT ![c] = NoCall]
    BY <1>4 DEF Enter, Return, ReturnNaming
  <2> QED
    BY <1>1, <1>2, <2>1, EndedCallKeeps DEF Opening, Closing, At
<1> QED
  BY <1>3, <1>4

\* A search ends, with a result or without.
LEMMA SearchEndsKeeps ==
  ASSUME IInv, NEW c \in Caller, SearchFails(c) \/ SearchEnds(c)
  PROVE  IInv'
<1>1. /\ call[c].op = "search" /\ call[c].stage = "search"
      /\ UNCHANGED <<revision, session, fff, ast, overtaken>>
      /\ call' = [call EXCEPT ![c] = NoCall]
  BY DEF SearchFails, SearchEnds, At, Return, ReturnNaming
<1>2. Quiet(c) /\ lifecycle_lock' # c /\ c \notin viewing'
  BY <1>1, SearchIsQuiet
<1> QED
  BY <1>1, <1>2, EndedCallKeeps DEF Opening, Closing, At

-----------------------------------------------------------------------------
(* The steps of rewrites *)

\* A rewrite holds neither of the locks and has no engine to open or close.
LEMMA RewritesHoldNoLock ==
  ASSUME IInv, NEW c \in Caller, call[c].op \in {"preview", "apply"}
  PROVE  /\ lifecycle_lock # c /\ session.lock # c
         /\ call[c].stage \in {"acquire", "match", "store", "take", "read", "patch"}
         /\ ~Opening(c) /\ ~Closing(c) /\ ~Searching(c) /\ ~At(c, {"session_close"}, "lock")
<1>1. call[c].stage \in {"acquire", "match", "store", "take", "read", "patch"} /\ CallHolds(c)
  BY TypesAtHand DEF StagesOf, IInv, CallStands
<1> QED
  BY <1>1 DEF CallHolds, Starting, Opening, Closing, Searching, At

\* A rewrite that goes on to another stage
LEMMA RewriteMoves ==
  ASSUME IInv, NEW c \in Caller, NEW now \in Calls, call' = [call EXCEPT ![c] = now],
         call[c].op \in {"preview", "apply"}, now.op = call[c].op,
         now.stage \in StagesOf(now.op), now.engine = call[c].engine, now.since = call[c].since,
         now.op = "apply" /\ now.stage \in {"read", "patch"} =>
           now.since <= now.proposal.revision /\ now.proposal.revision <= revision,
         c \in viewing' <=> now.stage \in {"match", "read", "patch"},
         Quiet(c), UNCHANGED <<revision, lifecycle_lock>>
  PROVE  IInv'
<1>1. /\ call'[c] = now
      /\ CallHasItsEngine(c) /\ CallIsFresh(c)
      /\ now.stage \in {"acquire", "match", "store", "take", "read", "patch"}
      /\ session' = session
      /\ call[c].stage # "idle"
  BY TypesAtHand, RewritesHoldNoLock DEF IInv, CallStands, StagesOf, Quiet
<1>2. CallHolds(c)'
  BY <1>1, RewritesHoldNoLock DEF CallHolds, Starting, Closing, Viewing, At, StagesOf
<1>3. CallHasItsEngine(c)' /\ CallIsFresh(c)'
  BY <1>1 DEF CallHasItsEngine, CallIsFresh, Opening, Closing, Searching, Idle, At
<1>4. Calm(c)
  BY <1>1, RewritesHoldNoLock DEF Calm, LeavesEngines, Opening, Closing, Searching, At
<1> QED
  BY <1>2, <1>3, <1>4, QuietStepKeeps DEF CallStands

\* A rewrite that is over
LEMMA RewriteEnds ==
  ASSUME IInv, NEW c \in Caller, call' = [call EXCEPT ![c] = NoCall],
         call[c].op \in {"preview", "apply"},
         c \notin viewing', lifecycle_lock' = lifecycle_lock, Quiet(c)
  PROVE  IInv'
BY RewritesHoldNoLock, EndedCallKeeps

\* A preview takes a view, gives it back, and stores what it found.
LEMMA PreviewKeeps ==
  ASSUME IInv, NEW c \in Caller, PreviewBegins(c) \/ PreviewMatches(c) \/ Store(c)
  PROVE  IInv'
<1>1. /\ call[c].op = "preview"
      /\ UNCHANGED <<revision, session, fff, source, overtaken>>
  BY DEF PreviewBegins, PreviewMatches, Store, At
<1>2. CASE PreviewBegins(c)
  <2> DEFINE found == [NoProposal EXCEPT !.revision = revision, !.source = source]
             now == [call[c] EXCEPT !.proposal = found, !.stage = "match"]
  <2>1. found \in Proposals
    BY TypesAtHand, NoCallIsACall DEF Proposals
  <2>2. call' = [call EXCEPT ![c] = now]
    BY <1>2, TypesAtHand DEF PreviewBegins
  <2>3. /\ now \in Calls /\ now.op = "preview" /\ now.stage = "match"
        /\ now.engine = call[c].engine /\ now.since = call[c].since
    BY <1>1, <2>1, TypesAtHand DEF Calls, AllStages
  <2> HIDE DEF now, found
  <2>4. Quiet(c) /\ c \in viewing'
    BY <1>1, <1>2, TypesAtHand DEF PreviewBegins, Quiet, fff
  <2> QED
    BY <1>1, <2>2, <2>3, <2>4, RewriteMoves DEF StagesOf, fff
<1>3. CASE PreviewMatches(c)
  <2> DEFINE now == [call[c] EXCEPT !.stage = "store"]
  <2>1. call' = [call EXCEPT ![c] = now]
    BY <1>3, TypesAtHand DEF PreviewMatches, Goto
  <2>2. /\ now \in Calls /\ now.op = "preview" /\ now.stage = "store"
        /\ now.engine = call[c].engine /\ now.since = call[c].since
    BY <1>1, TypesAtHand DEF Calls, AllStages
  <2> HIDE DEF now
  <2>3. Quiet(c) /\ c \notin viewing'
    BY <1>1, <1>3, TypesAtHand DEF PreviewMatches, Quiet, fff
  <2> QED
    BY <1>1, <2>1, <2>2, <2>3, RewriteMoves DEF StagesOf, fff
<1>4. CASE Store(c)
  <2>1. call' = [call EXCEPT ![c] = NoCall] /\ previews' = previews + 1 /\ viewing' = viewing
    BY <1>4 DEF Store, Return, ReturnNaming
  <2>2. c \notin viewing
    BY <1>4 DEF Store, At, IInv, CallStands, CallHolds, Viewing
  <2>3. [call[c].proposal EXCEPT !.id = previews'] \in Proposals
    BY <2>1, TypesAtHand DEF Proposals
  <2>4. proposals' \subseteq proposals \cup {[call[c].proposal EXCEPT !.id = previews']}
    BY <1>4 DEF Store, Unexpired
  <2>5. Quiet(c)
    BY <1>1, <2>1, <2>3, <2>4, TypesAtHand DEF Quiet, fff
  <2> QED
    BY <1>1, <2>1, <2>2, <2>5, RewriteEnds DEF fff
<1> QED
  BY <1>2, <1>3, <1>4

\* A proposal leaves the store, and the call goes on with it or is over.
LEMMA TakeKeeps ==
  ASSUME IInv, NEW c \in Caller, Take(c)
  PROVE  IInv'
<1>1. /\ call[c].op = "apply" /\ call[c].stage = "take"
      /\ UNCHANGED <<revision, session, fff, source, previews, viewing, overtaken>>
      /\ proposals' \subseteq proposals
  BY DEF Take, At, Unexpired
<1>2. c \notin viewing
  BY <1>1 DEF At, IInv, CallStands, CallHolds, Viewing
<1>3. Quiet(c)
  BY <1>1, TypesAtHand DEF Quiet, fff
<1>4. CASE Return(c, "not_found")
  <2>1. call' = [call EXCEPT ![c] = NoCall]
    BY <1>4 DEF Return, ReturnNaming
  <2> QED
    BY <1>1, <1>2, <1>3, <2>1, RewriteEnds DEF fff
<1>5. CASE \E found \in proposals :
             call' = [call EXCEPT ![c].proposal = found, ![c].stage = "acquire"]
  <2>1. PICK found \in proposals :
          call' = [call EXCEPT ![c].proposal = found, ![c].stage = "acquire"]
    BY <1>5
  <2> DEFINE now == [call[c] EXCEPT !.proposal = found, !.stage = "acquire"]
  <2>2. call' = [call EXCEPT ![c] = now]
    BY <2>1, TypesAtHand
  <2>3. /\ now \in Calls /\ now.op = "apply" /\ now.stage = "acquire"
        /\ now.engine = call[c].engine /\ now.since = call[c].since
    BY <1>1, TypesAtHand DEF Calls, AllStages
  <2> HIDE DEF now
  <2> QED
    BY <1>1, <1>2, <1>3, <2>2, <2>3, RewriteMoves DEF StagesOf, fff
<1> QED
  BY <1>4, <1>5 DEF Take

\* A rewrite is applied only at the revision it was previewed at.
LEMMA ApplyAcquiresKeeps ==
  ASSUME IInv, NEW c \in Caller, ApplyAcquires(c)
  PROVE  IInv'
<1>1. /\ call[c].op = "apply" /\ call[c].stage = "acquire"
      /\ UNCHANGED <<revision, session, fff, source, proposals, previews, overtaken>>
      /\ CallIsFresh(c)
  BY DEF ApplyAcquires, At, IInv, CallStands
<1>2. c \notin viewing
  BY <1>1 DEF At, IInv, CallStands, CallHolds, Viewing
<1>3. CASE revision = call[c].proposal.revision
  <2> DEFINE now == [call[c] EXCEPT !.stage = "read"]
  <2>1. call' = [call EXCEPT ![c] = now] /\ viewing' = viewing \cup {c}
    BY <1>3, TypesAtHand DEF ApplyAcquires, Goto
  <2>2. /\ now \in Calls /\ now.op = "apply" /\ now.stage = "read"
        /\ now.engine = call[c].engine /\ now.since = call[c].since
        /\ now.proposal = call[c].proposal
    BY <1>1, TypesAtHand DEF Calls, AllStages
  <2> HIDE DEF now
  <2>3. Quiet(c)
    BY <1>1, <2>1, TypesAtHand DEF Quiet, fff
  <2>4. now.since <= now.proposal.revision /\ now.proposal.revision <= revision
    BY <1>1, <1>3, <2>2, TypesAtHand DEF CallIsFresh, Idle
  <2> QED
    BY <1>1, <2>1, <2>2, <2>3, <2>4, RewriteMoves DEF StagesOf, fff
<1>4. CASE revision # call[c].proposal.revision
  <2>1. call' = [call EXCEPT ![c] = NoCall] /\ viewing' = viewing
    BY <1>4 DEF ApplyAcquires, Return, ReturnNaming
  <2>2. Quiet(c)
    BY <1>1, <2>1, TypesAtHand DEF Quiet, fff
  <2> QED
    BY <1>1, <1>2, <2>1, <2>2, RewriteEnds DEF fff
<1> QED
  BY <1>3, <1>4

\* A rewrite compares the file with its proposal and keeps its view, or ends.
LEMMA ApplyReadsKeeps ==
  ASSUME IInv, NEW c \in Caller, ApplyReads(c)
  PROVE  IInv'
<1>1. /\ call[c].op = "apply" /\ call[c].stage = "read"
      /\ UNCHANGED <<revision, session, fff, source, proposals, previews, overtaken>>
      /\ CallIsFresh(c) /\ c \in viewing
  BY DEF ApplyReads, At, IInv, CallStands, CallHolds, Viewing
<1>2. CASE source = call[c].proposal.source
  <2> DEFINE now == [call[c] EXCEPT !.stage = "patch"]
  <2>1. call' = [call EXCEPT ![c] = now] /\ viewing' = viewing
    BY <1>2, TypesAtHand DEF ApplyReads, Goto
  <2>2. /\ now \in Calls /\ now.op = "apply" /\ now.stage = "patch"
        /\ now.engine = call[c].engine /\ now.since = call[c].since
        /\ now.proposal = call[c].proposal
    BY <1>1, TypesAtHand DEF Calls, AllStages
  <2> HIDE DEF now
  <2>3. Quiet(c)
    BY <1>1, <2>1, TypesAtHand DEF Quiet, fff
  <2>4. now.since <= now.proposal.revision /\ now.proposal.revision <= revision
    BY <1>1, <2>2 DEF CallIsFresh, Idle
  <2> QED
    BY <1>1, <2>1, <2>2, <2>3, <2>4, RewriteMoves DEF StagesOf, fff
<1>3. CASE source # call[c].proposal.source
  <2>1. call' = [call EXCEPT ![c] = NoCall] /\ viewing' = viewing \ {c}
    BY <1>3 DEF ApplyReads, Return, ReturnNaming
  <2>2. Quiet(c)
    BY <1>1, <2>1, TypesAtHand DEF Quiet, fff
  <2> QED
    BY <1>1, <2>1, <2>2, RewriteEnds DEF fff
<1> QED
  BY <1>2, <1>3

\* The patch of a rewrite lands, or the rewrite fails: its view goes back.
LEMMA RewriteIsOverKeeps ==
  ASSUME IInv, NEW c \in Caller, ApplyPatches(c) \/ RewriteFails(c)
  PROVE  IInv'
<1>1. /\ call[c].op \in {"preview", "apply"}
      /\ UNCHANGED <<session, fff, proposals, previews, overtaken>>
      /\ call' = [call EXCEPT ![c] = NoCall] /\ viewing' = viewing \ {c}
  BY DEF ApplyPatches, RewriteFails, At, Return, ReturnNaming
<1>2. revision' \in Nat /\ revision <= revision' /\ source' \in Nat
  BY TypesAtHand DEF ApplyPatches, RewriteFails
<1>3. Quiet(c)
  BY <1>1, <1>2, TypesAtHand DEF Quiet, fff
<1> QED
  BY <1>1, <1>3, RewriteEnds DEF fff

\* What others change, and what expires, is seen by no call on its way.
LEMMA OthersChangeKeeps ==
  ASSUME IInv, Change \/ Expire
  PROVE  IInv'
<1>1. /\ UNCHANGED <<session, fff, previews, viewing, call, overtaken>>
      /\ revision' \in Nat \ {0} /\ revision <= revision' /\ source' \in Nat
  BY DEF Change, Expire, IInv, Types
<1>2. proposals' \subseteq Proposals
  <2>1. \A old \in Proposals : [old EXCEPT !.expired = TRUE] \in Proposals
    BY DEF Proposals
  <2> QED
    BY <2>1 DEF Change, Expire, Unexpired, IInv, Types
<1>3. Types'
  BY <1>1, <1>2 DEF IInv, Types, fff
<1>4. \A d \in Caller : CallStands(d)'
  <2> TAKE d \in Caller
  <2>1. Spares(d)
    BY <1>1 DEF Spares, fff
  <2> QED
    BY <2>1, <1>3, OthersStand
<1>5. \A d \in Caller : Calm(d)
  BY <1>1 DEF Calm, LeavesEngines, Opening, Closing, Searching, At
<1> QED
  BY <1>1, <1>3, <1>4, <1>5, CalmStepsKeep DEF IInv, fff

-----------------------------------------------------------------------------
(* The closing of the session, and cancellations *)

\* The first closer marks the session closed and has its lock.
LEMMA SessionClosesKeeps ==
  ASSUME IInv, NEW c \in Caller, SessionCloses(c)
  PROVE  IInv'
<1>1. /\ call[c].op = "session_close" /\ call[c].stage = "close_lock" /\ session.lock = NoOne
      /\ UNCHANGED <<revision, fff, ast, overtaken>>
      /\ CallHolds(c) /\ CallIsFresh(c)
  BY DEF SessionCloses, At, IInv, CallStands
<1>2. lifecycle_lock # c /\ c \notin viewing
  BY <1>1 DEF CallHolds, Starting, Closing, Viewing, At
<1>3. CASE session.closed
  <2>1. call' = [call EXCEPT ![c] = NoCall] /\ session' = session
    BY <1>3 DEF SessionCloses, Return, ReturnNaming
  <2>2. Quiet(c)
    BY <1>1, <2>1, TypesAtHand DEF Quiet, fff, ast
  <2> QED
    BY <1>1, <1>2, <2>1, <2>2, EndedCallKeeps DEF Opening, Closing, At, fff, ast
<1>4. CASE ~session.closed
  <2> DEFINE now == [call[c] EXCEPT !.stage = "lock"]
  <2>1. call' = [call EXCEPT ![c] = now] /\ session' = [closed |-> TRUE, lock |-> c]
    BY <1>4, TypesAtHand DEF SessionCloses, Goto
  <2>2. /\ now \in Calls /\ now.op = "session_close" /\ now.stage = "lock"
        /\ now.since = call[c].since
    BY <1>1, TypesAtHand DEF Calls, AllStages
  <2> HIDE DEF now
  <2>3. call'[c] = now /\ call' \in [Caller -> Calls]
        /\ \A d \in Caller : d # c => call'[d] = call[d]
    BY <2>1, <2>2, TypesAtHand
  <2>4. Types'
    BY <1>1, <2>1, <2>3 DEF IInv, Types, fff, ast
  <2>5. CallStands(c)'
    BY <1>1, <1>2, <2>1, <2>2, <2>3
       DEF CallStands, CallHolds, CallHasItsEngine, CallIsFresh, Idle, StagesOf,
           Opening, Closing, Starting, Searching, Viewing, At, fff, ast
  <2>6. \A d \in Caller : CallStands(d)'
    <3> SUFFICES ASSUME NEW d \in Caller, d # c
                 PROVE  CallStands(d)'
      BY <2>5
    <3>1. Spares(d)
      BY <1>1, <2>1, <2>3, TypesAtHand DEF Spares, fff, ast
    <3> QED
      BY <3>1, <2>4, OthersStand
  <2>7. \A d \in Caller : LeavesEngines(d)
    BY <1>1, <2>2, <2>3 DEF LeavesEngines, Opening, Closing, Searching, At
  <2>8. ClosedStaysEmpty'
    BY <2>2, <2>3 DEF ClosedStaysEmpty, At
  <2> QED
    BY <1>1, <2>1, <2>4, <2>6, <2>7, <2>8, EnginesStayAsTheyStand DEF IInv, fff
<1> QED
  BY <1>3, <1>4

\* A cancelled call gives back the locks it has; a closing of the session
\* that is given up counts as overtaken.
LEMMA CancelKeeps ==
  ASSUME IInv, NEW c \in Caller, Cancel(c)
  PROVE  IInv'
<1>1. /\ call[c].stage \in {"lock", "close_lock", "asking"}
      /\ UNCHANGED <<revision, provider, engines, ast>>
      /\ lifecycle_lock' = IF lifecycle_lock = c THEN NoOne ELSE lifecycle_lock
      /\ call' = [call EXCEPT ![c] = NoCall]
      /\ CallHolds(c)
  BY DEF Cancel, Return, ReturnNaming, IInv, CallStands
<1>2. c \notin viewing /\ ~Opening(c) /\ ~Closing(c)
  BY <1>1 DEF CallHolds, Opening, Closing, Viewing, At
<1>3. lifecycle_lock' \in Caller \cup {NoOne} /\ lifecycle_lock' # c
      /\ \A d \in Caller : d # c => (lifecycle_lock' = d <=> lifecycle_lock = d)
  BY <1>1, TypesAtHand
<1>4. CASE ~At(c, {"session_close"}, "lock")
  <2>1. UNCHANGED <<session, overtaken>>
    BY <1>1, <1>4, TypesAtHand DEF Cancel, Unlocks, At, IInv, Types
  <2>2. Quiet(c)
    BY <1>1, <1>3, <2>1, TypesAtHand DEF Quiet, ast
  <2> QED
    BY <1>1, <1>2, <1>3, <1>4, <2>2, EndedCallKeeps DEF ast
<1>5. CASE At(c, {"session_close"}, "lock")
  <2>1. session' = [session EXCEPT !.lock = NoOne] /\ overtaken' = TRUE
    BY <1>1, <1>5 DEF Cancel, Unlocks, At
  <2>2. session.lock = c /\ session'.lock = NoOne
        /\ session' \in [closed : BOOLEAN, lock : Caller \cup {NoOne}]
    BY <1>1, <1>5, <2>1 DEF CallHolds, At, IInv, Types
  <2>3. call'[c] = NoCall /\ call' \in [Caller -> Calls]
        /\ \A d \in Caller : d # c => call'[d] = call[d]
    BY <1>1, NoCallIsACall, TypesAtHand
  <2>4. Types'
    BY <1>1, <1>3, <2>1, <2>2, <2>3 DEF IInv, Types, ast
  <2>5. CallStands(c)'
    BY <1>1, <1>2, <1>3, <2>2, <2>3, NoCallIsACall, TypesAtHand
       DEF CallStands, CallHolds, CallHasItsEngine, CallIsFresh, Idle, StagesOf,
           Opening, Closing, Starting, Searching, Viewing, At, ast
  <2>6. \A d \in Caller : CallStands(d)'
    <3> SUFFICES ASSUME NEW d \in Caller, d # c
                 PROVE  CallStands(d)'
      BY <2>5
    <3>1. Spares(d)
      BY <1>1, <1>3, <2>2, <2>3, TypesAtHand DEF Spares, ast
    <3> QED
      BY <3>1, <2>4, OthersStand
  <2>7. \A d \in Caller : LeavesEngines(d)
    BY <1>1, <1>2, <2>3, NoCallIsACall DEF LeavesEngines, Opening, Closing, Searching, At
  <2>8. ClosedStaysEmpty'
    BY <2>1 DEF ClosedStaysEmpty
  <2> QED
    BY <1>1, <2>2, <2>4, <2>6, <2>7, <2>8, EnginesStayAsTheyStand DEF IInv
<1> QED
  BY <1>4, <1>5

-----------------------------------------------------------------------------
(* The steps under the finder's lock *)

\* A step of the only call that may have the finder's lock: it changes no
\* engine that others have but to close it, and no view that is searched.
Works(c) ==
  /\ lifecycle_lock \in {NoOne, c} /\ lifecycle_lock' \in {NoOne, c}
  /\ session'.lock = session.lock \/ (session.lock = c /\ session'.lock = NoOne)
  /\ UNCHANGED <<revision, viewing>>
  /\ \A d \in Caller : d # c => call'[d] = call[d]
  /\ DOMAIN engines \subseteq DOMAIN engines'
  /\ \A n \in DOMAIN engines :
       /\ engines'[n].revision = engines[n].revision
       /\ engines'[n].open => engines[n].open
       /\ Searched(n) /\ engines[n].held => engines'[n].held

\* Nobody else opens or closes an engine meanwhile, and every call stands.
LEMMA WorkKeeps ==
  ASSUME IInv, Types', NEW c \in Caller, Works(c), CallStands(c)'
  PROVE  /\ \A d \in Caller : CallStands(d)'
         /\ \A d \in Caller : d # c => /\ call'[d] = call[d]
                                       /\ ~Opening(d) /\ ~Closing(d) /\ ~Starting(d)
                                       /\ ~Opening(d)' /\ ~Closing(d)' /\ ~Starting(d)'
<1>1. \A d \in Caller : d # c => CallStands(d)'
  <2> SUFFICES ASSUME NEW d \in Caller, d # c
               PROVE  CallStands(d)'
    OBVIOUS
  <2>1. Spares(d)
    BY TypesAtHand DEF Spares, Works
  <2> QED
    BY <2>1, OthersStand
<1>2. ASSUME NEW d \in Caller, d # c
      PROVE  /\ call'[d] = call[d]
             /\ ~Opening(d) /\ ~Closing(d) /\ ~Starting(d)
  <2>1. lifecycle_lock # d /\ CallHolds(d)
    BY <1>2, TypesAtHand DEF Works, IInv, CallStands
  <2> QED
    BY <1>2, <2>1 DEF Works, CallHolds, Opening, Starting, Closing, At
<1> QED
  BY <1>1, <1>2 DEF Opening, Starting, Closing, At

\* A start that has the lock opens a new engine, or asks for the revision.
LEMMA StartLocksKeeps ==
  ASSUME IInv, NEW c \in Caller, StartLocks(c)
  PROVE  IInv'
<1>1. /\ call[c].op = "start" /\ call[c].stage = "lock" /\ lifecycle_lock = NoOne
      /\ lifecycle_lock' = c /\ UNCHANGED <<revision, session, provider, ast, overtaken>>
      /\ CallHolds(c) /\ CallIsFresh(c)
  BY DEF StartLocks, At, IInv, CallStands
<1>2. c \notin viewing /\ session.lock # c
  BY <1>1 DEF CallHolds, Viewing, At
<1>3. CASE provider.engine # 0
  <2> DEFINE now == [call[c] EXCEPT !.stage = "asking"]
  <2>1. call' = [call EXCEPT ![c] = now] /\ engines' = engines
    BY <1>3, TypesAtHand DEF StartLocks
  <2>2. /\ now \in Calls /\ now.op = "start" /\ now.stage = "asking"
        /\ now.since = call[c].since
    BY <1>1, TypesAtHand DEF Calls, AllStages
  <2> HIDE DEF now
  <2>3. call'[c] = now
    BY <2>1, TypesAtHand
  <2>4. CallStands(c)'
    BY <1>1, <1>2, <2>1, <2>2, <2>3
       DEF CallStands, CallHolds, CallHasItsEngine, CallIsFresh, Idle, StagesOf,
           Opening, Closing, Starting, Searching, Viewing, At, ast
  <2>5. Calm(c)
    BY <1>1, <2>2, <2>3 DEF Calm, LeavesEngines, Opening, Closing, Searching, At
  <2>6. Quiet(c)
    BY <1>1, <2>1, TypesAtHand DEF Quiet, ast
  <2> QED
    BY <2>1, <2>2, <2>4, <2>5, <2>6, QuietStepKeeps
<1>4. CASE provider.engine = 0
  <2> DEFINE n == Len(engines) + 1
             made == [revision |-> revision, open |-> TRUE, held |-> TRUE]
             now == [call[c] EXCEPT !.stage = "opening", !.engine = n]
  <2>1. call' = [call EXCEPT ![c] = now] /\ engines' = Append(engines, made)
    BY <1>4, TypesAtHand DEF StartLocks
  <2>n. engines \in Seq(Engines) /\ n \in Nat /\ n # 0 /\ made \in Engines
    BY TypesAtHand DEF IInv, Types, Engines
  <2>2. /\ now \in Calls /\ now.op = "start" /\ now.stage = "opening" /\ now.engine = n
        /\ now.since = call[c].since
    BY <1>1, <2>n, TypesAtHand DEF Calls, AllStages
  <2>3. /\ engines' \in Seq(Engines) /\ n \in DOMAIN engines' /\ n \notin DOMAIN engines
        /\ engines'[n] = made /\ made.open /\ made.held
        /\ DOMAIN engines' = DOMAIN engines \cup {n}
        /\ \A m \in DOMAIN engines : engines'[m] = engines[m]
    BY <2>1, <2>n
  <2> HIDE DEF now, made, n
  <2>4. call'[c] = now /\ call' \in [Caller -> Calls]
        /\ \A d \in Caller : d # c => call'[d] = call[d]
    BY <2>1, <2>2, TypesAtHand
  <2>5. Types'
    BY <1>1, <2>3, <2>4 DEF IInv, Types, ast
  <2>6. CallStands(c)'
    BY <1>1, <1>2, <1>4, <2>2, <2>3, <2>4
       DEF CallStands, CallHolds, CallHasItsEngine, CallIsFresh, Idle, StagesOf,
           Opening, Closing, Starting, Searching, Viewing, At, ast
  <2>7. Works(c)
    BY <1>1, <2>3, <2>4 DEF Works, ast
  <2>8. \A d \in Caller : CallStands(d)'
    BY <2>5, <2>6, <2>7, WorkKeeps
  <2>9. ProviderStands'
    BY <1>1, <1>4 DEF IInv, ProviderStands
  <2>10. EnginesStand'
    <3> SUFFICES ASSUME NEW m \in DOMAIN engines', engines'[m].held \/ engines'[m].open
                 PROVE  /\ engines'[m].held
                        /\ provider'.engine = m
                             \/ \E d \in Caller : call'[d].engine = m /\ (Opening(d)' \/ Closing(d)')
      BY DEF EnginesStand
    <3>1. CASE m = n
      BY <3>1, <2>2, <2>3, <2>4 DEF Opening, At
    <3>2. CASE m # n
      <4>1. m \in DOMAIN engines /\ engines'[m] = engines[m]
        BY <3>2, <2>3
      <4>2. provider.engine = m \/ \E d \in Caller : Opening(d) \/ Closing(d)
        BY <4>1 DEF IInv, EnginesStand
      <4>3. \A d \in Caller : ~Opening(d) /\ ~Closing(d)
        BY <1>1, <2>5, <2>6, <2>7, WorkKeeps DEF Opening, Closing, At
      <4> QED
        BY <1>1, <4>1, <4>2, <4>3 DEF IInv, EnginesStand
    <3> QED
      BY <3>1, <3>2
  <2>11. SearchesStayApart'
    <3> SUFFICES ASSUME NEW e \in Caller, NEW d \in Caller, Opening(e)', Searching(d)'
                 PROVE  call'[e].engine # call'[d].engine
      BY DEF SearchesStayApart
    <3>1. e = c
      BY <2>5, <2>6, <2>7, WorkKeeps
    <3>2. d # c /\ call'[d] = call[d] /\ Searching(d)
      BY <2>2, <2>4 DEF Searching
    <3>3. call[d].engine \in DOMAIN engines
      BY <3>2 DEF IInv, CallStands, CallHasItsEngine
    <3> QED
      BY <3>1, <3>2, <3>3, <2>2, <2>3, <2>4
  <2>12. ClosedStaysEmpty'
    BY <1>1, <1>2, <2>4 DEF IInv, ClosedStaysEmpty, At
  <2> QED
    BY <1>1, <2>5, <2>8, <2>9, <2>10, <2>11, <2>12 DEF IInv
<1> QED
  BY <1>3, <1>4

\* An engine that has started is shown with the revision of its view.
LEMMA OpensKeeps ==
  ASSUME IInv, NEW c \in Caller, Opens(c)
  PROVE  IInv'
<1> DEFINE n == call[c].engine
           now == [call[c] EXCEPT !.stage = "restart"]
<1>1. /\ call[c].op = "start" /\ call[c].stage = "opening" /\ Opening(c)
      /\ provider' = [engine |-> n, revision |-> engines[n].revision]
      /\ UNCHANGED <<revision, session, lifecycle_lock, engines, ast, overtaken>>
      /\ CallHolds(c) /\ CallHasItsEngine(c) /\ CallIsFresh(c)
  BY DEF Opens, Opening, At, IInv, CallStands
<1>2. /\ c \notin viewing /\ session.lock # c /\ lifecycle_lock = c
      /\ provider.engine = 0 /\ n \in DOMAIN engines /\ engines[n].open /\ engines[n].held
  BY <1>1 DEF CallHolds, CallHasItsEngine, Starting, Viewing, At
<1>3. engines \in Seq(Engines) /\ n \in Nat /\ n # 0 /\ engines[n].revision \in Nat
  <2>1. engines \in Seq(Engines) /\ n \in Nat
    BY TypesAtHand DEF IInv, Types
  <2>2. n # 0 /\ engines[n] \in Engines
    BY <1>2, <2>1
  <2> QED
    BY <2>1, <2>2 DEF Engines
<1>4. call' = [call EXCEPT ![c] = now]
  BY TypesAtHand DEF Opens, Goto
<1>5. /\ now \in Calls /\ now.op = "start" /\ now.stage = "restart" /\ now.since = call[c].since
  BY <1>1, TypesAtHand DEF Calls, AllStages
<1> HIDE DEF now, n
<1>6. call'[c] = now /\ call' \in [Caller -> Calls]
      /\ \A d \in Caller : d # c => call'[d] = call[d]
  BY <1>4, <1>5, TypesAtHand
<1>7. Types'
  BY <1>1, <1>3, <1>6 DEF IInv, Types, ast
<1>8. CallStands(c)'
  BY <1>1, <1>2, <1>5, <1>6
     DEF CallStands, CallHolds, CallHasItsEngine, CallIsFresh, Idle, StagesOf,
         Opening, Closing, Starting, Searching, Viewing, At, ast
<1>9. Works(c)
  BY <1>1, <1>2, <1>6 DEF Works, ast
<1>10. ProviderStands'
  BY <1>1, <1>2, <1>3 DEF ProviderStands
<1>11. ~Opening(c)' /\ ~Closing(c)'
  BY <1>5, <1>6 DEF Opening, Closing, At
<1>12. EnginesStand'
  <2> SUFFICES ASSUME NEW m \in DOMAIN engines, engines[m].held \/ engines[m].open
               PROVE  engines[m].held /\ m = n
    BY <1>1 DEF EnginesStand
  <2>1. m # 0 /\ engines[m].held
    BY <1>3 DEF IInv, EnginesStand
  <2>2. PICK d \in Caller : call[d].engine = m /\ (Opening(d) \/ Closing(d))
    BY <1>2, <2>1 DEF IInv, EnginesStand
  <2>3. d = c
    BY <2>2, <1>7, <1>8, <1>9, WorkKeeps
  <2> QED
    BY <2>1, <2>2, <2>3 DEF n
<1>13. SearchesStayApart'
  BY <1>7, <1>8, <1>9, <1>11, WorkKeeps DEF SearchesStayApart
<1>14. ClosedStaysEmpty'
  <2>1. At(c, {"session_close"}, "lock") <=> FALSE
    BY <1>1 DEF At
  <2> QED
    BY <1>1, <1>6, <2>1 DEF IInv, ClosedStaysEmpty, At
<1> QED
  BY <1>1, <1>7, <1>8, <1>9, <1>10, <1>12, <1>13, <1>14, WorkKeeps DEF IInv

\* An engine that cannot start is closed, its view given back, and nobody
\* has ever searched it.
LEMMA FailsToOpenKeeps ==
  ASSUME IInv, NEW c \in Caller, FailsToOpen(c)
  PROVE  IInv'
<1> DEFINE n == call[c].engine
           shut == [engines[n] EXCEPT !.open = FALSE, !.held = FALSE]
<1>1. /\ call[c].op = "start" /\ call[c].stage = "opening" /\ Opening(c)
      /\ engines' = [engines EXCEPT ![n] = shut] /\ lifecycle_lock' = NoOne
      /\ UNCHANGED <<revision, session, provider, ast, overtaken>>
      /\ call' = [call EXCEPT ![c] = NoCall]
      /\ CallHolds(c) /\ CallHasItsEngine(c)
  BY DEF FailsToOpen, Opening, At, Return, ReturnNaming, IInv, CallStands
<1>2. /\ c \notin viewing /\ session.lock # c /\ lifecycle_lock = c
      /\ provider.engine = 0 /\ n \in DOMAIN engines
  BY <1>1 DEF CallHolds, CallHasItsEngine, Starting, Viewing, At
<1>3. engines \in Seq(Engines) /\ engines[n] \in Engines
  <2>1. engines \in Seq(Engines)
    BY DEF IInv, Types
  <2> QED
    BY <1>2, <2>1
<1>4. shut \in Engines /\ shut.revision = engines[n].revision /\ ~shut.open /\ ~shut.held
  BY <1>3 DEF Engines
<1> HIDE DEF n, shut
<1>5. /\ engines' \in Seq(Engines) /\ DOMAIN engines' = DOMAIN engines
      /\ engines'[n] = shut /\ \A m \in DOMAIN engines : m # n => engines'[m] = engines[m]
  BY <1>1, <1>2, <1>3, <1>4
<1>6. call'[c] = NoCall /\ call' \in [Caller -> Calls]
      /\ \A d \in Caller : d # c => call'[d] = call[d]
  BY <1>1, NoCallIsACall, TypesAtHand
<1>7. Types'
  BY <1>1, <1>5, <1>6 DEF IInv, Types, ast
<1>8. CallStands(c)'
  BY <1>1, <1>2, <1>6, NoCallIsACall, TypesAtHand
     DEF CallStands, CallHolds, CallHasItsEngine, CallIsFresh, Idle, StagesOf,
         Opening, Closing, Starting, Searching, Viewing, At, ast
<1>9. ~Searched(n)
  <2> SUFFICES ASSUME NEW d \in Caller, call[d].engine = n, At(d, {"search"}, "search")
               PROVE  FALSE
    BY DEF Searched
  <2>1. Searching(d)
    BY DEF Searching, At
  <2> QED
    BY <1>1, <2>1 DEF IInv, SearchesStayApart, n
<1>10. Works(c)
  <2> SUFFICES ASSUME NEW m \in DOMAIN engines
               PROVE  /\ engines'[m].revision = engines[m].revision
                      /\ engines'[m].open => engines[m].open
                      /\ Searched(m) /\ engines[m].held => engines'[m].held
    BY <1>1, <1>2, <1>5, <1>6 DEF Works, ast
  <2> QED
    BY <1>4, <1>5, <1>9
<1>11. ~Opening(c)' /\ ~Closing(c)'
  BY <1>6, NoCallIsACall DEF Opening, Closing, At
<1>12. EnginesStand'
  <2> SUFFICES ASSUME NEW m \in DOMAIN engines, engines'[m].held \/ engines'[m].open
               PROVE  FALSE
    BY <1>5 DEF EnginesStand
  <2>1. m # n /\ engines'[m] = engines[m] /\ engines[m].held /\ m # 0
    BY <1>3, <1>4, <1>5 DEF IInv, EnginesStand
  <2>2. PICK d \in Caller : call[d].engine = m /\ (Opening(d) \/ Closing(d))
    BY <1>2, <2>1 DEF IInv, EnginesStand
  <2>3. d = c
    BY <2>2, <1>7, <1>8, <1>10, WorkKeeps
  <2> QED
    BY <2>1, <2>2, <2>3 DEF n
<1>13. SearchesStayApart'
  BY <1>7, <1>8, <1>10, <1>11, WorkKeeps DEF SearchesStayApart
<1>14. ProviderStands' /\ ClosedStaysEmpty'
  <2>1. ProviderStands'
    BY <1>1, <1>2 DEF IInv, ProviderStands
  <2>2. ClosedStaysEmpty'
    BY <1>1, <1>2, <1>6, NoCallIsACall DEF IInv, ClosedStaysEmpty, At
  <2> QED
    BY <2>1, <2>2
<1> QED
  BY <1>1, <1>7, <1>8, <1>10, <1>12, <1>13, <1>14, WorkKeeps DEF IInv

\* A close takes the engine from the provider.
LEMMA CloseLocksKeeps ==
  ASSUME IInv, NEW c \in Caller, CloseLocks(c)
  PROVE  IInv'
<1> DEFINE n == provider.engine
           now == [call[c] EXCEPT !.stage = "closing", !.engine = n]
<1>1. /\ call[c].op \in {"close", "session_close"} /\ call[c].stage = "lock"
      /\ lifecycle_lock = NoOne /\ lifecycle_lock' = c /\ provider' = NoEngine
      /\ overtaken' = \/ overtaken
                      \/ call[c].op = "session_close" /\ \E other \in Caller : At(other, {"start"}, "lock")
      /\ UNCHANGED <<revision, session, engines, ast>>
      /\ CallHolds(c) /\ CallIsFresh(c)
  BY DEF CloseLocks, At, IInv, CallStands
<1>2. c \notin viewing
  BY <1>1 DEF CallHolds, Viewing, At
<1>3. call' = [call EXCEPT ![c] = now]
  BY TypesAtHand DEF CloseLocks
<1>4. n \in Nat /\ (n # 0 => n \in DOMAIN engines /\ engines[n].held)
  BY DEF IInv, Types, ProviderStands
<1>5. /\ now \in Calls /\ now.op = call[c].op /\ now.stage = "closing" /\ now.engine = n
      /\ now.since = call[c].since
  BY <1>1, <1>4, TypesAtHand DEF Calls, AllStages
<1> HIDE DEF now, n
<1>6. call'[c] = now /\ call' \in [Caller -> Calls]
      /\ \A d \in Caller : d # c => call'[d] = call[d]
  BY <1>3, <1>5, TypesAtHand
<1>7. NoEngine \in [engine : Nat, revision : Nat] /\ NoEngine.engine = 0 /\ NoEngine.revision = 0
  BY DEF NoEngine
<1>8. Types'
  <2>1. overtaken' \in BOOLEAN
    BY <1>1
  <2>2. provider' \in [engine : Nat, revision : Nat]
    BY <1>1, <1>7
  <2> QED
    BY <1>1, <1>6, <2>1, <2>2 DEF IInv, Types, ast
<1>9. CallStands(c)'
  BY <1>1, <1>2, <1>4, <1>5, <1>6, <1>7
     DEF CallStands, CallHolds, CallHasItsEngine, CallIsFresh, Idle, StagesOf,
         Opening, Closing, Starting, Searching, Viewing, At, ast
<1>10. Works(c)
  BY <1>1, <1>6 DEF Works, ast
<1>11. ProviderStands'
  BY <1>1, <1>7 DEF ProviderStands
<1>12. Closing(c)' /\ ~Opening(c)'
  BY <1>1, <1>5, <1>6 DEF Opening, Closing, At
<1>13. EnginesStand'
  <2> SUFFICES ASSUME NEW m \in DOMAIN engines, engines[m].held \/ engines[m].open
               PROVE  engines[m].held /\ n = m
    BY <1>1, <1>5, <1>6, <1>12 DEF EnginesStand
  <2>1. engines[m].held
    BY DEF IInv, EnginesStand
  <2>2. \A d \in Caller : ~Opening(d) /\ ~Closing(d)
    BY <1>1, <1>8, <1>9, <1>10, WorkKeeps DEF Opening, Closing, At
  <2> QED
    BY <2>1, <2>2 DEF IInv, EnginesStand, n
<1>14. SearchesStayApart'
  BY <1>8, <1>9, <1>10, <1>12, WorkKeeps DEF SearchesStayApart
<1>15. ClosedStaysEmpty'
  <2> SUFFICES ASSUME session.closed, ~overtaken'
               PROVE  \/ \E d \in Caller : At(d, {"session_close"}, "lock")'
                      \/ \A d \in Caller : call'[d].op # "start"
    BY <1>1, <1>7 DEF ClosedStaysEmpty
  <2>1. CASE call[c].op = "session_close"
    <3>1. \A d \in Caller : ~At(d, {"start"}, "lock")
      BY <1>1, <2>1
    <3>2. \A d \in Caller : d # c => call[d].op # "start"
      BY <3>1, <1>8, <1>9, <1>10, WorkKeeps DEF Starting, At
    <3> QED
      BY <1>1, <1>5, <1>6, <3>2
  <2>2. CASE call[c].op = "close"
    <3>1. \/ \E d \in Caller : At(d, {"session_close"}, "lock")
          \/ \A d \in Caller : call[d].op # "start"
      BY <1>1 DEF IInv, ClosedStaysEmpty
    <3> QED
      BY <1>5, <1>6, <2>2, <3>1 DEF At
  <2> QED
    BY <1>1, <2>1, <2>2
<1> QED
  BY <1>1, <1>8, <1>9, <1>10, <1>11, <1>13, <1>14, <1>15, WorkKeeps DEF IInv

\* An engine that closes lets nobody in; its view is still held.
LEMMA CloseEngineKeeps ==
  ASSUME IInv, NEW c \in Caller, CloseEngine(c)
  PROVE  IInv'
<1> DEFINE n == call[c].engine
           shut == [engines[n] EXCEPT !.open = FALSE]
<1>1. /\ call[c].op \in {"close", "session_close"} /\ call[c].stage = "closing" /\ Closing(c)
      /\ n # 0 /\ engines' = [engines EXCEPT ![n] = shut]
      /\ UNCHANGED <<revision, session, lifecycle_lock, provider, ast, call, overtaken>>
      /\ CallHolds(c) /\ CallHasItsEngine(c)
  BY DEF CloseEngine, Closing, At, IInv, CallStands
<1>2. /\ lifecycle_lock = c /\ provider.engine = 0 /\ n \in DOMAIN engines /\ engines[n].held
  BY <1>1 DEF CallHolds, CallHasItsEngine
<1>3. engines \in Seq(Engines) /\ engines[n] \in Engines
  <2>1. engines \in Seq(Engines)
    BY DEF IInv, Types
  <2> QED
    BY <1>2, <2>1
<1>4. shut \in Engines /\ shut.revision = engines[n].revision /\ ~shut.open /\ shut.held
  BY <1>2, <1>3 DEF Engines
<1> HIDE DEF n, shut
<1>5. /\ engines' \in Seq(Engines) /\ DOMAIN engines' = DOMAIN engines
      /\ engines'[n] = shut /\ \A m \in DOMAIN engines : m # n => engines'[m] = engines[m]
  BY <1>1, <1>2, <1>3, <1>4
<1>6. Types'
  BY <1>1, <1>5 DEF IInv, Types, ast
<1>7. CallStands(c)'
  <2>1. CallHolds(c)'
    BY <1>1 DEF CallHolds, Starting, Closing, Viewing, At, ast
  <2>2. CallHasItsEngine(c)'
    BY <1>1, <1>2, <1>4, <1>5 DEF CallHasItsEngine, Opening, Closing, Searching, At, n
  <2>3. CallIsFresh(c)'
    BY <1>1 DEF CallIsFresh, Idle, IInv, CallStands
  <2> QED
    BY <2>1, <2>2, <2>3 DEF CallStands
<1>8. Works(c)
  <2> SUFFICES ASSUME NEW m \in DOMAIN engines
               PROVE  /\ engines'[m].revision = engines[m].revision
                      /\ engines'[m].open => engines[m].open
                      /\ Searched(m) /\ engines[m].held => engines'[m].held
    BY <1>1, <1>2, <1>5 DEF Works, ast
  <2> QED
    BY <1>4, <1>5
<1>9. EnginesStand'
  <2> SUFFICES ASSUME NEW m \in DOMAIN engines
               PROVE  /\ engines'[m].open => engines'[m].held
                      /\ engines'[m].held =>
                           provider.engine = m
                             \/ \E d \in Caller : call[d].engine = m /\ (Opening(d) \/ Closing(d))
    BY <1>1, <1>5 DEF EnginesStand, Opening, Closing, At
  <2>1. CASE m = n
    BY <2>1, <1>1, <1>4, <1>5 DEF n
  <2>2. CASE m # n
    BY <2>2, <1>5 DEF IInv, EnginesStand
  <2> QED
    BY <2>1, <2>2
<1>10. SearchesStayApart'
  BY <1>1 DEF IInv, SearchesStayApart, Opening, Searching, At
<1>11. ProviderStands' /\ ClosedStaysEmpty'
  <2>1. ProviderStands'
    BY <1>1, <1>2 DEF IInv, ProviderStands
  <2>2. ClosedStaysEmpty'
    BY <1>1 DEF IInv, ClosedStaysEmpty, At
  <2> QED
    BY <2>1, <2>2
<1> QED
  BY <1>1, <1>6, <1>7, <1>8, <1>9, <1>10, <1>11, WorkKeeps DEF IInv

\* The view is given back once nobody searches the engine.
LEMMA CloseReturnsKeeps ==
  ASSUME IInv, NEW c \in Caller, NEW result, CloseReturns(c, result)
  PROVE  IInv'
<1> DEFINE n == call[c].engine
           shut == [engines[n] EXCEPT !.held = FALSE]
<1>1. /\ call[c].op \in {"close", "session_close"} /\ call[c].stage = "closing" /\ Closing(c)
      /\ n # 0 => ~engines[n].open /\ ~Searched(n)
      /\ engines' = IF n = 0 THEN engines ELSE [engines EXCEPT ![n] = shut]
      /\ lifecycle_lock' = NoOne /\ Unlocks(c) /\ call' = [call EXCEPT ![c] = NoCall]
      /\ UNCHANGED <<revision, provider, ast, overtaken>>
      /\ CallHolds(c) /\ CallHasItsEngine(c)
  BY DEF CloseReturns, Closing, At, Return, ReturnNaming, IInv, CallStands
<1>2. /\ lifecycle_lock = c /\ c \notin viewing /\ provider.engine = 0
      /\ n # 0 => n \in DOMAIN engines
  BY <1>1 DEF CallHolds, CallHasItsEngine, Viewing, At
<1>3. engines \in Seq(Engines) /\ (n # 0 => engines[n] \in Engines)
  <2>1. engines \in Seq(Engines)
    BY DEF IInv, Types
  <2> QED
    BY <1>2, <2>1
<1>4. n # 0 => /\ shut \in Engines /\ shut.revision = engines[n].revision
               /\ shut.open = engines[n].open /\ ~shut.held
  BY <1>3 DEF Engines
<1>s. /\ session' \in [closed : BOOLEAN, lock : Caller \cup {NoOne}]
      /\ session'.closed = session.closed
      /\ session'.lock = session.lock \/ (session.lock = c /\ session'.lock = NoOne)
      /\ session'.lock # c
  <2>1. session \in [closed : BOOLEAN, lock : Caller \cup {NoOne}]
    BY DEF IInv, Types
  <2>2. CASE call[c].op = "session_close"
    BY <1>1, <2>1, <2>2, TypesAtHand DEF CallHolds, Unlocks
  <2>3. CASE call[c].op = "close"
    BY <1>1, <2>1, <2>3 DEF CallHolds, Unlocks
  <2> QED
    BY <1>1, <2>2, <2>3
<1> HIDE DEF n, shut
<1>5. /\ engines' \in Seq(Engines) /\ DOMAIN engines' = DOMAIN engines
      /\ n # 0 => engines'[n] = shut
      /\ \A m \in DOMAIN engines : m # n => engines'[m] = engines[m]
  BY <1>1, <1>2, <1>3, <1>4
<1>z. 0 \notin DOMAIN engines
  BY <1>3
<1>6. call'[c] = NoCall /\ call' \in [Caller -> Calls]
      /\ \A d \in Caller : d # c => call'[d] = call[d]
  BY <1>1, NoCallIsACall, TypesAtHand
<1>7. Types'
  BY <1>1, <1>s, <1>5, <1>6 DEF IInv, Types, ast
<1>8. CallStands(c)'
  BY <1>1, <1>2, <1>s, <1>6, NoCallIsACall, TypesAtHand
     DEF CallStands, CallHolds, CallHasItsEngine, CallIsFresh, Idle, StagesOf,
         Opening, Closing, Starting, Searching, Viewing, At, ast
<1>9. Works(c)
  <2> SUFFICES ASSUME NEW m \in DOMAIN engines
               PROVE  /\ engines'[m].revision = engines[m].revision
                      /\ engines'[m].open => engines[m].open
                      /\ Searched(m) /\ engines[m].held => engines'[m].held
    BY <1>1, <1>2, <1>s, <1>5, <1>6 DEF Works, ast
  <2> QED
    BY <1>1, <1>z, <1>4, <1>5
<1>10. ~Opening(c)' /\ ~Closing(c)'
  BY <1>6, NoCallIsACall DEF Opening, Closing, At
<1>11. EnginesStand'
  <2> SUFFICES ASSUME NEW m \in DOMAIN engines, engines'[m].held \/ engines'[m].open
               PROVE  FALSE
    BY <1>5 DEF EnginesStand
  <2>1. m # n /\ engines'[m] = engines[m] /\ engines[m].held /\ m # 0
    BY <1>1, <1>z, <1>4, <1>5 DEF IInv, EnginesStand
  <2>2. PICK d \in Caller : call[d].engine = m /\ (Opening(d) \/ Closing(d))
    BY <1>2, <2>1 DEF IInv, EnginesStand
  <2>3. d = c
    BY <2>2, <1>7, <1>8, <1>9, WorkKeeps
  <2> QED
    BY <2>1, <2>2, <2>3 DEF n
<1>12. SearchesStayApart'
  BY <1>7, <1>8, <1>9, <1>10, WorkKeeps DEF SearchesStayApart
<1>13. ProviderStands' /\ ClosedStaysEmpty'
  <2>1. ProviderStands'
    BY <1>1, <1>2 DEF IInv, ProviderStands
  <2>2. ClosedStaysEmpty'
    <3>1. ~At(c, {"session_close"}, "lock") /\ NoCall.op # "start"
      BY <1>1, NoCallIsACall DEF At
    <3> QED
      BY <1>1, <1>s, <1>6, <3>1 DEF IInv, ClosedStaysEmpty, At
  <2> QED
    BY <2>1, <2>2
<1>14. session'.lock # NoOne => session'.closed
  BY <1>s DEF IInv
<1> QED
  BY <1>7, <1>8, <1>9, <1>11, <1>12, <1>13, <1>14, WorkKeeps DEF IInv

-----------------------------------------------------------------------------
(* The theorems *)

\* Nothing is open, held or asked for at first.
LEMMA InitIInv ==
  ASSUME Init
  PROVE  IInv
<1>1. /\ revision = 1 /\ source = 1 /\ session = [closed |-> FALSE, lock |-> NoOne]
      /\ lifecycle_lock = NoOne /\ provider = NoEngine /\ engines = <<>>
      /\ proposals = {} /\ previews = 0 /\ viewing = {}
      /\ call = [c \in Caller |-> NoCall] /\ overtaken = FALSE
      /\ \A c \in Caller : call[c] = NoCall
  BY DEF Init
<1>2. engines \in Seq(Engines) /\ DOMAIN engines = {}
  BY <1>1
<1>3. NoEngine \in [engine : Nat, revision : Nat] /\ NoEngine.engine = 0 /\ NoEngine.revision = 0
  BY DEF NoEngine
<1>4. Types
  <2>1. session \in [closed : BOOLEAN, lock : Caller \cup {NoOne}]
    <3>1. [closed |-> FALSE, lock |-> NoOne] \in [closed : BOOLEAN, lock : Caller \cup {NoOne}]
      OBVIOUS
    <3> QED
      BY <1>1, <3>1
  <2>2. call \in [Caller -> Calls] /\ provider \in [engine : Nat, revision : Nat]
    BY <1>1, <1>3, NoCallIsACall
  <2>3. /\ revision \in Nat \ {0} /\ source \in Nat /\ previews \in Nat
        /\ proposals \subseteq Proposals /\ viewing \subseteq Caller
    BY <1>1
  <2>4. lifecycle_lock \in Caller \cup {NoOne} /\ overtaken \in BOOLEAN
    BY <1>1
  <2> QED
    BY <1>2, <2>1, <2>2, <2>3, <2>4 DEF Types
<1>5. \A c \in Caller : CallStands(c)
  BY <1>1, ViewsAssumption, NoCallIsACall
     DEF CallStands, CallHolds, CallHasItsEngine, CallIsFresh, Idle, StagesOf,
         Opening, Closing, Starting, Searching, Viewing, At
<1>6. ProviderStands /\ EnginesStand /\ SearchesStayApart /\ ClosedStaysEmpty
  BY <1>1, <1>2, <1>3, NoCallIsACall
     DEF ProviderStands, EnginesStand, SearchesStayApart, ClosedStaysEmpty, Opening, At
<1> QED
  BY <1>1, <1>4, <1>5, <1>6 DEF IInv

\* Every step keeps the invariant.
LEMMA NextKeeps ==
  ASSUME IInv, [Next]_vars
  PROVE  IInv'
<1>1. ASSUME NEW c \in Caller, Locks(c) \/ Runs(c)
      PROVE  IInv'
  <2>1. CASE Locks(c)
    BY <2>1, StartLocksKeeps, StartIsRefusedKeeps, CloseLocksKeeps DEF Locks
  <2>2. CASE Opens(c) \/ FailsToOpen(c) \/ CloseEngine(c)
    BY <2>2, OpensKeeps, FailsToOpenKeeps, CloseEngineKeeps
  <2>3. CASE \E result \in {"ok", "error"} : StartReturns(c, result) \/ CloseReturns(c, result)
    BY <2>3, StartReturnsKeeps, CloseReturnsKeeps
  <2>4. CASE SearchBegins(c) \/ ProviderAnswers(c) \/ Validate(c)
    BY <2>4, SearchBeginsKeeps, ProviderAnswersKeeps, ValidateKeeps
  <2>5. CASE Enter(c) \/ SearchFails(c) \/ SearchEnds(c)
    BY <2>5, EnterKeeps, SearchEndsKeeps
  <2>6. CASE PreviewBegins(c) \/ PreviewMatches(c) \/ Store(c)
    BY <2>6, PreviewKeeps
  <2>7. CASE Take(c) \/ ApplyAcquires(c) \/ ApplyReads(c) \/ ApplyPatches(c) \/ RewriteFails(c)
    BY <2>7, TakeKeeps, ApplyAcquiresKeeps, ApplyReadsKeeps, RewriteIsOverKeeps
  <2> QED
    BY <1>1, <2>1, <2>2, <2>3, <2>4, <2>5, <2>6, <2>7 DEF Runs
<1>2. ASSUME NEW c \in Caller, Begins(c) \/ SessionCloses(c) \/ Cancel(c)
      PROVE  IInv'
  BY <1>2, BeginKeeps, SessionClosesKeeps, CancelKeeps
<1>3. CASE UNCHANGED vars
  BY <1>3 DEF vars, fff, ast, IInv, Types, CallStands, CallHolds, CallHasItsEngine, CallIsFresh,
       Idle, Opening, Closing, Starting, Searching, Viewing, At,
       ProviderStands, EnginesStand, SearchesStayApart, ClosedStaysEmpty
<1> QED
  BY <1>1, <1>2, <1>3, OthersChangeKeeps DEF Next

\* The invariant holds at all times.
THEOREM InvariantHolds == Spec => []IInv
<1>1. Init => IInv
  BY InitIInv
<1>2. IInv /\ [Next]_vars => IInv'
  BY NextKeeps
<1> QED
  BY <1>1, <1>2, PTL DEF Spec

\* Views are held exactly while they are needed (views.py:200-249,
\* service.py:166-176): an engine is open or read only with its view, the
\* finder keeps one view at most, and nothing is kept when nobody calls.
THEOREM ViewsAreKept == Spec => []ViewsAreHeldWhileNeeded
<1>1. IInv => ViewsAreHeldWhileNeeded
  <2> SUFFICES ASSUME IInv
               PROVE  ViewsAreHeldWhileNeeded
    OBVIOUS
  <2>1. ViewsAreHeldWhileRead
    <3>1. \A n \in DOMAIN engines : engines[n].open \/ Searched(n) => engines[n].held
      BY DEF IInv, EnginesStand, CallStands, CallIsFresh, Searched, Idle, At
    <3>2. provider.engine # 0 => engines[provider.engine].open
      BY DEF IInv, ProviderStands
    <3>3. \A c \in Caller : At(c, {"apply"}, "read") \/ At(c, {"apply"}, "patch") => c \in viewing
      BY DEF IInv, CallStands, CallHolds, Viewing
    <3> QED
      BY <3>1, <3>2, <3>3 DEF ViewsAreHeldWhileRead
  <2>2. ASSUME NEW m \in DOMAIN engines, NEW n \in DOMAIN engines, engines[m].held, engines[n].held
        PROVE  m = n
    <3>1. engines \in Seq(Engines) /\ m # 0 /\ n # 0
      BY DEF IInv, Types
    <3>2. CASE provider.engine # 0
      <4>1. \A c \in Caller : ~Opening(c) /\ ~Closing(c)
        BY <3>2 DEF IInv, CallStands, CallHasItsEngine
      <4> QED
        BY <2>2, <4>1 DEF IInv, EnginesStand
    <3>3. CASE provider.engine = 0
      <4>1. PICK c \in Caller : call[c].engine = m /\ (Opening(c) \/ Closing(c))
        BY <2>2, <3>1, <3>3 DEF IInv, EnginesStand
      <4>2. PICK d \in Caller : call[d].engine = n /\ (Opening(d) \/ Closing(d))
        BY <2>2, <3>1, <3>3 DEF IInv, EnginesStand
      <4>3. lifecycle_lock = c /\ lifecycle_lock = d
        BY <4>1, <4>2 DEF IInv, CallStands, CallHolds, Opening, Starting, At
      <4> QED
        BY <4>1, <4>2, <4>3
    <3> QED
      BY <3>2, <3>3
  <2>3. ASSUME \A c \in Caller : Idle(c)
        PROVE  /\ viewing = {}
               /\ \A n \in DOMAIN engines : engines[n].held =>
                    provider.engine = n /\ (session.closed => overtaken)
    <3>1. \A c \in Caller : ~Opening(c) /\ ~Closing(c) /\ ~Viewing(c)
                            /\ ~At(c, {"session_close"}, "lock")
      BY <2>3 DEF Idle, Opening, Closing, Viewing, At
    <3>2. viewing = {}
      BY <3>1 DEF IInv, Types, CallStands, CallHolds
    <3>3. ASSUME NEW n \in DOMAIN engines, engines[n].held
          PROVE  provider.engine = n /\ (session.closed => overtaken)
      <4>1. engines \in Seq(Engines) /\ n # 0
        BY DEF IInv, Types
      <4>2. provider.engine = n
        BY <3>1, <3>3 DEF IInv, EnginesStand
      <4> QED
        BY <3>1, <4>1, <4>2 DEF IInv, ClosedStaysEmpty
    <3> QED
      BY <3>2, <3>3
  <2>4. ViewsAreGivenBack
    BY <2>2, <2>3 DEF ViewsAreGivenBack
  <2> QED
    BY <2>1, <2>4 DEF ViewsAreHeldWhileNeeded
<1> QED
  BY <1>1, InvariantHolds, PTL

\* Whoever holds a lock runs on, and waits for no lock but, closing the
\* session, for the finder's (views.py:184-192, 237-249).
THEOREM NobodyWaitsForEver == Spec => []HoldersRunOn
<1>1. IInv => HoldersRunOn
  <2> SUFFICES ASSUME IInv
               PROVE  HoldersRunOn
    OBVIOUS
  <2>1. ASSUME lifecycle_lock # NoOne
        PROVE  call[lifecycle_lock].stage \in {"opening", "asking", "validate", "restart", "closing"}
    <3>1. PICK c \in Caller : c = lifecycle_lock
      BY <2>1 DEF IInv, Types
    <3>2. Starting(c) \/ Closing(c)
      BY <3>1 DEF IInv, CallStands, CallHolds
    <3> QED
      BY <3>1, <3>2, TypesAtHand DEF Starting, Closing, StagesOf
  <2>2. ASSUME session.lock # NoOne
        PROVE  At(session.lock, {"session_close"}, "lock") \/ At(session.lock, {"session_close"}, "closing")
    <3>1. PICK c \in Caller : c = session.lock
      BY <2>2 DEF IInv, Types
    <3> QED
      BY <3>1 DEF IInv, CallStands, CallHolds, At
  <2>3. \A c \in Caller : call[c].stage = "closing" => lifecycle_lock = c
    BY DEF IInv, CallStands, CallHolds, Closing
  <2> QED
    BY <2>1, <2>2, <2>3 DEF HoldersRunOn
<1> QED
  BY <1>1, InvariantHolds, PTL

\* Only the end of a search and the patch of a rewrite answer those calls
\* with success.
LEMMA AnswersOfSteps ==
  ASSUME NEW c \in Caller, Next, answer'.caller = c, answer'.result = "ok",
         call[c].op \in {"search", "apply"}
  PROVE  SearchEnds(c) \/ ApplyPatches(c)
<1>1. ~Silent
  BY ViewsAssumption DEF Silent, NoAnswer
<1>2. ASSUME NEW d \in Caller, NEW result, NEW tag, ReturnNaming(d, result, tag)
      PROVE  d = c /\ result = "ok"
  BY <1>2 DEF ReturnNaming
<1>3. \A d \in Caller : \A result : Return(d, result) => d = c /\ result = "ok"
  BY <1>2 DEF Return
<1>4. ASSUME NEW d \in Caller, Locks(d) \/ Begins(d) \/ SessionCloses(d) \/ Cancel(d)
      PROVE  FALSE
  <2>1. ~Locks(d)
    <3>1. ~StartLocks(d) /\ ~CloseLocks(d)
      BY <1>1 DEF StartLocks, CloseLocks
    <3>2. ~StartIsRefused(d)
      BY <1>3 DEF StartIsRefused
    <3> QED
      BY <3>1, <3>2 DEF Locks
  <2>2. ~Begins(d)
    BY <1>1 DEF Begins, Begin
  <2>3. ~SessionCloses(d) /\ ~Cancel(d)
    BY <1>1, <1>3 DEF SessionCloses, Cancel, Goto, At
  <2> QED
    BY <1>4, <2>1, <2>2, <2>3
<1>5. ASSUME NEW d \in Caller, Opens(d) \/ FailsToOpen(d) \/ CloseEngine(d)
               \/ \E result \in {"ok", "error"} : StartReturns(d, result) \/ CloseReturns(d, result)
      PROVE  FALSE
  BY <1>1, <1>3, <1>5 DEF Opens, FailsToOpen, CloseEngine, StartReturns, CloseReturns, Goto, At
<1>6. ASSUME NEW d \in Caller, SearchBegins(d) \/ ProviderAnswers(d) \/ Validate(d) \/ Enter(d)
               \/ SearchFails(d)
      PROVE  FALSE
  BY <1>1, <1>3, <1>6 DEF SearchBegins, ProviderAnswers, Validate, Enter, SearchFails, Goto
<1>7. ASSUME NEW d \in Caller, PreviewBegins(d) \/ PreviewMatches(d) \/ Store(d) \/ Take(d)
      PROVE  FALSE
  <2>1. ~PreviewBegins(d) /\ ~PreviewMatches(d)
    BY <1>1 DEF PreviewBegins, PreviewMatches, Goto
  <2>2. ~Store(d)
    BY <1>3 DEF Store, At
  <2>3. ~Take(d)
    <3>1. Take(d) => Silent \/ Return(d, "not_found")
      BY DEF Take
    <3> QED
      BY <1>1, <1>3, <3>1
  <2> QED
    BY <1>7, <2>1, <2>2, <2>3
<1>8. ASSUME NEW d \in Caller, ApplyAcquires(d) \/ ApplyReads(d) \/ RewriteFails(d)
      PROVE  FALSE
  BY <1>1, <1>3, <1>8 DEF ApplyAcquires, ApplyReads, RewriteFails, Goto
<1>9. ASSUME NEW d \in Caller, SearchEnds(d) \/ ApplyPatches(d)
      PROVE  d = c
  BY <1>2, <1>3, <1>9 DEF SearchEnds, ApplyPatches
<1>10. ~Change /\ ~Expire
  BY <1>1 DEF Change, Expire
<1> QED
  BY <1>4, <1>5, <1>6, <1>7, <1>8, <1>9, <1>10 DEF Next, Runs

\* A search that answers read a view that was current in the course of it,
\* and names that one if any; so was the revision of a rewrite that lands
\* (views.py:114-122, 227-235, 251-269).
THEOREM AnswersAreCurrent == Spec => AnswersAreOfACurrentView
<1> DEFINE used(c) == IF call[c].engine # 0 THEN engines[call[c].engine].revision
                      ELSE call[c].proposal.revision
           IsCurrent ==
             \A c \in Caller :
               call[c].op \in {"search", "apply"} /\ answer'.caller = c /\ answer'.result = "ok" =>
                 /\ used(c) \in call[c].since .. revision
                 /\ answer'.revision \in {Unnamed, used(c)}
<1>1. IInv /\ Next => IsCurrent
  <2> SUFFICES ASSUME IInv, Next, NEW c \in Caller,
                      call[c].op \in {"search", "apply"}, answer'.caller = c, answer'.result = "ok"
               PROVE  /\ used(c) \in call[c].since .. revision
                      /\ answer'.revision \in {Unnamed, used(c)}
    OBVIOUS
  <2>1. CallHasItsEngine(c) /\ CallIsFresh(c)
    BY DEF IInv, CallStands
  <2>2. CASE SearchEnds(c)
    <3>1. /\ call[c].op = "search" /\ call[c].stage = "search"
          /\ answer'.revision \in {Unnamed, engines[call[c].engine].revision}
      BY <2>2 DEF SearchEnds, ReturnNaming, At
    <3>2. call[c].engine \in DOMAIN engines
      BY <2>1, <3>1 DEF CallHasItsEngine, Searching
    <3>3. call[c].engine # 0
      BY <3>2 DEF IInv, Types
    <3>4. /\ engines[call[c].engine].revision = call[c].asked
          /\ call[c].since <= call[c].asked /\ call[c].asked <= revision
      BY <2>1, <3>1 DEF CallIsFresh, Idle
    <3> QED
      BY <3>1, <3>3, <3>4, TypesAtHand
  <2>3. CASE ApplyPatches(c)
    <3>1. call[c].op = "apply" /\ call[c].stage = "patch" /\ answer'.revision = Unnamed
      BY <2>3 DEF ApplyPatches, Return, ReturnNaming, At
    <3>2. call[c].engine = 0
      BY <2>1, <3>1 DEF CallHasItsEngine
    <3>3. call[c].since <= call[c].proposal.revision /\ call[c].proposal.revision <= revision
      BY <2>1, <3>1 DEF CallIsFresh, Idle
    <3>4. call[c].proposal.revision \in Nat
      BY TypesAtHand DEF Proposals
    <3> QED
      BY <3>1, <3>2, <3>3, <3>4, TypesAtHand
  <2> QED
    BY <2>2, <2>3, AnswersOfSteps
<1>2. IInv /\ [Next]_vars => [IsCurrent]_vars
  BY <1>1
<1> QED
  BY <1>2, InvariantHolds, PTL DEF Spec, AnswersAreOfACurrentView
=============================================================================
