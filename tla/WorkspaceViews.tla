---------------------------- MODULE WorkspaceViews ----------------------------
(***************************************************************************)
(* The native services of a session whose files are shown through views:   *)
(* the fuzzy finder, which keeps one view while its index is open, and the *)
(* syntax-aware rewrites, which take a view for each call.  Asyncio tasks  *)
(* share them; a step runs from one await to the next.                     *)
(*                                                                         *)
(* The view provider is external: a view shows the workspace as it was     *)
(* when the view was acquired, and any acquisition may fail.  An engine    *)
(* starts, answers, drains and closes as FffIndex says.                    *)
(***************************************************************************)
EXTENDS Integers, Sequences, FiniteSets, SequencesExt

CONSTANTS
  Caller,        \* asyncio tasks that use the session
  MaxPending,    \* AstLimits.max_pending_proposals
  MaxRevision,   \* bound on the changes made by others
  MaxEngines,    \* bound on the engines ever made
  MaxPreviews,   \* bound on the previews ever stored
  NoOne          \* a lock is free

ASSUME ViewsAssumption ==
  /\ NoOne \notin Caller
  /\ {MaxPending, MaxRevision, MaxEngines, MaxPreviews} \subseteq Nat \ {0}

VARIABLES
  revision,        \* the provider's current revision, and
  source,          \* the revision at which the rewritten file last changed
  session,         \* NativeWorkspaceSession: _closed and the holder of _close_lock
  lifecycle_lock,  \* the caller that holds NativeViewFffProvider._lifecycle_lock
  provider,        \* its _engine (0: None) and _revision (0: empty)
  engines,         \* every FffEngine made: its view's revision, is it open, is the view held
  proposals,       \* NativeViewAstProvider._proposals: the pending ones, older for a smaller id
  previews,        \* previews stored so far: the identifiers in use
  viewing,         \* the callers that hold a view for one rewrite call
  call,            \* [Caller -> the call under way]
  answer,          \* history: the call that this step answered, and the revision it named
  overtaken        \* history: a start came after the closing of the session, or it was given up

fff == <<lifecycle_lock, provider, engines>>
ast == <<source, proposals, previews, viewing>>
vars == <<revision, session, fff, ast, call, answer, overtaken>>

NoProposal == [id |-> 0, revision |-> 0, source |-> 0, expired |-> FALSE]
NoCall == [op |-> "none", stage |-> "idle", engine |-> 0, asked |-> 0,
           since |-> 0, proposal |-> NoProposal]
Unnamed == -1
NoAnswer == [caller |-> NoOne, result |-> "none", revision |-> Unnamed]
NoEngine == [engine |-> 0, revision |-> 0]

Idle(c) == call[c].stage = "idle"
At(c, ops, stage) == call[c].op \in ops /\ call[c].stage = stage
Silent == answer' = NoAnswer
Goto(c, stage) == call' = [call EXCEPT ![c].stage = stage] /\ Silent
ReturnNaming(c, result, tag) ==
  /\ call' = [call EXCEPT ![c] = NoCall]
  /\ answer' = [caller |-> c, result |-> result, revision |-> tag]
Return(c, result) == ReturnNaming(c, result, Unnamed)
Searched(n) == \E c \in Caller : call[c].engine = n /\ At(c, {"search"}, "search")

Init ==
  /\ revision = 1 /\ source = 1
  /\ session = [closed |-> FALSE, lock |-> NoOne]
  /\ lifecycle_lock = NoOne
  /\ provider = NoEngine
  /\ engines = <<>>
  /\ proposals = {} /\ previews = 0
  /\ viewing = {}
  /\ call = [c \in Caller |-> NoCall]
  /\ answer = NoAnswer
  /\ overtaken = FALSE

\* The session's properties refuse a closed one, but a caller may have kept a
\* service from before, which does not ask; nor does close.
Begin(c, op, stage) ==
  /\ Idle(c)
  /\ call' = [call EXCEPT ![c] = [NoCall EXCEPT !.op = op, !.stage = stage, !.since = revision]]
  /\ overtaken' = (overtaken \/ (op = "start" /\ session.closed))
  /\ Silent
  /\ UNCHANGED <<revision, session, fff, ast>>
-----------------------------------------------------------------------------
(* Starting and stopping the finder *)

\* start, under the lock: without an engine a view is acquired and an engine
\* is made on it; with one the revision is asked first.
StartLocks(c) ==
  /\ At(c, {"start"}, "lock") /\ lifecycle_lock = NoOne
  /\ lifecycle_lock' = c
  /\ IF provider.engine = 0
     THEN /\ Len(engines) < MaxEngines
          /\ engines' = Append(engines, [revision |-> revision, open |-> TRUE, held |-> TRUE])
          /\ call' = [call EXCEPT ![c].stage = "opening", ![c].engine = Len(engines) + 1]
     ELSE /\ call' = [call EXCEPT ![c].stage = "asking"]
          /\ UNCHANGED engines
  /\ Silent /\ UNCHANGED <<revision, session, provider, ast, overtaken>>

\* The view cannot be had, or cannot be used: it is not read-only, or its
\* root is relative.
StartIsRefused(c) ==
  /\ At(c, {"start"}, "lock") /\ lifecycle_lock = NoOne /\ provider.engine = 0
  /\ Return(c, "error")
  /\ UNCHANGED <<revision, session, fff, ast, overtaken>>

Opens(c) ==
  /\ At(c, {"start"}, "opening")
  /\ provider' = [engine |-> call[c].engine, revision |-> engines[call[c].engine].revision]
  /\ Goto(c, "restart")
  /\ UNCHANGED <<revision, session, lifecycle_lock, engines, ast, overtaken>>

\* Mutant: the engine of a failed start is closed and its view forgotten.
FailsToOpenForgetting(c) ==
  /\ At(c, {"start"}, "opening")
  /\ engines' = [engines EXCEPT ![call[c].engine].open = FALSE]
  /\ lifecycle_lock' = NoOne
  /\ Return(c, "error")
  /\ UNCHANGED <<revision, session, provider, ast, overtaken>>

\* Mutant: a failed start is undone by close, which takes the lock itself.
FailsToOpenByClosing(c) ==
  /\ At(c, {"start"}, "opening")
  /\ call' = [call EXCEPT ![c].op = "close", ![c].stage = "lock"]
  /\ Silent /\ UNCHANGED <<revision, session, fff, ast, overtaken>>

\* The engine cannot start, or the caller is cancelled: the engine is closed,
\* then the view is given back, and nothing of it was ever seen by others.
FailsToOpen(c) ==
  /\ At(c, {"start"}, "opening")
  /\ engines' = [engines EXCEPT ![call[c].engine] = [@ EXCEPT !.open = FALSE, !.held = FALSE]]
  /\ lifecycle_lock' = NoOne
  /\ Return(c, "error")
  /\ UNCHANGED <<revision, session, provider, ast, overtaken>>

\* start ends with the engine's own start, which may fail once more.
StartReturns(c, result) ==
  /\ At(c, {"start"}, "restart")
  /\ lifecycle_lock' = NoOne
  /\ Return(c, result)
  /\ UNCHANGED <<revision, session, provider, engines, ast, overtaken>>

\* close, under the lock: the provider forgets its engine before the engine
\* is closed.  Closing the session closes the provider once, and does not
\* see a start that still waits for the lock.
CloseLocks(c) ==
  /\ At(c, {"close", "session_close"}, "lock") /\ lifecycle_lock = NoOne
  /\ lifecycle_lock' = c
  /\ provider' = NoEngine
  /\ call' = [call EXCEPT ![c].stage = "closing", ![c].engine = provider.engine]
  /\ overtaken' = \/ overtaken
                  \/ call[c].op = "session_close" /\ \E other \in Caller : At(other, {"start"}, "lock")
  /\ Silent /\ UNCHANGED <<revision, session, engines, ast>>

\* The native close: no call enters the engine any more, and it waits for
\* those that are in it.
CloseEngine(c) ==
  /\ At(c, {"close", "session_close"}, "closing")
  /\ call[c].engine # 0 /\ engines[call[c].engine].open
  /\ engines' = [engines EXCEPT ![call[c].engine].open = FALSE]
  /\ Silent /\ UNCHANGED <<revision, session, lifecycle_lock, provider, ast, call, overtaken>>

Unlocks(c) ==
  session' = IF call[c].op = "session_close" THEN [session EXCEPT !.lock = NoOne] ELSE session

\* Mutant: the view is given back while the engine drains.
CloseReturnsAtOnce(c, result) ==
  LET n == call[c].engine
  IN /\ At(c, {"close", "session_close"}, "closing")
     /\ n # 0 => ~engines[n].open
     /\ engines' = IF n = 0 THEN engines ELSE [engines EXCEPT ![n].held = FALSE]
     /\ lifecycle_lock' = NoOne
     /\ Unlocks(c)
     /\ Return(c, result)
     /\ UNCHANGED <<revision, provider, ast, overtaken>>

\* The engine has let go, whatever its close answered: the view is given back.
CloseReturns(c, result) ==
  LET n == call[c].engine
  IN /\ At(c, {"close", "session_close"}, "closing")
     /\ n # 0 => ~engines[n].open /\ ~Searched(n)
     /\ engines' = IF n = 0 THEN engines ELSE [engines EXCEPT ![n].held = FALSE]
     /\ lifecycle_lock' = NoOne
     /\ Unlocks(c)
     /\ Return(c, result)
     /\ UNCHANGED <<revision, provider, ast, overtaken>>

\* NativeWorkspaceSession.close: the first closer marks the session closed
\* and closes its services; the others wait for it and return.
SessionCloses(c) ==
  /\ At(c, {"session_close"}, "close_lock") /\ session.lock = NoOne
  /\ IF session.closed
     THEN Return(c, "ok") /\ UNCHANGED session
     ELSE Goto(c, "lock") /\ session' = [closed |-> TRUE, lock |-> c]
  /\ UNCHANGED <<revision, fff, ast, overtaken>>
-----------------------------------------------------------------------------
(* Searching *)

\* find, wait_ready, grep and multi_grep take the engine, then ask for the
\* current revision, which the provider reads before they run on.
SearchBegins(c) ==
  /\ At(c, {"search"}, "take")
  /\ IF provider.engine = 0
     THEN Return(c, "stale")
     ELSE /\ call' = [call EXCEPT ![c].engine = provider.engine, ![c].stage = "asking"]
          /\ Silent
  /\ UNCHANGED <<revision, session, fff, ast, overtaken>>

ProviderAnswers(c) ==
  /\ At(c, {"search", "start"}, "asking")
  /\ call' = [call EXCEPT ![c].asked = revision, ![c].stage = "validate"]
  /\ Silent /\ UNCHANGED <<revision, session, fff, ast, overtaken>>

\* Mutant: the revision is not compared with that of the view.
ValidateAnything(c) ==
  /\ At(c, {"search", "start"}, "validate")
  /\ Goto(c, IF call[c].op = "start" THEN "restart" ELSE "enter")
  /\ UNCHANGED <<revision, session, fff, ast, overtaken>>

\* _validate_revision compares with the provider's revision of this moment.
Validate(c) ==
  /\ At(c, {"search", "start"}, "validate")
  /\ IF call[c].asked = provider.revision
     THEN Goto(c, IF call[c].op = "start" THEN "restart" ELSE "enter") /\ UNCHANGED lifecycle_lock
     ELSE /\ Return(c, "stale")
          /\ lifecycle_lock' = IF call[c].op = "start" THEN NoOne ELSE lifecycle_lock
  /\ UNCHANGED <<revision, session, provider, engines, ast, overtaken>>

\* The engine that was taken answers, or is closed by now.
Enter(c) ==
  /\ At(c, {"search"}, "enter")
  /\ IF engines[call[c].engine].open THEN Goto(c, "search") ELSE Return(c, "closed")
  /\ UNCHANGED <<revision, session, fff, ast, overtaken>>

SearchFails(c) ==
  /\ At(c, {"search"}, "search")
  /\ Return(c, "error")
  /\ UNCHANGED <<revision, session, fff, ast, overtaken>>

\* Mutant: a result names the provider's revision of the moment it ends.
SearchEndsNamingNow(c) ==
  /\ At(c, {"search"}, "search")
  /\ \E tag \in {Unnamed, provider.revision} : ReturnNaming(c, "ok", tag)
  /\ UNCHANGED <<revision, session, fff, ast, overtaken>>

\* _search_content (grep and multi_grep) names the revision that was taken
\* with the engine; the answers of find and wait_ready name none.
SearchEnds(c) ==
  /\ At(c, {"search"}, "search")
  /\ \E tag \in {Unnamed, engines[call[c].engine].revision} : ReturnNaming(c, "ok", tag)
  /\ UNCHANGED <<revision, session, fff, ast, overtaken>>
-----------------------------------------------------------------------------
(* Rewriting *)

Unexpired(stored) == {proposal \in stored : ~proposal.expired}

\* preview_rewrite matches in a view of its own, and gives the view back
\* before the proposal is stored.
PreviewBegins(c) ==
  /\ At(c, {"preview"}, "acquire")
  /\ previews + Cardinality({other \in Caller : call[other].op = "preview" /\ call[other].stage # "acquire"}) < MaxPreviews
  /\ viewing' = viewing \cup {c}
  /\ call' = [call EXCEPT ![c].proposal = [NoProposal EXCEPT !.revision = revision, !.source = source],
                          ![c].stage = "match"]
  /\ Silent /\ UNCHANGED <<revision, session, fff, source, proposals, previews, overtaken>>

PreviewMatches(c) ==
  /\ At(c, {"preview"}, "match")
  /\ viewing' = viewing \ {c}
  /\ Goto(c, "store")
  /\ UNCHANGED <<revision, session, fff, source, proposals, previews, overtaken>>

\* _store: expired proposals go, then the oldest ones until there is room.
Store(c) ==
  LET kept == Unexpired(proposals)
      room == {old \in kept : Cardinality({other \in kept : other.id >= old.id}) < MaxPending}
  IN /\ At(c, {"preview"}, "store")
     /\ previews' = previews + 1
     /\ proposals' = room \cup {[call[c].proposal EXCEPT !.id = previews']}
     /\ Return(c, "ok")
     /\ UNCHANGED <<revision, session, fff, source, viewing, overtaken>>

\* _take: a proposal leaves the store whatever becomes of the call.
Take(c) ==
  /\ At(c, {"apply"}, "take")
  /\ \/ \E found \in proposals :
          /\ proposals' = Unexpired(proposals \ {found})
          /\ IF found.expired
             THEN Return(c, "not_found")
             ELSE /\ call' = [call EXCEPT ![c].proposal = found, ![c].stage = "acquire"]
                  /\ Silent
     \/ proposals' = Unexpired(proposals) /\ Return(c, "not_found")
  /\ UNCHANGED <<revision, session, fff, source, previews, viewing, overtaken>>

\* apply_rewrite holds a view until its patch has landed.
ApplyAcquires(c) ==
  /\ At(c, {"apply"}, "acquire")
  /\ IF revision = call[c].proposal.revision
     THEN Goto(c, "read") /\ viewing' = viewing \cup {c}
     ELSE Return(c, "stale") /\ UNCHANGED viewing
  /\ UNCHANGED <<revision, session, fff, source, proposals, previews, overtaken>>

\* _patches reads the workspace, not the view, and compares what it reads.
ApplyReads(c) ==
  /\ At(c, {"apply"}, "read")
  /\ IF source = call[c].proposal.source
     THEN Goto(c, "patch") /\ UNCHANGED viewing
     ELSE Return(c, "stale") /\ viewing' = viewing \ {c}
  /\ UNCHANGED <<revision, session, fff, source, proposals, previews, overtaken>>

\* The patch finds its lines in the file of this moment, which may have
\* changed elsewhere since it was read; the files provider and the edit mode
\* may also refuse it, as any other await of a rewrite may raise.
ApplyPatches(c) ==
  /\ At(c, {"apply"}, "patch")
  /\ revision' = revision + 1 /\ source' = revision'
  /\ viewing' = viewing \ {c}
  /\ Return(c, "ok")
  /\ UNCHANGED <<session, fff, proposals, previews, overtaken>>

RewriteFails(c) ==
  /\ At(c, {"preview"}, "acquire") \/ At(c, {"preview"}, "match")
     \/ At(c, {"apply"}, "acquire") \/ At(c, {"apply"}, "read") \/ At(c, {"apply"}, "patch")
  /\ viewing' = viewing \ {c}
  /\ Return(c, "error")
  /\ UNCHANGED <<revision, session, fff, source, proposals, previews, overtaken>>

Expire ==
  /\ \E old \in Unexpired(proposals) :
       proposals' = (proposals \ {old}) \cup {[old EXCEPT !.expired = TRUE]}
  /\ Silent /\ UNCHANGED <<revision, session, fff, source, previews, viewing, call, overtaken>>
-----------------------------------------------------------------------------
\* A task is cancelled where it waits for a lock or for the revision; where
\* it waits for a native job it is answered only when the job has ended.
Cancel(c) ==
  /\ call[c].stage \in {"lock", "close_lock", "asking"}
  /\ lifecycle_lock' = IF lifecycle_lock = c THEN NoOne ELSE lifecycle_lock
  /\ IF call[c].stage = "lock"
     THEN Unlocks(c) /\ overtaken' = (overtaken \/ call[c].op = "session_close")
     ELSE UNCHANGED <<session, overtaken>>
  /\ Return(c, "cancelled")
  /\ UNCHANGED <<revision, provider, engines, ast>>

\* Others change the workspace, the file that a rewrite is about or another.
Change ==
  /\ revision < MaxRevision
  /\ revision' = revision + 1
  /\ source' \in {source, revision'}
  /\ Silent /\ UNCHANGED <<session, fff, proposals, previews, viewing, call, overtaken>>

Begins(c) ==
  \/ \E op \in {"start", "close"} : Begin(c, op, "lock")
  \/ Begin(c, "session_close", "close_lock")
  \/ \E op \in {"search", "apply"} : Begin(c, op, "take")
  \/ Begin(c, "preview", "acquire")

Locks(c) == StartLocks(c) \/ StartIsRefused(c) \/ CloseLocks(c)

Runs(c) ==
  \/ Opens(c) \/ FailsToOpen(c) \/ CloseEngine(c)
  \/ \E result \in {"ok", "error"} : StartReturns(c, result) \/ CloseReturns(c, result)
  \/ SearchBegins(c) \/ ProviderAnswers(c) \/ Validate(c)
  \/ Enter(c) \/ SearchFails(c) \/ SearchEnds(c)
  \/ PreviewBegins(c) \/ PreviewMatches(c) \/ Store(c)
  \/ Take(c) \/ ApplyAcquires(c) \/ ApplyReads(c) \/ ApplyPatches(c) \/ RewriteFails(c)

Next ==
  \/ \E c \in Caller : Begins(c) \/ Locks(c) \/ SessionCloses(c) \/ Runs(c) \/ Cancel(c)
  \/ Expire \/ Change

Spec == Init /\ [][Next]_vars
-----------------------------------------------------------------------------
(* Properties *)

\* A search that answers read a view that was current at some moment of the
\* call, whatever was closed and started meanwhile, and a content search
\* names that very view; a rewrite lands only if the revision it was
\* previewed at was current at some moment of its call (views.py:114-122,
\* 227-235, 251-269).
AnswersAreOfACurrentView ==
  [][\A c \in Caller :
       LET n == call[c].engine
           used == IF n # 0 THEN engines[n].revision ELSE call[c].proposal.revision
       IN call[c].op \in {"search", "apply"} /\ answer'.caller = c /\ answer'.result = "ok" =>
            /\ used \in call[c].since .. revision
            /\ answer'.revision \in {Unnamed, used}]_vars

\* An engine is read, or open, only while its view is held, and so are the
\* views of rewrites; the provider shows only an engine that is open
\* (views.py:200-220, 237-249).
ViewsAreHeldWhileRead ==
  /\ \A n \in DOMAIN engines : engines[n].open \/ Searched(n) => engines[n].held
  /\ provider.engine # 0 => engines[provider.engine].open
  /\ \A c \in Caller : At(c, {"apply"}, "read") \/ At(c, {"apply"}, "patch") => c \in viewing

\* No view is kept for nothing.  At most one is kept for the finder, none
\* between calls but the provider's, and none after the session is closed,
\* unless its close was cancelled while it waited for a start, or a start
\* waited behind it or came later, on a provider kept from before
\* (service.py:166-176, _services.py:85-91).
ViewsAreGivenBack ==
  /\ \A m, n \in DOMAIN engines : engines[m].held /\ engines[n].held => m = n
  /\ (\A c \in Caller : Idle(c)) =>
       /\ viewing = {}
       /\ \A n \in DOMAIN engines : engines[n].held =>
            provider.engine = n /\ (session.closed => overtaken)

\* Views are held exactly while they are needed, through failing starts,
\* closes with searches under way, and cancellations.
ViewsAreHeldWhileNeeded == ViewsAreHeldWhileRead /\ ViewsAreGivenBack

\* Nobody waits for ever: the finder's lock is held by a call that waits for
\* no lock, the session's by a closing that waits at most for the finder's,
\* and what is closing waits for searches, which take no lock
\* (views.py:184-192, 237-249, service.py:166-176).
HoldersRunOn ==
  /\ lifecycle_lock # NoOne =>
       call[lifecycle_lock].stage \in {"opening", "asking", "validate", "restart", "closing"}
  /\ session.lock # NoOne => At(session.lock, {"session_close"}, "lock")
                              \/ At(session.lock, {"session_close"}, "closing")
  /\ \A c \in Caller : call[c].stage = "closing" => lifecycle_lock = c
=============================================================================
