------------------------- MODULE ObservationLedger -------------------------
(***************************************************************************)
(* The state machine of one session's observation ledger: whatever is      *)
(* presented, in whatever order texts appear on disk, and whichever tags   *)
(* and texts the callers ask about.  Every operation holds the ledger's    *)
(* mutex from its first read to its last write, so each is one action.     *)
(*                                                                         *)
(* shown, known, used and decision are history: they record what callers   *)
(* were told and change nothing the ledger does.                           *)
(***************************************************************************)
EXTENDS Ledger

CONSTANTS
  Generations, \* file generations a presentation may carry
  Limits,      \* retention limits a policy may set
  MaxClock     \* bound on the use counter: the model stops there

ASSUME LimitsAssumption == Generations \subseteq Nat /\ Limits \subseteq Retention
ASSUME MaxClockAssumption == MaxClock \in Nat

VARIABLES
  ledger,      \* the ObservationLedger
  shown,       \* lines presented so far, as <<path, text, line number>>
  known,       \* texts presented so far, as <<path, text>>
  used,        \* when each text was last presented or granted, 0 for never
  decision     \* the answer to the last request, or "none"

vars == <<ledger, shown, known, used, decision>>

NoDecision == [result |-> "none"]

\* Answers to an authorization request for the entry at key.
Answer(key, result) ==
  IF result = "granted"
  THEN [result |-> result, path |-> key[1], tag |-> TagOf[key[2]], text |-> key[2],
        lines |-> ledger.entries[key].seen, complete |-> ledger.entries[key].complete]
  ELSE [result |-> result, asked |-> key]

Init ==
  /\ ledger = EmptyLedger
  /\ shown = {}
  /\ known = {}
  /\ used = [k \in Key |-> 0]
  /\ decision = NoDecision

\* A read, a post-edit source or validated source evidence is presented:
\* its caller rendered some lines of the text and calls it complete only
\* when it rendered every line.
Record(path, text) ==
  \E rendered \in SUBSET DOMAIN text, generation \in Generations, limits \in Limits :
    \E complete \in {FALSE, rendered = DOMAIN text} :
      /\ ledger' = RecordIn(ledger, path, text, generation, rendered, complete, limits)
      /\ shown' = shown \cup {<<path, text, n>> : n \in rendered}
      /\ known' = known \cup {<<path, text>>}
      /\ used' = [used EXCEPT ![<<path, text>>] = ledger.clock + 1]
      /\ decision' = NoDecision

Decide(key, result) ==
  /\ ledger' = AfterResult(ledger, key, result)
  /\ used' = IF result = "granted" THEN [used EXCEPT ![key] = ledger.clock + 1] ELSE used
  /\ decision' = Answer(key, result)
  /\ UNCHANGED <<shown, known>>

\* A change names the tag of the text it was planned against; current is
\* the text now on disk.
Resolve(path, tag, current) ==
  Decide(<<path, current>>, ResolveResult(ledger, path, tag, current))

\* A hashline edit asks for the observation behind a tag, whatever is on
\* disk by now.
ResolveTag(path, tag) ==
  LET key == IF <<path, tag>> \in DOMAIN ledger.tags /\ ledger.tags[<<path, tag>>] # Collision
             THEN <<path, ledger.tags[<<path, tag>>]>> ELSE <<path, tag>>
  IN Decide(key, ResolveTagResult(ledger, path, tag))

\* A change without a tag: the text on disk must itself be retained.
Current(path, current) ==
  Decide(<<path, current>>, CurrentResult(ledger, path, current))

Next ==
  /\ ledger.clock < MaxClock
  /\ \E path \in Path :
       \/ \E text \in Text : Record(path, text)
       \/ \E tag \in Tag, current \in Text : Resolve(path, tag, current)
       \/ \E tag \in Tag : ResolveTag(path, tag)
       \/ \E current \in Text : Current(path, current)

Spec == Init /\ [][Next]_vars
-----------------------------------------------------------------------------
(* Properties *)

TypeOK ==
  /\ DOMAIN ledger = {"entries", "tags", "tombstones", "retained_bytes", "clock"}
  /\ DOMAIN ledger.entries \subseteq Key
  /\ \A k \in DOMAIN ledger.entries : ledger.entries[k] \in Entry
  /\ DOMAIN ledger.tags \subseteq TagKey
  /\ \A k \in DOMAIN ledger.tags : ledger.tags[k] \in Text \cup {Collision}
  /\ ledger.tombstones \subseteq TagKey
  /\ ledger.retained_bytes \in Nat
  /\ ledger.clock \in Nat
  /\ shown \subseteq Path \X Text \X (Nat \ {0})
  /\ known \subseteq Key
  /\ used \in [Key -> Nat]

\* A change is never authorized beyond what was presented: every line a
\* grant covers was rendered from exactly the granted text at that path, and
\* a grant of the whole file means that every line of it was rendered.
GrantsOnlyPresentedLines ==
  decision.result = "granted" =>
    /\ <<decision.path, decision.text>> \in known
    /\ \A n \in decision.lines : <<decision.path, decision.text, n>> \in shown
    /\ decision.complete =>
         \A n \in DOMAIN decision.text : <<decision.path, decision.text, n>> \in shown

\* A tag never stands for the wrong text: once two texts with one tag were
\* presented at a path, none of them is granted again, by that tag or by
\* content, even after both were evicted and one was presented anew.
GrantsAreUnambiguous ==
  decision.result = "granted" =>
    \A other \in Text :
      <<decision.path, other>> \in known /\ TagOf[other] = TagOf[decision.text]
        => other = decision.text

\* The incremental accounting of retained_bytes agrees with a recount.
RetainedBytesAreExact ==
  ledger.retained_bytes = RetainedBy(ledger.entries, DOMAIN ledger.entries)

\* Eviction forgets in order of last use: whatever was presented or granted
\* after a retained entry is retained as well.
RetainsMostRecentlyUsed ==
  \A k \in DOMAIN ledger.entries, j \in known :
    used[j] > used[k] => j \in DOMAIN ledger.entries

Authority == INSTANCE ObservationAuthority

\* The ledger implements the authority: the refinement mapping is the
\* identity on the history of what was shown and decided.
ImplementsAuthority == Authority!ASpec
=============================================================================
