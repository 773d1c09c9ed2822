------------------------------- MODULE Ledger -------------------------------
(***************************************************************************)
(* The observation ledger of one workspace session                         *)
(* (src/src/workspace/observations.rs) as operators on a ledger value, so  *)
(* that the state machine of one ledger (ObservationLedger) and the        *)
(* composition of several sessions (WorkspaceMutations) share them.        *)
(*                                                                         *)
(* A text is the sequence of its normalized lines; it stands for its own   *)
(* SHA-256 digest (two texts of a model never share a digest), while       *)
(* TagOf, the first four hex digits of the digest, may collide.  The       *)
(* digest retained for line n of an entry is that of the n-th line of the  *)
(* entry's own text, so an entry keeps the numbers of its lines only.      *)
(***************************************************************************)
EXTENDS Integers, Sequences, FiniteSets

CONSTANTS
  Path,        \* normalized relative paths
  LineText,    \* contents of one line
  Text,        \* normalized file contents
  Tag,         \* four-digit observation tags
  TagOf,       \* the tag of each text
  Collision,   \* TagState::Collision
  EntryBytes,  \* bytes an entry retains besides its lines
  LineBytes    \* bytes an entry retains for each line it has shown

ASSUME TextAssumption == Text \subseteq Seq(LineText)
ASSUME TagAssumption == TagOf \in [Text -> Tag] /\ Collision \notin Text
ASSUME SizeAssumption == EntryBytes \in Nat /\ LineBytes \in Nat

Key == Path \X Text
TagKey == Path \X Tag

Entry == [seen : SUBSET (Nat \ {0}), complete : BOOLEAN,
          generation : Nat, last_used : Nat]

Retention == [max_entries : Nat, max_bytes : Nat]

\* ObservationLedger::default()
EmptyLedger ==
  [entries |-> [k \in {} |-> 0], tags |-> [k \in {} |-> 0],
   tombstones |-> {}, retained_bytes |-> 0, clock |-> 0]

SatSub(a, b) == IF a >= b THEN a - b ELSE 0

-----------------------------------------------------------------------------
(* Accounting and eviction *)

RetainedSize(entry) == EntryBytes + LineBytes * Cardinality(entry.seen)

\* What the entries with keys in K retain, counted afresh.
RetainedBy(entries, K) ==
    EntryBytes * Cardinality(K)
  + LineBytes * Cardinality({kn \in K \X UNION {entries[k].seen : k \in K} :
                               kn[2] \in entries[kn[1]].seen})

Keep(entries, K) == [k \in K |-> entries[k]]

\* The accounted bytes once only the keys in K are left.
BytesWithout(entries, bytes, K) ==
  SatSub(bytes, RetainedBy(entries, DOMAIN entries \ K))

\* evict removes the least recently used entry other than the protected one
\* until the rest fits: it keeps an entry exactly when that entry, those
\* used since and the protected one fit together.
Survivors(entries, bytes, limits, protected) ==
  LET Fits(K) ==
        /\ Cardinality(K) <= limits.max_entries
        /\ BytesWithout(entries, bytes, K) <= limits.max_bytes
      Since(k) == {j \in DOMAIN entries : entries[j].last_used >= entries[k].last_used}
  IN {k \in DOMAIN entries : k = protected \/ Fits(Since(k) \cup {protected})}

-----------------------------------------------------------------------------
(* Recording a presentation *)

\* Mutant: the latest digest takes the tag over.
RegisteredTagsLatest(ledger, path, text) ==
  LET key == <<path, TagOf[text]>>
  IN [t \in DOMAIN ledger.tags \cup {key} |-> IF t # key THEN ledger.tags[t] ELSE text]

\* register_tag: the first digest owns the tag, a second one makes the tag
\* ambiguous for good.
RegisteredTags(ledger, path, text) ==
  LET key == <<path, TagOf[text]>>
  IN [t \in DOMAIN ledger.tags \cup {key} |->
        IF t # key THEN ledger.tags[t]
        ELSE IF key \in DOMAIN ledger.tags /\ ledger.tags[key] # text
             THEN Collision ELSE text]

Ambiguous(ledger, path, text) ==
  LET key == <<path, TagOf[text]>>
  IN key \in DOMAIN ledger.tags /\ ledger.tags[key] \notin {text, Collision}

\* Mutant: only the present record's ambiguity is remembered.
TombstonesForgotten(ledger, path, text) ==
  IF Ambiguous(ledger, path, text) THEN {<<path, TagOf[text]>>} ELSE {}

TombstonesAfter(ledger, path, text) ==
  ledger.tombstones \cup
    IF Ambiguous(ledger, path, text) THEN {<<path, TagOf[text]>>} ELSE {}

\* Mutant: entries are merged by path, not by path and digest.
MergedEntryByPath(ledger, key, generation, rendered, complete) ==
  LET same == {k \in DOMAIN ledger.entries : k[1] = key[1]}
  IN [seen |-> rendered \cup UNION {ledger.entries[k].seen : k \in same},
      complete |-> complete \/ \E k \in same : ledger.entries[k].complete,
      generation |-> generation,
      last_used |-> ledger.clock + 1]

\* The entry of a key after a presentation: a known entry is merged, the
\* generation is overwritten by the caller's.
MergedEntry(ledger, key, generation, rendered, complete) ==
  LET known == key \in DOMAIN ledger.entries
  IN [seen |-> rendered \cup IF known THEN ledger.entries[key].seen ELSE {},
      complete |-> complete \/ (known /\ ledger.entries[key].complete),
      generation |-> generation,
      last_used |-> ledger.clock + 1]

\* Mutant: a merged entry's old size is not given back.
AccountedWithoutDouble(ledger, key) == ledger.retained_bytes

\* The bytes accounted to the other entries.
AccountedWithout(ledger, key) ==
  IF key \in DOMAIN ledger.entries
  THEN SatSub(ledger.retained_bytes, RetainedSize(ledger.entries[key]))
  ELSE ledger.retained_bytes

\* ObservationLedger::record
RecordIn(ledger, path, text, generation, rendered, complete, limits) ==
  LET key == <<path, text>>
      entry == MergedEntry(ledger, key, generation, rendered, complete)
      entries == [k \in DOMAIN ledger.entries \cup {key} |->
                    IF k = key THEN entry ELSE ledger.entries[k]]
      bytes == AccountedWithout(ledger, key) + RetainedSize(entry)
      kept == Survivors(entries, bytes, limits, key)
  IN [entries |-> Keep(entries, kept),
      tags |-> RegisteredTags(ledger, path, text),
      tombstones |-> TombstonesAfter(ledger, path, text),
      retained_bytes |-> BytesWithout(entries, bytes, kept),
      clock |-> ledger.clock + 1]

-----------------------------------------------------------------------------
(* Authorizing a change *)

\* Mutant: the content check trusts any retained entry.
CurrentResultUnchecked(ledger, path, current) ==
  IF <<path, current>> \in DOMAIN ledger.entries THEN "granted"
  ELSE IF \E k \in DOMAIN ledger.entries : k[1] = path THEN "changed" ELSE "not_found"

\* ObservationLedger::authorization, also ObservationLedger::current
CurrentResult(ledger, path, current) ==
  CASE <<path, TagOf[current]>> \in ledger.tombstones -> "collision"
    [] OTHER ->
         IF <<path, current>> \in DOMAIN ledger.entries THEN "granted"
         ELSE IF \E k \in DOMAIN ledger.entries : k[1] = path
              THEN "changed" ELSE "not_found"

\* ObservationLedger::resolve
ResolveResult(ledger, path, tag, current) ==
  IF <<path, tag>> \notin DOMAIN ledger.tags THEN "not_found"
  ELSE CASE ledger.tags[<<path, tag>>] = Collision -> "collision"
         [] ledger.tags[<<path, tag>>] = current -> CurrentResult(ledger, path, current)
         [] OTHER -> "stale"

\* ObservationLedger::resolve_tag: the tag's own text, however old
ResolveTagResult(ledger, path, tag) ==
  IF <<path, tag>> \notin DOMAIN ledger.tags THEN "not_found"
  ELSE CASE ledger.tags[<<path, tag>>] = Collision -> "collision"
         [] OTHER -> IF <<path, ledger.tags[<<path, tag>>]>> \in DOMAIN ledger.entries
                     THEN "granted" ELSE "not_found"

\* Mutant: a grant does not count as a use.
TouchedNever(ledger, key) == [ledger EXCEPT !.clock = ledger.clock + 1]

\* A grant makes the entry the most recently used one.
Touched(ledger, key) ==
  [ledger EXCEPT !.clock = ledger.clock + 1,
                 !.entries = [k \in DOMAIN ledger.entries |->
                   IF k = key THEN [ledger.entries[k] EXCEPT !.last_used = ledger.clock + 1]
                   ELSE ledger.entries[k]]]

AfterResult(ledger, key, result) ==
  IF result = "granted" THEN Touched(ledger, key) ELSE ledger
=============================================================================
