----------------------- MODULE ObservationLedgerProofs -----------------------
(***************************************************************************)
(* Theorems about the observation ledger, for any paths, texts, tags and   *)
(* limits.  A grant is safe because of two facts every operation keeps:    *)
(* an entry holds only what was presented of its own text, and the tag of  *)
(* every presented text is registered, to that text or as a collision.     *)
(***************************************************************************)
EXTENDS ObservationLedger, FiniteSetTheorems, TLAPS

\* Every entry is evidence of its own text and nothing else.
EntriesAreEvidence ==
  \A k \in DOMAIN ledger.entries :
    /\ k \in known
    /\ IsFiniteSet(ledger.entries[k].seen)
    /\ ledger.entries[k].seen \subseteq DOMAIN k[2]
    /\ \A n \in ledger.entries[k].seen : <<k[1], k[2], n>> \in shown
    /\ ledger.entries[k].complete => ledger.entries[k].seen = DOMAIN k[2]

\* Tags are never unregistered: the tag of a presented text still stands for
\* that text or for a collision.
TagsAreRegistered ==
  /\ \A k \in known :
       /\ <<k[1], TagOf[k[2]]>> \in DOMAIN ledger.tags
       /\ ledger.tags[<<k[1], TagOf[k[2]]>>] \in {k[2], Collision}
  /\ \A tk \in DOMAIN ledger.tags :
       ledger.tags[tk] # Collision =>
         /\ TagOf[ledger.tags[tk]] = tk[2]
         /\ <<tk[1], ledger.tags[tk]>> \in known

\* The two records the code keeps of a collision agree.
TombstonesMatch ==
  \A tk \in TagKey :
    tk \in ledger.tombstones <=> tk \in DOMAIN ledger.tags /\ ledger.tags[tk] = Collision

IInv ==
  /\ TypeOK
  /\ IsFiniteSet(DOMAIN ledger.entries)
  /\ EntriesAreEvidence
  /\ TagsAreRegistered
  /\ TombstonesMatch
  /\ GrantsOnlyPresentedLines
  /\ GrantsAreUnambiguous

-----------------------------------------------------------------------------
(* Accounting *)

\* Saturating subtraction stays a number.
LEMMA SatSubType == \A a, b \in Nat : SatSub(a, b) \in Nat
BY DEF SatSub

\* The lines that entries have shown, each with the key of its entry
ShownLines(entries, K) ==
  {kn \in K \X UNION {entries[k].seen : k \in K} : kn[2] \in entries[kn[1]].seen}

\* There are finitely many of them, and bytes are counted by them.
LEMMA ShownLinesCount ==
  ASSUME NEW entries, NEW K, IsFiniteSet(K), \A k \in K : IsFiniteSet(entries[k].seen)
  PROVE  /\ IsFiniteSet(ShownLines(entries, K))
         /\ Cardinality(ShownLines(entries, K)) \in Nat /\ Cardinality(K) \in Nat
         /\ RetainedBy(entries, K) =
              EntryBytes * Cardinality(K) + LineBytes * Cardinality(ShownLines(entries, K))
<1> DEFINE lines == [k \in K |-> entries[k].seen]
           Sets == {entries[k].seen : k \in K}
<1>1. IsFiniteSet(Sets)
  <2>1. lines \in Surjection(K, Sets)
    BY DEF Surjection
  <2> QED
    BY <2>1, FS_Surjection
<1>2. IsFiniteSet(K \X UNION Sets)
  <2>1. IsFiniteSet(UNION Sets)
    BY <1>1, FS_UNION
  <2> QED
    BY <2>1, FS_Product
<1>3. IsFiniteSet(ShownLines(entries, K))
  BY <1>2, FS_Subset DEF ShownLines
<1> QED
  BY <1>3, FS_CardinalityType DEF RetainedBy, ShownLines

\* What a finite set of entries with finitely many lines retains is a number.
LEMMA RetainedByType ==
  ASSUME NEW entries, NEW K, IsFiniteSet(K),
         \A k \in K : IsFiniteSet(entries[k].seen)
  PROVE  RetainedBy(entries, K) \in Nat
BY ShownLinesCount, SizeAssumption

\* Entries apart from each other retain their bytes together.
LEMMA RetainedByUnion ==
  ASSUME NEW entries, NEW K, NEW M, IsFiniteSet(K), IsFiniteSet(M), K \cap M = {},
         \A k \in K \cup M : IsFiniteSet(entries[k].seen)
  PROVE  RetainedBy(entries, K \cup M) = RetainedBy(entries, K) + RetainedBy(entries, M)
<1> DEFINE a == Cardinality(K)
           b == Cardinality(M)
           c == Cardinality(ShownLines(entries, K))
           d == Cardinality(ShownLines(entries, M))
<1>1. IsFiniteSet(K \cup M) /\ Cardinality(K \cup M) = a + b
  <2>1. Cardinality(K \cap M) = 0 /\ a \in Nat /\ b \in Nat
    BY FS_EmptySet, FS_CardinalityType
  <2>2. IsFiniteSet(K \cup M) /\ Cardinality(K \cup M) = a + b - Cardinality(K \cap M)
    BY FS_Union
  <2> HIDE DEF a, b
  <2> QED
    BY <2>1, <2>2
<1>2. /\ ShownLines(entries, K \cup M) = ShownLines(entries, K) \cup ShownLines(entries, M)
      /\ ShownLines(entries, K) \cap ShownLines(entries, M) = {}
  BY DEF ShownLines
<1>3. Cardinality(ShownLines(entries, K \cup M)) = c + d
  <2>1. IsFiniteSet(ShownLines(entries, K)) /\ IsFiniteSet(ShownLines(entries, M))
    BY ShownLinesCount
  <2>2. c \in Nat /\ d \in Nat
    BY ShownLinesCount
  <2>3. Cardinality(ShownLines(entries, K) \cap ShownLines(entries, M)) = 0
    BY <1>2, FS_EmptySet
  <2>4. Cardinality(ShownLines(entries, K) \cup ShownLines(entries, M)) =
          c + d - Cardinality(ShownLines(entries, K) \cap ShownLines(entries, M))
    BY <2>1, FS_Union
  <2>5. Cardinality(ShownLines(entries, K) \cup ShownLines(entries, M)) = c + d
    <3> HIDE DEF c, d
    <3> QED
      BY <2>2, <2>3, <2>4
  <2> QED
    BY <1>2, <2>5
<1>4. /\ RetainedBy(entries, K) = EntryBytes * a + LineBytes * c
      /\ RetainedBy(entries, M) = EntryBytes * b + LineBytes * d
      /\ a \in Nat /\ b \in Nat /\ c \in Nat /\ d \in Nat
  BY ShownLinesCount
<1>5. RetainedBy(entries, K \cup M) = EntryBytes * (a + b) + LineBytes * (c + d)
  BY <1>1, <1>3, ShownLinesCount
<1> HIDE DEF a, b, c, d
<1>6. EntryBytes * (a + b) = EntryBytes * a + EntryBytes * b
  BY <1>4, SizeAssumption
<1>7. LineBytes * (c + d) = LineBytes * c + LineBytes * d
  BY <1>4, SizeAssumption
<1>8. /\ EntryBytes * a \in Nat /\ EntryBytes * b \in Nat
      /\ LineBytes * c \in Nat /\ LineBytes * d \in Nat
  BY <1>4, SizeAssumption
<1> QED
  BY <1>4, <1>5, <1>6, <1>7, <1>8

\* One entry retains its size.
LEMMA RetainedByOne ==
  ASSUME NEW entries, NEW key, IsFiniteSet(entries[key].seen)
  PROVE  RetainedBy(entries, {key}) = RetainedSize(entries[key])
<1>1. IsFiniteSet({key}) /\ Cardinality({key}) = 1
  BY FS_Singleton
<1>2. ShownLines(entries, {key}) = {key} \X entries[key].seen
  BY DEF ShownLines
<1>3. Cardinality(entries[key].seen) \in Nat
  BY FS_CardinalityType
<1>4. Cardinality({key} \X entries[key].seen) = Cardinality(entries[key].seen)
  <2>1. Cardinality({key} \X entries[key].seen) = 1 * Cardinality(entries[key].seen)
    BY <1>1, FS_Product
  <2> QED
    BY <1>3, <2>1
<1>5. RetainedBy(entries, {key}) = EntryBytes * 1 + LineBytes * Cardinality(entries[key].seen)
  <2>1. \A k \in {key} : IsFiniteSet(entries[k].seen)
    OBVIOUS
  <2>2. RetainedBy(entries, {key}) =
          EntryBytes * Cardinality({key}) + LineBytes * Cardinality(ShownLines(entries, {key}))
    BY <1>1, <2>1, ShownLinesCount
  <2> QED
    BY <1>1, <1>2, <1>4, <2>2
<1> QED
  BY <1>3, <1>5, SizeAssumption DEF RetainedSize

\* What is retained is up to the lines the entries have shown.
LEMMA RetainedBySame ==
  ASSUME NEW entries, NEW others, NEW K, \A k \in K : others[k].seen = entries[k].seen
  PROVE  RetainedBy(others, K) = RetainedBy(entries, K)
<1>1. {others[k].seen : k \in K} = {entries[k].seen : k \in K}
  OBVIOUS
<1>2. ShownLines(others, K) = ShownLines(entries, K)
  BY <1>1 DEF ShownLines
<1> QED
  BY <1>2 DEF RetainedBy, ShownLines

\* Whatever survives an eviction, the accounted bytes stay a number.
LEMMA BytesWithoutType ==
  ASSUME NEW entries, NEW bytes \in Nat, NEW K,
         IsFiniteSet(DOMAIN entries),
         \A k \in DOMAIN entries : IsFiniteSet(entries[k].seen)
  PROVE  BytesWithout(entries, bytes, K) \in Nat
<1>1. IsFiniteSet(DOMAIN entries \ K)
  BY FS_Subset
<1>2. RetainedBy(entries, DOMAIN entries \ K) \in Nat
  BY <1>1, RetainedByType
<1> QED
  BY <1>2, SatSubType DEF BytesWithout

\* The bytes without some entries are those of the rest.
LEMMA BytesWithoutIsExact ==
  ASSUME NEW entries, NEW K \in SUBSET DOMAIN entries, IsFiniteSet(DOMAIN entries),
         \A k \in DOMAIN entries : IsFiniteSet(entries[k].seen)
  PROVE  /\ BytesWithout(entries, RetainedBy(entries, DOMAIN entries), K) = RetainedBy(entries, K)
         /\ RetainedBy(entries, K) \in Nat
<1>1. IsFiniteSet(K) /\ IsFiniteSet(DOMAIN entries \ K)
  BY FS_Subset
<1>2. RetainedBy(entries, K) \in Nat /\ RetainedBy(entries, DOMAIN entries \ K) \in Nat
  BY <1>1, RetainedByType
<1>3. K \cup (DOMAIN entries \ K) = DOMAIN entries /\ K \cap (DOMAIN entries \ K) = {}
  OBVIOUS
<1>4. RetainedBy(entries, DOMAIN entries) =
        RetainedBy(entries, K) + RetainedBy(entries, DOMAIN entries \ K)
  BY <1>1, <1>3, RetainedByUnion
<1> QED
  BY <1>2, <1>4 DEF BytesWithout, SatSub

\* The more entries stay, the more bytes do.
LEMMA BytesWithoutGrows ==
  ASSUME NEW entries, NEW bytes \in Nat, NEW fewer, NEW more \in SUBSET DOMAIN entries, fewer \subseteq more,
         IsFiniteSet(DOMAIN entries), \A k \in DOMAIN entries : IsFiniteSet(entries[k].seen)
  PROVE  BytesWithout(entries, bytes, fewer) <= BytesWithout(entries, bytes, more)
<1> DEFINE kept == more \ fewer
           rest == DOMAIN entries \ more
           all == DOMAIN entries \ fewer
<1>1. IsFiniteSet(kept) /\ IsFiniteSet(rest) /\ kept \cap rest = {} /\ all = rest \cup kept
  BY FS_Subset
<1>2. RetainedBy(entries, kept) \in Nat /\ RetainedBy(entries, rest) \in Nat
  BY <1>1, RetainedByType
<1>3. RetainedBy(entries, all) = RetainedBy(entries, rest) + RetainedBy(entries, kept)
  BY <1>1, RetainedByUnion
<1> HIDE DEF kept
<1> QED
  BY <1>2, <1>3 DEF BytesWithout, SatSub

\* Whatever was used after an entry that survives an eviction survives it.
LEMMA SurvivorsAreNewest ==
  ASSUME NEW entries, NEW bytes \in Nat, NEW limits \in Retention, NEW protected \in DOMAIN entries,
         IsFiniteSet(DOMAIN entries), \A k \in DOMAIN entries : IsFiniteSet(entries[k].seen),
         \A k \in DOMAIN entries : entries[k].last_used \in Nat,
         NEW k \in Survivors(entries, bytes, limits, protected), k # protected,
         NEW j \in DOMAIN entries, entries[j].last_used >= entries[k].last_used
  PROVE  j \in Survivors(entries, bytes, limits, protected)
<1> DEFINE Since(i) == {h \in DOMAIN entries : entries[h].last_used >= entries[i].last_used}
           fewer == Since(j) \cup {protected}
           more == Since(k) \cup {protected}
<1>1. /\ k \in DOMAIN entries /\ Cardinality(more) <= limits.max_entries
      /\ BytesWithout(entries, bytes, more) <= limits.max_bytes
  BY DEF Survivors
<1>2. fewer \subseteq more /\ more \in SUBSET DOMAIN entries
  BY <1>1
<1>3. IsFiniteSet(more) /\ Cardinality(fewer) <= Cardinality(more)
      /\ Cardinality(fewer) \in Nat /\ Cardinality(more) \in Nat
  <2> HIDE DEF fewer, more
  <2>1. IsFiniteSet(more)
    BY <1>2, FS_Subset
  <2>2. IsFiniteSet(fewer) /\ Cardinality(fewer) <= Cardinality(more)
    BY <1>2, <2>1, FS_Subset
  <2> QED
    BY <2>1, <2>2, FS_CardinalityType
<1>4. /\ BytesWithout(entries, bytes, fewer) <= BytesWithout(entries, bytes, more)
      /\ BytesWithout(entries, bytes, fewer) \in Nat /\ BytesWithout(entries, bytes, more) \in Nat
  <2> HIDE DEF fewer, more
  <2> QED
    BY <1>2, BytesWithoutGrows, BytesWithoutType
<1>5. Cardinality(fewer) <= limits.max_entries /\ BytesWithout(entries, bytes, fewer) <= limits.max_bytes
  <2>1. limits.max_entries \in Nat /\ limits.max_bytes \in Nat
    BY DEF Retention
  <2> HIDE DEF fewer, more
  <2> QED
    BY <1>1, <1>3, <1>4, <2>1
<1> QED
  BY <1>5 DEF Survivors

-----------------------------------------------------------------------------
(* Recording *)

\* A presentation's lines are finitely many, numbered from one.
LEMMA LineNumbers ==
  ASSUME NEW text \in Text, NEW rendered \in SUBSET DOMAIN text
  PROVE  rendered \subseteq Nat \ {0} /\ IsFiniteSet(rendered)
<1>1. text \in Seq(LineText)
  BY TextAssumption
<1>2. DOMAIN text = 1..Len(text) /\ Len(text) \in Nat
  BY <1>1
<1>3. IsFiniteSet(DOMAIN text)
  BY <1>2, FS_Interval
<1> QED
  BY <1>2, <1>3, FS_Subset

\* What recording does to each field: the entries left are old ones, and the
\* recorded one merged.
LEMMA RecordInFields ==
  ASSUME NEW L, NEW path, NEW text, NEW generation, NEW rendered, NEW complete, NEW limits
  PROVE  LET R == RecordIn(L, path, text, generation, rendered, complete, limits)
             key == <<path, text>>
         IN /\ DOMAIN R.entries \subseteq DOMAIN L.entries \cup {key}
            /\ \A k \in DOMAIN R.entries :
                 R.entries[k] = IF k = key
                                THEN MergedEntry(L, key, generation, rendered, complete)
                                ELSE L.entries[k]
            /\ R.tags = RegisteredTags(L, path, text)
            /\ R.tombstones = TombstonesAfter(L, path, text)
            /\ R.clock = L.clock + 1
<1> DEFINE key == <<path, text>>
           entry == MergedEntry(L, key, generation, rendered, complete)
           entries == [k \in DOMAIN L.entries \cup {key} |->
                         IF k = key THEN entry ELSE L.entries[k]]
           bytes == AccountedWithout(L, key) + RetainedSize(entry)
           kept == Survivors(entries, bytes, limits, key)
           R == RecordIn(L, path, text, generation, rendered, complete, limits)
<1>1. kept \subseteq DOMAIN L.entries \cup {key}
  <2>1. DOMAIN entries = DOMAIN L.entries \cup {key}
    OBVIOUS
  <2>2. kept \subseteq DOMAIN entries
    BY DEF Survivors
  <2> QED
    BY <2>1, <2>2
<1>2. R = [entries |-> Keep(entries, kept),
           tags |-> RegisteredTags(L, path, text),
           tombstones |-> TombstonesAfter(L, path, text),
           retained_bytes |-> BytesWithout(entries, bytes, kept),
           clock |-> L.clock + 1]
  BY DEF RecordIn
<1> HIDE DEF R, kept, bytes
<1>3. R.entries = [k \in kept |-> entries[k]]
  BY <1>2 DEF Keep
<1>4. \A k \in kept : R.entries[k] = IF k = key THEN entry ELSE L.entries[k]
  BY <1>1, <1>3
<1>5. DOMAIN R.entries = kept
  BY <1>3
<1> HIDE DEF entries, entry
<1>6. /\ DOMAIN R.entries \subseteq DOMAIN L.entries \cup {key}
      /\ \A k \in DOMAIN R.entries : R.entries[k] = IF k = key THEN entry ELSE L.entries[k]
  BY <1>1, <1>4, <1>5
<1>7. /\ R.tags = RegisteredTags(L, path, text)
      /\ R.tombstones = TombstonesAfter(L, path, text)
      /\ R.clock = L.clock + 1
  BY <1>2
<1> QED
  BY <1>6, <1>7 DEF R, entry

\* The types of what recording builds, field by field.
LEMMA RecordInTypes ==
  ASSUME TypeOK, IsFiniteSet(DOMAIN ledger.entries), EntriesAreEvidence,
         NEW path \in Path, NEW text \in Text, NEW generation \in Nat,
         NEW rendered \in SUBSET DOMAIN text, NEW complete, NEW limits
  PROVE  LET R == RecordIn(ledger, path, text, generation, rendered, complete, limits)
         IN /\ DOMAIN R = {"entries", "tags", "tombstones", "retained_bytes", "clock"}
            /\ DOMAIN R.entries \subseteq Key
            /\ IsFiniteSet(DOMAIN R.entries)
            /\ \A k \in DOMAIN R.entries : R.entries[k] \in Entry
            /\ DOMAIN R.tags \subseteq TagKey
            /\ \A k \in DOMAIN R.tags : R.tags[k] \in Text \cup {Collision}
            /\ R.tombstones \subseteq TagKey
            /\ R.retained_bytes \in Nat
            /\ R.clock \in Nat
<1> DEFINE key == <<path, text>>
           tagKey == <<path, TagOf[text]>>
           entry == MergedEntry(ledger, key, generation, rendered, complete)
           entries == [k \in DOMAIN ledger.entries \cup {key} |->
                         IF k = key THEN entry ELSE ledger.entries[k]]
           bytes == AccountedWithout(ledger, key) + RetainedSize(entry)
           kept == Survivors(entries, bytes, limits, key)
           R == RecordIn(ledger, path, text, generation, rendered, complete, limits)
<1>1. key \in Key /\ tagKey \in TagKey
  BY TagAssumption DEF Key, TagKey
<1>2. entry \in Entry /\ IsFiniteSet(entry.seen)
  <2>1. rendered \subseteq Nat \ {0} /\ IsFiniteSet(rendered)
    BY LineNumbers
  <2> DEFINE old == IF key \in DOMAIN ledger.entries THEN ledger.entries[key].seen ELSE {}
  <2>2. old \subseteq Nat \ {0} /\ IsFiniteSet(old)
    BY FS_EmptySet DEF TypeOK, Entry, EntriesAreEvidence
  <2>3. IsFiniteSet(rendered \cup old)
    BY <2>1, <2>2, FS_Union
  <2>4. ledger.clock + 1 \in Nat
    BY DEF TypeOK
  <2>5. entry.seen = rendered \cup old
    BY DEF MergedEntry
  <2>6. complete \/ (key \in DOMAIN ledger.entries /\ ledger.entries[key].complete) \in BOOLEAN
    OBVIOUS
  <2>7. entry \in Entry
    BY <2>1, <2>2, <2>4, <2>6 DEF MergedEntry, Entry
  <2> QED
    BY <2>3, <2>5, <2>7
<1>3. RetainedSize(entry) \in Nat
  <2>1. Cardinality(entry.seen) \in Nat
    BY <1>2, FS_CardinalityType
  <2> HIDE DEF entry
  <2> QED
    BY <2>1, SizeAssumption DEF RetainedSize
<1>4. AccountedWithout(ledger, key) \in Nat
  <2>1. CASE key \in DOMAIN ledger.entries
    <3>1. IsFiniteSet(ledger.entries[key].seen)
      BY <2>1 DEF EntriesAreEvidence
    <3>2. Cardinality(ledger.entries[key].seen) \in Nat
      BY <3>1, FS_CardinalityType
    <3>3. RetainedSize(ledger.entries[key]) \in Nat
      BY <3>2, SizeAssumption DEF RetainedSize
    <3> QED
      BY <2>1, <3>3, SatSubType DEF AccountedWithout, TypeOK
  <2>2. CASE key \notin DOMAIN ledger.entries
    BY <2>2 DEF AccountedWithout, TypeOK
  <2> QED
    BY <2>1, <2>2
<1>5. bytes \in Nat
  BY <1>3, <1>4
<1>6. /\ DOMAIN entries = DOMAIN ledger.entries \cup {key}
      /\ IsFiniteSet(DOMAIN entries)
  <2>1. DOMAIN entries = DOMAIN ledger.entries \cup {key}
    OBVIOUS
  <2>2. IsFiniteSet({key})
    BY FS_Singleton
  <2> QED
    BY <2>1, <2>2, FS_Union
<1>7. \A k \in DOMAIN entries : entries[k] \in Entry /\ IsFiniteSet(entries[k].seen)
  BY <1>2 DEF TypeOK, EntriesAreEvidence
<1>8. kept \subseteq DOMAIN entries
  BY DEF Survivors
<1> HIDE DEF kept, bytes, entries, entry
<1>9. BytesWithout(entries, bytes, kept) \in Nat
  BY <1>5, <1>6, <1>7, BytesWithoutType
<1>10. /\ R.entries = [k \in kept |-> entries[k]]
       /\ R.tags = RegisteredTags(ledger, path, text)
       /\ R.tombstones = TombstonesAfter(ledger, path, text)
       /\ R.retained_bytes = BytesWithout(entries, bytes, kept)
       /\ R.clock = ledger.clock + 1
       /\ DOMAIN R = {"entries", "tags", "tombstones", "retained_bytes", "clock"}
  BY DEF RecordIn, Keep, kept, bytes, entries, entry
<1>11. /\ DOMAIN R.entries \subseteq Key
       /\ IsFiniteSet(DOMAIN R.entries)
       /\ \A k \in DOMAIN R.entries : R.entries[k] \in Entry
  <2>1. DOMAIN R.entries = kept
    BY <1>10
  <2>2. IsFiniteSet(kept)
    BY <1>6, <1>8, FS_Subset
  <2>3. DOMAIN entries \subseteq Key
    BY <1>1, <1>6 DEF TypeOK
  <2> HIDE DEF R
  <2> QED
    BY <1>7, <1>8, <1>10, <2>1, <2>2, <2>3
<1>12. /\ DOMAIN R.tags \subseteq TagKey
       /\ \A k \in DOMAIN R.tags : R.tags[k] \in Text \cup {Collision}
       /\ R.tombstones \subseteq TagKey
  BY <1>1, <1>10 DEF RegisteredTags, TombstonesAfter, TypeOK
<1>13. R.clock \in Nat
  BY <1>10 DEF TypeOK
<1> HIDE DEF R
<1>14. /\ DOMAIN R = {"entries", "tags", "tombstones", "retained_bytes", "clock"}
       /\ R.retained_bytes \in Nat
  BY <1>9, <1>10
<1> QED
  BY <1>11, <1>12, <1>13, <1>14 DEF R
-----------------------------------------------------------------------------
(* The invariant *)

\* The empty ledger of a new session has the invariant.
LEMMA InitIInv == Init => IInv
<1> SUFFICES ASSUME Init PROVE IInv
  OBVIOUS
<1> USE DEF Init, EmptyLedger
<1>1. TypeOK
  BY DEF TypeOK
<1>2. IsFiniteSet(DOMAIN ledger.entries)
  BY FS_EmptySet
<1>3. EntriesAreEvidence /\ TagsAreRegistered /\ TombstonesMatch
  BY DEF EntriesAreEvidence, TagsAreRegistered, TombstonesMatch
<1>4. GrantsOnlyPresentedLines /\ GrantsAreUnambiguous
  BY DEF GrantsOnlyPresentedLines, GrantsAreUnambiguous, NoDecision
<1> QED
  BY <1>1, <1>2, <1>3, <1>4 DEF IInv

\* A presentation keeps the invariant: it adds evidence for its own entry
\* only, and registers its tag.
LEMMA RecordKeepsIInv ==
  ASSUME IInv, NEW path \in Path, NEW text \in Text, Record(path, text)
  PROVE  IInv'
<1> USE DEF IInv
<1>1. PICK rendered \in SUBSET DOMAIN text, generation \in Generations, limits \in Limits :
        \E complete \in {FALSE, rendered = DOMAIN text} :
          /\ ledger' = RecordIn(ledger, path, text, generation, rendered, complete, limits)
          /\ shown' = shown \cup {<<path, text, n>> : n \in rendered}
          /\ known' = known \cup {<<path, text>>}
          /\ used' = [used EXCEPT ![<<path, text>>] = ledger.clock + 1]
          /\ decision' = NoDecision
  BY DEF Record
<1>2. PICK complete \in {FALSE, rendered = DOMAIN text} :
        /\ ledger' = RecordIn(ledger, path, text, generation, rendered, complete, limits)
        /\ shown' = shown \cup {<<path, text, n>> : n \in rendered}
        /\ known' = known \cup {<<path, text>>}
        /\ used' = [used EXCEPT ![<<path, text>>] = ledger.clock + 1]
        /\ decision' = NoDecision
  BY <1>1
<1> DEFINE key == <<path, text>>
           tagKey == <<path, TagOf[text]>>
           entry == MergedEntry(ledger, key, generation, rendered, complete)
<1>3. /\ complete \in BOOLEAN
      /\ complete => rendered = DOMAIN text
      /\ generation \in Nat
      /\ key \in Key
      /\ tagKey \in TagKey
  BY LimitsAssumption, TagAssumption DEF Key, TagKey
<1>4. rendered \subseteq Nat \ {0} /\ IsFiniteSet(rendered)
  BY LineNumbers
<1>5. /\ DOMAIN ledger'.entries \subseteq DOMAIN ledger.entries \cup {key}
      /\ \A k \in DOMAIN ledger'.entries :
           ledger'.entries[k] = IF k = key THEN entry ELSE ledger.entries[k]
      /\ ledger'.tags = RegisteredTags(ledger, path, text)
      /\ ledger'.tombstones = TombstonesAfter(ledger, path, text)
  BY <1>2, RecordInFields
<1>6. TypeOK' /\ IsFiniteSet(DOMAIN ledger.entries)'
  <2>1. /\ DOMAIN ledger' = {"entries", "tags", "tombstones", "retained_bytes", "clock"}
        /\ DOMAIN ledger'.entries \subseteq Key
        /\ IsFiniteSet(DOMAIN ledger'.entries)
        /\ \A k \in DOMAIN ledger'.entries : ledger'.entries[k] \in Entry
        /\ DOMAIN ledger'.tags \subseteq TagKey
        /\ \A k \in DOMAIN ledger'.tags : ledger'.tags[k] \in Text \cup {Collision}
        /\ ledger'.tombstones \subseteq TagKey
        /\ ledger'.retained_bytes \in Nat
        /\ ledger'.clock \in Nat
    <3> DEFINE R == RecordIn(ledger, path, text, generation, rendered, complete, limits)
    <3>1. TypeOK /\ IsFiniteSet(DOMAIN ledger.entries) /\ EntriesAreEvidence
      OBVIOUS
    <3>2. /\ DOMAIN R = {"entries", "tags", "tombstones", "retained_bytes", "clock"}
          /\ DOMAIN R.entries \subseteq Key
          /\ IsFiniteSet(DOMAIN R.entries)
          /\ \A k \in DOMAIN R.entries : R.entries[k] \in Entry
          /\ DOMAIN R.tags \subseteq TagKey
          /\ \A k \in DOMAIN R.tags : R.tags[k] \in Text \cup {Collision}
          /\ R.tombstones \subseteq TagKey
          /\ R.retained_bytes \in Nat
          /\ R.clock \in Nat
      BY <1>3, <3>1, RecordInTypes
    <3>3. ledger' = R
      BY <1>2
    <3> HIDE DEF R
    <3> QED
      BY <3>2, <3>3
  <2>2. shown' \subseteq Path \X Text \X (Nat \ {0}) /\ known' \subseteq Key
    BY <1>2, <1>3, <1>4 DEF TypeOK
  <2>3. used' \in [Key -> Nat]
    <3>1. ledger.clock + 1 \in Nat /\ used \in [Key -> Nat]
      BY DEF TypeOK
    <3> QED
      BY <1>2, <3>1
  <2> QED
    BY <2>1, <2>2, <2>3 DEF TypeOK
<1>7. EntriesAreEvidence'
  <2> SUFFICES ASSUME NEW k \in DOMAIN ledger'.entries
               PROVE  /\ k \in known'
                      /\ IsFiniteSet(ledger'.entries[k].seen)
                      /\ ledger'.entries[k].seen \subseteq DOMAIN k[2]
                      /\ \A n \in ledger'.entries[k].seen : <<k[1], k[2], n>> \in shown'
                      /\ ledger'.entries[k].complete => ledger'.entries[k].seen = DOMAIN k[2]
    BY DEF EntriesAreEvidence
  <2>1. CASE k # key
    <3>1. k \in DOMAIN ledger.entries /\ ledger'.entries[k] = ledger.entries[k]
      BY <1>5, <2>1
    <3> QED
      BY <1>2, <3>1 DEF EntriesAreEvidence
  <2>2. CASE k = key
    <3> DEFINE known_ == key \in DOMAIN ledger.entries
               old == IF known_ THEN ledger.entries[key].seen ELSE {}
    <3>1. ledger'.entries[k] = entry
      BY <1>5, <2>2
    <3>2. entry.seen = rendered \cup old
      BY DEF MergedEntry
    <3>3. entry.complete = (complete \/ (known_ /\ ledger.entries[key].complete))
      BY DEF MergedEntry
    <3>4. /\ IsFiniteSet(old)
          /\ old \subseteq DOMAIN text
          /\ \A n \in old : <<path, text, n>> \in shown
          /\ known_ /\ ledger.entries[key].complete => old = DOMAIN text
      BY FS_EmptySet DEF EntriesAreEvidence
    <3>5. IsFiniteSet(rendered \cup old)
      BY <1>4, <3>4, FS_Union
    <3> HIDE DEF entry, old, known_
    <3>6. entry.complete => entry.seen = DOMAIN text
      BY <1>3, <3>2, <3>3, <3>4
    <3> QED
      BY <1>2, <2>2, <3>1, <3>2, <3>4, <3>5, <3>6
  <2> QED
    BY <2>1, <2>2
<1>8. TagsAreRegistered'
  <2>1. DOMAIN ledger'.tags = DOMAIN ledger.tags \cup {tagKey}
    BY <1>5 DEF RegisteredTags
  <2>2. \A t \in DOMAIN ledger.tags : t # tagKey => ledger'.tags[t] = ledger.tags[t]
    BY <1>5 DEF RegisteredTags
  <2>3. ledger'.tags[tagKey] = IF tagKey \in DOMAIN ledger.tags /\ ledger.tags[tagKey] # text
                               THEN Collision ELSE text
    BY <1>5 DEF RegisteredTags
  <2>4. ASSUME NEW k \in known'
        PROVE  /\ <<k[1], TagOf[k[2]]>> \in DOMAIN ledger'.tags
               /\ ledger'.tags[<<k[1], TagOf[k[2]]>>] \in {k[2], Collision}
    <3>1. CASE k = key
      BY <2>1, <2>3, <3>1
    <3>2. CASE k # key
      <4>1. k \in known
        BY <1>2, <3>2
      <4>2. /\ <<k[1], TagOf[k[2]]>> \in DOMAIN ledger.tags
            /\ ledger.tags[<<k[1], TagOf[k[2]]>>] \in {k[2], Collision}
        BY <4>1 DEF TagsAreRegistered
      <4>3. CASE <<k[1], TagOf[k[2]]>> = tagKey
        BY <2>1, <2>3, <4>2, <4>3
      <4>4. CASE <<k[1], TagOf[k[2]]>> # tagKey
        BY <2>1, <2>2, <4>2, <4>4
      <4> QED
        BY <4>3, <4>4
    <3> QED
      BY <3>1, <3>2
  <2>5. ASSUME NEW tk \in DOMAIN ledger'.tags, ledger'.tags[tk] # Collision
        PROVE  /\ TagOf[ledger'.tags[tk]] = tk[2]
               /\ <<tk[1], ledger'.tags[tk]>> \in known'
    <3>1. CASE tk = tagKey
      BY <1>2, <2>3, <2>5, <3>1
    <3>2. CASE tk # tagKey
      BY <1>2, <2>1, <2>2, <2>5, <3>2 DEF TagsAreRegistered
    <3> QED
      BY <3>1, <3>2
  <2> QED
    BY <2>4, <2>5 DEF TagsAreRegistered
<1>9. TombstonesMatch'
  <2> SUFFICES ASSUME NEW tk \in TagKey
               PROVE  tk \in ledger'.tombstones
                        <=> tk \in DOMAIN ledger'.tags /\ ledger'.tags[tk] = Collision
    BY DEF TombstonesMatch
  <2>1. tk \in ledger.tombstones <=> tk \in DOMAIN ledger.tags /\ ledger.tags[tk] = Collision
    BY DEF TombstonesMatch
  <2>2. text # Collision
    BY TagAssumption
  <2> QED
    BY <1>5, <2>1, <2>2 DEF RegisteredTags, TombstonesAfter, Ambiguous
<1>10. GrantsOnlyPresentedLines' /\ GrantsAreUnambiguous'
  BY <1>2 DEF GrantsOnlyPresentedLines, GrantsAreUnambiguous, NoDecision
<1> QED
  BY <1>6, <1>7, <1>8, <1>9, <1>10

\* An answer keeps the invariant when it grants only retained entries whose
\* tag is not ambiguous.
LEMMA DecideKeepsIInv ==
  ASSUME IInv, NEW key, NEW result, Decide(key, result),
         result = "granted" =>
           key \in DOMAIN ledger.entries /\ <<key[1], TagOf[key[2]]>> \notin ledger.tombstones
  PROVE  IInv'
<1> USE DEF IInv
<1>1. CASE result = "granted"
  <2>1. key \in DOMAIN ledger.entries /\ key \in Key
    BY <1>1 DEF TypeOK
  <2>2. /\ ledger' = Touched(ledger, key)
        /\ used' = [used EXCEPT ![key] = ledger.clock + 1]
        /\ decision' = [result |-> "granted", path |-> key[1], tag |-> TagOf[key[2]],
                        text |-> key[2], lines |-> ledger.entries[key].seen,
                        complete |-> ledger.entries[key].complete]
        /\ UNCHANGED <<shown, known>>
    BY <1>1 DEF Decide, AfterResult, Answer
  <2> DEFINE entries == [k \in DOMAIN ledger.entries |->
                           IF k = key THEN [ledger.entries[k] EXCEPT !.last_used = ledger.clock + 1]
                           ELSE ledger.entries[k]]
  <2>3. /\ DOMAIN ledger' = {"entries", "tags", "tombstones", "retained_bytes", "clock"}
        /\ ledger'.entries = entries
        /\ ledger'.tags = ledger.tags
        /\ ledger'.tombstones = ledger.tombstones
        /\ ledger'.retained_bytes = ledger.retained_bytes
        /\ ledger'.clock = ledger.clock + 1
    BY <2>2 DEF Touched, TypeOK
  <2>4. ledger.clock + 1 \in Nat
    BY DEF TypeOK
  <2>5. \A k \in DOMAIN entries :
          /\ entries[k] \in Entry
          /\ entries[k].seen = ledger.entries[k].seen
          /\ entries[k].complete = ledger.entries[k].complete
    BY <2>4 DEF TypeOK, Entry
  <2>6. DOMAIN entries = DOMAIN ledger.entries
    OBVIOUS
  <2> HIDE DEF entries
  <2>7. TypeOK' /\ IsFiniteSet(DOMAIN ledger.entries)'
    <3>1. used' \in [Key -> Nat]
      BY <2>2, <2>4 DEF TypeOK
    <3> QED
      BY <2>2, <2>3, <2>4, <2>5, <2>6, <3>1 DEF TypeOK
  <2>8. EntriesAreEvidence'
    BY <2>2, <2>3, <2>5, <2>6 DEF EntriesAreEvidence
  <2>9. TagsAreRegistered' /\ TombstonesMatch'
    BY <2>2, <2>3 DEF TagsAreRegistered, TombstonesMatch
  <2>10. GrantsOnlyPresentedLines'
    <3>1. /\ key \in known
          /\ \A n \in ledger.entries[key].seen : <<key[1], key[2], n>> \in shown
          /\ ledger.entries[key].complete => ledger.entries[key].seen = DOMAIN key[2]
      BY <2>1 DEF EntriesAreEvidence
    <3>2. key = <<key[1], key[2]>>
      BY <2>1 DEF Key
    <3> QED
      BY <2>2, <3>1, <3>2 DEF GrantsOnlyPresentedLines
  <2>11. GrantsAreUnambiguous'
    <3> SUFFICES ASSUME NEW other \in Text, <<key[1], other>> \in known,
                        TagOf[other] = TagOf[key[2]]
                 PROVE  other = key[2]
      BY <2>2 DEF GrantsAreUnambiguous
    <3>1. <<key[1], key[2]>> \in known /\ <<key[1], TagOf[key[2]]>> \in TagKey
      BY <2>1, TagAssumption DEF EntriesAreEvidence, Key, TagKey
    <3>2. ledger.tags[<<key[1], TagOf[key[2]]>>] # Collision
      BY <1>1, <3>1 DEF TombstonesMatch, TagsAreRegistered
    <3>3. ledger.tags[<<key[1], TagOf[key[2]]>>] = key[2]
      BY <3>1, <3>2 DEF TagsAreRegistered
    <3>4. ledger.tags[<<key[1], TagOf[key[2]]>>] \in {other, Collision}
      BY DEF TagsAreRegistered
    <3> QED
      BY <3>2, <3>3, <3>4
  <2> QED
    BY <2>7, <2>8, <2>9, <2>10, <2>11
<1>2. CASE result # "granted"
  <2>1. /\ UNCHANGED <<ledger, used, shown, known>>
        /\ decision' = [result |-> result, asked |-> key]
    BY <1>2 DEF Decide, AfterResult, Answer
  <2>2. decision'.result # "granted"
    BY <1>2, <2>1
  <2>3. GrantsOnlyPresentedLines' /\ GrantsAreUnambiguous'
    BY <2>2 DEF GrantsOnlyPresentedLines, GrantsAreUnambiguous
  <2>4. TypeOK' /\ EntriesAreEvidence' /\ TagsAreRegistered' /\ TombstonesMatch'
    BY <2>1 DEF TypeOK, EntriesAreEvidence, TagsAreRegistered, TombstonesMatch
  <2> QED
    BY <2>1, <2>3, <2>4
<1> QED
  BY <1>1, <1>2

\* A change authorized by the text on disk, with or without a tag.
LEMMA CurrentGrants ==
  ASSUME NEW path, NEW current, CurrentResult(ledger, path, current) = "granted"
  PROVE  /\ <<path, current>> \in DOMAIN ledger.entries
         /\ <<path, TagOf[current]>> \notin ledger.tombstones
BY DEF CurrentResult

\* A tag that resolves to its own text.
LEMMA ResolveTagGrants ==
  ASSUME IInv, NEW path \in Path, NEW tag \in Tag,
         ResolveTagResult(ledger, path, tag) = "granted"
  PROVE  LET text == ledger.tags[<<path, tag>>]
         IN /\ <<path, tag>> \in DOMAIN ledger.tags
            /\ text # Collision
            /\ <<path, text>> \in DOMAIN ledger.entries
            /\ <<path, TagOf[text]>> \notin ledger.tombstones
<1>1. /\ <<path, tag>> \in DOMAIN ledger.tags
      /\ ledger.tags[<<path, tag>>] # Collision
      /\ <<path, ledger.tags[<<path, tag>>]>> \in DOMAIN ledger.entries
  BY DEF ResolveTagResult
<1>2. TagOf[ledger.tags[<<path, tag>>]] = tag
  BY <1>1 DEF IInv, TagsAreRegistered
<1>3. <<path, tag>> \notin ledger.tombstones
  BY <1>1 DEF IInv, TombstonesMatch, TagKey
<1> QED
  BY <1>1, <1>2, <1>3

\* Every operation keeps the invariant.
LEMMA NextKeepsIInv == IInv /\ [Next]_vars => IInv'
<1> SUFFICES ASSUME IInv, [Next]_vars PROVE IInv'
  OBVIOUS
<1>1. ASSUME NEW path \in Path, NEW text \in Text, Record(path, text)
      PROVE  IInv'
  BY <1>1, RecordKeepsIInv
<1>2. ASSUME NEW path \in Path, NEW tag \in Tag, NEW current \in Text,
             Resolve(path, tag, current)
      PROVE  IInv'
  <2> DEFINE result == ResolveResult(ledger, path, tag, current)
             key == <<path, current>>
  <2>1. result = "granted" => CurrentResult(ledger, path, current) = "granted"
    BY DEF ResolveResult
  <2>2. result = "granted" =>
          key \in DOMAIN ledger.entries /\ <<key[1], TagOf[key[2]]>> \notin ledger.tombstones
    BY <2>1, CurrentGrants
  <2>3. Decide(key, result)
    BY <1>2 DEF Resolve
  <2> HIDE DEF result, key
  <2> QED
    BY <2>2, <2>3, DecideKeepsIInv
<1>3. ASSUME NEW path \in Path, NEW tag \in Tag, ResolveTag(path, tag)
      PROVE  IInv'
  <2> DEFINE result == ResolveTagResult(ledger, path, tag)
             key == IF <<path, tag>> \in DOMAIN ledger.tags /\ ledger.tags[<<path, tag>>] # Collision
                    THEN <<path, ledger.tags[<<path, tag>>]>> ELSE <<path, tag>>
  <2>1. result = "granted" =>
          key \in DOMAIN ledger.entries /\ <<key[1], TagOf[key[2]]>> \notin ledger.tombstones
    BY ResolveTagGrants
  <2>2. Decide(key, result)
    BY <1>3 DEF ResolveTag
  <2> HIDE DEF result, key
  <2> QED
    BY <2>1, <2>2, DecideKeepsIInv
<1>4. ASSUME NEW path \in Path, NEW current \in Text, Current(path, current)
      PROVE  IInv'
  <2> DEFINE result == CurrentResult(ledger, path, current)
             key == <<path, current>>
  <2>1. result = "granted" =>
          key \in DOMAIN ledger.entries /\ <<key[1], TagOf[key[2]]>> \notin ledger.tombstones
    BY CurrentGrants
  <2>2. Decide(key, result)
    BY <1>4 DEF Current
  <2> HIDE DEF result, key
  <2> QED
    BY <2>1, <2>2, DecideKeepsIInv
<1>5. CASE UNCHANGED vars
  BY <1>5 DEF vars, IInv, TypeOK, EntriesAreEvidence, TagsAreRegistered, TombstonesMatch,
              GrantsOnlyPresentedLines, GrantsAreUnambiguous
<1> QED
  BY <1>1, <1>2, <1>3, <1>4, <1>5 DEF Next

\* The ledger keeps its invariant, whatever is presented and asked.
THEOREM LedgerInvariant == Spec => []IInv
  BY InitIInv, NextKeepsIInv, PTL DEF Spec

\* The ledger's fields keep their types (observations.rs, struct
\* ObservationLedger).
THEOREM LedgerTypes == Spec => []TypeOK
<1>1. IInv => TypeOK
  BY DEF IInv
<1> QED
  BY <1>1, LedgerInvariant, PTL

\* No change is authorized beyond the lines presented of the granted text at
\* that path (record, authorization and resolve_tag).
THEOREM GrantsAreEvidence == Spec => []GrantsOnlyPresentedLines
<1>1. IInv => GrantsOnlyPresentedLines
  BY DEF IInv
<1> QED
  BY <1>1, LedgerInvariant, PTL

\* Two texts of a path that share a tag are never granted once both were
\* presented (register_tag and the collision tombstones), evictions or not.
THEOREM TagsNeverMislead == Spec => []GrantsAreUnambiguous
<1>1. IInv => GrantsAreUnambiguous
  BY DEF IInv
<1> QED
  BY <1>1, LedgerInvariant, PTL

-----------------------------------------------------------------------------
(* Retention *)

\* The bytes are exact, and eviction has gone by the time of the last use.
Retained ==
  /\ RetainedBytesAreExact /\ RetainsMostRecentlyUsed
  /\ \A k \in DOMAIN ledger.entries : ledger.entries[k].last_used = used[k]
  /\ \A k \in Key : used[k] <= ledger.clock

\* A new entry is accounted for and is the most recently used one; those
\* that are evicted for it were used before those that are not.
LEMMA RecordRetains ==
  ASSUME IInv, Retained, NEW path \in Path, NEW text \in Text, Record(path, text)
  PROVE  Retained'
<1> DEFINE key == <<path, text>>
<1>0. PICK rendered \in SUBSET DOMAIN text, generation \in Generations, limits \in Limits :
        \E complete \in {FALSE, rendered = DOMAIN text} :
          /\ ledger' = RecordIn(ledger, path, text, generation, rendered, complete, limits)
          /\ shown' = shown \cup {<<path, text, n>> : n \in rendered}
          /\ known' = known \cup {<<path, text>>}
          /\ used' = [used EXCEPT ![<<path, text>>] = ledger.clock + 1]
          /\ decision' = NoDecision
  BY DEF Record
<1>1. PICK complete \in {FALSE, rendered = DOMAIN text} :
        /\ ledger' = RecordIn(ledger, path, text, generation, rendered, complete, limits)
        /\ known' = known \cup {key}
        /\ used' = [used EXCEPT ![key] = ledger.clock + 1]
  BY <1>0
<1> DEFINE old == ledger.entries
           entry == MergedEntry(ledger, key, generation, rendered, complete)
           entries == [k \in DOMAIN old \cup {key} |-> IF k = key THEN entry ELSE old[k]]
           bytes == AccountedWithout(ledger, key) + RetainedSize(entry)
           kept == Survivors(entries, bytes, limits, key)
<1>2. /\ ledger'.entries = [k \in kept |-> entries[k]] /\ DOMAIN ledger'.entries = kept
      /\ ledger'.retained_bytes = BytesWithout(entries, bytes, kept)
      /\ ledger'.clock = ledger.clock + 1
  BY <1>1 DEF RecordIn, Keep
<1>3. /\ key \in Key /\ limits \in Retention
      /\ ledger.clock \in Nat /\ ledger.retained_bytes \in Nat /\ used \in [Key -> Nat]
      /\ IsFiniteSet(DOMAIN old) /\ DOMAIN old \subseteq Key
      /\ \A k \in DOMAIN old : IsFiniteSet(old[k].seen) /\ old[k].last_used = used[k]
  BY LimitsAssumption DEF Key, IInv, TypeOK, EntriesAreEvidence, Retained
<1>4. entry.last_used = ledger.clock + 1 /\ IsFiniteSet(entry.seen)
  <2>1. IsFiniteSet(rendered)
    BY LineNumbers
  <2>2. IsFiniteSet(IF key \in DOMAIN old THEN old[key].seen ELSE {})
    BY <1>3, FS_EmptySet
  <2>3. entry.seen = rendered \cup IF key \in DOMAIN old THEN old[key].seen ELSE {}
    BY DEF MergedEntry
  <2> QED
    BY <2>1, <2>2, <2>3, FS_Union DEF MergedEntry
<1>5. /\ DOMAIN entries = DOMAIN old \cup {key} /\ IsFiniteSet(DOMAIN entries)
      /\ entries[key] = entry /\ \A k \in DOMAIN old : k # key => entries[k] = old[k]
  BY <1>3, FS_AddElement
<1> HIDE DEF entry, entries
<1>6. /\ \A k \in DOMAIN entries : IsFiniteSet(entries[k].seen)
      /\ \A k \in DOMAIN entries : entries[k].last_used = used'[k] /\ entries[k].last_used \in Nat
  BY <1>1, <1>3, <1>4, <1>5
<1>7. bytes = RetainedBy(entries, DOMAIN entries) /\ bytes \in Nat
  <2> DEFINE others == DOMAIN old \ {key}
  <2>1. /\ IsFiniteSet(others) /\ IsFiniteSet({key})
        /\ others \cap {key} = {} /\ DOMAIN entries = others \cup {key}
    BY <1>3, <1>5, FS_Subset, FS_Singleton
  <2>2. /\ RetainedBy(entries, DOMAIN entries) =
             RetainedBy(entries, others) + RetainedBy(entries, {key})
        /\ RetainedBy(entries, others) \in Nat /\ RetainedBy(entries, {key}) \in Nat
    BY <1>6, <2>1, RetainedByUnion, RetainedByType
  <2>3. RetainedBy(entries, {key}) = RetainedSize(entry)
    BY <1>4, <1>5, RetainedByOne
  <2>4. RetainedBy(entries, others) = RetainedBy(old, others)
    BY <1>5, RetainedBySame
  <2>5. ledger.retained_bytes = RetainedBy(old, DOMAIN old)
    BY DEF Retained, RetainedBytesAreExact
  <2>6. AccountedWithout(ledger, key) = RetainedBy(old, others)
    <3>1. CASE key \notin DOMAIN old
      <4>1. others = DOMAIN old
        BY <3>1
      <4> QED
        BY <2>5, <3>1, <4>1 DEF AccountedWithout
    <3>2. CASE key \in DOMAIN old
      <4>1. DOMAIN old = others \cup {key}
        BY <3>2
      <4>2. /\ RetainedBy(old, DOMAIN old) = RetainedBy(old, others) + RetainedBy(old, {key})
            /\ RetainedBy(old, others) \in Nat /\ RetainedBy(old, {key}) \in Nat
        BY <1>3, <2>1, <3>2, <4>1, RetainedByUnion, RetainedByType
      <4>3. RetainedBy(old, {key}) = RetainedSize(old[key])
        BY <1>3, <3>2, RetainedByOne
      <4>4. AccountedWithout(ledger, key) = SatSub(RetainedBy(old, DOMAIN old), RetainedBy(old, {key}))
        BY <2>5, <3>2, <4>3 DEF AccountedWithout
      <4> QED
        BY <4>2, <4>4 DEF SatSub
    <3> QED
      BY <3>1, <3>2
  <2> HIDE DEF others
  <2> QED
    BY <2>2, <2>3, <2>4, <2>6
<1>8. kept \subseteq DOMAIN entries /\ (key \in kept)
  BY <1>5 DEF Survivors
<1> HIDE DEF bytes
<1>9. RetainedBytesAreExact'
  <2>1. ledger'.retained_bytes = RetainedBy(entries, kept)
    BY <1>2, <1>5, <1>6, <1>7, <1>8, BytesWithoutIsExact
  <2>2. RetainedBy(ledger'.entries, kept) = RetainedBy(entries, kept)
    <3> HIDE DEF kept
    <3> QED
      BY <1>2, RetainedBySame
  <2> QED
    BY <1>2, <2>1, <2>2 DEF RetainedBytesAreExact
<1>10. RetainsMostRecentlyUsed'
  <2> SUFFICES ASSUME NEW k \in kept, NEW j \in known', used'[j] > used'[k]
               PROVE  j \in kept
    BY <1>2 DEF RetainsMostRecentlyUsed
  <2>1. CASE j = key
    BY <1>8, <2>1
  <2>2. CASE j # key
    <3>1. j \in known /\ j \in Key
      BY <1>1, <2>2 DEF IInv, TypeOK
    <3>2. used'[j] = used[j] /\ used[j] <= ledger.clock /\ used'[key] = ledger.clock + 1
      BY <1>1, <1>3, <2>2, <3>1 DEF Retained
    <3>3. k # key /\ k \in DOMAIN old /\ used'[k] = used[k]
      BY <1>1, <1>3, <1>5, <1>8, <3>1, <3>2
    <3>4. j \in DOMAIN old
      BY <3>1, <3>2, <3>3 DEF Retained, RetainsMostRecentlyUsed
    <3>5. j \in DOMAIN entries /\ entries[j].last_used >= entries[k].last_used
      BY <1>5, <1>6, <1>8, <3>4
    <3> QED
      BY <1>3, <1>5, <1>6, <1>7, <3>3, <3>5, SurvivorsAreNewest
  <2> QED
    BY <2>1, <2>2
<1>11. \A k \in DOMAIN ledger'.entries : ledger'.entries[k].last_used = used'[k]
  BY <1>2, <1>6, <1>8
<1>12. \A k \in Key : used'[k] <= ledger'.clock
  BY <1>1, <1>2, <1>3 DEF Retained
<1> QED
  BY <1>9, <1>10, <1>11, <1>12 DEF Retained

\* A grant makes an entry the most recently used one and changes no size.
LEMMA DecideRetains ==
  ASSUME IInv, Retained, NEW key, NEW result, Decide(key, result),
         result = "granted" => key \in DOMAIN ledger.entries
  PROVE  Retained'
<1>1. CASE result = "granted"
  <2> DEFINE old == ledger.entries
  <2>1. /\ key \in DOMAIN old /\ key \in Key /\ ledger.clock \in Nat /\ used \in [Key -> Nat]
        /\ DOMAIN old \subseteq Key /\ known \subseteq Key /\ known' = known
        /\ used' = [used EXCEPT ![key] = ledger.clock + 1]
        /\ ledger' = Touched(ledger, key)
    BY <1>1 DEF Decide, AfterResult, IInv, TypeOK
  <2>2. /\ ledger'.clock = ledger.clock + 1 /\ ledger'.retained_bytes = ledger.retained_bytes
        /\ ledger'.entries = [k \in DOMAIN old |->
              IF k = key THEN [old[k] EXCEPT !.last_used = ledger.clock + 1] ELSE old[k]]
    BY <2>1 DEF Touched, IInv, TypeOK
  <2>3. \A k \in DOMAIN old : old[k] \in Entry
    BY DEF IInv, TypeOK
  <2>4. /\ DOMAIN ledger'.entries = DOMAIN old
        /\ \A k \in DOMAIN old :
             /\ ledger'.entries[k].seen = old[k].seen
             /\ ledger'.entries[k].last_used = IF k = key THEN ledger.clock + 1 ELSE old[k].last_used
    BY <2>2, <2>3 DEF Entry
  <2>5. RetainedBytesAreExact'
    <3>1. RetainedBy(ledger'.entries, DOMAIN old) = RetainedBy(old, DOMAIN old)
      BY <2>4, RetainedBySame
    <3> QED
      BY <2>2, <2>4, <3>1 DEF Retained, RetainedBytesAreExact
  <2>6. RetainsMostRecentlyUsed'
    BY <2>1, <2>4 DEF Retained, RetainsMostRecentlyUsed
  <2>7. \A k \in DOMAIN ledger'.entries : ledger'.entries[k].last_used = used'[k]
    BY <2>1, <2>4 DEF Retained
  <2>8. \A k \in Key : used'[k] <= ledger'.clock
    BY <2>1, <2>2 DEF Retained
  <2> QED
    BY <2>5, <2>6, <2>7, <2>8 DEF Retained
<1>2. CASE result # "granted"
  <2>1. UNCHANGED <<ledger, used, known>>
    BY <1>2 DEF Decide, AfterResult
  <2> QED
    BY <2>1 DEF Retained, RetainedBytesAreExact, RetainsMostRecentlyUsed
<1> QED
  BY <1>1, <1>2

\* Every operation retains what it should.
LEMMA NextRetains == IInv /\ Retained /\ [Next]_vars => Retained'
<1> SUFFICES ASSUME IInv, Retained, [Next]_vars
             PROVE  Retained'
  OBVIOUS
<1>1. ASSUME NEW path \in Path, NEW text \in Text, Record(path, text)
      PROVE  Retained'
  BY <1>1, RecordRetains
<1>2. ASSUME NEW path \in Path, NEW tag \in Tag, NEW current \in Text, Resolve(path, tag, current)
      PROVE  Retained'
  <2> DEFINE result == ResolveResult(ledger, path, tag, current)
             key == <<path, current>>
  <2>1. result = "granted" => key \in DOMAIN ledger.entries
    BY CurrentGrants DEF ResolveResult
  <2>2. Decide(key, result)
    BY <1>2 DEF Resolve
  <2> HIDE DEF result, key
  <2> QED
    BY <2>1, <2>2, DecideRetains
<1>3. ASSUME NEW path \in Path, NEW tag \in Tag, ResolveTag(path, tag)
      PROVE  Retained'
  <2> DEFINE result == ResolveTagResult(ledger, path, tag)
             key == IF <<path, tag>> \in DOMAIN ledger.tags /\ ledger.tags[<<path, tag>>] # Collision
                    THEN <<path, ledger.tags[<<path, tag>>]>> ELSE <<path, tag>>
  <2>1. result = "granted" => key \in DOMAIN ledger.entries
    BY ResolveTagGrants
  <2>2. Decide(key, result)
    BY <1>3 DEF ResolveTag
  <2> HIDE DEF result, key
  <2> QED
    BY <2>1, <2>2, DecideRetains
<1>4. ASSUME NEW path \in Path, NEW current \in Text, Current(path, current)
      PROVE  Retained'
  <2> DEFINE result == CurrentResult(ledger, path, current)
             key == <<path, current>>
  <2>1. result = "granted" => key \in DOMAIN ledger.entries
    BY CurrentGrants
  <2>2. Decide(key, result)
    BY <1>4 DEF Current
  <2> HIDE DEF result, key
  <2> QED
    BY <2>1, <2>2, DecideRetains
<1>5. CASE UNCHANGED vars
  BY <1>5 DEF vars, Retained, RetainedBytesAreExact, RetainsMostRecentlyUsed
<1> QED
  BY <1>1, <1>2, <1>3, <1>4, <1>5 DEF Next

\* The accounting and the order of eviction hold in every reachable state.
THEOREM RetentionInvariant == Spec => []Retained
<1>1. Init => Retained
  <2> SUFFICES ASSUME Init
               PROVE  Retained
    OBVIOUS
  <2>1. RetainedBy(ledger.entries, DOMAIN ledger.entries) = 0
    <3>1. DOMAIN ledger.entries = {} /\ ShownLines(ledger.entries, {}) = {}
      BY DEF Init, EmptyLedger, ShownLines
    <3>2. Cardinality({}) = 0
      BY FS_EmptySet
    <3>3. RetainedBy(ledger.entries, {}) = EntryBytes * 0 + LineBytes * 0
      BY <3>1, <3>2 DEF RetainedBy, ShownLines
    <3> QED
      BY <3>1, <3>3, SizeAssumption
  <2> QED
    BY <2>1 DEF Init, EmptyLedger, Retained, RetainedBytesAreExact, RetainsMostRecentlyUsed
<1>2. IInv /\ Retained /\ [Next]_vars => Retained'
  BY NextRetains
<1> QED
  BY <1>1, <1>2, LedgerInvariant, PTL DEF Spec

\* The bytes a ledger accounts for are those of its entries, whatever was
\* merged and evicted (record and evict).
THEOREM AccountingIsExact == Spec => []RetainedBytesAreExact
<1>1. Retained => RetainedBytesAreExact
  BY DEF Retained
<1> QED
  BY <1>1, RetentionInvariant, PTL

\* Whatever was presented or granted after a retained entry is retained,
\* under any limits (evict).
THEOREM EvictionGoesByUse == Spec => []RetainsMostRecentlyUsed
<1>1. Retained => RetainsMostRecentlyUsed
  BY DEF Retained
<1> QED
  BY <1>1, RetentionInvariant, PTL

-----------------------------------------------------------------------------
(* Refinement *)

\* What the ledger answers is what the authority may answer.
LEMMA DecisionRefines ==
  ASSUME IInv, NEW key, NEW result, Decide(key, result),
         result \in Authority!Refusals \cup {"granted"},
         result = "granted" =>
           key \in DOMAIN ledger.entries /\ <<key[1], TagOf[key[2]]>> \notin ledger.tombstones
  PROVE  Authority!ANext
<1>1. CASE result = "granted"
  <2>1. key \in Key
    BY <1>1 DEF IInv, TypeOK
  <2>2. PICK path \in Path, text \in Text : key = <<path, text>>
    BY <2>1 DEF Key
  <2> DEFINE entry == ledger.entries[key]
  <2>3. /\ decision' = [result |-> "granted", path |-> path, tag |-> TagOf[text],
                        text |-> text, lines |-> entry.seen, complete |-> entry.complete]
        /\ UNCHANGED <<shown, known>>
    BY <1>1, <2>2 DEF Decide, Answer
  <2>4. /\ entry.seen \in SUBSET DOMAIN text
        /\ entry.complete \in BOOLEAN
        /\ \A n \in entry.seen : <<path, text, n>> \in shown
        /\ entry.complete => entry.seen = DOMAIN text
        /\ <<path, text>> \in known
    BY <1>1, <2>2 DEF IInv, TypeOK, Entry, EntriesAreEvidence
  <2>5. IInv'
    BY DecideKeepsIInv
  <2>6. \A other \in Text : <<path, other>> \in known /\ TagOf[other] = TagOf[text] => other = text
    BY <2>3, <2>5 DEF IInv, GrantsAreUnambiguous
  <2> HIDE DEF entry
  <2>7. Authority!Grant(path, text)
    BY <2>3, <2>4, <2>6 DEF Authority!Grant
  <2> QED
    BY <2>7 DEF Authority!ANext
<1>2. CASE result # "granted"
  <2>1. decision' = [result |-> result, asked |-> key] /\ UNCHANGED <<shown, known>>
    BY <1>2 DEF Decide, Answer
  <2>2. Authority!Refuse
    BY <1>2, <2>1 DEF Authority!Refuse
  <2> QED
    BY <2>2 DEF Authority!ANext
<1> QED
  BY <1>1, <1>2

\* The ledger implements the authority: whatever it grants, the presented
\* lines justify, for any texts, tags and retention limits.
THEOREM LedgerImplementsAuthority == Spec => ImplementsAuthority
<1>1. Init => Authority!AInit
  BY DEF Init, NoDecision, Authority!AInit
<1>2. IInv /\ [Next]_vars => [Authority!ANext]_(Authority!avars)
  <2> SUFFICES ASSUME IInv, [Next]_vars
               PROVE  [Authority!ANext]_(Authority!avars)
    OBVIOUS
  <2> USE DEF Authority!Refusals
  <2>1. ASSUME NEW path \in Path, NEW text \in Text, Record(path, text)
        PROVE  Authority!Present(path, text)
    BY <2>1 DEF Record, NoDecision, Authority!Present
  <2>2. ASSUME NEW path \in Path, NEW tag \in Tag, NEW current \in Text,
               Resolve(path, tag, current)
        PROVE  Authority!ANext
    <3> DEFINE result == ResolveResult(ledger, path, tag, current)
               key == <<path, current>>
    <3>1. result = "granted" => CurrentResult(ledger, path, current) = "granted"
      BY DEF ResolveResult
    <3>2. result = "granted" =>
            key \in DOMAIN ledger.entries /\ <<key[1], TagOf[key[2]]>> \notin ledger.tombstones
      BY <3>1, CurrentGrants
    <3>3. result \in Authority!Refusals \cup {"granted"}
      BY DEF ResolveResult, CurrentResult
    <3>4. Decide(key, result)
      BY <2>2 DEF Resolve
    <3> HIDE DEF result, key
    <3> QED
      BY <3>2, <3>3, <3>4, DecisionRefines
  <2>3. ASSUME NEW path \in Path, NEW tag \in Tag, ResolveTag(path, tag)
        PROVE  Authority!ANext
    <3> DEFINE result == ResolveTagResult(ledger, path, tag)
               key == IF <<path, tag>> \in DOMAIN ledger.tags /\ ledger.tags[<<path, tag>>] # Collision
                      THEN <<path, ledger.tags[<<path, tag>>]>> ELSE <<path, tag>>
    <3>1. result = "granted" =>
            key \in DOMAIN ledger.entries /\ <<key[1], TagOf[key[2]]>> \notin ledger.tombstones
      BY ResolveTagGrants
    <3>2. result \in Authority!Refusals \cup {"granted"}
      BY DEF ResolveTagResult
    <3>3. Decide(key, result)
      BY <2>3 DEF ResolveTag
    <3> HIDE DEF result, key
    <3> QED
      BY <3>1, <3>2, <3>3, DecisionRefines
  <2>4. ASSUME NEW path \in Path, NEW current \in Text, Current(path, current)
        PROVE  Authority!ANext
    <3> DEFINE result == CurrentResult(ledger, path, current)
               key == <<path, current>>
    <3>1. result = "granted" =>
            key \in DOMAIN ledger.entries /\ <<key[1], TagOf[key[2]]>> \notin ledger.tombstones
      BY CurrentGrants
    <3>2. result \in Authority!Refusals \cup {"granted"}
      BY DEF CurrentResult
    <3>3. Decide(key, result)
      BY <2>4 DEF Current
    <3> HIDE DEF result, key
    <3> QED
      BY <3>1, <3>2, <3>3, DecisionRefines
  <2>5. CASE UNCHANGED vars
    BY <2>5 DEF vars, Authority!avars
  <2> QED
    BY <2>1, <2>2, <2>3, <2>4, <2>5 DEF Next, Authority!ANext
<1> QED
  BY <1>1, <1>2, LedgerInvariant, PTL DEF Spec, ImplementsAuthority, Authority!ASpec
=============================================================================
