--------------------- MODULE ProviderObservationsProofs ---------------------
(***************************************************************************)
(* Theorems about the observations of a custom provider's files, for any   *)
(* callers, texts, tags and size of the store.  What a key stands for is   *)
(* decided when its entry is made: the digests under it, in the store and  *)
(* in the calls that hold them, are the lines of one text that were shown. *)
(***************************************************************************)
EXTENDS ProviderObservations, TLAPS

\* Some lines of a text, as the digests of an entry
Excerpt(text, lines) == [n \in lines |-> text[n]]

Digests == UNION {{Excerpt(text, lines) : lines \in SUBSET DOMAIN text} : text \in Text}

Entries == [key : Path \X Tag, text : Text, digests : Digests]

Observing == [op : {"observe"}, path : Path, lines : SUBSET Lines]
Presenting == [op : {"present"}, path : Path, lines : SUBSET Lines, claimed : Text,
               trusted : Receipts \cup {Foreign}]
Validating == [op : {"validate"}, path : Path, tag : Tag, lines : SUBSET Lines,
               digests : Digests, attached : BOOLEAN]
Calls == {NoCall} \cup Observing \cup Presenting \cup Validating

-----------------------------------------------------------------------------
(* The inductive invariant *)

Types ==
  /\ entries \in Seq(Entries)
  /\ Len(entries) <= MaxEntries
  /\ DOMAIN call = Caller /\ DOMAIN answer = Caller
  /\ \A c \in Caller : call[c] \in Calls

\* Digests are those of lines of the text that were shown under its tag.
WereShown(path, text, digests) ==
  /\ DOMAIN digests \subseteq DOMAIN text
  /\ digests = Excerpt(text, DOMAIN digests)
  /\ \A n \in DOMAIN digests : <<path, text, n>> \in shown

KeysDiffer(s) == \A i, j \in DOMAIN s : s[i].key = s[j].key => i = j

\* An entry is of one text, has the key of its text, and no other has that.
EntriesFit ==
  /\ \A i \in DOMAIN entries :
       /\ entries[i].key[2] = TagOf[entries[i].text]
       /\ WereShown(entries[i].key[1], entries[i].text, entries[i].digests)
  /\ KeysDiffer(entries)
  /\ collisions \cap Keys = {}

\* A call under way holds the digests of one text of the tag it asks about.
HeldDigestsFit(c) ==
  call[c].op = "validate" =>
    \E text \in Text :
      /\ TagOf[text] = call[c].tag
      /\ WereShown(call[c].path, text, call[c].digests)

IInv == Types /\ EntriesFit /\ \A c \in Caller : HeldDigestsFit(c)

-----------------------------------------------------------------------------
(* Sequences of entries *)

\* A sequence with one element left out
IsWithout(t, s, k) ==
  /\ Len(t) = Len(s) - 1
  /\ \A i \in 1 .. Len(t) : t[i] = s[IF i < k THEN i ELSE i + 1]

\* The oldest entry is dropped.
LEMMA TailIsWithout ==
  ASSUME NEW S, NEW s \in Seq(S), Len(s) > 0
  PROVE  Tail(s) \in Seq(S) /\ IsWithout(Tail(s), s, 1)
<1> QED
  BY DEF IsWithout

\* The entry at an index is removed.
LEMMA RemoveAtIsWithout ==
  ASSUME NEW S, NEW s \in Seq(S), NEW k \in DOMAIN s
  PROVE  RemoveAt(s, k) \in Seq(S) /\ IsWithout(RemoveAt(s, k), s, k)
<1> DEFINE left == SubSeq(s, 1, k - 1)
           right == SubSeq(s, k + 1, Len(s))
<1>1. k \in Nat \ {0} /\ k <= Len(s) /\ Len(s) \in Nat
  OBVIOUS
<1>2. /\ left \in Seq(S) /\ Len(left) = k - 1 /\ \A i \in 1 .. k - 1 : left[i] = s[i]
  BY <1>1
<1>3. /\ right \in Seq(S) /\ Len(right) = Len(s) - k /\ \A i \in 1 .. Len(s) - k : right[i] = s[k + i]
  BY <1>1
<1> HIDE DEF left, right
<1>4. /\ left \o right \in Seq(S) /\ Len(left \o right) = Len(s) - 1
      /\ \A i \in 1 .. Len(s) - 1 : (left \o right)[i] = IF i <= k - 1 THEN left[i] ELSE right[i - (k - 1)]
  BY <1>1, <1>2, <1>3, SMTT(30)
<1>5. ASSUME NEW i \in 1 .. Len(s) - 1
      PROVE  (left \o right)[i] = s[IF i < k THEN i ELSE i + 1]
  <2>1. CASE i < k
    BY <2>1, <1>1, <1>2, <1>4
  <2>2. CASE ~(i < k)
    <3>1. i - (k - 1) \in 1 .. Len(s) - k /\ k + (i - (k - 1)) = i + 1 /\ ~(i <= k - 1)
      BY <2>2, <1>1
    <3> QED
      BY <2>2, <3>1, <1>3, <1>4
  <2> QED
    BY <2>1, <2>2
<1> QED
  BY <1>4, <1>5 DEF RemoveAt, IsWithout, left, right

\* The others stay, and their keys still differ.
LEMMA OthersStay ==
  ASSUME NEW S, NEW s \in Seq(S), NEW t \in Seq(S), NEW k \in DOMAIN s, IsWithout(t, s, k), KeysDiffer(s)
  PROVE  /\ KeysDiffer(t)
         /\ \A i \in DOMAIN t : \E j \in DOMAIN s : j # k /\ t[i] = s[j]
         /\ \A j \in DOMAIN s : j # k => \E i \in DOMAIN t : t[i] = s[j]
<1> DEFINE at(i) == IF i < k THEN i ELSE i + 1
<1>1. /\ DOMAIN s = 1 .. Len(s) /\ DOMAIN t = 1 .. Len(t) /\ Len(t) = Len(s) - 1
      /\ Len(s) \in Nat /\ Len(t) \in Nat /\ k \in 1 .. Len(s)
      /\ \A i \in DOMAIN t : t[i] = s[at(i)]
  BY DEF IsWithout
<1>2. \A i \in DOMAIN t : at(i) \in DOMAIN s /\ at(i) # k
  BY <1>1
<1>3. \A i, j \in DOMAIN t : at(i) = at(j) => i = j
  BY <1>1
<1>4. KeysDiffer(t)
  BY <1>1, <1>2, <1>3 DEF KeysDiffer
<1>5. ASSUME NEW j \in DOMAIN s, j # k
      PROVE  \E i \in DOMAIN t : t[i] = s[j]
  <2>1. PICK i \in DOMAIN t : at(i) = j
    <3>1. CASE j < k
      <4>1. j \in DOMAIN t /\ at(j) = j
        BY <3>1, <1>1
      <4> QED
        BY <4>1
    <3>2. CASE ~(j < k)
      <4>1. j - 1 \in DOMAIN t /\ at(j - 1) = j
        BY <3>2, <1>5, <1>1
      <4> QED
        BY <4>1
    <3> QED
      BY <3>1, <3>2
  <2> QED
    BY <2>1, <1>1
<1> QED
  BY <1>1, <1>2, <1>4, <1>5

\* The entry of a retained key is the only one that has it.
LEMMA RetainedEntry ==
  ASSUME IInv, NEW key, NEW at, at = CHOOSE i \in Retained(key) : TRUE
  PROVE  /\ key \in Keys => at \in DOMAIN entries /\ entries[at].key = key
         /\ key \in Keys => \A i \in DOMAIN entries : entries[i].key = key => i = at
         /\ key \notin Keys => \A i \in DOMAIN entries : entries[i].key # key
<1>1. key \notin Keys => \A i \in DOMAIN entries : entries[i].key # key
  BY DEF Keys
<1>2. ASSUME key \in Keys
      PROVE  at \in Retained(key)
  <2>1. \E i \in Retained(key) : TRUE
    BY <1>2 DEF Keys, Retained
  <2> QED
    BY <2>1
<1> QED
  BY <1>1, <1>2 DEF Retained, IInv, EntriesFit, KeysDiffer
-----------------------------------------------------------------------------
(* Recording lines of a text *)

\* What a receipt of a text is added to: an empty entry, or the one retained
StartsFrom(old, path, text) ==
  /\ \/ old \in [key : {<<path, TagOf[text]>>}, text : {text}, digests : {<<>>}]
     \/ \E i \in DOMAIN entries : entries[i] = old /\ entries[i].key = <<path, TagOf[text]>>
  /\ old.text = text

Extends(new, old, text, lines) == new = [old EXCEPT !.digests = Extended(@, text, lines)]

\* The entry a receipt is recorded in: lines of its text, those recorded
\* before and the new ones
LEMMA NewEntry ==
  ASSUME IInv, NEW path \in Path, NEW text \in Text, NEW lines, lines \subseteq DOMAIN text,
         NEW old, StartsFrom(old, path, text), NEW new, Extends(new, old, text, lines)
  PROVE  /\ new \in Entries /\ new.key = <<path, TagOf[text]>> /\ new.text = text
         /\ lines \subseteq DOMAIN new.digests /\ DOMAIN new.digests \subseteq DOMAIN text
         /\ new.digests = Excerpt(text, DOMAIN new.digests)
         /\ \A n \in DOMAIN new.digests : n \in lines \/ <<path, text, n>> \in shown
<1> DEFINE key == <<path, TagOf[text]>>
           digests == Extended(old.digests, text, lines)
<1>0. new = [old EXCEPT !.digests = digests] /\ old.text = text
  BY DEF Extends, StartsFrom
<1> HIDE DEF digests
<1>1. key \in Path \X Tag
  BY DEF Tag
<1>2. /\ old.key = key
      /\ DOMAIN old.digests \subseteq DOMAIN text
      /\ \A n \in DOMAIN old.digests : old.digests[n] = text[n] /\ <<path, text, n>> \in shown
      /\ new.digests = Extended(old.digests, text, lines) /\ new.key = key /\ new.text = text
      /\ new = [key |-> key, text |-> text, digests |-> new.digests]
  <2>1. CASE old \in [key : {key}, text : {text}, digests : {<<>>}]
    <3>1. old.key = key /\ old.digests = <<>>
      BY <2>1
    <3>2. DOMAIN <<>> = {}
      OBVIOUS
    <3>3. DOMAIN old.digests = {}
      BY <3>1, <3>2
    <3>4. /\ new = [key |-> key, text |-> text, digests |-> digests]
          /\ new.digests = digests /\ new.key = key /\ new.text = text
      BY <2>1, <1>0
    <3> QED
      BY <3>1, <3>3, <3>4 DEF digests
  <2>2. CASE \E i \in DOMAIN entries : entries[i] = old /\ entries[i].key = key
    <3>1. PICK at \in DOMAIN entries : entries[at] = old /\ old.key = key
      BY <2>2
    <3>2. old \in Entries
      <4>1. \A i \in DOMAIN entries : entries[i] \in Entries
        BY DEF IInv, Types
      <4> QED
        BY <3>1, <4>1
    <3>3. WereShown(old.key[1], old.text, old.digests) /\ old.key[1] = path
      BY <3>1 DEF IInv, EntriesFit
    <3>4. \A n \in DOMAIN old.digests : old.digests[n] = text[n]
      BY <3>3, <1>0 DEF WereShown, Excerpt
    <3> QED
      BY <3>1, <3>2, <3>3, <3>4, <1>0 DEF WereShown, Entries, digests
  <2> QED
    BY <2>1, <2>2 DEF StartsFrom
<1> DEFINE taken == (DOMAIN old.digests) \cup lines
<1>3. taken \subseteq DOMAIN text
  BY <1>2
<1>4. new.digests = Excerpt(text, taken)
  <2>1. \A n \in taken : (IF n \in lines THEN text[n] ELSE old.digests[n]) = text[n]
    BY <1>2
  <2> QED
    BY <2>1, <1>2 DEF Extended, Excerpt
<1>5. DOMAIN new.digests = taken
  BY <1>4 DEF Excerpt
<1>6. new.digests \in Digests
  <2>1. new.digests \in {Excerpt(text, some) : some \in SUBSET DOMAIN text}
    BY <1>3, <1>4
  <2> QED
    BY <2>1 DEF Digests
<1> QED
  BY <1>1, <1>2, <1>3, <1>4, <1>5, <1>6 DEF Entries

\* What recording a receipt does to a call that holds digests of its key: it
\* sees them grow, or goes on with those it has.
HoldsOn(d, now, key, digests) ==
  /\ call[d].op # "validate" => now = call[d]
  /\ call[d].op = "validate" =>
       /\ now \in Validating
       /\ now.path = call[d].path /\ now.tag = call[d].tag /\ now.lines = call[d].lines
       /\ \/ now.digests = call[d].digests
          \/ <<call[d].path, call[d].tag>> = key /\ now.digests = digests

\* A recorded receipt: the entry of its key, kept as the newest or in place,
\* and one entry dropped when there are too many.
Recorded(c, path, text, lines, new) ==
  /\ entries' \in Seq(Entries) /\ Len(entries') <= MaxEntries /\ KeysDiffer(entries')
  /\ \E i \in DOMAIN entries' : entries'[i] = new
  /\ \A i \in DOMAIN entries' :
       entries'[i] = new \/ \E j \in DOMAIN entries : entries'[i] = entries[j]
  /\ \A j \in DOMAIN entries : entries[j].key = new.key => entries[j].text = text
  /\ new \in Entries /\ new.key = <<path, TagOf[text]>> /\ new.text = text
  /\ lines \subseteq DOMAIN new.digests /\ DOMAIN new.digests \subseteq DOMAIN text
  /\ new.digests = Excerpt(text, DOMAIN new.digests)
  /\ \A n \in DOMAIN new.digests : <<path, text, n>> \in shown'
  /\ shown \subseteq shown' /\ collisions' = collisions /\ new.key \notin collisions
  /\ DOMAIN call' = Caller /\ call'[c] = NoCall
  /\ \A d \in Caller : d # c => HoldsOn(d, call'[d], new.key, new.digests)

\* A tag found to stand for two texts: its entry is given up.
Collided(c, key) ==
  /\ \E k \in DOMAIN entries : entries[k].key = key /\ entries' = RemoveAt(entries, k)
  /\ collisions' = collisions \cup {key} /\ shown' = shown
  /\ DOMAIN call' = Caller /\ call'[c] = NoCall
  /\ \A d \in Caller : d # c => HoldsOn(d, call'[d], key, call[d].digests)

\* A call under way, in what it is of its set of calls
LEMMA CallFields ==
  ASSUME IInv, NEW c \in Caller
  PROVE  /\ call[c] = NoCall <=> call[c].op = "none"
         /\ call[c].op = "observe" => call[c] \in Observing
         /\ call[c].op = "present" => call[c] \in Presenting
         /\ call[c].op = "validate" => call[c] \in Validating
         /\ call[c].op # "none" => call[c].path \in Path
         /\ call[c].op \in {"none", "observe", "present", "validate"}
<1>1. call[c] \in {NoCall} \cup Observing \cup Presenting \cup Validating
  BY DEF IInv, Types, Calls
<1>2. NoCall.op = "none"
  BY DEF NoCall
<1> QED
  BY <1>1, <1>2 DEF Observing, Presenting, Validating

\* A detached call holds the digests it had.
LEMMA DetachHolds ==
  ASSUME NEW d \in Caller, NEW calls, NEW key, NEW digests, HoldsOn(d, calls[d], key, digests),
         NEW dropped
  PROVE  HoldsOn(d, Detach(calls, dropped)[d], key, digests)
<1> DEFINE now == [calls[d] EXCEPT !.attached = FALSE]
<1>1. Detach(calls, dropped)[d] = IF SharedWith(d, dropped) THEN now ELSE calls[d]
  BY DEF Detach
<1>2. CASE SharedWith(d, dropped)
  <2>1. call[d].op = "validate" /\ calls[d] \in Validating
    BY <1>2 DEF SharedWith, HoldsOn
  <2>2. ASSUME NEW v \in Validating
        PROVE  LET w == [v EXCEPT !.attached = FALSE]
               IN /\ w \in Validating /\ w.path = v.path /\ w.tag = v.tag
                  /\ w.lines = v.lines /\ w.digests = v.digests
    BY DEF Validating
  <2>3. /\ now \in Validating /\ now.path = calls[d].path /\ now.tag = calls[d].tag
        /\ now.lines = calls[d].lines /\ now.digests = calls[d].digests
    BY <2>1, <2>2
  <2> HIDE DEF now
  <2> QED
    BY <1>1, <1>2, <2>1, <2>3 DEF HoldsOn
<1>3. CASE ~SharedWith(d, dropped)
  BY <1>1, <1>3
<1> QED
  BY <1>2, <1>3

\* What _record does: it refuses, finds the tag ambiguous, or records.
LEMMA RecordOutcomes ==
  ASSUME IInv, NEW c \in Caller, NEW path \in Path, NEW text \in Text,
         NEW lines, lines \subseteq DOMAIN text, NEW value,
         call[c].op \in {"observe", "present"}, Record(c, path, text, lines, value)
  PROVE  \/ End(c, Refused)
         \/ Collided(c, <<path, TagOf[text]>>) /\ Answer(c, Refused)
         \/ (\E new : Recorded(c, path, text, lines, new)) /\ Answer(c, value)
<1> DEFINE key == <<path, TagOf[text]>>
           at == CHOOSE i \in Retained(key) : TRUE
           old == IF key \notin Keys THEN [key |-> key, text |-> text, digests |-> <<>>] ELSE entries[at]
           new == [old EXCEPT !.digests = Extended(@, text, lines)]
           kept == IF key \notin Keys THEN Append(entries, new)
                   ELSE [i \in DOMAIN entries |-> IF entries[i].key = key THEN new ELSE entries[i]]
           ended == [call EXCEPT ![c] = NoCall]
           grown == [d \in Caller |-> IF d # c /\ SharedWith(d, key)
                                      THEN [ended[d] EXCEPT !.digests = new.digests] ELSE ended[d]]
<1>1. \/ End(c, Refused)
      \/ /\ key \notin collisions /\ old.text # text
         /\ entries' = RemoveAt(entries, at)
         /\ collisions' = collisions \cup {key}
         /\ call' = Detach(ended, key) /\ Answer(c, Refused) /\ UNCHANGED shown
      \/ /\ key \notin collisions /\ old.text = text
         /\ \/ Len(kept) > MaxEntries /\ entries' = Tail(kept) /\ call' = Detach(grown, Head(kept).key)
            \/ ~(Len(kept) > MaxEntries) /\ entries' = kept /\ call' = grown
         /\ shown' = shown \cup {<<path, text, n>> : n \in lines}
         /\ Answer(c, value) /\ UNCHANGED collisions
  BY DEF Record
<1>2. /\ entries \in Seq(Entries) /\ Len(entries) \in Nat /\ Len(entries) <= MaxEntries
      /\ DOMAIN entries = 1 .. Len(entries) /\ \A i \in DOMAIN entries : entries[i] \in Entries
      /\ DOMAIN call = Caller /\ KeysDiffer(entries)
      /\ MaxEntries \in Nat \ {0}
  BY ProviderAssumption DEF IInv, Types, EntriesFit
<1>3. /\ key \in Keys => at \in DOMAIN entries /\ entries[at].key = key
      /\ key \in Keys => \A i \in DOMAIN entries : entries[i].key = key => i = at
      /\ key \notin Keys => \A i \in DOMAIN entries : entries[i].key # key
  BY RetainedEntry
<1>4. /\ DOMAIN ended = Caller /\ ended[c] = NoCall
      /\ \A d \in Caller : d # c => ended[d] = call[d]
      /\ ~SharedWith(c, key) /\ \A other : ~SharedWith(c, other)
  BY <1>2 DEF SharedWith
<1>5. CASE /\ key \notin collisions /\ old.text # text
           /\ entries' = RemoveAt(entries, at)
           /\ collisions' = collisions \cup {key}
           /\ call' = Detach(ended, key) /\ Answer(c, Refused) /\ UNCHANGED shown
  <2>1. key \in Keys
    <3> SUFFICES ASSUME key \notin Keys PROVE FALSE
      OBVIOUS
    <3>1. old \in [key : {key}, text : {text}, digests : {<<>>}]
      OBVIOUS
    <3> QED
      BY <3>1, <1>5
  <2>2. DOMAIN call' = Caller /\ call'[c] = NoCall
    BY <1>4, <1>5 DEF Detach
  <2>3. ASSUME NEW d \in Caller, d # c
        PROVE  HoldsOn(d, call'[d], key, call[d].digests)
    <3>1. HoldsOn(d, ended[d], key, call[d].digests)
      BY <1>4, <2>3, CallFields DEF HoldsOn
    <3> QED
      BY <3>1, <1>5, DetachHolds
  <2> QED
    BY <1>3, <1>5, <2>1, <2>2, <2>3 DEF Collided
<1>6. CASE /\ key \notin collisions /\ old.text = text
           /\ \/ Len(kept) > MaxEntries /\ entries' = Tail(kept) /\ call' = Detach(grown, Head(kept).key)
              \/ ~(Len(kept) > MaxEntries) /\ entries' = kept /\ call' = grown
           /\ shown' = shown \cup {<<path, text, n>> : n \in lines}
           /\ Answer(c, value) /\ UNCHANGED collisions
  <2>1. /\ new \in Entries /\ new.key = key /\ new.text = text
        /\ lines \subseteq DOMAIN new.digests /\ DOMAIN new.digests \subseteq DOMAIN text
        /\ new.digests = Excerpt(text, DOMAIN new.digests)
        /\ \A n \in DOMAIN new.digests : n \in lines \/ <<path, text, n>> \in shown
    <3>1. \/ old \in [key : {key}, text : {text}, digests : {<<>>}]
          \/ \E i \in DOMAIN entries : entries[i] = old /\ entries[i].key = key
      <4>1. CASE key \in Keys
        <5>1. old = entries[at]
          BY <4>1
        <5> HIDE DEF old, at
        <5> QED
          BY <5>1, <4>1, <1>3
      <4>2. CASE key \notin Keys
        BY <4>2
      <4> QED
        BY <4>1, <4>2
    <3>2. StartsFrom(old, path, text)
      BY <1>6, <3>1 DEF StartsFrom
    <3>3. Extends(new, old, text, lines)
      BY DEF Extends
    <3> HIDE DEF at, old, new
    <3> QED
      BY <3>2, <3>3, NewEntry
  <2>2. \A j \in DOMAIN entries : entries[j].key = key => entries[j].text = text
    BY <1>3, <1>6 DEF Keys
  <2> HIDE DEF new, old, at
  <2>3. /\ kept \in Seq(Entries) /\ Len(kept) \in Nat /\ DOMAIN kept = 1 .. Len(kept)
        /\ KeysDiffer(kept)
        /\ \E i \in DOMAIN kept : kept[i] = new
        /\ \A i \in DOMAIN kept : kept[i] = new \/ \E j \in DOMAIN entries : kept[i] = entries[j]
        /\ Len(kept) > MaxEntries => kept[Len(kept)] = new /\ Len(kept) = MaxEntries + 1
    <3>1. CASE key \notin Keys
      <4>1. kept = Append(entries, new)
        BY <3>1
      <4> HIDE DEF kept
      <4>2. /\ kept \in Seq(Entries) /\ Len(kept) = Len(entries) + 1
            /\ DOMAIN kept = 1 .. Len(entries) + 1
            /\ kept[Len(entries) + 1] = new
            /\ \A i \in 1 .. Len(entries) : kept[i] = entries[i]
        BY <4>1, <2>1, <1>2
      <4>3. KeysDiffer(kept)
        BY <4>2, <3>1, <2>1, <1>2, <1>3 DEF KeysDiffer
      <4>4. Len(entries) + 1 \in DOMAIN kept
        BY <4>2, <1>2
      <4>5. \A i \in DOMAIN kept : kept[i] = new \/ \E j \in DOMAIN entries : kept[i] = entries[j]
        BY <4>2, <1>2
      <4>6. Len(kept) > MaxEntries => Len(kept) = MaxEntries + 1
        BY <4>2, <1>2
      <4> QED
        BY <4>2, <4>3, <4>4, <4>5, <4>6, <1>2
    <3>2. CASE key \in Keys
      <4>1. kept = [i \in DOMAIN entries |-> IF entries[i].key = key THEN new ELSE entries[i]]
        BY <3>2
      <4> HIDE DEF kept
      <4>2. /\ kept \in Seq(Entries) /\ Len(kept) = Len(entries) /\ DOMAIN kept = 1 .. Len(entries)
            /\ \A i \in 1 .. Len(entries) : kept[i] = IF entries[i].key = key THEN new ELSE entries[i]
        BY <4>1, <2>1, <1>2
      <4>3. at \in DOMAIN entries /\ kept[at] = new
        BY <4>2, <3>2, <1>2, <1>3
      <4>4. KeysDiffer(kept)
        BY <4>2, <2>1, <1>2 DEF KeysDiffer
      <4>5. \E i \in DOMAIN kept : kept[i] = new
        BY <4>2, <4>3, <1>2
      <4>6. \A i \in DOMAIN kept : kept[i] = new \/ \E j \in DOMAIN entries : kept[i] = entries[j]
        BY <4>2, <1>2
      <4>7. ~(Len(kept) > MaxEntries) /\ Len(kept) \in Nat
        BY <4>2, <1>2
      <4> QED
        BY <4>2, <4>4, <4>5, <4>6, <4>7
    <3> QED
      BY <3>1, <3>2
  <2> HIDE DEF kept
  <2>4. /\ DOMAIN grown = Caller /\ grown[c] = NoCall
        /\ \A d \in Caller : d # c => HoldsOn(d, grown[d], key, new.digests)
    <3>1. DOMAIN grown = Caller /\ grown[c] = NoCall
      BY <1>4
    <3>2. ASSUME NEW d \in Caller, d # c
          PROVE  HoldsOn(d, grown[d], key, new.digests)
      <4>1. CASE SharedWith(d, key)
        <5> DEFINE now == [call[d] EXCEPT !.digests = new.digests]
        <5>1. grown[d] = now
          BY <4>1, <3>2, <1>4
        <5>2. call[d] \in Validating /\ call[d].op = "validate" /\ <<call[d].path, call[d].tag>> = key
          BY <4>1, CallFields DEF SharedWith
        <5>3. new.digests \in Digests
          BY <2>1 DEF Entries
        <5>4. /\ now \in Validating /\ now.path = call[d].path /\ now.tag = call[d].tag
              /\ now.lines = call[d].lines /\ now.digests = new.digests
          BY <5>2, <5>3 DEF Validating
        <5> HIDE DEF now
        <5> QED
          BY <5>1, <5>2, <5>4 DEF HoldsOn
      <4>2. CASE ~SharedWith(d, key)
        <5>1. grown[d] = call[d]
          BY <4>2, <3>2, <1>4
        <5> QED
          BY <5>1, CallFields DEF HoldsOn
      <4> QED
        BY <4>1, <4>2
    <3> QED
      BY <3>1, <3>2
  <2> HIDE DEF grown
  <2>5. /\ DOMAIN call' = Caller /\ call'[c] = NoCall
        /\ \A d \in Caller : d # c => HoldsOn(d, call'[d], key, new.digests)
    <3>1. CASE call' = grown
      BY <3>1, <2>4
    <3>2. CASE call' = Detach(grown, Head(kept).key)
      <4>1. DOMAIN call' = Caller /\ call'[c] = NoCall
        BY <3>2, <2>4, <1>4 DEF Detach
      <4> QED
        BY <4>1, <3>2, <2>4, DetachHolds
    <3> QED
      BY <3>1, <3>2, <1>6
  <2>6. /\ entries' \in Seq(Entries) /\ Len(entries') <= MaxEntries /\ KeysDiffer(entries')
        /\ \E i \in DOMAIN entries' : entries'[i] = new
        /\ \A i \in DOMAIN entries' :
             entries'[i] = new \/ \E j \in DOMAIN entries : entries'[i] = entries[j]
    <3>1. CASE entries' = kept /\ ~(Len(kept) > MaxEntries)
      <4>1. Len(entries') <= MaxEntries
        BY <3>1, <2>3, <1>2
      <4>2. KeysDiffer(entries')
        BY <3>1, <2>3
      <4>3. \E i \in DOMAIN entries' : entries'[i] = new
        BY <3>1, <2>3
      <4>4. \A i \in DOMAIN entries' :
             entries'[i] = new \/ \E j \in DOMAIN entries : entries'[i] = entries[j]
        BY <3>1, <2>3
      <4> QED
        BY <4>1, <4>2, <4>3, <4>4, <3>1, <2>3
    <3>2. CASE entries' = Tail(kept) /\ Len(kept) > MaxEntries
      <4>1. /\ Len(kept) > 0 /\ 1 \in DOMAIN kept /\ Len(kept) # 1 /\ Len(kept) \in DOMAIN kept
        BY <3>2, <2>3, <1>2
      <4>2. entries' \in Seq(Entries) /\ IsWithout(entries', kept, 1)
        BY <3>2, <4>1, <2>3, TailIsWithout
      <4>3. /\ KeysDiffer(entries')
            /\ \A i \in DOMAIN entries' : \E j \in DOMAIN kept : j # 1 /\ entries'[i] = kept[j]
            /\ \A j \in DOMAIN kept : j # 1 => \E i \in DOMAIN entries' : entries'[i] = kept[j]
        <5>1. PICK s, t : s = kept /\ t = entries'
          OBVIOUS
        <5>2. /\ s \in Seq(Entries) /\ t \in Seq(Entries) /\ 1 \in DOMAIN s
              /\ IsWithout(t, s, 1) /\ KeysDiffer(s)
          BY <5>1, <4>1, <4>2, <2>3
        <5>3. /\ KeysDiffer(t)
              /\ \A i \in DOMAIN t : \E j \in DOMAIN s : j # 1 /\ t[i] = s[j]
              /\ \A j \in DOMAIN s : j # 1 => \E i \in DOMAIN t : t[i] = s[j]
          BY <5>2, OthersStay
        <5> QED
          BY <5>1, <5>3, Zenon
      <4>4. Len(entries') <= MaxEntries
        BY <4>2, <3>2, <2>3, <1>2 DEF IsWithout
      <4>5. \E i \in DOMAIN entries' : entries'[i] = new
        <5>1. kept[Len(kept)] = new
          BY <3>2, <2>3
        <5> QED
          BY <5>1, <4>1, <4>3
      <4> QED
        BY <4>2, <4>3, <4>4, <4>5, <2>3
    <3> QED
      BY <3>1, <3>2, <1>6
  <2>7. /\ \A n \in DOMAIN new.digests : <<path, text, n>> \in shown'
        /\ shown \subseteq shown' /\ collisions' = collisions /\ new.key \notin collisions
    BY <1>6, <2>1
  <2> QED
    BY <1>6, <2>1, <2>2, <2>5, <2>6, <2>7 DEF Recorded
<1> HIDE DEF key, at, old, new, kept, ended, grown
<1> QED
  BY <1>1, <1>5, <1>6
-----------------------------------------------------------------------------
(* The invariant holds at the start and each step keeps it *)

\* What an entry may become: another of the same text, or none
TextsStand ==
  \A i \in DOMAIN entries', j \in DOMAIN entries :
    entries'[i].key = entries[j].key => entries'[i].text = entries[j].text

\* No tag is given another text or answered for again.
TagsStand == TextsStand /\ collisions \subseteq collisions'

\* Nobody else's call begins, ends or is answered.
Only(c) == \A d \in Caller : d # c => call'[d].op = call[d].op /\ answer'[d] = answer[d]

\* What a call is told when its lines are valid, or its source editable
ValidAnswer(c) ==
  Ends(c, "valid") =>
    \E text \in Text :
      /\ TagOf[text] = call[c].tag
      /\ \A n \in call[c].lines :
           <<call[c].path, text, n>> \in shown /\ text[n] = answer'[c].text[n]

EditableAnswer(c) ==
  Ends(c, "editable") =>
    LET text == answer'[c].text
    IN /\ \E i \in DOMAIN entries' :
            /\ entries'[i].key = <<answer'[c].path, TagOf[text]>>
            /\ entries'[i].text = text
            /\ \A n \in call[c].lines : entries'[i].digests[n] = call[c].claimed[n]
       /\ call[c].trusted \in {None, text}

\* A call that waits holds digests of one text all the while.
LEMMA HeldDigestsStay ==
  ASSUME IInv, NEW d \in Caller, NEW path, NEW text \in Text, NEW digests,
         HoldsOn(d, call'[d], <<path, TagOf[text]>>, digests), shown \subseteq shown',
         digests = call[d].digests \/ WereShown(path, text, digests)'
  PROVE  call'[d] \in Calls /\ HeldDigestsFit(d)' /\ call'[d].op = call[d].op
<1>1. call[d] \in Calls /\ HeldDigestsFit(d)
  BY DEF IInv, Types
<1>2. CASE call[d].op # "validate"
  BY <1>1, <1>2 DEF HoldsOn, HeldDigestsFit
<1>3. CASE call[d].op = "validate"
  <2>1. /\ call'[d] \in Validating
        /\ call'[d].path = call[d].path /\ call'[d].tag = call[d].tag
        /\ \/ call'[d].digests = call[d].digests
           \/ <<call[d].path, call[d].tag>> = <<path, TagOf[text]>> /\ call'[d].digests = digests
    BY <1>3 DEF HoldsOn
  <2>2. PICK old \in Text : TagOf[old] = call[d].tag /\ WereShown(call[d].path, old, call[d].digests)
    BY <1>1, <1>3 DEF HeldDigestsFit
  <2>3. WereShown(call[d].path, old, call[d].digests)'
        \/ call'[d].digests # call[d].digests
    BY <2>1, <2>2 DEF WereShown
  <2>4. CASE call'[d].digests = call[d].digests
    <3>1. WereShown(call[d].path, old, call[d].digests)'
      BY <2>3, <2>4
    <3>2. HeldDigestsFit(d)'
      BY <2>1, <2>2, <3>1 DEF HeldDigestsFit
    <3> QED
      BY <1>3, <2>1, <3>2 DEF Calls, Validating
  <2>5. CASE call'[d].digests # call[d].digests
    <3>1. /\ call[d].path = path /\ call[d].tag = TagOf[text] /\ call'[d].digests = digests
          /\ digests # call[d].digests
      BY <2>1, <2>5
    <3>2. WereShown(path, text, digests)'
      BY <3>1
    <3>3. TagOf[text] = call'[d].tag /\ WereShown(call[d].path, text, call[d].digests)'
      BY <2>1, <3>1, <3>2 DEF WereShown
    <3> QED
      <4>1. HeldDigestsFit(d)'
        BY <3>3 DEF HeldDigestsFit
      <4> QED
        BY <1>3, <2>1, <4>1 DEF Calls, Validating
  <2> QED
    BY <2>4, <2>5
<1> QED
  BY <1>2, <1>3

\* A recorded receipt leaves every key its text.
LEMMA RecordedKeeps ==
  ASSUME IInv, NEW c \in Caller, NEW path \in Path, NEW text \in Text, NEW lines, NEW new,
         Recorded(c, path, text, lines, new), DOMAIN answer' = Caller
  PROVE  /\ IInv' /\ TagsStand /\ call'[c] = NoCall
         /\ \A d \in Caller : d # c => call'[d].op = call[d].op
<1>1. WereShown(path, text, new.digests)'
  BY DEF Recorded, WereShown
<1>2. ASSUME NEW d \in Caller, d # c
      PROVE  call'[d] \in Calls /\ HeldDigestsFit(d)' /\ call'[d].op = call[d].op
  <2>1. HoldsOn(d, call'[d], <<path, TagOf[text]>>, new.digests) /\ shown \subseteq shown'
    BY <1>2 DEF Recorded
  <2> QED
    BY <2>1, <1>1, HeldDigestsStay
<1>3. call'[c] = NoCall /\ call'[c] \in Calls /\ HeldDigestsFit(c)' /\ DOMAIN call' = Caller
  BY DEF Recorded, HeldDigestsFit, Calls, NoCall
<1>4. Types'
  BY <1>2, <1>3 DEF Recorded, Types
<1>5. ASSUME NEW i \in DOMAIN entries'
      PROVE  /\ entries'[i].key[2] = TagOf[entries'[i].text]
             /\ WereShown(entries[i].key[1], entries[i].text, entries[i].digests)'
             /\ entries'[i].key \notin collisions'
             /\ \A j \in DOMAIN entries : entries'[i].key = entries[j].key =>
                  entries'[i].text = entries[j].text
  <2>1. CASE entries'[i] = new
    BY <2>1, <1>1 DEF Recorded, WereShown
  <2>2. CASE \E j \in DOMAIN entries : entries'[i] = entries[j]
    <3>1. PICK j \in DOMAIN entries : entries'[i] = entries[j]
      BY <2>2
    <3>2. /\ entries[j].key[2] = TagOf[entries[j].text]
          /\ WereShown(entries[j].key[1], entries[j].text, entries[j].digests)
          /\ entries[j].key \notin collisions
      BY DEF IInv, EntriesFit, Keys
    <3>3. WereShown(entries[i].key[1], entries[i].text, entries[i].digests)'
      BY <3>1, <3>2 DEF WereShown, Recorded
    <3> QED
      BY <3>1, <3>2, <3>3 DEF IInv, EntriesFit, KeysDiffer, Recorded
  <2> QED
    BY <2>1, <2>2 DEF Recorded
<1>6. EntriesFit'
  BY <1>5 DEF EntriesFit, Keys, Recorded
<1>7. TagsStand
  BY <1>5 DEF TagsStand, TextsStand, Recorded
<1> QED
  BY <1>2, <1>3, <1>4, <1>6, <1>7 DEF IInv

\* An ambiguous tag loses its entry and is not answered for again.
LEMMA CollidedKeeps ==
  ASSUME IInv, NEW c \in Caller, NEW path \in Path, NEW text \in Text,
         Collided(c, <<path, TagOf[text]>>), DOMAIN answer' = Caller
  PROVE  /\ IInv' /\ TagsStand /\ call'[c] = NoCall
         /\ \A d \in Caller : d # c => call'[d].op = call[d].op
<1> DEFINE key == <<path, TagOf[text]>>
<1>1. PICK k \in DOMAIN entries : entries[k].key = key /\ entries' = RemoveAt(entries, k)
  BY DEF Collided
<1>2. /\ entries \in Seq(Entries) /\ Len(entries) <= MaxEntries /\ KeysDiffer(entries)
      /\ MaxEntries \in Nat
  BY ProviderAssumption DEF IInv, Types, EntriesFit
<1>3. entries' \in Seq(Entries) /\ IsWithout(entries', entries, k)
  BY <1>1, <1>2, RemoveAtIsWithout
<1>4. /\ KeysDiffer(entries')
      /\ \A i \in DOMAIN entries' : \E j \in DOMAIN entries : j # k /\ entries'[i] = entries[j]
  BY <1>2, <1>3, OthersStay
<1>5. ASSUME NEW d \in Caller, d # c
      PROVE  call'[d] \in Calls /\ HeldDigestsFit(d)' /\ call'[d].op = call[d].op
  <2>1. HoldsOn(d, call'[d], <<path, TagOf[text]>>, call[d].digests) /\ shown \subseteq shown'
    BY <1>5 DEF Collided
  <2> QED
    BY <2>1, HeldDigestsStay
<1>6. call'[c] = NoCall /\ call'[c] \in Calls /\ HeldDigestsFit(c)' /\ DOMAIN call' = Caller
  BY DEF Collided, HeldDigestsFit, Calls, NoCall
<1>7. Types'
  <2>1. Len(entries') <= MaxEntries
    BY <1>2, <1>3 DEF IsWithout
  <2> QED
    BY <1>3, <1>5, <1>6, <2>1 DEF Types
<1>8. ASSUME NEW i \in DOMAIN entries'
      PROVE  /\ entries'[i].key[2] = TagOf[entries'[i].text]
             /\ WereShown(entries[i].key[1], entries[i].text, entries[i].digests)'
             /\ entries'[i].key \notin collisions'
             /\ \A j \in DOMAIN entries : entries'[i].key = entries[j].key =>
                  entries'[i].text = entries[j].text
  <2>1. PICK j \in DOMAIN entries : j # k /\ entries'[i] = entries[j]
    BY <1>4
  <2>2. /\ entries[j].key[2] = TagOf[entries[j].text]
        /\ WereShown(entries[j].key[1], entries[j].text, entries[j].digests)
        /\ entries[j].key \notin collisions
    BY DEF IInv, EntriesFit, Keys
  <2>3. WereShown(entries[i].key[1], entries[i].text, entries[i].digests)'
    BY <2>1, <2>2 DEF WereShown, Collided
  <2>4. entries[j].key # key
    BY <1>1, <1>2, <2>1 DEF KeysDiffer
  <2> QED
    BY <2>1, <2>2, <2>3, <2>4, <1>2 DEF KeysDiffer, Collided
<1>9. EntriesFit'
  BY <1>4, <1>8 DEF EntriesFit, Keys
<1>10. TagsStand
  BY <1>8 DEF TagsStand, TextsStand, Collided
<1> QED
  BY <1>5, <1>6, <1>7, <1>9, <1>10 DEF IInv

\* A call begins or ends, and the store stays as it is.
LEMMA OwnCallKeeps ==
  ASSUME IInv, NEW c \in Caller, NEW now \in Calls, call' = [call EXCEPT ![c] = now],
         DOMAIN answer' = Caller, UNCHANGED <<entries, collisions, shown>>, HeldDigestsFit(c)'
  PROVE  /\ IInv' /\ TagsStand /\ call'[c] = now
         /\ \A d \in Caller : d # c => call'[d].op = call[d].op
<1>1. /\ DOMAIN call' = Caller /\ call'[c] = now
      /\ \A d \in Caller : d # c => call'[d] = call[d]
  BY DEF IInv, Types
<1>2. Types'
  BY <1>1 DEF IInv, Types
<1>3. \A d \in Caller : HeldDigestsFit(d)'
  <2> TAKE d \in Caller
  <2>1. CASE d = c
    BY <2>1
  <2>2. CASE d # c
    BY <2>2, <1>1 DEF IInv, HeldDigestsFit, WereShown
  <2> QED
    BY <2>1, <2>2
<1>4. EntriesFit'
  BY DEF IInv, EntriesFit, WereShown, Keys
<1>5. TagsStand
  BY DEF IInv, EntriesFit, KeysDiffer, TagsStand, TextsStand
<1> QED
  BY <1>1, <1>2, <1>3, <1>4, <1>5 DEF IInv

\* A call ends, and the store stays as it is.
LEMMA EndKeeps ==
  ASSUME IInv, NEW c \in Caller, NEW value, End(c, value)
  PROVE  /\ IInv' /\ TagsStand /\ call'[c] = NoCall
         /\ Only(c) /\ answer'[c] = value
<1>1. /\ call' = [call EXCEPT ![c] = NoCall] /\ answer' = [answer EXCEPT ![c] = value]
      /\ UNCHANGED <<entries, collisions, shown>>
  BY DEF End, Answer
<1>2. /\ DOMAIN answer' = Caller /\ answer'[c] = value /\ call'[c] = NoCall
      /\ \A d \in Caller : d # c => answer'[d] = answer[d]
  BY <1>1 DEF IInv, Types
<1>3. NoCall \in Calls /\ NoCall.op = "none"
  BY DEF Calls, NoCall
<1>4. HeldDigestsFit(c)'
  BY <1>2, <1>3 DEF HeldDigestsFit
<1>5. IInv' /\ TagsStand /\ \A d \in Caller : d # c => call'[d].op = call[d].op
  BY <1>1, <1>2, <1>3, <1>4, OwnCallKeeps
<1>6. Only(c)
  BY <1>2, <1>5 DEF Only
<1> QED
  BY <1>2, <1>5, <1>6

\* A call begins with what it asks for.
LEMMA AwaitKeeps ==
  ASSUME IInv, NEW c \in Caller, NEW request \in Calls, Await(c, request),
         request.op = "validate" => \E text \in Text :
           TagOf[text] = request.tag /\ WereShown(request.path, text, request.digests)
  PROVE  /\ IInv' /\ TagsStand /\ call[c] = NoCall
         /\ Only(c)
<1>1. /\ call[c] = NoCall /\ call' = [call EXCEPT ![c] = request]
      /\ answer' = [answer EXCEPT ![c] = Refused]
      /\ UNCHANGED <<entries, collisions, shown>>
  BY DEF Await
<1>2. /\ DOMAIN answer' = Caller /\ call'[c] = request
      /\ \A d \in Caller : d # c => answer'[d] = answer[d]
  BY <1>1 DEF IInv, Types
<1>3. HeldDigestsFit(c)'
  BY <1>1, <1>2 DEF HeldDigestsFit, WereShown
<1>4. IInv' /\ TagsStand /\ \A d \in Caller : d # c => call'[d].op = call[d].op
  BY <1>1, <1>2, <1>3, OwnCallKeeps
<1>5. Only(c)
  BY <1>2, <1>4 DEF Only
<1> QED
  BY <1>1, <1>4, <1>5

\* Whatever a recording comes to
LEMMA RecordKeeps ==
  ASSUME IInv, NEW c \in Caller, NEW path \in Path, NEW text \in Text,
         NEW lines, lines \subseteq DOMAIN text, NEW value,
         call[c].op \in {"observe", "present"}, Record(c, path, text, lines, value)
  PROVE  /\ IInv' /\ TagsStand /\ call'[c] = NoCall /\ Only(c)
         /\ \/ answer'[c] = Refused
            \/ answer'[c] = value /\ \E new : Recorded(c, path, text, lines, new)
<1>1. CASE End(c, Refused)
  BY <1>1, EndKeeps
<1>2. ASSUME NEW said, Answer(c, said)
      PROVE  /\ DOMAIN answer' = Caller /\ answer'[c] = said
             /\ \A d \in Caller : d # c => answer'[d] = answer[d]
  BY <1>2 DEF Answer, IInv, Types
<1>3. CASE Collided(c, <<path, TagOf[text]>>) /\ Answer(c, Refused)
  BY <1>2, <1>3, CollidedKeeps DEF Only
<1>4. CASE (\E new : Recorded(c, path, text, lines, new)) /\ Answer(c, value)
  BY <1>2, <1>4, RecordedKeeps DEF Only
<1> QED
  BY <1>1, <1>3, <1>4, RecordOutcomes

\* observe_file records the lines it was given with a receipt.
LEMMA EndObserveKeeps ==
  ASSUME IInv, NEW c \in Caller, NEW text \in Text, NEW receipt \in Receipts,
         NEW named \in Path, EndObserve(c, text, receipt, named)
  PROVE  IInv' /\ TagsStand /\ Only(c) /\ ValidAnswer(c) /\ EditableAnswer(c)
<1>1. /\ call[c].op = "observe" /\ receipt \in {text, None}
      /\ IF receipt = None
         THEN End(c, [result |-> "unobserved"])
         ELSE Record(c, named, receipt, call[c].lines \cap DOMAIN text, [result |-> "observed"])
  BY DEF EndObserve
<1>2. IInv' /\ TagsStand /\ Only(c) /\ answer'[c].result \in {"unobserved", "observed", "refused"}
  <2>1. CASE receipt = None
    BY <1>1, <2>1, EndKeeps
  <2>2. CASE receipt # None
    <3>1. /\ receipt = text
          /\ call[c].lines \cap DOMAIN text \subseteq DOMAIN text
      BY <1>1, <2>2, CallFields
    <3>2. IInv' /\ TagsStand /\ Only(c) /\ answer'[c] \in {Refused, [result |-> "observed"]}
      BY <1>1, <2>2, <3>1, RecordKeeps
    <3> QED
      BY <3>2 DEF Refused
  <2> QED
    BY <2>1, <2>2
<1> QED
  BY <1>2 DEF ValidAnswer, EditableAnswer, Ends

\* observe_claims: lines become editable when the whole text was read and is
\* the one of the receipt.
LEMMA EndPresentKeeps ==
  ASSUME IInv, NEW c \in Caller, NEW text \in Text, NEW receipt \in Receipts,
         NEW named \in Path, NEW complete \in BOOLEAN,
         EndPresent(c, text, receipt, named, complete)
  PROVE  IInv' /\ TagsStand /\ Only(c) /\ ValidAnswer(c) /\ EditableAnswer(c)
<1> DEFINE r == call[c]
           value == IF TrustHolds(r, receipt)
                    THEN [result |-> "editable", text |-> text, path |-> named]
                    ELSE Refused
<1>1. /\ r.op = "present"
      /\ IF ~ClaimsHold(r, text, receipt, complete)
         THEN End(c, Refused)
         ELSE Record(c, named, receipt, r.lines, value)
  BY DEF EndPresent
<1>2. CASE ~ClaimsHold(r, text, receipt, complete)
  BY <1>1, <1>2, EndKeeps DEF ValidAnswer, EditableAnswer, Ends, Refused
<1>3. CASE ClaimsHold(r, text, receipt, complete)
  <2>1. /\ receipt = text /\ r.lines \subseteq DOMAIN text
        /\ \A n \in r.lines : text[n] = r.claimed[n]
    BY <1>1, <1>3, CallFields DEF ClaimsHold
  <2>2. Record(c, named, text, r.lines, value)
    BY <1>1, <1>3, <2>1
  <2> HIDE DEF value
  <2>3. /\ IInv' /\ TagsStand /\ Only(c)
        /\ \/ answer'[c] = Refused
           \/ answer'[c] = value /\ \E new : Recorded(c, named, text, r.lines, new)
    BY <1>1, <2>1, <2>2, RecordKeeps
  <2>4. value.result # "valid" /\ Refused.result = "refused"
    BY DEF value, Refused
  <2>5. ASSUME answer'[c].result = "editable"
        PROVE  /\ answer'[c].text = text /\ answer'[c].path = named /\ TrustHolds(r, receipt)
               /\ \E new : Recorded(c, named, text, r.lines, new)
    BY <2>3, <2>4, <2>5 DEF value
  <2>6. EditableAnswer(c)
    <3> SUFFICES ASSUME answer'[c].result = "editable" PROVE EditableAnswer(c)
      BY DEF EditableAnswer, Ends
    <3>1. PICK new : Recorded(c, named, text, r.lines, new)
      BY <2>5
    <3>2. PICK i \in DOMAIN entries' : entries'[i] = new
      BY <3>1 DEF Recorded
    <3>3. /\ entries'[i].key = <<named, TagOf[text]>> /\ entries'[i].text = text
          /\ \A n \in r.lines : entries'[i].digests[n] = r.claimed[n]
      BY <2>1, <3>1, <3>2 DEF Recorded, Excerpt
    <3>4. r.trusted \in {None, text}
      BY <2>1, <2>5 DEF TrustHolds
    <3> QED
      BY <2>5, <3>3, <3>4 DEF EditableAnswer
  <2>7. ValidAnswer(c)
    BY <2>3, <2>4 DEF ValidAnswer, Ends
  <2> QED
    BY <2>3, <2>6, <2>7
<1> QED
  BY <1>2, <1>3

\* validate_observed_lines: the digests held are of one text that was shown.
LEMMA EndValidateKeeps ==
  ASSUME IInv, NEW c \in Caller, NEW text \in Text, NEW receipt \in Receipts,
         EndValidate(c, text, receipt)
  PROVE  IInv' /\ TagsStand /\ Only(c) /\ ValidAnswer(c) /\ EditableAnswer(c)
<1> DEFINE r == call[c]
           value == [result |-> "valid", text |-> text]
           holds == receipt # None /\ \A n \in r.lines : /\ n \in DOMAIN r.digests
                                                       /\ n \in DOMAIN text /\ text[n] = r.digests[n]
<1>1. r.op = "validate" /\ IF holds THEN End(c, value) ELSE End(c, Refused)
  BY DEF EndValidate
<1>2. CASE ~holds
  BY <1>1, <1>2, EndKeeps DEF ValidAnswer, EditableAnswer, Ends, Refused
<1>3. CASE holds
  <2>1. IInv' /\ TagsStand /\ Only(c) /\ answer'[c] = value
    BY <1>1, <1>3, EndKeeps
  <2>2. EditableAnswer(c)
    BY <2>1 DEF EditableAnswer, Ends
  <2>3. ValidAnswer(c)
    <3>1. PICK old \in Text : TagOf[old] = r.tag /\ WereShown(r.path, old, r.digests)
      BY <1>1 DEF IInv, HeldDigestsFit
    <3>2. \A n \in r.lines : <<r.path, old, n>> \in shown /\ old[n] = text[n]
      BY <1>3, <3>1 DEF WereShown, Excerpt
    <3> QED
      BY <2>1, <3>1, <3>2 DEF ValidAnswer
  <2> QED
    BY <2>1, <2>2, <2>3
<1> QED
  BY <1>2, <1>3
\* A call begins, or is refused at once.
LEMMA BeginKeeps ==
  ASSUME IInv, NEW c \in Caller, NEW path \in Path, NEW lines \in SUBSET Lines,
         \/ BeginObserve(c, path, lines)
         \/ \E text \in Text, trusted \in Receipts \cup {Foreign} :
              BeginPresent(c, path, text, lines, trusted)
         \/ \E tag \in Tag : BeginValidate(c, path, tag, lines)
  PROVE  IInv' /\ TagsStand /\ Only(c) /\ ValidAnswer(c) /\ EditableAnswer(c)
<1> SUFFICES IInv' /\ TagsStand /\ Only(c) /\ (call[c] = NoCall \/ answer'[c] = Refused)
  BY DEF ValidAnswer, EditableAnswer, Ends, Refused, NoCall
<1>1. CASE BeginObserve(c, path, lines)
  <2> DEFINE request == [op |-> "observe", path |-> path, lines |-> lines]
  <2>1. request \in Calls /\ request.op = "observe" /\ Await(c, request)
    BY <1>1 DEF BeginObserve, Calls, Observing
  <2> HIDE DEF request
  <2> QED
    BY <2>1, AwaitKeeps
<1>2. CASE \E text \in Text, trusted \in Receipts \cup {Foreign} :
             BeginPresent(c, path, text, lines, trusted)
  <2>1. PICK text \in Text, trusted \in Receipts \cup {Foreign} :
          BeginPresent(c, path, text, lines, trusted)
    BY <1>2
  <2> DEFINE request == [op |-> "present", path |-> path, lines |-> lines,
                         claimed |-> text, trusted |-> trusted]
  <2>2. request \in Calls /\ request.op = "present" /\ Await(c, request)
    BY <2>1 DEF BeginPresent, Calls, Presenting
  <2> HIDE DEF request
  <2> QED
    BY <2>2, AwaitKeeps
<1>3. CASE \E tag \in Tag : BeginValidate(c, path, tag, lines)
  <2>1. PICK tag \in Tag : BeginValidate(c, path, tag, lines)
    BY <1>3
  <2> DEFINE key == <<path, tag>>
  <2>2. CASE call[c] = NoCall /\ End(c, Refused)
    BY <2>2, EndKeeps
  <2>3. ASSUME NEW i \in Retained(key),
               Await(c, [op |-> "validate", path |-> path, tag |-> tag, lines |-> lines,
                         digests |-> entries[i].digests, attached |-> TRUE])
        PROVE  IInv' /\ TagsStand /\ Only(c) /\ call[c] = NoCall
    <3> DEFINE request == [op |-> "validate", path |-> path, tag |-> tag, lines |-> lines,
                           digests |-> entries[i].digests, attached |-> TRUE]
    <3>1. i \in DOMAIN entries /\ entries[i].key = key
      BY DEF Retained
    <3>2. entries[i] \in Entries
      <4>1. \A j \in DOMAIN entries : entries[j] \in Entries
        BY DEF IInv, Types
      <4> QED
        BY <3>1, <4>1
    <3>3. entries[i].text \in Text /\ entries[i].digests \in Digests
      BY <3>2 DEF Entries
    <3>4. /\ TagOf[entries[i].text] = tag
          /\ WereShown(path, entries[i].text, entries[i].digests)
      BY <3>1 DEF IInv, EntriesFit
    <3>5. request \in Calls
      BY <3>3 DEF Calls, Validating
    <3>6. request.tag = tag /\ request.path = path /\ request.digests = entries[i].digests
      OBVIOUS
    <3>7. Await(c, request)
      BY <2>3
    <3> HIDE DEF request
    <3> QED
      BY <3>3, <3>4, <3>5, <3>6, <3>7, AwaitKeeps
  <2>4. \/ call[c] = NoCall /\ End(c, Refused)
        \/ \E i \in Retained(key) :
             Await(c, [op |-> "validate", path |-> path, tag |-> tag, lines |-> lines,
                       digests |-> entries[i].digests, attached |-> TRUE])
    BY <2>1 DEF BeginValidate
  <2> QED
    BY <2>2, <2>3, <2>4
<1> QED
  BY <1>1, <1>2, <1>3

\* Nothing is recorded and nobody has asked.
LEMMA InitIInv == Init => IInv
<1> SUFFICES ASSUME Init PROVE IInv
  OBVIOUS
<1>1. entries = <<>> /\ collisions = {} /\ call = [c \in Caller |-> NoCall]
      /\ answer = [c \in Caller |-> Refused]
  BY DEF Init
<1>2. /\ entries \in Seq(Entries) /\ Len(entries) = 0 /\ DOMAIN entries = {}
      /\ MaxEntries \in Nat
  BY <1>1, ProviderAssumption
<1>3. Types
  BY <1>1, <1>2 DEF Types, Calls
<1>4. EntriesFit
  BY <1>1, <1>2 DEF EntriesFit, KeysDiffer
<1>5. \A c \in Caller : HeldDigestsFit(c)
  BY <1>1 DEF HeldDigestsFit, NoCall
<1> QED
  BY <1>3, <1>4, <1>5 DEF IInv

\* Every step of a caller
LEMMA NextKeeps ==
  ASSUME IInv, Next
  PROVE  IInv' /\ TagsStand /\ \A d \in Caller : ValidAnswer(d) /\ EditableAnswer(d)
<1>1. PICK c \in Caller :
        \/ ProviderFails(c)
        \/ \E text \in Text, receipt \in Receipts :
             \/ \E named \in Path :
                  \/ EndObserve(c, text, receipt, named)
                  \/ \E complete \in BOOLEAN : EndPresent(c, text, receipt, named, complete)
             \/ EndValidate(c, text, receipt)
        \/ \E path \in Path :
             \/ \E lines \in SUBSET Lines : BeginObserve(c, path, lines)
             \/ \E text \in Text, trusted \in Receipts \cup {Foreign} :
                  \E lines \in SUBSET DOMAIN text : BeginPresent(c, path, text, lines, trusted)
             \/ \E tag \in Tag : \E lines \in SUBSET Lines : BeginValidate(c, path, tag, lines)
  BY DEF Next
<1>2. IInv' /\ TagsStand /\ Only(c) /\ ValidAnswer(c) /\ EditableAnswer(c)
  <2>1. CASE ProviderFails(c)
    BY <2>1, EndKeeps DEF ProviderFails, ValidAnswer, EditableAnswer, Ends, Refused
  <2>2. CASE \E text \in Text, receipt \in Receipts :
               \/ \E named \in Path :
                    \/ EndObserve(c, text, receipt, named)
                    \/ \E complete \in BOOLEAN : EndPresent(c, text, receipt, named, complete)
               \/ EndValidate(c, text, receipt)
    BY <2>2, EndObserveKeeps, EndPresentKeeps, EndValidateKeeps
  <2>3. ASSUME NEW path \in Path, NEW lines \in SUBSET Lines, BeginObserve(c, path, lines)
        PROVE  IInv' /\ TagsStand /\ Only(c) /\ ValidAnswer(c) /\ EditableAnswer(c)
    BY <2>3, BeginKeeps
  <2>4. ASSUME NEW path \in Path, NEW text \in Text, NEW trusted \in Receipts \cup {Foreign},
               NEW lines \in SUBSET DOMAIN text, BeginPresent(c, path, text, lines, trusted)
        PROVE  IInv' /\ TagsStand /\ Only(c) /\ ValidAnswer(c) /\ EditableAnswer(c)
    <3>1. lines \in SUBSET Lines
      BY DEF Lines
    <3> QED
      BY <2>4, <3>1, BeginKeeps
  <2>5. ASSUME NEW path \in Path, NEW tag \in Tag, NEW lines \in SUBSET Lines,
               BeginValidate(c, path, tag, lines)
        PROVE  IInv' /\ TagsStand /\ Only(c) /\ ValidAnswer(c) /\ EditableAnswer(c)
    BY <2>5, BeginKeeps
  <2> QED
    BY <1>1, <2>1, <2>2, <2>3, <2>4, <2>5
<1>3. ASSUME NEW d \in Caller, d # c
      PROVE  ValidAnswer(d) /\ EditableAnswer(d)
  BY <1>2, <1>3 DEF Only, ValidAnswer, EditableAnswer, Ends, NoCall
<1> QED
  BY <1>2, <1>3

\* The texts of retained keys are told from the entries.
LEMMA TextOfKey ==
  ASSUME IInv, IInv', TagsStand, NEW key \in Path \X Tag, key \in Keys, key \in Keys'
  PROVE  TextOf(key)' = TextOf(key)
<1>1. PICK i : i = CHOOSE k \in Retained(key) : TRUE
  OBVIOUS
<1>2. PICK j : j = CHOOSE k \in Retained(key)' : TRUE
  OBVIOUS
<1>3. i \in DOMAIN entries /\ entries[i].key = key
  BY <1>1 DEF Keys, Retained
<1>4. j \in DOMAIN entries' /\ entries'[j].key = key
  BY <1>2 DEF Keys, Retained
<1>5. entries'[j].text = entries[i].text
  BY <1>3, <1>4 DEF TagsStand, TextsStand
<1> QED
  BY <1>1, <1>2, <1>5 DEF TextOf

-----------------------------------------------------------------------------
(* The theorems *)

\* The invariant holds in every reachable state, whatever texts the provider
\* answers with and in whatever order the calls interleave.
THEOREM InvariantHolds == Spec => []IInv
<1>1. IInv /\ [Next]_vars => IInv'
  <2> SUFFICES ASSUME IInv, [Next]_vars PROVE IInv'
    OBVIOUS
  <2>1. CASE Next
    BY <2>1, NextKeeps
  <2>2. CASE UNCHANGED vars
    BY <2>2 DEF vars, IInv, Types, EntriesFit, KeysDiffer, HeldDigestsFit, WereShown, Keys
  <2> QED
    BY <2>1, <2>2
<1> QED
  BY <1>1, InitIInv, PTL DEF Spec

\* validate_observed_lines: valid lines are lines, in the file as it was read,
\* of one text that were all shown under the tag, for any callers and texts,
\* any tags that collide and any size of the store.
THEOREM ValidLinesWereShown == Spec => ValidLinesAreOfOneShownText
<1> DEFINE Told == \A c \in Caller : Ends(c, "valid") =>
             \E text \in Text :
               /\ TagOf[text] = call[c].tag
               /\ \A n \in call[c].lines :
                    <<call[c].path, text, n>> \in shown /\ text[n] = answer'[c].text[n]
<1>1. IInv /\ [Next]_vars => [Told]_vars
  BY NextKeeps DEF ValidAnswer
<1> QED
  BY <1>1, InvariantHolds, PTL DEF Spec, ValidLinesAreOfOneShownText

\* observe_claims: lines become editable only as lines of the whole text that
\* was read, which the store retains under its tag with them.
THEOREM EditableSourceWasRead == Spec => EditableSourceIsCurrent
<1> DEFINE Told == \A c \in Caller : Ends(c, "editable") =>
             LET text == answer'[c].text
             IN /\ \E i \in DOMAIN entries' :
                     /\ entries'[i].key = <<answer'[c].path, TagOf[text]>>
                     /\ entries'[i].text = text
                     /\ \A n \in call[c].lines : entries'[i].digests[n] = call[c].claimed[n]
                /\ call[c].trusted \in {None, text}
<1>1. IInv /\ [Next]_vars => [Told]_vars
  BY NextKeeps DEF EditableAnswer
<1> QED
  BY <1>1, InvariantHolds, PTL DEF Spec, EditableSourceIsCurrent

\* _record: a tag keeps its text until it is forgotten, and one found
\* ambiguous is never answered for again.
THEOREM TagsKeepTheirTexts == Spec => TagsAreNeverRebound
<1> DEFINE Bound == \A key \in Path \X Tag :
             /\ key \in Keys /\ key \in Keys' => TextOf(key)' = TextOf(key)
             /\ key \in collisions => key \in collisions' /\ key \notin Keys'
<1>1. IInv /\ IInv' /\ [Next]_vars => [Bound]_vars
  <2> SUFFICES ASSUME IInv, IInv', Next PROVE Bound
    OBVIOUS
  <2>1. TagsStand
    BY NextKeeps
  <2>2. collisions \subseteq collisions' /\ collisions' \cap Keys' = {}
    BY <2>1 DEF TagsStand, IInv, EntriesFit
  <2> QED
    BY <2>1, <2>2, TextOfKey
<1> QED
  BY <1>1, InvariantHolds, PTL DEF Spec, TagsAreNeverRebound
=============================================================================
