------------------------ MODULE ProviderObservations ------------------------
(***************************************************************************)
(* The observations of a session whose files come from a custom provider:  *)
(* a store of the Python side that remembers which lines were shown under  *)
(* which tag, and the presenter that turns search results into editable    *)
(* source.  Each call awaits one read of the provider, and calls interleave *)
(* there.  The provider's files change at any time, so that a read may     *)
(* find any text.                                                          *)
(*                                                                         *)
(* A text is a sequence of lines.  A text stands for its sha256 and a line *)
(* for its own digest: digests are taken to be free of collisions, tags    *)
(* are not.                                                                *)
(***************************************************************************)
EXTENDS Integers, Sequences, FiniteSets, SequencesExt

CONSTANTS
  Caller,      \* asyncio tasks
  Path, Text,  \* files, and the texts the provider may hold
  TagOf,       \* [Text -> tag]: the first four digits of the sha256
  MaxEntries,  \* 256 in the code
  None,        \* no receipt, no trusted receipt
  Foreign      \* a trusted receipt of another session, provider or file generation

ASSUME ProviderAssumption ==
  /\ {None, Foreign} \cap Text = {}
  /\ MaxEntries \in Nat \ {0}
  /\ DOMAIN TagOf = Text

Tag == {TagOf[text] : text \in Text}
Lines == UNION {DOMAIN text : text \in Text}

VARIABLES
  entries,     \* _entries: oldest key first, as Python's dict keeps them
  collisions,  \* _collisions: keys no longer answered for
  call,        \* [Caller -> the call under way]
  answer,      \* [Caller -> the answer to its last call, the text that was read, the path named]
  shown        \* history: <<path, text, line number>> shown under the text's tag

vars == <<entries, collisions, call, answer, shown>>

NoCall == [op |-> "none"]
Refused == [result |-> "refused"]

Retained(key) == {i \in DOMAIN entries : entries[i].key = key}
Keys == {entries[i].key : i \in DOMAIN entries}

Init ==
  /\ entries = <<>>
  /\ collisions = {}
  /\ call = [c \in Caller |-> NoCall]
  /\ answer = [c \in Caller |-> Refused]
  /\ shown = {}

Await(c, request) ==
  /\ call[c] = NoCall
  /\ call' = [call EXCEPT ![c] = request]
  /\ answer' = [answer EXCEPT ![c] = Refused]
  /\ UNCHANGED <<entries, collisions, shown>>

Answer(c, value) == answer' = [answer EXCEPT ![c] = value]

End(c, value) ==
  /\ call' = [call EXCEPT ![c] = NoCall]
  /\ Answer(c, value)
  /\ UNCHANGED <<entries, collisions, shown>>
-----------------------------------------------------------------------------
(* Requests, up to the provider's read *)

\* observe_file, without an expected revision (with one it is refused).
BeginObserve(c, path, lines) == Await(c, [op |-> "observe", path |-> path, lines |-> lines])

\* The presenter's observe: some lines of a text a search saw, perhaps with a
\* trusted receipt for them.
BeginPresent(c, path, text, lines, trusted) ==
  /\ lines # {} /\ lines \subseteq DOMAIN text
  /\ Await(c, [op |-> "present", path |-> path, lines |-> lines,
               claimed |-> text, trusted |-> trusted])

\* validate_observed_lines resolves its entry before it awaits the read, and
\* keeps the entry it found; so does resolve_observation, which reads nothing.
BeginValidate(c, path, tag, lines) ==
  LET key == <<path, tag>>
  IN /\ lines # {}
     /\ IF key \in collisions \/ key \notin Keys
        THEN call[c] = NoCall /\ End(c, Refused)
        ELSE \E i \in Retained(key) :
               Await(c, [op |-> "validate", path |-> path, tag |-> tag, lines |-> lines,
                         digests |-> entries[i].digests, attached |-> TRUE])

\* The provider fails, or answers for another path than it was asked for, or
\* with a receipt that names none in canonical form.
ProviderFails(c) == call[c].op # "none" /\ End(c, Refused)
-----------------------------------------------------------------------------
(* The store *)

Extended(digests, text, lines) ==
  [n \in (DOMAIN digests) \cup lines |-> IF n \in lines THEN text[n] ELSE digests[n]]

\* A re-recorded key keeps its dict of digests, which calls under way may hold.
SharedWith(d, key) == call[d].op = "validate" /\ call[d].attached /\ <<call[d].path, call[d].tag>> = key

Detach(calls, key) ==
  [d \in Caller |-> IF SharedWith(d, key) THEN [calls[d] EXCEPT !.attached = FALSE] ELSE calls[d]]

\* Mutant: the new receipt takes the key without its sha256 being compared.
RecordMixed(c, path, text, lines, value) ==
  LET key == <<path, TagOf[text]>>
      old == IF key \notin Keys THEN <<>> ELSE entries[CHOOSE i \in Retained(key) : TRUE].digests
      new == [key |-> key, text |-> text, digests |-> Extended(old, text, lines)]
  IN /\ entries' = IF key \notin Keys
                   THEN Append(IF Len(entries) = MaxEntries THEN Tail(entries) ELSE entries, new)
                   ELSE [i \in DOMAIN entries |-> IF entries[i].key = key THEN new ELSE entries[i]]
     /\ call' = Detach([call EXCEPT ![c] = NoCall], key)
     /\ shown' = shown \cup {<<path, text, n>> : n \in lines}
     /\ Answer(c, value)
     /\ UNCHANGED collisions

\* _record of lines of a text under its receipt's tag.
Record(c, path, text, lines, value) ==
  LET key == <<path, TagOf[text]>>
      at == CHOOSE i \in Retained(key) : TRUE
      old == IF key \notin Keys THEN [key |-> key, text |-> text, digests |-> <<>>]
             ELSE entries[at]
      new == [old EXCEPT !.digests = Extended(@, text, lines)]
      kept == IF key \notin Keys THEN Append(entries, new)
              ELSE [i \in DOMAIN entries |-> IF entries[i].key = key THEN new ELSE entries[i]]
      ended == [call EXCEPT ![c] = NoCall]
      grown == [d \in Caller |-> IF d # c /\ SharedWith(d, key)
                                 THEN [ended[d] EXCEPT !.digests = new.digests] ELSE ended[d]]
  IN \/ /\ key \in collisions
        /\ End(c, Refused)
     \/ /\ key \notin collisions /\ old.text # text
        /\ entries' = RemoveAt(entries, at)
        /\ collisions' = collisions \cup {key}
        /\ call' = Detach(ended, key)
        /\ Answer(c, Refused)
        /\ UNCHANGED shown
     \/ /\ key \notin collisions /\ old.text = text
        /\ IF Len(kept) > MaxEntries
           THEN entries' = Tail(kept) /\ call' = Detach(grown, Head(kept).key)
           ELSE entries' = kept /\ call' = grown
        /\ shown' = shown \cup {<<path, text, n>> : n \in lines}
        /\ Answer(c, value)
        /\ UNCHANGED collisions
-----------------------------------------------------------------------------
(* Answers, once the provider has read a text *)

Receipts == Text \cup {None}

\* The lines come with the receipt of the text they are of, or with none.  The
\* path the receipt names is the one they are recorded under: it is not
\* compared with the path that was read.
EndObserve(c, text, receipt, named) ==
  LET r == call[c]
  IN /\ r.op = "observe"
     /\ receipt \in {text, None}
     /\ IF receipt = None
        THEN End(c, [result |-> "unobserved"])
        ELSE Record(c, named, receipt, r.lines \cap DOMAIN text, [result |-> "observed"])

\* Mutant: the receipt is believed without the digest of the source.
ClaimsHoldUnread(r, text, receipt, complete) ==
  /\ \A n \in r.lines : n \in DOMAIN text /\ text[n] = r.claimed[n]
  /\ receipt # None

\* observe_claims: every claimed line is still there, there is a receipt, the
\* whole source was read and has the digest of the receipt.
ClaimsHold(r, text, receipt, complete) ==
  /\ \A n \in r.lines : n \in DOMAIN text /\ text[n] = r.claimed[n]
  /\ receipt # None
  /\ complete /\ receipt = text

\* _validate_trusted comes after the claims were recorded.
TrustHolds(r, receipt) == r.trusted \in {None, receipt}

\* Here the receipt's text is not taken on trust; its path is.
EndPresent(c, text, receipt, named, complete) ==
  LET r == call[c]
  IN /\ r.op = "present"
     /\ IF ~ClaimsHold(r, text, receipt, complete)
        THEN End(c, Refused)
        ELSE Record(c, named, receipt, r.lines,
                    IF TrustHolds(r, receipt)
                    THEN [result |-> "editable", text |-> text, path |-> named]
                    ELSE Refused)

\* Every line asked for was recorded in the entry found before the read, and
\* has the recorded digest in the file as it was read.
EndValidate(c, text, receipt) ==
  LET r == call[c]
  IN /\ r.op = "validate"
     /\ IF /\ receipt # None
           /\ \A n \in r.lines : /\ n \in DOMAIN r.digests
                                  /\ n \in DOMAIN text /\ text[n] = r.digests[n]
        THEN End(c, [result |-> "valid", text |-> text])
        ELSE End(c, Refused)

Next ==
  \E c \in Caller :
    \/ ProviderFails(c)
    \/ \E text \in Text, receipt \in Receipts :
         \/ \E named \in Path :
              \/ EndObserve(c, text, receipt, named)
              \/ \E complete \in BOOLEAN : EndPresent(c, text, receipt, named, complete)
         \/ EndValidate(c, text, receipt)
    \/ \E path \in Path :
         \/ \E lines \in SUBSET Lines : BeginObserve(c, path, lines)
         \/ \E text \in Text, trusted \in Receipts \cup {Foreign} :
              \E lines \in SUBSET DOMAIN text : BeginPresent(c, path, text, lines, trusted)
         \/ \E tag \in Tag : \E lines \in SUBSET Lines : BeginValidate(c, path, tag, lines)

Spec == Init /\ [][Next]_vars
-----------------------------------------------------------------------------
(* Properties *)

Ends(c, result) == call[c].op # "none" /\ call'[c] = NoCall /\ answer'[c].result = result

\* Lines are found valid only when they are lines, in the file as it was read
\* during the call, of one text that were all shown under the tag, whatever
\* was recorded, collided or evicted while the call waited.
ValidLinesAreOfOneShownText ==
  [][\A c \in Caller : Ends(c, "valid") =>
       \E text \in Text :
         /\ TagOf[text] = call[c].tag
         /\ \A n \in call[c].lines :
              <<call[c].path, text, n>> \in shown /\ text[n] = answer'[c].text[n]]_vars

\* Search results become editable only as lines of the whole text the
\* provider held during the call, which is retained with these lines under the
\* path and tag of its receipt, and only when a trusted receipt is of that very
\* text.
EditableSourceIsCurrent ==
  [][\A c \in Caller : Ends(c, "editable") =>
       LET text == answer'[c].text
       IN /\ \E i \in DOMAIN entries' :
               /\ entries'[i].key = <<answer'[c].path, TagOf[text]>>
               /\ entries'[i].text = text
               /\ \A n \in call[c].lines : entries'[i].digests[n] = call[c].claimed[n]
          /\ call[c].trusted \in {None, text}]_vars

TextOf(key) == entries[CHOOSE i \in Retained(key) : TRUE].text

\* A tag stands for one text until it is forgotten: it is never given to
\* another text in place, and a tag found ambiguous is never answered for.
TagsAreNeverRebound ==
  [][\A key \in Path \X Tag :
       /\ key \in Keys /\ key \in Keys' => TextOf(key)' = TextOf(key)
       /\ key \in collisions => key \in collisions' /\ key \notin Keys']_vars
=============================================================================
