------------------------ MODULE ObservationAuthority ------------------------
(***************************************************************************)
(* What the observation ledger promises to those who change files: it may  *)
(* forget, but it never authorizes a change of a text beyond the lines of  *)
(* exactly that text that were presented at that path, and never by a tag  *)
(* that two presented texts of the path share.                             *)
(***************************************************************************)
EXTENDS Integers, Sequences

CONSTANTS Path, Text, TagOf

VARIABLES
  shown,     \* the presented lines, as <<path, text, line number>>
  known,     \* the presented texts, as <<path, text>>
  decision   \* the answer to the last request, or "none"

avars == <<shown, known, decision>>

Refusals == {"collision", "stale", "changed", "not_found"}

AInit == shown = {} /\ known = {} /\ decision = [result |-> "none"]

Present(path, text) ==
  \E lines \in SUBSET DOMAIN text :
    /\ shown' = shown \cup {<<path, text, n>> : n \in lines}
    /\ known' = known \cup {<<path, text>>}
    /\ decision' = [result |-> "none"]

Grant(path, text) ==
  \E lines \in SUBSET DOMAIN text, complete \in BOOLEAN :
    /\ \A n \in lines : <<path, text, n>> \in shown
    /\ complete => lines = DOMAIN text
    /\ <<path, text>> \in known
    /\ \A other \in Text :
         <<path, other>> \in known /\ TagOf[other] = TagOf[text] => other = text
    /\ decision' = [result |-> "granted", path |-> path, tag |-> TagOf[text],
                    text |-> text, lines |-> lines, complete |-> complete]
    /\ UNCHANGED <<shown, known>>

Refuse ==
  /\ decision'.result \in Refusals
  /\ UNCHANGED <<shown, known>>

ANext ==
  \/ \E path \in Path, text \in Text : Present(path, text) \/ Grant(path, text)
  \/ Refuse

ASpec == AInit /\ [][ANext]_avars
=============================================================================
