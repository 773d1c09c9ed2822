---------------------------- MODULE GuardedDisk ----------------------------
(***************************************************************************)
(* What guarded file changes promise about the files of a workspace,       *)
(* whatever the sessions, workers and locks behind them: a file appears    *)
(* where there was none, and a file that is overwritten or removed had     *)
(* been shown, whole and as it then was, to the session that changed it.   *)
(* The promise holds as long as no program outside takes part.             *)
(***************************************************************************)
EXTENDS FiniteSets

CONSTANTS
  Path,     \* files of the workspace
  Text,     \* file contents
  Absent,   \* no file
  Session   \* workspace sessions

VARIABLES
  disk,     \* the file at each path
  shown,    \* <<path, text>> shown whole to each session
  outside   \* changes made by programs outside

GInit ==
  /\ disk \in [Path -> Text \cup {Absent}]
  /\ shown = [s \in Session |-> {}]
  /\ outside = 0

\* A session is shown more; nobody forgets.
Show ==
  /\ UNCHANGED disk
  /\ \E s \in Session, path \in Path, text \in Text :
       shown' = [shown EXCEPT ![s] = @ \cup {<<path, text>>}]

Put(path) ==
  /\ disk[path] = Absent
  /\ \E text \in Text : disk' = [disk EXCEPT ![path] = text]
  /\ UNCHANGED shown

Overwrite(s, path) ==
  /\ <<path, disk[path]>> \in shown[s]
  /\ \E text \in Text \cup {Absent} : disk' = [disk EXCEPT ![path] = text]
  /\ UNCHANGED shown

GNext ==
  \/ Show
  \/ \E path \in Path : Put(path) \/ \E s \in Session : Overwrite(s, path)

GSpec == GInit /\ [][outside' = 0 => GNext]_<<disk, shown>>
=============================================================================
