------------------------------- MODULE MapSync -------------------------------
(***************************************************************************)
(* map-deploy and commit-map (commands/map_deploy.py, map_commit.py): one  *)
(* file of a source directory, its copies in the target directories and    *)
(* the record beside each copy.  A command takes the targets in turn; the  *)
(* hashes, the copy and the record are steps of their own and no lock is   *)
(* held, so the user may save a file in between and a kill may end it.     *)
(*                                                                         *)
(* Files of one directory are independent: one stands for them all.  A     *)
(* text is the number of the save that made it, and is its own hash.       *)
(***************************************************************************)
EXTENDS Naturals, Sequences

CONSTANTS
  Targets,     \* the number of target directories
  MaxMapEdits, \* bound: saves and removals by the user
  MaxMapKills  \* bound: kills

VARIABLES
  copy,     \* the text at each place, 0 where there is none
  record,   \* the recorded hash beside each copy, 0 where there is none
  sync,     \* the command: what it does, for which target, and what it saw
  users,    \* history: places whose text is the user's and in no other place
  halfDone, \* history: targets whose copy was not followed by its record
  mapEdits, mapKills

mapVars == <<copy, record, sync, users, halfDone, mapEdits, mapKills>>

Source == 0
Target == 1..Targets
Places == {Source} \cup Target
SavesOfText == 0..(MaxMapEdits + 1)

ASSUME MapAssumption == Targets \in Nat \ {0} /\ MaxMapEdits \in Nat /\ MaxMapKills \in Nat

Resting == [at |-> "rest", command |-> "none", target |-> 0, force |-> FALSE,
            source |-> 0, copy |-> 0, record |-> 0]

MapTypeOK ==
  /\ copy \in [Places -> SavesOfText] /\ record \in [Target -> SavesOfText]
  /\ sync \in [at : {"rest", "compare", "copy", "record"},
               command : {"none", "deploy", "commit"}, target : {0} \cup Target, force : BOOLEAN,
               source : SavesOfText, copy : SavesOfText, record : SavesOfText]
  /\ users \subseteq Places /\ halfDone \subseteq Target
  /\ mapEdits \in 0..MaxMapEdits /\ mapKills \in 0..MaxMapKills

MapInit ==
  /\ copy = [p \in Places |-> IF p = Source THEN 1 ELSE 0]
  /\ record = [t \in Target |-> 0]
  /\ sync = Resting
  /\ users = {Source} /\ halfDone = {}
  /\ mapEdits = 0 /\ mapKills = 0

UserEdits(p, text) ==
  /\ mapEdits < MaxMapEdits /\ mapEdits' = mapEdits + 1
  /\ copy' = [copy EXCEPT ![p] = text]
  /\ users' = IF text = 0 THEN users \ {p} ELSE users \cup {p}
  /\ UNCHANGED <<record, sync, halfDone, mapKills>>

----
(* The commands *)

StartSync(command, force) ==
  /\ sync.at = "rest"
  /\ sync' = [Resting EXCEPT !.at = "compare", !.command = command, !.target = 1, !.force = force]
  /\ UNCHANGED <<copy, record, users, halfDone, mapEdits, mapKills>>

\* Mutation of NextTarget: one target too many.
NextTargetOnePast ==
  sync' = IF sync.target > Targets THEN Resting
          ELSE [sync EXCEPT !.at = "compare", !.target = @ + 1]

NextTarget ==
  sync' = IF sync.target = Targets THEN Resting
          ELSE [sync EXCEPT !.at = "compare", !.target = @ + 1]

HereCopy == copy[sync.target]
HereRecord == record[sync.target]

\* Mutation of ModifiedTarget: the source is compared with the record.
ModifiedSource == HereCopy # 0 /\ HereRecord # 0 /\ copy[Source] # HereRecord

\* What a command finds when it compares the hashes of a file.
ModifiedTarget == HereCopy # 0 /\ HereRecord # 0 /\ HereCopy # HereRecord

\* Mutation of DeploySkips: the records are not asked.
DeploySkipsEqual == HereCopy # 0 /\ copy[Source] = HereCopy

\* A target modified since the last deployment, or equal to the source.
DeploySkips == \/ ModifiedTarget /\ ~ sync.force
               \/ HereCopy # 0 /\ copy[Source] = HereCopy

\* A target that is as it was recorded, or a source modified since then.
CommitSkips == /\ HereRecord # 0
               /\ \/ HereCopy = HereRecord
                  \/ copy[Source] \notin {0, HereRecord} /\ ~ sync.force

\* Only files that are where the command looks for them are visited.
Visited == IF sync.command = "deploy" THEN copy[Source] # 0 ELSE HereCopy # 0
Skips == ~ Visited \/ (IF sync.command = "deploy" THEN DeploySkips ELSE CommitSkips)

CompareHashes ==
  /\ sync.at = "compare"
  /\ IF Skips THEN NextTarget
     ELSE sync' = [sync EXCEPT !.at = "copy", !.source = copy[Source], !.copy = HereCopy,
                               !.record = HereRecord]
  /\ UNCHANGED <<copy, record, users, halfDone, mapEdits, mapKills>>

CopyFrom == IF sync.command = "deploy" THEN Source ELSE sync.target
CopyTo == IF sync.command = "deploy" THEN sync.target ELSE Source

\* shutil.copy2 copies what is there now; a file that is gone raises.
CopyFile ==
  /\ sync.at = "copy" /\ copy[CopyFrom] # 0
  /\ copy' = [copy EXCEPT ![CopyTo] = copy[CopyFrom]]
  /\ users' = users \ {CopyFrom, CopyTo}
  /\ halfDone' = halfDone \cup {sync.target}
  /\ sync' = [sync EXCEPT !.at = "record"]
  /\ UNCHANGED <<record, mapEdits, mapKills>>

CopyRaises ==
  /\ sync.at = "copy" /\ copy[CopyFrom] = 0
  /\ sync' = Resting
  /\ UNCHANGED <<copy, record, users, halfDone, mapEdits, mapKills>>

\* The hash that is recorded was computed before the copy.
RecordHash ==
  LET hash == IF sync.command = "deploy" THEN sync.source ELSE sync.copy IN
  /\ sync.at = "record"
  /\ record' = [record EXCEPT ![sync.target] = hash]
  /\ halfDone' = IF HereCopy = hash \/ sync.target \in users THEN halfDone \ {sync.target}
                                                             ELSE halfDone
  /\ NextTarget
  /\ UNCHANGED <<copy, users, mapEdits, mapKills>>

SyncKilled ==
  /\ sync.at # "rest" /\ mapKills < MaxMapKills /\ mapKills' = mapKills + 1
  /\ sync' = Resting
  /\ UNCHANGED <<copy, record, users, halfDone, mapEdits>>

MapNext ==
  \/ \E p \in Places : UserEdits(p, 0) \/ UserEdits(p, mapEdits + 2)
  \/ \E command \in {"deploy", "commit"}, force \in BOOLEAN : StartSync(command, force)
  \/ CompareHashes \/ CopyFile \/ CopyRaises \/ RecordHash \/ SyncKilled

MapSpec == MapInit /\ [][MapNext]_mapVars

----
(* Properties *)

\* Without --force a text that only the user has put there is overwritten
\* only where it was put after the comparison, or where the target has no
\* record: there map-deploy takes any file for its own, and commit-map any source.
MapEditsSurvive ==
  [][CopyFile /\ ~ sync.force /\ CopyTo \in users =>
       \/ copy[CopyTo] # (IF CopyTo = Source THEN sync.source ELSE sync.copy)
       \/ sync.record = 0]_mapVars

\* deploy leaves out a target "modified locally" (map_deploy.py) only if the
\* user has changed it, or if an interruption or a save of the source came
\* between its copy and its record, which no later deploy repairs.
DeploySkipsOnlyEdits ==
  [][CompareHashes /\ sync.command = "deploy" /\ Visited /\ ~ sync.force /\ ModifiedTarget
     => sync.target \in users \cup halfDone]_mapVars
=============================================================================
