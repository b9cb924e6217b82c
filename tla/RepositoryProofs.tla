-------------------------- MODULE RepositoryProofs --------------------------
(***************************************************************************)
(* What the commands promise that share files of a repository with its     *)
(* user: map-deploy and commit-map, the pre-commit hook, autogit, the      *)
(* input change detector, and decompile with the compile after it.  For    *)
(* any number of targets, saves, edits, files, scripts and kills.          *)
(***************************************************************************)
EXTENDS MapSync, PrecommitHook, Autogit, InputChanges, RoundTrip, TLAPS

(***************************************************************************)
(* map-deploy and commit-map: what they take for a local modification is   *)
(* one, or the trace of an interruption.                                   *)
(***************************************************************************)

\* A command that is under way has a target.
SyncAtTarget == sync.at # "rest" => sync.target \in Target /\ sync.command # "none"

\* Between the copy and the record of a target the target counts as half done.
RecordPending == sync.at = "record" => sync.target \in halfDone

\* A copy that its record does not vouch for is the user's or half done.
MarkedIfModified ==
  \A t \in Target : copy[t] # 0 /\ record[t] # 0 /\ copy[t] # record[t] => t \in users \cup halfDone

MapInv == MapTypeOK /\ SyncAtTarget /\ RecordPending /\ MarkedIfModified

LEMMA MapInvInit == MapInit => MapInv
<1> USE MapAssumption DEF MapInit, MapInv, MapTypeOK, SyncAtTarget, RecordPending, MarkedIfModified,
                          Resting, Places, Source, Target, SavesOfText
<1> QED OBVIOUS

\* What NextTarget leaves of a command.
LEMMA NextTargetTypes ==
  ASSUME MapInv, sync.at # "rest", NextTarget
  PROVE  /\ sync' \in [at : {"rest", "compare", "copy", "record"},
                       command : {"none", "deploy", "commit"}, target : {0} \cup Target,
                       force : BOOLEAN, source : SavesOfText, copy : SavesOfText,
                       record : SavesOfText]
         /\ sync'.at \in {"rest", "compare"}
         /\ sync'.at # "rest" => sync'.target \in Target /\ sync'.command # "none"
<1> USE MapAssumption DEF MapInv, MapTypeOK, SyncAtTarget, NextTarget, Resting, Target, SavesOfText
<1>1. CASE sync.target = Targets
  BY <1>1
<1>2. CASE sync.target # Targets
  <2>1. sync' = [sync EXCEPT !.at = "compare", !.target = @ + 1]
    BY <1>2
  <2>2. sync.target + 1 \in Target
    BY <1>2
  <2> QED BY <2>1, <2>2
<1> QED BY <1>1, <1>2

LEMMA MapInvStep == MapInv /\ [MapNext]_mapVars => MapInv'
<1> SUFFICES ASSUME MapInv, [MapNext]_mapVars PROVE MapInv'
  OBVIOUS
<1> USE MapAssumption
<1>1. ASSUME NEW p \in Places, NEW text \in {0, mapEdits + 2}, UserEdits(p, text) PROVE MapInv'
  <2>1. text \in SavesOfText
    BY <1>1 DEF UserEdits, MapInv, MapTypeOK, SavesOfText
  <2> QED
    BY <1>1, <2>1 DEF UserEdits, MapInv, MapTypeOK, SyncAtTarget, RecordPending, MarkedIfModified,
                      Places, Source, Target
<1>2. ASSUME NEW command \in {"deploy", "commit"}, NEW forced \in BOOLEAN, StartSync(command, forced)
      PROVE  MapInv'
  <2>1. sync' = [at |-> "compare", command |-> command, target |-> 1, force |-> forced,
                 source |-> 0, copy |-> 0, record |-> 0]
    BY <1>2 DEF StartSync, Resting
  <2>2. 1 \in Target /\ 0 \in SavesOfText
    BY DEF Target, SavesOfText
  <2>3. UNCHANGED <<copy, record, users, halfDone, mapEdits, mapKills>>
    BY <1>2 DEF StartSync
  <2> QED
    BY <2>1, <2>2, <2>3 DEF MapInv, MapTypeOK, SyncAtTarget, RecordPending, MarkedIfModified
<1>3. CASE CompareHashes
  <2>1. CASE Skips
    <3>1. NextTarget /\ sync.at # "rest"
      BY <1>3, <2>1 DEF CompareHashes
    <3> QED
      BY <1>3, <3>1, NextTargetTypes
      DEF CompareHashes, MapInv, MapTypeOK, SyncAtTarget, RecordPending, MarkedIfModified
  <2>2. CASE ~ Skips
    <3>1. HereCopy \in SavesOfText /\ HereRecord \in SavesOfText /\ copy[Source] \in SavesOfText
      BY <1>3 DEF CompareHashes, MapInv, MapTypeOK, SyncAtTarget, HereCopy, HereRecord, Places,
                  Source
    <3> QED
      BY <1>3, <2>2, <3>1
      DEF CompareHashes, MapInv, MapTypeOK, SyncAtTarget, RecordPending, MarkedIfModified
  <2> QED BY <2>1, <2>2
<1>4. CASE CopyFile
  <2>1. sync.target \in Target /\ CopyFrom \in Places /\ CopyTo \in Places
    BY <1>4 DEF CopyFile, MapInv, SyncAtTarget, CopyFrom, CopyTo, Places, Source
  <2>2. CopyTo = sync.target \/ (CopyTo = Source /\ CopyFrom = sync.target)
    BY DEF CopyFrom, CopyTo
  <2>3. Source \notin Target
    BY DEF Source, Target
  <2>4. MapTypeOK'
    BY <1>4, <2>1 DEF CopyFile, MapInv, MapTypeOK
  <2>5. ASSUME NEW t \in Target, copy'[t] # 0, record'[t] # 0, copy'[t] # record'[t]
        PROVE  t \in users' \cup halfDone'
    <3>1. /\ copy' = [copy EXCEPT ![CopyTo] = copy[CopyFrom]] /\ record' = record
          /\ users' = users \ {CopyFrom, CopyTo} /\ halfDone' = halfDone \cup {sync.target}
      BY <1>4 DEF CopyFile
    <3>2. CASE t = sync.target
      BY <3>1, <3>2
    <3>3. CASE t # sync.target
      <4>1. t # CopyTo /\ t \in Places /\ (t # CopyFrom)
        BY <2>2, <2>3, <3>3 DEF Places, CopyFrom
      <4>2. copy'[t] = copy[t]
        BY <2>1, <3>1, <4>1 DEF MapInv, MapTypeOK
      <4> QED BY <2>5, <3>1, <4>1, <4>2 DEF MapInv, MarkedIfModified
    <3> QED BY <3>2, <3>3
  <2> QED
    BY <1>4, <2>1, <2>4, <2>5
    DEF CopyFile, MapInv, MapTypeOK, SyncAtTarget, RecordPending, MarkedIfModified
<1>5. CASE CopyRaises
  BY <1>5 DEF CopyRaises, Resting, MapInv, MapTypeOK, SyncAtTarget, RecordPending,
              MarkedIfModified, SavesOfText
<1>6. CASE RecordHash
  <2> DEFINE hash == IF sync.command = "deploy" THEN sync.source ELSE sync.copy
  <2>1. sync.target \in Target /\ sync.target \in halfDone /\ hash \in SavesOfText
    BY <1>6 DEF RecordHash, MapInv, MapTypeOK, SyncAtTarget, RecordPending
  <2>2. NextTarget /\ sync.at # "rest" /\ UNCHANGED <<copy, users, mapEdits, mapKills>>
    BY <1>6 DEF RecordHash
  <2>3. /\ record' = [record EXCEPT ![sync.target] = hash]
        /\ halfDone' = IF HereCopy = hash \/ sync.target \in users THEN halfDone \ {sync.target}
                                                                    ELSE halfDone
    BY <1>6 DEF RecordHash
  <2> HIDE DEF hash
  <2>4. MapTypeOK'
    BY <2>1, <2>2, <2>3, NextTargetTypes DEF MapInv, MapTypeOK
  <2>5. MarkedIfModified'
    BY <2>1, <2>2, <2>3 DEF MapInv, MapTypeOK, MarkedIfModified, HereCopy
  <2>6. SyncAtTarget' /\ RecordPending'
    BY <2>2, NextTargetTypes DEF SyncAtTarget, RecordPending
  <2> QED BY <2>4, <2>5, <2>6 DEF MapInv
<1>7. CASE SyncKilled
  BY <1>7 DEF SyncKilled, Resting, MapInv, MapTypeOK, SyncAtTarget, RecordPending,
              MarkedIfModified, SavesOfText
<1>8. CASE UNCHANGED mapVars
  BY <1>8 DEF mapVars, MapInv, MapTypeOK, SyncAtTarget, RecordPending, MarkedIfModified
<1> QED
  BY <1>1, <1>2, <1>3, <1>4, <1>5, <1>6, <1>7, <1>8 DEF MapNext

\* The files, the records and the command keep their types, and every copy
\* that differs from its record is marked, whatever is copied, edited or killed.
THEOREM MapInvariant == MapSpec => []MapInv
<1> QED BY MapInvInit, MapInvStep, PTL DEF MapSpec

\* What map-deploy skips as modified locally is the user's, or an interruption
\* or a save of the source came between its copy and its record (map_deploy.py).
THEOREM DeploySkipsOnlyLocalEdits == MapSpec => DeploySkipsOnlyEdits
<1>1. ASSUME MapInv, MapInv', [MapNext]_mapVars
      PROVE  [CompareHashes /\ sync.command = "deploy" /\ Visited /\ ~ sync.force /\ ModifiedTarget
              => sync.target \in users \cup halfDone]_mapVars
  BY <1>1 DEF CompareHashes, ModifiedTarget, HereCopy, HereRecord, MapInv, SyncAtTarget,
              MarkedIfModified
<1> QED BY <1>1, MapInvariant, PTL DEF MapSpec, DeploySkipsOnlyEdits

\* No text is newer than the last save.
TextsAreOld ==
  /\ \A p \in Places : copy[p] <= mapEdits + 1
  /\ \A t \in Target : record[t] <= mapEdits + 1
  /\ sync.source <= mapEdits + 1 /\ sync.copy <= mapEdits + 1 /\ sync.record <= mapEdits + 1

\* A text of the user alone is nowhere else, and in no record.
UsersAreOwn ==
  \A p \in users : /\ copy[p] # 0
                   /\ \A q \in Places \ {p} : copy[q] # copy[p]
                   /\ \A t \in Target : record[t] # copy[p]

\* The hash that a command is to record.
Hash == IF sync.command = "deploy" THEN sync.source ELSE sync.copy

\* What a command has seen of the user's texts it has seen in their places, and
\* it is to record none of them.
SeenInPlace ==
  \A p \in users :
    /\ sync.at = "copy" => /\ sync.source = copy[p] => p = Source
                           /\ sync.copy = copy[p] => p = sync.target
                           /\ sync.record # copy[p]
    /\ sync.at = "record" => Hash # copy[p]

\* Without --force a command goes on only where the place that it writes to was
\* empty or as recorded.
WritesOverRecorded ==
  sync.at = "copy" /\ ~ sync.force /\ sync.record # 0 =>
    (IF sync.command = "deploy" THEN sync.copy ELSE sync.source) \in {0, sync.record}

OwnTextInv == TextsAreOld /\ UsersAreOwn /\ SeenInPlace /\ WritesOverRecorded

LEMMA OwnTextInit == MapInit => OwnTextInv
<1> SUFFICES ASSUME MapInit PROVE OwnTextInv
  OBVIOUS
<1>1. /\ \A p \in Places : copy[p] = IF p = Source THEN 1 ELSE 0
      /\ \A t \in Target : record[t] = 0
      /\ sync.at = "rest" /\ sync.source = 0 /\ sync.copy = 0 /\ sync.record = 0
      /\ users = {Source} /\ mapEdits = 0
  BY DEF MapInit, Resting
<1>2. Source \in Places
  BY DEF Places
<1> QED
  BY <1>1, <1>2 DEF OwnTextInv, TextsAreOld, UsersAreOwn, SeenInPlace, WritesOverRecorded

LEMMA SavesAreNumbers ==
  ASSUME MapInv
  PROVE  /\ mapEdits \in Nat /\ \A n \in SavesOfText : n \in Nat
         /\ \A p \in Places : copy[p] \in Nat
         /\ \A t \in Target : record[t] \in Nat
         /\ sync.source \in Nat /\ sync.copy \in Nat /\ sync.record \in Nat
<1>1. mapEdits \in Nat /\ \A n \in SavesOfText : n \in Nat
  BY MapAssumption DEF MapInv, MapTypeOK, SavesOfText
<1>2. /\ \A p \in Places : copy[p] \in SavesOfText
      /\ \A t \in Target : record[t] \in SavesOfText
      /\ sync.source \in SavesOfText /\ sync.copy \in SavesOfText /\ sync.record \in SavesOfText
  BY DEF MapInv, MapTypeOK
<1> QED BY <1>1, <1>2

\* A save of the user is a text that is nowhere yet.
LEMMA UserKeepsOwnTexts ==
  ASSUME MapInv, OwnTextInv, NEW p \in Places, NEW text \in {0, mapEdits + 2}, UserEdits(p, text)
  PROVE  OwnTextInv'
<1> USE DEF OwnTextInv
<1>1. /\ mapEdits' = mapEdits + 1 /\ copy' = [copy EXCEPT ![p] = text]
      /\ users' = IF text = 0 THEN users \ {p} ELSE users \cup {p}
      /\ UNCHANGED <<record, sync>>
  BY DEF UserEdits
<1>2. \A q \in Places : copy'[q] = IF q = p THEN text ELSE copy[q]
  BY <1>1 DEF MapInv, MapTypeOK
<1>3. /\ \A q \in Places : copy[q] # mapEdits + 2
      /\ \A t \in Target : record[t] # mapEdits + 2
      /\ sync.source # mapEdits + 2 /\ sync.copy # mapEdits + 2 /\ sync.record # mapEdits + 2
      /\ mapEdits + 2 # 0
  BY SavesAreNumbers DEF TextsAreOld
<1>4. TextsAreOld'
  <2>1. \A n \in Nat : n <= mapEdits + 1 => n <= mapEdits' + 1
    BY <1>1, SavesAreNumbers
  <2>2. text <= mapEdits' + 1
    BY <1>1, SavesAreNumbers
  <2> QED BY <1>1, <1>2, <2>1, <2>2, SavesAreNumbers DEF TextsAreOld
<1>5. users \subseteq Places /\ users' \subseteq Places
  BY <1>1 DEF MapInv, MapTypeOK
<1>6. ASSUME NEW q \in users'
      PROVE  /\ q = p => text = mapEdits + 2
             /\ q # p => q \in users
  BY <1>1
<1>7. UsersAreOwn'
  <2> SUFFICES ASSUME NEW q \in users'
               PROVE  /\ copy'[q] # 0
                      /\ \A r \in Places \ {q} : copy'[r] # copy'[q]
                      /\ \A t \in Target : record[t] # copy'[q]
    BY <1>1 DEF UsersAreOwn
  <2>1. CASE q = p
    BY <1>2, <1>3, <1>6, <2>1
  <2>2. CASE q # p
    BY <1>2, <1>3, <1>5, <1>6, <2>2 DEF UsersAreOwn
  <2> QED BY <2>1, <2>2
<1>8. SeenInPlace'
  BY <1>1, <1>2, <1>3, <1>5, <1>6 DEF SeenInPlace, Hash
<1>9. WritesOverRecorded'
  BY <1>1 DEF WritesOverRecorded
<1> QED BY <1>4, <1>7, <1>8, <1>9

\* What NextTarget leaves of a command has seen nothing new, and is to write nothing.
LEMMA NextTargetForgets ==
  ASSUME MapInv, NextTarget
  PROVE  /\ sync'.at \in {"rest", "compare"}
         /\ sync'.source \in {0, sync.source} /\ sync'.copy \in {0, sync.copy}
         /\ sync'.record \in {0, sync.record}
BY DEF MapInv, MapTypeOK, NextTarget, Resting

\* A command that compares has seen texts in their places.
LEMMA CompareKeepsOwnTexts ==
  ASSUME MapInv, OwnTextInv, CompareHashes
  PROVE  OwnTextInv'
<1> USE DEF OwnTextInv
<1>1. UNCHANGED <<copy, record, users, mapEdits>>
  BY DEF CompareHashes
<1>2. CASE Skips
  <2>1. /\ sync'.at \in {"rest", "compare"}
        /\ sync'.source \in {0, sync.source} /\ sync'.copy \in {0, sync.copy}
        /\ sync'.record \in {0, sync.record}
    BY <1>2, NextTargetForgets DEF CompareHashes
  <2>2. 0 <= mapEdits + 1
    BY SavesAreNumbers
  <2> QED
    BY <1>1, <2>1, <2>2 DEF TextsAreOld, UsersAreOwn, SeenInPlace, WritesOverRecorded
<1>3. CASE ~ Skips
  <2>1. /\ sync' = [sync EXCEPT !.at = "copy", !.source = copy[Source], !.copy = HereCopy,
                                !.record = HereRecord]
        /\ sync.target \in Target
    BY <1>3 DEF CompareHashes, MapInv, SyncAtTarget
  <2>2. /\ sync'.at = "copy" /\ sync'.target = sync.target /\ sync'.command = sync.command
        /\ sync'.force = sync.force /\ sync'.source = copy[Source]
        /\ sync'.copy = copy[sync.target] /\ sync'.record = record[sync.target]
    BY <2>1 DEF MapInv, MapTypeOK, HereCopy, HereRecord
  <2>3. Source \in Places /\ sync.target \in Places /\ users \subseteq Places
    BY <2>1 DEF Places, MapInv, MapTypeOK
  <2>4. TextsAreOld' /\ UsersAreOwn'
    BY <1>1, <2>1, <2>2, <2>3 DEF TextsAreOld, UsersAreOwn
  <2>5. SeenInPlace'
    BY <1>1, <2>1, <2>2, <2>3 DEF UsersAreOwn, SeenInPlace
  <2>6. WritesOverRecorded'
    BY <1>3, <2>2
    DEF WritesOverRecorded, Skips, DeploySkips, CommitSkips, ModifiedTarget, HereCopy, HereRecord,
        MapInv, MapTypeOK
  <2> QED BY <2>4, <2>5, <2>6
<1> QED BY <1>2, <1>3

\* Where a text is copied it is no user's any more.
LEMMA CopyKeepsOwnTexts ==
  ASSUME MapInv, OwnTextInv, CopyFile
  PROVE  OwnTextInv'
<1> USE DEF OwnTextInv
<1>1. /\ sync.at = "copy" /\ sync.target \in Target /\ sync.command \in {"deploy", "commit"}
      /\ CopyFrom \in Places /\ CopyTo \in Places /\ users \subseteq Places
      /\ {CopyFrom, CopyTo} = {Source, sync.target}
  BY DEF CopyFile, MapInv, MapTypeOK, SyncAtTarget, CopyFrom, CopyTo, Places
<1>2. /\ copy' = [copy EXCEPT ![CopyTo] = copy[CopyFrom]] /\ users' = users \ {CopyFrom, CopyTo}
      /\ UNCHANGED <<record, mapEdits>>
  BY DEF CopyFile
<1>3. /\ sync'.at = "record" /\ sync'.source = sync.source /\ sync'.copy = sync.copy
      /\ sync'.record = sync.record /\ sync'.command = sync.command
  BY DEF CopyFile, MapInv, MapTypeOK
<1>4. \A q \in Places : copy'[q] = IF q = CopyTo THEN copy[CopyFrom] ELSE copy[q]
  BY <1>2 DEF MapInv, MapTypeOK
<1>5. TextsAreOld'
  BY <1>1, <1>2, <1>3, <1>4 DEF TextsAreOld
<1>6. ASSUME NEW q \in users'
      PROVE  q \in users /\ q \in Places /\ q \notin {Source, sync.target, CopyFrom, CopyTo}
             /\ copy'[q] = copy[q]
  BY <1>1, <1>2, <1>4
<1>7. UsersAreOwn'
  <2> SUFFICES ASSUME NEW q \in users'
               PROVE  /\ copy'[q] # 0
                      /\ \A r \in Places \ {q} : copy'[r] # copy'[q]
                      /\ \A t \in Target : record[t] # copy'[q]
    BY <1>2 DEF UsersAreOwn
  <2> QED BY <1>1, <1>4, <1>6 DEF UsersAreOwn
<1>8. SeenInPlace'
  BY <1>1, <1>3, <1>6 DEF SeenInPlace, Hash
<1> QED BY <1>3, <1>5, <1>7, <1>8 DEF WritesOverRecorded

\* The hash that is recorded is that of no text of the user alone.
LEMMA RecordKeepsOwnTexts ==
  ASSUME MapInv, OwnTextInv, RecordHash
  PROVE  OwnTextInv'
<1> USE DEF OwnTextInv
<1>1. /\ sync.at = "record" /\ sync.target \in Target
      /\ record' = [record EXCEPT ![sync.target] = Hash]
      /\ UNCHANGED <<copy, users, mapEdits>>
  BY DEF RecordHash, MapInv, SyncAtTarget, Hash
<1>2. /\ sync'.at \in {"rest", "compare"}
      /\ sync'.source \in {0, sync.source} /\ sync'.copy \in {0, sync.copy}
      /\ sync'.record \in {0, sync.record}
  BY NextTargetForgets DEF RecordHash
<1>3. \A t \in Target : record'[t] \in {record[t], Hash}
  BY <1>1 DEF MapInv, MapTypeOK
<1>4. Hash \in {sync.source, sync.copy} /\ 0 <= mapEdits + 1
  BY SavesAreNumbers DEF Hash
<1>5. TextsAreOld'
  BY <1>1, <1>2, <1>3, <1>4 DEF TextsAreOld
<1>6. UsersAreOwn'
  BY <1>1, <1>3 DEF UsersAreOwn, SeenInPlace
<1> QED BY <1>2, <1>5, <1>6 DEF SeenInPlace, WritesOverRecorded

LEMMA OwnTextStep ==
  ASSUME MapInv, OwnTextInv, [MapNext]_mapVars
  PROVE  OwnTextInv'
<1>1. ASSUME NEW command \in {"deploy", "commit"}, NEW forced \in BOOLEAN, StartSync(command, forced)
      PROVE  OwnTextInv'
  <2>1. /\ sync'.at = "compare" /\ sync'.source = 0 /\ sync'.copy = 0 /\ sync'.record = 0
        /\ UNCHANGED <<copy, record, users, mapEdits>>
    BY <1>1 DEF StartSync, Resting
  <2>2. 0 <= mapEdits + 1
    BY SavesAreNumbers
  <2> QED
    BY <2>1, <2>2 DEF OwnTextInv, TextsAreOld, UsersAreOwn, SeenInPlace, WritesOverRecorded
<1>2. CASE CopyRaises \/ SyncKilled
  <2>1. /\ sync'.at = "rest" /\ sync'.source = 0 /\ sync'.copy = 0 /\ sync'.record = 0
        /\ UNCHANGED <<copy, record, users, mapEdits>>
    BY <1>2 DEF CopyRaises, SyncKilled, Resting
  <2>2. 0 <= mapEdits + 1
    BY SavesAreNumbers
  <2> QED
    BY <2>1, <2>2 DEF OwnTextInv, TextsAreOld, UsersAreOwn, SeenInPlace, WritesOverRecorded
<1>3. CASE UNCHANGED mapVars
  BY <1>3 DEF mapVars, OwnTextInv, TextsAreOld, UsersAreOwn, SeenInPlace, WritesOverRecorded, Hash
<1> QED
  BY <1>1, <1>2, <1>3, UserKeepsOwnTexts, CompareKeepsOwnTexts, CopyKeepsOwnTexts,
     RecordKeepsOwnTexts
  DEF MapNext

\* Without --force a text that only the user has put there is overwritten only
\* where it was put after the comparison, or where the target has no record
\* (map_deploy.py, map_commit.py), for any number of targets, saves and kills.
THEOREM UsersTextsSurvive == MapSpec => MapEditsSurvive
<1>1. ASSUME MapInv, OwnTextInv, CopyFile, ~ sync.force, CopyTo \in users
      PROVE  \/ copy[CopyTo] # (IF CopyTo = Source THEN sync.source ELSE sync.copy)
             \/ sync.record = 0
  <2>1. sync.at = "copy" /\ Source \notin Target /\ sync.target \in Target
    BY <1>1 DEF CopyFile, MapInv, SyncAtTarget, Source, Target
  <2> QED
    BY <1>1, <2>1 DEF OwnTextInv, UsersAreOwn, SeenInPlace, WritesOverRecorded, CopyTo
<1>2. ASSUME MapInv, OwnTextInv
      PROVE  [CopyFile /\ ~ sync.force /\ CopyTo \in users =>
                \/ copy[CopyTo] # (IF CopyTo = Source THEN sync.source ELSE sync.copy)
                \/ sync.record = 0]_mapVars
  BY <1>1, <1>2
<1>3. MapInv /\ OwnTextInv /\ [MapNext]_mapVars => OwnTextInv'
  BY OwnTextStep
<1> QED BY <1>2, <1>3, OwnTextInit, MapInvariant, PTL DEF MapSpec, MapEditsSurvive

(***************************************************************************)
(* The pre-commit hook: install and uninstall in every repository.         *)
(***************************************************************************)

\* Without --force a hook is written only where none was seen, and removed only
\* where ours was seen.
SeenBeforeWriting ==
  ~ force => /\ step = "write" => checked = "none"
             /\ step = "unlink" => checked = "ours"

\* A hook of ours that is not executable was left by a command that stopped
\* before it set the mode bits, or is about to get them.
OursRuns == hook \in {"ours", "older"} => runs \/ halfway \/ step = "chmod"

\* What is about to be reported was ours when it was checked or written.
OursReported == step \in {"chmod", "log"} => hook \in {"ours", "foreign"}

HookInv == HookTypeOK /\ SeenBeforeWriting /\ OursRuns /\ OursReported

LEMMA HookInvInit == HookInit => HookInv
<1> QED BY DEF HookInit, HookInv, HookTypeOK, SeenBeforeWriting, OursRuns, OursReported, Hooks

LEMMA HookInvStep == HookInv /\ [HookNext]_hookVars => HookInv'
<1> SUFFICES ASSUME HookInv, [HookNext]_hookVars PROVE HookInv'
  OBVIOUS
<1> USE DEF HookInv, HookTypeOK, SeenBeforeWriting, OursRuns, OursReported, Hooks
<1>1. CASE UserWritesHook
  BY <1>1 DEF UserWritesHook
<1>2. CASE NewRelease
  BY <1>2 DEF NewRelease
<1>3. ASSUME NEW command \in {"install", "uninstall"}, NEW forced \in BOOLEAN,
             StartHookCommand(command, forced)
      PROVE  HookInv'
  <2>1. step = "none" /\ step' = command /\ checked' = "none" /\ force' = forced /\ told' = "nothing"
    BY <1>3 DEF StartHookCommand
  <2>2. UNCHANGED <<shape, hook, runs, halfway>>
    BY <1>3 DEF StartHookCommand
  <2> QED BY <2>1, <2>2
<1>4. CASE CheckInstall
  BY <1>4 DEF CheckInstall, Tell
<1>5. CASE WriteHook \/ MakeExecutable
  BY <1>5 DEF WriteHook, MakeExecutable
<1>6. CASE LogPath \/ Unconfigured
  BY <1>6 DEF LogPath, Unconfigured, Tell
<1>7. CASE CheckUninstall
  BY <1>7 DEF CheckUninstall, Tell
<1>8. CASE RemoveHook
  BY <1>8 DEF RemoveHook, Tell
<1>9. CASE HookCommandDies
  <2>1. step' = "none" /\ told' = "raised" /\ UNCHANGED <<shape, force, checked>>
    BY <1>9 DEF HookCommandDies, Tell
  <2>2. /\ halfway' \in BOOLEAN
        /\ halfway \/ step = "chmod" => halfway'
    BY <1>9 DEF HookCommandDies
  <2>3. CASE step = "write" /\ hook' = "cut short" /\ runs' = (hook # "none" /\ runs)
    <3>1. runs' \in BOOLEAN
      BY <2>3
    <3> QED BY <2>1, <2>2, <2>3, <3>1
  <2>4. CASE UNCHANGED <<hook, runs>>
    BY <2>1, <2>2, <2>4
  <2> QED BY <1>9, <2>3, <2>4 DEF HookCommandDies
<1>10. CASE UNCHANGED hookVars
  BY <1>10 DEF hookVars
<1> QED
  BY <1>1, <1>2, <1>3, <1>4, <1>5, <1>6, <1>7, <1>8, <1>9, <1>10 DEF HookNext

\* The hook commands keep their types, and look before they write or remove.
THEOREM HookInvariant == HookSpec => []HookInv
<1> QED BY HookInvInit, HookInvStep, PTL DEF HookSpec

\* Without --force a hook of another origin is lost only if it was put there
\* after install or uninstall had looked (commands/precommit.py).
THEOREM HooksOfOthersSurvive == HookSpec => HookOfOthersSurvives
<1>1. ASSUME HookInv, [HookNext]_hookVars
      PROVE  [hook = "foreign" /\ hook' # "foreign" => force \/ checked # "foreign"]_hookVars
  <2> USE DEF HookInv, HookTypeOK, SeenBeforeWriting
  <2>1. SUFFICES ASSUME HookNext, hook = "foreign", hook' # "foreign"
                 PROVE  force \/ checked # "foreign"
    BY <1>1 DEF hookVars
  <2>2. step \in {"write", "unlink"}
    BY <2>1 DEF HookNext, UserWritesHook, NewRelease, StartHookCommand, CheckInstall, Unconfigured,
                WriteHook, MakeExecutable, LogPath, CheckUninstall, RemoveHook, HookCommandDies, Tell
  <2> QED BY <1>1, <2>2
<1> QED BY <1>1, HookInvariant, PTL DEF HookSpec, HookOfOthersSurvives

\* An install that reports success has left our hook of this release where git
\* reads it and executable, except for the interruption and the core.hooksPath
\* that is not read, which ReportedInstallRuns names (install of
\* commands/precommit.py).
THEOREM ReportedInstallsRun == HookSpec => ReportedInstallRuns
<1>1. ASSUME HookInv, [HookNext]_hookVars
      PROVE  [LogPath /\ told' = "ok" /\ hook # "foreign" =>
                /\ hook = "ours" /\ (runs \/ halfway)
                /\ GitReadsHookDir \/ shape = "hooksPath unread"]_hookVars
  BY <1>1 DEF HookInv, OursRuns, OursReported, LogPath, Tell, HookDirInRepository, GitReadsHookDir
<1> QED BY <1>1, HookInvariant, PTL DEF HookSpec, ReportedInstallRuns

(***************************************************************************)
(* Autogit                                                                 *)
(***************************************************************************)

\* What one place of git has of an area is no newer than what the place before
\* it has.
NoPlaceIsAhead ==
  \A a \in Areas : upstream[a] <= head[a] /\ head[a] <= index[a] /\ index[a] <= work[a]

\* What a directory that was found held at the start is staged when the status is
\* looked at, and committed before it is pushed.
StartIsStaged ==
  /\ \A d \in Configured : started[d] <= work[d]
  /\ git \in {"status", "commit"} => \A d \in Configured \ skipped : started[d] <= index[d]
  /\ git = "push" => \A d \in Configured \ skipped : started[d] <= head[d]

\* A run has not returned, and goes no further than its mode.
RunKeepsItsMode ==
  /\ git # "none" => autogitMode # "off" /\ gitStatus = "none"
  /\ git \in {"commit", "push"} => autogitMode # "stage"

\* A commit is pushed, about to be pushed, or known to be left behind.
CommitsAreKnown == upstream = head \/ unpushed \/ git = "push"

AutogitInv ==
  /\ AutogitTypeOK /\ NoPlaceIsAhead /\ StartIsStaged /\ RunKeepsItsMode /\ CommitsAreKnown
  /\ AutogitSuccessIsReal

LEMMA TextsAreNumbers == \A f \in Contents : \A a \in Areas : f[a] \in Nat
<1>1. \A n \in 0..MaxSaves : n \in Nat
  BY AutogitAssumption
<1> QED BY <1>1 DEF Contents

LEMMA StartsAreNumbers == ASSUME AutogitTypeOK PROVE \A d \in Configured : started[d] \in Nat
<1>1. \A n \in 0..MaxSaves : n \in Nat
  BY AutogitAssumption
<1> QED BY <1>1 DEF AutogitTypeOK

LEMMA PlacesHoldTexts ==
  ASSUME AutogitTypeOK
  PROVE  /\ work \in Contents /\ index \in Contents /\ head \in Contents /\ upstream \in Contents
         /\ \A a \in Areas : work[a] \in Nat /\ index[a] \in Nat /\ head[a] \in Nat
                            /\ upstream[a] \in Nat
<1>1. work \in Contents /\ index \in Contents /\ head \in Contents /\ upstream \in Contents
  BY DEF AutogitTypeOK
<1> QED BY <1>1, TextsAreNumbers

LEMMA AutogitInvInit == AutogitInit => AutogitInv
<1> SUFFICES ASSUME AutogitInit PROVE AutogitInv
  OBVIOUS
<1> DEFINE nothing == [a \in Areas |-> 0]
<1>1. work = nothing /\ index = nothing /\ head = nothing /\ upstream = nothing
      /\ started = [d \in Configured |-> 0] /\ absent = {} /\ skipped = {}
      /\ git = "none" /\ autogitMode = "off" /\ gitStatus = "none" /\ unpushed = FALSE
  BY DEF AutogitInit
<1>2. nothing \in Contents /\ started \in [Configured -> 0..MaxSaves]
  BY <1>1, AutogitAssumption DEF Contents
<1>3. AutogitTypeOK
  BY <1>1, <1>2 DEF AutogitTypeOK
<1>4. (\A a \in Areas : nothing[a] = 0) /\ \A d \in Configured : started[d] = 0
  BY <1>1
<1>5. Configured \subseteq Areas
  BY DEF Areas
<1> HIDE DEF nothing
<1> QED
  BY <1>1, <1>3, <1>4, <1>5
  DEF AutogitInv, NoPlaceIsAhead, StartIsStaged, RunKeepsItsMode, CommitsAreKnown,
      AutogitSuccessIsReal

\* A step of the user's that takes nothing back.
LEMMA ForwardKeepsTheRun ==
  ASSUME AutogitInv, work' \in Contents, index' \in Contents, head' \in Contents,
         upstream' \in Contents, absent' \subseteq Configured, unpushed' \in BOOLEAN,
         UNCHANGED <<git, gitStatus, gitRun>>, NoPlaceIsAhead', CommitsAreKnown',
         \A a \in Areas : /\ work[a] <= work'[a] /\ index[a] <= index'[a]
                          /\ head[a] <= head'[a] /\ upstream[a] <= upstream'[a],
         unpushed => unpushed' \/ upstream' = head'
  PROVE  AutogitInv'
<1>1. /\ AutogitTypeOK /\ StartIsStaged /\ RunKeepsItsMode /\ AutogitSuccessIsReal
      /\ UNCHANGED <<autogitMode, started, skipped>>
  BY DEF AutogitInv, gitRun
<1>2. AutogitTypeOK'
  BY <1>1 DEF AutogitTypeOK
<1>3. ASSUME NEW d \in Configured
      PROVE  /\ started[d] \in Nat /\ work[d] \in Nat /\ work'[d] \in Nat /\ index[d] \in Nat
             /\ index'[d] \in Nat /\ head[d] \in Nat /\ head'[d] \in Nat /\ upstream[d] \in Nat
             /\ upstream'[d] \in Nat
             /\ work[d] <= work'[d] /\ index[d] <= index'[d] /\ head[d] <= head'[d]
             /\ upstream[d] <= upstream'[d]
  BY <1>1, StartsAreNumbers, PlacesHoldTexts, TextsAreNumbers DEF Areas
<1>4. \A d \in Configured : /\ started[d] <= work[d] => started[d] <= work'[d]
                            /\ started[d] <= index[d] => started[d] <= index'[d]
                            /\ started[d] <= head[d] => started[d] <= head'[d]
                            /\ started[d] <= upstream[d] => started[d] <= upstream'[d]
  BY <1>3
<1>5. StartIsStaged' /\ RunKeepsItsMode'
  BY <1>1, <1>4 DEF StartIsStaged, RunKeepsItsMode
<1>6. ASSUME gitStatus = "zero", autogitMode \in {"commit", "push"}, NEW d \in Configured \ skipped
      PROVE  /\ head'[d] >= started[d]
             /\ autogitMode = "push" => upstream'[d] >= started[d] \/ unpushed'
  <2>1. head[d] >= started[d] /\ (autogitMode = "push" => upstream[d] >= started[d] \/ unpushed)
    BY <1>1, <1>6 DEF AutogitSuccessIsReal
  <2>2. started[d] <= head'[d]
    BY <1>3, <1>4, <2>1
  <2>3. head'[d] >= started[d]
    BY <1>3, <2>2
  <2>4. CASE upstream[d] >= started[d]
    BY <1>3, <2>3, <2>4
  <2>5. CASE unpushed
    BY <2>3, <2>5
  <2> QED BY <2>1, <2>3, <2>4, <2>5
<1>7. AutogitSuccessIsReal'
  BY <1>1, <1>6 DEF AutogitSuccessIsReal
<1> QED BY <1>2, <1>5, <1>7 DEF AutogitInv

\* The user goes forward, by hand and with git.
LEMMA UserKeepsTheRun ==
  ASSUME AutogitInv,
         UserCommits \/ UserPushes \/ \E a \in Areas : UserChanges(a) \/ UserStages(a)
  PROVE  AutogitInv'
<1>1. /\ AutogitTypeOK /\ NoPlaceIsAhead /\ CommitsAreKnown
      /\ work \in Contents /\ index \in Contents /\ head \in Contents /\ upstream \in Contents
      /\ absent \subseteq Configured /\ unpushed \in BOOLEAN
  BY PlacesHoldTexts DEF AutogitInv, AutogitTypeOK
<1>2. \A a \in Areas : /\ upstream[a] \in Nat /\ head[a] \in Nat /\ index[a] \in Nat /\ work[a] \in Nat
                      /\ upstream[a] <= head[a] /\ head[a] <= index[a] /\ index[a] <= work[a]
  BY <1>1, PlacesHoldTexts DEF NoPlaceIsAhead
<1>3. ASSUME NEW a \in Areas, UserChanges(a) PROVE AutogitInv'
  <2>1. /\ work' = [work EXCEPT ![a] = work[a] + 1]
        /\ absent' \in {absent \ {a}, (absent \cup {a}) \cap Configured}
        /\ UNCHANGED <<index, head, upstream, git, gitStatus, gitRun, unpushed>>
    BY <1>3 DEF UserChanges
  <2>2. work[a] + 1 \in 0..MaxSaves
    <3>1. work["input"] \in Nat /\ work["output"] \in Nat /\ work["other"] \in Nat
          /\ a \in {"input", "output", "other"}
      BY <1>2 DEF Areas, Configured
    <3>2. work["input"] + work["output"] + work["other"] < MaxSaves
      BY <1>3 DEF UserChanges
    <3>3. work[a] < MaxSaves /\ work[a] \in Nat
      BY <3>1, <3>2, AutogitAssumption
    <3> QED BY <3>3, AutogitAssumption
  <2>3. work' \in Contents /\ \A b \in Areas : work'[b] = IF b = a THEN work[b] + 1 ELSE work[b]
    BY <1>1, <2>1, <2>2 DEF Contents
  <2>4. \A b \in Areas : work[b] <= work'[b] /\ index[b] <= work'[b]
    BY <1>2, <2>3
  <2>5. NoPlaceIsAhead' /\ CommitsAreKnown'
    BY <1>1, <1>2, <2>1, <2>4 DEF NoPlaceIsAhead, CommitsAreKnown
  <2>6. absent' \subseteq Configured
    BY <1>1, <2>1
  <2>7. /\ index' \in Contents /\ head' \in Contents /\ upstream' \in Contents /\ unpushed' \in BOOLEAN
        /\ \A b \in Areas : index[b] <= index'[b] /\ head[b] <= head'[b] /\ upstream[b] <= upstream'[b]
        /\ unpushed => unpushed'
        /\ UNCHANGED <<git, gitStatus, gitRun>>
    BY <1>1, <1>2, <2>1
  <2> QED BY <2>3, <2>4, <2>5, <2>6, <2>7, ForwardKeepsTheRun
<1>4. ASSUME NEW a \in Areas, UserStages(a) PROVE AutogitInv'
  <2>1. /\ index' = [index EXCEPT ![a] = work[a]]
        /\ UNCHANGED <<work, head, upstream, absent, git, gitStatus, gitRun, unpushed>>
    BY <1>4 DEF UserStages
  <2>2. index' \in Contents /\ \A b \in Areas : index'[b] = IF b = a THEN work[b] ELSE index[b]
    BY <1>1, <2>1 DEF Contents
  <2>3. \A b \in Areas : index[b] <= index'[b] /\ head[b] <= index'[b] /\ index'[b] <= work[b]
    BY <1>2, <2>2
  <2>4. NoPlaceIsAhead' /\ CommitsAreKnown'
    BY <1>1, <1>2, <2>1, <2>3 DEF NoPlaceIsAhead, CommitsAreKnown
  <2>5. /\ work' \in Contents /\ head' \in Contents /\ upstream' \in Contents /\ unpushed' \in BOOLEAN
        /\ absent' \subseteq Configured
        /\ \A b \in Areas : work[b] <= work'[b] /\ head[b] <= head'[b] /\ upstream[b] <= upstream'[b]
        /\ unpushed => unpushed'
        /\ UNCHANGED <<git, gitStatus, gitRun>>
    BY <1>1, <1>2, <2>1
  <2> QED BY <2>2, <2>3, <2>4, <2>5, ForwardKeepsTheRun
<1>5. CASE UserCommits
  <2>1. /\ head' = index /\ unpushed' = TRUE
        /\ UNCHANGED <<work, index, upstream, absent, git, gitStatus, gitRun>>
    BY <1>5 DEF UserCommits
  <2>2. \A b \in Areas : head[b] <= head'[b] /\ upstream[b] <= head'[b]
    BY <1>2, <2>1
  <2>3. NoPlaceIsAhead' /\ CommitsAreKnown'
    BY <1>1, <1>2, <2>1, <2>2 DEF NoPlaceIsAhead, CommitsAreKnown
  <2>4. /\ work' \in Contents /\ index' \in Contents /\ head' \in Contents /\ upstream' \in Contents
        /\ unpushed' \in BOOLEAN /\ absent' \subseteq Configured
        /\ \A b \in Areas : work[b] <= work'[b] /\ index[b] <= index'[b] /\ upstream[b] <= upstream'[b]
        /\ UNCHANGED <<git, gitStatus, gitRun>>
    BY <1>1, <1>2, <2>1
  <2> QED BY <2>1, <2>2, <2>3, <2>4, ForwardKeepsTheRun
<1>6. CASE UserPushes
  <2>1. /\ upstream' = head /\ unpushed' = FALSE
        /\ UNCHANGED <<work, index, head, absent, git, gitStatus, gitRun>>
    BY <1>6 DEF UserPushes
  <2>2. \A b \in Areas : head[b] <= head'[b] /\ upstream[b] <= upstream'[b]
    BY <1>2, <2>1
  <2>3. NoPlaceIsAhead' /\ CommitsAreKnown'
    BY <1>1, <1>2, <2>1 DEF NoPlaceIsAhead, CommitsAreKnown
  <2>4. /\ work' \in Contents /\ index' \in Contents /\ head' \in Contents /\ upstream' \in Contents
        /\ absent' \subseteq Configured
        /\ \A b \in Areas : work[b] <= work'[b] /\ index[b] <= index'[b]
        /\ UNCHANGED <<git, gitStatus, gitRun>>
    BY <1>1, <1>2, <2>1
  <2>5. unpushed' \in BOOLEAN /\ upstream' = head'
    BY <2>1
  <2>6. unpushed => unpushed' \/ upstream' = head'
    BY <2>5
  <2> QED BY <2>2, <2>3, <2>4, <2>5, <2>6, ForwardKeepsTheRun
<1> QED BY <1>3, <1>4, <1>5, <1>6

\* A run takes an area from one place of git to the next.
LEMMA RunGoesForward ==
  ASSUME AutogitInv,
         \/ \E m \in {"off", "stage", "commit", "push"} : StartAutogit(m)
         \/ GitRoot \/ NoPaths \/ GitAdd \/ GitStatus \/ GitCommit \/ GitPush \/ GitFails
  PROVE  AutogitInv'
<1> USE DEF AutogitInv
<1>1. \A a \in Areas : /\ upstream[a] \in Nat /\ head[a] \in Nat /\ index[a] \in Nat /\ work[a] \in Nat
                      /\ upstream[a] <= head[a] /\ head[a] <= index[a] /\ index[a] <= work[a]
  BY PlacesHoldTexts DEF NoPlaceIsAhead
<1>2. Configured \subseteq Areas
  BY DEF Areas
<1>3. \A d \in Configured : started[d] \in Nat
  BY StartsAreNumbers
<1>4. CASE \E m \in {"off", "stage", "commit", "push"} : StartAutogit(m)
  <2>1. PICK m \in {"off", "stage", "commit", "push"} : StartAutogit(m)
    BY <1>4
  <2>2. /\ git = "none" /\ autogitMode' = m /\ started' = [d \in Configured |-> work[d]]
        /\ skipped' = {} /\ UNCHANGED <<work, index, head, upstream, absent, unpushed>>
        /\ \/ m = "off" /\ gitStatus' = "zero" /\ git' = "none"
           \/ m # "off" /\ gitStatus' = "none" /\ git' = "root"
    BY <2>1 DEF StartAutogit, gitPlaces
  <2>3. \A d \in Configured : work[d] \in 0..MaxSaves
    BY <1>2 DEF AutogitTypeOK, Contents
  <2>4. started' \in [Configured -> 0..MaxSaves] /\ \A d \in Configured : started'[d] = work[d]
    BY <2>2, <2>3
  <2>5. AutogitTypeOK'
    BY <2>2, <2>4 DEF AutogitTypeOK
  <2>6. StartIsStaged' /\ RunKeepsItsMode'
    BY <1>1, <1>2, <2>2, <2>4 DEF StartIsStaged, RunKeepsItsMode
  <2> QED BY <2>2, <2>5, <2>6 DEF NoPlaceIsAhead, CommitsAreKnown, AutogitSuccessIsReal
<1>5. CASE GitRoot
  <2>1. /\ git = "root" /\ \/ git' = "none" /\ gitStatus' = "one"
                           \/ git' = "add" /\ gitStatus' = gitStatus
        /\ UNCHANGED <<work, index, head, upstream, absent, autogitMode, started, skipped, unpushed>>
    BY <1>5 DEF GitRoot, Give, Go, gitPlaces, gitRun
  <2>2. AutogitTypeOK'
    BY <2>1 DEF AutogitTypeOK
  <2> QED
    BY <2>1, <2>2
    DEF NoPlaceIsAhead, StartIsStaged, RunKeepsItsMode, CommitsAreKnown, AutogitSuccessIsReal
<1>6. CASE NoPaths
  <2>1. /\ git = "add" /\ git' = "none" /\ gitStatus' = "zero" /\ absent = Configured
        /\ skipped' = Configured
        /\ UNCHANGED <<work, index, head, upstream, absent, autogitMode, started, unpushed>>
    BY <1>6 DEF NoPaths, Give, gitPlaces
  <2>2. AutogitTypeOK'
    BY <2>1 DEF AutogitTypeOK
  <2> QED
    BY <2>1, <2>2
    DEF NoPlaceIsAhead, StartIsStaged, RunKeepsItsMode, CommitsAreKnown, AutogitSuccessIsReal
<1>7. CASE GitAdd
  <2>1. /\ git = "add" /\ git' = "status" /\ skipped' = absent
        /\ index' = [a \in Areas |-> IF a \in Configured \ absent THEN work[a] ELSE index[a]]
        /\ UNCHANGED <<work, head, upstream, absent, autogitMode, gitStatus, started, unpushed>>
    BY <1>7 DEF GitAdd, Go
  <2>2. index' \in Contents
    BY <2>1 DEF AutogitTypeOK, Contents
  <2>3. AutogitTypeOK'
    BY <2>1, <2>2 DEF AutogitTypeOK
  <2>4. \A a \in Areas : head[a] <= index'[a] /\ index'[a] <= work[a]
    BY <1>1, <2>1
  <2>5. NoPlaceIsAhead'
    BY <1>1, <2>1, <2>4 DEF NoPlaceIsAhead
  <2>6. \A d \in Configured \ absent : started[d] <= index'[d]
    BY <1>2, <2>1 DEF StartIsStaged
  <2>7. StartIsStaged'
    BY <2>1, <2>6 DEF StartIsStaged
  <2> QED BY <2>1, <2>3, <2>5, <2>7 DEF RunKeepsItsMode, CommitsAreKnown, AutogitSuccessIsReal
<1>8. CASE GitStatus
  <2>1. /\ git = "status"
        /\ UNCHANGED <<work, index, head, upstream, absent, autogitMode, started, skipped, unpushed>>
        /\ \/ git' = "none" /\ gitStatus' = "zero" /\ (index = head \/ autogitMode = "stage")
           \/ git' = "commit" /\ UNCHANGED gitStatus /\ autogitMode # "stage"
    BY <1>8 DEF GitStatus, Give, Go, gitPlaces, gitRun
  <2>2. AutogitTypeOK'
    BY <2>1 DEF AutogitTypeOK
  <2>3. NoPlaceIsAhead' /\ StartIsStaged' /\ RunKeepsItsMode' /\ CommitsAreKnown'
    BY <2>1 DEF NoPlaceIsAhead, StartIsStaged, RunKeepsItsMode, CommitsAreKnown
  <2>4. ASSUME gitStatus' = "zero", autogitMode \in {"commit", "push"},
               NEW d \in Configured \ skipped
        PROVE  /\ head[d] >= started[d]
               /\ autogitMode = "push" => upstream[d] >= started[d] \/ unpushed
    <3>1. index = head /\ started[d] <= index[d] /\ (upstream = head \/ unpushed)
      BY <2>1, <2>4 DEF RunKeepsItsMode, StartIsStaged, CommitsAreKnown
    <3>2. started[d] \in Nat /\ head[d] \in Nat
      BY <1>1, <1>2, <1>3
    <3>3. head[d] >= started[d]
      BY <3>1, <3>2
    <3> QED BY <3>1, <3>3
  <2> QED BY <2>1, <2>2, <2>3, <2>4 DEF AutogitSuccessIsReal
<1>9. CASE GitCommit
  <2>1. /\ git = "commit" /\ head' = index
        /\ unpushed' = (unpushed \/ (index # head /\ autogitMode = "commit"))
        /\ UNCHANGED <<work, index, upstream, absent, autogitMode, started, skipped>>
        /\ \/ index = head /\ git' = "none" /\ gitStatus' = "one"
           \/ index # head /\ autogitMode = "push" /\ git' = "push" /\ gitStatus' = gitStatus
           \/ index # head /\ autogitMode # "push" /\ git' = "none" /\ gitStatus' = "zero"
    BY <1>9 DEF GitCommit, Give, Go, gitRun
  <2>2. AutogitTypeOK'
    BY <2>1 DEF AutogitTypeOK
  <2>3. \A a \in Areas : upstream[a] <= index[a]
    BY <1>1
  <2>4. NoPlaceIsAhead' /\ StartIsStaged' /\ RunKeepsItsMode'
    BY <1>1, <2>1, <2>3 DEF NoPlaceIsAhead, StartIsStaged, RunKeepsItsMode
  <2>5. CommitsAreKnown'
    BY <2>1 DEF CommitsAreKnown, RunKeepsItsMode, AutogitTypeOK
  <2>6. ASSUME gitStatus' = "zero", NEW d \in Configured \ skipped
        PROVE  head'[d] >= started[d] /\ autogitMode # "push"
    <3>1. started[d] <= index[d] /\ started[d] \in Nat /\ index[d] \in Nat /\ autogitMode # "push"
      BY <1>1, <1>2, <1>3, <2>1, <2>6 DEF StartIsStaged, RunKeepsItsMode
    <3> QED BY <2>1, <3>1
  <2> QED BY <2>1, <2>2, <2>4, <2>5, <2>6 DEF AutogitSuccessIsReal
<1>10. CASE GitPush
  <2>1. /\ git = "push" /\ git' = "none" /\ gitStatus' = "zero" /\ upstream' = head /\ unpushed' = FALSE
        /\ UNCHANGED <<work, index, head, absent, autogitMode, started, skipped>>
    BY <1>10 DEF GitPush, Give, gitRun
  <2>2. AutogitTypeOK'
    BY <2>1 DEF AutogitTypeOK
  <2>3. NoPlaceIsAhead' /\ StartIsStaged' /\ RunKeepsItsMode' /\ CommitsAreKnown'
    BY <1>1, <2>1 DEF NoPlaceIsAhead, StartIsStaged, RunKeepsItsMode, CommitsAreKnown
  <2>4. \A d \in Configured \ skipped : head[d] >= started[d]
    <3>1. ASSUME NEW d \in Configured \ skipped PROVE head[d] >= started[d]
      <4>1. started[d] <= head[d] /\ started[d] \in Nat /\ head[d] \in Nat
        BY <1>1, <1>2, <1>3, <2>1 DEF StartIsStaged
      <4> QED BY <4>1
    <3> QED BY <3>1
  <2> QED BY <2>1, <2>2, <2>3, <2>4 DEF AutogitSuccessIsReal
<1>11. CASE GitFails
  <2>1. /\ git # "none" /\ git' = "none" /\ gitStatus' = "one" /\ unpushed' = (unpushed \/ git = "push")
        /\ UNCHANGED <<work, index, head, upstream, absent, autogitMode, started, skipped>>
    BY <1>11 DEF GitFails, Give, gitPlaces, gitRun
  <2>2. AutogitTypeOK'
    BY <2>1 DEF AutogitTypeOK
  <2> QED
    BY <2>1, <2>2
    DEF NoPlaceIsAhead, StartIsStaged, RunKeepsItsMode, CommitsAreKnown, AutogitSuccessIsReal
<1> QED BY <1>4, <1>5, <1>6, <1>7, <1>8, <1>9, <1>10, <1>11

LEMMA AutogitInvStep == AutogitInv /\ [AutogitNext]_gitVars => AutogitInv'
<1> SUFFICES ASSUME AutogitInv, [AutogitNext]_gitVars PROVE AutogitInv'
  OBVIOUS
<1>1. CASE AutogitNext
  BY <1>1, UserKeepsTheRun, RunGoesForward DEF AutogitNext
<1>2. CASE UNCHANGED gitVars
  BY <1>2
  DEF gitVars, gitPlaces, gitRun, AutogitInv, AutogitTypeOK, NoPlaceIsAhead, StartIsStaged,
      RunKeepsItsMode, CommitsAreKnown, AutogitSuccessIsReal
<1> QED BY <1>1, <1>2

\* The places of git and the command keep their types, no place is ahead of the one
\* before it, and a commit that is not on the remote was made by hand, or by a run
\* that ended without pushing it, or is about to be pushed.
THEOREM AutogitInvariant == AutogitSpec => []AutogitInv
<1> QED BY AutogitInvInit, AutogitInvStep, PTL DEF AutogitSpec

\* A success of autogit has committed what the configured directories that it found
\* held when it began, and pushed it in the mode push, unless it was committed
\* before, by hand or by an earlier run, and not pushed (run_autogit of
\* commands/autogit.py); whatever the user saves, removes, stages, commits and
\* pushes meanwhile.
THEOREM AutogitKeepsItsWord == AutogitSpec => []AutogitSuccessIsReal
<1>1. AutogitInv => AutogitSuccessIsReal
  BY DEF AutogitInv
<1> QED BY AutogitInvariant, <1>1, PTL

(***************************************************************************)
(* The input change detector.                                              *)
(***************************************************************************)

Watched(f) == Last(f.suffixes) \in Patterns

\* A digest whose file is not there is one of a deleted file.
GoneKnown == \A f \in Files : hashes[f] # None /\ input[f] = None => f \in gone

\* A run has the marker until it is complete, and has read what is still there.
ReadInv ==
  /\ run.at # "idle" => pending
  /\ run.at \in {"read", "marking"} => \A f \in Files \ run.late : input[f] = run.read[f]

\* The records of t are those of what was read, but for late and deleted files.
RecordsOf(t, late) ==
  \A f \in Files \ (late \cup gone) :
    Watched(f) /\ hashes[f] # None => t[f] # None /\ hashes[f] = t[f].words

MarkedAsRead == run.at = "marking" => RecordsOf(run.read, run.late \cup run.todo)
RecordedAsCompiled == ~ pending => RecordsOf(compiled, raced)

RunTypes == [at : Stages, read : [Files -> Text \cup {None}], todo : SUBSET Files, late : SUBSET Files]
Types ==
  /\ input \in [Files -> Text \cup {None}] /\ hashes \in [Files -> Words \cup {None}]
  /\ pending \in BOOLEAN /\ run \in RunTypes
  /\ compiled \in [Files -> Text \cup {None}] /\ raced \subseteq Files /\ gone \subseteq Files

DetectorInv ==
  Types /\ GoneKnown /\ ReadInv /\ MarkedAsRead /\ RecordedAsCompiled

LEMMA DetectorInit == InputsInit => DetectorInv
<1> SUFFICES ASSUME InputsInit PROVE DetectorInv
  OBVIOUS
<1>1. Types
  BY DEF InputsInit, Types, RunTypes, Stages, Idle, NoTexts, Text
<1> QED
  BY <1>1
  DEF InputsInit, Idle, NoTexts, DetectorInv, GoneKnown, ReadInv, MarkedAsRead, RecordedAsCompiled,
      RecordsOf

\* A run keeps the invariant: it has the marker, and records what is there.
LEMMA DetectorRun ==
  ASSUME DetectorInv, CompileStep \/ StartCompile(TRUE) \/ Stop
  PROVE  DetectorInv'
<1> USE DEF DetectorInv, Types
<1>1. ASSUME NEW forced \in BOOLEAN, StartCompile(forced) PROVE DetectorInv'
  <2>1. /\ run' = [run EXCEPT !.at = "begun"] /\ pending' = TRUE
        /\ UNCHANGED <<input, hashes, compiled, raced, gone>>
    BY <1>1 DEF StartCompile
  <2>2. run' \in RunTypes /\ run'.at = "begun"
    BY <2>1 DEF RunTypes, Stages
  <2> QED BY <2>1, <2>2 DEF GoneKnown, ReadInv, MarkedAsRead, RecordedAsCompiled
<1>2. CASE ReadInputs
  <2>1. run' = [run EXCEPT !.at = "read", !.read = input] /\ pending
        /\ UNCHANGED <<input, hashes, pending, compiled, raced, gone>>
    BY <1>2 DEF ReadInputs, ReadInv
  <2>2. run' \in RunTypes /\ run'.at = "read" /\ run'.read = input
    BY <2>1 DEF RunTypes, Stages
  <2> QED BY <2>1, <2>2 DEF GoneKnown, ReadInv, MarkedAsRead, RecordedAsCompiled
<1>3. CASE ListInputs
  <2>1. /\ run' = [run EXCEPT !.at = "marking", !.todo = InputFiles] /\ pending /\ run.at = "read"
        /\ UNCHANGED <<input, hashes, pending, compiled, raced, gone>>
    BY <1>3 DEF ListInputs, ReadInv
  <2>2. /\ run' \in RunTypes /\ run'.at = "marking" /\ run'.todo = InputFiles
        /\ run'.read = run.read /\ run'.late = run.late
    BY <2>1 DEF RunTypes, Stages, InputFiles
  <2>3. MarkedAsRead'
    BY <2>1, <2>2 DEF MarkedAsRead, RecordsOf, GoneKnown, InputFiles, Watched
  <2> QED BY <2>1, <2>2, <2>3 DEF GoneKnown, ReadInv, RecordedAsCompiled
<1>4. ASSUME NEW f \in Files, MarkCompiled(f) PROVE DetectorInv'
  <2>1. /\ run' = [run EXCEPT !.todo = @ \ {f}] /\ pending /\ run.at = "marking"
        /\ hashes' = [hashes EXCEPT ![f] = input[f].words] /\ gone' = gone \ {f} /\ input[f] # None
        /\ UNCHANGED <<input, pending, compiled, raced>>
    BY <1>4 DEF MarkCompiled, ReadInv, compute_content_hash
  <2>2. /\ run' \in RunTypes /\ run'.at = "marking" /\ run'.todo = run.todo \ {f}
        /\ run'.read = run.read /\ run'.late = run.late
    BY <2>1 DEF RunTypes
  <2>3. Types' /\ ReadInv'
    BY <2>1, <2>2 DEF ReadInv, Text
  <2>4. GoneKnown'
    BY <2>1 DEF GoneKnown
  <2>5. ASSUME NEW g \in Files, g \notin run.late \cup (run.todo \ {f}) \cup (gone \ {f}),
               Watched(g), hashes'[g] # None
        PROVE  run.read[g] # None /\ hashes'[g] = run.read[g].words
    <3>1. CASE g = f
      <4>1. run.read[f] = input[f] /\ hashes'[f] = input[f].words
        BY <2>1, <2>5, <3>1 DEF ReadInv
      <4> QED BY <2>1, <3>1, <4>1
    <3>2. CASE g # f
      BY <2>1, <2>5, <3>2 DEF MarkedAsRead, RecordsOf
    <3> QED BY <3>1, <3>2
  <2>6. MarkedAsRead'
    BY <2>1, <2>2, <2>5 DEF MarkedAsRead, RecordsOf
  <2> QED BY <2>1, <2>3, <2>4, <2>6 DEF RecordedAsCompiled
<1>5. CASE Complete
  <2>1. /\ run' = Idle /\ compiled' = run.read /\ raced' = run.late /\ UNCHANGED <<input, hashes, gone>>
        /\ run.at = "marking" /\ run.todo = {} /\ pending' = FALSE
    BY <1>5 DEF Complete
  <2>2. Types' /\ run'.at = "idle"
    BY <2>1 DEF RunTypes, Stages, Idle, NoTexts
  <2>3. RecordedAsCompiled'
    BY <2>1 DEF MarkedAsRead, RecordedAsCompiled, RecordsOf
  <2> QED BY <2>1, <2>2, <2>3 DEF GoneKnown, ReadInv, MarkedAsRead
<1>6. CASE FileVanishes \/ Stop
  <2>1. run' = Idle /\ UNCHANGED <<input, hashes, pending, compiled, raced, gone>>
    BY <1>6 DEF FileVanishes, Stop
  <2>2. Types' /\ run'.at = "idle"
    BY <2>1 DEF RunTypes, Stages, Idle, NoTexts
  <2> QED BY <2>1, <2>2 DEF GoneKnown, ReadInv, MarkedAsRead, RecordedAsCompiled, RecordsOf
<1> QED BY <1>1, <1>2, <1>3, <1>4, <1>5, <1>6 DEF CompileStep

\* So do those who remove records, and the user.
LEMMA DetectorOther ==
  ASSUME DetectorInv, cleanup_stale_hashes \/ \E f \in Files : Edit(f)
  PROVE  DetectorInv'
<1> USE DEF DetectorInv, Types
<1>1. CASE cleanup_stale_hashes
  <2>1. /\ UNCHANGED <<input, pending, run, compiled, raced, gone>>
        /\ hashes' \in [Files -> Words \cup {None}]
        /\ \A f \in Files : hashes'[f] \in {None, hashes[f]}
    BY <1>1 DEF cleanup_stale_hashes
  <2> QED
    BY <2>1 DEF GoneKnown, ReadInv, MarkedAsRead, RecordedAsCompiled, RecordsOf
<1>2. ASSUME NEW f \in Files, Edit(f) PROVE DetectorInv'
  <2>1. PICK text \in Text \cup {None} :
          /\ input' = [input EXCEPT ![f] = text]
          /\ gone' = IF text = None /\ hashes[f] # None THEN gone \cup {f} ELSE gone
    BY <1>2 DEF Edit
  <2>2. /\ run' = IF run.at \in {"read", "marking"} THEN [run EXCEPT !.late = @ \cup {f}] ELSE run
        /\ UNCHANGED <<hashes, pending, compiled, raced>>
    BY <1>2 DEF Edit
  <2>3. /\ run' \in RunTypes /\ run'.at = run.at /\ run'.read = run.read /\ run'.todo = run.todo
        /\ run'.late = IF run.at \in {"read", "marking"} THEN run.late \cup {f} ELSE run.late
    BY <2>2 DEF RunTypes
  <2>4. Types' /\ GoneKnown'
    BY <2>1, <2>2, <2>3 DEF GoneKnown
  <2>5. ReadInv'
    BY <2>1, <2>2, <2>3 DEF ReadInv
  <2>6. MarkedAsRead' /\ RecordedAsCompiled'
    BY <2>1, <2>2, <2>3 DEF MarkedAsRead, RecordedAsCompiled, RecordsOf
  <2> QED BY <2>4, <2>5, <2>6
<1> QED BY <1>1, <1>2

LEMMA DetectorStep == DetectorInv /\ [InputsNext]_inputsVars => DetectorInv'
<1> SUFFICES ASSUME DetectorInv, [InputsNext]_inputsVars PROVE DetectorInv'
  OBVIOUS
<1>1. CASE InputsNext
  BY <1>1, DetectorRun, DetectorOther DEF InputsNext
<1>2. CASE UNCHANGED inputsVars
  BY <1>2
  DEF inputsVars, DetectorInv, Types, GoneKnown, ReadInv, MarkedAsRead, RecordedAsCompiled, RecordsOf
<1> QED BY <1>1, <1>2

\* Where compile would skip, every input file that the detector looks at is, up
\* to white space, as the last completed run read it, unless it was changed while
\* that run compiled or was put back after a deletion (needs_compilation,
\* mark_compiled); failures and kills of runs and lost records hide nothing.
THEOREM SkipsStayExplained == InputsSpec => []SkipsAreExplained
<1>1. DetectorInv => SkipsAreExplained
  <2> SUFFICES ASSUME DetectorInv, WouldSkip, NEW f \in InputFiles \ (raced \cup gone)
               PROVE  compiled[f] # None /\ compiled[f].words = input[f].words
    BY DEF SkipsAreExplained
  <2>1. f \in Files /\ Watched(f) /\ ~ pending /\ hashes[f] # None /\ hashes[f] = input[f].words
    BY DEF InputFiles, Watched, WouldSkip, needs_compilation, has_file_changed, compute_content_hash
  <2> QED BY <2>1 DEF DetectorInv, RecordedAsCompiled, RecordsOf
<1> QED BY DetectorInit, DetectorStep, <1>1, PTL DEF InputsSpec

\* The input directory, the records and the run keep their types.
THEOREM InputsTypes == InputsSpec => []InputsTypeOK
<1>1. DetectorInv => InputsTypeOK
  BY DEF DetectorInv, Types, RunTypes, InputsTypeOK
<1> QED BY DetectorInit, DetectorStep, <1>1, PTL DEF InputsSpec

(***************************************************************************)
(* Decompile and back                                                      *)
(***************************************************************************)

Root == Slot("root", "root", "variables")
GlobalJob == Slot("job", "global", "variables")

\* The slots that decompile writes to files.
Extracted(s, t) == s \in SlotsOf(t) /\ (IsVariables(s) \/ s.place \in Entries(t))

AlikeNames == {"build", "Build", "build_before_script"}

JobKeys == {"script", "before_script", "variables", "run"}

LEMMA GitLabSlots ==
  SlotsOf("gitlab") = JobSlots("job", {"script", "before_script", "variables"})
    \cup {Slot("anchored", "template", "script"), Slot("reserved", "pages", "script"),
          Slot("hooks", "build", "pre_get_sources_script"), Slot("run list", "build", "script"),
          Slot("list", "build", "list"), Slot("root", "root", "before_script"),
          Slot("root", "root", "variables")}
BY DEF SlotsOf

\* A slot that is written to a file is the script or the variables of a job, or
\* one of four others.
LEMMA ExtractedSlots ==
  ASSUME NEW t \in Targets6, NEW s, Extracted(s, t)
  PROVE  \/ \E place \in {"job", "step"}, name \in JobNames, key \in JobKeys :
              /\ s = Slot(place, name, key)
              /\ place = "step" <=> key = "run"
         \/ s \in {Root, Slot("anchored", "template", "script"), Slot("object", "deploy", "command"),
                   Slot("phase", "build", "commands")}
<1> USE DEF Extracted, JobSlots, IsVariables, Entries, Slot, Root, JobKeys
<1>1. CASE t = "gitlab"
  <2>1. CASE s \in JobSlots("job", {"script", "before_script", "variables"})
    BY <1>1, <2>1
  <2>2. CASE s \in {Slot("anchored", "template", "script"), Slot("root", "root", "variables")}
    BY <1>1, <2>2
  <2>3. ~ Extracted(Slot("reserved", "pages", "script"), t) /\ ~ Extracted(Slot("list", "build", "list"), t)
    BY <1>1
  <2>4. ~ Extracted(Slot("hooks", "build", "pre_get_sources_script"), t)
    BY <1>1
  <2>5. ~ Extracted(Slot("run list", "build", "script"), t)
    BY <1>1
  <2>6. ~ Extracted(Slot("root", "root", "before_script"), t)
    BY <1>1
  <2>7. s \in SlotsOf("gitlab")
    BY <1>1
  <2>8. s \in SlotsOf(t) /\ Extracted(s, t)
    OBVIOUS
  <2> HIDE DEF Extracted, JobSlots, IsVariables, Entries, Slot
  <2> QED BY <2>1, <2>2, <2>3, <2>4, <2>5, <2>6, <2>7, <2>8, GitLabSlots
<1>2. CASE t = "github"
  <2>1. CASE s \in JobSlots("step", {"run"}) \cup JobSlots("job", {"variables"})
    BY <1>2, <2>1
  <2> QED BY <1>2, <2>1 DEF SlotsOf
<1>3. CASE t = "circleci"
  <2>1. CASE s \in JobSlots("step", {"run"}) \cup JobSlots("job", {"variables"})
    BY <1>3, <2>1
  <2> QED BY <1>3, <2>1 DEF SlotsOf
<1>4. CASE t = "buildspec"
  BY <1>4 DEF SlotsOf
<1>5. CASE t = "bitbucket"
  BY <1>5 DEF SlotsOf
<1>6. CASE t = "semaphore"
  BY <1>6 DEF SlotsOf
<1> QED BY <1>1, <1>2, <1>3, <1>4, <1>5, <1>6 DEF Targets6

LEMMA AppendName ==
  ASSUME NEW a, NEW b
  PROVE  Append(<<a>>, b) = <<a, b>>
<1> DEFINE S == {a, b}
<1>1. <<a>> \in Seq(S) /\ <<a, b>> \in Seq(S)
  <2>1. a \in S /\ b \in S
    OBVIOUS
  <2> HIDE DEF S
  <2> QED BY <2>1
<1> HIDE DEF S
<1>2. Append(<<a>>, b) = [i \in 1..2 |-> IF i = 2 THEN b ELSE a]
  BY <1>1
<1>3. <<a, b>> = [i \in 1..2 |-> IF i = 2 THEN b ELSE a]
  BY <1>1
<1> QED BY <1>2, <1>3

LEMMA AppendLongName ==
  ASSUME NEW a, NEW b, NEW c
  PROVE  Append(<<a, b>>, c) = <<a, b, c>>
<1> DEFINE S == {a, b, c}
<1>1. <<a, b>> \in Seq(S) /\ <<a, b, c>> \in Seq(S)
  <2>1. a \in S /\ b \in S /\ c \in S
    OBVIOUS
  <2> HIDE DEF S
  <2> QED BY <2>1
<1> HIDE DEF S
<1>2. Append(<<a, b>>, c) = [i \in 1..3 |-> IF i = 3 THEN c ELSE IF i = 2 THEN b ELSE a]
  BY <1>1
<1>3. <<a, b, c>> = [i \in 1..3 |-> IF i = 3 THEN c ELSE IF i = 2 THEN b ELSE a]
  BY <1>1
<1> QED BY <1>2, <1>3

\* The file names of the slots.
LEMMA JobFiles ==
  ASSUME NEW place \in {"job", "step"}, NEW name \in JobNames, NEW key \in JobKeys
  PROVE  FileOf(Slot(place, name, key)) =
           IF name = "build_before_script"
           THEN IF key = "script" THEN <<"build", "before_script">>
                                  ELSE <<"build", "before_script", key>>
           ELSE LET base == IF name = "Build" THEN "build" ELSE name
                IN  IF key = "script" THEN <<base>> ELSE <<base, key>>
<1> DEFINE s == Slot(place, name, key)
<1>1. s.place = place /\ s.name = name /\ s.key = key /\ place \notin {"root", "object"}
  BY DEF Slot
<1> HIDE DEF s
<1>2. FileOf(s) = IF key = "script" THEN Sanitized(name) ELSE Append(Sanitized(name), key)
  BY <1>1 DEF FileOf, IsVariables, VariablesFile, create_script_filename
<1>3. CASE name = "build_before_script"
  BY <1>2, <1>3, AppendLongName DEF Sanitized, s
<1>4. CASE name \in {"build", "Build"}
  BY <1>2, <1>4, AppendName DEF Sanitized, s
<1>5. CASE name = "global"
  BY <1>2, <1>5, AppendName DEF Sanitized, s
<1> QED BY <1>3, <1>4, <1>5 DEF JobNames

LEMMA OtherFiles ==
  /\ FileOf(Root) = <<"global", "variables">>
  /\ FileOf(Slot("anchored", "template", "script")) = <<"template">>
  /\ FileOf(Slot("object", "deploy", "command")) = <<"deploy", "run">>
  /\ FileOf(Slot("phase", "build", "commands")) = <<"build", "commands">>
BY AppendName DEF FileOf, Root, Slot, IsVariables, VariablesFile, create_script_filename, Sanitized

SameFileNames(a, b) == a.name # b.name /\ {a.name, b.name} \subseteq AlikeNames

\* Two slots with the same file have names alike, or are the variables of the
\* document and those of a job global.
LEMMA JobCollisions ==
  ASSUME NEW p1 \in {"job", "step"}, NEW n1 \in JobNames, NEW k1 \in JobKeys, p1 = "step" <=> k1 = "run",
         NEW p2 \in {"job", "step"}, NEW n2 \in JobNames, NEW k2 \in JobKeys, p2 = "step" <=> k2 = "run",
         FileOf(Slot(p1, n1, k1)) = FileOf(Slot(p2, n2, k2)),
         n1 = n2 \/ ~ ({n1, n2} \subseteq AlikeNames)
  PROVE  p1 = p2 /\ n1 = n2 /\ k1 = k2
<1> DEFINE F(name, key) ==
             IF name = "build_before_script"
             THEN IF key = "script" THEN <<"build", "before_script">>
                                    ELSE <<"build", "before_script", key>>
             ELSE LET base == IF name = "Build" THEN "build" ELSE name
                  IN  IF key = "script" THEN <<base>> ELSE <<base, key>>
<1>1. F(n1, k1) = F(n2, k2)
  BY JobFiles
<1>2. CASE n1 = n2
  <2>1. CASE n1 = "build_before_script"
    BY <1>1, <1>2, <2>1 DEF JobKeys
  <2>2. CASE n1 # "build_before_script"
    BY <1>1, <1>2, <2>2 DEF JobKeys
  <2> QED BY <2>1, <2>2
<1>3. CASE n1 # n2
  <2>1. CASE n1 = "global"
    BY <1>1, <1>3, <2>1 DEF JobKeys, JobNames, AlikeNames
  <2>2. CASE n2 = "global"
    BY <1>1, <1>3, <2>2 DEF JobKeys, JobNames, AlikeNames
  <2> QED BY <1>3, <2>1, <2>2 DEF JobNames, AlikeNames
<1> QED BY <1>2, <1>3
OtherSlots == {Root, Slot("anchored", "template", "script"), Slot("object", "deploy", "command"),
               Slot("phase", "build", "commands")}

LEMMA OtherCollisions ==
  ASSUME NEW o \in OtherSlots,
         NEW p \in {"job", "step"}, NEW n \in JobNames, NEW k \in JobKeys, p = "step" <=> k = "run",
         FileOf(o) = FileOf(Slot(p, n, k))
  PROVE  o = Root /\ p = "job" /\ n = "global" /\ k = "variables"
<1> DEFINE F(name, key) ==
             IF name = "build_before_script"
             THEN IF key = "script" THEN <<"build", "before_script">>
                                    ELSE <<"build", "before_script", key>>
             ELSE LET base == IF name = "Build" THEN "build" ELSE name
                  IN  IF key = "script" THEN <<base>> ELSE <<base, key>>
<1>1. FileOf(o) = F(n, k)
  BY JobFiles
<1>2. F(n, k) # <<"template">> /\ F(n, k) # <<"build", "commands">> /\ F(n, k) # <<"deploy", "run">>
  BY DEF JobKeys, JobNames
<1>3. F(n, k) = <<"global", "variables">> => n = "global" /\ k = "variables"
  BY DEF JobKeys, JobNames
<1>4. o = Root
  BY <1>1, <1>2, OtherFiles DEF OtherSlots
<1> QED BY <1>1, <1>3, <1>4, OtherFiles

LEMMA OtherFilesDiffer ==
  ASSUME NEW a \in OtherSlots, NEW b \in OtherSlots, FileOf(a) = FileOf(b)
  PROVE  a = b
<1>1. /\ <<"global", "variables">> # <<"template">> /\ <<"global", "variables">> # <<"deploy", "run">>
      /\ <<"global", "variables">> # <<"build", "commands">> /\ <<"template">> # <<"deploy", "run">>
      /\ <<"template">> # <<"build", "commands">> /\ <<"deploy", "run">> # <<"build", "commands">>
  OBVIOUS
<1> QED BY <1>1, OtherFiles DEF OtherSlots

LEMMA SameFile ==
  ASSUME NEW t \in Targets6, NEW a, NEW b, Extracted(a, t), Extracted(b, t),
         FileOf(a) = FileOf(b), ~ SameFileNames(a, b)
  PROVE  a = b \/ {a, b} = {Root, GlobalJob}
<1> DEFINE IsJob(s, p, n, k) == s = Slot(p, n, k) /\ (p = "step" <=> k = "run")
<1>1. ASSUME NEW s, Extracted(s, t)
      PROVE  s \in OtherSlots \/ \E p \in {"job", "step"}, n \in JobNames, k \in JobKeys : IsJob(s, p, n, k)
  BY <1>1, ExtractedSlots DEF OtherSlots
<1>2. CASE a \in OtherSlots /\ b \in OtherSlots
  BY <1>2, OtherFilesDiffer
<1>3. ASSUME NEW s, NEW o \in OtherSlots, s \notin OtherSlots, Extracted(s, t), FileOf(s) = FileOf(o)
      PROVE  o = Root /\ s = GlobalJob
  <2>1. PICK p \in {"job", "step"}, n \in JobNames, k \in JobKeys : IsJob(s, p, n, k)
    BY <1>1, <1>3
  <2> QED BY <1>3, <2>1, OtherCollisions DEF GlobalJob
<1>4. CASE a \notin OtherSlots /\ b \notin OtherSlots
  <2>1. PICK p1 \in {"job", "step"}, n1 \in JobNames, k1 \in JobKeys : IsJob(a, p1, n1, k1)
    BY <1>1, <1>4
  <2>2. PICK p2 \in {"job", "step"}, n2 \in JobNames, k2 \in JobKeys : IsJob(b, p2, n2, k2)
    BY <1>1, <1>4
  <2>3. a.name = n1 /\ b.name = n2
    BY <2>1, <2>2 DEF Slot
  <2>4. n1 = n2 \/ ~ ({n1, n2} \subseteq AlikeNames)
    BY <2>3 DEF SameFileNames
  <2> QED BY <2>1, <2>2, <2>4, JobCollisions
<1> QED BY <1>2, <1>3, <1>4
\* The variables that compile reads for a job of that name.
LEMMA VariablesRead ==
  ASSUME NEW t \in Targets6, NEW s, Extracted(s, t), NEW name \in JobNames,
         FileOf(s) = <<name, "variables">>
  PROVE  \/ s = Slot("job", name, "variables")
         \/ name = "build" /\ s = Slot("job", "Build", "variables")
         \/ name = "global" /\ s = Root
<1>1. CASE s \in OtherSlots
  <2>1. /\ <<name, "variables">> # <<"template">> /\ <<name, "variables">> # <<"deploy", "run">>
        /\ <<name, "variables">> # <<"build", "commands">>
        /\ <<name, "variables">> = <<"global", "variables">> => name = "global"
    OBVIOUS
  <2> QED BY <1>1, <2>1, OtherFiles DEF OtherSlots
<1>2. CASE s \notin OtherSlots
  <2>1. PICK p \in {"job", "step"}, n \in JobNames, k \in JobKeys :
          s = Slot(p, n, k) /\ (p = "step" <=> k = "run")
    BY <1>2, ExtractedSlots DEF OtherSlots
  <2> DEFINE F(job, key) ==
               IF job = "build_before_script"
               THEN IF key = "script" THEN <<"build", "before_script">>
                                      ELSE <<"build", "before_script", key>>
               ELSE LET base == IF job = "Build" THEN "build" ELSE job
                    IN  IF key = "script" THEN <<base>> ELSE <<base, key>>
  <2>2. F(n, k) = <<name, "variables">>
    BY <2>1, JobFiles
  <2>3. CASE n = "build_before_script"
    <3>1. F(n, k) = IF k = "script" THEN <<"build", "before_script">>
                                    ELSE <<"build", "before_script", k>>
      BY <2>3
    <3> QED BY <2>2, <3>1 DEF JobNames
  <2>4. CASE n # "build_before_script"
    <3>1. F(n, k) = LET base == IF n = "Build" THEN "build" ELSE n
                    IN  IF k = "script" THEN <<base>> ELSE <<base, k>>
      BY <2>4
    <3>2. k = "variables" /\ name = IF n = "Build" THEN "build" ELSE n
      BY <2>2, <3>1
    <3> QED BY <2>1, <3>2
  <2> QED BY <2>3, <2>4
<1> QED BY <1>1, <1>2

\* The slots that decompile has written to the file so far, and what the last
\* of them has left there.
Writers(file) ==
  {i \in 1..(visiting - 1) : Extracted(slots[i], platform) /\ FileOf(slots[i]) = file}
TextOf(i) == IF slots[i].place = "object" THEN <<i, "keys">> ELSE <<i>>

LastWrites ==
  /\ DOMAIN fileText = FileNames
  /\ \A file \in FileNames :
       \/ Writers(file) = {} /\ fileText[file] = Nothing
       \/ \E i \in Writers(file) : fileText[file] = TextOf(i) /\ \A j \in Writers(file) : j <= i

CalledFile(i) ==
  IF i < visiting /\ ~ IsVariables(slots[i]) /\ slots[i].place \in Entries(platform)
  THEN FileOf(slots[i]) ELSE NoFile
CallsOfTheVisited == callOf = [i \in 1..Len(slots) |-> CalledFile(i)]

Document ==
  /\ platform \in Targets6
  /\ slots \in Seq(SlotsOf(platform))
  /\ \A i \in 1..Len(slots) : slots[i] = Root => i = 1

Progress ==
  /\ round \in {"writing", "decompiling", "unwritten", "decompiled", "invalid", "compiled"}
  /\ visiting \in 1..(Len(slots) + 1)
  /\ round = "writing" => visiting = 1
  /\ round \notin {"writing", "decompiling"} => visiting = Len(slots) + 1

RoundInv == Document /\ Progress /\ CallsOfTheVisited /\ LastWrites
LEMMA FilesHaveNames ==
  ASSUME NEW t \in Targets6, NEW s \in SlotsOf(t)
  PROVE  FileOf(s) \in FileNames
BY DEF FileNames

\* The variables of a job, when they are not those of the document.
LEMMA VariablesOfJobs ==
  ASSUME NEW t \in Targets6, NEW s \in SlotsOf(t), IsVariables(s)
  PROVE  /\ s = Root \/ \E name \in JobNames : s = Slot("job", name, "variables")
         /\ s.place # "object"
<1>1. s \in OtherSlots \/ \E p \in {"job", "step"}, n \in JobNames, k \in JobKeys :
                            s = Slot(p, n, k) /\ (p = "step" <=> k = "run")
  BY ExtractedSlots DEF Extracted, OtherSlots
<1>2. CASE s \in OtherSlots
  <2>1. s = Root
    BY <1>2 DEF OtherSlots, IsVariables, Slot
  <2> QED BY <2>1 DEF Root, Slot
<1>3. CASE s \notin OtherSlots
  <2>1. PICK p \in {"job", "step"}, n \in JobNames, k \in JobKeys :
          s = Slot(p, n, k) /\ (p = "step" <=> k = "run")
    BY <1>1, <1>3
  <2>2. k = "variables"
    BY <2>1 DEF IsVariables, Slot
  <2> QED BY <2>1, <2>2 DEF Slot
<1> QED BY <1>2, <1>3

\* What decompile takes as a script of GitHub or CircleCI is never a job's.
LEMMA ScriptsAreInSections ==
  ASSUME NEW t \in Targets6, NEW s \in SlotsOf(t), ~ IsVariables(s), s.place \in Entries(t),
         s.place \notin {"anchored", "object"}
  PROVE  s.place \in Sections(t)
<1>1. CASE t = "gitlab"
  BY <1>1 DEF Entries, Sections, GitLabSections
<1>2. CASE t \in {"github", "circleci"}
  <2>1. SlotsOf(t) \subseteq JobSlots("step", {"run"}) \cup JobSlots("job", {"variables"})
          \cup {Slot("root", "root", "variables"), Slot("object", "deploy", "command")}
    <3>1. CASE t = "github"
      BY <3>1 DEF SlotsOf
    <3>2. CASE t = "circleci"
      BY <3>2 DEF SlotsOf
    <3> QED BY <1>2, <3>1, <3>2
  <2>2. s.place \in {"step", "job"} /\ (s.place = "job" => s.key = "variables")
    BY <1>2, <2>1 DEF JobSlots, Slot, Entries
  <2> QED BY <1>2, <2>2 DEF IsVariables, Sections, GitHubSections, CircleCISections
<1>3. CASE t = "buildspec"
  BY <1>3 DEF Entries, Sections, BuildspecSections
<1>4. CASE t \in {"bitbucket", "semaphore"}
  BY <1>4 DEF Entries
<1> QED BY <1>1, <1>2, <1>3, <1>4 DEF Targets6

LEMMA ScriptsComeBack ==
  ASSUME RoundInv, visiting = Len(slots) + 1, NEW i \in 1..Len(slots), Alone(i),
         slots[i].place \notin {"anchored", "object"}
  PROVE  CompiledRun(i) = <<i>>
<1> DEFINE file == FileOf(slots[i])
<1>1. callOf[i] = CalledFile(i) /\ i < visiting
  BY DEF RoundInv, CallsOfTheVisited, Document
<1>2. CASE callOf[i] = NoFile
  BY <1>2 DEF CompiledRun
<1>3. CASE callOf[i] # NoFile
  <2>1. /\ slots[i] \in SlotsOf(platform) /\ platform \in Targets6
        /\ ~ IsVariables(slots[i]) /\ slots[i].place \in Entries(platform)
        /\ callOf[i] = file
    BY <1>1, <1>3 DEF RoundInv, Document, CalledFile
  <2>2. Extracted(slots[i], platform) /\ file \in FileNames /\ i \in Writers(file)
    BY <1>1, <2>1, FilesHaveNames DEF Extracted, Writers, RoundInv, Document
  <2>3. PICK j \in Writers(file) : fileText[file] = TextOf(j)
    BY <2>2 DEF RoundInv, LastWrites
  <2>4. j \in 1..Len(slots) /\ Extracted(slots[j], platform) /\ FileOf(slots[j]) = file
    BY DEF Writers, RoundInv, Document
  <2>5. ~ SameFileNames(slots[i], slots[j])
    BY <2>4 DEF Alone, Alike, SameFileNames, AlikeNames, RoundInv, Document
  <2>6. slots[i] # Root /\ slots[i] # GlobalJob
    BY <2>1 DEF IsVariables, Root, GlobalJob, Slot
  <2>7. i = j
    <3>1. slots[i] = slots[j]
      BY <2>1, <2>2, <2>4, <2>5, <2>6, SameFile DEF RoundInv, Document
    <3> QED BY <2>4, <3>1 DEF Alone, Alike, RoundInv, Document
  <2>8. slots[i].place \in Sections(platform)
    BY <2>1, ScriptsAreInSections
  <2> QED BY <1>3, <2>1, <2>2, <2>3, <2>7, <2>8 DEF CompiledRun, Read, TextOf
<1> QED BY <1>2, <1>3

\* The text of a variables file is nothing or comes from the last slot with that
\* file.
LEMMA VariablesTexts ==
  ASSUME RoundInv, visiting = Len(slots) + 1, NEW name \in JobNames,
         NEW j \in ToSet(Read(<<name, "variables">>))
  PROVE  /\ j \in 1..Len(slots)
         /\ \/ slots[j] = Slot("job", name, "variables")
            \/ name = "build" /\ slots[j] = Slot("job", "Build", "variables")
            \/ name = "global" /\ slots[j] = Root
         /\ \A i \in Writers(<<name, "variables">>) : i <= j
<1> DEFINE file == <<name, "variables">>
<1>1. ToSet(Nothing) = {}
  BY DEF ToSet, Nothing
<1>2. file \in FileNames /\ fileText[file] # Nothing
  BY <1>1 DEF Read
<1>3. PICK i \in Writers(file) : fileText[file] = TextOf(i) /\ \A k \in Writers(file) : k <= i
  BY <1>2 DEF RoundInv, LastWrites
<1>4. i \in 1..Len(slots) /\ Extracted(slots[i], platform) /\ FileOf(slots[i]) = file
  BY DEF Writers, RoundInv, Document
<1>5. \/ slots[i] = Slot("job", name, "variables")
      \/ name = "build" /\ slots[i] = Slot("job", "Build", "variables")
      \/ name = "global" /\ slots[i] = Root
  BY <1>4, VariablesRead DEF RoundInv, Document
<1>6. slots[i].place # "object"
  BY <1>5 DEF Slot, Root
<1>7. Read(file) = <<i>>
  BY <1>2, <1>3, <1>6 DEF Read, TextOf
<1>8. j = i
  BY <1>7 DEF ToSet
<1> QED BY <1>3, <1>4, <1>5, <1>8

LEMMA VariablesStay ==
  ASSUME RoundInv, visiting = Len(slots) + 1, NEW i \in 1..Len(slots), Alone(i), IsVariables(slots[i])
  PROVE  Merged(i) \subseteq {i}
<1>1. CASE slots[i].place = "root"
  BY <1>1 DEF Merged
<1>2. CASE slots[i].place # "root"
  <2>1. slots[i] \in SlotsOf(platform) /\ platform \in Targets6
    BY DEF RoundInv, Document
  <2>2. PICK name \in JobNames : slots[i] = Slot("job", name, "variables")
    BY <1>2, <2>1, VariablesOfJobs DEF Root, Slot
  <2>3. slots[i].name = name
    BY <2>2 DEF Slot
  <2> SUFFICES ASSUME NEW j \in ToSet(Read(<<name, "variables">>)) PROVE j = i
    BY <1>2, <2>3 DEF Merged, CompiledVariablesFile
  <2>4. j \in 1..Len(slots)
    BY VariablesTexts
  <2>5. CASE slots[j] = Slot("job", name, "variables")
    BY <2>2, <2>4, <2>5 DEF Alone, Alike, RoundInv, Document
  <2>6. CASE name = "build" /\ slots[j] = Slot("job", "Build", "variables")
    <3>1. slots[j].name = "Build"
      BY <2>6 DEF Slot
    <3>2. Alike(i, j)
      BY <2>3, <2>6, <3>1 DEF Alike
    <3> QED BY <2>4, <3>2 DEF Alone, RoundInv, Document
  <2>7. CASE name = "global" /\ slots[j] = Root
    <3>1. FileOf(slots[i]) = <<"global", "variables">>
      BY <2>2, <2>7, JobFiles DEF JobKeys
    <3>2. i \in Writers(<<"global", "variables">>)
      BY <2>1, <3>1 DEF Writers, Extracted, RoundInv, Document
    <3>3. i <= j
      BY <2>7, <3>2, VariablesTexts
    <3>4. j = 1
      BY <2>4, <2>7 DEF RoundInv, Document
    <3> QED BY <3>3, <3>4
  <2> QED BY <2>5, <2>6, <2>7, VariablesTexts
<1> QED BY <1>1, <1>2

LEMMA DocumentKeepsItsVariables ==
  ASSUME RoundInv, visiting = Len(slots) + 1, NoJobGlobal,
         NEW j \in ToSet(Read(<<"global", "variables">>))
  PROVE  slots[j].place = "root"
<1>1. j \in 1..Len(slots) /\ (slots[j] = GlobalJob \/ slots[j] = Root)
  BY VariablesTexts DEF GlobalJob, JobNames
<1>2. slots[j] # GlobalJob
  BY <1>1 DEF NoJobGlobal, GlobalJob, RoundInv, Document
<1> QED BY <1>1, <1>2 DEF Root, Slot
LEMMA RoundStarts == RoundInit => RoundInv /\ RoundTripKeeps
<1> SUFFICES ASSUME RoundInit PROVE RoundInv /\ RoundTripKeeps
  OBVIOUS
<1> USE DEF RoundInit
<1>1. Document /\ Progress
  BY DEF Document, Progress
<1>2. CallsOfTheVisited
  BY DEF CallsOfTheVisited
<1>3. LastWrites
  BY DEF LastWrites, Writers
<1> QED BY <1>1, <1>2, <1>3 DEF RoundInv, RoundTripKeeps

LEMMA SlotsAreWritten ==
  ASSUME RoundInv, NEW s \in SlotsOf(platform), WriteSlot(s)
  PROVE  RoundInv'
<1> USE DEF WriteSlot
<1>1. Len(slots') = Len(slots) + 1 /\ \A i \in 1..Len(slots') : slots'[i] = IF i <= Len(slots) THEN slots[i] ELSE s
  BY DEF RoundInv, Document
<1>3. Document'
  <2>1. slots' \in Seq(SlotsOf(platform')) /\ platform' \in Targets6
    BY DEF RoundInv, Document
  <2>2. \A i \in 1..Len(slots') : slots'[i] = Root => i = 1
    BY <1>1 DEF RoundInv, Document, Root
  <2> QED BY <2>1, <2>2 DEF Document
<1>4. Progress'
  BY <1>1 DEF RoundInv, Document, Progress
<1>5. CallsOfTheVisited'
  <2>1. visiting = 1 /\ visiting' = 1
    BY DEF RoundInv, Progress
  <2>2. callOf = [i \in 1..Len(slots) |-> NoFile]
    BY <2>1 DEF RoundInv, CallsOfTheVisited, CalledFile
  <2>3. callOf' = [i \in 1..(Len(slots) + 1) |-> NoFile]
    BY <2>2 DEF RoundInv, Document
  <2> QED BY <1>1, <2>1, <2>3 DEF CallsOfTheVisited, CalledFile
<1>6. LastWrites'
  <2>1. \A file : Writers(file) = {} /\ Writers(file)' = {}
    BY DEF Writers, RoundInv, Progress
  <2> QED BY <2>1 DEF RoundInv, LastWrites
<1> QED BY <1>3, <1>4, <1>5, <1>6 DEF RoundInv

LEMMA SlotsAreVisited ==
  ASSUME RoundInv, DecompileSlot
  PROVE  RoundInv'
<1> DEFINE s == slots[visiting]
<1> USE DEF DecompileSlot
<1>1. /\ visiting \in 1..Len(slots) /\ visiting' = visiting + 1
      /\ s \in SlotsOf(platform) /\ platform \in Targets6
      /\ slots' = slots /\ platform' = platform
  BY DEF RoundInv, Document, Progress
<1>2. Document' /\ Progress'
  BY <1>1 DEF RoundInv, Document, Progress
<1>3. FileOf(s) \in FileNames /\ (IsVariables(s) => s.place # "object")
  BY <1>1, FilesHaveNames, VariablesOfJobs
<1>4. PICK v : v = visiting
  OBVIOUS
<1>5. CallsOfTheVisited'
  <2>1. callOf = [i \in 1..Len(slots) |-> CalledFile(i)]
    BY DEF RoundInv, CallsOfTheVisited
  <2>2. ASSUME NEW i \in 1..Len(slots), i # v
        PROVE  CalledFile(i)' = CalledFile(i)
    <3>1. i < visiting' <=> i < visiting
      BY <1>1, <1>4, <2>2 DEF RoundInv, Document
    <3> QED BY <1>1, <3>1 DEF CalledFile
  <2>3. CalledFile(v)' = IF ~ IsVariables(s) /\ s.place \in Entries(platform) THEN FileOf(s) ELSE NoFile
    BY <1>1, <1>4 DEF CalledFile
  <2>4. CalledFile(v) = NoFile
    BY <1>1, <1>4 DEF CalledFile
  <2>5. callOf' = [callOf EXCEPT ![v] = CalledFile(v)']
    <3>1. CASE IsVariables(s) \/ s.place \notin Entries(platform)
      <4>1. callOf' = callOf
        BY <3>1 DEF ExtractVariables
      <4> QED BY <1>1, <1>4, <2>1, <2>3, <2>4, <3>1, <4>1
    <3>2. CASE ~ IsVariables(s) /\ s.place \in Entries(platform)
      BY <1>4, <2>3, <3>2 DEF ExtractScript
    <3> QED BY <3>1, <3>2
  <2>6. callOf' = [i \in 1..Len(slots) |-> IF i = v THEN CalledFile(v)' ELSE CalledFile(i)]
    BY <1>1, <1>4, <2>1, <2>5
  <2>7. callOf' = [i \in 1..Len(slots) |-> CalledFile(i)']
    BY <2>2, <2>6
  <2> QED BY <1>1, <2>7 DEF CallsOfTheVisited
<1>6. LastWrites'
  <2>1. ASSUME NEW file
        PROVE  Writers(file)' = IF Extracted(s, platform) /\ FileOf(s) = file
                                THEN Writers(file) \cup {v} ELSE Writers(file)
    BY <1>1, <1>4 DEF Writers
  <2>2. CASE ~ Extracted(s, platform)
    <3>1. fileText' = fileText
      BY <1>1, <2>2 DEF Extracted
    <3>2. \A file : Writers(file)' = Writers(file)
      BY <2>1, <2>2
    <3>3. \A i : TextOf(i)' = TextOf(i)
      BY <1>1 DEF TextOf
    <3> QED BY <3>1, <3>2, <3>3 DEF RoundInv, LastWrites
  <2>3. CASE Extracted(s, platform)
    <3>1. fileText' = [fileText EXCEPT ![FileOf(s)] = TextOf(v)]
      BY <1>3, <1>4, <2>3 DEF Extracted, ExtractVariables, ExtractScript, TextOf
    <3>2. DOMAIN fileText' = FileNames
      BY <3>1 DEF RoundInv, LastWrites
    <3>3. \A i : TextOf(i)' = TextOf(i)
      BY <1>1 DEF TextOf
    <3>4. ASSUME NEW file \in FileNames
          PROVE  \/ Writers(file)' = {} /\ fileText'[file] = Nothing
                 \/ \E i \in Writers(file)' :
                      fileText'[file] = TextOf(i)' /\ \A j \in Writers(file)' : j <= i
      <4>1. CASE file = FileOf(s)
        <5>1. fileText'[file] = TextOf(v)'
          BY <3>1, <3>3, <4>1 DEF RoundInv, LastWrites
        <5>2. v \in Writers(file)' /\ \A j \in Writers(file)' : j <= v
          BY <1>1, <1>4, <2>1, <2>3, <4>1 DEF Writers
        <5> QED BY <5>1, <5>2
      <4>2. CASE file # FileOf(s)
        <5>1. fileText'[file] = fileText[file] /\ Writers(file)' = Writers(file)
          BY <2>1, <3>1, <4>2 DEF RoundInv, LastWrites
        <5> QED BY <3>3, <5>1 DEF RoundInv, LastWrites
      <4> QED BY <4>1, <4>2
    <3> QED BY <3>2, <3>4 DEF LastWrites
  <2> QED BY <2>2, <2>3
<1> QED BY <1>2, <1>5, <1>6 DEF RoundInv

LEMMA CompiledDocumentKeeps ==
  ASSUME RoundInv, Compile
  PROVE  RoundTripKeeps'
<1> USE DEF Compile
<1>1. visiting = Len(slots) + 1 /\ DOMAIN slots = 1..Len(slots)
  BY DEF RoundInv, Progress, Document
<1>2. ASSUME NEW i \in DOMAIN slots, Alone(i)
      PROVE  /\ runsOf'[i] = <<i>> \/ slots[i].place \in {"anchored", "object"}
             /\ heldBy'[i] \subseteq {i}
  <2>1. runsOf'[i] = CompiledRun(i) /\ heldBy'[i] = IF IsVariables(slots[i]) THEN Merged(i) ELSE {}
    OBVIOUS
  <2> QED BY <1>1, <1>2, <2>1, ScriptsComeBack, VariablesStay
<1>3. ASSUME NoJobGlobal, NEW i \in heldByRoot'
      PROVE  slots[i].place = "root"
  <2>1. CASE i \in ToSet(Read(<<"global", "variables">>))
    BY <1>1, <1>3, <2>1, DocumentKeepsItsVariables
  <2>2. CASE i \in {j \in DOMAIN slots : slots[j] = Slot("root", "root", "variables")}
    BY <2>2 DEF Slot
  <2> QED BY <2>1, <2>2
<1> QED BY <1>2, <1>3 DEF RoundTripKeeps, Alone, Alike, NoJobGlobal

LEMMA RoundInvariant == RoundSpec => [](RoundInv /\ RoundTripKeeps)
<1>1. RoundInit => RoundInv /\ RoundTripKeeps
  BY RoundStarts
<1>2. RoundInv /\ RoundTripKeeps /\ [RoundNext]_roundVars => (RoundInv /\ RoundTripKeeps)'
  <2> SUFFICES ASSUME RoundInv, RoundTripKeeps, [RoundNext]_roundVars
               PROVE  RoundInv' /\ RoundTripKeeps'
    OBVIOUS
  <2> DEFINE DocumentStays == UNCHANGED <<platform, slots, visiting, callOf, fileText>>
  <2>1. ASSUME DocumentStays PROVE Document' /\ CallsOfTheVisited' /\ LastWrites'
    BY <2>1 DEF RoundInv, Document, CallsOfTheVisited, CalledFile, LastWrites, Writers, TextOf
  <2>2. ASSUME NEW s \in SlotsOf(platform), WriteSlot(s) PROVE RoundInv' /\ RoundTripKeeps'
    BY <2>2, SlotsAreWritten DEF WriteSlot, RoundTripKeeps
  <2>3. CASE StartDecompile
    BY <2>1, <2>3 DEF StartDecompile, RoundInv, Progress, RoundTripKeeps
  <2>4. CASE DecompileSlot
    BY <2>4, SlotsAreVisited DEF DecompileSlot, RoundTripKeeps
  <2>5. CASE EndDecompile
    BY <2>1, <2>5 DEF EndDecompile, RoundInv, Progress, RoundTripKeeps, Document
  <2>6. CASE Compile
    BY <2>1, <2>6, CompiledDocumentKeeps DEF Compile, RoundInv, Progress
  <2>7. CASE UNCHANGED roundVars
    BY <2>1, <2>7 DEF roundVars, RoundInv, Progress, RoundTripKeeps, Alone, Alike, NoJobGlobal
  <2> QED BY <2>2, <2>3, <2>4, <2>5, <2>6, <2>7 DEF RoundNext
<1> QED BY <1>1, <1>2, PTL DEF RoundSpec

\* Where decompile has written a document and compile reads it, every script and
\* every variables block is back in its place, in documents of any length, if no
\* two jobs and no two steps of a job have names alike (commands/decompile_all.py,
\* commands/compile_all.py).
THEOREM DocumentsComeBack == RoundSpec => []RoundTripKeeps
BY RoundInvariant, PTL
=============================================================================
