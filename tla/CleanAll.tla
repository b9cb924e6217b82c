------------------------------ MODULE CleanAll ------------------------------
(***************************************************************************)
(* `bash2yaml clean`: clean_targets lists the pairs of an output and its   *)
(* record, then takes them one at a time: compare, unlink the output,      *)
(* unlink the record.  It takes no lock, so a compile, a user or its own   *)
(* death may come between any two of these.                                *)
(***************************************************************************)
EXTENDS OutputTree

CONSTANT NoJob

VARIABLES
  cleanPc,  \* "idle", "scan", "unlinkOutput" or "unlinkHash"
  pairs,    \* the pairs listed and not yet looked at
  job       \* the pair being removed, with the text that was compared

cleanVars == <<cleanPc, pairs, job>>

Pairs == Templates \X {"new", "old"}

CleanTypeOK ==
  /\ cleanPc \in {"idle", "scan", "unlinkOutput", "unlinkHash"}
  /\ pairs \in SUBSET Pairs
  /\ job \in [pair : Pairs, text : Texts] \cup {NoJob}

CleanInit ==
  /\ cleanPc = "idle"
  /\ pairs = {}
  /\ job = NoJob

\* Both files of a pair exist when it is listed.
ListPairs ==
  /\ cleanPc = "idle"
  /\ pairs' = {pair \in Pairs : /\ out[pair[1]] # Absent
                                /\ pair[2] \in iter_hash_files_in_directory(pair[1])}
  /\ cleanPc' = "scan"
  /\ UNCHANGED <<job, treeVars>>

\* The record is read first; one that is gone or does not decode is skipped.
\* Only the exact recorded text is removed.
ComparePair(pair) ==
  /\ cleanPc = "scan"
  /\ pair \in pairs
  /\ pairs' = pairs \ {pair}
  /\ out[pair[1]] # Absent \/ RecordAt(pair[1], pair[2]) \notin Texts
  /\ IF /\ RecordAt(pair[1], pair[2]) \in Texts
        /\ is_target_unchanged(pair[1], pair[2])
     THEN /\ cleanPc' = "unlinkOutput"
          /\ job' = [pair |-> pair, text |-> out[pair[1]]]
     ELSE UNCHANGED <<cleanPc, job>>
  /\ UNCHANGED treeVars

\* The output went away after it was listed: reading it raises, clean dies.
OutputVanished(pair) ==
  /\ cleanPc = "scan"
  /\ pair \in pairs
  /\ out[pair[1]] = Absent
  /\ RecordAt(pair[1], pair[2]) \in Texts
  /\ cleanPc' = "idle"
  /\ pairs' = {}
  /\ UNCHANGED <<job, treeVars>>

\* An output that is already gone is logged, and its record left.
UnlinkOutput ==
  /\ cleanPc = "unlinkOutput"
  /\ LET f == job.pair[1] IN
     IF out[f] = Absent
     THEN /\ cleanPc' = "scan"
          /\ job' = NoJob
          /\ UNCHANGED out
     ELSE /\ out' = [out EXCEPT ![f] = Absent]
          /\ cleanPc' = "unlinkHash"
          /\ UNCHANGED job
  /\ UNCHANGED <<pairs, newHash, oldHash>>

\* Mutation of UnlinkHash: the record is looked for beside the output only.
UnlinkSiblingHash ==
  /\ cleanPc = "unlinkHash"
  /\ oldHash' = [oldHash EXCEPT ![job.pair[1]] = Absent]
  /\ cleanPc' = "scan"
  /\ job' = NoJob
  /\ UNCHANGED <<pairs, out, newHash>>

UnlinkHash ==
  /\ cleanPc = "unlinkHash"
  /\ LET f == job.pair[1] IN
     IF job.pair[2] = "new"
     THEN newHash' = [newHash EXCEPT ![f] = Absent] /\ UNCHANGED oldHash
     ELSE oldHash' = [oldHash EXCEPT ![f] = Absent] /\ UNCHANGED newHash
  /\ cleanPc' = "scan"
  /\ job' = NoJob
  /\ UNCHANGED <<pairs, out>>

CleanEnds ==
  /\ cleanPc = "scan"
  /\ pairs = {}
  /\ cleanPc' = "idle"
  /\ UNCHANGED <<pairs, job, treeVars>>

CleanCrash ==
  /\ cleanPc # "idle"
  /\ cleanPc' = "idle"
  /\ pairs' = {}
  /\ job' = NoJob
  /\ UNCHANGED treeVars

\* The steps after ListPairs.
CleanStep ==
  \/ \E pair \in Pairs : ComparePair(pair) \/ OutputVanished(pair)
  \/ UnlinkOutput \/ UnlinkHash \/ CleanEnds
=============================================================================
