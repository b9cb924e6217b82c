------------------------------ MODULE Validation ------------------------------
(***************************************************************************)
(* validate (commands/validate_all.py): every file of a directory is       *)
(* judged by the JSON schema of its platform, one file after another or,   *)
(* for many files, in a pool of processes.  The validators of              *)
(* utils/validate_pipeline*.py look for a schema in a cache file that all  *)
(* processes share, on the network, and in the package, in this order.     *)
(***************************************************************************)
EXTENDS Naturals

CONSTANTS
  NumFiles,   \* the files of the largest directory
  MaxSerial   \* up to so many files are judged one after another, 5 in the code

VARIABLES
  directory, \* the platform of --target, and the number of files
  schemas,   \* the cache file of the two platforms
  network,   \* whether the schema can be fetched
  task,      \* where the validation of each file is
  verdicts,  \* what was found
  validated, \* what the command returned
  unsaved    \* history: a schema could not be saved, or a saved one grew too old

validateVars == <<directory, schemas, network, task, verdicts, validated, unsaved>>

ASSUME ValidationAssumption == NumFiles \in Nat /\ MaxSerial \in Nat

Platforms == {"gitlab", "github"}
GivenFiles == 1..directory.files
Pool == directory.files > MaxSerial

\* A cache file is absent, complete, more than seven days old, or cut off: within a
\* character of several bytes it is garbled, and otherwise a part.
CacheFiles == {"none", "whole", "old", "part", "garbled"}

\* Before it starts the pool the command fetches the schema of GitLab once, so
\* that the cache is filled: this is task 0.
Prime == 0
AllFiles == Prime..NumFiles

ValidationTypeOK ==
  /\ directory \in [platform : Platforms, files : 0..NumFiles]
  /\ schemas \in [Platforms -> CacheFiles]
  /\ network \in BOOLEAN /\ unsaved \in BOOLEAN
  /\ task \in [AllFiles -> {"waiting", "load", "fetch", "truncate", "write", "judge", "done"}]
  /\ verdicts \in [AllFiles -> {"none", "valid", "invalid", "no schema"}]
  /\ validated \in {"none yet", "zero", "one", "raised", "killed"}

ValidationInit ==
  /\ directory \in [platform : Platforms, files : 0..NumFiles]
  /\ schemas \in [Platforms -> {"none", "old", "whole"}]
  /\ network \in BOOLEAN /\ unsaved = FALSE
  /\ task = [f \in AllFiles |-> "waiting"] /\ verdicts = [f \in AllFiles |-> "none"]
  /\ validated = "none yet"

Running == validated = "none yet"

NetworkChanges ==
  /\ Running /\ network' = ~ network
  /\ UNCHANGED <<directory, schemas, task, verdicts, validated, unsaved>>
CacheAges(p) ==
  /\ Running /\ schemas[p] \in {"whole", "garbled"}
  /\ schemas' = [schemas EXCEPT ![p] = "old"]
  /\ unsaved' = (unsaved \/ schemas[p] = "whole")
  /\ UNCHANGED <<directory, network, task, verdicts, validated>>

----
(* One file *)

\* run_validate_all submits validate_single_file to the pool without the target.
Judges(f) == IF Pool THEN "gitlab" ELSE directory.platform

Moves(f, stage) == task' = [task EXCEPT ![f] = stage] /\ UNCHANGED <<verdicts, validated>>
Stands(f, stage) == Running /\ task[f] = stage

\* Mutation of May: the pool is started with the command.
MayUnprimed(f) ==
  IF Pool THEN f \in AllFiles ELSE f \in GivenFiles /\ \A g \in 1..(f - 1) : task[g] = "done"

May(f) == IF Pool THEN f = Prime \/ (f \in GivenFiles /\ task[Prime] = "done")
          ELSE f \in GivenFiles /\ \A g \in 1..(f - 1) : task[g] = "done"

Ends(f, found) ==
  task' = [task EXCEPT ![f] = "done"] /\ verdicts' = [verdicts EXCEPT ![f] = found]

\* Any other exception of get_schema than those it expects: the file is turned
\* down, and where the cache was to be filled the command raises.
GetSchemaRaises(f) ==
  Ends(f, "no schema") /\ validated' = IF f = Prime THEN "raised" ELSE validated

\* validate_single_file; a file that cannot be read or parsed is invalid, one
\* that carries the pragma do-not-validate-schema valid.
StartFile(f) ==
  /\ Stands(f, "waiting") /\ May(f)
  /\ \/ Moves(f, "load")
     \/ f # Prime /\ UNCHANGED validated /\ \E found \in {"valid", "invalid"} : Ends(f, found)
  /\ UNCHANGED <<directory, schemas, network, unsaved>>

\* _load_schema_from_cache: a part of a schema is no JSON and is passed over, a
\* garbled one is no text, which is not expected.
LoadCache(f) ==
  /\ Stands(f, "load")
  /\ CASE schemas[Judges(f)] = "whole" -> Moves(f, "judge")
       [] schemas[Judges(f)] = "garbled" -> GetSchemaRaises(f)
       [] OTHER -> Moves(f, "fetch")
  /\ UNCHANGED <<directory, schemas, network, unsaved>>

\* _fetch_schema_from_url, else _load_fallback_schema.  Only the validator of
\* GitLab saves the fallback to the cache.
FetchSchema(f) ==
  /\ Stands(f, "fetch")
  /\ Moves(f, IF network \/ Judges(f) = "gitlab" THEN "truncate" ELSE "judge")
  /\ UNCHANGED <<directory, schemas, network, unsaved>>

\* The connection breaks off within the answer: IncompleteRead is not expected.
FetchBreaksOff(f) ==
  /\ Stands(f, "fetch") /\ network /\ GetSchemaRaises(f)
  /\ UNCHANGED <<directory, schemas, network, unsaved>>

\* _save_schema_to_cache: the file is opened and emptied, and written piece by
\* piece; an I/O error on the way is a warning.
OpenCache(f) ==
  /\ Stands(f, "truncate") /\ Moves(f, "write")
  /\ schemas' = [schemas EXCEPT ![Judges(f)] = "part"]
  /\ UNCHANGED <<directory, network, unsaved>>
WritePiece(f) ==
  /\ Stands(f, "write")
  /\ \E cut \in {"part", "garbled"} : schemas' = [schemas EXCEPT ![Judges(f)] = cut]
  /\ UNCHANGED <<directory, network, task, verdicts, validated, unsaved>>
WriteCache(f) ==
  /\ Stands(f, "write") /\ Moves(f, "judge")
  /\ schemas' = [schemas EXCEPT ![Judges(f)] = "whole"]
  /\ UNCHANGED <<directory, network, unsaved>>
CacheFails(f) ==
  /\ Stands(f, "truncate") \/ Stands(f, "write")
  /\ Moves(f, "judge") /\ unsaved' = TRUE
  /\ UNCHANGED <<directory, schemas, network>>

Judge(f) ==
  /\ Stands(f, "judge")
  /\ \E found \in IF f = Prime THEN {"none"} ELSE {"valid", "invalid"} : Ends(f, found)
  /\ UNCHANGED <<directory, schemas, network, validated, unsaved>>

----
(* The command *)

ReportFiles ==
  /\ Running /\ \A f \in GivenFiles : task[f] = "done"
  /\ validated' = IF \A f \in GivenFiles : verdicts[f] = "valid" THEN "zero" ELSE "one"
  /\ UNCHANGED <<directory, schemas, network, task, verdicts, unsaved>>

\* A kill leaves the cache as it is, and another run starts with it.  Workers that
\* outlive the command write to the cache only if it could not be saved.
ValidateKilled ==
  /\ Running /\ validated' = "killed"
  /\ UNCHANGED <<directory, schemas, network, task, verdicts, unsaved>>
ValidateAgain ==
  /\ validated \in {"raised", "killed"} /\ validated' = "none yet"
  /\ task' = [f \in AllFiles |-> "waiting"] /\ verdicts' = [f \in AllFiles |-> "none"]
  /\ UNCHANGED <<directory, schemas, network, unsaved>>

ValidationNext ==
  \/ NetworkChanges \/ ReportFiles \/ ValidateKilled \/ ValidateAgain
  \/ \E p \in Platforms : CacheAges(p)
  \/ \E f \in AllFiles : \/ StartFile(f) \/ LoadCache(f) \/ FetchSchema(f) \/ FetchBreaksOff(f)
                         \/ OpenCache(f) \/ WritePiece(f) \/ WriteCache(f) \/ CacheFails(f)
                         \/ Judge(f)

ValidationSpec == ValidationInit /\ [][ValidationNext]_validateVars

----
(* Properties *)

\* "prime the cache or we get n schema downloads and n attempts to save it to
\* disk" (run_validate_all): no worker of the pool fetches or saves a schema, and
\* none turns a file down because of the cache that a killed run has left, unless
\* this run or one before it could not save what it fetched, or the cache grew
\* too old in between.  Of a few files each does, and a garbled cache or an
\* answer that breaks off turns a valid file down.
PrimedCacheServesAll ==
  Pool /\ ~ unsaved =>
    \A f \in GivenFiles :
      task[f] \notin {"fetch", "truncate", "write"} /\ verdicts[f] # "no schema"
=============================================================================
