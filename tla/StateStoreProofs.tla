-------------------------- MODULE StateStoreProofs --------------------------
(***************************************************************************)
(* Theorems about StateStore, for every set of writers, keys and digests   *)
(* and any number of shreds: its types, and, where shred is quiet, that it *)
(* implements HashRecords.                                                 *)
(***************************************************************************)
EXTENDS StateStore, TLAPS

\* Merging and reading give records.
LEMMA MergeType ==
  ASSUME NEW old \in Partial, NEW update \in Partial
  PROVE  Merge(old, update) \in Partial
BY DEF Partial, Merge

LEMMA ReadType ==
  ASSUME TypeOK
  PROVE  _read_state \in Partial
BY DEF TypeOK, _read_state, Partial, Nothing

LEMMA NothingType == Nothing \in Partial
BY DEF Partial, Nothing

LEMMA InitTypes == Init => TypeOK
<1> SUFFICES ASSUME Init PROVE TypeOK
  OBVIOUS
<1>1. /\ state \in Partial \cup {NoFile} /\ legacy \in Partial \cup {NoFile}
      /\ lockFile \in Nat \cup {NoFile} /\ created \in Nat
  BY DEF Init
<1>2. copy \in [Writers -> Partial] /\ updates \in [Writers -> Partial]
  BY NothingType DEF Init
<1>3. /\ pc \in [Writers -> {"idle", "opened", "locked", "read"}]
      /\ opened \in [Writers -> Nat \cup {NoFile}]
      /\ cache \in [Writers -> Partial \cup {NoFile}]
  BY DEF Init
<1>4. shredding \in BOOLEAN /\ left \in SUBSET Files
  BY DEF Init
<1>5. shreds \in 0..MaxShreds
  <2>1. MaxShreds \in Nat
    BY StoreAssumption
  <2> QED
    BY <2>1 DEF Init
<1> QED
  BY <1>1, <1>2, <1>3, <1>4, <1>5 DEF TypeOK

LEMMA StepTypes ==
  ASSUME TypeOK, [Next]_vars
  PROVE  TypeOK'
<1> USE DEF TypeOK
<1>1. ASSUME NEW w \in Writers, NEW k \in Keys, NEW d \in Digests, record_hash(w, k, d)
      PROVE  TypeOK'
  <2> DEFINE loaded == IF cache[w] = NoFile THEN _read_state ELSE cache[w]
  <2>1. loaded \in Partial
    BY ReadType
  <2>2. [loaded EXCEPT ![k] = d] \in Partial
    BY <2>1 DEF Partial
  <2>3. cache' = [cache EXCEPT ![w] = [loaded EXCEPT ![k] = d]]
    BY <1>1 DEF record_hash
  <2>4. cache' \in [Writers -> Partial \cup {NoFile}]
    BY <2>2, <2>3
  <2>5. updates' \in [Writers -> Partial]
    BY <1>1 DEF record_hash, Partial
  <2> QED
    BY <1>1, <2>4, <2>5 DEF record_hash, files, shredVars
<1>2. ASSUME NEW w \in Writers, OpenLock(w)
      PROVE  TypeOK'
  BY <1>2 DEF OpenLock, shredVars
<1>3. ASSUME NEW w \in Writers, TakeLock(w)
      PROVE  TypeOK'
  BY <1>3 DEF TakeLock, files, shredVars
<1>4. ASSUME NEW w \in Writers, ReadState(w)
      PROVE  TypeOK'
  BY <1>4, ReadType DEF ReadState, files, shredVars
<1>5. ASSUME NEW w \in Writers, WriteState(w)
      PROVE  TypeOK'
  BY <1>5, MergeType, NothingType DEF WriteState, shredVars
<1>6. ASSUME NEW w \in Writers, SaveFails(w)
      PROVE  TypeOK'
  BY <1>6, NothingType DEF SaveFails, files, shredVars
<1>7. ASSUME NEW w \in Writers, Die(w)
      PROVE  TypeOK'
  BY <1>7, NothingType DEF Die, files, shredVars
<1>8. CASE StartShred
  BY <1>8, StoreAssumption DEF StartShred, Existing, files, memory
<1>9. CASE EndShred
  BY <1>9 DEF EndShred, files, memory
<1>10. ASSUME NEW x \in Files, RemoveFile(x)
       PROVE  TypeOK'
  BY <1>10 DEF RemoveFile, memory
<1>11. CASE UNCHANGED vars
  BY <1>11 DEF vars, files, memory, shredVars
<1> QED
  BY <1>1, <1>2, <1>3, <1>4, <1>5, <1>6, <1>7, <1>8, <1>9, <1>10, <1>11 DEF Next

\* Every variable of the store keeps its type.
THEOREM StoreTypes == Spec => []TypeOK
<1> QED
  BY InitTypes, StepTypes, PTL DEF Spec

(***************************************************************************)
(* The lock                                                                *)
(***************************************************************************)

\* While saves are under way nobody shreds, and all of them have the one
\* lock file open that the directory has.
OneLock ==
  \A w \in Writers : pc[w] # "idle" =>
    ~ shredding /\ lockFile # NoFile /\ opened[w] = lockFile

\* One writer at a time is in the critical section of _save.
Exclusive ==
  \A v, w \in Writers :
    pc[v] \in {"locked", "read"} /\ pc[w] \in {"locked", "read"} => v = w

\* What a writer has read is still what is there.
FreshCopy == \A w \in Writers : pc[w] = "read" => copy[w] = _read_state

\* Shred has listed every file there is.
ShredListed ==
  /\ left # {} => shredding
  /\ shredding => /\ state # NoFile => "state" \in left
                  /\ legacy # NoFile => "legacy" \in left

StoreInv == OneLock /\ Exclusive /\ FreshCopy /\ ShredListed

LEMMA InitStore == Init => StoreInv
BY DEF Init, StoreInv, OneLock, Exclusive, FreshCopy, ShredListed

\* A writer that goes to rest, or stays there, leaves the others alone.
LEMMA RestKeepsInv ==
  ASSUME TypeOK, StoreInv, NEW w \in Writers,
         pc' = [pc EXCEPT ![w] = "idle"],
         opened' = [opened EXCEPT ![w] = NoFile], copy' = [copy EXCEPT ![w] = Nothing],
         UNCHANGED <<files, shredVars>>
  PROVE  StoreInv'
<1> USE DEF TypeOK, files, shredVars
<1>1. OneLock'
  BY DEF StoreInv, OneLock
<1>2. Exclusive'
  BY DEF StoreInv, Exclusive
<1>3. FreshCopy'
  BY DEF StoreInv, FreshCopy, _read_state
<1>4. ShredListed'
  BY DEF StoreInv, ShredListed
<1> QED
  BY <1>1, <1>2, <1>3, <1>4 DEF StoreInv

LEMMA StepStore ==
  ASSUME QuietShred, TypeOK, StoreInv, [Next]_vars
  PROVE  StoreInv'
<1> USE DEF TypeOK
<1>1. ASSUME NEW w \in Writers, NEW k \in Keys, NEW d \in Digests, record_hash(w, k, d)
      PROVE  StoreInv'
  BY <1>1 DEF record_hash, StoreInv, OneLock, Exclusive, FreshCopy, ShredListed,
              _read_state, files, shredVars
<1>2. ASSUME NEW w \in Writers, OpenLock(w)
      PROVE  StoreInv'
  <2>1. OneLock'
    <3>1. ~ shredding' /\ lockFile' # NoFile /\ opened'[w] = lockFile'
      BY <1>2, StoreAssumption DEF OpenLock, shredVars
    <3>2. ASSUME NEW v \in Writers, v # w, pc'[v] # "idle"
          PROVE  lockFile' = lockFile /\ opened'[v] = lockFile'
      BY <1>2, <3>2 DEF OpenLock, StoreInv, OneLock
    <3> QED
      BY <3>1, <3>2 DEF OneLock
  <2>2. Exclusive' /\ FreshCopy' /\ ShredListed'
    BY <1>2 DEF OpenLock, StoreInv, Exclusive, FreshCopy, ShredListed, _read_state, shredVars
  <2> QED
    BY <2>1, <2>2 DEF StoreInv
<1>3. ASSUME NEW w \in Writers, TakeLock(w)
      PROVE  StoreInv'
  <2>1. Exclusive'
    <3>1. \A v \in Writers : pc[v] \notin {"locked", "read"}
      BY <1>3 DEF TakeLock, StoreInv, OneLock
    <3> QED
      BY <1>3, <3>1 DEF TakeLock, Exclusive
  <2>2. OneLock' /\ FreshCopy' /\ ShredListed'
    BY <1>3 DEF TakeLock, StoreInv, OneLock, FreshCopy, ShredListed, _read_state,
                files, shredVars
  <2> QED
    BY <2>1, <2>2 DEF StoreInv
<1>4. ASSUME NEW w \in Writers, ReadState(w)
      PROVE  StoreInv'
  <2>1. UNCHANGED <<_read_state, files, shredVars>>
    BY <1>4 DEF ReadState, files, _read_state
  <2>2. OneLock' /\ Exclusive' /\ ShredListed'
    BY <1>4 DEF ReadState, StoreInv, OneLock, Exclusive, ShredListed, files, shredVars
  <2>3. FreshCopy'
    BY <1>4, <2>1 DEF ReadState, StoreInv, FreshCopy
  <2> QED
    BY <2>2, <2>3 DEF StoreInv
<1>5. ASSUME NEW w \in Writers, WriteState(w)
      PROVE  StoreInv'
  <2>1. \A v \in Writers : v # w => pc'[v] # "read"
    BY <1>5 DEF WriteState, StoreInv, Exclusive
  <2>2. OneLock' /\ Exclusive' /\ FreshCopy'
    BY <1>5, <2>1 DEF WriteState, StoreInv, OneLock, Exclusive, FreshCopy, shredVars
  <2>3. ShredListed'
    BY <1>5 DEF WriteState, StoreInv, OneLock, ShredListed, shredVars
  <2> QED
    BY <2>2, <2>3 DEF StoreInv
<1>6. ASSUME NEW w \in Writers, SaveFails(w) \/ Die(w)
      PROVE  StoreInv'
  <2>1. /\ pc' = [pc EXCEPT ![w] = "idle"]
        /\ opened' = [opened EXCEPT ![w] = NoFile] /\ copy' = [copy EXCEPT ![w] = Nothing]
        /\ UNCHANGED <<files, shredVars>>
    BY <1>6 DEF SaveFails, Die
  <2> QED
    BY <2>1, RestKeepsInv
<1>7. CASE StartShred
  BY <1>7 DEF StartShred, Existing, StoreInv, OneLock, Exclusive, FreshCopy, ShredListed,
              files, memory, Files
<1>8. CASE EndShred
  BY <1>8 DEF EndShred, StoreInv, OneLock, Exclusive, FreshCopy, ShredListed,
              _read_state, files, memory
<1>9. ASSUME NEW x \in Files, RemoveFile(x)
      PROVE  StoreInv'
  <2>1. shredding /\ \A w \in Writers : pc[w] = "idle"
    BY <1>9 DEF RemoveFile, StoreInv, OneLock, ShredListed
  <2> QED
    BY <1>9, <2>1 DEF RemoveFile, StoreInv, OneLock, Exclusive, FreshCopy, ShredListed, memory
<1>10. CASE UNCHANGED vars
  BY <1>10 DEF StoreInv, OneLock, Exclusive, FreshCopy, ShredListed, _read_state,
               vars, files, memory, shredVars
<1> QED
  BY <1>1, <1>2, <1>3, <1>4, <1>5, <1>6, <1>7, <1>8, <1>9, <1>10 DEF Next

\* Where shred and save are never under way at once, a save excludes the
\* others and writes over what it has read.
THEOREM QuietStoreIsLocked ==
  ASSUME QuietShred
  PROVE  Spec => []StoreInv
<1>1. TypeOK /\ StoreInv /\ [Next]_vars => StoreInv'
  BY StepStore
<1> QED
  BY <1>1, InitStore, StoreTypes, PTL DEF Spec

(***************************************************************************)
(* Records of others                                                       *)
(***************************************************************************)

\* A step in which a writer's save ends is that writer's.
LEMMA OnlyTheWriterEnds ==
  ASSUME TypeOK, [Next]_vars, NEW w \in Writers, pc[w] = "read", pc'[w] = "idle"
  PROVE  WriteState(w) \/ SaveFails(w) \/ Die(w)
<1>1. pc' # pc
  OBVIOUS
<1>2. PICK v \in Writers : \/ OpenLock(v) \/ TakeLock(v) \/ ReadState(v) \/ WriteState(v)
                           \/ SaveFails(v) \/ Die(v)
  BY <1>1 DEF Next, record_hash, StartShred, EndShred, RemoveFile, memory, vars
<1>3. \E where \in {"idle", "opened", "locked", "read"} :
        /\ pc' = [pc EXCEPT ![v] = where]
        /\ where = "idle" => WriteState(v) \/ SaveFails(v) \/ Die(v)
  BY <1>2 DEF OpenLock, TakeLock, ReadState, WriteState, SaveFails, Die
<1> QED
  BY <1>3 DEF TypeOK

\* A save discards no record of another process, for any number of writers,
\* failures and deaths, where no shred overlaps it (the merge under the lock
\* in StateStore._save).
THEOREM OthersRecordsSurvive ==
  ASSUME QuietShred
  PROVE  Spec => SavesKeepOthers
<1> DEFINE Kept == \A w \in Writers, k \in Keys :
                     /\ pc[w] = "read" /\ pc'[w] = "idle"
                     /\ updates[w][k] = None /\ _read_state[k] # None
                     => _read_state'[k] = _read_state[k]
<1>1. ASSUME TypeOK, StoreInv, [Next]_vars, NEW w \in Writers, NEW k \in Keys,
             pc[w] = "read", pc'[w] = "idle", updates[w][k] = None
      PROVE  _read_state'[k] = _read_state[k]
  <2>1. CASE WriteState(w)
    <3>1. copy[w] = _read_state
      BY <1>1 DEF StoreInv, FreshCopy
    <3>2. state' = Merge(copy[w], updates[w]) /\ state' # NoFile
      BY <2>1, MergeType, StoreAssumption, <1>1 DEF WriteState, TypeOK
    <3>3. _read_state' = Merge(_read_state, updates[w])
      BY <3>1, <3>2 DEF _read_state
    <3> QED
      BY <1>1, <3>3 DEF Merge
  <2>2. CASE SaveFails(w) \/ Die(w)
    BY <2>2 DEF SaveFails, Die, _read_state, files
  <2> QED
    BY <1>1, <2>1, <2>2, OnlyTheWriterEnds
<1>2. TypeOK /\ StoreInv /\ [Next]_vars => [Kept]_vars
  BY <1>1
<1> QED
  BY <1>2, StoreTypes, QuietStoreIsLocked, PTL DEF Spec, SavesKeepOthers

(***************************************************************************)
(* Refinement                                                              *)
(***************************************************************************)

LEMMA InitRefines == ASSUME TypeOK, Init PROVE Promise!Init
BY ReadType DEF Init, Promise!Init, Promise!Partial, Promise!Nothing, Partial, Nothing

LEMMA StepRefines ==
  ASSUME TypeOK, TypeOK', StoreInv, [Next]_vars
  PROVE  [Promise!Next]_<<IF shredding THEN Nothing ELSE _read_state, updates>>
<1> DEFINE shown == IF shredding THEN Nothing ELSE _read_state
<1>1. ASSUME NEW w \in Writers, NEW k \in Keys, NEW d \in Digests, record_hash(w, k, d)
      PROVE  Promise!Record(w, k, d)
  BY <1>1 DEF record_hash, Promise!Record, _read_state, files, shredVars
<1>2. ASSUME NEW w \in Writers,
             OpenLock(w) \/ TakeLock(w) \/ ReadState(w) \/ SaveFails(w)
      PROVE  UNCHANGED <<shown, updates>>
  BY <1>2 DEF OpenLock, TakeLock, ReadState, SaveFails, _read_state, files, shredVars
<1>3. ASSUME NEW w \in Writers, WriteState(w)
      PROVE  Promise!Save(w)
  <2>1. ~ shredding /\ ~ shredding' /\ copy[w] = _read_state
    BY <1>3 DEF WriteState, StoreInv, OneLock, FreshCopy, shredVars
  <2>2. state' \in Partial /\ state' # NoFile
    BY <1>3, MergeType, StoreAssumption DEF WriteState, TypeOK
  <2>3. _read_state' = Merge(_read_state, updates[w])
    BY <1>3, <2>1, <2>2 DEF WriteState, _read_state
  <2>4. updates' = [updates EXCEPT ![w] = Nothing]
    BY <1>3 DEF WriteState
  <2> QED
    BY <2>1, <2>3, <2>4 DEF Promise!Save, Promise!Merge, Merge, Promise!Nothing, Nothing
<1>4. ASSUME NEW w \in Writers, Die(w)
      PROVE  Promise!Die(w)
  BY <1>4 DEF Die, Promise!Die, Promise!Nothing, Nothing, _read_state, files, shredVars
<1>5. CASE StartShred
  <2>1. Promise!Shred
    BY <1>5 DEF StartShred, Promise!Shred, Promise!Nothing, Nothing, memory
  <2> QED
    BY <2>1 DEF Promise!Next
<1>6. CASE EndShred
  <2>1. _read_state' = Nothing
    BY <1>6 DEF EndShred, StoreInv, ShredListed, _read_state, files
  <2>2. UNCHANGED <<shown, updates>>
    BY <1>6, <2>1 DEF EndShred, memory
  <2> QED
    BY <2>2
<1>7. ASSUME NEW x \in Files, RemoveFile(x)
      PROVE  UNCHANGED <<shown, updates>>
  BY <1>7 DEF RemoveFile, StoreInv, ShredListed, memory
<1>8. CASE UNCHANGED vars
  BY <1>8 DEF vars, files, memory, shredVars, _read_state
<1> QED
  BY <1>1, <1>2, <1>3, <1>4, <1>5, <1>6, <1>7, <1>8 DEF Next, Promise!Next

\* Where shred and save are never under way at once, the store keeps its
\* promise: a save is atomic and no writer's record is lost (StateStore._save).
THEOREM SavesAreAtomicWhenQuiet ==
  ASSUME QuietShred
  PROVE  Spec => SavesAreAtomic
<1>1. Spec => []StoreInv
  BY QuietStoreIsLocked
<1>2. TypeOK /\ Init => Promise!Init
  BY InitRefines
<1>3. TypeOK /\ TypeOK' /\ StoreInv /\ [Next]_vars =>
        [Promise!Next]_<<IF shredding THEN Nothing ELSE _read_state, updates>>
  BY StepRefines
<1> QED
  BY <1>1, <1>2, <1>3, StoreTypes, PTL DEF Spec, SavesAreAtomic, Promise!Spec
=============================================================================
