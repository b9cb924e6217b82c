----------------------------- MODULE StateStore -----------------------------
(***************************************************************************)
(* The state directory of traceless mode (utils/state_store.py): writers   *)
(* in processes of their own keep a StateStore object each and save its    *)
(* updates into the shared state.json, under the lock file state.lock of   *)
(* the same directory.  `traceless shred` removes the whole directory.     *)
(*                                                                         *)
(* An operating-system lock belongs to the opened file, not to the path: a *)
(* lock file that is removed and created again is another lock.  The lock  *)
(* file's generation stands for its identity.                              *)
(***************************************************************************)
EXTENDS Naturals

CONSTANTS
  Writers, Keys, Digests,
  None,        \* no record for the key
  NoFile,      \* no such file
  QuietShred,  \* shred and save are never under way at once
  MaxShreds    \* bound of the model

VARIABLES
  state,       \* state.json: the records, or NoFile
  legacy,      \* hashes.json of an older release, or NoFile
  lockFile,    \* the generation of state.lock, or NoFile
  created,     \* how many generations there have been
  pc,          \* where each writer's save is
  opened,      \* the generation each writer has open
  copy,        \* the records each writer has read under the lock
  cache,       \* StateStore._hashes, or NoFile while not loaded
  updates,     \* StateStore._hash_updates
  shredding,   \* shred is under way
  left,        \* the files it has listed and not yet removed
  shreds       \* how many shreds there have been

files == <<state, legacy, lockFile, created>>
memory == <<pc, opened, copy, cache, updates>>
shredVars == <<shredding, left, shreds>>
vars == <<files, memory, shredVars>>

Files == {"state", "legacy", "lock"}

Nothing == [k \in Keys |-> None]
Partial == [Keys -> Digests \cup {None}]
Merge(old, update) == [k \in Keys |-> IF update[k] # None THEN update[k] ELSE old[k]]

ASSUME StoreAssumption ==
  /\ None \notin Digests
  /\ NoFile \notin Partial /\ NoFile \notin Nat
  /\ QuietShred \in BOOLEAN /\ MaxShreds \in Nat

TypeOK ==
  /\ state \in Partial \cup {NoFile}
  /\ legacy \in Partial \cup {NoFile}
  /\ lockFile \in Nat \cup {NoFile}
  /\ created \in Nat
  /\ pc \in [Writers -> {"idle", "opened", "locked", "read"}]
  /\ opened \in [Writers -> Nat \cup {NoFile}]
  /\ copy \in [Writers -> Partial]
  /\ cache \in [Writers -> Partial \cup {NoFile}]
  /\ updates \in [Writers -> Partial]
  /\ shredding \in BOOLEAN /\ left \in SUBSET Files
  /\ shreds \in 0..MaxShreds

\* A new state directory, or one that an older release left.
Init ==
  /\ state = NoFile
  /\ legacy \in Partial \cup {NoFile}
  /\ lockFile = NoFile /\ created = 0
  /\ pc = [w \in Writers |-> "idle"]
  /\ opened = [w \in Writers |-> NoFile]
  /\ copy = [w \in Writers |-> Nothing]
  /\ cache = [w \in Writers |-> NoFile]
  /\ updates = [w \in Writers |-> Nothing]
  /\ shredding = FALSE /\ left = {} /\ shreds = 0

\* _read_state: the legacy file counts until state.json exists.
_read_state ==
  IF state # NoFile THEN state ELSE IF legacy # NoFile THEN legacy ELSE Nothing

----
(* A writer *)

\* record_hash: the first use loads the cache.
record_hash(w, k, d) ==
  /\ pc[w] = "idle"
  /\ cache' = [cache EXCEPT ![w] = [(IF @ = NoFile THEN _read_state ELSE @) EXCEPT ![k] = d]]
  /\ updates' = [updates EXCEPT ![w][k] = d]
  /\ UNCHANGED <<files, pc, opened, copy, shredVars>>

\* _save enters file_lock: the lock file is opened, and created if need be.
OpenLock(w) ==
  /\ pc[w] = "idle"
  /\ updates[w] # Nothing
  /\ QuietShred => ~ shredding
  /\ pc' = [pc EXCEPT ![w] = "opened"]
  /\ IF lockFile = NoFile
     THEN /\ created' = created + 1 /\ lockFile' = created'
     ELSE UNCHANGED <<created, lockFile>>
  /\ opened' = [opened EXCEPT ![w] = lockFile']
  /\ UNCHANGED <<state, legacy, copy, cache, updates, shredVars>>

\* Mutation of TakeLock: the save goes ahead without the lock.
TakeNoLock(w) ==
  /\ pc[w] = "opened"
  /\ pc' = [pc EXCEPT ![w] = "locked"]
  /\ UNCHANGED <<files, opened, copy, cache, updates, shredVars>>

\* The lock of the opened file is free.
TakeLock(w) ==
  /\ pc[w] = "opened"
  /\ \A v \in Writers : pc[v] \in {"locked", "read"} => opened[v] # opened[w]
  /\ pc' = [pc EXCEPT ![w] = "locked"]
  /\ UNCHANGED <<files, opened, copy, cache, updates, shredVars>>

ReadState(w) ==
  /\ pc[w] = "locked"
  /\ copy' = [copy EXCEPT ![w] = _read_state]
  /\ pc' = [pc EXCEPT ![w] = "read"]
  /\ UNCHANGED <<files, opened, cache, updates, shredVars>>

\* Mutation of WriteState: the cache is written, not what is there now.
WriteCache(w) ==
  /\ pc[w] = "read"
  /\ state' = cache[w]
  /\ updates' = [updates EXCEPT ![w] = Nothing]
  /\ pc' = [pc EXCEPT ![w] = "idle"]
  /\ opened' = [opened EXCEPT ![w] = NoFile]
  /\ copy' = [copy EXCEPT ![w] = Nothing]
  /\ UNCHANGED <<legacy, lockFile, created, cache, shredVars>>

\* The merged records replace state.json; the updates are forgotten, the
\* cache is refreshed and the lock released.
WriteState(w) ==
  /\ pc[w] = "read"
  /\ state' = Merge(copy[w], updates[w])
  /\ cache' = [cache EXCEPT ![w] = state']
  /\ updates' = [updates EXCEPT ![w] = Nothing]
  /\ pc' = [pc EXCEPT ![w] = "idle"]
  /\ opened' = [opened EXCEPT ![w] = NoFile]
  /\ copy' = [copy EXCEPT ![w] = Nothing]
  /\ UNCHANGED <<legacy, lockFile, created, shredVars>>

\* A timeout, unreadable state or an I/O error ends the save; the updates
\* are kept in the object.
SaveFails(w) ==
  /\ pc[w] # "idle"
  /\ pc' = [pc EXCEPT ![w] = "idle"]
  /\ opened' = [opened EXCEPT ![w] = NoFile]
  /\ copy' = [copy EXCEPT ![w] = Nothing]
  /\ UNCHANGED <<files, cache, updates, shredVars>>

\* The process dies, or ends, and a new one takes its place.
Die(w) ==
  /\ cache' = [cache EXCEPT ![w] = NoFile]
  /\ updates' = [updates EXCEPT ![w] = Nothing]
  /\ pc' = [pc EXCEPT ![w] = "idle"]
  /\ opened' = [opened EXCEPT ![w] = NoFile]
  /\ copy' = [copy EXCEPT ![w] = Nothing]
  /\ UNCHANGED <<files, shredVars>>

----
(* shred: shutil.rmtree, one file after the other in any order *)

Existing == {x \in Files :
               \/ x = "state" /\ state # NoFile
               \/ x = "legacy" /\ legacy # NoFile
               \/ x = "lock" /\ lockFile # NoFile}

StartShred ==
  /\ shreds < MaxShreds /\ shreds' = shreds + 1
  /\ ~ shredding /\ shredding' = TRUE
  /\ QuietShred => \A w \in Writers : pc[w] = "idle"
  /\ left' = Existing
  /\ UNCHANGED <<files, memory>>

RemoveFile(x) ==
  /\ x \in left
  /\ left' = left \ {x}
  /\ state' = IF x = "state" THEN NoFile ELSE state
  /\ legacy' = IF x = "legacy" THEN NoFile ELSE legacy
  /\ lockFile' = IF x = "lock" THEN NoFile ELSE lockFile
  /\ UNCHANGED <<created, memory, shredding, shreds>>

\* The directory itself goes, or is found not to be empty: an error either
\* way leaves what is there.
EndShred ==
  /\ shredding /\ left = {}
  /\ shredding' = FALSE
  /\ UNCHANGED <<files, memory, left, shreds>>

Next ==
  \/ \E w \in Writers, k \in Keys, d \in Digests : record_hash(w, k, d)
  \/ \E w \in Writers : \/ OpenLock(w) \/ TakeLock(w) \/ ReadState(w) \/ WriteState(w)
                        \/ SaveFails(w) \/ Die(w)
  \/ StartShred \/ EndShred
  \/ \E x \in Files : RemoveFile(x)

Spec == Init /\ [][Next]_vars

----
(* Properties *)

\* The store implements atomic saves.  A quiet shred takes effect at once.
Promise == INSTANCE HashRecords
             WITH records <- IF shredding THEN Nothing ELSE _read_state

SavesAreAtomic == Promise!Spec

\* A save discards no record that its own process has not updated: parallel
\* workers keep each other's hashes (file_lock and the merge in _save).
SavesKeepOthers ==
  [][\A w \in Writers, k \in Keys :
       /\ pc[w] = "read" /\ pc'[w] = "idle"
       /\ updates[w][k] = None /\ _read_state[k] # None
       => _read_state'[k] = _read_state[k]]_vars
=============================================================================
