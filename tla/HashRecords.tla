----------------------------- MODULE HashRecords ----------------------------
(***************************************************************************)
(* What a state directory promises its writers: each collects updates, and *)
(* a save adds them, all at once, to the records, and removes no other     *)
(* writer's record.  StateStore implements it.                             *)
(***************************************************************************)
CONSTANTS Writers, Keys, Digests, None

VARIABLES records, updates

Nothing == [k \in Keys |-> None]
Partial == [Keys -> Digests \cup {None}]

\* The records after an update.
Merge(old, update) == [k \in Keys |-> IF update[k] # None THEN update[k] ELSE old[k]]

Init == records \in Partial /\ updates = [w \in Writers |-> Nothing]

Record(w, k, d) ==
  /\ updates' = [updates EXCEPT ![w][k] = d]
  /\ UNCHANGED records

Save(w) ==
  /\ records' = Merge(records, updates[w])
  /\ updates' = [updates EXCEPT ![w] = Nothing]

Die(w) ==
  /\ updates' = [updates EXCEPT ![w] = Nothing]
  /\ UNCHANGED records

Shred == records' = Nothing /\ UNCHANGED updates

Next ==
  \/ \E w \in Writers, k \in Keys, d \in Digests : Record(w, k, d)
  \/ \E w \in Writers : Save(w) \/ Die(w)
  \/ Shred

Spec == Init /\ [][Next]_<<records, updates>>
=============================================================================
