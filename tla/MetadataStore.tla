---------------------------- MODULE MetadataStore ----------------------------
(* What a metadata store promises to the processes that share it: a request  *)
(* to save or to delete a volume takes effect at one instant between its     *)
(* start and its answer, as a whole or not at all.  The answer does not tell *)
(* which: a request that raised may have taken effect.  (The interface of    *)
(* PersistenceDriverBase, src/cinderlib/persistence/base.py.)                *)
CONSTANTS
  Procs,   \* the processes that use the store
  Ids,     \* volume ids
  Data     \* what the fields of a volume can hold

VARIABLES
  stored,  \* what a reader finds under each id
  asked    \* the request each process waits for

vars == <<stored, asked>>

Nothing == [found |-> FALSE]
Volume(d) == [found |-> TRUE, data |-> d]
NoRequest == [op |-> "none"]
Done(request) == [request EXCEPT !.done = TRUE]

(* A save of an object that was never saved, or that is saved as a whole,    *)
(* may create the volume; one of changed fields may only update it.          *)
Request ==
  [op : {"save"}, id : Ids, data : Data, create : BOOLEAN, done : BOOLEAN]
    \cup [op : {"delete"}, id : Ids, done : BOOLEAN]

Init ==
  /\ stored = [i \in Ids |-> Nothing]
  /\ asked = [p \in Procs |-> NoRequest]

Ask(p) ==
  /\ asked[p] = NoRequest
  /\ \E r \in Request : ~r.done /\ asked' = [asked EXCEPT ![p] = r]
  /\ UNCHANGED stored

Save(p) ==
  /\ asked[p] # NoRequest
  /\ asked[p].op = "save"
  /\ ~asked[p].done
  /\ asked[p].create \/ stored[asked[p].id] # Nothing
  /\ stored' = [stored EXCEPT ![asked[p].id] = Volume(asked[p].data)]
  /\ asked' = [asked EXCEPT ![p] = Done(@)]

Delete(p) ==
  /\ asked[p] # NoRequest
  /\ asked[p].op = "delete"
  /\ ~asked[p].done
  /\ stored' = [stored EXCEPT ![asked[p].id] = Nothing]
  /\ asked' = [asked EXCEPT ![p] = Done(@)]

(* The answer to a request that has taken effect, or that did not.           *)
Answer(p) ==
  /\ asked[p] # NoRequest
  /\ asked' = [asked EXCEPT ![p] = NoRequest]
  /\ UNCHANGED stored

Next == \E p \in Procs : Ask(p) \/ Save(p) \/ Delete(p) \/ Answer(p)

Spec == Init /\ [][Next]_vars
=============================================================================
