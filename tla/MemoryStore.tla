----------------------------- MODULE MemoryStore -----------------------------
(* The memory persistence (src/cinderlib/persistence/memory.py) keeps the    *)
(* very objects the program works with, so that what the store records is    *)
(* what the objects, their lists and their links to each other say, until    *)
(* the process ends; a dump is all that outlives it (serialization.py).      *)
(* One volume and its snapshots; connections are kept in the same way.       *)
EXTENDS Naturals, FiniteSets, Functions

CONSTANTS
  VolRefs,   \* Volume objects
  SnapRefs,  \* Snapshot objects
  Snaps,     \* ids of snapshots
  None,      \* no object, no id
  MaxRestarts, \* bound on how often the process ends
  MaxHollow    \* bound on how many objects are hollow at a time

ASSUME MemoryAssumption ==
  /\ VolRefs # {} /\ MaxRestarts \in Nat /\ MaxHollow \in Nat
  /\ None \notin VolRefs \cup SnapRefs \cup Snaps /\ "volume" \notin Snaps

VARIABLES
  vol,       \* the Volume objects: their state, and whose list is _snapshots
  lists,     \* the lists of Snapshot objects, by the volume object that made it
  snap,      \* the Snapshot objects: their state, id and _volume
  volumes,   \* MemoryPersistence.volumes: the object of the volume
  snapshots, \* MemoryPersistence.snapshots: an object for each id
  known,     \* history: snapshots in the storage that must not be forgotten
  used,      \* ids that were given out
  file,      \* the JSON the program wrote last
  mixed,     \* history: what was loaded is not all of what is stored
  restarts   \* how often the process has ended

vars == <<vol, lists, snap, volumes, snapshots, known, used, file, mixed, restarts>>

(* A hollow object is one whose attributes are gone.                         *)
FreeVol == [state |-> "free", list |-> None]
FreeSnap == [state |-> "free", id |-> None, vol |-> None]
NoFile == [root |-> None, listed |-> FALSE, kids |-> {}, stock |-> {}]

TypeOK ==
  /\ vol \in [VolRefs -> [state : {"free", "live", "hollow", "deleted"},
                          list : VolRefs \cup {None}]]
  /\ lists \in [VolRefs -> SUBSET SnapRefs]
  /\ snap \in [SnapRefs -> [state : {"live", "hollow", "deleted"}, id : Snaps,
                            vol : VolRefs] \cup {FreeSnap}]
  /\ volumes \in VolRefs \cup {None}
  /\ snapshots \in [Snaps -> SnapRefs \cup {None}]
  /\ \A s \in Snaps : snapshots[s] # None => snap[snapshots[s]].id = s
  /\ known \in SUBSET used /\ used \in SUBSET Snaps
  /\ file \in [root : Snaps \cup {None, "volume"}, listed : BOOLEAN,
               kids : SUBSET Snaps, stock : SUBSET Snaps]
  /\ mixed \in BOOLEAN /\ restarts \in 0..MaxRestarts

LiveVol(r) == vol[r].state = "live"
LiveSnap(o) == snap[o].state = "live"
Hollow(o) == snap[o].state = "hollow"
MayEmpty ==
  Cardinality({r \in VolRefs : vol[r].state = "hollow"})
    + Cardinality({o \in SnapRefs : Hollow(o)}) < MaxHollow
FreeVols == {r \in VolRefs : vol[r].state = "free"}
FreeSnaps == {o \in SnapRefs : snap[o].state = "free"}

(* The volume has been created, or loaded and saved without its snapshots,   *)
(* of which there are none: the program has the object that is stored.       *)
Init ==
  /\ volumes = CHOOSE r \in VolRefs : TRUE
  /\ \E list \in {volumes, None} :
       vol = [r \in VolRefs |-> IF r = volumes THEN [state |-> "live", list |-> list] ELSE FreeVol]
  /\ lists = [r \in VolRefs |-> {}]
  /\ snap = [o \in SnapRefs |-> FreeSnap]
  /\ snapshots = [s \in Snaps |-> None]
  /\ known = {} /\ used = {}
  /\ file = NoFile /\ mixed = FALSE /\ restarts = 0

Stored == {snapshots[s] : s \in Snaps} \ {None}
StoredIds == {s \in Snaps : snapshots[s] # None}
Ids(objects) == {snap[o].id : o \in objects}

-----------------------------------------------------------------------------
(* Volume.snapshots: a list that is not there is taken from the store, and   *)
(* the stored objects are linked to the volume that reads it.  Looking for   *)
(* them among hollow objects raises.                                         *)
Loaded(r) == vol[r].list # None
Readable(r) == Loaded(r) \/ \A o \in Stored : ~Hollow(o)
Linked(r) == [o \in SnapRefs |-> IF o \in Stored THEN [snap[o] EXCEPT !.vol = r] ELSE snap[o]]
Read(r) ==
  IF Loaded(r) THEN UNCHANGED <<vol, lists, snap>>
  ELSE /\ vol' = [vol EXCEPT ![r].list = r]
       /\ lists' = [lists EXCEPT ![r] = Stored]
       /\ snap' = Linked(r)
ListOf(r) == IF Loaded(r) THEN lists[vol[r].list] ELSE Stored

ReadSnapshots(r) ==
  /\ LiveVol(r) /\ Readable(r)
  /\ Read(r)
  /\ UNCHANGED <<volumes, snapshots, known, used, file, mixed, restarts>>

(* Volume.create_snapshot.  Whether the driver makes the snapshot or fails,  *)
(* its object is stored, and appended to a list that is there.               *)
(* Mutant: it is appended when it was made.                                  *)
AppendedWhenMade(r, o, made) ==
  [lists EXCEPT ![vol[r].list] = IF made THEN @ \cup {o} ELSE @]
Appended(r, o, made) == [lists EXCEPT ![vol[r].list] = @ \cup {o}]

CreateSnapshot(r, s, made) ==
  LET o == CHOOSE f \in FreeSnaps : TRUE IN
  /\ LiveVol(r) /\ FreeSnaps # {}
  /\ s \notin used
  /\ used' = used \cup {s}
  /\ known' = IF made THEN known \cup {s} ELSE known
  /\ snap' = [snap EXCEPT ![o] = [state |-> "live", id |-> s, vol |-> r]]
  /\ snapshots' = [snapshots EXCEPT ![s] = o]
  /\ lists' = IF Loaded(r) THEN Appended(r, o, made) ELSE lists
  /\ UNCHANGED <<vol, volumes, file, mixed, restarts>>

(* Snapshot.delete: the id goes from the store, and from the list of the     *)
(* volume the object is linked to, whichever objects are there for it; a     *)
(* hollow volume, or a hollow snapshot that comes first on the list, raises  *)
(* when all but that is done.  A program makes no more calls of an object    *)
(* whose delete succeeded.                                                   *)
Removed(r, s) ==
  IF LiveVol(r) /\ Loaded(r)
  THEN {[lists EXCEPT ![vol[r].list] = {o \in @ : snap[o].id # s}]}
         \cup (IF \E o \in ListOf(r) : Hollow(o) THEN {lists} ELSE {})
  ELSE {lists}

DeleteSnapshot(o) ==
  LET s == snap[o].id IN
  /\ LiveSnap(o)
  /\ known' = known \ {s}
  /\ snapshots' = [snapshots EXCEPT ![s] = None]
  /\ lists' \in Removed(snap[o].vol, s)
  /\ snap' = [snap EXCEPT ![o] = IF \E r \in VolRefs : o \in lists'[r]
                                 THEN [@ EXCEPT !.state = "deleted"] ELSE FreeSnap]
  /\ UNCHANGED <<vol, volumes, used, file, mixed, restarts>>

(* The driver fails, before it deletes or after: the object is stored.       *)
DeleteSnapshotRaises(o) ==
  LET s == snap[o].id IN
  /\ LiveSnap(o)
  /\ snapshots' = [snapshots EXCEPT ![s] = o]
  /\ UNCHANGED <<vol, lists, snap, volumes, known, used, file, mixed, restarts>>

(* Volume.delete, for a volume whose list is empty.                          *)
DeleteVolume(r) ==
  /\ LiveVol(r) /\ Readable(r)
  /\ ListOf(r) = {}
  /\ vol' = [vol EXCEPT ![r] = [state |-> "deleted", list |-> IF Loaded(r) THEN @.list ELSE r]]
  /\ volumes' = None
  /\ UNCHANGED <<lists, snap, snapshots, known, used, file, mixed, restarts>>

(* The driver fails: the object is stored.                                   *)
DeleteVolumeRaises(r) ==
  /\ LiveVol(r) /\ Readable(r)
  /\ ListOf(r) = {}
  /\ Read(r)
  /\ volumes' = r
  /\ UNCHANGED <<snapshots, known, used, file, mixed, restarts>>

(* Volume.save, with which extend and others end: the object becomes the one *)
(* that is stored.                                                           *)
Save(r) ==
  /\ LiveVol(r)
  /\ volumes' = r
  /\ UNCHANGED <<vol, lists, snap, snapshots, known, used, file, mixed, restarts>>

-----------------------------------------------------------------------------
(* Volume.refresh and LazyVolumeAttr.refresh take the attributes of the      *)
(* stored object, which the object itself loses before when it is the one.   *)
RefreshStored(r) ==
  /\ LiveVol(r) /\ volumes = r /\ MayEmpty
  /\ vol' = [vol EXCEPT ![r].state = "hollow"]
  /\ UNCHANGED <<lists, snap, volumes, snapshots, known, used, file, mixed, restarts>>

(* Another object shares the stored one's list from here on.                 *)
RefreshOther(r) ==
  LET last == volumes IN
  /\ LiveVol(r) /\ last \notin {None, r}
  /\ LiveVol(last)
  /\ IF Loaded(r) /\ ~Loaded(last)
     THEN /\ Readable(last)
          /\ vol' = [q \in VolRefs |-> IF q \in {r, last} THEN [vol[q] EXCEPT !.list = last]
                                                          ELSE vol[q]]
          /\ lists' = [lists EXCEPT ![last] = Stored]
          /\ snap' = Linked(last)
     ELSE /\ vol' = [vol EXCEPT ![r] = vol[last]]
          /\ UNCHANGED <<lists, snap>>
  /\ UNCHANGED <<volumes, snapshots, known, used, file, mixed, restarts>>

RefreshSnapshot(o) ==
  LET last == snapshots[snap[o].id] IN
  /\ LiveSnap(o) /\ last # None
  /\ ~Hollow(last) /\ (o = last => MayEmpty)
  /\ snap' = [snap EXCEPT ![o] = IF o = last THEN [@ EXCEPT !.state = "hollow"]
                                             ELSE [@ EXCEPT !.vol = snap[last].vol]]
  /\ UNCHANGED <<vol, lists, volumes, snapshots, known, used, file, mixed, restarts>>

-----------------------------------------------------------------------------
(* dump, which reads the lazy lists first.  An object that was visited is    *)
(* not written again, so that a snapshot is written with its volume and the  *)
(* snapshots on the list of that, without itself.                            *)
(* Mutant: the lists are not read.                                           *)
DumpReadsNothing(r) == UNCHANGED <<vol, lists, snap>>
DumpReads(r) == Read(r)

Written(root, listed, kids, stock) ==
  file' = [root |-> root, listed |-> listed, kids |-> kids,
           stock |-> IF mixed THEN {} ELSE stock \cap known]

Dump(r) ==
  /\ LiveVol(r) /\ Readable(r)
  /\ DumpReads(r)
  /\ Written("volume", vol'[r].list # None,
             IF vol'[r].list # None THEN Ids(lists'[vol'[r].list]) ELSE {}, StoredIds)
  /\ UNCHANGED <<volumes, snapshots, known, used, mixed, restarts>>

(* to_json, which leaves the lists out when it is simplified.                *)
ToJson(r, simplified) ==
  LET listed == Loaded(r) /\ ~simplified IN
  /\ LiveVol(r)
  /\ Written("volume", listed, IF listed THEN Ids(ListOf(r)) ELSE {},
             IF listed THEN StoredIds ELSE {})
  /\ UNCHANGED <<vol, lists, snap, volumes, snapshots, known, used, mixed, restarts>>

DumpSnapshot(o) ==
  LET r == snap[o].vol IN
  /\ LiveSnap(o)
  /\ Written(snap[o].id, Loaded(r),
             IF Loaded(r) THEN Ids(ListOf(r) \ {o}) ELSE {}, {})
  /\ UNCHANGED <<vol, lists, snap, volumes, snapshots, known, used, mixed, restarts>>

(* The process ends: the storage and the file are what is left.              *)
Restart ==
  /\ restarts < MaxRestarts
  /\ vol' = [r \in VolRefs |-> FreeVol]
  /\ lists' = [r \in VolRefs |-> {}]
  /\ snap' = [o \in SnapRefs |-> FreeSnap]
  /\ volumes' = None
  /\ snapshots' = [s \in Snaps |-> None]
  /\ known' = known \cap file.stock
  /\ mixed' = FALSE
  /\ restarts' = restarts + 1
  /\ UNCHANGED <<used, file>>

-----------------------------------------------------------------------------
(* load makes objects of all that was written, linked to each other.         *)
(* Mutant: an object is taken for one that was visited.                      *)
FreshOnce(ids) == [s \in ids |-> CHOOSE o \in FreeSnaps : TRUE]
Fresh(ids) == CHOOSE f \in Injection(ids, FreeSnaps) : TRUE
Made(r, listed, kids, ids, f) ==
  /\ vol' = [vol EXCEPT ![r] = [state |-> "live", list |-> IF listed THEN r ELSE None]]
  /\ lists' = [lists EXCEPT ![r] = IF listed THEN {f[s] : s \in kids} ELSE {}]
  /\ snap' = [o \in SnapRefs |->
                IF \E s \in ids : f[s] = o
                THEN [state |-> "live", id |-> CHOOSE s \in ids : f[s] = o, vol |-> r]
                ELSE snap[o]]

(* Volume._load saves the volume and the snapshots that came with it.        *)
Saved(f) == [s \in Snaps |-> IF s \in DOMAIN f THEN f[s] ELSE snapshots[s]]

LoadVolume(save) ==
  LET r == CHOOSE q \in FreeVols : TRUE
      f == Fresh(file.kids) IN
  /\ file.root = "volume"
  /\ FreeVols # {} /\ ExistsInjection(file.kids, FreeSnaps)
  /\ Made(r, file.listed, file.kids, file.kids, f)
  /\ volumes' = IF save THEN r ELSE volumes
  /\ snapshots' = IF save THEN Saved(f) ELSE snapshots
  /\ mixed' = (mixed \/ ~save \/ FreeVols # VolRefs)
  /\ UNCHANGED <<known, used, file, restarts>>

(* Snapshot._load saves the snapshot; the volume that came with it, and the  *)
(* other snapshots on its list, are objects that are not stored.             *)
LoadSnapshot(save) ==
  LET r == CHOOSE q \in FreeVols : TRUE
      ids == file.kids \cup {file.root}
      f == Fresh(ids) IN
  /\ file.root \in Snaps
  /\ FreeVols # {} /\ ExistsInjection(ids, FreeSnaps)
  /\ Made(r, file.listed, ids, ids, f)
  /\ snapshots' = IF save THEN [snapshots EXCEPT ![file.root] = f[file.root]] ELSE snapshots
  /\ mixed' = TRUE
  /\ UNCHANGED <<volumes, known, used, file, restarts>>

-----------------------------------------------------------------------------
VolumeStep(r) ==
  \/ ReadSnapshots(r) \/ DeleteVolume(r) \/ DeleteVolumeRaises(r) \/ Save(r)
  \/ RefreshStored(r) \/ RefreshOther(r) \/ Dump(r)
  \/ \E simplified \in BOOLEAN : ToJson(r, simplified)
  \/ \E s \in Snaps, made \in BOOLEAN : CreateSnapshot(r, s, made)

SnapshotStep(o) ==
  \/ DeleteSnapshot(o) \/ DeleteSnapshotRaises(o) \/ RefreshSnapshot(o) \/ DumpSnapshot(o)

Next ==
  \/ \E r \in VolRefs : VolumeStep(r)
  \/ \E o \in SnapRefs : SnapshotStep(o)
  \/ \E save \in BOOLEAN : LoadVolume(save) \/ LoadSnapshot(save)
  \/ Restart

Spec == Init /\ [][Next]_vars

-----------------------------------------------------------------------------
(* The list of the stored volume and the store are kept apart by two chains  *)
(* of calls (objects.py:451-460, 521-529 and memory.py:89-91, 104-106), and  *)
(* agree after each operation, failed ones, restarts and loads included, as  *)
(* long as a program loads volumes with save and where there is nothing      *)
(* stored, and refreshes no stored object.                                   *)
ListIsStore ==
  /\ ~mixed
  /\ volumes # None /\ LiveVol(volumes) /\ Loaded(volumes)
  /\ \A o \in Stored : ~Hollow(o)
  => ListOf(volumes) = Stored

(* What a dump was taken of comes back: no snapshot of the storage that was  *)
(* stored at the last dump of the volume before the process ended is missing *)
(* from the store when the volume is there again (serialization.rst:126-139, *)
(* objects.py:187-191, 423-435).                                             *)
DumpedComesBack ==
  ~mixed /\ volumes # None => known \subseteq StoredIds
=============================================================================
