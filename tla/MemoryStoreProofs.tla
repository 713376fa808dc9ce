------------------------- MODULE MemoryStoreProofs --------------------------
(* What the memory persistence keeps for a program, whatever the number of   *)
(* objects, snapshots and restarts.                                          *)
EXTENDS MemoryStore, TLAPS

VolObject == [state : {"free", "live", "hollow", "deleted"}, list : VolRefs \cup {None}]
SnapObject == [state : {"live", "hollow", "deleted"}, id : Snaps, vol : VolRefs]
File == [root : Snaps \cup {None, "volume"}, listed : BOOLEAN,
         kids : SUBSET Snaps, stock : SUBSET Snaps]

UsedVols == {r \in VolRefs : vol[r].state # "free"}
UsedSnaps == {o \in SnapRefs : snap[o].state # "free"}

-----------------------------------------------------------------------------
(* Typing.  The lists hold objects of snapshots, never free ones, or a dump  *)
(* would write an object that has no id.                                     *)

ListsUsed == \A r \in VolRefs : lists[r] \subseteq UsedSnaps
Typed == TypeOK /\ ListsUsed
StoredUnderId == \A s \in Snaps : snapshots[s] # None => snap[snapshots[s]].id = s

LEMMA UsedTyped ==
  ASSUME TypeOK, NEW o \in UsedSnaps
  PROVE  o \in SnapRefs /\ snap[o] \in SnapObject /\ snap[o].id \in Snaps /\ snap[o].vol \in VolRefs
<1>1. o \in SnapRefs /\ snap[o] \in SnapObject \cup {FreeSnap} /\ snap[o].state # "free"
  BY DEF TypeOK, SnapObject, UsedSnaps
<1>2. snap[o] \in SnapObject
  BY <1>1 DEF FreeSnap
<1> QED BY <1>1, <1>2 DEF SnapObject

LEMMA StoredUsed ==
  ASSUME TypeOK
  PROVE  /\ Stored \subseteq UsedSnaps
         /\ \A o \in Stored : snapshots[snap[o].id] = o
<1> SUFFICES ASSUME NEW s \in Snaps, snapshots[s] # None
             PROVE  snapshots[s] \in UsedSnaps /\ snap[snapshots[s]].id = s
  BY DEF Stored
<1>1. snapshots[s] \in SnapRefs /\ snap[snapshots[s]].id = s
  BY DEF TypeOK
<1>2. snap[snapshots[s]] # FreeSnap
  BY <1>1, MemoryAssumption DEF FreeSnap
<1>3. snap[snapshots[s]] \in SnapObject
  BY <1>1, <1>2 DEF TypeOK, SnapObject
<1> QED BY <1>1, <1>3 DEF SnapObject, UsedSnaps

(* Reading a list, which may load it, moves links and nothing else.          *)
LEMMA Reading ==
  ASSUME Typed, NEW r \in VolRefs, Read(r)
  PROVE  /\ vol' \in [VolRefs -> VolObject]
         /\ lists' \in [VolRefs -> SUBSET SnapRefs]
         /\ snap' \in [SnapRefs -> SnapObject \cup {FreeSnap}]
         /\ \A q \in VolRefs : vol'[q].state = vol[q].state
         /\ \A o \in SnapRefs : snap'[o].state = snap[o].state /\ snap'[o].id = snap[o].id
         /\ \A o \in SnapRefs : snap'[o] = snap[o] \/ (~Loaded(r) /\ snap'[o].vol = r)
         /\ UsedSnaps' = UsedSnaps
         /\ \A q \in VolRefs : lists'[q] \subseteq UsedSnaps
         /\ \A q \in VolRefs \ {r} : vol'[q] = vol[q] /\ lists'[q] = lists[q]
         /\ IF Loaded(r) THEN UNCHANGED <<vol, lists, snap>>
                         ELSE vol'[r].list = r /\ lists'[r] = Stored
<1>1. vol \in [VolRefs -> VolObject] /\ snap \in [SnapRefs -> SnapObject \cup {FreeSnap}]
  BY DEF Typed, TypeOK, VolObject, SnapObject
<1>2. CASE Loaded(r)
  BY <1>1, <1>2 DEF Read, Typed, TypeOK, ListsUsed, UsedSnaps
<1>3. CASE ~Loaded(r)
  <2> DEFINE next == [vol[r] EXCEPT !.list = r]
  <2>1. next \in VolObject /\ next.state = vol[r].state /\ next.list = r
    BY <1>1 DEF VolObject
  <2>2. vol' = [vol EXCEPT ![r] = next]
    BY <1>3 DEF Read
  <2> HIDE DEF next
  <2>3. /\ vol' \in [VolRefs -> VolObject] /\ vol'[r].list = r
        /\ \A q \in VolRefs : vol'[q].state = vol[q].state
        /\ \A q \in VolRefs \ {r} : vol'[q] = vol[q]
    BY <1>1, <2>1, <2>2
  <2>4. Stored \subseteq UsedSnaps /\ Stored \subseteq SnapRefs
    BY StoredUsed DEF Typed, UsedSnaps
  <2>5. /\ lists' \in [VolRefs -> SUBSET SnapRefs] /\ lists'[r] = Stored
        /\ \A q \in VolRefs \ {r} : lists'[q] = lists[q]
        /\ \A q \in VolRefs : lists'[q] \subseteq UsedSnaps
    BY <1>3, <2>4 DEF Read, Typed, TypeOK, ListsUsed
  <2>6. ASSUME NEW o \in SnapRefs
        PROVE  /\ snap'[o] \in SnapObject \cup {FreeSnap}
               /\ snap'[o].state = snap[o].state /\ snap'[o].id = snap[o].id
               /\ snap'[o] = snap[o] \/ snap'[o].vol = r
    <3>1. CASE o \in Stored
      <4>1. snap[o] \in SnapObject
        BY <2>4, <3>1, UsedTyped DEF Typed
      <4>2. snap'[o] = [snap[o] EXCEPT !.vol = r]
        BY <1>3, <3>1 DEF Read, Linked
      <4> QED BY <4>1, <4>2 DEF SnapObject
    <3>2. CASE o \notin Stored
      BY <1>1, <1>3, <3>2 DEF Read, Linked
    <3> QED BY <3>1, <3>2
  <2>7. snap' \in [SnapRefs -> SnapObject \cup {FreeSnap}]
    BY <1>3, <2>6 DEF Read, Linked
  <2>8. UsedSnaps' = UsedSnaps
    BY <2>6 DEF UsedSnaps
  <2> QED BY <1>3, <2>3, <2>5, <2>6, <2>7, <2>8
<1> QED BY <1>2, <1>3

LEMMA ReadTyped ==
  ASSUME Typed, NEW r \in VolRefs, Read(r), volumes' \in VolRefs \cup {None},
         UNCHANGED <<snapshots, known, used, mixed, restarts>>, file' \in File
  PROVE  Typed'
<1>1. /\ vol' \in [VolRefs -> VolObject]
      /\ lists' \in [VolRefs -> SUBSET SnapRefs]
      /\ snap' \in [SnapRefs -> SnapObject \cup {FreeSnap}]
      /\ ListsUsed' /\ StoredUnderId'
  BY Reading DEF Typed, TypeOK, ListsUsed, StoredUnderId
<1> QED BY <1>1 DEF Typed, TypeOK, VolObject, SnapObject, StoredUnderId, File

(* What a dump writes are ids of snapshots.                                  *)
LEMMA FileTyped ==
  ASSUME TypeOK, NEW root \in Snaps \cup {"volume"}, NEW listed \in BOOLEAN,
         NEW kids \in SUBSET Snaps, NEW stock \in SUBSET Snaps,
         Written(root, listed, kids, stock)
  PROVE  file' \in File
BY DEF Written, File, TypeOK

LEMMA IdsTyped ==
  ASSUME TypeOK, NEW objects \in SUBSET UsedSnaps
  PROVE  Ids(objects) \subseteq Snaps
BY UsedTyped DEF Ids

LEMMA ListTyped ==
  ASSUME Typed, NEW r \in VolRefs
  PROVE  ListOf(r) \subseteq UsedSnaps
BY StoredUsed DEF Typed, TypeOK, ListsUsed, ListOf, Loaded


LEMMA TypedParts ==
  ASSUME Typed
  PROVE  /\ vol \in [VolRefs -> VolObject] /\ lists \in [VolRefs -> SUBSET SnapRefs]
         /\ snap \in [SnapRefs -> SnapObject \cup {FreeSnap}]
         /\ volumes \in VolRefs \cup {None} /\ snapshots \in [Snaps -> SnapRefs \cup {None}]
         /\ StoredUnderId /\ ListsUsed
         /\ known \in SUBSET used /\ used \in SUBSET Snaps /\ file \in File
         /\ mixed \in BOOLEAN /\ restarts \in 0..MaxRestarts
BY DEF Typed, TypeOK, VolObject, SnapObject, StoredUnderId, File

LEMMA PartsTyped ==
  ASSUME vol' \in [VolRefs -> VolObject], lists' \in [VolRefs -> SUBSET SnapRefs],
         snap' \in [SnapRefs -> SnapObject \cup {FreeSnap}],
         volumes' \in VolRefs \cup {None}, snapshots' \in [Snaps -> SnapRefs \cup {None}],
         StoredUnderId', ListsUsed',
         known' \in SUBSET used', used' \in SUBSET Snaps, file' \in File,
         mixed' \in BOOLEAN, restarts' \in 0..MaxRestarts
  PROVE  Typed'
BY DEF Typed, TypeOK, VolObject, SnapObject, StoredUnderId, File

LEMMA InitTyped == Init => Typed
<1> SUFFICES ASSUME Init PROVE Typed
  OBVIOUS
<1>1. volumes \in VolRefs
  BY MemoryAssumption DEF Init
<1>2. PICK list \in {volumes, None} :
        vol = [r \in VolRefs |-> IF r = volumes THEN [state |-> "live", list |-> list] ELSE FreeVol]
  BY DEF Init
<1>3. [state |-> "live", list |-> list] \in VolObject /\ FreeVol \in VolObject
  BY <1>1 DEF VolObject, FreeVol
<1>4. vol \in [VolRefs -> VolObject]
  BY <1>2, <1>3
<1>5. file \in File
  BY DEF Init, NoFile, File
<1>6. StoredUnderId /\ ListsUsed
  BY DEF Init, StoredUnderId, ListsUsed
<1>7. /\ lists \in [VolRefs -> SUBSET SnapRefs]
      /\ snapshots \in [Snaps -> SnapRefs \cup {None}]
      /\ known \in SUBSET used /\ used \in SUBSET Snaps
  <2>1. lists = [r \in VolRefs |-> {}]
    BY DEF Init
  <2>2. lists \in [VolRefs -> SUBSET SnapRefs]
    BY <2>1
  <2>3. snapshots = [s \in Snaps |-> None] /\ known = {} /\ used = {}
    BY DEF Init
  <2>4. snapshots \in [Snaps -> SnapRefs \cup {None}]
    BY <2>3
  <2>5. known \in SUBSET used /\ used \in SUBSET Snaps
    BY <2>3
  <2> QED BY <2>2, <2>4, <2>5
<1>8. mixed \in BOOLEAN /\ restarts \in 0..MaxRestarts
  <2>1. mixed = FALSE /\ restarts = 0
    BY DEF Init
  <2>2. MaxRestarts \in Nat
    BY MemoryAssumption
  <2>3. restarts \in 0..MaxRestarts
    BY <2>1, <2>2
  <2> QED BY <2>1, <2>3
<1>9. snap \in [SnapRefs -> [state : {"live", "hollow", "deleted"}, id : Snaps, vol : VolRefs]
                                \cup {FreeSnap}]
  BY DEF Init
<1>10. vol \in [VolRefs -> [state : {"free", "live", "hollow", "deleted"}, list : VolRefs \cup {None}]]
  BY <1>4 DEF VolObject
<1>11. TypeOK
  BY <1>1, <1>5, <1>6, <1>7, <1>8, <1>9, <1>10 DEF TypeOK, StoredUnderId, File
<1> QED BY <1>6, <1>11 DEF Typed

(* An object whose state changes keeps its list, one of the lists there are. *)
LEMMA ChangedVolume ==
  ASSUME Typed, NEW r \in VolRefs, NEW object \in VolObject,
         vol' = [vol EXCEPT ![r] = object]
  PROVE  /\ vol' \in [VolRefs -> VolObject] /\ vol'[r] = object
         /\ \A q \in VolRefs \ {r} : vol'[q] = vol[q]
BY TypedParts

(* create_snapshot makes the object o and appends it to the loaded list.     *)
Inserts(r, s, o) ==
  /\ snap' = [snap EXCEPT ![o] = [state |-> "live", id |-> s, vol |-> r]]
  /\ snapshots' = [snapshots EXCEPT ![s] = o]
  /\ lists' \in [VolRefs -> SUBSET SnapRefs]
  /\ \A q \in VolRefs : lists'[q] = IF Loaded(r) /\ q = vol[r].list THEN lists[q] \cup {o}
                                                                  ELSE lists[q]

LEMMA NewSnapshot ==
  ASSUME Typed, NEW r \in VolRefs, NEW s \in Snaps, NEW made \in BOOLEAN,
         CreateSnapshot(r, s, made)
  PROVE  \E o \in FreeSnaps : Inserts(r, s, o)
<1> DEFINE o == CHOOSE x \in FreeSnaps : TRUE
<1>1. o \in FreeSnaps
  BY DEF CreateSnapshot
<1>2. /\ snap' = [snap EXCEPT ![o] = [state |-> "live", id |-> s, vol |-> r]]
      /\ snapshots' = [snapshots EXCEPT ![s] = o]
      /\ lists' = IF Loaded(r) THEN [lists EXCEPT ![vol[r].list] = @ \cup {o}] ELSE lists
  BY DEF CreateSnapshot, Appended
<1>3. lists \in [VolRefs -> SUBSET SnapRefs] /\ o \in SnapRefs
  BY <1>1, TypedParts DEF FreeSnaps
<1> HIDE DEF o
<1>4. /\ lists' \in [VolRefs -> SUBSET SnapRefs]
      /\ \A q \in VolRefs : lists'[q] = IF Loaded(r) /\ q = vol[r].list THEN lists[q] \cup {o}
                                                                      ELSE lists[q]
  BY <1>2, <1>3
<1> QED BY <1>1, <1>2, <1>4 DEF Inserts

LEMMA CreateSnapshotTyped ==
  ASSUME Typed, NEW r \in VolRefs, NEW s \in Snaps, NEW made \in BOOLEAN,
         CreateSnapshot(r, s, made)
  PROVE  Typed'
<1>0. PICK o \in FreeSnaps : Inserts(r, s, o)
  BY NewSnapshot
<1>1. /\ snap' = [snap EXCEPT ![o] = [state |-> "live", id |-> s, vol |-> r]]
      /\ snapshots' = [snapshots EXCEPT ![s] = o]
      /\ lists' \in [VolRefs -> SUBSET SnapRefs]
      /\ \A q \in VolRefs : lists'[q] = IF Loaded(r) /\ q = vol[r].list THEN lists[q] \cup {o}
                                                                      ELSE lists[q]
  BY <1>0 DEF Inserts
<1> DEFINE object == [state |-> "live", id |-> s, vol |-> r]
<1>2. object \in SnapObject /\ object.state # "free" /\ object.id = s
  BY DEF SnapObject
<1>3. snap' = [snap EXCEPT ![o] = object]
  BY <1>1
<1> HIDE DEF object
<1>4. o \in SnapRefs /\ o \notin UsedSnaps
  BY DEF FreeSnaps, UsedSnaps
<1>5. snap' \in [SnapRefs -> SnapObject \cup {FreeSnap}]
  BY <1>2, <1>3, <1>4, TypedParts
<1>6. UsedSnaps' = UsedSnaps \cup {o}
  BY <1>2, <1>3, <1>4, TypedParts DEF UsedSnaps
<1>7. ListsUsed'
  BY <1>1, <1>6, TypedParts DEF ListsUsed
<1>8. snapshots' \in [Snaps -> SnapRefs \cup {None}]
  BY <1>1, <1>4, TypedParts
<1>9. StoredUnderId'
  <2> SUFFICES ASSUME NEW t \in Snaps, snapshots'[t] # None PROVE snap'[snapshots'[t]].id = t
    BY DEF StoredUnderId
  <2>1. CASE t = s
    BY <1>1, <1>2, <1>3, <1>4, <2>1, TypedParts
  <2>2. CASE t # s
    <3>1. snapshots'[t] = snapshots[t]
      BY <1>1, <2>2, TypedParts
    <3>2. snapshots[t] \in Stored
      BY <3>1 DEF Stored
    <3>3. snapshots[t] # o
      BY <1>4, <3>2, StoredUsed DEF Typed
    <3>4. snap'[snapshots[t]] = snap[snapshots[t]]
      BY <1>3, <3>1, <3>3, TypedParts
    <3> QED BY <3>1, <3>4, TypedParts DEF StoredUnderId
  <2> QED BY <2>1, <2>2
<1>10. known' \in SUBSET used' /\ used' \in SUBSET Snaps
  BY TypedParts DEF CreateSnapshot
<1>11. UNCHANGED <<vol, volumes, file, mixed, restarts>>
  BY DEF CreateSnapshot
<1> QED BY <1>1, <1>5, <1>7, <1>8, <1>9, <1>10, <1>11, TypedParts, PartsTyped

(* What a delete does to the lists: the one of the volume the object is      *)
(* linked to loses the objects of that id, or stays when that raises.        *)
LEMMA RemovedFrom ==
  ASSUME Typed, NEW o \in SnapRefs, DeleteSnapshot(o)
  PROVE  /\ o \in UsedSnaps /\ snap[o].id \in Snaps /\ snap[o].vol \in VolRefs
         /\ lists' \in [VolRefs -> SUBSET SnapRefs]
         /\ \A q \in VolRefs : lists'[q] \subseteq lists[q]
         /\ \A q \in VolRefs : \A u \in lists[q] \ lists'[q] : snap[u].id = snap[o].id
         /\ LET r == snap[o].vol IN
              LiveVol(r) /\ Loaded(r) /\ (\A u \in SnapRefs : ~Hollow(u)) =>
                lists'[vol[r].list] = {u \in lists[vol[r].list] : snap[u].id # snap[o].id}
<1>1. o \in UsedSnaps
  BY DEF DeleteSnapshot, LiveSnap, UsedSnaps
<1>2. snap[o].id \in Snaps /\ snap[o].vol \in VolRefs
  BY <1>1, UsedTyped DEF Typed
<1> DEFINE r == snap[o].vol
           less == [lists EXCEPT ![vol[r].list] = {u \in @ : snap[u].id # snap[o].id}]
<1>3. lists' \in Removed(r, snap[o].id)
  BY DEF DeleteSnapshot
<1>4. lists' = less \/ lists' = lists
  BY <1>3 DEF Removed
<1>5. /\ less \in [VolRefs -> SUBSET SnapRefs]
      /\ \A q \in VolRefs : less[q] \subseteq lists[q]
      /\ \A q \in VolRefs : \A u \in lists[q] \ less[q] : snap[u].id = snap[o].id
  BY TypedParts
<1>6. ASSUME LiveVol(r), Loaded(r), \A u \in SnapRefs : ~Hollow(u)
      PROVE  lists'[vol[r].list] = {u \in lists[vol[r].list] : snap[u].id # snap[o].id}
  <2>1. ListOf(r) \subseteq SnapRefs
    BY <1>2, ListTyped DEF UsedSnaps
  <2>2. lists' = less
    BY <1>3, <1>6, <2>1 DEF Removed
  <2>3. vol[r].list \in VolRefs
    BY <1>2, <1>6, TypedParts DEF Loaded, VolObject
  <2> QED BY <2>2, <2>3, TypedParts
<1>7. lists \in [VolRefs -> SUBSET SnapRefs]
  BY TypedParts
<1> QED BY <1>1, <1>2, <1>4, <1>5, <1>6, <1>7

LEMMA DeleteSnapshotTyped ==
  ASSUME Typed, NEW o \in SnapRefs, DeleteSnapshot(o)
  PROVE  Typed'
<1> DEFINE s == snap[o].id
           held == \E r \in VolRefs : o \in lists'[r]
           object == IF held THEN [snap[o] EXCEPT !.state = "deleted"] ELSE FreeSnap
<1>1. s \in Snaps /\ o \in UsedSnaps /\ lists' \in [VolRefs -> SUBSET SnapRefs]
      /\ \A q \in VolRefs : lists'[q] \subseteq lists[q]
  BY RemovedFrom
<1>2. snap' = [snap EXCEPT ![o] = object] /\ snapshots' = [snapshots EXCEPT ![s] = None]
  BY DEF DeleteSnapshot
<1>3. snap[o] \in SnapObject
  BY <1>1, UsedTyped DEF Typed
<1>4. object \in SnapObject \cup {FreeSnap} /\ (held => object.state = "deleted")
  BY <1>3 DEF SnapObject
<1> HIDE DEF object
<1>5. /\ snap' \in [SnapRefs -> SnapObject \cup {FreeSnap}] /\ snap'[o] = object
      /\ \A u \in SnapRefs \ {o} : snap'[u] = snap[u]
  BY <1>2, <1>4, TypedParts
<1>6. ListsUsed'
  <2> SUFFICES ASSUME NEW r \in VolRefs, NEW u \in lists'[r] PROVE u \in UsedSnaps'
    BY DEF ListsUsed
  <2>1. u \in UsedSnaps /\ u \in SnapRefs
    BY <1>1, TypedParts DEF ListsUsed
  <2>2. CASE u = o
    BY <1>4, <1>5, <2>1, <2>2 DEF UsedSnaps
  <2>3. CASE u # o
    BY <1>5, <2>1, <2>3 DEF UsedSnaps
  <2> QED BY <2>2, <2>3
<1>7. snapshots' \in [Snaps -> SnapRefs \cup {None}]
  BY <1>2, TypedParts
<1>8. StoredUnderId'
  <2> SUFFICES ASSUME NEW t \in Snaps, snapshots'[t] # None PROVE snap'[snapshots'[t]].id = t
    BY DEF StoredUnderId
  <2>1. t # s /\ snapshots'[t] = snapshots[t]
    BY <1>1, <1>2, TypedParts
  <2>2. snap[snapshots[t]].id = t /\ snapshots[t] \in SnapRefs
    BY <2>1, TypedParts DEF StoredUnderId
  <2> QED BY <1>5, <2>1, <2>2
<1>9. known' \in SUBSET used' /\ used' \in SUBSET Snaps
  BY TypedParts DEF DeleteSnapshot
<1>10. UNCHANGED <<vol, volumes, file, mixed, restarts>>
  BY DEF DeleteSnapshot
<1> QED BY <1>1, <1>5, <1>6, <1>7, <1>8, <1>9, <1>10, TypedParts, PartsTyped

LEMMA DeleteSnapshotRaisesTyped ==
  ASSUME Typed, NEW o \in SnapRefs, DeleteSnapshotRaises(o)
  PROVE  Typed'
<1>1. snap[o].id \in Snaps /\ o \in SnapRefs
  BY UsedTyped DEF DeleteSnapshotRaises, LiveSnap, UsedSnaps, Typed
<1>2. snapshots' \in [Snaps -> SnapRefs \cup {None}]
  BY <1>1, TypedParts DEF DeleteSnapshotRaises
<1>3. StoredUnderId'
  BY <1>1, TypedParts DEF DeleteSnapshotRaises, StoredUnderId
<1>4. UNCHANGED <<vol, lists, snap, volumes, known, used, file, mixed, restarts>>
  BY DEF DeleteSnapshotRaises
<1>5. ListsUsed'
  BY <1>4, TypedParts DEF ListsUsed, UsedSnaps
<1> QED BY <1>2, <1>3, <1>4, <1>5, TypedParts, PartsTyped

LEMMA SameSnapshots ==
  ASSUME Typed, UNCHANGED <<lists, snap, snapshots>>
  PROVE  StoredUnderId' /\ ListsUsed'
BY TypedParts DEF StoredUnderId, ListsUsed, UsedSnaps

LEMMA DeleteVolumeTyped ==
  ASSUME Typed, NEW r \in VolRefs, DeleteVolume(r)
  PROVE  Typed'
<1> DEFINE object == [state |-> "deleted", list |-> IF Loaded(r) THEN vol[r].list ELSE r]
<1>1. vol[r].list \in VolRefs \cup {None}
  BY TypedParts DEF VolObject
<1>2. object \in VolObject /\ vol' = [vol EXCEPT ![r] = object]
  BY <1>1 DEF VolObject, DeleteVolume
<1> HIDE DEF object
<1>3. vol' \in [VolRefs -> VolObject]
  BY <1>2, ChangedVolume
<1>4. UNCHANGED <<lists, snap, snapshots, known, used, file, mixed, restarts>> /\ volumes' = None
  BY DEF DeleteVolume
<1> QED BY <1>3, <1>4, TypedParts, PartsTyped, SameSnapshots

LEMMA SaveTyped ==
  ASSUME Typed, NEW r \in VolRefs, Save(r)
  PROVE  Typed'
<1>1. UNCHANGED <<vol, lists, snap, snapshots, known, used, file, mixed, restarts>> /\ volumes' = r
  BY DEF Save
<1> QED BY <1>1, TypedParts, PartsTyped, SameSnapshots

LEMMA RefreshStoredTyped ==
  ASSUME Typed, NEW r \in VolRefs, RefreshStored(r)
  PROVE  Typed'
<1> DEFINE object == [vol[r] EXCEPT !.state = "hollow"]
<1>1. vol[r] \in VolObject
  BY TypedParts
<1>2. object \in VolObject /\ vol' = [vol EXCEPT ![r] = object]
  BY <1>1 DEF VolObject, RefreshStored
<1> HIDE DEF object
<1>3. vol' \in [VolRefs -> VolObject]
  BY <1>2, ChangedVolume
<1>4. UNCHANGED <<lists, snap, volumes, snapshots, known, used, file, mixed, restarts>>
  BY DEF RefreshStored
<1> QED BY <1>3, <1>4, TypedParts, PartsTyped, SameSnapshots

LEMMA ReadSnapshotsTyped ==
  ASSUME Typed, NEW r \in VolRefs, ReadSnapshots(r)
  PROVE  Typed'
<1>1. Read(r) /\ UNCHANGED <<volumes, snapshots, known, used, file, mixed, restarts>>
  BY DEF ReadSnapshots
<1> QED BY <1>1, ReadTyped, TypedParts

LEMMA DeleteVolumeRaisesTyped ==
  ASSUME Typed, NEW r \in VolRefs, DeleteVolumeRaises(r)
  PROVE  Typed'
<1>1. /\ Read(r) /\ volumes' = r
      /\ UNCHANGED <<snapshots, known, used, file, mixed, restarts>>
  BY DEF DeleteVolumeRaises
<1> QED BY <1>1, ReadTyped, TypedParts

(* Taking over the links of a stored object.                                 *)
LEMMA LinkedTyped ==
  ASSUME Typed, NEW q \in VolRefs, snap' = Linked(q)
  PROVE  /\ snap' \in [SnapRefs -> SnapObject \cup {FreeSnap}]
         /\ \A o \in SnapRefs : snap'[o].state = snap[o].state /\ snap'[o].id = snap[o].id
<1>1. ASSUME NEW o \in SnapRefs
      PROVE  /\ snap'[o] \in SnapObject \cup {FreeSnap}
             /\ snap'[o].state = snap[o].state /\ snap'[o].id = snap[o].id
  <2>1. CASE o \in Stored
    <3>1. snap[o] \in SnapObject
      BY <2>1, StoredUsed, UsedTyped DEF Typed
    <3>2. snap'[o] = [snap[o] EXCEPT !.vol = q]
      BY <2>1 DEF Linked
    <3> QED BY <3>1, <3>2 DEF SnapObject
  <2>2. CASE o \notin Stored
    BY <2>2, TypedParts DEF Linked
  <2> QED BY <2>1, <2>2
<1>2. snap' \in [SnapRefs -> SnapObject \cup {FreeSnap}]
  BY <1>1 DEF Linked
<1> QED BY <1>1, <1>2

LEMMA SameIds ==
  ASSUME Typed, UNCHANGED <<snapshots>>,
         \A o \in SnapRefs : snap'[o].state = snap[o].state /\ snap'[o].id = snap[o].id
  PROVE  StoredUnderId' /\ UsedSnaps' = UsedSnaps
BY TypedParts DEF StoredUnderId, UsedSnaps

LEMMA RefreshOtherTyped ==
  ASSUME Typed, NEW r \in VolRefs, RefreshOther(r)
  PROVE  Typed'
<1> DEFINE last == volumes
<1>1. last \in VolRefs /\ vol[last] \in VolObject /\ vol[r] \in VolObject
  BY TypedParts DEF RefreshOther
<1>2. UNCHANGED <<volumes, snapshots, known, used, file, mixed, restarts>>
  BY DEF RefreshOther
<1>3. CASE Loaded(r) /\ ~Loaded(last)
  <2>1. /\ vol' = [q \in VolRefs |-> IF q \in {r, last} THEN [vol[q] EXCEPT !.list = last]
                                                        ELSE vol[q]]
        /\ lists' = [lists EXCEPT ![last] = Stored]
        /\ snap' = Linked(last)
    BY <1>3 DEF RefreshOther
  <2>2. ASSUME NEW q \in VolRefs
        PROVE  [vol[q] EXCEPT !.list = last] \in VolObject
    BY <1>1, TypedParts DEF VolObject
  <2>3. vol' \in [VolRefs -> VolObject]
    BY <2>1, <2>2, TypedParts
  <2>4. Stored \subseteq UsedSnaps /\ Stored \subseteq SnapRefs
    BY StoredUsed DEF Typed, UsedSnaps
  <2>5. lists' \in [VolRefs -> SUBSET SnapRefs] /\ \A q \in VolRefs : lists'[q] \subseteq UsedSnaps
    BY <1>1, <2>1, <2>4, TypedParts DEF ListsUsed
  <2>6. /\ snap' \in [SnapRefs -> SnapObject \cup {FreeSnap}]
        /\ \A o \in SnapRefs : snap'[o].state = snap[o].state /\ snap'[o].id = snap[o].id
    BY <1>1, <2>1, LinkedTyped
  <2>7. StoredUnderId' /\ ListsUsed'
    BY <1>2, <2>5, <2>6, SameIds DEF ListsUsed
  <2> QED BY <1>2, <2>3, <2>5, <2>6, <2>7, TypedParts, PartsTyped
<1>4. CASE ~(Loaded(r) /\ ~Loaded(last))
  <2>1. vol' = [vol EXCEPT ![r] = vol[last]] /\ UNCHANGED <<lists, snap>>
    BY <1>4 DEF RefreshOther
  <2>2. vol' \in [VolRefs -> VolObject]
    BY <1>1, <2>1, ChangedVolume
  <2> QED BY <1>2, <2>1, <2>2, TypedParts, PartsTyped, SameSnapshots
<1> QED BY <1>3, <1>4

LEMMA RefreshSnapshotTyped ==
  ASSUME Typed, NEW o \in SnapRefs, RefreshSnapshot(o)
  PROVE  Typed'
<1> DEFINE last == snapshots[snap[o].id]
           object == IF o = last THEN [snap[o] EXCEPT !.state = "hollow"]
                                 ELSE [snap[o] EXCEPT !.vol = snap[last].vol]
<1>1. snap[o] \in SnapObject /\ snap[o].id \in Snaps /\ snap[o].state = "live"
  BY UsedTyped DEF RefreshSnapshot, LiveSnap, UsedSnaps, Typed
<1>2. last \in Stored
  BY <1>1 DEF RefreshSnapshot, Stored
<1>3. snap[last].vol \in VolRefs
  BY <1>2, StoredUsed, UsedTyped DEF Typed
<1>4. /\ object \in SnapObject /\ object.id = snap[o].id /\ object.state # "free"
  BY <1>1, <1>3 DEF SnapObject
<1>5. snap' = [snap EXCEPT ![o] = object]
  BY DEF RefreshSnapshot
<1> HIDE DEF object
<1>6. /\ snap' \in [SnapRefs -> SnapObject \cup {FreeSnap}]
      /\ \A u \in SnapRefs : snap'[u].id = snap[u].id
      /\ \A u \in SnapRefs : u # o => snap'[u] = snap[u]
      /\ snap'[o].state # "free"
  BY <1>4, <1>5, TypedParts
<1>7. UsedSnaps' = UsedSnaps
  BY <1>1, <1>6 DEF UsedSnaps
<1>8. UNCHANGED <<vol, lists, volumes, snapshots, known, used, file, mixed, restarts>>
  BY DEF RefreshSnapshot
<1>9. StoredUnderId' /\ ListsUsed'
  BY <1>6, <1>7, <1>8, TypedParts DEF StoredUnderId, ListsUsed
<1> QED BY <1>6, <1>8, <1>9, TypedParts, PartsTyped

LEMMA DumpTyped ==
  ASSUME Typed, NEW r \in VolRefs, Dump(r)
  PROVE  Typed'
<1> DEFINE listed == vol'[r].list # None
           kids == IF listed THEN Ids(lists'[vol'[r].list]) ELSE {}
<1>1. /\ Read(r) /\ Written("volume", listed, kids, StoredIds)
      /\ UNCHANGED <<volumes, snapshots, known, used, mixed, restarts>>
  BY DEF Dump, DumpReads
<1>2. \A o \in SnapRefs : snap'[o].id = snap[o].id
  BY <1>1, Reading
<1>3. ASSUME listed
      PROVE  lists'[vol'[r].list] \subseteq UsedSnaps
  <2>1. vol'[r] \in VolObject
    BY <1>1, Reading
  <2>2. vol'[r].list \in VolRefs
    BY <1>3, <2>1 DEF VolObject
  <2> QED BY <1>1, <2>2, Reading
<1>4. kids \subseteq Snaps
  BY <1>3, IdsTyped DEF Typed
<1>5. StoredIds \subseteq Snaps
  BY DEF StoredIds
<1> HIDE DEF kids
<1>6. file' \in File
  BY <1>1, <1>4, <1>5, FileTyped DEF Typed
<1> QED BY <1>1, <1>6, ReadTyped, TypedParts

LEMMA ToJsonTyped ==
  ASSUME Typed, NEW r \in VolRefs, NEW simplified \in BOOLEAN, ToJson(r, simplified)
  PROVE  Typed'
<1> DEFINE listed == Loaded(r) /\ ~simplified
           kids == IF listed THEN Ids(ListOf(r)) ELSE {}
           stock == IF listed THEN StoredIds ELSE {}
<1>1. /\ Written("volume", listed, kids, stock)
      /\ UNCHANGED <<vol, lists, snap, volumes, snapshots, known, used, mixed, restarts>>
  BY DEF ToJson
<1>2. kids \subseteq Snaps /\ stock \subseteq Snaps /\ listed \in BOOLEAN
  BY ListTyped, IdsTyped DEF Typed, StoredIds, Loaded
<1> HIDE DEF kids, stock, listed
<1>3. file' \in File
  BY <1>1, <1>2, FileTyped DEF Typed
<1> QED BY <1>1, <1>3, SameSnapshots, TypedParts, PartsTyped

LEMMA DumpSnapshotTyped ==
  ASSUME Typed, NEW o \in SnapRefs, DumpSnapshot(o)
  PROVE  Typed'
<1> DEFINE r == snap[o].vol
           kids == IF Loaded(r) THEN Ids(ListOf(r) \ {o}) ELSE {}
<1>1. /\ Written(snap[o].id, Loaded(r), kids, {})
      /\ UNCHANGED <<vol, lists, snap, volumes, snapshots, known, used, mixed, restarts>>
  BY DEF DumpSnapshot
<1>2. r \in VolRefs /\ snap[o].id \in Snaps
  BY UsedTyped DEF DumpSnapshot, LiveSnap, UsedSnaps, Typed
<1>3. ListOf(r) \ {o} \subseteq UsedSnaps
  BY <1>2, ListTyped
<1>4. kids \subseteq Snaps
  BY <1>3, IdsTyped DEF Typed
<1>5. Loaded(r) \in BOOLEAN
  BY DEF Loaded
<1> HIDE DEF kids
<1>6. file' \in File
  BY <1>1, <1>2, <1>4, <1>5, FileTyped DEF Typed
<1> QED BY <1>1, <1>6, SameSnapshots, TypedParts, PartsTyped

LEMMA RestartTyped ==
  ASSUME Typed, Restart
  PROVE  Typed'
<1>1. vol' = [r \in VolRefs |-> FreeVol] /\ FreeVol \in VolObject
  BY DEF Restart, FreeVol, VolObject
<1>2. vol' \in [VolRefs -> VolObject]
  BY <1>1
<1>3. lists' \in [VolRefs -> SUBSET SnapRefs] /\ \A r \in VolRefs : lists'[r] = {}
  <2>1. lists' = [r \in VolRefs |-> {}]
    BY DEF Restart
  <2> QED BY <2>1
<1>4. snap' \in [SnapRefs -> SnapObject \cup {FreeSnap}]
  BY DEF Restart
<1>5. snapshots' = [s \in Snaps |-> None]
  BY DEF Restart
<1>6. snapshots' \in [Snaps -> SnapRefs \cup {None}] /\ StoredUnderId' /\ ListsUsed'
  BY <1>3, <1>5 DEF StoredUnderId, ListsUsed
<1>7. known' \in SUBSET used' /\ used' \in SUBSET Snaps /\ file' = file
  BY TypedParts DEF Restart
<1>8. restarts' \in 0..MaxRestarts
  <2>1. restarts \in 0..MaxRestarts /\ MaxRestarts \in Nat
    BY MemoryAssumption, TypedParts
  <2>2. restarts < MaxRestarts /\ restarts' = restarts + 1
    BY DEF Restart
  <2> QED BY <2>1, <2>2
<1>9. volumes' = None /\ mixed' = FALSE
  BY DEF Restart
<1> QED BY <1>2, <1>3, <1>4, <1>6, <1>7, <1>8, <1>9, TypedParts, PartsTyped

(* What load makes: an object of its own for each snapshot of the file, all  *)
(* of the new volume.                                                        *)
IsFresh(f, ids) ==
  /\ ids \subseteq Snaps
  /\ f \in [ids -> FreeSnaps] /\ \A s, t \in ids : f[s] = f[t] => s = t

LEMMA FreshOnes ==
  ASSUME NEW ids, ids \subseteq Snaps, ExistsInjection(ids, FreeSnaps)
  PROVE  IsFresh(Fresh(ids), ids)
<1>1. Fresh(ids) \in Injection(ids, FreeSnaps)
  BY DEF Fresh, ExistsInjection
<1> QED BY <1>1 DEF Injection, IsInjective, IsFresh

Making(r, list, held, ids, f) ==
  /\ vol' = [vol EXCEPT ![r] = [state |-> "live", list |-> list]]
  /\ lists' = [lists EXCEPT ![r] = held]
  /\ snap' = [o \in SnapRefs |->
                IF \E s \in ids : f[s] = o
                THEN [state |-> "live", id |-> CHOOSE s \in ids : f[s] = o, vol |-> r]
                ELSE snap[o]]
  /\ list \in {r, None}
  /\ held = IF list = r THEN {f[s] : s \in ids} ELSE {}

AreMade(r, ids, f) ==
  \A s \in ids : /\ f[s] \in FreeSnaps
                 /\ snap'[f[s]].state = "live" /\ snap'[f[s]].id = s /\ snap'[f[s]].vol = r

LEMMA MadeTyped ==
  ASSUME Typed, NEW r \in FreeVols, NEW ids, NEW f, IsFresh(f, ids),
         NEW list, NEW held, Making(r, list, held, ids, f)
  PROVE  /\ vol' \in [VolRefs -> VolObject] /\ lists' \in [VolRefs -> SUBSET SnapRefs]
         /\ snap' \in [SnapRefs -> SnapObject \cup {FreeSnap}]
         /\ ListsUsed'
         /\ vol'[r] = [state |-> "live", list |-> list]
         /\ \A q \in VolRefs \ {r} : vol'[q] = vol[q] /\ lists'[q] = lists[q]
         /\ lists'[r] = held
         /\ AreMade(r, ids, f)
         /\ \A o \in SnapRefs : (\A s \in ids : f[s] # o) => snap'[o] = snap[o]
         /\ \A o \in UsedSnaps : snap'[o] = snap[o]
<1>1. r \in VolRefs
  BY DEF FreeVols
<1> ids \subseteq Snaps /\ f \in [ids -> FreeSnaps] /\ \A s, t \in ids : f[s] = f[t] => s = t
  BY DEF IsFresh
<1>2. [state |-> "live", list |-> list] \in VolObject
  BY <1>1 DEF VolObject, Making
<1>3. vol' = [vol EXCEPT ![r] = [state |-> "live", list |-> list]]
  BY DEF Making
<1>4. /\ vol' \in [VolRefs -> VolObject]
      /\ vol'[r] = [state |-> "live", list |-> list]
      /\ \A q \in VolRefs \ {r} : vol'[q] = vol[q]
  BY <1>1, <1>2, <1>3, TypedParts
<1>5. held \subseteq FreeSnaps /\ FreeSnaps \subseteq SnapRefs
  BY DEF FreeSnaps, Making
<1>6. lists' = [lists EXCEPT ![r] = held]
  BY DEF Making
<1>8. held \subseteq {f[s] : s \in ids}
  BY DEF Making
<1>9. /\ lists' \in [VolRefs -> SUBSET SnapRefs] /\ lists'[r] = held
      /\ \A q \in VolRefs \ {r} : lists'[q] = lists[q]
  BY <1>1, <1>5, <1>6, TypedParts
<1>10. ASSUME NEW s \in ids
       PROVE  /\ f[s] \in FreeSnaps
              /\ snap'[f[s]] = [state |-> "live", id |-> s, vol |-> r]
  <2>1. f[s] \in SnapRefs /\ f[s] \in FreeSnaps
    BY <1>5
  <2>2. snap'[f[s]] = [state |-> "live", id |-> CHOOSE t \in ids : f[t] = f[s], vol |-> r]
    BY <2>1 DEF Making
  <2>3. (CHOOSE t \in ids : f[t] = f[s]) = s
    OBVIOUS
  <2> QED BY <2>1, <2>2, <2>3
<1>11. ASSUME NEW o \in SnapRefs, \A s \in ids : f[s] # o
       PROVE  snap'[o] = snap[o]
  BY <1>11 DEF Making
<1>12. ASSUME NEW o \in UsedSnaps
       PROVE  snap'[o] = snap[o]
  <2>1. o \in SnapRefs /\ o \notin FreeSnaps
    BY DEF UsedSnaps, FreeSnaps
  <2> QED BY <1>10, <1>11, <2>1
<1>13. snap' \in [SnapRefs -> SnapObject \cup {FreeSnap}]
  <2>1. ASSUME NEW o \in SnapRefs
        PROVE  snap'[o] \in SnapObject \cup {FreeSnap}
    <3>1. CASE \A s \in ids : f[s] # o
      BY <1>11, <3>1, TypedParts
    <3>2. CASE \E s \in ids : f[s] = o
      <4>1. PICK s \in ids : f[s] = o
        BY <3>2
      <4>2. snap'[o] = [state |-> "live", id |-> s, vol |-> r] /\ s \in Snaps
        BY <1>10, <4>1
      <4> QED BY <1>1, <4>2 DEF SnapObject
    <3> QED BY <3>1, <3>2
  <2> QED BY <2>1 DEF Making
<1>14. ListsUsed'
  <2> SUFFICES ASSUME NEW q \in VolRefs, NEW o \in lists'[q] PROVE o \in UsedSnaps'
    BY DEF ListsUsed
  <2>1. CASE q = r
    <3>1. PICK s \in ids : o = f[s]
      BY <1>8, <1>9, <2>1
    <3>2. o \in SnapRefs /\ snap'[o] = [state |-> "live", id |-> s, vol |-> r]
      BY <1>5, <1>10, <3>1
    <3>3. snap'[o].state = "live"
      BY <3>2
    <3> QED BY <3>2, <3>3 DEF UsedSnaps
  <2>2. CASE q # r
    <3>1. o \in UsedSnaps
      BY <1>9, <2>2, TypedParts DEF ListsUsed
    <3>2. snap'[o] = snap[o]
      BY <1>12, <3>1
    <3> QED BY <3>1, <3>2 DEF UsedSnaps
  <2> QED BY <2>1, <2>2
<1>15. AreMade(r, ids, f)
  <2> SUFFICES ASSUME NEW s \in ids
               PROVE  /\ f[s] \in FreeSnaps /\ snap'[f[s]].state = "live"
                      /\ snap'[f[s]].id = s /\ snap'[f[s]].vol = r
    BY DEF AreMade
  <2>1. f[s] \in FreeSnaps /\ snap'[f[s]] = [state |-> "live", id |-> s, vol |-> r]
    BY <1>10
  <2> QED BY <2>1
<1> QED BY <1>4, <1>9, <1>11, <1>12, <1>13, <1>14, <1>15

LEMMA LoadedVolume ==
  ASSUME Typed, NEW save \in BOOLEAN, LoadVolume(save)
  PROVE  \E r \in FreeVols, kids \in SUBSET Snaps : \E f, list, held :
           /\ kids = file.kids /\ (file.listed <=> list = r) /\ IsFresh(f, kids)
           /\ Making(r, list, held, kids, f)
           /\ volumes' = IF save THEN r ELSE volumes
           /\ snapshots' = IF save THEN Saved(f) ELSE snapshots
<1>1. PICK r \in FreeVols : r = CHOOSE q \in FreeVols : TRUE
  BY DEF LoadVolume
<1>2. file.listed \in BOOLEAN /\ file.kids \in SUBSET Snaps
  BY TypedParts DEF File
<1>3. PICK kids \in SUBSET Snaps : kids = file.kids
  BY <1>2
<1>4. PICK f : f = Fresh(kids)
  OBVIOUS
<1>5. IsFresh(f, kids)
  BY <1>3, <1>4, FreshOnes DEF LoadVolume
<1>6. PICK list, held : /\ list = IF file.listed THEN r ELSE None
                        /\ held = IF file.listed THEN {f[s] : s \in kids} ELSE {}
  OBVIOUS
<1>7. r \in VolRefs /\ None \notin VolRefs
  BY MemoryAssumption DEF FreeVols
<1>8. Made(r, file.listed, file.kids, file.kids, f)
  BY <1>1, <1>3, <1>4 DEF LoadVolume
<1>9. Making(r, list, held, kids, f)
  BY <1>3, <1>6, <1>7, <1>8 DEF Making, Made
<1>10. /\ volumes' = IF save THEN r ELSE volumes
       /\ snapshots' = IF save THEN Saved(f) ELSE snapshots
  BY <1>1, <1>3, <1>4 DEF LoadVolume
<1>11. file.listed <=> list = r
  BY <1>6, <1>7
<1> QED BY <1>3, <1>5, <1>9, <1>10, <1>11

LEMMA LoadVolumeTyped ==
  ASSUME Typed, NEW save \in BOOLEAN, LoadVolume(save)
  PROVE  Typed'
<1>1. PICK r \in FreeVols, kids \in SUBSET Snaps : \E f, list, held :
           /\ kids = file.kids /\ (file.listed <=> list = r) /\ IsFresh(f, kids)
           /\ Making(r, list, held, kids, f)
           /\ volumes' = IF save THEN r ELSE volumes
           /\ snapshots' = IF save THEN Saved(f) ELSE snapshots
  BY LoadedVolume
<1>2. PICK f, list, held :
           /\ IsFresh(f, kids)
           /\ Making(r, list, held, kids, f)
           /\ volumes' = IF save THEN r ELSE volumes
           /\ snapshots' = IF save THEN Saved(f) ELSE snapshots
  BY <1>1
<1> f \in [kids -> FreeSnaps]
  BY <1>2 DEF IsFresh
<1>3. /\ vol' \in [VolRefs -> VolObject] /\ lists' \in [VolRefs -> SUBSET SnapRefs]
      /\ snap' \in [SnapRefs -> SnapObject \cup {FreeSnap}]
      /\ ListsUsed'
      /\ AreMade(r, kids, f)
      /\ \A o \in UsedSnaps : snap'[o] = snap[o]
  BY <1>2, MadeTyped
<1>4. r \in VolRefs /\ FreeSnaps \subseteq SnapRefs
  BY DEF FreeVols, FreeSnaps
<1>5. snapshots' \in [Snaps -> SnapRefs \cup {None}]
  BY <1>2, <1>4, TypedParts DEF Saved
<1>6. StoredUnderId'
  <2> SUFFICES ASSUME NEW s \in Snaps, snapshots'[s] # None PROVE snap'[snapshots'[s]].id = s
    BY DEF StoredUnderId
  <2>1. CASE save /\ s \in kids
    <3>1. snapshots'[s] = f[s]
      BY <1>2, <2>1 DEF Saved
    <3>2. snap'[f[s]].id = s
      BY <1>3, <2>1 DEF AreMade
    <3> QED BY <3>1, <3>2
  <2>2. CASE ~(save /\ s \in kids)
    <3>1. snapshots'[s] = snapshots[s]
      BY <1>2, <2>2, TypedParts DEF Saved
    <3>2. snapshots[s] \in Stored
      BY <3>1 DEF Stored
    <3>3. snap'[snapshots[s]] = snap[snapshots[s]]
      BY <1>3, <3>2, StoredUsed DEF Typed
    <3> QED BY <3>1, <3>3, TypedParts DEF StoredUnderId
  <2> QED BY <2>1, <2>2
<1>7. volumes' \in VolRefs \cup {None}
  BY <1>2, <1>4, TypedParts
<1>8. UNCHANGED <<known, used, file, restarts>> /\ mixed' \in BOOLEAN
  BY DEF LoadVolume
<1> QED BY <1>3, <1>5, <1>6, <1>7, <1>8, TypedParts, PartsTyped

LEMMA LoadSnapshotTyped ==
  ASSUME Typed, NEW save \in BOOLEAN, LoadSnapshot(save)
  PROVE  Typed'
<1>1. PICK r \in FreeVols : r = CHOOSE q \in FreeVols : TRUE
  BY DEF LoadSnapshot
<1>2. file.kids \in SUBSET Snaps /\ file.root \in Snaps
  BY TypedParts DEF File, LoadSnapshot
<1>3. PICK root \in Snaps, ids \in SUBSET Snaps : root = file.root /\ ids = file.kids \cup {file.root}
  BY <1>2
<1>4. PICK f : f = Fresh(ids) /\ IsFresh(f, ids)
  BY <1>3, FreshOnes DEF LoadSnapshot
<1> f \in [ids -> FreeSnaps]
  BY <1>4 DEF IsFresh
<1>5. /\ Made(r, file.listed, ids, ids, f)
      /\ snapshots' = IF save THEN [snapshots EXCEPT ![root] = f[root]] ELSE snapshots
      /\ mixed' = TRUE
      /\ UNCHANGED <<volumes, known, used, file, restarts>>
  BY <1>1, <1>3, <1>4 DEF LoadSnapshot
<1>6. root \in ids
  BY <1>3
<1>10. PICK list, held : Making(r, list, held, ids, f)
  <2>1. r \in VolRefs /\ None \notin VolRefs
    BY MemoryAssumption DEF FreeVols
  <2>2. PICK list, held : /\ list = IF file.listed THEN r ELSE None
                          /\ held = IF file.listed THEN {f[s] : s \in ids} ELSE {}
    OBVIOUS
  <2>3. Making(r, list, held, ids, f)
    BY <1>5, <2>1, <2>2 DEF Making, Made
  <2> QED BY <2>3
<1>7. /\ vol' \in [VolRefs -> VolObject] /\ lists' \in [VolRefs -> SUBSET SnapRefs]
      /\ snap' \in [SnapRefs -> SnapObject \cup {FreeSnap}]
      /\ ListsUsed'
      /\ AreMade(r, ids, f)
      /\ \A o \in UsedSnaps : snap'[o] = snap[o]
  BY <1>4, <1>10, MadeTyped
<1>8. f[root] \in SnapRefs
  BY <1>6 DEF FreeSnaps
<1>9. snapshots' \in [Snaps -> SnapRefs \cup {None}]
  BY <1>5, <1>8, TypedParts
<1>11. StoredUnderId'
  <2> SUFFICES ASSUME NEW s \in Snaps, snapshots'[s] # None PROVE snap'[snapshots'[s]].id = s
    BY DEF StoredUnderId
  <2>1. CASE save /\ s = root
    <3>1. snapshots'[s] = f[s]
      BY <1>5, <2>1, TypedParts
    <3>2. snap'[f[s]].id = s
      BY <1>6, <1>7, <2>1 DEF AreMade
    <3> QED BY <3>1, <3>2
  <2>2. CASE ~(save /\ s = root)
    <3>1. snapshots'[s] = snapshots[s]
      BY <1>5, <2>2, TypedParts
    <3>2. snapshots[s] \in Stored
      BY <3>1 DEF Stored
    <3>3. snap'[snapshots[s]] = snap[snapshots[s]]
      BY <1>7, <3>2, StoredUsed DEF Typed
    <3> QED BY <3>1, <3>3, TypedParts DEF StoredUnderId
  <2> QED BY <2>1, <2>2
<1> QED BY <1>5, <1>7, <1>9, <1>11, TypedParts, PartsTyped

LEMMA NextTyped == Typed /\ [Next]_vars => Typed'
<1> SUFFICES ASSUME Typed, [Next]_vars PROVE Typed'
  OBVIOUS
<1>1. ASSUME NEW r \in VolRefs, VolumeStep(r) PROVE Typed'
  <2>1. CASE \E simplified \in BOOLEAN : ToJson(r, simplified)
    BY <2>1, ToJsonTyped
  <2>2. CASE \E s \in Snaps, made \in BOOLEAN : CreateSnapshot(r, s, made)
    BY <2>2, CreateSnapshotTyped
  <2> QED BY <1>1, <2>1, <2>2, ReadSnapshotsTyped, DeleteVolumeTyped, DeleteVolumeRaisesTyped,
             SaveTyped, RefreshStoredTyped, RefreshOtherTyped, DumpTyped DEF VolumeStep
<1>2. ASSUME NEW o \in SnapRefs, SnapshotStep(o) PROVE Typed'
  BY <1>2, DeleteSnapshotTyped, DeleteSnapshotRaisesTyped, RefreshSnapshotTyped,
     DumpSnapshotTyped DEF SnapshotStep
<1>3. ASSUME NEW save \in BOOLEAN, LoadVolume(save) \/ LoadSnapshot(save) PROVE Typed'
  BY <1>3, LoadVolumeTyped, LoadSnapshotTyped
<1>4. CASE UNCHANGED vars
  <2>1. UNCHANGED <<vol, lists, snap, volumes, snapshots, known, used, file, mixed, restarts>>
    BY <1>4 DEF vars
  <2> QED BY <2>1, TypedParts, PartsTyped, SameSnapshots
<1> QED BY <1>1, <1>2, <1>3, <1>4, RestartTyped DEF Next

LEMMA AlwaysTyped == Spec => []Typed
BY InitTyped, NextTyped, PTL DEF Spec

(* The objects that the store keeps are those of its snapshots, one for each *)
(* id (memory.py:22-108), whatever the program does with them.               *)
THEOREM StoreIsTyped == Spec => []TypeOK
<1>1. Typed => TypeOK
  BY DEF Typed
<1> QED BY <1>1, AlwaysTyped, PTL

-----------------------------------------------------------------------------
(* What the store keeps as long as the program has loaded all that is        *)
(* stored: there is one volume object, whose list and whose store are two    *)
(* records of the same snapshots; the file has all that it says was stored.  *)

IdsUsed ==
  /\ \A o \in UsedSnaps : snap[o].id \in used
  /\ file.kids \subseteq used /\ file.root \in used \cup {None, "volume"}
FileWhole == file.stock \subseteq file.kids

OneVolume == \A q, r \in UsedVols : q = r
OwnIds == \A o, u \in UsedSnaps : snap[o].id = snap[u].id => o = u
Links ==
  /\ volumes # None => volumes \in UsedVols
  /\ \A o \in UsedSnaps : snap[o].vol \in UsedVols
  /\ \A r \in VolRefs : vol[r].list \in {None, r}
StoredAreHeld == Stored = {o \in SnapRefs : snap[o].state \in {"live", "hollow"}}
ListHolds ==
  \A r \in VolRefs : LiveVol(r) /\ Loaded(r) =>
    /\ Stored \subseteq lists[r]
    /\ (\A o \in SnapRefs : ~Hollow(o)) => lists[r] = Stored
KnownKept == known \subseteq IF UsedVols = {} THEN file.stock ELSE StoredIds
Plain == OneVolume /\ OwnIds /\ Links /\ StoredAreHeld /\ ListHolds /\ KnownKept

StoreInv == Typed /\ IdsUsed /\ FileWhole /\ (~mixed => Plain)

LEMMA InitStore == Init => StoreInv
<1> SUFFICES ASSUME Init PROVE StoreInv
  OBVIOUS
<1>1. Typed
  BY InitTyped
<1>2. /\ lists = [r \in VolRefs |-> {}] /\ snap = [o \in SnapRefs |-> FreeSnap]
      /\ snapshots = [s \in Snaps |-> None] /\ known = {} /\ file = NoFile
  BY DEF Init
<1>3. volumes \in VolRefs
  BY MemoryAssumption DEF Init
<1>4. \A o \in SnapRefs : snap[o].state = "free"
  BY <1>2 DEF FreeSnap
<1>5. UsedSnaps = {} /\ Stored = {}
  BY <1>2, <1>4 DEF UsedSnaps, Stored
<1>6. PICK list \in {volumes, None} :
        vol = [r \in VolRefs |-> IF r = volumes THEN [state |-> "live", list |-> list] ELSE FreeVol]
  BY DEF Init
<1>7. /\ vol[volumes].state = "live" /\ vol[volumes].list \in {None, volumes}
      /\ \A r \in VolRefs \ {volumes} : vol[r].state = "free" /\ vol[r].list = None
  BY <1>3, <1>6 DEF FreeVol
<1>8. UsedVols = {volumes}
  BY <1>3, <1>7 DEF UsedVols
<1>9. Links /\ OneVolume /\ OwnIds
  BY <1>3, <1>5, <1>7, <1>8 DEF Links, OneVolume, OwnIds
<1>10. StoredAreHeld
  BY <1>4, <1>5 DEF StoredAreHeld
<1>11. ListHolds
  BY <1>2, <1>5 DEF ListHolds
<1>12. KnownKept
  BY <1>2 DEF KnownKept
<1>13. IdsUsed /\ FileWhole
  BY <1>2, <1>5 DEF IdsUsed, FileWhole, NoFile
<1> QED BY <1>1, <1>9, <1>10, <1>11, <1>12, <1>13 DEF StoreInv, Plain

(* An operation that gives out no id, and writes only ids of its objects.    *)
LEMMA NoNewIds ==
  ASSUME IdsUsed, UsedSnaps' \subseteq UsedSnaps, \A o \in UsedSnaps' : snap'[o].id = snap[o].id,
         used' = used, file'.kids \subseteq used, file'.root \in used \cup {None, "volume"}
  PROVE  IdsUsed'
BY DEF IdsUsed

LEMMA SameFile ==
  ASSUME FileWhole, file' = file
  PROVE  FileWhole'
BY DEF FileWhole

LEMMA StoredIdsAreIds ==
  ASSUME Typed
  PROVE  StoredIds = Ids(Stored)
<1>1. \A s \in StoredIds : snapshots[s] \in Stored /\ snap[snapshots[s]].id = s
  BY TypedParts DEF StoredIds, Stored, StoredUnderId
<1>2. StoredIds \subseteq Ids(Stored)
  BY <1>1 DEF Ids
<1>3. ASSUME NEW o \in Stored PROVE snap[o].id \in StoredIds
  <2>1. PICK s \in Snaps : o = snapshots[s] /\ o # None
    BY DEF Stored
  <2>2. snap[o].id = s
    BY <2>1, TypedParts DEF StoredUnderId
  <2> QED BY <2>1, <2>2 DEF StoredIds
<1> QED BY <1>2, <1>3 DEF Ids

LEMMA UsedIds ==
  ASSUME IdsUsed, NEW objects \in SUBSET UsedSnaps
  PROVE  Ids(objects) \subseteq used
BY DEF IdsUsed, Ids

(* Reading a list that is not there: it becomes what is stored.              *)
LEMMA ReadPlain ==
  ASSUME Typed, Plain, NEW r \in VolRefs, LiveVol(r), Read(r), volumes' \in {volumes, r},
         UNCHANGED <<snapshots, known>>
  PROVE  Plain'
<1>1. /\ \A q \in VolRefs : vol'[q].state = vol[q].state
      /\ \A o \in SnapRefs : snap'[o].state = snap[o].state /\ snap'[o].id = snap[o].id
      /\ \A o \in SnapRefs : snap'[o] = snap[o] \/ snap'[o].vol = r
      /\ UsedSnaps' = UsedSnaps
      /\ \A q \in VolRefs \ {r} : vol'[q] = vol[q] /\ lists'[q] = lists[q]
      /\ IF Loaded(r) THEN UNCHANGED <<vol, lists, snap>>
                      ELSE vol'[r].list = r /\ lists'[r] = Stored
  BY Reading
<1>2. UsedVols' = UsedVols /\ r \in UsedVols
  BY <1>1 DEF UsedVols, LiveVol
<1>3. Stored' = Stored /\ StoredIds' = StoredIds
  BY DEF Stored, StoredIds
<1>4. OneVolume'
  BY <1>2 DEF Plain, OneVolume
<1>5. OwnIds'
  BY <1>1 DEF Plain, OwnIds, UsedSnaps
<1>6. Links'
  <2>1. volumes' # None => volumes' \in UsedVols'
    BY <1>2 DEF Plain, Links
  <2>2. \A o \in UsedSnaps' : snap'[o].vol \in UsedVols'
    BY <1>1, <1>2 DEF Plain, Links, UsedSnaps
  <2>3. \A q \in VolRefs : vol'[q].list \in {None, q}
    BY <1>1 DEF Plain, Links
  <2> QED BY <2>1, <2>2, <2>3 DEF Links
<1>7. StoredAreHeld'
  BY <1>1, <1>3 DEF Plain, StoredAreHeld
<1>8. ListHolds'
  <2> SUFFICES ASSUME NEW q \in VolRefs, LiveVol(q)', Loaded(q)'
               PROVE  /\ Stored' \subseteq lists'[q]
                      /\ (\A o \in SnapRefs : ~Hollow(o)') => lists'[q] = Stored'
    BY DEF ListHolds
  <2>1. q \in UsedVols
    BY <1>1 DEF LiveVol, UsedVols
  <2>2. q = r
    BY <1>2, <2>1 DEF Plain, OneVolume
  <2>3. CASE Loaded(r)
    BY <1>1, <1>3, <2>2, <2>3 DEF Plain, ListHolds, Hollow
  <2>4. CASE ~Loaded(r)
    BY <1>1, <1>3, <2>2, <2>4
  <2> QED BY <2>3, <2>4
<1>9. KnownKept'
  BY <1>2, <1>3 DEF Plain, KnownKept
<1> QED BY <1>4, <1>5, <1>6, <1>7, <1>8, <1>9 DEF Plain

(* What is read of a volume that is used is stored, and all of it.           *)
LEMMA ListIsWhole ==
  ASSUME Typed, Plain, NEW r \in VolRefs, LiveVol(r)
  PROVE  Stored \subseteq ListOf(r)
<1>1. CASE Loaded(r)
  <2>1. vol[r].list = r
    BY <1>1 DEF Plain, Links, Loaded
  <2> QED BY <1>1, <2>1 DEF Plain, ListHolds, ListOf
<1>2. CASE ~Loaded(r)
  BY <1>2 DEF ListOf
<1> QED BY <1>1, <1>2

LEMMA ReadSnapshotsStore ==
  ASSUME StoreInv, NEW r \in VolRefs, ReadSnapshots(r)
  PROVE  StoreInv'
<1>1. /\ LiveVol(r) /\ Read(r)
      /\ UNCHANGED <<volumes, snapshots, known, used, file, mixed, restarts>>
  BY DEF ReadSnapshots
<1>2. UsedSnaps' = UsedSnaps /\ \A o \in SnapRefs : snap'[o].id = snap[o].id
  BY <1>1, Reading DEF StoreInv
<1>3. IdsUsed'
  BY <1>1, <1>2, NoNewIds DEF StoreInv, IdsUsed, UsedSnaps
<1>4. ~mixed' => Plain'
  BY <1>1, ReadPlain DEF StoreInv
<1> QED BY <1>1, <1>3, <1>4, ReadSnapshotsTyped, SameFile DEF StoreInv

LEMMA DeleteVolumeRaisesStore ==
  ASSUME StoreInv, NEW r \in VolRefs, DeleteVolumeRaises(r)
  PROVE  StoreInv'
<1>1. /\ LiveVol(r) /\ Read(r) /\ volumes' = r
      /\ UNCHANGED <<snapshots, known, used, file, mixed, restarts>>
  BY DEF DeleteVolumeRaises
<1>2. UsedSnaps' = UsedSnaps /\ \A o \in SnapRefs : snap'[o].id = snap[o].id
  BY <1>1, Reading DEF StoreInv
<1>3. IdsUsed'
  BY <1>1, <1>2, NoNewIds DEF StoreInv, IdsUsed, UsedSnaps
<1>4. ~mixed' => Plain'
  BY <1>1, ReadPlain DEF StoreInv
<1> QED BY <1>1, <1>3, <1>4, DeleteVolumeRaisesTyped, SameFile DEF StoreInv

LEMMA DumpStore ==
  ASSUME StoreInv, NEW r \in VolRefs, Dump(r)
  PROVE  StoreInv'
<1> DEFINE listed == vol'[r].list # None
           kids == IF listed THEN Ids(lists'[vol'[r].list]) ELSE {}
<1>1. /\ LiveVol(r) /\ Read(r) /\ Written("volume", listed, kids, StoredIds)
      /\ UNCHANGED <<volumes, snapshots, known, used, mixed, restarts>>
  BY DEF Dump, DumpReads
<1>2. /\ UsedSnaps' = UsedSnaps /\ \A o \in SnapRefs : snap'[o].id = snap[o].id
      /\ vol' \in [VolRefs -> VolObject]
      /\ \A q \in VolRefs : lists'[q] \subseteq UsedSnaps
      /\ IF Loaded(r) THEN UNCHANGED <<vol, lists, snap>>
                      ELSE vol'[r].list = r /\ lists'[r] = Stored
  BY <1>1, Reading DEF StoreInv
<1>3. ASSUME listed PROVE lists'[vol'[r].list] \subseteq UsedSnaps
  <2>1. vol'[r].list \in VolRefs
    BY <1>2, <1>3 DEF VolObject
  <2> QED BY <1>2, <2>1
<1>4. kids \subseteq used
  BY <1>3, UsedIds DEF StoreInv
<1>5. ASSUME ~mixed PROVE StoredIds \subseteq kids
  <2>1. listed /\ lists'[vol'[r].list] = ListOf(r)
    <3>1. r # None
      BY MemoryAssumption
    <3>2. CASE Loaded(r)
      BY <1>2, <3>2 DEF Loaded, ListOf
    <3>3. CASE ~Loaded(r)
      BY <1>2, <3>1, <3>3 DEF ListOf
    <3> QED BY <3>2, <3>3
  <2>2. Stored \subseteq ListOf(r)
    BY <1>1, <1>5, ListIsWhole DEF StoreInv
  <2>3. Ids(Stored) \subseteq Ids(ListOf(r))
    BY <2>2 DEF Ids
  <2> QED BY <2>1, <2>3, StoredIdsAreIds DEF StoreInv
<1> HIDE DEF kids, listed
<1>6. /\ file'.kids = kids /\ file'.root = "volume"
      /\ file'.stock = IF mixed THEN {} ELSE StoredIds \cap known
  BY <1>1 DEF Written
<1>7. FileWhole'
  BY <1>5, <1>6 DEF FileWhole
<1>8. IdsUsed'
  BY <1>1, <1>2, <1>4, <1>6, NoNewIds DEF StoreInv, UsedSnaps
<1>9. ~mixed' => Plain'
  BY <1>1, ReadPlain DEF StoreInv
<1> QED BY <1>7, <1>8, <1>9, DumpTyped DEF StoreInv

(* Writing, and other operations that leave the objects and the store alone. *)
LEMMA SameObjects ==
  ASSUME Plain, UNCHANGED <<vol, lists, snap, snapshots, known>>,
         volumes' # None => volumes' \in UsedVols, UsedVols # {}
  PROVE  Plain'
<1>1. UsedVols' = UsedVols /\ UsedSnaps' = UsedSnaps /\ Stored' = Stored /\ StoredIds' = StoredIds
  BY DEF UsedVols, UsedSnaps, Stored, StoredIds
<1>2. OneVolume' /\ OwnIds'
  BY <1>1 DEF Plain, OneVolume, OwnIds
<1>3. Links'
  BY <1>1 DEF Plain, Links
<1>4. StoredAreHeld' /\ ListHolds'
  BY <1>1 DEF Plain, StoredAreHeld, ListHolds, LiveVol, Loaded, Hollow
<1>5. KnownKept'
  BY <1>1 DEF Plain, KnownKept
<1> QED BY <1>2, <1>3, <1>4, <1>5 DEF Plain

LEMMA SaveStore ==
  ASSUME StoreInv, NEW r \in VolRefs, Save(r)
  PROVE  StoreInv'
<1>1. /\ LiveVol(r) /\ volumes' = r
      /\ UNCHANGED <<vol, lists, snap, snapshots, known, used, file, mixed, restarts>>
  BY DEF Save
<1>2. r \in UsedVols
  BY <1>1 DEF LiveVol, UsedVols
<1>3. IdsUsed'
  BY <1>1, NoNewIds DEF StoreInv, IdsUsed, UsedSnaps
<1>4. ~mixed' => Plain'
  BY <1>1, <1>2, SameObjects DEF StoreInv
<1> QED BY <1>1, <1>3, <1>4, SaveTyped, SameFile DEF StoreInv

LEMMA ToJsonStore ==
  ASSUME StoreInv, NEW r \in VolRefs, NEW simplified \in BOOLEAN, ToJson(r, simplified)
  PROVE  StoreInv'
<1> DEFINE listed == Loaded(r) /\ ~simplified
           kids == IF listed THEN Ids(ListOf(r)) ELSE {}
           stock == IF listed THEN StoredIds ELSE {}
<1>1. /\ LiveVol(r) /\ Written("volume", listed, kids, stock)
      /\ UNCHANGED <<vol, lists, snap, volumes, snapshots, known, used, mixed, restarts>>
  BY DEF ToJson
<1>2. kids \subseteq used
  BY ListTyped, UsedIds DEF StoreInv
<1>3. ASSUME ~mixed PROVE stock \subseteq kids
  <2>1. Stored \subseteq ListOf(r)
    BY <1>1, <1>3, ListIsWhole DEF StoreInv
  <2>2. Ids(Stored) \subseteq Ids(ListOf(r))
    BY <2>1 DEF Ids
  <2> QED BY <2>2, StoredIdsAreIds DEF StoreInv
<1> HIDE DEF kids, listed, stock
<1>4. /\ file'.kids = kids /\ file'.root = "volume"
      /\ file'.stock = IF mixed THEN {} ELSE stock \cap known
  BY <1>1 DEF Written
<1>5. FileWhole'
  BY <1>3, <1>4 DEF FileWhole
<1>6. IdsUsed'
  BY <1>1, <1>2, <1>4, NoNewIds DEF StoreInv, UsedSnaps
<1>7. r \in UsedVols
  BY <1>1 DEF LiveVol, UsedVols
<1>8. ~mixed' => Plain'
  BY <1>1, <1>7, SameObjects DEF StoreInv, Plain, Links
<1> QED BY <1>5, <1>6, <1>8, ToJsonTyped DEF StoreInv

LEMMA DumpSnapshotStore ==
  ASSUME StoreInv, NEW o \in SnapRefs, DumpSnapshot(o)
  PROVE  StoreInv'
<1> DEFINE r == snap[o].vol
           kids == IF Loaded(r) THEN Ids(ListOf(r) \ {o}) ELSE {}
<1>1. /\ LiveSnap(o) /\ Written(snap[o].id, Loaded(r), kids, {})
      /\ UNCHANGED <<vol, lists, snap, volumes, snapshots, known, used, mixed, restarts>>
  BY DEF DumpSnapshot
<1>2. o \in UsedSnaps /\ r \in VolRefs
  BY <1>1, UsedTyped DEF LiveSnap, UsedSnaps, StoreInv, Typed
<1>3. ListOf(r) \ {o} \subseteq UsedSnaps
  BY <1>2, ListTyped DEF StoreInv
<1>4. kids \subseteq used /\ snap[o].id \in used
  BY <1>2, <1>3, UsedIds DEF StoreInv, IdsUsed
<1> HIDE DEF kids
<1>5. file'.kids = kids /\ file'.root = snap[o].id /\ file'.stock = {}
  BY <1>1 DEF Written
<1>6. FileWhole'
  BY <1>5 DEF FileWhole
<1>7. IdsUsed'
  BY <1>1, <1>4, <1>5, NoNewIds DEF StoreInv, UsedSnaps
<1>8. ~mixed' => Plain'
  BY <1>1, <1>2, SameObjects DEF StoreInv, Plain, Links
<1> QED BY <1>6, <1>7, <1>8, DumpSnapshotTyped DEF StoreInv

(* An object of the volume that is gone, or whose attributes are, is used.   *)
LEMMA VolumeGone ==
  ASSUME Typed, Plain, NEW r \in VolRefs, LiveVol(r), vol' \in [VolRefs -> VolObject],
         vol'[r].state \in {"hollow", "deleted"}, vol'[r].list \in {None, r},
         \A q \in VolRefs \ {r} : vol'[q] = vol[q],
         volumes' \in {None, volumes}, UNCHANGED <<lists, snap, snapshots, known>>
  PROVE  Plain'
<1>1. UsedVols' = UsedVols /\ r \in UsedVols
  BY DEF UsedVols, LiveVol
<1>2. UsedSnaps' = UsedSnaps /\ Stored' = Stored /\ StoredIds' = StoredIds
  BY DEF UsedSnaps, Stored, StoredIds
<1>3. OneVolume' /\ OwnIds'
  BY <1>1, <1>2 DEF Plain, OneVolume, OwnIds
<1>4. Links'
  BY <1>1, <1>2 DEF Plain, Links
<1>5. StoredAreHeld' /\ KnownKept'
  BY <1>1, <1>2 DEF Plain, StoredAreHeld, KnownKept
<1>6. \A q \in VolRefs : ~LiveVol(q)'
  <2> SUFFICES ASSUME NEW q \in VolRefs, LiveVol(q)' PROVE FALSE
    OBVIOUS
  <2>1. q # r /\ LiveVol(q)
    BY DEF LiveVol
  <2>2. q \in UsedVols
    BY <2>1 DEF LiveVol, UsedVols
  <2> QED BY <1>1, <2>1, <2>2 DEF Plain, OneVolume
<1>7. ListHolds'
  BY <1>6 DEF ListHolds
<1> QED BY <1>3, <1>4, <1>5, <1>7 DEF Plain

LEMMA DeleteVolumeStore ==
  ASSUME StoreInv, NEW r \in VolRefs, DeleteVolume(r)
  PROVE  StoreInv'
<1>1. /\ LiveVol(r) /\ volumes' = None
      /\ vol' = [vol EXCEPT ![r] = [state |-> "deleted", list |-> IF Loaded(r) THEN vol[r].list ELSE r]]
      /\ UNCHANGED <<lists, snap, snapshots, known, used, file, mixed, restarts>>
  BY DEF DeleteVolume
<1>2. Typed' /\ vol' \in [VolRefs -> VolObject]
  <2>1. Typed'
    BY DeleteVolumeTyped DEF StoreInv
  <2> QED BY <2>1 DEF Typed, TypeOK, VolObject
<1>3. /\ vol'[r] = [state |-> "deleted", list |-> IF Loaded(r) THEN vol[r].list ELSE r]
      /\ \A q \in VolRefs \ {r} : vol'[q] = vol[q]
  BY <1>1, TypedParts DEF StoreInv
<1>4. IdsUsed'
  BY <1>1, NoNewIds DEF StoreInv, IdsUsed, UsedSnaps
<1>5. ASSUME ~mixed' PROVE Plain'
  <2>1. Plain
    BY <1>1, <1>5 DEF StoreInv
  <2>2. vol'[r].state \in {"hollow", "deleted"} /\ vol'[r].list \in {None, r}
    BY <1>3, <2>1 DEF Plain, Links
  <2> QED BY <1>1, <1>2, <1>3, <2>1, <2>2, VolumeGone DEF StoreInv
<1> QED BY <1>1, <1>2, <1>4, <1>5, SameFile DEF StoreInv

LEMMA RefreshStoredStore ==
  ASSUME StoreInv, NEW r \in VolRefs, RefreshStored(r)
  PROVE  StoreInv'
<1>1. /\ LiveVol(r) /\ vol' = [vol EXCEPT ![r].state = "hollow"]
      /\ UNCHANGED <<lists, snap, volumes, snapshots, known, used, file, mixed, restarts>>
  BY DEF RefreshStored
<1>2. Typed' /\ vol' \in [VolRefs -> VolObject]
  <2>1. Typed'
    BY RefreshStoredTyped DEF StoreInv
  <2> QED BY <2>1 DEF Typed, TypeOK, VolObject
<1>3. vol \in [VolRefs -> VolObject]
  BY TypedParts DEF StoreInv
<1>4. /\ vol'[r].state = "hollow" /\ vol'[r].list = vol[r].list
      /\ \A q \in VolRefs \ {r} : vol'[q] = vol[q]
  BY <1>1, <1>3 DEF VolObject
<1>5. IdsUsed'
  BY <1>1, NoNewIds DEF StoreInv, IdsUsed, UsedSnaps
<1>6. ASSUME ~mixed' PROVE Plain'
  <2>1. Plain
    BY <1>1, <1>6 DEF StoreInv
  <2>2. vol'[r].state \in {"hollow", "deleted"} /\ vol'[r].list \in {None, r}
    BY <1>4, <2>1 DEF Plain, Links
  <2> QED BY <1>1, <1>2, <1>4, <2>1, <2>2, VolumeGone DEF StoreInv
<1> QED BY <1>1, <1>2, <1>5, <1>6, SameFile DEF StoreInv

(* It takes two volume objects.                                              *)
LEMMA RefreshOtherStore ==
  ASSUME StoreInv, NEW r \in VolRefs, RefreshOther(r)
  PROVE  StoreInv'
<1>1. /\ LiveVol(r) /\ LiveVol(volumes) /\ volumes \in VolRefs /\ volumes # r
      /\ UNCHANGED <<volumes, snapshots, known, used, file, mixed, restarts>>
  BY TypedParts DEF RefreshOther, StoreInv
<1>2. ~mixed => FALSE
  <2>1. r \in UsedVols /\ volumes \in UsedVols
    BY <1>1 DEF LiveVol, UsedVols
  <2> QED BY <1>1, <2>1 DEF StoreInv, Plain, OneVolume
<1>3. \A o \in SnapRefs : snap'[o].state = snap[o].state /\ snap'[o].id = snap[o].id
  BY <1>1, LinkedTyped DEF RefreshOther, StoreInv
<1>4. IdsUsed'
  BY <1>1, <1>3, NoNewIds DEF StoreInv, IdsUsed, UsedSnaps
<1> QED BY <1>1, <1>2, <1>4, RefreshOtherTyped, SameFile DEF StoreInv

LEMMA CreateSnapshotStore ==
  ASSUME StoreInv, NEW r \in VolRefs, NEW s \in Snaps, NEW made \in BOOLEAN,
         CreateSnapshot(r, s, made)
  PROVE  StoreInv'
<1>0. PICK o \in FreeSnaps : Inserts(r, s, o)
  <2>1. Typed
    BY DEF StoreInv
  <2> QED BY <2>1, NewSnapshot
<1>1. /\ snap' = [snap EXCEPT ![o] = [state |-> "live", id |-> s, vol |-> r]]
      /\ snapshots' = [snapshots EXCEPT ![s] = o]
      /\ lists' \in [VolRefs -> SUBSET SnapRefs]
      /\ \A q \in VolRefs : lists'[q] = IF Loaded(r) /\ q = vol[r].list THEN lists[q] \cup {o}
                                                                      ELSE lists[q]
  BY <1>0 DEF Inserts
<1>2. /\ LiveVol(r) /\ s \notin used /\ used' = used \cup {s}
      /\ known' \subseteq known \cup {s}
      /\ UNCHANGED <<vol, volumes, file, mixed, restarts>>
  BY DEF CreateSnapshot
<1>3. o \in SnapRefs /\ o \notin UsedSnaps /\ o # None
  BY MemoryAssumption DEF FreeSnaps, UsedSnaps
<1> DEFINE object == [state |-> "live", id |-> s, vol |-> r]
<1>4. object.state = "live" /\ object.id = s /\ object.vol = r
  OBVIOUS
<1>5. snap' = [snap EXCEPT ![o] = object]
  BY <1>1
<1> HIDE DEF object
<1>6. /\ snap'[o].state = "live" /\ snap'[o].id = s /\ snap'[o].vol = r
      /\ \A u \in SnapRefs \ {o} : snap'[u] = snap[u]
  BY <1>3, <1>4, <1>5, TypedParts DEF StoreInv
<1>7. UsedSnaps' = UsedSnaps \cup {o}
  BY <1>3, <1>6 DEF UsedSnaps
<1>8. \A u \in UsedSnaps : snap'[u] = snap[u] /\ snap[u].id \in used
  BY <1>3, <1>6 DEF UsedSnaps, StoreInv, IdsUsed
<1>9. IdsUsed'
  BY <1>2, <1>6, <1>7, <1>8 DEF IdsUsed, StoreInv
<1>10. ASSUME ~mixed' PROVE Plain'
  <2>1. Plain
    BY <1>2, <1>10 DEF StoreInv
  <2>2. UsedVols' = UsedVols /\ r \in UsedVols
    BY <1>2 DEF UsedVols, LiveVol
  <2>3. snapshots[s] = None
    <3>1. SUFFICES ASSUME snapshots[s] # None PROVE FALSE
      OBVIOUS
    <3>2. snapshots[s] \in UsedSnaps /\ snap[snapshots[s]].id = s
      BY <3>1, StoredUsed, TypedParts DEF Stored, StoreInv, StoredUnderId, Typed
    <3> QED BY <1>2, <1>8, <3>2
  <2>4. Stored' = Stored \cup {o}
    <3>1. snapshots \in [Snaps -> SnapRefs \cup {None}]
      BY TypedParts DEF StoreInv
    <3>2. snapshots'[s] = o /\ \A t \in Snaps \ {s} : snapshots'[t] = snapshots[t]
      BY <1>1, <3>1
    <3> QED BY <1>3, <2>3, <3>2 DEF Stored
  <2>5. StoredIds' = StoredIds \cup {s}
    BY <1>1, <1>3, TypedParts DEF StoredIds, StoreInv
  <2>6. OneVolume'
    BY <2>1, <2>2 DEF Plain, OneVolume
  <2>7. OwnIds'
    BY <1>2, <1>6, <1>7, <1>8, <2>1 DEF Plain, OwnIds
  <2>8. Links'
    BY <1>2, <1>6, <1>7, <1>8, <2>1, <2>2 DEF Plain, Links
  <2>9. StoredAreHeld'
    BY <1>3, <1>6, <2>1, <2>4 DEF Plain, StoredAreHeld
  <2>10. ListHolds'
    <3> SUFFICES ASSUME NEW q \in VolRefs, LiveVol(q)', Loaded(q)'
                 PROVE  /\ Stored' \subseteq lists'[q]
                        /\ (\A u \in SnapRefs : ~Hollow(u)') => lists'[q] = Stored'
      BY DEF ListHolds
    <3>1. LiveVol(q) /\ Loaded(q)
      BY <1>2 DEF LiveVol, Loaded
    <3>2. q = r /\ vol[r].list = r
      BY <2>1, <2>2, <3>1 DEF Plain, OneVolume, Links, UsedVols, LiveVol, Loaded
    <3>3. lists'[q] = lists[q] \cup {o}
      BY <1>1, <3>1, <3>2
    <3>4. /\ Stored \subseteq lists[q]
          /\ (\A u \in SnapRefs : ~Hollow(u)) => lists[q] = Stored
      BY <2>1, <3>1 DEF Plain, ListHolds
    <3>5. (\A u \in SnapRefs : ~Hollow(u)') => \A u \in SnapRefs : ~Hollow(u)
      BY <1>3, <1>6 DEF Hollow, UsedSnaps
    <3> QED BY <2>4, <3>3, <3>4, <3>5
  <2>11. KnownKept'
    BY <1>2, <2>1, <2>2, <2>5 DEF Plain, KnownKept
  <2> QED BY <2>6, <2>7, <2>8, <2>9, <2>10, <2>11 DEF Plain
<1> QED BY <1>2, <1>9, <1>10, CreateSnapshotTyped, SameFile DEF StoreInv

LEMMA DeleteSnapshotStore ==
  ASSUME StoreInv, NEW o \in SnapRefs, DeleteSnapshot(o)
  PROVE  StoreInv'
<1> DEFINE s == snap[o].id
           held == \E q \in VolRefs : o \in lists'[q]
           object == IF held THEN [snap[o] EXCEPT !.state = "deleted"] ELSE FreeSnap
<1>1. /\ o \in UsedSnaps /\ s \in Snaps /\ snap[o].vol \in VolRefs
      /\ \A q \in VolRefs : lists'[q] \subseteq lists[q]
      /\ \A q \in VolRefs : \A u \in lists[q] \ lists'[q] : snap[u].id = s
      /\ LET r == snap[o].vol IN
           LiveVol(r) /\ Loaded(r) /\ (\A u \in SnapRefs : ~Hollow(u)) =>
             lists'[vol[r].list] = {u \in lists[vol[r].list] : snap[u].id # s}
  BY RemovedFrom DEF StoreInv
<1>2. /\ LiveSnap(o) /\ known' = known \ {s} /\ snapshots' = [snapshots EXCEPT ![s] = None]
      /\ snap' = [snap EXCEPT ![o] = object]
      /\ UNCHANGED <<vol, volumes, used, file, mixed, restarts>>
  BY DEF DeleteSnapshot
<1>3. snap[o] \in SnapObject
  BY <1>1, UsedTyped DEF StoreInv, Typed
<1>4. /\ object.state \in {"deleted", "free"}
      /\ object.state # "free" => object.id = s /\ object.vol = snap[o].vol
  BY <1>3 DEF SnapObject, FreeSnap
<1> HIDE DEF object
<1>5. snap'[o] = object /\ \A u \in SnapRefs \ {o} : snap'[u] = snap[u]
  BY <1>2, TypedParts DEF StoreInv
<1>6. /\ UsedSnaps' \subseteq UsedSnaps
      /\ \A u \in UsedSnaps' : snap'[u].id = snap[u].id /\ snap'[u].vol = snap[u].vol
  BY <1>1, <1>4, <1>5 DEF UsedSnaps
<1>7. IdsUsed'
  BY <1>2, <1>6, NoNewIds DEF StoreInv, IdsUsed
<1>8. ASSUME ~mixed' PROVE Plain'
  <2>1. Plain
    BY <1>2, <1>8 DEF StoreInv
  <2>2. UsedVols' = UsedVols
    BY <1>2 DEF UsedVols
  <2>3. snapshots[s] = o
    BY <1>2, <2>1, StoredUsed DEF Plain, StoredAreHeld, LiveSnap, StoreInv, Typed
  <2>4. \A t \in Snaps \ {s} : snapshots'[t] = snapshots[t] /\ snapshots[t] # o
    BY <1>2, TypedParts, MemoryAssumption DEF StoreInv, StoredUnderId
  <2>5. snapshots'[s] = None
    BY <1>1, <1>2, TypedParts DEF StoreInv
  <2>6. Stored' = Stored \ {o}
    BY <1>1, <2>3, <2>4, <2>5 DEF Stored
  <2>7. StoredIds' = StoredIds \ {s}
    BY <2>4, <2>5 DEF StoredIds
  <2>8. OneVolume'
    BY <2>1, <2>2 DEF Plain, OneVolume
  <2>9. OwnIds'
    BY <1>6, <2>1 DEF Plain, OwnIds
  <2>10. Links'
    BY <1>2, <1>6, <2>1, <2>2 DEF Plain, Links
  <2>11. StoredAreHeld'
    BY <1>4, <1>5, <2>1, <2>6 DEF Plain, StoredAreHeld
  <2>12. ListHolds'
    <3> SUFFICES ASSUME NEW q \in VolRefs, LiveVol(q)', Loaded(q)'
                 PROVE  /\ Stored' \subseteq lists'[q]
                        /\ (\A u \in SnapRefs : ~Hollow(u)') => lists'[q] = Stored'
      BY DEF ListHolds
    <3>1. LiveVol(q) /\ Loaded(q)
      BY <1>2 DEF LiveVol, Loaded
    <3>2. q = snap[o].vol /\ vol[q].list = q
      BY <1>1, <2>1, <3>1 DEF Plain, OneVolume, Links, UsedVols, LiveVol, Loaded
    <3>3. /\ Stored \subseteq lists[q]
          /\ (\A u \in SnapRefs : ~Hollow(u)) => lists[q] = Stored
      BY <2>1, <3>1 DEF Plain, ListHolds
    <3>4. \A u \in lists[q] : snap[u].id = s => u = o
      BY <1>1, <2>1, TypedParts DEF Plain, OwnIds, StoreInv, ListsUsed
    <3>5. Stored' \subseteq lists'[q]
      BY <1>1, <2>6, <3>3, <3>4
    <3>6. ASSUME \A u \in SnapRefs : ~Hollow(u)'
          PROVE  lists'[q] = Stored'
      <4>1. \A u \in SnapRefs : ~Hollow(u)
        BY <1>2, <1>5, <3>6 DEF Hollow, LiveSnap
      <4>2. lists'[q] = {u \in lists[q] : snap[u].id # s} /\ lists[q] = Stored
        BY <1>1, <3>1, <3>2, <3>3, <4>1
      <4>3. snap[o].id = s
        OBVIOUS
      <4> QED BY <2>6, <3>4, <4>2, <4>3
    <3> QED BY <3>5, <3>6
  <2>13. KnownKept'
    <3>1. UsedVols # {}
      BY <1>1, <2>1 DEF Plain, Links
    <3> QED BY <1>2, <2>1, <2>2, <2>7, <3>1 DEF Plain, KnownKept
  <2> QED BY <2>8, <2>9, <2>10, <2>11, <2>12, <2>13 DEF Plain
<1> QED BY <1>2, <1>7, <1>8, DeleteSnapshotTyped, SameFile DEF StoreInv

LEMMA DeleteSnapshotRaisesStore ==
  ASSUME StoreInv, NEW o \in SnapRefs, DeleteSnapshotRaises(o)
  PROVE  StoreInv'
<1>1. /\ LiveSnap(o) /\ snapshots' = [snapshots EXCEPT ![snap[o].id] = o]
      /\ UNCHANGED <<vol, lists, snap, volumes, known, used, file, mixed, restarts>>
  BY DEF DeleteSnapshotRaises
<1>2. IdsUsed'
  BY <1>1, NoNewIds DEF StoreInv, IdsUsed, UsedSnaps
<1>3. ASSUME ~mixed' PROVE Plain'
  <2>1. Plain
    BY <1>1, <1>3 DEF StoreInv
  <2>2. snapshots[snap[o].id] = o
    BY <1>1, <2>1, StoredUsed DEF Plain, StoredAreHeld, LiveSnap, StoreInv, Typed
  <2>3. snapshots' = snapshots
    BY <1>1, <2>2, TypedParts DEF StoreInv
  <2>4. snap[o].vol \in UsedVols
    BY <1>1, <2>1 DEF Plain, Links, LiveSnap, UsedSnaps
  <2> QED BY <1>1, <2>1, <2>3, <2>4, SameObjects DEF Plain, Links
<1> QED BY <1>1, <1>2, <1>3, DeleteSnapshotRaisesTyped, SameFile DEF StoreInv

LEMMA RefreshSnapshotStore ==
  ASSUME StoreInv, NEW o \in SnapRefs, RefreshSnapshot(o)
  PROVE  StoreInv'
<1> DEFINE last == snapshots[snap[o].id]
           object == IF o = last THEN [snap[o] EXCEPT !.state = "hollow"]
                                 ELSE [snap[o] EXCEPT !.vol = snap[last].vol]
<1>1. /\ LiveSnap(o) /\ snap' = [snap EXCEPT ![o] = object]
      /\ UNCHANGED <<vol, lists, volumes, snapshots, known, used, file, mixed, restarts>>
  BY DEF RefreshSnapshot
<1>2. snap[o] \in SnapObject /\ o \in UsedSnaps
  BY <1>1, UsedTyped DEF StoreInv, Typed, LiveSnap, UsedSnaps
<1>3. /\ object.id = snap[o].id /\ object.state # "free"
      /\ o = last => object.state = "hollow" /\ object.vol = snap[o].vol
  BY <1>1, <1>2 DEF SnapObject, LiveSnap
<1> HIDE DEF object
<1>4. snap'[o] = object /\ \A u \in SnapRefs \ {o} : snap'[u] = snap[u]
  BY <1>1, TypedParts DEF StoreInv
<1>5. UsedSnaps' = UsedSnaps /\ \A u \in SnapRefs : snap'[u].id = snap[u].id
  BY <1>2, <1>3, <1>4 DEF UsedSnaps
<1>6. IdsUsed'
  BY <1>1, <1>5, NoNewIds DEF StoreInv, IdsUsed, UsedSnaps
<1>7. ASSUME ~mixed' PROVE Plain'
  <2>1. Plain
    BY <1>1, <1>7 DEF StoreInv
  <2>2. UsedVols' = UsedVols /\ Stored' = Stored /\ StoredIds' = StoredIds
    BY <1>1 DEF UsedVols, Stored, StoredIds
  <2>3. o = last
    BY <1>1, <2>1, StoredUsed DEF Plain, StoredAreHeld, LiveSnap, StoreInv, Typed
  <2>4. \A u \in SnapRefs : snap'[u].vol = snap[u].vol
    BY <1>3, <1>4, <2>3
  <2>5. OneVolume' /\ OwnIds'
    BY <1>5, <2>1, <2>2 DEF Plain, OneVolume, OwnIds, UsedSnaps
  <2>6. Links'
    BY <1>1, <1>5, <2>1, <2>2, <2>4 DEF Plain, Links, UsedSnaps
  <2>7. StoredAreHeld'
    BY <1>1, <1>3, <1>4, <2>1, <2>2, <2>3 DEF Plain, StoredAreHeld, LiveSnap
  <2>8. ListHolds'
    <3>1. Hollow(o)'
      BY <1>3, <1>4, <2>3 DEF Hollow
    <3>2. \A q \in VolRefs : LiveVol(q)' /\ Loaded(q)' => Stored' \subseteq lists'[q]
      BY <1>1, <2>1, <2>2 DEF Plain, ListHolds, LiveVol, Loaded
    <3> QED BY <3>1, <3>2 DEF ListHolds
  <2>9. KnownKept'
    BY <1>1, <2>1, <2>2 DEF Plain, KnownKept
  <2> QED BY <2>5, <2>6, <2>7, <2>8, <2>9 DEF Plain
<1> QED BY <1>1, <1>6, <1>7, RefreshSnapshotTyped, SameFile DEF StoreInv

(* The process ends: no object is left, and the file has what it says.       *)
LEMMA RestartStore ==
  ASSUME StoreInv, Restart
  PROVE  StoreInv'
<1>1. /\ vol' = [r \in VolRefs |-> FreeVol] /\ snap' = [o \in SnapRefs |-> FreeSnap]
      /\ volumes' = None /\ snapshots' = [s \in Snaps |-> None]
      /\ known' = known \cap file.stock /\ UNCHANGED <<used, file>>
  BY DEF Restart
<1>2. \A r \in VolRefs : vol'[r].state = "free" /\ vol'[r].list = None
  BY <1>1 DEF FreeVol
<1>3. \A o \in SnapRefs : snap'[o].state = "free"
  BY <1>1 DEF FreeSnap
<1>4. UsedVols' = {} /\ UsedSnaps' = {} /\ Stored' = {}
  BY <1>1, <1>2, <1>3 DEF UsedVols, UsedSnaps, Stored
<1>5. OneVolume' /\ OwnIds' /\ Links'
  BY <1>1, <1>2, <1>4 DEF OneVolume, OwnIds, Links
<1>6. StoredAreHeld'
  BY <1>3, <1>4 DEF StoredAreHeld
<1>7. ListHolds'
  BY <1>2 DEF ListHolds, LiveVol
<1>8. KnownKept'
  BY <1>1, <1>4 DEF KnownKept
<1>9. IdsUsed'
  BY <1>1, <1>4 DEF IdsUsed, StoreInv
<1> QED BY <1>1, <1>5, <1>6, <1>7, <1>8, <1>9, RestartTyped, SameFile DEF StoreInv, Plain

LEMMA LoadSnapshotStore ==
  ASSUME StoreInv, NEW save \in BOOLEAN, LoadSnapshot(save)
  PROVE  StoreInv'
<1>1. PICK r \in FreeVols : r = CHOOSE q \in FreeVols : TRUE
  BY DEF LoadSnapshot
<1>2. PICK ids : ids = file.kids \cup {file.root}
  OBVIOUS
<1>3. file.kids \subseteq Snaps /\ file.root \in Snaps
  BY TypedParts DEF File, LoadSnapshot, StoreInv
<1>4. PICK f : f = Fresh(ids) /\ IsFresh(f, ids)
  BY <1>2, <1>3, FreshOnes DEF LoadSnapshot
<1>5. /\ Made(r, file.listed, ids, ids, f) /\ mixed' = TRUE /\ UNCHANGED <<used, file>>
  BY <1>1, <1>2, <1>4 DEF LoadSnapshot
<1>6. ids \subseteq used
  <2>1. file.kids \subseteq used /\ file.root \in used \cup {None, "volume"}
    BY DEF StoreInv, IdsUsed
  <2>2. file.root # None /\ file.root # "volume"
    BY <1>3, MemoryAssumption
  <2> QED BY <1>2, <2>1, <2>2
<1>7. IdsUsed'
  <2> SUFFICES ASSUME NEW o \in UsedSnaps' PROVE snap'[o].id \in used
    BY <1>5 DEF IdsUsed, StoreInv
  <2>1. o \in SnapRefs /\ snap'[o].state # "free"
    BY DEF UsedSnaps
  <2>2. CASE \E s \in ids : f[s] = o
    <3>1. snap'[o] = [state |-> "live", id |-> CHOOSE s \in ids : f[s] = o, vol |-> r]
      BY <1>5, <2>1, <2>2 DEF Made
    <3>2. (CHOOSE s \in ids : f[s] = o) \in ids
      BY <2>2
    <3> QED BY <1>6, <3>1, <3>2
  <2>3. CASE ~\E s \in ids : f[s] = o
    <3>1. snap'[o] = snap[o]
      BY <1>5, <2>1, <2>3 DEF Made
    <3> QED BY <2>1, <3>1 DEF StoreInv, IdsUsed, UsedSnaps
  <2> QED BY <2>2, <2>3
<1> QED BY <1>5, <1>7, LoadSnapshotTyped, SameFile DEF StoreInv

(* A load with save into an empty store: the objects, the list and the store *)
(* are all that the file has.                                                *)
LEMMA LoadVolumeStore ==
  ASSUME StoreInv, NEW save \in BOOLEAN, LoadVolume(save)
  PROVE  StoreInv'
<1>1. PICK r \in FreeVols, kids \in SUBSET Snaps : \E f, list, held :
           /\ kids = file.kids /\ (file.listed <=> list = r) /\ IsFresh(f, kids)
           /\ Making(r, list, held, kids, f)
           /\ volumes' = IF save THEN r ELSE volumes
           /\ snapshots' = IF save THEN Saved(f) ELSE snapshots
  BY LoadedVolume DEF StoreInv
<1>2. PICK f, list, held :
           /\ IsFresh(f, kids)
           /\ Making(r, list, held, kids, f)
           /\ volumes' = IF save THEN r ELSE volumes
           /\ snapshots' = IF save THEN Saved(f) ELSE snapshots
  BY <1>1
<1>3. kids = file.kids
  BY <1>1
<1>4. /\ ListsUsed'
      /\ vol'[r] = [state |-> "live", list |-> list]
      /\ \A q \in VolRefs \ {r} : vol'[q] = vol[q]
      /\ lists'[r] = held
      /\ AreMade(r, kids, f)
      /\ \A o \in UsedSnaps : snap'[o] = snap[o]
  BY <1>2, MadeTyped DEF StoreInv
<1>5. \A o \in SnapRefs : (\A s \in kids : f[s] # o) => snap'[o] = snap[o]
  BY <1>2 DEF Making
<1>6. r \in VolRefs /\ r # None /\ kids \subseteq used
  BY <1>3, MemoryAssumption DEF FreeVols, StoreInv, IdsUsed
<1>7. /\ mixed' = (mixed \/ ~save \/ FreeVols # VolRefs)
      /\ UNCHANGED <<known, used, file, restarts>>
  BY DEF LoadVolume
<1>8. \A o \in UsedSnaps' : o \in UsedSnaps \/ \E s \in kids : f[s] = o
  BY <1>5 DEF UsedSnaps
<1>9. IdsUsed'
  <2>1. \A o \in UsedSnaps' : snap'[o].id \in used
    BY <1>4, <1>6, <1>8 DEF AreMade, StoreInv, IdsUsed
  <2> QED BY <1>7, <2>1 DEF StoreInv, IdsUsed
<1>10. ASSUME ~mixed' PROVE Plain'
  <2>1. ~mixed /\ save /\ FreeVols = VolRefs
    BY <1>7, <1>10
  <2>2. Plain
    BY <2>1 DEF StoreInv
  <2>3. UsedVols = {}
    BY <2>1 DEF FreeVols, UsedVols
  <2>4. UsedSnaps = {}
    BY <2>2, <2>3 DEF Plain, Links
  <2>5. Stored = {}
    BY <2>4, StoredUsed DEF StoreInv, Typed
  <2>6. \A s \in Snaps : snapshots[s] = None
    BY <2>5 DEF Stored
  <2>7. f \in [kids -> FreeSnaps] /\ FreeSnaps \subseteq SnapRefs /\ None \notin SnapRefs
    BY <1>2, MemoryAssumption DEF IsFresh, FreeSnaps
  <2>8. \A s \in Snaps : snapshots'[s] = IF s \in kids THEN f[s] ELSE None
    BY <1>2, <2>1, <2>6, <2>7 DEF Saved
  <2> DEFINE objects == {f[s] : s \in kids}
  <2>9. Stored' = objects
    BY <2>7, <2>8 DEF Stored
  <2>10. StoredIds' = kids
    BY <2>7, <2>8 DEF StoredIds
  <2>11. /\ vol'[r].state = "live" /\ vol'[r].list = list /\ list \in {None, r}
         /\ \A q \in VolRefs \ {r} : vol'[q].state = "free" /\ vol'[q].list \in {None, q}
    BY <1>2, <1>4, <2>1, <2>2 DEF Making, FreeVols, Plain, Links
  <2>12. UsedVols' = {r}
    BY <1>6, <2>11 DEF UsedVols
  <2>13. UsedSnaps' = objects
    <3>1. UsedSnaps' \subseteq objects
      BY <1>8, <2>4
    <3>2. \A s \in kids : f[s] \in UsedSnaps'
      BY <1>4, <2>7 DEF AreMade, UsedSnaps
    <3> QED BY <3>1, <3>2
  <2>14. \A o \in SnapRefs \ objects : snap'[o].state = "free"
    BY <2>13 DEF UsedSnaps
  <2>15. \A o \in objects : o \in SnapRefs /\ snap'[o].state = "live" /\ snap'[o].vol = r
    BY <1>4, <2>7 DEF AreMade
  <2>16. OneVolume'
    BY <2>12 DEF OneVolume
  <2>17. OwnIds'
    BY <1>4, <2>13 DEF OwnIds, AreMade
  <2>18. Links'
    BY <1>2, <2>1, <2>11, <2>12, <2>13, <2>15 DEF Links
  <2>19. StoredAreHeld'
    BY <2>9, <2>14, <2>15 DEF StoredAreHeld
  <2>20. ListHolds'
    <3>1. \A q \in VolRefs : LiveVol(q)' => q = r
      BY <2>11 DEF LiveVol
    <3>2. Loaded(r)' => lists'[r] = objects
      BY <1>2, <1>4, <2>11 DEF Loaded, Making
    <3> QED BY <2>9, <3>1, <3>2 DEF ListHolds
  <2>21. KnownKept'
    BY <1>3, <1>7, <2>2, <2>3, <2>10, <2>12 DEF Plain, KnownKept, StoreInv, FileWhole
  <2> QED BY <2>16, <2>17, <2>18, <2>19, <2>20, <2>21 DEF Plain
<1> QED BY <1>7, <1>9, <1>10, LoadVolumeTyped, SameFile DEF StoreInv

LEMMA NextStore == StoreInv /\ [Next]_vars => StoreInv'
<1> SUFFICES ASSUME StoreInv, [Next]_vars PROVE StoreInv'
  OBVIOUS
<1>1. ASSUME NEW r \in VolRefs, VolumeStep(r) PROVE StoreInv'
  <2>1. CASE \E simplified \in BOOLEAN : ToJson(r, simplified)
    BY <2>1, ToJsonStore
  <2>2. CASE \E s \in Snaps, made \in BOOLEAN : CreateSnapshot(r, s, made)
    BY <2>2, CreateSnapshotStore
  <2> QED BY <1>1, <2>1, <2>2, ReadSnapshotsStore, DeleteVolumeStore, DeleteVolumeRaisesStore,
             SaveStore, RefreshStoredStore, RefreshOtherStore, DumpStore DEF VolumeStep
<1>2. ASSUME NEW o \in SnapRefs, SnapshotStep(o) PROVE StoreInv'
  BY <1>2, DeleteSnapshotStore, DeleteSnapshotRaisesStore, RefreshSnapshotStore,
     DumpSnapshotStore DEF SnapshotStep
<1>3. ASSUME NEW save \in BOOLEAN, LoadVolume(save) \/ LoadSnapshot(save) PROVE StoreInv'
  BY <1>3, LoadVolumeStore, LoadSnapshotStore
<1>4. CASE UNCHANGED vars
  <2>1. UNCHANGED <<vol, lists, snap, volumes, snapshots, known, used, file, mixed, restarts>>
    BY <1>4 DEF vars
  <2>2. Typed'
    BY NextTyped DEF StoreInv
  <2>3. IdsUsed'
    BY <2>1, NoNewIds DEF StoreInv, IdsUsed, UsedSnaps
  <2>4. UsedVols' = UsedVols /\ UsedSnaps' = UsedSnaps /\ Stored' = Stored /\ StoredIds' = StoredIds
    BY <2>1 DEF UsedVols, UsedSnaps, Stored, StoredIds
  <2>5. Plain => OneVolume' /\ OwnIds' /\ Links' /\ KnownKept'
    BY <2>1, <2>4 DEF Plain, OneVolume, OwnIds, Links, KnownKept
  <2>6. Plain => StoredAreHeld' /\ ListHolds'
    BY <2>1, <2>4 DEF Plain, StoredAreHeld, ListHolds, LiveVol, Loaded, Hollow
  <2> QED BY <2>1, <2>2, <2>3, <2>5, <2>6, SameFile DEF StoreInv, Plain
<1> QED BY <1>1, <1>2, <1>3, <1>4, RestartStore DEF Next

LEMMA AlwaysStored == Spec => []StoreInv
BY InitStore, NextStore, PTL DEF Spec

(* As long as all that is stored was loaded, the list of the stored volume   *)
(* has the snapshots of the store and no others (objects.py:490-500,         *)
(* memory.py:88-100), after failed operations, restarts and loads too.       *)
THEOREM TheListIsTheStore == Spec => []ListIsStore
<1>1. StoreInv => ListIsStore
  <2> SUFFICES ASSUME StoreInv, ~mixed, volumes # None, LiveVol(volumes), Loaded(volumes),
                      \A o \in Stored : ~Hollow(o)
               PROVE  ListOf(volumes) = Stored
    BY DEF ListIsStore
  <2>1. Plain /\ volumes \in VolRefs
    BY TypedParts DEF StoreInv
  <2>2. \A o \in SnapRefs : ~Hollow(o)
    BY <2>1 DEF Plain, StoredAreHeld, Hollow
  <2>3. vol[volumes].list = volumes
    BY <2>1 DEF Plain, Links, Loaded
  <2> QED BY <2>1, <2>2, <2>3 DEF Plain, ListHolds, ListOf
<1> QED BY <1>1, AlwaysStored, PTL

(* A snapshot that was stored at the last dump of its volume before the      *)
(* process ended is stored again when the volume is                          *)
(* (serialization.py:112-121, objects.py:422-435).                           *)
THEOREM WhatIsDumpedComesBack == Spec => []DumpedComesBack
<1>1. StoreInv => DumpedComesBack
  <2> SUFFICES ASSUME StoreInv, ~mixed, volumes # None
               PROVE  known \subseteq StoredIds
    BY DEF DumpedComesBack
  <2>1. volumes \in UsedVols
    BY DEF StoreInv, Plain, Links
  <2> QED BY <2>1 DEF StoreInv, Plain, KnownKept
<1> QED BY <1>1, AlwaysStored, PTL

=============================================================================
