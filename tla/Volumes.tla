------------------------------ MODULE Volumes ------------------------------
(* The life of volumes and snapshots in cinderlib: client processes that     *)
(* share one metadata store and one storage array, each with its own Python  *)
(* objects and lazily loaded caches (src/cinderlib/objects.py, cinderlib.py, *)
(* with the row semantics of persistence/dbms.py).                           *)
(*                                                                           *)
(* A call is a sequence of steps: the calls to the driver and to the store   *)
(* are separate steps, so that other processes, failures and a crash of the  *)
(* process can come between them.  Volumes and snapshots follow the same     *)
(* code shape (driver call, status, save), so both are "resources" here and  *)
(* the actions say where they differ.                                        *)
EXTENDS Naturals, FiniteSets

CONSTANTS
  Procs,      \* client processes, each running one call at a time
  Vols,       \* volume ids (uuid4, never drawn twice)
  Snaps,      \* snapshot ids
  VolOf,      \* the volume each snapshot is taken of
  MaxSize,    \* bound on volume sizes
  Ops,        \* the operations the clients use: see ClientOps
  Faults,     \* what may go wrong: see FaultKinds
  MaxFaults,  \* bound on how often it does
  Serialize   \* TRUE when clients never overlap calls on the same volume

CreateOps == {"create", "clone", "restore", "snapshot"}
ClientOps == CreateOps \cup
             {"extend", "delete", "get", "refresh", "snapshots", "volumes"}
FaultKinds == {"driver", "store", "interrupt", "crash"}

Ids == Vols \cup Snaps

ASSUME VolumesAssumption ==
  /\ Vols \cap Snaps = {}
  /\ VolOf \in [Snaps -> Vols]
  /\ MaxSize \in Nat \ {0}
  /\ Ops \subseteq ClientOps
  /\ Faults \subseteq FaultKinds
  /\ MaxFaults \in Nat
  /\ Serialize \in BOOLEAN

VARIABLES
  array,     \* size of each resource on the storage array, 0 when it is not there
  rows,      \* the metadata store: the row of each resource
  heap,      \* the Python object each process holds for a resource
  cache,     \* vol._snapshots of each process's volume object
  linked,    \* snapshot objects whose _volume is the process's volume object
  listing,   \* backend._volumes of each process
  inflight,  \* Backend._volumes_inflight of each process
  call,      \* the call each process is executing
  used,      \* ids drawn so far
  faults,    \* how many faults there have been
  dropped,   \* history: resources one of whose row updates was lost
  gone       \* history: resources whose delete reported success

vars == <<array, rows, heap, cache, linked, listing, inflight, call,
          used, faults, dropped, gone>>

Fields == {"id", "status", "size"}
Statuses == {"none", "creating", "available", "error", "extending",
             "error_deleting", "deleted"}

Row == [status : Statuses, size : 0..MaxSize]
NoRow == [status |-> "none", size |-> 0]

Object == [status : Statuses, size : 0..MaxSize, dirty : SUBSET Fields]
NoObject == [status |-> "none", size |-> 0, dirty |-> {}]

SnapCache == [loaded : BOOLEAN, ids : SUBSET Snaps]
VolList == [loaded : BOOLEAN, ids : SUBSET Vols]
NotLoaded == [loaded |-> FALSE, ids |-> {}]

CallRecord == [op : CreateOps \cup {"extend", "delete"},
               pc : {"driver", "unrecord", "save"},
               obj : Ids, src : SUBSET Ids, size : 0..MaxSize, prev : Statuses]
Call == {c \in CallRecord : /\ c.op = "snapshot" => c.obj \in Snaps
                            /\ c.op \in {"create", "clone", "restore", "extend"}
                                 => c.obj \in Vols}
Idle == [op |-> "idle"]

Recorded(i) == rows[i].status # "none"
OnArray(i) == array[i] > 0
(* Clients let go of an object once its delete has succeeded.                *)
Holds(p, i) == heap[p][i].status \notin {"none", "deleted"}
Available(p) == call[p] = Idle
May(p, op) == Available(p) /\ op \in Ops

Fault(kind) ==
  /\ kind \in Faults
  /\ faults < MaxFaults
  /\ faults' = faults + 1

SnapsOf(v) == {s \in Snaps : VolOf[s] = v}

(* A call locks the volumes it works on when the clients serialise.          *)
Root(i) == IF i \in Vols THEN i ELSE VolOf[i]
Locks(I) == {Root(i) : i \in I}
MayTouch(I) ==
  Serialize => \A q \in Procs :
                 call[q] # Idle =>
                   Locks(I) \cap Locks({call[q].obj} \cup call[q].src) = {}

TypeOK ==
  /\ array \in [Ids -> 0..MaxSize]
  /\ rows \in [Ids -> Row]
  /\ heap \in [Procs -> [Ids -> Object]]
  /\ cache \in [Procs -> [Vols -> SnapCache]]
  /\ linked \in [Procs -> SUBSET Snaps]
  /\ listing \in [Procs -> VolList]
  /\ inflight \in [Procs -> SUBSET Vols]
  /\ call \in [Procs -> Call \cup {Idle}]
  /\ used \in SUBSET Ids
  /\ faults \in 0..MaxFaults
  /\ dropped \in SUBSET Ids
  /\ gone \in SUBSET Ids

Init ==
  /\ array = [i \in Ids |-> 0]
  /\ rows = [i \in Ids |-> NoRow]
  /\ heap = [p \in Procs |-> [i \in Ids |-> NoObject]]
  /\ cache = [p \in Procs |-> [v \in Vols |-> NotLoaded]]
  /\ linked = [p \in Procs |-> {}]
  /\ listing = [p \in Procs |-> NotLoaded]
  /\ inflight = [p \in Procs |-> {}]
  /\ call = [p \in Procs |-> Idle]
  /\ used = {}
  /\ faults = 0
  /\ dropped = {}
  /\ gone = {}

-----------------------------------------------------------------------------
(* Creation.  The object is built with every field dirty; a clone starts     *)
(* with a copy of the source's fields, the status among them.                *)

NewObject(status, size) ==
  [status |-> status, size |-> size, dirty |-> Fields]

Start(p, op, i, src, size, object) ==
  /\ May(p, op)
  /\ i \notin used
  /\ MayTouch({i} \cup src)
  /\ used' = used \cup {i}
  /\ heap' = [heap EXCEPT ![p][i] = object]
  /\ call' = [call EXCEPT ![p] = [op |-> op, pc |-> "driver", obj |-> i,
                                  src |-> src, size |-> size, prev |-> "none"]]
  /\ UNCHANGED <<array, rows, listing, faults, dropped, gone>>

(* A new Volume object starts with empty, loaded snapshots and is in flight. *)
StartVolume(p, v) ==
  /\ cache' = [cache EXCEPT ![p][v] = [loaded |-> TRUE, ids |-> {}]]
  /\ inflight' = [inflight EXCEPT ![p] = @ \cup {v}]
  /\ UNCHANGED linked

StartCreate(p, v, size) ==
  /\ Start(p, "create", v, {}, size, NewObject("creating", size))
  /\ StartVolume(p, v)

StartClone(p, v, src) ==
  /\ Holds(p, src)
  /\ Start(p, "clone", v, {src}, heap[p][src].size,
           NewObject(heap[p][src].status, heap[p][src].size))
  /\ StartVolume(p, v)

(* The volume a snapshot was taken of: the object it is linked to, or one    *)
(* that is read from the store for it.                                       *)
SourceStatus(p, s) ==
  IF s \in linked[p] THEN heap[p][VolOf[s]].status ELSE rows[VolOf[s]].status

(* The new volume starts with a copy of the fields of that volume.           *)
StartRestore(p, v, s, size) ==
  /\ Holds(p, s)
  /\ SourceStatus(p, s) # "none"
  /\ Start(p, "restore", v, {s}, size, NewObject(SourceStatus(p, s), size))
  /\ StartVolume(p, v)

StartSnapshot(p, s) ==
  /\ Holds(p, VolOf[s])
  /\ Start(p, "snapshot", s, {VolOf[s]}, 1, NewObject("creating", 1))
  /\ linked' = [linked EXCEPT ![p] = @ \cup {s}]
  /\ UNCHANGED <<cache, inflight>>

(* clone assigns the outcome to the Volume instance and not to its OVO, so   *)
(* the status that gets saved is the one copied from the source.             *)
(* Mutant: the status is set before the driver has answered.                 *)
OutcomeTooEarly(p, status) == "available"
Outcome(p, status) ==
  IF call[p].op = "clone" THEN heap[p][call[p].obj].status ELSE status

At(p, ops, pc) == call[p] # Idle /\ call[p].op \in ops /\ call[p].pc = pc
GoTo(p, pc) == call' = [call EXCEPT ![p].pc = pc]

(* Mutant: the status goes to the instance, as in clone.                     *)
StatusOnInstance(p, status) == UNCHANGED heap
SetStatus(p, status) ==
  heap' = [heap EXCEPT ![p][call[p].obj].status = status,
                       ![p][call[p].obj].dirty = @ \cup {"status"}]

(* Backend._volume_created: listed if the list was loaded, not in flight.    *)
ListsNewVolume(p, v) ==
  listing' = IF listing[p].loaded
             THEN [listing EXCEPT ![p].ids = @ \cup {v}] ELSE listing

(* Mutant: the entry is popped only when the list was loaded.                *)
PopsIfListed(p, v) ==
  /\ ListsNewVolume(p, v)
  /\ inflight' = IF listing[p].loaded
                 THEN [inflight EXCEPT ![p] = @ \ {v}] ELSE inflight
VolumeCreated(p, v) ==
  /\ ListsNewVolume(p, v)
  /\ inflight' = [inflight EXCEPT ![p] = @ \ {v}]

(* The driver needs the source on the array.                                 *)
Created(p) ==
  /\ \A x \in call[p].src : OnArray(x)
  /\ array' = [array EXCEPT ![call[p].obj] = call[p].size]

DriverCreates(p) ==
  /\ At(p, CreateOps, "driver")
  /\ Created(p)
  /\ SetStatus(p, Outcome(p, "available"))
  /\ IF call[p].obj \in Vols THEN VolumeCreated(p, call[p].obj)
                            ELSE UNCHANGED <<listing, inflight>>
  /\ GoTo(p, "save")
  /\ UNCHANGED <<rows, cache, linked, used, faults, dropped, gone>>

(* A driver that raises may leave the resource behind on the array.          *)
DriverCreateRaises(p) ==
  /\ At(p, CreateOps, "driver")
  /\ \/ Fault("driver") /\ (UNCHANGED array \/ Created(p))
     \/ /\ \E x \in call[p].src : ~OnArray(x)
        /\ UNCHANGED <<array, faults>>
  /\ SetStatus(p, Outcome(p, "error"))
  /\ GoTo(p, "save")
  /\ UNCHANGED <<rows, cache, linked, listing, inflight, used, dropped, gone>>

(* KeyboardInterrupt, SystemExit and eventlet's Timeout are not Exceptions:  *)
(* "except Exception" does not see them, "finally" does.                     *)
CreateInterrupted(p) ==
  /\ At(p, CreateOps, "driver")
  /\ Fault("interrupt")
  /\ UNCHANGED array \/ Created(p)
  /\ GoTo(p, "save")
  /\ UNCHANGED <<rows, heap, cache, linked, listing, inflight, used, dropped,
                 gone>>

-----------------------------------------------------------------------------
(* Saving.  set_volume and set_snapshot insert the row when the id is among  *)
(* the changed fields and update the changed fields of the row otherwise;    *)
(* an update of a row that is not there raises.                              *)

(* Mutants: a field is forgotten; a change of the size is not tracked.       *)
MergedStatusOnly(row, object) == [status |-> object.status]
MergedWithoutSize(row, object) == [row EXCEPT !.status = object.status]
Merged(row, object) ==
  [status |-> IF "status" \in object.dirty THEN object.status ELSE row.status,
   size |-> IF "size" \in object.dirty THEN object.size ELSE row.size]

(* Mutant: a row that is not there is created.                               *)
Upsert(p, i) == TRUE
CanSave(p, i) == "id" \in heap[p][i].dirty \/ Recorded(i)

(* create_snapshot adds the snapshot to the loaded list whatever happened.   *)
(* Mutant: it is not added.                                                  *)
AfterSaveUnlisted(p) ==
  call' = [call EXCEPT ![p] = Idle] /\ UNCHANGED cache
AfterSave(p) ==
  LET i == call[p].obj IN
  /\ cache' = IF call[p].op = "snapshot" /\ cache[p][VolOf[i]].loaded
              THEN [cache EXCEPT ![p][VolOf[i]].ids = @ \cup {i}]
              ELSE cache
  /\ call' = [call EXCEPT ![p] = Idle]

AnyOp == CreateOps \cup {"extend", "delete"}

Save(p) ==
  LET i == call[p].obj IN
  /\ At(p, AnyOp, "save")
  /\ CanSave(p, i)
  /\ rows' = [rows EXCEPT ![i] = Merged(rows[i], heap[p][i])]
  /\ heap' = [heap EXCEPT ![p][i].dirty = {}]
  /\ AfterSave(p)
  /\ UNCHANGED <<array, linked, listing, inflight, used, faults, dropped, gone>>

SaveFindsNoRow(p) ==
  /\ At(p, AnyOp, "save")
  /\ ~CanSave(p, call[p].obj)
  /\ AfterSave(p)
  /\ UNCHANGED <<array, rows, heap, linked, listing, inflight, used, faults, dropped,
                 gone>>

SaveRaises(p) ==
  /\ At(p, AnyOp, "save")
  /\ Fault("store")
  /\ AfterSave(p)
  /\ dropped' = dropped \cup {call[p].obj}
  /\ UNCHANGED <<array, rows, heap, linked, listing, inflight, used, gone>>

-----------------------------------------------------------------------------
(* Extending a volume: the status is remembered, set, and restored.          *)

(* Mutant: the new size is set before the driver has grown the volume.       *)
ResizingFirst(p, v, size) ==
  heap' = [heap EXCEPT ![p][v] = [status |-> "extending", size |-> size,
                                  dirty |-> @.dirty \cup {"status", "size"}]]
Extending(p, v, size) ==
  heap' = [heap EXCEPT ![p][v].status = "extending",
                       ![p][v].dirty = @ \cup {"status"}]

StartExtend(p, v, size) ==
  /\ May(p, "extend")
  /\ Holds(p, v)
  /\ size > heap[p][v].size
  /\ MayTouch({v})
  /\ call' = [call EXCEPT ![p] = [op |-> "extend", pc |-> "driver", obj |-> v,
                                  src |-> {}, size |-> size,
                                  prev |-> heap[p][v].status]]
  /\ Extending(p, v, size)
  /\ UNCHANGED <<array, rows, cache, linked, listing, inflight, used, faults, dropped,
                 gone>>

(* The driver grows a volume it has, and never shrinks it.                   *)
CanGrow(p) == OnArray(call[p].obj) /\ array[call[p].obj] < call[p].size
Grown(p) == /\ CanGrow(p)
            /\ array' = [array EXCEPT ![call[p].obj] = call[p].size]

DriverExtends(p) ==
  LET v == call[p].obj IN
  /\ At(p, {"extend"}, "driver")
  /\ Grown(p)
  /\ heap' = [heap EXCEPT ![p][v] = [status |-> call[p].prev,
                                     size |-> call[p].size,
                                     dirty |-> @.dirty \cup {"status", "size"}]]
  /\ GoTo(p, "save")
  /\ UNCHANGED <<rows, cache, linked, listing, inflight, used, faults, dropped,
                 gone>>

DriverExtendRaises(p) ==
  /\ At(p, {"extend"}, "driver")
  /\ \/ Fault("driver") /\ (UNCHANGED array \/ Grown(p))
     \/ ~CanGrow(p) /\ UNCHANGED <<array, faults>>
  /\ SetStatus(p, "error")
  /\ GoTo(p, "save")
  /\ UNCHANGED <<rows, cache, linked, listing, inflight, used, dropped, gone>>

ExtendInterrupted(p) ==
  /\ At(p, {"extend"}, "driver")
  /\ Fault("interrupt")
  /\ UNCHANGED array \/ Grown(p)
  /\ GoTo(p, "save")
  /\ UNCHANGED <<rows, heap, cache, linked, listing, inflight, used, dropped,
                 gone>>

-----------------------------------------------------------------------------
(* Lazy loading of a volume's snapshots: one object per row, linked to the   *)
(* volume object.                                                            *)

RecordedSnaps(v) == {s \in SnapsOf(v) : Recorded(s)}

FromRow(i) ==
  [status |-> rows[i].status, size |-> rows[i].size, dirty |-> {}]

LoadSnapshots(p, v) ==
  /\ cache' = [cache EXCEPT ![p][v] = [loaded |-> TRUE,
                                       ids |-> RecordedSnaps(v)]]
  /\ linked' = [linked EXCEPT ![p] = @ \cup RecordedSnaps(v)]
  /\ heap' = [heap EXCEPT ![p] = [i \in Ids |-> IF i \in RecordedSnaps(v)
                                                THEN FromRow(i) ELSE @[i]]]

ReadSnapshots(p, v) ==
  /\ May(p, "snapshots")
  /\ Holds(p, v)
  /\ ~cache[p][v].loaded
  /\ LoadSnapshots(p, v)
  /\ UNCHANGED <<array, rows, listing, inflight, call, used, faults, dropped, gone>>

-----------------------------------------------------------------------------
(* Deletion.  Volume.delete reads its snapshots, from the cache when it is   *)
(* loaded, and refuses when there are any; Snapshot.delete has no guard.     *)

StartDelete(p, i) ==
  /\ May(p, "delete")
  /\ Holds(p, i)
  /\ MayTouch({i})
  /\ IF i \in Snaps \/ cache[p][i].loaded
     THEN /\ i \in Vols => cache[p][i].ids = {}
          /\ UNCHANGED <<heap, cache, linked>>
     ELSE /\ RecordedSnaps(i) = {}
          /\ LoadSnapshots(p, i)
  /\ call' = [call EXCEPT ![p] = [op |-> "delete", pc |-> "driver", obj |-> i,
                                  src |-> {}, size |-> 0, prev |-> "none"]]
  /\ UNCHANGED <<array, rows, listing, inflight, used, faults, dropped, gone>>

(* Some backends delete the snapshots of a deleted volume, others leave them.*)
Removed(i) ==
  \E purged \in {{}, IF i \in Vols THEN SnapsOf(i) ELSE {}} :
    array' = [x \in Ids |-> IF x = i \/ x \in purged THEN 0 ELSE array[x]]

DriverDeletes(p) ==
  /\ At(p, {"delete"}, "driver")
  /\ Removed(call[p].obj)
  /\ GoTo(p, "unrecord")
  /\ UNCHANGED <<rows, heap, cache, linked, listing, inflight, used, faults, dropped,
                 gone>>

(* Mutant: the row is dropped although the driver raised.                    *)
RowDroppedAnyway(p) ==
  /\ At(p, {"delete"}, "driver")
  /\ Fault("driver")
  /\ UNCHANGED array \/ Removed(call[p].obj)
  /\ GoTo(p, "unrecord")
  /\ UNCHANGED <<rows, heap, cache, linked, listing, inflight, used, dropped,
                 gone>>
DriverDeleteRaises(p) ==
  /\ At(p, {"delete"}, "driver")
  /\ Fault("driver")
  /\ UNCHANGED array \/ Removed(call[p].obj)
  /\ SetStatus(p, "error_deleting")
  /\ GoTo(p, "save")
  /\ UNCHANGED <<rows, cache, linked, listing, inflight, used, dropped, gone>>

(* No "finally" here: nothing is saved.                                      *)
DeleteInterrupted(p) ==
  /\ At(p, {"delete"}, "driver")
  /\ Fault("interrupt")
  /\ UNCHANGED array \/ Removed(call[p].obj)
  /\ call' = [call EXCEPT ![p] = Idle]
  /\ dropped' = dropped \cup {call[p].obj}
  /\ UNCHANGED <<rows, heap, cache, linked, listing, inflight, used, gone>>

(* Mutant: a deleted volume stays in the list.                               *)
StaysListed(p, i) == UNCHANGED listing
VolumeRemoved(p, i) == listing' = [listing EXCEPT ![p].ids = @ \ {i}]

SnapshotRemoved(p, s) ==
  cache' = IF s \in linked[p]
           THEN [cache EXCEPT ![p][VolOf[s]].ids = @ \ {s}] ELSE cache

(* _set_deleted and the reset of the changed fields, then the status again.  *)
SetDeleted(p, i) ==
  heap' = [heap EXCEPT ![p][i].status = "deleted", ![p][i].dirty = {"status"}]

(* The row goes (no error when it is already gone), and the process's caches *)
(* forget the resource: backend._volumes for a volume, the volume's list for *)
(* a snapshot whose _volume is set.                                          *)
Unrecord(p) ==
  LET i == call[p].obj IN
  /\ At(p, {"delete"}, "unrecord")
  /\ rows' = [rows EXCEPT ![i] = NoRow]
  /\ SetDeleted(p, i)
  /\ IF i \in Vols THEN VolumeRemoved(p, i) /\ UNCHANGED cache
                   ELSE SnapshotRemoved(p, i) /\ UNCHANGED listing
  /\ gone' = gone \cup {i}
  /\ call' = [call EXCEPT ![p] = Idle]
  /\ UNCHANGED <<array, linked, inflight, used, faults, dropped>>

UnrecordRaises(p) ==
  /\ At(p, {"delete"}, "unrecord")
  /\ Fault("store")
  /\ SetStatus(p, "error_deleting")
  /\ GoTo(p, "save")
  /\ UNCHANGED <<array, rows, cache, linked, listing, inflight, used, dropped,
                 gone>>

-----------------------------------------------------------------------------
(* Reading the store.                                                        *)

(* get_by_id: a new object.  Its lazy properties are not loaded, and objects *)
(* linked to the one it replaces no longer reach it.                         *)
GetById(p, i) ==
  /\ May(p, "get")
  /\ Recorded(i)
  /\ heap' = [heap EXCEPT ![p][i] = FromRow(i)]
  /\ cache' = IF i \in Vols THEN [cache EXCEPT ![p][i] = NotLoaded] ELSE cache
  /\ linked' = [linked EXCEPT ![p] = @ \ ({i} \cup SnapsOf(i))]
  /\ UNCHANGED <<array, rows, listing, inflight, call, used, faults, dropped, gone>>

(* Volume.refresh: the same Python object with the row's data, and with its  *)
(* snapshots read again if they were loaded.  (Snapshot.refresh ends with a  *)
(* volume object of its own: the same as GetById.)                           *)
Refresh(p, v) ==
  /\ May(p, "refresh")
  /\ Holds(p, v)
  /\ Recorded(v)
  /\ LET again == IF cache[p][v].loaded THEN RecordedSnaps(v) ELSE {} IN
       /\ heap' = [heap EXCEPT ![p] = [i \in Ids |-> IF i \in {v} \cup again
                                                     THEN FromRow(i) ELSE @[i]]]
       /\ cache' = [cache EXCEPT ![p][v].ids = again]
       /\ linked' = [linked EXCEPT ![p] = @ \cup again]
  /\ UNCHANGED <<array, rows, listing, inflight, call, used, faults, dropped, gone>>

(* Backend.volumes on its first access, and Backend.refresh afterwards.      *)
ListVolumes(p) ==
  /\ May(p, "volumes")
  /\ listing' = [listing EXCEPT ![p] = [loaded |-> TRUE,
                                        ids |-> {v \in Vols : Recorded(v)}]]
  /\ UNCHANGED <<array, rows, heap, cache, linked, inflight, call, used,
                 faults, dropped, gone>>

(* A process dies between two steps and starts again with nothing in memory. *)
Crash(p) ==
  /\ Fault("crash")
  /\ heap' = [heap EXCEPT ![p] = [i \in Ids |-> NoObject]]
  /\ cache' = [cache EXCEPT ![p] = [v \in Vols |-> NotLoaded]]
  /\ linked' = [linked EXCEPT ![p] = {}]
  /\ listing' = [listing EXCEPT ![p] = NotLoaded]
  /\ inflight' = [inflight EXCEPT ![p] = {}]
  /\ call' = [call EXCEPT ![p] = Idle]
  /\ dropped' = IF At(p, AnyOp, "save") \/ At(p, AnyOp, "unrecord")
                THEN dropped \cup {call[p].obj} ELSE dropped
  /\ UNCHANGED <<array, rows, used, gone>>

-----------------------------------------------------------------------------
StepOf(p) ==
  \/ DriverCreates(p) \/ DriverCreateRaises(p) \/ CreateInterrupted(p)
  \/ DriverExtends(p) \/ DriverExtendRaises(p) \/ ExtendInterrupted(p)
  \/ DriverDeletes(p) \/ DriverDeleteRaises(p) \/ DeleteInterrupted(p)
  \/ Unrecord(p) \/ UnrecordRaises(p)
  \/ Save(p) \/ SaveFindsNoRow(p) \/ SaveRaises(p)

Client(p) ==
  \/ \E v \in Vols, n \in 1..MaxSize : StartCreate(p, v, n)
  \/ \E v, w \in Vols : StartClone(p, v, w)
  \/ \E v \in Vols, s \in Snaps, n \in 1..MaxSize : StartRestore(p, v, s, n)
  \/ \E s \in Snaps : StartSnapshot(p, s)
  \/ \E v \in Vols, n \in 1..MaxSize : StartExtend(p, v, n)
  \/ \E i \in Ids : StartDelete(p, i)
  \/ \E v \in Vols : ReadSnapshots(p, v)
  \/ \E i \in Ids : GetById(p, i)
  \/ \E v \in Vols : Refresh(p, v)
  \/ ListVolumes(p)

Next == \E p \in Procs : Client(p) \/ StepOf(p) \/ Crash(p)

Spec == Init /\ [][Next]_vars

-----------------------------------------------------------------------------
(* Safety.                                                                   *)

Working(i, ops, pcs) ==
  \E p \in Procs : /\ call[p] # Idle
                    /\ call[p].obj = i
                    /\ call[p].op \in ops
                    /\ call[p].pc \in pcs

(* Nothing stays on the storage array without a row in the metadata store,   *)
(* whatever the driver did before it raised: Volume.create, clone,           *)
(* create_snapshot and create_volume save the failed object too, and delete  *)
(* drops the row only after the driver has deleted.  Only a resource whose   *)
(* save was lost (the store raised or the process died) is excepted.         *)
NoOrphan ==
  \A i \in Ids : OnArray(i) => \/ Recorded(i)
                               \/ Working(i, CreateOps, {"save"})
                               \/ i \in dropped

(* A row never says "available" of something that is not on the array,       *)
(* unless it is being deleted, its delete lost a row update, or it is a      *)
(* snapshot whose volume is gone.  Stale objects of other processes may try. *)
NoPhantom ==
  \A i \in Ids :
    rows[i].status = "available" =>
      \/ OnArray(i)
      \/ Working(i, {"delete"}, {"unrecord", "save"})
      \/ i \in dropped
      \/ i \in Snaps /\ ~OnArray(VolOf[i])

(* Once a delete has reported success the resource is neither recorded nor   *)
(* on the array again, although other processes still hold objects for it    *)
(* and may be in the middle of a call on them that ends in a save.           *)
DeleteIsFinal == \A i \in gone : ~Recorded(i) /\ ~OnArray(i)

(* A volume that stays in Backend._volumes_inflight after its creation ended *)
(* never becomes available: the entry shadows the row in the store's         *)
(* volume type and QoS lookups for as long as the process lives.             *)
InflightOnlyFailed ==
  \A p \in Procs : \A v \in inflight[p] :
    \/ call[p] # Idle /\ call[p].obj = v /\ call[p].op \in CreateOps
    \/ rows[v].status # "available"

(* The store never promises more space than the array gives: extend records  *)
(* the new size after the driver has grown the volume, and a save of a stale *)
(* object writes only the fields it changed.                                 *)
SizeIsBacked ==
  \A v \in Vols : Recorded(v) /\ OnArray(v) => rows[v].size <= array[v]

(* The statuses a call sets while it runs do not reach the store, also not   *)
(* when it fails, or when the process dies at any point.                     *)
TransientNotRecorded ==
  \A i \in Ids : rows[i].status \notin {"creating", "extending", "deleted"}

(* The two directions of the circular reference agree: a recorded snapshot   *)
(* whose object points to the volume object is in its loaded list.           *)
LinkedIsListed ==
  \A p \in Procs : \A s \in linked[p] :
    Recorded(s) /\ cache[p][VolOf[s]].loaded =>
      s \in cache[p][VolOf[s]].ids \cup dropped

(* A volume is not deleted under a recorded snapshot the process knows of.   *)
DeleteSparesKnownSnapshots ==
  \A p \in Procs : \A s \in linked[p] :
    call[p] # Idle /\ call[p].op = "delete" /\ call[p].obj = VolOf[s] =>
      ~Recorded(s) \/ s \in dropped

(* One process: between calls each object says what its row says, or has no  *)
(* row because it was deleted.                                               *)
ObjectAgreesWithRow ==
  \A p \in Procs : \A i \in Ids :
    Available(p) /\ Holds(p, i) /\ i \notin dropped =>
      \/ Recorded(i) /\ heap[p][i].status = rows[i].status
                    /\ heap[p][i].size = rows[i].size
      \/ i \in gone

(* One process: a loaded backend._volumes has every available volume, but    *)
(* for the clones that failed and are still in flight, and only volumes that *)
(* are recorded, are about to be, or whose save was lost.                    *)
ListingTracksRows ==
  \A p \in Procs : listing[p].loaded =>
    \A v \in Vols :
      /\ rows[v].status = "available" =>
           v \in listing[p].ids \cup dropped \cup inflight[p]
      /\ v \in listing[p].ids => \/ Recorded(v)
                                 \/ Working(v, CreateOps, {"save"})
                                 \/ v \in dropped

-----------------------------------------------------------------------------
(* Why NoOrphan and DeleteIsFinal hold: the inductive invariant.             *)

(* Nobody has anything of an id that has not been drawn.                     *)
UnusedIsNowhere ==
  \A i \in Ids \ used :
    /\ ~Recorded(i) /\ ~OnArray(i) /\ i \notin gone
    /\ \A p \in Procs : heap[p][i] = NoObject

NoObjectIsClean ==
  \A p \in Procs : \A i \in Ids :
    heap[p][i].status = "none" => heap[p][i] = NoObject

(* While an object's id is dirty it has never been saved: there is no row,   *)
(* so no other process can have found the resource.                          *)
UnsavedIsPrivate ==
  \A p \in Procs : \A i \in Ids :
    "id" \in heap[p][i].dirty =>
      /\ ~Recorded(i) /\ i \notin gone
      /\ \A q \in Procs \ {p} : heap[q][i] = NoObject

(* What a call in progress relies on.  The row is dropped only when the      *)
(* array no longer has the resource; a created object is saved as a whole.   *)
CallsAreSound ==
  \A p \in Procs : call[p] # Idle =>
    /\ heap[p][call[p].obj].status # "none"
    /\ call[p].op \in CreateOps => heap[p][call[p].obj].dirty = Fields
    /\ call[p].op = "extend" => call[p].prev # "none"
    /\ call[p].pc = "unrecord" => ~OnArray(call[p].obj)

LifeInv ==
  /\ UnusedIsNowhere
  /\ NoObjectIsClean
  /\ UnsavedIsPrivate
  /\ CallsAreSound
  /\ NoOrphan
  /\ DeleteIsFinal

-----------------------------------------------------------------------------
(* What the repository says and the code does not do.                        *)

(* test_volume.py:230: a clone that failed is saved, and its status is error.*)
FailedCloneIsRecordedAsError ==
  [][\A p \in Procs :
       Save(p) /\ call[p].op = "clone" /\ ~OnArray(call[p].obj) =>
         rows'[call[p].obj].status = "error"]_vars

=============================================================================
