---------------------------- MODULE VolumesProofs ----------------------------
(* Theorems about Volumes, for any number of processes, volumes and          *)
(* snapshots, any faults and any mix of client operations.                   *)
EXTENDS Volumes, TLAPS

-----------------------------------------------------------------------------
(* Typing.                                                                   *)

(* A step of a call in progress works on a typed call record.                *)
LEMMA CallTyped ==
  ASSUME TypeOK, NEW p \in Procs, call[p] # Idle
  PROVE  call[p] \in Call
  BY DEF TypeOK

LEMMA CallFields ==
  ASSUME NEW c \in Call
  PROVE  /\ c \in CallRecord
         /\ c.op \in AnyOp
         /\ c.obj \in Ids
         /\ c.src \subseteq Ids
         /\ c.size \in 0..MaxSize
         /\ c.prev \in Statuses
         /\ c.op = "snapshot" => c.obj \in Snaps
         /\ c.op \in {"create", "clone", "restore", "extend"} => c.obj \in Vols
  BY DEF Call, CallRecord, AnyOp

LEMMA GoToTyped ==
  ASSUME TypeOK, NEW p \in Procs, call[p] # Idle,
         NEW pc \in {"driver", "unrecord", "save"}, GoTo(p, pc)
  PROVE  call' \in [Procs -> Call \cup {Idle}]
  <1>1. call[p] \in Call
    BY CallTyped
  <1>2. [call[p] EXCEPT !.pc = pc] \in Call
    BY <1>1 DEF Call, CallRecord
  <1>3. QED
    BY <1>2 DEF TypeOK, GoTo

LEMMA SetStatusTyped ==
  ASSUME TypeOK, NEW p \in Procs, call[p] # Idle,
         NEW status \in Statuses, SetStatus(p, status)
  PROVE  heap' \in [Procs -> [Ids -> Object]]
  <1>1. call[p].obj \in Ids
    BY CallTyped, CallFields
  <1>2. heap[p][call[p].obj] \in Object
    BY <1>1 DEF TypeOK
  <1>3. QED
    BY <1>1, <1>2 DEF TypeOK, SetStatus, Object, Fields

LEMMA CreatedTyped ==
  ASSUME TypeOK, NEW p \in Procs, call[p] # Idle, Created(p)
  PROVE  array' \in [Ids -> 0..MaxSize]
  BY CallTyped, CallFields DEF TypeOK, Created

LEMMA GrownTyped ==
  ASSUME TypeOK, NEW p \in Procs, call[p] # Idle, Grown(p)
  PROVE  array' \in [Ids -> 0..MaxSize]
  BY CallTyped, CallFields DEF TypeOK, Grown

LEMMA RemovedTyped ==
  ASSUME TypeOK, NEW i \in Ids, Removed(i)
  PROVE  array' \in [Ids -> 0..MaxSize]
  BY VolumesAssumption DEF TypeOK, Removed

LEMMA FaultTyped ==
  ASSUME TypeOK, NEW kind, Fault(kind)
  PROVE  faults' \in 0..MaxFaults
  BY VolumesAssumption DEF TypeOK, Fault

LEMMA OutcomeTyped ==
  ASSUME TypeOK, NEW p \in Procs, call[p] # Idle, NEW status \in Statuses
  PROVE  Outcome(p, status) \in Statuses
  BY CallTyped, CallFields DEF TypeOK, Outcome, Object

LEMMA StartTyped ==
  ASSUME TypeOK, NEW p \in Procs, NEW op \in CreateOps, NEW i \in Ids,
         NEW src \in SUBSET Ids, NEW size \in 0..MaxSize,
         NEW object \in Object, Start(p, op, i, src, size, object),
         op = "snapshot" => i \in Snaps,
         op # "snapshot" => i \in Vols
  PROVE  /\ array' \in [Ids -> 0..MaxSize]
         /\ rows' \in [Ids -> Row]
         /\ heap' \in [Procs -> [Ids -> Object]]
         /\ listing' \in [Procs -> VolList]
         /\ call' \in [Procs -> Call \cup {Idle}]
         /\ used' \in SUBSET Ids
         /\ faults' \in 0..MaxFaults
         /\ dropped' \in SUBSET Ids
         /\ gone' \in SUBSET Ids
  <1>1. "none" \in Statuses /\ "driver" \in {"driver", "unrecord", "save"}
    BY DEF Statuses
  <1>2. call' \in [Procs -> Call \cup {Idle}]
    <2>1. [op |-> op, pc |-> "driver", obj |-> i, src |-> src, size |-> size,
           prev |-> "none"] \in Call
      BY <1>1 DEF Call, CallRecord
    <2>2. QED
      BY <2>1 DEF TypeOK, Start
  <1>3. QED
    BY <1>2 DEF TypeOK, Start

LEMMA StartVolumeTyped ==
  ASSUME TypeOK, NEW p \in Procs, NEW v \in Vols, StartVolume(p, v)
  PROVE  /\ cache' \in [Procs -> [Vols -> SnapCache]]
         /\ linked' \in [Procs -> SUBSET Snaps]
         /\ inflight' \in [Procs -> SUBSET Vols]
  BY DEF TypeOK, StartVolume, SnapCache

LEMMA NewObjectTyped ==
  ASSUME NEW status \in Statuses, NEW size \in 0..MaxSize
  PROVE  NewObject(status, size) \in Object
  BY DEF NewObject, Object

LEMMA StartCreateTyped ==
  ASSUME TypeOK, NEW p \in Procs, NEW v \in Vols, NEW n \in 1..MaxSize,
         StartCreate(p, v, n)
  PROVE  TypeOK'
  <1>1. v \in Ids /\ n \in 0..MaxSize /\ "creating" \in Statuses
    BY VolumesAssumption DEF Ids, Statuses
  <1>2. NewObject("creating", n) \in Object
    BY <1>1, NewObjectTyped
  <1>3. "create" \in CreateOps /\ {} \in SUBSET Ids
    BY DEF CreateOps
  <1>4. Start(p, "create", v, {}, n, NewObject("creating", n)) /\ StartVolume(p, v)
    BY DEF StartCreate
  <1>5. QED
    BY <1>1, <1>2, <1>3, <1>4, StartTyped, StartVolumeTyped DEF TypeOK

LEMMA StartCloneTyped ==
  ASSUME TypeOK, NEW p \in Procs, NEW v \in Vols, NEW w \in Vols,
         StartClone(p, v, w)
  PROVE  TypeOK'
  <1>1. v \in Ids /\ w \in Ids
    BY DEF Ids
  <1>2. heap[p][w].status \in Statuses /\ heap[p][w].size \in 0..MaxSize
    BY <1>1 DEF TypeOK, Object
  <1>3. NewObject(heap[p][w].status, heap[p][w].size) \in Object
    BY <1>2, NewObjectTyped
  <1>4. "clone" \in CreateOps /\ {w} \in SUBSET Ids
    BY <1>1 DEF CreateOps
  <1>5. /\ Start(p, "clone", v, {w}, heap[p][w].size,
                 NewObject(heap[p][w].status, heap[p][w].size))
        /\ StartVolume(p, v)
    BY DEF StartClone
  <1>6. QED
    BY <1>1, <1>2, <1>3, <1>4, <1>5, StartTyped, StartVolumeTyped DEF TypeOK

LEMMA StartRestoreTyped ==
  ASSUME TypeOK, NEW p \in Procs, NEW v \in Vols, NEW s \in Snaps,
         NEW n \in 1..MaxSize, StartRestore(p, v, s, n)
  PROVE  TypeOK'
  <1>1. v \in Ids /\ s \in Ids /\ n \in 0..MaxSize /\ SourceStatus(p, s) \in Statuses
    <2>1. VolOf[s] \in Ids
      BY VolumesAssumption DEF Ids
    <2>2. heap[p][VolOf[s]] \in Object /\ rows[VolOf[s]] \in Row
      BY <2>1 DEF TypeOK
    <2> QED BY <2>2, VolumesAssumption DEF Ids, SourceStatus, Object, Row
  <1>2. NewObject(SourceStatus(p, s), n) \in Object
    BY <1>1, NewObjectTyped
  <1>3. "restore" \in CreateOps /\ {s} \in SUBSET Ids
    BY <1>1 DEF CreateOps
  <1>4. /\ Start(p, "restore", v, {s}, n, NewObject(SourceStatus(p, s), n))
        /\ StartVolume(p, v)
    BY DEF StartRestore
  <1>5. QED
    BY <1>1, <1>2, <1>3, <1>4, StartTyped, StartVolumeTyped DEF TypeOK

LEMMA StartSnapshotTyped ==
  ASSUME TypeOK, NEW p \in Procs, NEW s \in Snaps, StartSnapshot(p, s)
  PROVE  TypeOK'
  <1>1. s \in Ids /\ VolOf[s] \in Ids /\ 1 \in 0..MaxSize /\ "creating" \in Statuses
    BY VolumesAssumption DEF Ids, Statuses
  <1>2. NewObject("creating", 1) \in Object
    BY <1>1, NewObjectTyped
  <1>3. "snapshot" \in CreateOps /\ {VolOf[s]} \in SUBSET Ids
    BY <1>1 DEF CreateOps
  <1>4. /\ Start(p, "snapshot", s, {VolOf[s]}, 1, NewObject("creating", 1))
        /\ linked' = [linked EXCEPT ![p] = @ \cup {s}]
        /\ UNCHANGED <<cache, inflight>>
    BY DEF StartSnapshot
  <1>5. QED
    BY <1>1, <1>2, <1>3, <1>4, StartTyped DEF TypeOK

LEMMA DriverCreatesTyped ==
  ASSUME TypeOK, NEW p \in Procs, DriverCreates(p)
  PROVE  TypeOK'
  <1>1. call[p] # Idle /\ call[p] \in Call
    BY CallTyped DEF DriverCreates, At
  <1>2. Outcome(p, "available") \in Statuses
    BY <1>1, OutcomeTyped DEF Statuses
  <1>3. heap' \in [Procs -> [Ids -> Object]]
    BY <1>1, <1>2, SetStatusTyped DEF DriverCreates
  <1>4. array' \in [Ids -> 0..MaxSize]
    BY <1>1, CreatedTyped DEF DriverCreates
  <1>5. call' \in [Procs -> Call \cup {Idle}]
    BY <1>1, GoToTyped DEF DriverCreates
  <1>6. listing' \in [Procs -> VolList] /\ inflight' \in [Procs -> SUBSET Vols]
    <2>1. CASE call[p].obj \in Vols
      <3>1. VolumeCreated(p, call[p].obj)
        BY <2>1 DEF DriverCreates
      <3>2. listing[p] \in VolList
        BY DEF TypeOK
      <3>3. listing' \in [Procs -> VolList]
        BY <2>1, <3>1, <3>2 DEF VolumeCreated, ListsNewVolume, TypeOK, VolList
      <3>4. inflight' \in [Procs -> SUBSET Vols]
        BY <3>1 DEF VolumeCreated, TypeOK
      <3>5. QED
        BY <3>3, <3>4
    <2>2. CASE call[p].obj \notin Vols
      BY <2>2 DEF DriverCreates, TypeOK
    <2>3. QED
      BY <2>1, <2>2
  <1>7. QED
    BY <1>3, <1>4, <1>5, <1>6 DEF DriverCreates, TypeOK

LEMMA DriverCreateRaisesTyped ==
  ASSUME TypeOK, NEW p \in Procs, DriverCreateRaises(p)
  PROVE  TypeOK'
  <1>1. call[p] # Idle
    BY DEF DriverCreateRaises, At
  <1>2. Outcome(p, "error") \in Statuses
    BY <1>1, OutcomeTyped DEF Statuses
  <1>3. heap' \in [Procs -> [Ids -> Object]]
    BY <1>1, <1>2, SetStatusTyped DEF DriverCreateRaises
  <1>4. array' \in [Ids -> 0..MaxSize]
    BY <1>1, CreatedTyped DEF DriverCreateRaises, TypeOK
  <1>5. call' \in [Procs -> Call \cup {Idle}]
    BY <1>1, GoToTyped DEF DriverCreateRaises
  <1>6. faults' \in 0..MaxFaults
    BY FaultTyped DEF DriverCreateRaises, TypeOK
  <1>7. QED
    BY <1>3, <1>4, <1>5, <1>6 DEF DriverCreateRaises, TypeOK

LEMMA CreateInterruptedTyped ==
  ASSUME TypeOK, NEW p \in Procs, CreateInterrupted(p)
  PROVE  TypeOK'
  <1>1. call[p] # Idle
    BY DEF CreateInterrupted, At
  <1>2. array' \in [Ids -> 0..MaxSize]
    BY <1>1, CreatedTyped DEF CreateInterrupted, TypeOK
  <1>3. call' \in [Procs -> Call \cup {Idle}]
    BY <1>1, GoToTyped DEF CreateInterrupted
  <1>4. faults' \in 0..MaxFaults
    BY FaultTyped DEF CreateInterrupted
  <1>5. QED
    BY <1>2, <1>3, <1>4 DEF CreateInterrupted, TypeOK

LEMMA AfterSaveTyped ==
  ASSUME TypeOK, NEW p \in Procs, call[p] # Idle, AfterSave(p)
  PROVE  /\ cache' \in [Procs -> [Vols -> SnapCache]]
         /\ call' \in [Procs -> Call \cup {Idle}]
  <1>1. call[p].obj \in Ids
    BY CallTyped, CallFields
  <1>2. call' \in [Procs -> Call \cup {Idle}]
    BY DEF AfterSave, TypeOK
  <1>3. ASSUME call[p].op = "snapshot", cache[p][VolOf[call[p].obj]].loaded
        PROVE  cache' \in [Procs -> [Vols -> SnapCache]]
    <2>1. call[p].obj \in Snaps /\ VolOf[call[p].obj] \in Vols
      BY <1>3, CallTyped, CallFields, VolumesAssumption
    <2>2. cache[p][VolOf[call[p].obj]] \in SnapCache
      BY <2>1 DEF TypeOK
    <2>3. QED
      BY <1>3, <2>1, <2>2 DEF AfterSave, TypeOK, SnapCache
  <1>4. QED
    BY <1>2, <1>3 DEF AfterSave, TypeOK

LEMMA MergedTyped ==
  ASSUME NEW row \in Row, NEW object \in Object
  PROVE  Merged(row, object) \in Row
  BY DEF Merged, Row, Object

LEMMA SaveTyped ==
  ASSUME TypeOK, NEW p \in Procs, Save(p)
  PROVE  TypeOK'
  <1> DEFINE i == call[p].obj
  <1>1. call[p] # Idle /\ AfterSave(p)
    BY DEF Save, At
  <1>2. i \in Ids
    BY <1>1, CallTyped, CallFields
  <1>3. heap[p][i] \in Object /\ rows[i] \in Row
    BY <1>2 DEF TypeOK
  <1>4. rows' \in [Ids -> Row]
    BY <1>2, <1>3, MergedTyped DEF Save, TypeOK
  <1>5. [heap[p][i] EXCEPT !.dirty = {}] \in Object
    BY <1>3 DEF Object
  <1>6. heap' \in [Procs -> [Ids -> Object]]
    BY <1>2, <1>5 DEF Save, TypeOK
  <1>7. QED
    BY <1>1, <1>4, <1>6, AfterSaveTyped DEF Save, TypeOK

LEMMA SaveFindsNoRowTyped ==
  ASSUME TypeOK, NEW p \in Procs, SaveFindsNoRow(p)
  PROVE  TypeOK'
  <1>1. call[p] # Idle /\ AfterSave(p)
    BY DEF SaveFindsNoRow, At
  <1>2. QED
    BY <1>1, AfterSaveTyped DEF SaveFindsNoRow, TypeOK

LEMMA SaveRaisesTyped ==
  ASSUME TypeOK, NEW p \in Procs, SaveRaises(p)
  PROVE  TypeOK'
  <1>1. call[p] # Idle /\ AfterSave(p) /\ Fault("store")
    BY DEF SaveRaises, At
  <1>2. call[p].obj \in Ids
    BY <1>1, CallTyped, CallFields
  <1>3. QED
    BY <1>1, <1>2, AfterSaveTyped, FaultTyped DEF SaveRaises, TypeOK

LEMMA StartExtendTyped ==
  ASSUME TypeOK, NEW p \in Procs, NEW v \in Vols, NEW n \in 1..MaxSize,
         StartExtend(p, v, n)
  PROVE  TypeOK'
  <1>1. v \in Ids /\ n \in 0..MaxSize
    BY VolumesAssumption DEF Ids
  <1>2. heap[p][v] \in Object
    BY <1>1 DEF TypeOK
  <1>3. [op |-> "extend", pc |-> "driver", obj |-> v, src |-> {}, size |-> n,
         prev |-> heap[p][v].status] \in Call
    BY <1>1, <1>2 DEF Call, CallRecord, Object
  <1>4. call' \in [Procs -> Call \cup {Idle}]
    BY <1>3 DEF StartExtend, TypeOK
  <1>5. [heap[p][v] EXCEPT !.status = "extending", !.dirty = @ \cup {"status"}]
          \in Object
    BY <1>2 DEF Object, Statuses, Fields
  <1>6. heap' \in [Procs -> [Ids -> Object]]
    BY <1>1, <1>2 DEF StartExtend, Extending, TypeOK, Object, Statuses, Fields
  <1>7. QED
    BY <1>4, <1>6 DEF StartExtend, TypeOK

LEMMA DriverExtendsTyped ==
  ASSUME TypeOK, NEW p \in Procs, DriverExtends(p)
  PROVE  TypeOK'
  <1> DEFINE v == call[p].obj
  <1>1. call[p] # Idle /\ call[p] \in Call
    BY CallTyped DEF DriverExtends, At
  <1>2. v \in Ids /\ call[p].prev \in Statuses /\ call[p].size \in 0..MaxSize
    BY <1>1, CallFields
  <1>3. heap[p][v] \in Object
    BY <1>2 DEF TypeOK
  <1>4. [status |-> call[p].prev, size |-> call[p].size,
         dirty |-> heap[p][v].dirty \cup {"status", "size"}] \in Object
    BY <1>2, <1>3 DEF Object, Fields
  <1>5. heap' \in [Procs -> [Ids -> Object]]
    BY <1>2, <1>4 DEF DriverExtends, TypeOK
  <1>6. array' \in [Ids -> 0..MaxSize]
    BY <1>1, GrownTyped DEF DriverExtends
  <1>7. call' \in [Procs -> Call \cup {Idle}]
    BY <1>1, GoToTyped DEF DriverExtends
  <1>8. QED
    BY <1>5, <1>6, <1>7 DEF DriverExtends, TypeOK

LEMMA DriverExtendRaisesTyped ==
  ASSUME TypeOK, NEW p \in Procs, DriverExtendRaises(p)
  PROVE  TypeOK'
  <1>1. call[p] # Idle /\ "error" \in Statuses
    BY DEF DriverExtendRaises, At, Statuses
  <1>2. heap' \in [Procs -> [Ids -> Object]]
    BY <1>1, SetStatusTyped DEF DriverExtendRaises
  <1>3. array' \in [Ids -> 0..MaxSize]
    BY <1>1, GrownTyped DEF DriverExtendRaises, TypeOK
  <1>4. call' \in [Procs -> Call \cup {Idle}]
    BY <1>1, GoToTyped DEF DriverExtendRaises
  <1>5. faults' \in 0..MaxFaults
    BY FaultTyped DEF DriverExtendRaises, TypeOK
  <1>6. QED
    BY <1>2, <1>3, <1>4, <1>5 DEF DriverExtendRaises, TypeOK

LEMMA ExtendInterruptedTyped ==
  ASSUME TypeOK, NEW p \in Procs, ExtendInterrupted(p)
  PROVE  TypeOK'
  <1>1. call[p] # Idle
    BY DEF ExtendInterrupted, At
  <1>2. array' \in [Ids -> 0..MaxSize]
    BY <1>1, GrownTyped DEF ExtendInterrupted, TypeOK
  <1>3. call' \in [Procs -> Call \cup {Idle}]
    BY <1>1, GoToTyped DEF ExtendInterrupted
  <1>4. faults' \in 0..MaxFaults
    BY FaultTyped DEF ExtendInterrupted
  <1>5. QED
    BY <1>2, <1>3, <1>4 DEF ExtendInterrupted, TypeOK

LEMMA FromRowTyped ==
  ASSUME TypeOK, NEW i \in Ids
  PROVE  FromRow(i) \in Object
  <1>1. rows[i] \in Row
    BY DEF TypeOK
  <1>2. QED
    BY <1>1 DEF FromRow, Row, Object

LEMMA LoadSnapshotsTyped ==
  ASSUME TypeOK, NEW p \in Procs, NEW v \in Vols, LoadSnapshots(p, v)
  PROVE  /\ cache' \in [Procs -> [Vols -> SnapCache]]
         /\ linked' \in [Procs -> SUBSET Snaps]
         /\ heap' \in [Procs -> [Ids -> Object]]
  <1>1. RecordedSnaps(v) \in SUBSET Snaps
    BY DEF RecordedSnaps, SnapsOf
  <1>2. [loaded |-> TRUE, ids |-> RecordedSnaps(v)] \in SnapCache
    BY <1>1 DEF SnapCache
  <1>3. cache' \in [Procs -> [Vols -> SnapCache]]
    BY <1>2 DEF LoadSnapshots, TypeOK
  <1>4. linked' \in [Procs -> SUBSET Snaps]
    BY <1>1 DEF LoadSnapshots, TypeOK
  <1>5. [i \in Ids |-> IF i \in RecordedSnaps(v) THEN FromRow(i) ELSE heap[p][i]]
          \in [Ids -> Object]
    BY FromRowTyped DEF TypeOK
  <1>6. heap' \in [Procs -> [Ids -> Object]]
    BY <1>5 DEF LoadSnapshots, TypeOK
  <1>7. QED
    BY <1>3, <1>4, <1>6

LEMMA ReadSnapshotsTyped ==
  ASSUME TypeOK, NEW p \in Procs, NEW v \in Vols, ReadSnapshots(p, v)
  PROVE  TypeOK'
  BY LoadSnapshotsTyped DEF ReadSnapshots, TypeOK

LEMMA StartDeleteTyped ==
  ASSUME TypeOK, NEW p \in Procs, NEW i \in Ids, StartDelete(p, i)
  PROVE  TypeOK'
  <1>1. /\ cache' \in [Procs -> [Vols -> SnapCache]]
        /\ linked' \in [Procs -> SUBSET Snaps]
        /\ heap' \in [Procs -> [Ids -> Object]]
    <2>1. CASE i \in Snaps \/ cache[p][i].loaded
      BY <2>1 DEF StartDelete, TypeOK
    <2>2. CASE ~(i \in Snaps \/ cache[p][i].loaded)
      <3>1. i \in Vols /\ LoadSnapshots(p, i)
        BY <2>2 DEF StartDelete, Ids
      <3>2. QED
        BY <3>1, LoadSnapshotsTyped
    <2>3. QED
      BY <2>1, <2>2
  <1>2. [op |-> "delete", pc |-> "driver", obj |-> i, src |-> {}, size |-> 0,
         prev |-> "none"] \in Call
    BY VolumesAssumption DEF Call, CallRecord, Statuses
  <1>3. call' \in [Procs -> Call \cup {Idle}]
    BY <1>2 DEF StartDelete, TypeOK
  <1>4. QED
    BY <1>1, <1>3 DEF StartDelete, TypeOK

LEMMA DriverDeletesTyped ==
  ASSUME TypeOK, NEW p \in Procs, DriverDeletes(p)
  PROVE  TypeOK'
  <1>1. call[p] # Idle /\ call[p].obj \in Ids
    BY CallTyped, CallFields DEF DriverDeletes, At
  <1>2. array' \in [Ids -> 0..MaxSize]
    BY <1>1, RemovedTyped DEF DriverDeletes
  <1>3. call' \in [Procs -> Call \cup {Idle}]
    BY <1>1, GoToTyped DEF DriverDeletes
  <1>4. QED
    BY <1>2, <1>3 DEF DriverDeletes, TypeOK

LEMMA DriverDeleteRaisesTyped ==
  ASSUME TypeOK, NEW p \in Procs, DriverDeleteRaises(p)
  PROVE  TypeOK'
  <1>1. call[p] # Idle /\ call[p].obj \in Ids /\ "error_deleting" \in Statuses
    BY CallTyped, CallFields DEF DriverDeleteRaises, At, Statuses
  <1>2. array' \in [Ids -> 0..MaxSize]
    BY <1>1, RemovedTyped DEF DriverDeleteRaises, TypeOK
  <1>3. heap' \in [Procs -> [Ids -> Object]]
    BY <1>1, SetStatusTyped DEF DriverDeleteRaises
  <1>4. call' \in [Procs -> Call \cup {Idle}]
    BY <1>1, GoToTyped DEF DriverDeleteRaises
  <1>5. QED
    BY <1>2, <1>3, <1>4, FaultTyped DEF DriverDeleteRaises, TypeOK

LEMMA DeleteInterruptedTyped ==
  ASSUME TypeOK, NEW p \in Procs, DeleteInterrupted(p)
  PROVE  TypeOK'
  <1>1. call[p] # Idle /\ call[p].obj \in Ids
    BY CallTyped, CallFields DEF DeleteInterrupted, At
  <1>2. array' \in [Ids -> 0..MaxSize]
    BY <1>1, RemovedTyped DEF DeleteInterrupted, TypeOK
  <1>3. QED
    BY <1>1, <1>2, FaultTyped DEF DeleteInterrupted, TypeOK

LEMMA UnrecordTyped ==
  ASSUME TypeOK, NEW p \in Procs, Unrecord(p)
  PROVE  TypeOK'
  <1> DEFINE i == call[p].obj
  <1>1. call[p] # Idle /\ i \in Ids
    BY CallTyped, CallFields DEF Unrecord, At
  <1>2. heap[p][i] \in Object
    BY <1>1 DEF TypeOK
  <1>3. heap' \in [Procs -> [Ids -> Object]]
    BY <1>1, <1>2 DEF Unrecord, SetDeleted, TypeOK, Object, Statuses, Fields
  <1>4. NoRow \in Row
    BY VolumesAssumption DEF NoRow, Row, Statuses
  <1>5. rows' \in [Ids -> Row]
    BY <1>1, <1>4 DEF Unrecord, TypeOK
  <1>6. listing' \in [Procs -> VolList] /\ cache' \in [Procs -> [Vols -> SnapCache]]
    <2>1. CASE i \in Vols
      <3>1. listing[p] \in VolList
        BY DEF TypeOK
      <3>2. [listing[p] EXCEPT !.ids = @ \ {i}] \in VolList
        BY <3>1 DEF VolList
      <3>3. VolumeRemoved(p, i) /\ UNCHANGED cache
        BY <2>1 DEF Unrecord
      <3>4. listing' \in [Procs -> VolList]
        BY <3>2, <3>3 DEF VolumeRemoved, TypeOK
      <3>5. QED
        BY <3>3, <3>4 DEF TypeOK
    <2>2. CASE i \in Snaps /\ i \notin Vols
      <3>1. VolOf[i] \in Vols
        BY <2>2, VolumesAssumption
      <3>2. cache[p][VolOf[i]] \in SnapCache
        BY <3>1 DEF TypeOK
      <3>3. SnapshotRemoved(p, i) /\ UNCHANGED listing
        BY <2>2 DEF Unrecord
      <3>4. QED
        BY <3>1, <3>2, <3>3 DEF SnapshotRemoved, TypeOK, SnapCache
    <2>3. QED
      BY <1>1, <2>1, <2>2 DEF Ids
  <1>7. QED
    BY <1>1, <1>3, <1>5, <1>6 DEF Unrecord, TypeOK

LEMMA UnrecordRaisesTyped ==
  ASSUME TypeOK, NEW p \in Procs, UnrecordRaises(p)
  PROVE  TypeOK'
  <1>1. call[p] # Idle /\ "error_deleting" \in Statuses
    BY DEF UnrecordRaises, At, Statuses
  <1>2. heap' \in [Procs -> [Ids -> Object]]
    BY <1>1, SetStatusTyped DEF UnrecordRaises
  <1>3. call' \in [Procs -> Call \cup {Idle}]
    BY <1>1, GoToTyped DEF UnrecordRaises
  <1>4. QED
    BY <1>2, <1>3, FaultTyped DEF UnrecordRaises, TypeOK

LEMMA GetByIdTyped ==
  ASSUME TypeOK, NEW p \in Procs, NEW i \in Ids, GetById(p, i)
  PROVE  TypeOK'
  <1>1. heap' \in [Procs -> [Ids -> Object]]
    BY FromRowTyped DEF GetById, TypeOK
  <1>2. NotLoaded \in SnapCache
    BY DEF NotLoaded, SnapCache
  <1>3. cache' \in [Procs -> [Vols -> SnapCache]]
    BY <1>2 DEF GetById, TypeOK
  <1>4. QED
    BY <1>1, <1>3 DEF GetById, TypeOK

LEMMA RefreshTyped ==
  ASSUME TypeOK, NEW p \in Procs, NEW v \in Vols, Refresh(p, v)
  PROVE  TypeOK'
  <1> DEFINE again == IF cache[p][v].loaded THEN RecordedSnaps(v) ELSE {}
  <1>1. again \in SUBSET Snaps
    BY DEF RecordedSnaps, SnapsOf
  <1>2. cache[p][v] \in SnapCache
    BY DEF TypeOK
  <1>3. cache' \in [Procs -> [Vols -> SnapCache]]
    BY <1>1, <1>2 DEF Refresh, TypeOK, SnapCache
  <1>4. linked' \in [Procs -> SUBSET Snaps]
    BY <1>1 DEF Refresh, TypeOK
  <1>5. [i \in Ids |-> IF i \in {v} \cup again THEN FromRow(i) ELSE heap[p][i]]
          \in [Ids -> Object]
    BY FromRowTyped DEF TypeOK
  <1>6. heap' \in [Procs -> [Ids -> Object]]
    BY <1>5 DEF Refresh, TypeOK
  <1>7. QED
    BY <1>3, <1>4, <1>6 DEF Refresh, TypeOK

LEMMA ListVolumesTyped ==
  ASSUME TypeOK, NEW p \in Procs, ListVolumes(p)
  PROVE  TypeOK'
  <1>1. [loaded |-> TRUE, ids |-> {v \in Vols : Recorded(v)}] \in VolList
    BY DEF VolList
  <1>2. QED
    BY <1>1 DEF ListVolumes, TypeOK

LEMMA EmptyHeapTyped ==
  /\ [i \in Ids |-> NoObject] \in [Ids -> Object]
  /\ [v \in Vols |-> NotLoaded] \in [Vols -> SnapCache]
  /\ NotLoaded \in VolList
  BY VolumesAssumption
     DEF NoObject, Object, Statuses, NotLoaded, SnapCache, VolList

LEMMA CrashTyped ==
  ASSUME TypeOK, NEW p \in Procs, Crash(p)
  PROVE  TypeOK'
  <1>1. dropped' \in SUBSET Ids
    BY CallTyped, CallFields DEF Crash, At, TypeOK
  <1>2. QED
    BY <1>1, EmptyHeapTyped, FaultTyped DEF Crash, TypeOK

LEMMA InitTyped == Init => TypeOK
  BY EmptyHeapTyped, VolumesAssumption
     DEF Init, TypeOK, NoRow, Row, Statuses

LEMMA StutterTyped ==
  ASSUME TypeOK, UNCHANGED vars
  PROVE  TypeOK'
  BY DEF TypeOK, vars

LEMMA NextTyped ==
  ASSUME TypeOK, [Next]_vars
  PROVE  TypeOK'
  <1>1. ASSUME NEW p \in Procs, Client(p)
        PROVE  TypeOK'
    BY <1>1, StartCreateTyped, StartCloneTyped, StartRestoreTyped,
       StartSnapshotTyped, StartExtendTyped, StartDeleteTyped,
       ReadSnapshotsTyped, GetByIdTyped, RefreshTyped, ListVolumesTyped
       DEF Client
  <1>2. ASSUME NEW p \in Procs, StepOf(p)
        PROVE  TypeOK'
    BY <1>2, DriverCreatesTyped, DriverCreateRaisesTyped,
       CreateInterruptedTyped, DriverExtendsTyped, DriverExtendRaisesTyped,
       ExtendInterruptedTyped, DriverDeletesTyped, DriverDeleteRaisesTyped,
       DeleteInterruptedTyped, UnrecordTyped, UnrecordRaisesTyped, SaveTyped,
       SaveFindsNoRowTyped, SaveRaisesTyped
       DEF StepOf
  <1>3. QED
    BY <1>1, <1>2, CrashTyped, StutterTyped DEF Next

(* Every reachable state is typed: no call, failure or crash leaves a status,*)
(* a size or a cache entry that the code could not interpret.                *)
THEOREM Typing == Spec => []TypeOK
  <1>1. QED
    BY InitTyped, NextTyped, PTL DEF Spec

-----------------------------------------------------------------------------
(* NoOrphan and DeleteIsFinal hold whatever the faults and however the calls *)
(* of the processes interleave: LifeInv is inductive.  Most actions are      *)
(* instances of a few patterns (a step inside a call, the end of a call, the *)
(* start of a creation, a read of the store), so there is one lemma per      *)
(* pattern and each action is shown to follow one.                           *)

-----------------------------------------------------------------------------
(* How the object table of a process changes.                                *)

OnlyObject(p, i, object) ==
  \A q \in Procs : \A j \in Ids :
    heap'[q][j] = IF q = p /\ j = i THEN object ELSE heap[q][j]

LEMMA SetStatusObject ==
  ASSUME TypeOK, NEW p \in Procs, call[p] # Idle, NEW status, SetStatus(p, status)
  PROVE  \E object :
           /\ OnlyObject(p, call[p].obj, object)
           /\ object.status = status
           /\ object.dirty = heap[p][call[p].obj].dirty \cup {"status"}
  <1> DEFINE i == call[p].obj
             object == [heap[p][i] EXCEPT
                          !.status = status,
                          !.dirty = heap[p][i].dirty \cup {"status"}]
  <1>1. i \in Ids
    BY CallTyped, CallFields
  <1>2. heap[p][i] \in Object /\ heap \in [Procs -> [Ids -> Object]]
    BY <1>1 DEF TypeOK
  <1>3. heap' = [heap EXCEPT ![p] = [heap[p] EXCEPT ![i] = object]]
    BY <1>1, <1>2 DEF SetStatus
  <1>4. /\ object.status = status
        /\ object.dirty = heap[p][i].dirty \cup {"status"}
    BY <1>2 DEF Object
  <1> HIDE DEF object
  <1>5. OnlyObject(p, i, object)
    BY <1>1, <1>2, <1>3 DEF OnlyObject
  <1>6. QED
    BY <1>4, <1>5

LEMMA SameObjects ==
  ASSUME TypeOK, NEW p \in Procs, NEW i \in Ids, UNCHANGED heap
  PROVE  OnlyObject(p, i, heap[p][i])
  BY DEF OnlyObject

(* Facts about the resource a call works on.                                 *)
LEMMA CallFacts ==
  ASSUME TypeOK, LifeInv, NEW p \in Procs, call[p] # Idle
  PROVE  /\ call[p] \in CallRecord
         /\ call[p].obj \in Ids
         /\ heap[p][call[p].obj] \in Object
         /\ heap[p][call[p].obj].status # "none"
         /\ call[p].obj \in used
         /\ \A q \in Procs \ {p} :
              "id" \notin heap[q][call[p].obj].dirty
         /\ call[p].op \in CreateOps =>
              /\ heap[p][call[p].obj].dirty = Fields
              /\ ~Recorded(call[p].obj) /\ call[p].obj \notin gone
  <1> DEFINE i == call[p].obj
  <1>1. call[p] \in CallRecord /\ i \in Ids
    BY CallTyped, CallFields
  <1>2. heap[p][i] \in Object
    BY <1>1 DEF TypeOK
  <1>3. heap[p][i].status # "none"
    BY DEF LifeInv, CallsAreSound
  <1>4. heap[p][i] # NoObject
    BY <1>3 DEF NoObject
  <1>5. i \in used
    BY <1>1, <1>4 DEF LifeInv, UnusedIsNowhere
  <1>6. \A q \in Procs \ {p} : "id" \notin heap[q][i].dirty
    BY <1>1, <1>4 DEF LifeInv, UnsavedIsPrivate
  <1>7. call[p].op \in CreateOps =>
          heap[p][i].dirty = Fields /\ ~Recorded(i) /\ i \notin gone
    BY <1>1 DEF LifeInv, CallsAreSound, UnsavedIsPrivate, Fields
  <1>8. QED
    BY <1>1, <1>2, <1>3, <1>5, <1>6, <1>7

-----------------------------------------------------------------------------
(* A step inside a call: the object gets a new status, the array may change, *)
(* the store does not.                                                       *)

LEMMA CallStep ==
  ASSUME TypeOK, LifeInv, NEW p \in Procs, call[p] # Idle,
         NEW pc \in {"save", "unrecord"}, GoTo(p, pc),
         NEW object, OnlyObject(p, call[p].obj, object),
         object.status # "none",
         "id" \in object.dirty => "id" \in heap[p][call[p].obj].dirty,
         call[p].op \in CreateOps => object.dirty = Fields /\ pc = "save",
         UNCHANGED <<rows, used, dropped, gone>>,
         \A j \in Ids : array'[j] > 0 =>
            array[j] > 0 \/ (j = call[p].obj /\ call[p].op \in CreateOps),
         pc = "unrecord" => ~(array'[call[p].obj] > 0)
  PROVE  LifeInv'
  <1> DEFINE i == call[p].obj
  <1>1. /\ call[p] \in CallRecord /\ i \in Ids /\ i \in used
        /\ heap[p][i].status # "none"
        /\ \A q \in Procs \ {p} : "id" \notin heap[q][i].dirty
        /\ call[p].op \in CreateOps =>
             /\ heap[p][i].dirty = Fields
             /\ ~Recorded(i) /\ i \notin gone
    BY CallFacts
  <1>2. \A q \in Procs \ {p} : call'[q] = call[q]
    BY DEF GoTo, TypeOK
  <1>3. /\ call'[p] # Idle /\ call'[p].obj = i /\ call'[p].op = call[p].op
        /\ call'[p].pc = pc /\ call'[p].prev = call[p].prev
    BY <1>1 DEF GoTo, TypeOK, CallRecord, Idle
  <1>4. UnusedIsNowhere'
    BY <1>1 DEF LifeInv, UnusedIsNowhere, Recorded, OnArray, OnlyObject
  <1>5. NoObjectIsClean'
    BY <1>1 DEF LifeInv, NoObjectIsClean, OnlyObject
  <1>6. heap[p][i] # NoObject
    BY <1>1 DEF NoObject
  <1>7. UnsavedIsPrivate'
    BY <1>1, <1>6 DEF LifeInv, UnsavedIsPrivate, Recorded, OnlyObject
  <1>8. CallsAreSound'
    <2> SUFFICES ASSUME NEW q \in Procs, call'[q] # Idle
                 PROVE  /\ heap'[q][call'[q].obj].status # "none"
                        /\ call'[q].op \in CreateOps =>
                             heap'[q][call'[q].obj].dirty = Fields
                        /\ call'[q].op = "extend" => call'[q].prev # "none"
                        /\ call'[q].pc = "unrecord" => ~(array'[call'[q].obj] > 0)
      BY DEF CallsAreSound, OnArray
    <2>1. CASE q = p
      BY <2>1, <1>1, <1>3 DEF LifeInv, CallsAreSound, OnlyObject
    <2>2. CASE q # p
      <3>1. call'[q] = call[q] /\ call[q].obj \in Ids
        BY <2>2, <1>2, CallFacts
      <3>2. heap'[q][call[q].obj] = heap[q][call[q].obj]
        BY <2>2, <3>1 DEF OnlyObject
      <3>3. call[q].obj = i => call[p].op \notin CreateOps
        BY <2>2, <3>1, <1>1, CallFacts DEF Fields
      <3>4. QED
        BY <3>1, <3>2, <3>3 DEF LifeInv, CallsAreSound, OnArray
    <2>3. QED
      BY <2>1, <2>2
  <1>9. NoOrphan'
    <2> SUFFICES ASSUME NEW j \in Ids, array'[j] > 0
                 PROVE  \/ Recorded(j)'
                        \/ Working(j, CreateOps, {"save"})'
                        \/ j \in dropped'
      BY DEF NoOrphan, OnArray
    <2>1. CASE j = i /\ call[p].op \in CreateOps
      BY <2>1, <1>3 DEF Working
    <2>2. CASE ~(j = i /\ call[p].op \in CreateOps)
      <3>1. Recorded(j) \/ Working(j, CreateOps, {"save"}) \/ j \in dropped
        BY <2>2 DEF LifeInv, NoOrphan, OnArray
      <3>2. Working(j, CreateOps, {"save"}) => Working(j, CreateOps, {"save"})'
        BY <2>2, <1>2 DEF Working
      <3>3. QED
        BY <3>1, <3>2 DEF Recorded
    <2>3. QED
      BY <2>1, <2>2
  <1>10. DeleteIsFinal'
    BY <1>1, TypeOK DEF LifeInv, DeleteIsFinal, Recorded, OnArray, TypeOK
  <1>11. QED
    BY <1>4, <1>5, <1>7, <1>8, <1>9, <1>10 DEF LifeInv

LEMMA DriverCreatesLife ==
  ASSUME TypeOK, LifeInv, NEW p \in Procs, DriverCreates(p)
  PROVE  LifeInv'
  <1> DEFINE i == call[p].obj
  <1>1. call[p] # Idle /\ call[p].op \in CreateOps
    BY DEF DriverCreates, At
  <1>2. /\ i \in Ids /\ heap[p][i].status # "none"
        /\ heap[p][i].dirty = Fields
    BY <1>1, CallFacts
  <1>3. PICK object :
          /\ OnlyObject(p, i, object)
          /\ object.status = Outcome(p, "available")
          /\ object.dirty = heap[p][i].dirty \cup {"status"}
    BY <1>1, SetStatusObject DEF DriverCreates
  <1>4. object.status # "none" /\ object.dirty = Fields
    BY <1>2, <1>3 DEF Outcome, Fields
  <1>5. \A j \in Ids : array'[j] > 0 => array[j] > 0 \/ j = i
    BY DEF DriverCreates, Created, TypeOK
  <1>6. GoTo(p, "save") /\ UNCHANGED <<rows, used, dropped, gone>>
    BY DEF DriverCreates
  <1>7. QED
    BY <1>1, <1>2, <1>3, <1>4, <1>5, <1>6, CallStep

LEMMA DriverCreateRaisesLife ==
  ASSUME TypeOK, LifeInv, NEW p \in Procs, DriverCreateRaises(p)
  PROVE  LifeInv'
  <1> DEFINE i == call[p].obj
  <1>1. call[p] # Idle /\ call[p].op \in CreateOps
    BY DEF DriverCreateRaises, At
  <1>2. /\ i \in Ids /\ heap[p][i].status # "none"
        /\ heap[p][i].dirty = Fields
    BY <1>1, CallFacts
  <1>3. PICK object :
          /\ OnlyObject(p, i, object)
          /\ object.status = Outcome(p, "error")
          /\ object.dirty = heap[p][i].dirty \cup {"status"}
    BY <1>1, SetStatusObject DEF DriverCreateRaises
  <1>4. object.status # "none" /\ object.dirty = Fields
    BY <1>2, <1>3 DEF Outcome, Fields
  <1>5. \A j \in Ids : array'[j] > 0 => array[j] > 0 \/ j = i
    BY DEF DriverCreateRaises, Created, TypeOK
  <1>6. GoTo(p, "save") /\ UNCHANGED <<rows, used, dropped, gone>>
    BY DEF DriverCreateRaises
  <1>7. QED
    BY <1>1, <1>2, <1>3, <1>4, <1>5, <1>6, CallStep

LEMMA CreateInterruptedLife ==
  ASSUME TypeOK, LifeInv, NEW p \in Procs, CreateInterrupted(p)
  PROVE  LifeInv'
  <1> DEFINE i == call[p].obj
  <1>1. call[p] # Idle /\ call[p].op \in CreateOps
    BY DEF CreateInterrupted, At
  <1>2. /\ i \in Ids /\ heap[p][i].status # "none"
        /\ heap[p][i].dirty = Fields
    BY <1>1, CallFacts
  <1>3. OnlyObject(p, i, heap[p][i])
    BY <1>2, SameObjects DEF CreateInterrupted
  <1>4. \A j \in Ids : array'[j] > 0 => array[j] > 0 \/ j = i
    BY DEF CreateInterrupted, Created, TypeOK
  <1>5. GoTo(p, "save") /\ UNCHANGED <<rows, used, dropped, gone>>
    BY DEF CreateInterrupted
  <1>6. QED
    BY <1>1, <1>2, <1>3, <1>4, <1>5, CallStep

(* An operation that is not a creation puts nothing new on the array.        *)
LEMMA NothingNewOnArray ==
  ASSUME TypeOK, NEW p \in Procs,
         UNCHANGED array \/ Grown(p) \/ \E i \in Ids : Removed(i)
  PROVE  \A j \in Ids : array'[j] > 0 => array[j] > 0
  <1>1. CASE UNCHANGED array
    BY <1>1
  <1>2. CASE Grown(p)
    BY <1>2 DEF Grown, CanGrow, OnArray, TypeOK
  <1>3. CASE \E i \in Ids : Removed(i)
    BY <1>3 DEF Removed
  <1>4. QED
    BY <1>1, <1>2, <1>3

LEMMA DriverExtendsLife ==
  ASSUME TypeOK, LifeInv, NEW p \in Procs, DriverExtends(p)
  PROVE  LifeInv'
  <1> DEFINE i == call[p].obj
             object == [status |-> call[p].prev, size |-> call[p].size,
                        dirty |-> heap[p][i].dirty \cup {"status", "size"}]
  <1>1. call[p] # Idle /\ call[p].op = "extend" /\ call[p].op \notin CreateOps
    BY DEF DriverExtends, At, CreateOps
  <1>2. i \in Ids
    BY <1>1, CallFacts
  <1>3. object.status # "none"
    BY <1>1 DEF LifeInv, CallsAreSound
  <1>4. OnlyObject(p, i, object)
    BY <1>2 DEF DriverExtends, OnlyObject, TypeOK
  <1>5. \A j \in Ids : array'[j] > 0 => array[j] > 0
    BY NothingNewOnArray DEF DriverExtends
  <1>6. GoTo(p, "save") /\ UNCHANGED <<rows, used, dropped, gone>>
    BY DEF DriverExtends
  <1>7. QED
    BY <1>1, <1>2, <1>3, <1>4, <1>5, <1>6, CallStep

LEMMA DriverExtendRaisesLife ==
  ASSUME TypeOK, LifeInv, NEW p \in Procs, DriverExtendRaises(p)
  PROVE  LifeInv'
  <1> DEFINE i == call[p].obj
  <1>1. call[p] # Idle /\ call[p].op \notin CreateOps
    BY DEF DriverExtendRaises, At, CreateOps
  <1>2. PICK object :
          /\ OnlyObject(p, i, object)
          /\ object.status = "error"
          /\ object.dirty = heap[p][i].dirty \cup {"status"}
    BY <1>1, SetStatusObject DEF DriverExtendRaises
  <1>3. \A j \in Ids : array'[j] > 0 => array[j] > 0
    BY NothingNewOnArray DEF DriverExtendRaises
  <1>4. GoTo(p, "save") /\ UNCHANGED <<rows, used, dropped, gone>>
    BY DEF DriverExtendRaises
  <1>5. QED
    BY <1>1, <1>2, <1>3, <1>4, CallStep

LEMMA ExtendInterruptedLife ==
  ASSUME TypeOK, LifeInv, NEW p \in Procs, ExtendInterrupted(p)
  PROVE  LifeInv'
  <1> DEFINE i == call[p].obj
  <1>1. call[p] # Idle /\ call[p].op \notin CreateOps
    BY DEF ExtendInterrupted, At, CreateOps
  <1>2. i \in Ids /\ heap[p][i].status # "none"
    BY <1>1, CallFacts
  <1>3. OnlyObject(p, i, heap[p][i])
    BY <1>2, SameObjects DEF ExtendInterrupted
  <1>4. \A j \in Ids : array'[j] > 0 => array[j] > 0
    BY NothingNewOnArray DEF ExtendInterrupted
  <1>5. GoTo(p, "save") /\ UNCHANGED <<rows, used, dropped, gone>>
    BY DEF ExtendInterrupted
  <1>6. QED
    BY <1>1, <1>2, <1>3, <1>4, <1>5, CallStep

LEMMA DriverDeletesLife ==
  ASSUME TypeOK, LifeInv, NEW p \in Procs, DriverDeletes(p)
  PROVE  LifeInv'
  <1> DEFINE i == call[p].obj
  <1>1. call[p] # Idle /\ call[p].op \notin CreateOps
    BY DEF DriverDeletes, At, CreateOps
  <1>2. i \in Ids /\ heap[p][i].status # "none"
    BY <1>1, CallFacts
  <1>3. OnlyObject(p, i, heap[p][i])
    BY <1>2, SameObjects DEF DriverDeletes
  <1>4. \A j \in Ids : array'[j] > 0 => array[j] > 0
    BY <1>2, NothingNewOnArray DEF DriverDeletes
  <1>5. ~(array'[i] > 0)
    BY <1>2 DEF DriverDeletes, Removed
  <1>6. GoTo(p, "unrecord") /\ UNCHANGED <<rows, used, dropped, gone>>
    BY DEF DriverDeletes
  <1>7. QED
    BY <1>1, <1>2, <1>3, <1>4, <1>5, <1>6, CallStep

LEMMA DriverDeleteRaisesLife ==
  ASSUME TypeOK, LifeInv, NEW p \in Procs, DriverDeleteRaises(p)
  PROVE  LifeInv'
  <1> DEFINE i == call[p].obj
  <1>1. call[p] # Idle /\ call[p].op \notin CreateOps /\ i \in Ids
    BY CallTyped, CallFields DEF DriverDeleteRaises, At, CreateOps
  <1>2. PICK object :
          /\ OnlyObject(p, i, object)
          /\ object.status = "error_deleting"
          /\ object.dirty = heap[p][i].dirty \cup {"status"}
    BY <1>1, SetStatusObject DEF DriverDeleteRaises
  <1>3. \A j \in Ids : array'[j] > 0 => array[j] > 0
    BY <1>1, NothingNewOnArray DEF DriverDeleteRaises
  <1>4. GoTo(p, "save") /\ UNCHANGED <<rows, used, dropped, gone>>
    BY DEF DriverDeleteRaises
  <1>5. QED
    BY <1>1, <1>2, <1>3, <1>4, CallStep

LEMMA UnrecordRaisesLife ==
  ASSUME TypeOK, LifeInv, NEW p \in Procs, UnrecordRaises(p)
  PROVE  LifeInv'
  <1> DEFINE i == call[p].obj
  <1>1. call[p] # Idle /\ call[p].op \notin CreateOps
    BY DEF UnrecordRaises, At, CreateOps
  <1>2. PICK object :
          /\ OnlyObject(p, i, object)
          /\ object.status = "error_deleting"
          /\ object.dirty = heap[p][i].dirty \cup {"status"}
    BY <1>1, SetStatusObject DEF UnrecordRaises
  <1>3. \A j \in Ids : array'[j] > 0 => array[j] > 0
    BY DEF UnrecordRaises
  <1>4. GoTo(p, "save") /\ UNCHANGED <<rows, used, dropped, gone>>
    BY DEF UnrecordRaises
  <1>5. QED
    BY <1>1, <1>2, <1>3, <1>4, CallStep

-----------------------------------------------------------------------------
(* The end of a call without a write to the store.  A creation that ends     *)
(* this way before its save counts as dropped.                               *)

LEMMA CallEnds ==
  ASSUME TypeOK, LifeInv, NEW p \in Procs,
         call' = [call EXCEPT ![p] = Idle],
         UNCHANGED <<rows, used, gone>>,
         dropped \subseteq dropped',
         \A q \in Procs \ {p} : heap'[q] = heap[q],
         \A j \in Ids : heap'[p][j] = heap[p][j] \/ heap'[p][j] = NoObject,
         \A j \in Ids : array'[j] > 0 => array[j] > 0,
         At(p, CreateOps, "save") => call[p].obj \in dropped'
  PROVE  LifeInv'
  <1>1. call'[p] = Idle /\ \A q \in Procs \ {p} : call'[q] = call[q]
    BY DEF TypeOK
  <1>2. UnusedIsNowhere'
    BY DEF LifeInv, UnusedIsNowhere, Recorded, OnArray
  <1>3. NoObjectIsClean'
    BY DEF LifeInv, NoObjectIsClean
  <1>4. NoObject.dirty = {}
    BY DEF NoObject
  <1>5. UnsavedIsPrivate'
    BY <1>4 DEF LifeInv, UnsavedIsPrivate, Recorded
  <1>6. CallsAreSound'
    <2> SUFFICES ASSUME NEW q \in Procs \ {p}, call'[q] # Idle
                 PROVE  /\ heap'[q][call'[q].obj].status # "none"
                        /\ call'[q].op \in CreateOps =>
                             heap'[q][call'[q].obj].dirty = Fields
                        /\ call'[q].op = "extend" => call'[q].prev # "none"
                        /\ call'[q].pc = "unrecord" => ~(array'[call'[q].obj] > 0)
      BY <1>1 DEF CallsAreSound, OnArray
    <2>1. call'[q] = call[q] /\ call[q].obj \in Ids
      BY <1>1, CallFacts
    <2>2. QED
      BY <2>1 DEF LifeInv, CallsAreSound, OnArray
  <1>7. NoOrphan'
    <2> SUFFICES ASSUME NEW j \in Ids, array'[j] > 0
                 PROVE  \/ Recorded(j)'
                        \/ Working(j, CreateOps, {"save"})'
                        \/ j \in dropped'
      BY DEF NoOrphan, OnArray
    <2>1. Recorded(j) \/ Working(j, CreateOps, {"save"}) \/ j \in dropped
      BY DEF LifeInv, NoOrphan, OnArray
    <2>2. Working(j, CreateOps, {"save"}) =>
            Working(j, CreateOps, {"save"})' \/ j \in dropped'
      BY <1>1 DEF Working, At
    <2>3. QED
      BY <2>1, <2>2 DEF Recorded
  <1>8. DeleteIsFinal'
    BY DEF LifeInv, DeleteIsFinal, Recorded, OnArray, TypeOK
  <1>9. QED
    BY <1>2, <1>3, <1>5, <1>6, <1>7, <1>8 DEF LifeInv

LEMMA SaveFindsNoRowLife ==
  ASSUME TypeOK, LifeInv, NEW p \in Procs, SaveFindsNoRow(p)
  PROVE  LifeInv'
  <1>1. call[p] # Idle /\ call[p].op \notin CreateOps
    BY CallFacts DEF SaveFindsNoRow, At, CanSave, Fields
  <1>2. call' = [call EXCEPT ![p] = Idle]
    BY DEF SaveFindsNoRow, AfterSave
  <1>3. UNCHANGED <<array, rows, heap, used, dropped, gone>>
    BY DEF SaveFindsNoRow
  <1>4. QED
    BY <1>1, <1>2, <1>3, CallEnds DEF At

LEMMA SaveRaisesLife ==
  ASSUME TypeOK, LifeInv, NEW p \in Procs, SaveRaises(p)
  PROVE  LifeInv'
  <1>1. call' = [call EXCEPT ![p] = Idle]
    BY DEF SaveRaises, AfterSave
  <1>2. UNCHANGED <<array, rows, heap, used, gone>>
    BY DEF SaveRaises
  <1>3. dropped' = dropped \cup {call[p].obj}
    BY DEF SaveRaises
  <1>4. QED
    BY <1>1, <1>2, <1>3, CallEnds

LEMMA DeleteInterruptedLife ==
  ASSUME TypeOK, LifeInv, NEW p \in Procs, DeleteInterrupted(p)
  PROVE  LifeInv'
  <1>1. call[p] # Idle /\ call[p].op \notin CreateOps /\ call[p].obj \in Ids
    BY CallTyped, CallFields DEF DeleteInterrupted, At, CreateOps
  <1>2. call' = [call EXCEPT ![p] = Idle]
    BY DEF DeleteInterrupted
  <1>3. UNCHANGED <<rows, heap, used, gone>> /\ dropped \subseteq dropped'
    BY DEF DeleteInterrupted
  <1>4. \A j \in Ids : array'[j] > 0 => array[j] > 0
    BY <1>1, NothingNewOnArray DEF DeleteInterrupted
  <1>5. QED
    BY <1>1, <1>2, <1>3, <1>4, CallEnds DEF At

LEMMA CrashLife ==
  ASSUME TypeOK, LifeInv, NEW p \in Procs, Crash(p)
  PROVE  LifeInv'
  <1>1. call' = [call EXCEPT ![p] = Idle]
    BY DEF Crash
  <1>2. UNCHANGED <<array, rows, used, gone>>
    BY DEF Crash
  <1>3. \A q \in Procs \ {p} : heap'[q] = heap[q]
    BY DEF Crash, TypeOK
  <1>4. \A j \in Ids : heap'[p][j] = NoObject
    BY DEF Crash, TypeOK
  <1>5. At(p, CreateOps, "save") => At(p, AnyOp, "save")
    BY DEF At, AnyOp
  <1>6. /\ dropped \subseteq dropped'
        /\ At(p, CreateOps, "save") => call[p].obj \in dropped'
    BY <1>5 DEF Crash
  <1>7. QED
    BY <1>1, <1>2, <1>3, <1>4, <1>6, CallEnds

-----------------------------------------------------------------------------
(* Writes to the store.                                                      *)

LEMMA SaveLife ==
  ASSUME TypeOK, LifeInv, NEW p \in Procs, Save(p)
  PROVE  LifeInv'
  <1> DEFINE i == call[p].obj
             saved == [heap[p][i] EXCEPT !.dirty = {}]
  <1>1. call[p] # Idle /\ AfterSave(p) /\ CanSave(p, i)
    BY DEF Save, At
  <1>2. /\ i \in Ids /\ i \in used /\ heap[p][i] \in Object
        /\ heap[p][i].status # "none"
        /\ \A q \in Procs \ {p} : "id" \notin heap[q][i].dirty
        /\ call[p].op \in CreateOps => heap[p][i].dirty = Fields
    BY <1>1, CallFacts
  <1>3. saved.status # "none" /\ saved.dirty = {}
    BY <1>2 DEF Object
  <1> HIDE DEF saved
  <1>4. OnlyObject(p, i, saved)
    BY <1>2 DEF Save, OnlyObject, TypeOK, saved
  <1>5. call'[p] = Idle /\ \A q \in Procs \ {p} : call'[q] = call[q]
    BY <1>1 DEF AfterSave, TypeOK
  <1>6. \A j \in Ids \ {i} : rows'[j] = rows[j]
    BY DEF Save, TypeOK
  <1>7. UNCHANGED <<array, used, dropped, gone>>
    BY DEF Save
  <1>8. i \notin gone
    BY <1>1, <1>2 DEF CanSave, LifeInv, UnsavedIsPrivate, DeleteIsFinal
  <1>9. UnusedIsNowhere'
    BY <1>2, <1>4, <1>6, <1>7
       DEF LifeInv, UnusedIsNowhere, OnlyObject, Recorded, OnArray
  <1>10. NoObjectIsClean'
    BY <1>3, <1>4 DEF LifeInv, NoObjectIsClean, OnlyObject
  <1>11. heap[p][i] # NoObject
    BY <1>2 DEF NoObject
  <1>12. UnsavedIsPrivate'
    <2> SUFFICES ASSUME NEW q \in Procs, NEW j \in Ids, "id" \in heap'[q][j].dirty
                 PROVE  /\ ~Recorded(j)' /\ j \notin gone'
                        /\ \A r \in Procs \ {q} : heap'[r][j] = NoObject
      BY DEF UnsavedIsPrivate
    <2>1. j # i
      BY <1>2, <1>3, <1>4 DEF OnlyObject
    <2>2. heap'[q][j] = heap[q][j] /\ \A r \in Procs : heap'[r][j] = heap[r][j]
      BY <2>1, <1>4 DEF OnlyObject
    <2>3. QED
      BY <2>1, <2>2, <1>6, <1>7 DEF LifeInv, UnsavedIsPrivate, Recorded
  <1>13. CallsAreSound'
    <2> SUFFICES ASSUME NEW q \in Procs \ {p}, call[q] # Idle
                 PROVE  /\ heap'[q][call[q].obj].status # "none"
                        /\ call[q].op \in CreateOps =>
                             heap'[q][call[q].obj].dirty = Fields
                        /\ call[q].op = "extend" => call[q].prev # "none"
                        /\ call[q].pc = "unrecord" => ~(array'[call[q].obj] > 0)
      BY <1>5 DEF CallsAreSound, OnArray
    <2>1. call[q].obj \in Ids
      BY CallFacts
    <2>2. heap'[q][call[q].obj] = heap[q][call[q].obj]
      BY <2>1, <1>4 DEF OnlyObject
    <2>3. QED
      BY <2>2, <1>7 DEF LifeInv, CallsAreSound, OnArray
  <1>14. /\ call[p].op \in CreateOps => rows'[i].status # "none"
         /\ Recorded(i) => rows'[i].status # "none"
    <2>1. rows'[i] = Merged(rows[i], heap[p][i])
      BY <1>2 DEF Save, TypeOK
    <2>2. rows'[i].status = IF "status" \in heap[p][i].dirty
                            THEN heap[p][i].status ELSE rows[i].status
      BY <2>1 DEF Merged
    <2>3. QED
      BY <1>2, <2>2 DEF Recorded, Fields
  <1>15. NoOrphan'
    <2> SUFFICES ASSUME NEW j \in Ids, array[j] > 0
                 PROVE  \/ Recorded(j)'
                        \/ Working(j, CreateOps, {"save"})'
                        \/ j \in dropped
      BY <1>7 DEF NoOrphan, OnArray
    <2>1. Recorded(j) \/ Working(j, CreateOps, {"save"}) \/ j \in dropped
      BY DEF LifeInv, NoOrphan, OnArray
    <2>2. Working(j, CreateOps, {"save"}) =>
            Working(j, CreateOps, {"save"})' \/ Recorded(j)'
      BY <1>5, <1>14 DEF Working, Recorded
    <2>3. Recorded(j) => Recorded(j)'
      BY <1>6, <1>14 DEF Recorded
    <2>4. QED
      BY <2>1, <2>2, <2>3
  <1>16. DeleteIsFinal'
    BY <1>6, <1>7, <1>8 DEF LifeInv, DeleteIsFinal, Recorded, OnArray, TypeOK
  <1>17. QED
    BY <1>9, <1>10, <1>12, <1>13, <1>15, <1>16 DEF LifeInv

LEMMA UnrecordLife ==
  ASSUME TypeOK, LifeInv, NEW p \in Procs, Unrecord(p)
  PROVE  LifeInv'
  <1> DEFINE i == call[p].obj
             deleted == [heap[p][i] EXCEPT !.status = "deleted", !.dirty = {"status"}]
  <1>1. call[p] # Idle /\ call[p].pc = "unrecord"
    BY DEF Unrecord, At
  <1>2. /\ i \in Ids /\ i \in used /\ heap[p][i] \in Object
        /\ heap[p][i].status # "none"
        /\ \A q \in Procs \ {p} : "id" \notin heap[q][i].dirty
    BY <1>1, CallFacts
  <1>3. deleted.status # "none" /\ "id" \notin deleted.dirty
    BY <1>2 DEF Object
  <1>a. heap' = [heap EXCEPT ![p] = [heap[p] EXCEPT ![i] = deleted]]
    BY <1>2 DEF Unrecord, SetDeleted, TypeOK
  <1> HIDE DEF deleted
  <1>4. OnlyObject(p, i, deleted)
    BY <1>a, <1>2 DEF OnlyObject, TypeOK
  <1>5. call'[p] = Idle /\ \A q \in Procs \ {p} : call'[q] = call[q]
    BY DEF Unrecord, TypeOK
  <1>6. rows'[i].status = "none" /\ \A j \in Ids \ {i} : rows'[j] = rows[j]
    BY <1>2 DEF Unrecord, NoRow, TypeOK
  <1>7. UNCHANGED <<array, used, dropped>> /\ gone' = gone \cup {i}
    BY DEF Unrecord
  <1>8. ~OnArray(i)
    BY <1>1 DEF LifeInv, CallsAreSound
  <1>9. UnusedIsNowhere'
    BY <1>2, <1>4, <1>6, <1>7
       DEF LifeInv, UnusedIsNowhere, OnlyObject, Recorded, OnArray
  <1>10. NoObjectIsClean'
    BY <1>3, <1>4 DEF LifeInv, NoObjectIsClean, OnlyObject
  <1>11. UnsavedIsPrivate'
    <2> SUFFICES ASSUME NEW q \in Procs, NEW j \in Ids, "id" \in heap'[q][j].dirty
                 PROVE  /\ ~Recorded(j)' /\ j \notin gone'
                        /\ \A r \in Procs \ {q} : heap'[r][j] = NoObject
      BY DEF UnsavedIsPrivate
    <2>1. j # i
      BY <1>2, <1>3, <1>4 DEF OnlyObject
    <2>2. heap'[q][j] = heap[q][j] /\ \A r \in Procs : heap'[r][j] = heap[r][j]
      BY <2>1, <1>4 DEF OnlyObject
    <2>3. QED
      BY <2>1, <2>2, <1>6, <1>7 DEF LifeInv, UnsavedIsPrivate, Recorded
  <1>12. CallsAreSound'
    <2> SUFFICES ASSUME NEW q \in Procs \ {p}, call[q] # Idle
                 PROVE  /\ heap'[q][call[q].obj].status # "none"
                        /\ call[q].op \in CreateOps =>
                             heap'[q][call[q].obj].dirty = Fields
                        /\ call[q].op = "extend" => call[q].prev # "none"
                        /\ call[q].pc = "unrecord" => ~(array'[call[q].obj] > 0)
      BY <1>5 DEF CallsAreSound, OnArray
    <2>1. call[q].obj \in Ids
      BY CallFacts
    <2>2. heap'[q][call[q].obj] = heap[q][call[q].obj]
      BY <2>1, <1>4 DEF OnlyObject
    <2>3. QED
      BY <2>2, <1>7 DEF LifeInv, CallsAreSound, OnArray
  <1>13. NoOrphan'
    <2> SUFFICES ASSUME NEW j \in Ids, array[j] > 0
                 PROVE  \/ Recorded(j)'
                        \/ Working(j, CreateOps, {"save"})'
                        \/ j \in dropped
      BY <1>7 DEF NoOrphan, OnArray
    <2>1. j # i
      BY <1>8 DEF OnArray
    <2>2. Recorded(j) \/ Working(j, CreateOps, {"save"}) \/ j \in dropped
      BY DEF LifeInv, NoOrphan, OnArray
    <2>3. Working(j, CreateOps, {"save"}) => Working(j, CreateOps, {"save"})'
      BY <2>1, <1>5 DEF Working
    <2>4. QED
      BY <2>1, <2>2, <2>3, <1>6 DEF Recorded
  <1>14. DeleteIsFinal'
    BY <1>6, <1>7, <1>8 DEF LifeInv, DeleteIsFinal, Recorded, OnArray, TypeOK
  <1>15. QED
    BY <1>9, <1>10, <1>11, <1>12, <1>13, <1>14 DEF LifeInv

-----------------------------------------------------------------------------
(* The start of a creation: a new id, whose object nobody else has.          *)

LEMMA StartLife ==
  ASSUME TypeOK, LifeInv, NEW p \in Procs, NEW op \in CreateOps, NEW i \in Ids,
         NEW src, NEW size, NEW object,
         object.status # "none", object.dirty = Fields,
         Start(p, op, i, src, size, object)
  PROVE  LifeInv'
  <1>1. call[p] = Idle /\ i \notin used /\ used' = used \cup {i}
    BY DEF Start, May, Available
  <1>2. OnlyObject(p, i, object)
    BY DEF Start, OnlyObject, TypeOK
  <1>3. UNCHANGED <<array, rows, dropped, gone>>
    BY DEF Start
  <1>4. /\ call'[p] # Idle /\ call'[p].op = op
        /\ call'[p].obj = i /\ call'[p].pc = "driver"
        /\ \A q \in Procs \ {p} : call'[q] = call[q]
    BY DEF Start, TypeOK, Idle
  <1>5. /\ ~Recorded(i) /\ i \notin gone
        /\ \A q \in Procs : heap[q][i] = NoObject
    BY <1>1 DEF LifeInv, UnusedIsNowhere
  <1>6. UnusedIsNowhere'
    BY <1>1, <1>2, <1>3
       DEF LifeInv, UnusedIsNowhere, OnlyObject, Recorded, OnArray
  <1>7. NoObjectIsClean'
    BY <1>2 DEF LifeInv, NoObjectIsClean, OnlyObject
  <1>8. UnsavedIsPrivate'
    <2> SUFFICES ASSUME NEW q \in Procs, NEW j \in Ids, "id" \in heap'[q][j].dirty
                 PROVE  /\ ~Recorded(j) /\ j \notin gone
                        /\ \A r \in Procs \ {q} : heap'[r][j] = NoObject
      BY <1>3 DEF UnsavedIsPrivate, Recorded
    <2>1. CASE j = i
      <3>1. q = p
        BY <2>1, <1>2, <1>5 DEF OnlyObject, NoObject
      <3>2. QED
        BY <2>1, <3>1, <1>2, <1>5 DEF OnlyObject
    <2>2. CASE j # i
      BY <2>2, <1>2 DEF OnlyObject, LifeInv, UnsavedIsPrivate
    <2>3. QED
      BY <2>1, <2>2
  <1>9. CallsAreSound'
    <2> SUFFICES ASSUME NEW q \in Procs, call'[q] # Idle
                 PROVE  /\ heap'[q][call'[q].obj].status # "none"
                        /\ call'[q].op \in CreateOps =>
                             heap'[q][call'[q].obj].dirty = Fields
                        /\ call'[q].op = "extend" => call'[q].prev # "none"
                        /\ call'[q].pc = "unrecord" => ~(array'[call'[q].obj] > 0)
      BY DEF CallsAreSound, OnArray
    <2>1. CASE q = p
      BY <2>1, <1>2, <1>4 DEF OnlyObject, CreateOps
    <2>2. CASE q # p
      <3>1. call'[q] = call[q] /\ call[q].obj \in Ids
        BY <2>2, <1>4, CallFacts
      <3>2. heap'[q][call[q].obj] = heap[q][call[q].obj]
        BY <2>2, <3>1, <1>2 DEF OnlyObject
      <3>3. QED
        BY <3>1, <3>2, <1>3 DEF LifeInv, CallsAreSound, OnArray
    <2>3. QED
      BY <2>1, <2>2
  <1>10. NoOrphan'
    <2> SUFFICES ASSUME NEW j \in Ids, array[j] > 0
                 PROVE  \/ Recorded(j)
                        \/ Working(j, CreateOps, {"save"})'
                        \/ j \in dropped
      BY <1>3 DEF NoOrphan, OnArray, Recorded
    <2>1. Recorded(j) \/ Working(j, CreateOps, {"save"}) \/ j \in dropped
      BY DEF LifeInv, NoOrphan, OnArray
    <2>2. Working(j, CreateOps, {"save"}) => Working(j, CreateOps, {"save"})'
      BY <1>1, <1>4 DEF Working
    <2>3. QED
      BY <2>1, <2>2
  <1>11. DeleteIsFinal'
    BY <1>3 DEF LifeInv, DeleteIsFinal, Recorded, OnArray
  <1>12. QED
    BY <1>6, <1>7, <1>8, <1>9, <1>10, <1>11 DEF LifeInv

LEMMA NewObjectFields ==
  ASSUME NEW status, NEW size
  PROVE  /\ NewObject(status, size).status = status
         /\ NewObject(status, size).dirty = Fields
  BY DEF NewObject

LEMMA CreationsLife ==
  ASSUME TypeOK, LifeInv, NEW p \in Procs,
         \/ \E v \in Vols, n \in 1..MaxSize : StartCreate(p, v, n)
         \/ \E v, w \in Vols : StartClone(p, v, w)
         \/ \E v \in Vols, s \in Snaps, n \in 1..MaxSize : StartRestore(p, v, s, n)
         \/ \E s \in Snaps : StartSnapshot(p, s)
  PROVE  LifeInv'
  <1> USE DEF CreateOps, Ids
  <1>1. CASE \E v \in Vols, n \in 1..MaxSize : StartCreate(p, v, n)
    <2>1. PICK v \in Vols, n \in 1..MaxSize : StartCreate(p, v, n)
      BY <1>1
    <2>2. Start(p, "create", v, {}, n, NewObject("creating", n))
      BY <2>1 DEF StartCreate
    <2>3. QED
      BY <2>2, StartLife, NewObjectFields
  <1>2. CASE \E v, w \in Vols : StartClone(p, v, w)
    <2>1. PICK v \in Vols, w \in Vols : StartClone(p, v, w)
      BY <1>2
    <2>2. /\ heap[p][w].status # "none"
          /\ Start(p, "clone", v, {w}, heap[p][w].size,
                   NewObject(heap[p][w].status, heap[p][w].size))
      BY <2>1 DEF StartClone, Holds
    <2>3. QED
      BY <2>2, StartLife, NewObjectFields
  <1>3. CASE \E v \in Vols, s \in Snaps, n \in 1..MaxSize : StartRestore(p, v, s, n)
    <2>1. PICK v \in Vols, s \in Snaps, n \in 1..MaxSize : StartRestore(p, v, s, n)
      BY <1>3
    <2>2. /\ SourceStatus(p, s) # "none"
          /\ Start(p, "restore", v, {s}, n, NewObject(SourceStatus(p, s), n))
      BY <2>1 DEF StartRestore
    <2>3. QED
      BY <2>2, StartLife, NewObjectFields
  <1>4. CASE \E s \in Snaps : StartSnapshot(p, s)
    <2>1. PICK s \in Snaps : StartSnapshot(p, s)
      BY <1>4
    <2>2. Start(p, "snapshot", s, {VolOf[s]}, 1, NewObject("creating", 1))
      BY <2>1 DEF StartSnapshot
    <2>3. QED
      BY <2>2, StartLife, NewObjectFields
  <1>5. QED
    BY <1>1, <1>2, <1>3, <1>4

-----------------------------------------------------------------------------
(* Reads, and the start of a call on a resource the process holds: objects   *)
(* change only where there was an object or there is a row.                  *)

LEMMA BeginLife ==
  ASSUME TypeOK, LifeInv, NEW p \in Procs, call[p] = Idle,
         UNCHANGED <<array, rows, used, dropped, gone>>,
         \A q \in Procs \ {p} : heap'[q] = heap[q],
         \A j \in Ids : \/ heap'[p][j] = heap[p][j]
                        \/ /\ heap'[p][j].status # "none"
                           /\ heap[p][j] # NoObject \/ Recorded(j)
                           /\ "id" \in heap'[p][j].dirty => "id" \in heap[p][j].dirty,
         \A q \in Procs \ {p} : call'[q] = call[q],
         call'[p] # Idle =>
           /\ call'[p].op \notin CreateOps /\ call'[p].pc = "driver"
           /\ heap'[p][call'[p].obj].status # "none"
           /\ call'[p].op = "extend" => call'[p].prev # "none"
  PROVE  LifeInv'
  <1>1. UnusedIsNowhere'
    BY DEF LifeInv, UnusedIsNowhere, Recorded, OnArray
  <1>2. NoObjectIsClean'
    BY DEF LifeInv, NoObjectIsClean
  <1>3. UnsavedIsPrivate'
    <2> SUFFICES ASSUME NEW q \in Procs, NEW j \in Ids, "id" \in heap'[q][j].dirty
                 PROVE  /\ ~Recorded(j) /\ j \notin gone
                        /\ \A r \in Procs \ {q} : heap'[r][j] = NoObject
      BY DEF UnsavedIsPrivate, Recorded
    <2>1. "id" \in heap[q][j].dirty
      OBVIOUS
    <2>2. /\ ~Recorded(j) /\ j \notin gone
          /\ \A r \in Procs \ {q} : heap[r][j] = NoObject
      BY <2>1 DEF LifeInv, UnsavedIsPrivate
    <2>3. \A r \in Procs \ {q} : heap'[r][j] = heap[r][j]
      BY <2>2
    <2>4. QED
      BY <2>2, <2>3
  <1>4. CallsAreSound'
    <2> SUFFICES ASSUME NEW q \in Procs, call'[q] # Idle
                 PROVE  /\ heap'[q][call'[q].obj].status # "none"
                        /\ call'[q].op \in CreateOps =>
                             heap'[q][call'[q].obj].dirty = Fields
                        /\ call'[q].op = "extend" => call'[q].prev # "none"
                        /\ call'[q].pc = "unrecord" => ~(array'[call'[q].obj] > 0)
      BY DEF CallsAreSound, OnArray
    <2>1. CASE q = p
      BY <2>1
    <2>2. CASE q # p
      BY <2>2 DEF LifeInv, CallsAreSound, OnArray
    <2>3. QED
      BY <2>1, <2>2
  <1>5. NoOrphan'
    <2> SUFFICES ASSUME NEW j \in Ids, array[j] > 0
                 PROVE  \/ Recorded(j)
                        \/ Working(j, CreateOps, {"save"})'
                        \/ j \in dropped
      BY DEF NoOrphan, OnArray, Recorded
    <2>1. Recorded(j) \/ Working(j, CreateOps, {"save"}) \/ j \in dropped
      BY DEF LifeInv, NoOrphan, OnArray
    <2>2. Working(j, CreateOps, {"save"}) => Working(j, CreateOps, {"save"})'
      BY DEF Working
    <2>3. QED
      BY <2>1, <2>2
  <1>6. DeleteIsFinal'
    BY DEF LifeInv, DeleteIsFinal, Recorded, OnArray
  <1>7. QED
    BY <1>1, <1>2, <1>3, <1>4, <1>5, <1>6 DEF LifeInv

(* Loading objects from rows is such a change.                               *)
LEMMA LoadedObjects ==
  ASSUME TypeOK, NEW p \in Procs, NEW I \in SUBSET Ids,
         \A i \in I : Recorded(i),
         heap' = [heap EXCEPT ![p] = [i \in Ids |-> IF i \in I THEN FromRow(i)
                                                    ELSE heap[p][i]]]
  PROVE  /\ \A q \in Procs \ {p} : heap'[q] = heap[q]
         /\ \A j \in Ids : \/ heap'[p][j] = heap[p][j]
                           \/ /\ heap'[p][j].status # "none"
                              /\ Recorded(j)
                              /\ heap'[p][j].dirty = {}
  <1>1. \A i \in I : FromRow(i).status # "none" /\ FromRow(i).dirty = {}
    BY DEF FromRow, Recorded
  <1>2. \A j \in Ids : heap'[p][j] = IF j \in I THEN FromRow(j) ELSE heap[p][j]
    BY DEF TypeOK
  <1>3. \A q \in Procs \ {p} : heap'[q] = heap[q]
    BY DEF TypeOK
  <1>4. QED
    BY <1>1, <1>2, <1>3

LEMMA LoadSnapshotsObjects ==
  ASSUME TypeOK, NEW p \in Procs, NEW v, LoadSnapshots(p, v)
  PROVE  /\ \A q \in Procs \ {p} : heap'[q] = heap[q]
         /\ \A j \in Ids : \/ heap'[p][j] = heap[p][j]
                           \/ /\ heap'[p][j].status # "none"
                              /\ Recorded(j)
                              /\ heap'[p][j].dirty = {}
  <1>1. RecordedSnaps(v) \in SUBSET Ids /\ \A s \in RecordedSnaps(v) : Recorded(s)
    BY DEF RecordedSnaps, SnapsOf, Ids
  <1>2. heap' = [heap EXCEPT ![p] = [i \in Ids |-> IF i \in RecordedSnaps(v)
                                                   THEN FromRow(i) ELSE heap[p][i]]]
    BY DEF LoadSnapshots, TypeOK
  <1>3. QED
    BY <1>1, <1>2, LoadedObjects

LEMMA StartExtendLife ==
  ASSUME TypeOK, LifeInv, NEW p \in Procs, NEW v \in Vols, NEW n,
         StartExtend(p, v, n)
  PROVE  LifeInv'
  <1> DEFINE object == [heap[p][v] EXCEPT
                          !.status = "extending",
                          !.dirty = heap[p][v].dirty \cup {"status"}]
  <1>1. call[p] = Idle /\ UNCHANGED <<array, rows, used, dropped, gone>>
    BY DEF StartExtend, May, Available
  <1>2. v \in Ids /\ heap[p][v] \in Object /\ heap[p][v].status # "none"
    BY DEF StartExtend, Holds, TypeOK, Ids
  <1>3. /\ object.status = "extending"
        /\ object.dirty = heap[p][v].dirty \cup {"status"}
    BY <1>2 DEF Object
  <1>4. heap' = [heap EXCEPT ![p] = [heap[p] EXCEPT ![v] = object]]
    BY <1>2 DEF StartExtend, Extending, TypeOK
  <1> HIDE DEF object
  <1>5. OnlyObject(p, v, object)
    BY <1>2, <1>4 DEF OnlyObject, TypeOK
  <1>6. heap[p][v] # NoObject
    BY <1>2 DEF NoObject
  <1>7. /\ call'[p].op = "extend" /\ call'[p].pc = "driver" /\ call'[p].obj = v
        /\ call'[p].prev = heap[p][v].status
        /\ \A q \in Procs \ {p} : call'[q] = call[q]
    BY DEF StartExtend, TypeOK
  <1>8. \A q \in Procs \ {p} : heap'[q] = heap[q]
    BY <1>4 DEF TypeOK
  <1>9. "extend" \notin CreateOps
    BY DEF CreateOps
  <1>10. \A j \in Ids : \/ heap'[p][j] = heap[p][j]
                        \/ /\ heap'[p][j].status # "none"
                           /\ heap[p][j] # NoObject
                           /\ "id" \in heap'[p][j].dirty => "id" \in heap[p][j].dirty
    BY <1>3, <1>5, <1>6 DEF OnlyObject
  <1>11. heap'[p][v].status # "none"
    BY <1>2, <1>3, <1>5 DEF OnlyObject
  <1>12. QED
    BY <1>1, <1>2, <1>7, <1>8, <1>9, <1>10, <1>11, BeginLife

LEMMA StartDeleteLife ==
  ASSUME TypeOK, LifeInv, NEW p \in Procs, NEW i \in Ids, StartDelete(p, i)
  PROVE  LifeInv'
  <1>1. call[p] = Idle /\ UNCHANGED <<array, rows, used, dropped, gone>>
    BY DEF StartDelete, May, Available
  <1>2. heap[p][i].status # "none"
    BY DEF StartDelete, Holds
  <1>3. UNCHANGED heap \/ LoadSnapshots(p, i)
    BY DEF StartDelete
  <1>4. /\ \A q \in Procs \ {p} : heap'[q] = heap[q]
        /\ \A j \in Ids : \/ heap'[p][j] = heap[p][j]
                          \/ /\ heap'[p][j].status # "none"
                             /\ Recorded(j)
                             /\ heap'[p][j].dirty = {}
    BY <1>3, LoadSnapshotsObjects
  <1>5. /\ call'[p].op = "delete" /\ call'[p].pc = "driver" /\ call'[p].obj = i
        /\ \A q \in Procs \ {p} : call'[q] = call[q]
    BY DEF StartDelete, TypeOK
  <1>6. heap'[p][i].status # "none"
    BY <1>2, <1>4
  <1>7. "delete" \notin CreateOps
    BY DEF CreateOps
  <1>8. QED
    BY <1>1, <1>4, <1>5, <1>6, <1>7, BeginLife

LEMMA ReadsLife ==
  ASSUME TypeOK, LifeInv, NEW p \in Procs,
         \/ \E v \in Vols : ReadSnapshots(p, v)
         \/ \E i \in Ids : GetById(p, i)
         \/ \E v \in Vols : Refresh(p, v)
         \/ ListVolumes(p)
  PROVE  LifeInv'
  <1>1. call[p] = Idle /\ UNCHANGED <<array, rows, used, dropped, gone, call>>
    BY DEF ReadSnapshots, GetById, Refresh, ListVolumes, May, Available
  <1>2. /\ \A q \in Procs \ {p} : heap'[q] = heap[q]
        /\ \A j \in Ids : \/ heap'[p][j] = heap[p][j]
                          \/ /\ heap'[p][j].status # "none"
                             /\ Recorded(j)
                             /\ heap'[p][j].dirty = {}
    <2>1. CASE \E v \in Vols : ReadSnapshots(p, v)
      BY <2>1, LoadSnapshotsObjects DEF ReadSnapshots
    <2>2. CASE \E i \in Ids : GetById(p, i)
      <3>1. PICK i \in Ids : GetById(p, i)
        BY <2>2
      <3>2. OnlyObject(p, i, FromRow(i)) /\ Recorded(i)
        BY <3>1 DEF GetById, OnlyObject, TypeOK
      <3>3. FromRow(i).status # "none" /\ FromRow(i).dirty = {}
        BY <3>2 DEF FromRow, Recorded
      <3>4. \A q \in Procs \ {p} : heap'[q] = heap[q]
        BY <3>1 DEF GetById, TypeOK
      <3>5. QED
        BY <3>2, <3>3, <3>4 DEF OnlyObject
    <2>3. CASE \E v \in Vols : Refresh(p, v)
      <3>1. PICK v \in Vols : Refresh(p, v)
        BY <2>3
      <3> DEFINE again == IF cache[p][v].loaded THEN RecordedSnaps(v) ELSE {}
                 I == {v} \cup again
      <3>2. heap' = [heap EXCEPT ![p] = [j \in Ids |-> IF j \in I THEN FromRow(j)
                                                       ELSE heap[p][j]]]
        BY <3>1 DEF Refresh, TypeOK
      <3>3. I \in SUBSET Ids /\ \A i \in I : Recorded(i)
        BY <3>1 DEF Refresh, RecordedSnaps, SnapsOf, Ids
      <3> HIDE DEF I
      <3>4. QED
        BY <3>2, <3>3, LoadedObjects
    <2>4. CASE ListVolumes(p)
      BY <2>4 DEF ListVolumes
    <2>5. QED
      BY <2>1, <2>2, <2>3, <2>4
  <1>3. QED
    BY <1>1, <1>2, BeginLife

-----------------------------------------------------------------------------
(* The invariant.                                                            *)

LEMMA InitLife ==
  ASSUME Init
  PROVE  LifeInv
  <1> USE DEF Init, Recorded, OnArray, NoRow
  <1>1. UnusedIsNowhere
    BY DEF UnusedIsNowhere
  <1>2. NoObjectIsClean
    BY DEF NoObjectIsClean
  <1>3. UnsavedIsPrivate
    BY DEF UnsavedIsPrivate, NoObject
  <1>4. CallsAreSound
    BY DEF CallsAreSound
  <1>5. NoOrphan /\ DeleteIsFinal
    BY DEF NoOrphan, DeleteIsFinal
  <1>6. QED
    BY <1>1, <1>2, <1>3, <1>4, <1>5 DEF LifeInv

LEMMA NextLife ==
  ASSUME TypeOK, LifeInv, Next
  PROVE  LifeInv'
  <1>1. PICK p \in Procs : Client(p) \/ StepOf(p) \/ Crash(p)
    BY DEF Next
  <1>2. CASE Client(p)
    BY <1>2, CreationsLife, StartExtendLife, StartDeleteLife, ReadsLife DEF Client
  <1>3. CASE StepOf(p)
    BY <1>3, DriverCreatesLife, DriverCreateRaisesLife, CreateInterruptedLife,
       DriverExtendsLife, DriverExtendRaisesLife, ExtendInterruptedLife,
       DriverDeletesLife, DriverDeleteRaisesLife, DeleteInterruptedLife,
       UnrecordLife, UnrecordRaisesLife,
       SaveLife, SaveFindsNoRowLife, SaveRaisesLife DEF StepOf
  <1>4. CASE Crash(p)
    BY <1>4, CrashLife
  <1>5. QED
    BY <1>1, <1>2, <1>3, <1>4

LEMMA StutterLife ==
  ASSUME LifeInv, UNCHANGED vars
  PROVE  LifeInv'
  BY DEF LifeInv, UnusedIsNowhere, NoObjectIsClean, UnsavedIsPrivate, CallsAreSound,
         NoOrphan, DeleteIsFinal, Working, Recorded, OnArray, vars

LEMMA LifeInvariant == Spec => []LifeInv
  <1>1. Init => LifeInv
    BY InitLife
  <1>2. TypeOK /\ LifeInv /\ [Next]_vars => LifeInv'
    BY NextLife, StutterLife
  <1>3. QED
    BY <1>1, <1>2, Typing, PTL DEF Spec

(* Nothing stays on the storage array without a row, except while its        *)
(* creation is about to save it or after a save of it was lost: any number   *)
(* of processes, volumes and snapshots, any faults, any interleaving.        *)
THEOREM NothingIsOrphaned == Spec => []NoOrphan
  <1>1. LifeInv => NoOrphan
    BY DEF LifeInv
  <1>2. QED
    BY <1>1, LifeInvariant, PTL

(* No call of any process, not one that was already running on the same      *)
(* resource either, brings back what a successful delete has removed.        *)
THEOREM DeletedStaysDeleted == Spec => []DeleteIsFinal
  <1>1. LifeInv => DeleteIsFinal
    BY DEF LifeInv
  <1>2. QED
    BY <1>1, LifeInvariant, PTL
=============================================================================
