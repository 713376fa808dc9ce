------------------------- MODULE VolumesRacingProofs -------------------------
(* The store, the array and the objects of any number of processes.  First,  *)
(* what overlapping calls cannot spoil: the recorded sizes, the references   *)
(* between a volume and its snapshots, the statuses in the store.  Then what *)
(* needs the calls on a volume not to overlap: available means on the array. *)
(* Last, what needs one process: objects and lists agree with the store.     *)
(* Each property has an inductive invariant of its own beside LifeInv.  The  *)
(* first lemmas say what an action does to the objects and calls, so that    *)
(* each invariant is then shown for the process that acts.                   *)
EXTENDS VolumesProofs

-----------------------------------------------------------------------------
(* What the actions do to objects and calls.                                 *)

OthersStay(p) ==
  \A q \in Procs \ {p} : heap'[q] = heap[q] /\ call'[q] = call[q]
Changes(p, i, status, size, dirty) ==
  /\ heap'[p][i].status = status
  /\ heap'[p][i].size = size
  /\ heap'[p][i].dirty = dirty
  /\ \A j \in Ids \ {i} : heap'[p][j] = heap[p][j]
Leads(p, pc) ==
  /\ call'[p] # Idle
  /\ call'[p].op = call[p].op /\ call'[p].pc = pc /\ call'[p].obj = call[p].obj
  /\ call'[p].size = call[p].size /\ call'[p].prev = call[p].prev
Ends(p) == call'[p] = Idle
FromStore(p) ==
  \A j \in Ids : \/ heap'[p][j] = heap[p][j]
                 \/ heap'[p][j] = FromRow(j) /\ Recorded(j)

LEMMA SetsStatus ==
  ASSUME TypeOK, NEW p \in Procs, call[p] # Idle, NEW status, SetStatus(p, status)
  PROVE  /\ Changes(p, call[p].obj, status, heap[p][call[p].obj].size,
                    heap[p][call[p].obj].dirty \cup {"status"})
         /\ \A q \in Procs \ {p} : heap'[q] = heap[q]
<1> DEFINE i == call[p].obj
           object == [heap[p][i] EXCEPT
                        !.status = status,
                        !.dirty = heap[p][i].dirty \cup {"status"}]
<1>1. i \in Ids
  BY CallTyped, CallFields
<1>2. heap[p][i] \in Object /\ heap \in [Procs -> [Ids -> Object]]
  BY <1>1 DEF TypeOK
<1>3. heap' = [heap EXCEPT ![p] = [heap[p] EXCEPT ![i] = object]]
  BY <1>1, <1>2 DEF SetStatus
<1>4. /\ object.status = status /\ object.size = heap[p][i].size
      /\ object.dirty = heap[p][i].dirty \cup {"status"}
  BY <1>2 DEF Object
<1> HIDE DEF object
<1> QED BY <1>1, <1>2, <1>3, <1>4 DEF Changes

LEMMA KeepsObjects ==
  ASSUME TypeOK, NEW p \in Procs, NEW i \in Ids, UNCHANGED heap
  PROVE  /\ Changes(p, i, heap[p][i].status, heap[p][i].size, heap[p][i].dirty)
         /\ \A q \in Procs \ {p} : heap'[q] = heap[q]
BY DEF Changes

LEMMA SavesObject ==
  ASSUME TypeOK, NEW p \in Procs, Save(p)
  PROVE  /\ Changes(p, call[p].obj, heap[p][call[p].obj].status,
                    heap[p][call[p].obj].size, {})
         /\ \A q \in Procs \ {p} : heap'[q] = heap[q]
<1> DEFINE i == call[p].obj
           object == [heap[p][i] EXCEPT !.dirty = {}]
<1>1. i \in Ids
  BY CallTyped, CallFields DEF Save, At
<1>2. heap[p][i] \in Object /\ heap \in [Procs -> [Ids -> Object]]
  BY <1>1 DEF TypeOK
<1>3. heap' = [heap EXCEPT ![p] = [heap[p] EXCEPT ![i] = object]]
  BY <1>1, <1>2 DEF Save
<1>4. object.status = heap[p][i].status /\ object.size = heap[p][i].size /\ object.dirty = {}
  BY <1>2 DEF Object
<1> HIDE DEF object
<1> QED BY <1>1, <1>2, <1>3, <1>4 DEF Changes

LEMMA DeletesObject ==
  ASSUME TypeOK, NEW p \in Procs, NEW i \in Ids, SetDeleted(p, i)
  PROVE  /\ Changes(p, i, "deleted", heap[p][i].size, {"status"})
         /\ \A q \in Procs \ {p} : heap'[q] = heap[q]
<1> DEFINE object == [heap[p][i] EXCEPT !.status = "deleted", !.dirty = {"status"}]
<1>1. heap[p][i] \in Object /\ heap \in [Procs -> [Ids -> Object]]
  BY DEF TypeOK
<1>2. heap' = [heap EXCEPT ![p] = [heap[p] EXCEPT ![i] = object]]
  BY <1>1 DEF SetDeleted
<1>3. object.status = "deleted" /\ object.size = heap[p][i].size /\ object.dirty = {"status"}
  BY <1>1 DEF Object
<1> HIDE DEF object
<1> QED BY <1>1, <1>2, <1>3 DEF Changes

LEMMA ExtendsObject ==
  ASSUME TypeOK, NEW p \in Procs, DriverExtends(p)
  PROVE  /\ Changes(p, call[p].obj, call[p].prev, call[p].size,
                    heap[p][call[p].obj].dirty \cup {"status", "size"})
         /\ \A q \in Procs \ {p} : heap'[q] = heap[q]
<1>1. call[p].obj \in Ids
  BY CallTyped, CallFields DEF DriverExtends, At
<1>2. heap \in [Procs -> [Ids -> Object]]
  BY DEF TypeOK
<1> QED BY <1>1, <1>2 DEF Changes, DriverExtends

LEMMA StartsExtending ==
  ASSUME TypeOK, NEW p \in Procs, NEW v \in Ids, NEW n, Extending(p, v, n)
  PROVE  /\ Changes(p, v, "extending", heap[p][v].size, heap[p][v].dirty \cup {"status"})
         /\ \A q \in Procs \ {p} : heap'[q] = heap[q]
<1> DEFINE object == [heap[p][v] EXCEPT !.status = "extending",
                                        !.dirty = heap[p][v].dirty \cup {"status"}]
<1>1. heap[p][v] \in Object /\ heap \in [Procs -> [Ids -> Object]]
  BY DEF TypeOK
<1>2. heap' = [heap EXCEPT ![p] = [heap[p] EXCEPT ![v] = object]]
  BY <1>1 DEF Extending
<1>3. /\ object.status = "extending" /\ object.size = heap[p][v].size
      /\ object.dirty = heap[p][v].dirty \cup {"status"}
  BY <1>1 DEF Object
<1> HIDE DEF object
<1> QED BY <1>1, <1>2, <1>3 DEF Changes

LEMMA GoesOn ==
  ASSUME TypeOK, NEW p \in Procs, call[p] # Idle, NEW pc, GoTo(p, pc)
  PROVE  Leads(p, pc) /\ \A q \in Procs \ {p} : call'[q] = call[q]
<1>1. call[p] \in CallRecord
  BY CallTyped, CallFields
<1>2. /\ call'[p] = [call[p] EXCEPT !.pc = pc]
      /\ \A q \in Procs \ {p} : call'[q] = call[q]
  BY DEF GoTo, TypeOK
<1>3. [call[p] EXCEPT !.pc = pc] # Idle
  BY <1>1 DEF CallRecord, Idle
<1> QED BY <1>1, <1>2, <1>3 DEF Leads, CallRecord

LEMMA Finishes ==
  ASSUME TypeOK, NEW p \in Procs, call' = [call EXCEPT ![p] = Idle]
  PROVE  Ends(p) /\ \A q \in Procs \ {p} : call'[q] = call[q]
BY DEF TypeOK, Ends

LEMMA Loads ==
  ASSUME TypeOK, NEW p \in Procs, NEW I \in SUBSET Ids, \A i \in I : Recorded(i),
         heap' = [heap EXCEPT ![p] = [i \in Ids |-> IF i \in I THEN FromRow(i)
                                                    ELSE heap[p][i]]]
  PROVE  FromStore(p) /\ \A q \in Procs \ {p} : heap'[q] = heap[q]
<1>1. \A j \in Ids : heap'[p][j] = IF j \in I THEN FromRow(j) ELSE heap[p][j]
  BY DEF TypeOK
<1>2. \A q \in Procs \ {p} : heap'[q] = heap[q]
  BY DEF TypeOK
<1> QED BY <1>1, <1>2 DEF FromStore

LEMMA LoadsSnapshots ==
  ASSUME TypeOK, NEW p \in Procs, NEW v, LoadSnapshots(p, v)
  PROVE  FromStore(p) /\ \A q \in Procs \ {p} : heap'[q] = heap[q]
<1>1. RecordedSnaps(v) \in SUBSET Ids /\ \A s \in RecordedSnaps(v) : Recorded(s)
  BY DEF RecordedSnaps, SnapsOf, Ids
<1>2. heap' = [heap EXCEPT ![p] = [i \in Ids |-> IF i \in RecordedSnaps(v)
                                                 THEN FromRow(i) ELSE heap[p][i]]]
  BY DEF LoadSnapshots, TypeOK
<1> QED BY <1>1, <1>2, Loads

Reads(p) == \/ \E v \in Vols : ReadSnapshots(p, v)
            \/ \E i \in Ids : GetById(p, i)
            \/ \E v \in Vols : Refresh(p, v)
            \/ ListVolumes(p)

LEMMA ReadsEffect ==
  ASSUME TypeOK, NEW p \in Procs, Reads(p)
  PROVE  /\ call[p] = Idle
         /\ UNCHANGED <<array, rows, call, inflight, used, dropped, gone>>
         /\ FromStore(p)
         /\ \A q \in Procs \ {p} : heap'[q] = heap[q]
<1>1. call[p] = Idle /\ UNCHANGED <<array, rows, call, inflight, used, dropped, gone>>
  BY DEF Reads, ReadSnapshots, GetById, Refresh, ListVolumes, May, Available
<1>2. CASE \E v \in Vols : ReadSnapshots(p, v)
  BY <1>1, <1>2, LoadsSnapshots DEF ReadSnapshots
<1>3. CASE \E i \in Ids : GetById(p, i)
  <2>1. PICK i \in Ids : GetById(p, i)
    BY <1>3
  <2>2. /\ heap'[p][i] = FromRow(i) /\ Recorded(i)
        /\ \A j \in Ids \ {i} : heap'[p][j] = heap[p][j]
        /\ \A q \in Procs \ {p} : heap'[q] = heap[q]
    BY <2>1 DEF GetById, TypeOK
  <2> QED BY <1>1, <2>2 DEF FromStore
<1>4. CASE \E v \in Vols : Refresh(p, v)
  <2>1. PICK v \in Vols : Refresh(p, v)
    BY <1>4
  <2> DEFINE again == IF cache[p][v].loaded THEN RecordedSnaps(v) ELSE {}
             I == {v} \cup again
  <2>2. heap' = [heap EXCEPT ![p] = [j \in Ids |-> IF j \in I THEN FromRow(j)
                                                   ELSE heap[p][j]]]
    BY <2>1 DEF Refresh, TypeOK
  <2>3. I \in SUBSET Ids /\ \A i \in I : Recorded(i)
    BY <2>1 DEF Refresh, RecordedSnaps, SnapsOf, Ids
  <2> HIDE DEF I
  <2> QED BY <1>1, <2>2, <2>3, Loads
<1>5. CASE ListVolumes(p)
  BY <1>1, <1>5 DEF ListVolumes, FromStore
<1> QED BY <1>2, <1>3, <1>4, <1>5 DEF Reads

(* A creation starts with a new object of an id that nobody has.             *)
NewCall(p, op, i, size, object) ==
  /\ call[p] = Idle /\ op \in Ops
  /\ i \in Ids \ used
  /\ UNCHANGED <<array, rows, dropped, gone>> /\ used' = used \cup {i}
  /\ heap'[p][i] = object /\ \A j \in Ids \ {i} : heap'[p][j] = heap[p][j]
  /\ call'[p] # Idle
  /\ call'[p].op = op /\ call'[p].pc = "driver" /\ call'[p].obj = i
  /\ call'[p].size = size /\ call'[p].prev = "none"
  /\ OthersStay(p)

LEMMA StartEffect ==
  ASSUME TypeOK, NEW p \in Procs, NEW op \in CreateOps, NEW i \in Ids, NEW src,
         NEW size, NEW object, Start(p, op, i, src, size, object)
  PROVE  NewCall(p, op, i, size, object)
<1>1. call[p] = Idle /\ op \in Ops /\ i \in Ids \ used /\ used' = used \cup {i}
      /\ UNCHANGED <<array, rows, dropped, gone>>
  BY DEF Start, May, Available
<1>2. /\ heap'[p][i] = object /\ \A j \in Ids \ {i} : heap'[p][j] = heap[p][j]
      /\ \A q \in Procs \ {p} : heap'[q] = heap[q]
  BY DEF Start, TypeOK
<1>3. /\ call'[p] = [op |-> op, pc |-> "driver", obj |-> i,
                     src |-> src, size |-> size, prev |-> "none"]
      /\ \A q \in Procs \ {p} : call'[q] = call[q]
  BY DEF Start, TypeOK
<1>4. call'[p] # Idle
  BY <1>3 DEF Idle
<1> QED BY <1>1, <1>2, <1>3, <1>4 DEF NewCall, OthersStay

Creations(p) ==
  \/ \E v \in Vols, n \in 1..MaxSize : StartCreate(p, v, n)
  \/ \E v, w \in Vols : StartClone(p, v, w)
  \/ \E v \in Vols, s \in Snaps, n \in 1..MaxSize : StartRestore(p, v, s, n)
  \/ \E s \in Snaps : StartSnapshot(p, s)

LEMMA NewTypes ==
  ASSUME TypeOK
  PROVE  /\ 1 \in 0..MaxSize /\ \A n \in 1..MaxSize : n \in 0..MaxSize
         /\ "creating" \in Statuses
         /\ \A p \in Procs, w \in Ids : /\ heap[p][w].status \in Statuses
                                       /\ heap[p][w].size \in 0..MaxSize
<1>1. 1 \in 0..MaxSize /\ \A n \in 1..MaxSize : n \in 0..MaxSize
  BY VolumesAssumption
<1>2. \A p \in Procs, w \in Ids : heap[p][w] \in Object
  BY DEF TypeOK
<1> QED BY <1>1, <1>2 DEF Statuses, Object

(* The status an object starts with: that of a clone or a restored volume is *)
(* copied from another object or row.                                        *)
NewStatus(p, op, status) ==
  \/ status = "creating" /\ op \notin {"clone", "restore"}
  \/ op = "clone" /\ \E w \in Ids : Holds(p, w) /\ status = heap[p][w].status
  \/ /\ op = "restore" /\ "restore" \in Ops
     /\ \E w \in Ids : status \in {heap[p][w].status, rows[w].status}

LEMMA SourceIs ==
  ASSUME TypeOK, NEW p \in Procs, NEW s \in Snaps
  PROVE  /\ SourceStatus(p, s) \in Statuses
         /\ \E w \in Ids : SourceStatus(p, s) \in {heap[p][w].status, rows[w].status}
<1>1. VolOf[s] \in Ids
  BY VolumesAssumption DEF Ids
<1>2. heap[p][VolOf[s]] \in Object /\ rows[VolOf[s]] \in Row
  BY <1>1 DEF TypeOK
<1> QED BY <1>1, <1>2 DEF SourceStatus, Object, Row

LEMMA CreationsEffect ==
  ASSUME TypeOK, NEW p \in Procs, Creations(p)
  PROVE  \E op \in CreateOps, i \in Ids, size \in 0..MaxSize, status \in Statuses :
           /\ NewCall(p, op, i, size, NewObject(status, size))
           /\ NewStatus(p, op, status)
<1> USE DEF CreateOps, Ids
<1>1. CASE \E v \in Vols, n \in 1..MaxSize : StartCreate(p, v, n)
  <2>1. PICK v \in Vols, n \in 1..MaxSize : StartCreate(p, v, n)
    BY <1>1
  <2> QED BY <2>1, NewTypes, StartEffect DEF StartCreate, NewStatus
<1>2. CASE \E v, w \in Vols : StartClone(p, v, w)
  <2>1. PICK v \in Vols, w \in Vols : StartClone(p, v, w)
    BY <1>2
  <2> QED BY <2>1, NewTypes, StartEffect DEF StartClone, NewStatus
<1>3. CASE \E v \in Vols, s \in Snaps, n \in 1..MaxSize : StartRestore(p, v, s, n)
  <2>1. PICK v \in Vols, s \in Snaps, n \in 1..MaxSize : StartRestore(p, v, s, n)
    BY <1>3
  <2>2. NewCall(p, "restore", v, n, NewObject(SourceStatus(p, s), n))
    BY <2>1, NewTypes, StartEffect DEF StartRestore
  <2>3. NewStatus(p, "restore", SourceStatus(p, s))
    BY <2>2, SourceIs DEF NewStatus, NewCall
  <2> QED BY <2>1, <2>2, <2>3, NewTypes, SourceIs
<1>4. CASE \E s \in Snaps : StartSnapshot(p, s)
  <2>1. PICK s \in Snaps : StartSnapshot(p, s)
    BY <1>4
  <2> QED BY <2>1, NewTypes, StartEffect DEF StartSnapshot, NewStatus
<1> QED BY <1>1, <1>2, <1>3, <1>4 DEF Creations

LEMMA StartExtendEffect ==
  ASSUME TypeOK, NEW p \in Procs, NEW v \in Vols, NEW n, StartExtend(p, v, n)
  PROVE  /\ call[p] = Idle /\ OthersStay(p) /\ Holds(p, v) /\ v \in Ids
         /\ Changes(p, v, "extending", heap[p][v].size, heap[p][v].dirty \cup {"status"})
         /\ call'[p] # Idle
         /\ call'[p].op = "extend" /\ call'[p].pc = "driver" /\ call'[p].obj = v
         /\ call'[p].prev = heap[p][v].status
         /\ UNCHANGED <<array, rows, cache, linked, inflight, used, dropped, gone>>
<1>1. /\ call[p] = Idle /\ Holds(p, v) /\ v \in Ids
      /\ UNCHANGED <<array, rows, cache, linked, inflight, used, dropped, gone>>
  BY DEF StartExtend, May, Available, Ids
<1>2. /\ Changes(p, v, "extending", heap[p][v].size, heap[p][v].dirty \cup {"status"})
      /\ \A q \in Procs \ {p} : heap'[q] = heap[q]
  BY <1>1, StartsExtending DEF StartExtend
<1>3. /\ call'[p] = [op |-> "extend", pc |-> "driver", obj |-> v, src |-> {},
                     size |-> n, prev |-> heap[p][v].status]
      /\ \A q \in Procs \ {p} : call'[q] = call[q]
  BY DEF StartExtend, TypeOK
<1>4. call'[p] # Idle
  BY <1>3 DEF Idle
<1> QED BY <1>1, <1>2, <1>3, <1>4 DEF OthersStay

LEMMA StartDeleteEffect ==
  ASSUME TypeOK, NEW p \in Procs, NEW i \in Ids, StartDelete(p, i)
  PROVE  /\ call[p] = Idle /\ OthersStay(p) /\ Holds(p, i)
         /\ FromStore(p)
         /\ call'[p] # Idle
         /\ call'[p].op = "delete" /\ call'[p].pc = "driver" /\ call'[p].obj = i
         /\ call'[p].prev = "none"
         /\ UNCHANGED <<array, rows, inflight, used, dropped, gone>>
<1>1. /\ call[p] = Idle /\ Holds(p, i)
      /\ UNCHANGED <<array, rows, inflight, used, dropped, gone>>
  BY DEF StartDelete, May, Available
<1>2. UNCHANGED heap \/ LoadSnapshots(p, i)
  BY DEF StartDelete
<1>3. FromStore(p) /\ \A q \in Procs \ {p} : heap'[q] = heap[q]
  BY <1>2, LoadsSnapshots DEF FromStore
<1>4. /\ call'[p] = [op |-> "delete", pc |-> "driver", obj |-> i, src |-> {},
                     size |-> 0, prev |-> "none"]
      /\ \A q \in Procs \ {p} : call'[q] = call[q]
  BY DEF StartDelete, TypeOK
<1>5. call'[p] # Idle
  BY <1>4 DEF Idle
<1> QED BY <1>1, <1>3, <1>4, <1>5 DEF OthersStay

(* The steps inside a call that set a status or nothing, and those that end  *)
(* a call without a write to the store.                                      *)
Creates(p) == DriverCreates(p) \/ DriverCreateRaises(p) \/ CreateInterrupted(p)
Marks(p) ==
  \/ DriverExtendRaises(p) \/ ExtendInterrupted(p)
  \/ DriverDeletes(p) \/ DriverDeleteRaises(p) \/ UnrecordRaises(p)
GivesUp(p) == SaveFindsNoRow(p) \/ SaveRaises(p) \/ DeleteInterrupted(p)

LEMMA MarksEffect ==
  ASSUME TypeOK, NEW p \in Procs, Creates(p) \/ Marks(p)
  PROVE  /\ call[p] # Idle /\ call[p].obj \in Ids /\ OthersStay(p)
         /\ \E pc \in {"save", "unrecord"} : Leads(p, pc)
         /\ \E status : \E dirty \in {{}, {"status"}} :
              Changes(p, call[p].obj, status, heap[p][call[p].obj].size,
                      heap[p][call[p].obj].dirty \cup dirty)
         /\ UNCHANGED <<rows, cache, linked, used, dropped, gone>>
<1> USE DEF Creates, Marks
<1>1. /\ call[p] # Idle /\ call[p].obj \in Ids
      /\ UNCHANGED <<rows, cache, linked, used, dropped, gone>>
  BY CallTyped, CallFields
  DEF DriverCreates, DriverCreateRaises, CreateInterrupted,
      DriverExtendRaises, ExtendInterrupted, DriverDeletes, DriverDeleteRaises,
      UnrecordRaises, At
<1>2. GoTo(p, "save") \/ GoTo(p, "unrecord")
  BY DEF DriverCreates, DriverCreateRaises, CreateInterrupted,
      DriverExtendRaises, ExtendInterrupted, DriverDeletes, DriverDeleteRaises,
      UnrecordRaises
<1>3. UNCHANGED heap \/ \E status : SetStatus(p, status)
  BY DEF DriverCreates, DriverCreateRaises, CreateInterrupted,
      DriverExtendRaises, ExtendInterrupted, DriverDeletes, DriverDeleteRaises,
      UnrecordRaises
<1>4. /\ \E status : \E dirty \in {{}, {"status"}} :
              Changes(p, call[p].obj, status, heap[p][call[p].obj].size,
                      heap[p][call[p].obj].dirty \cup dirty)
      /\ \A q \in Procs \ {p} : heap'[q] = heap[q]
  <2>1. CASE UNCHANGED heap
    <3>1. heap[p][call[p].obj].dirty \cup {} = heap[p][call[p].obj].dirty
      OBVIOUS
    <3> QED BY <1>1, <2>1, <3>1, KeepsObjects
  <2>2. CASE \E status : SetStatus(p, status)
    BY <1>1, <2>2, SetsStatus
  <2> QED BY <1>3, <2>1, <2>2
<1>5. /\ \E pc \in {"save", "unrecord"} : Leads(p, pc)
      /\ \A q \in Procs \ {p} : call'[q] = call[q]
  BY <1>1, <1>2, GoesOn
<1> QED BY <1>1, <1>4, <1>5 DEF OthersStay

LEMMA GivesUpEffect ==
  ASSUME TypeOK, NEW p \in Procs, GivesUp(p)
  PROVE  /\ call[p] # Idle /\ call[p].obj \in Ids /\ OthersStay(p) /\ call'[p] = Idle
         /\ UNCHANGED <<rows, heap, linked, inflight, used, gone>>
<1> USE DEF GivesUp
<1>1. /\ call[p] # Idle /\ call[p].obj \in Ids
      /\ UNCHANGED <<rows, heap, linked, inflight, used, gone>>
      /\ call' = [call EXCEPT ![p] = Idle]
  BY CallTyped, CallFields
  DEF SaveFindsNoRow, SaveRaises, DeleteInterrupted, At, AfterSave
<1> QED BY <1>1, Finishes DEF OthersStay, Ends

LEMMA CrashEffect ==
  ASSUME TypeOK, NEW p \in Procs, Crash(p)
  PROVE  /\ OthersStay(p) /\ call'[p] = Idle
         /\ \A j \in Ids : heap'[p][j] = NoObject
         /\ UNCHANGED <<array, rows, used, gone>>
         /\ dropped \subseteq dropped'
         /\ linked'[p] = {} /\ inflight'[p] = {}
         /\ \A q \in Procs \ {p} : /\ linked'[q] = linked[q] /\ inflight'[q] = inflight[q]
                                   /\ cache'[q] = cache[q]
<1>1. /\ call'[p] = Idle /\ \A j \in Ids : heap'[p][j] = NoObject
      /\ OthersStay(p)
  BY DEF Crash, TypeOK, OthersStay
<1>2. UNCHANGED <<array, rows, used, gone>> /\ dropped \subseteq dropped'
  BY DEF Crash
<1>3. /\ linked'[p] = {} /\ inflight'[p] = {}
      /\ \A q \in Procs \ {p} : /\ linked'[q] = linked[q] /\ inflight'[q] = inflight[q]
                                /\ cache'[q] = cache[q]
  BY DEF Crash, TypeOK
<1> QED BY <1>1, <1>2, <1>3

LEMMA WritesEffect ==
  ASSUME TypeOK, NEW p \in Procs, Save(p) \/ Unrecord(p)
  PROVE  /\ call[p] # Idle /\ call[p].obj \in Ids /\ OthersStay(p) /\ call'[p] = Idle
         /\ \A j \in Ids : heap'[p][j].size = heap[p][j].size
         /\ \A j \in Ids \ {call[p].obj} : rows'[j] = rows[j] /\ heap'[p][j] = heap[p][j]
         /\ "id" \notin heap'[p][call[p].obj].dirty
         /\ UNCHANGED <<array, linked, inflight, used, dropped>>
<1>1. /\ call[p] # Idle /\ call[p].obj \in Ids
      /\ UNCHANGED <<array, linked, inflight, used, dropped>>
      /\ call' = [call EXCEPT ![p] = Idle]
      /\ \A j \in Ids \ {call[p].obj} : rows'[j] = rows[j]
  BY CallTyped, CallFields DEF Save, Unrecord, At, AfterSave, TypeOK
<1>2. /\ \A j \in Ids : heap'[p][j].size = heap[p][j].size
      /\ \A q \in Procs \ {p} : heap'[q] = heap[q]
      /\ \A j \in Ids \ {call[p].obj} : heap'[p][j] = heap[p][j]
      /\ "id" \notin heap'[p][call[p].obj].dirty
  BY <1>1, SavesObject, DeletesObject DEF Changes, Unrecord
<1> QED BY <1>1, <1>2, Finishes DEF OthersStay, Ends

Acts(p) ==
  \/ Creations(p)
  \/ \E v \in Vols, n \in 1..MaxSize : StartExtend(p, v, n)
  \/ \E i \in Ids : StartDelete(p, i)
  \/ Reads(p)
  \/ Creates(p) \/ DriverExtends(p) \/ Marks(p) \/ GivesUp(p)
  \/ Save(p) \/ Unrecord(p) \/ Crash(p)

LEMMA SomebodyActs == Next => \E p \in Procs : Acts(p)
BY DEF Next, Client, StepOf, Acts, Creations, Reads, Creates, Marks, GivesUp

(* What was never saved is wholly unsaved.                                   *)
UnsavedIsWhole ==
  \A p \in Procs, i \in Ids : "id" \in heap[p][i].dirty => "status" \in heap[p][i].dirty

(* An object has its id to save only from its creation on.                   *)
LEMMA UnsavedObjects ==
  ASSUME TypeOK, NEW p \in Procs, Acts(p)
  PROVE  /\ OthersStay(p)
         /\ \A j \in Ids : "id" \in heap'[p][j].dirty =>
              \/ "id" \in heap[p][j].dirty /\ heap[p][j].dirty \subseteq heap'[p][j].dirty
              \/ /\ heap'[p][j].dirty = Fields
                 /\ call'[p] # Idle /\ call'[p].obj = j /\ call'[p].op \in CreateOps
<1>1. CASE Creations(p)
  <2>1. PICK op \in CreateOps, i \in Ids, size \in 0..MaxSize, status \in Statuses :
          NewCall(p, op, i, size, NewObject(status, size))
    BY <1>1, CreationsEffect
  <2>2. NewObject(status, size).dirty = Fields
    BY DEF NewObject
  <2>3. /\ OthersStay(p) /\ heap'[p][i].dirty = Fields
        /\ \A j \in Ids \ {i} : heap'[p][j] = heap[p][j]
        /\ call'[p] # Idle /\ call'[p].obj = i /\ call'[p].op \in CreateOps
    BY <2>1, <2>2 DEF NewCall
  <2> QED BY <2>3
<1>2. CASE \E v \in Vols, n \in 1..MaxSize : StartExtend(p, v, n)
  <2>1. PICK v \in Vols, n \in 1..MaxSize : StartExtend(p, v, n)
    BY <1>2
  <2> QED BY <2>1, StartExtendEffect DEF Changes
<1>a. FromStore(p) => \A j \in Ids : "id" \in heap'[p][j].dirty => heap'[p][j] = heap[p][j]
  <2>1. \A j \in Ids : FromRow(j).dirty = {}
    BY DEF FromRow
  <2> QED BY <2>1 DEF FromStore
<1>3. CASE \E i \in Ids : StartDelete(p, i)
  BY <1>3, <1>a, StartDeleteEffect
<1>4. CASE Reads(p)
  BY <1>4, <1>a, ReadsEffect DEF OthersStay
<1>5. CASE Creates(p) \/ Marks(p)
  <2> DEFINE i == call[p].obj
  <2>1. /\ i \in Ids /\ OthersStay(p)
        /\ \A j \in Ids \ {i} : heap'[p][j] = heap[p][j]
        /\ heap[p][i].dirty \subseteq heap'[p][i].dirty
        /\ "id" \in heap'[p][i].dirty => "id" \in heap[p][i].dirty
    BY <1>5, MarksEffect DEF Changes
  <2> HIDE DEF i
  <2>2. \A j \in Ids : heap[p][j].dirty \subseteq heap'[p][j].dirty
                      /\ ("id" \in heap'[p][j].dirty => "id" \in heap[p][j].dirty)
    BY <2>1
  <2> QED BY <2>1, <2>2
<1>6. CASE DriverExtends(p)
  <2>1. call[p] # Idle /\ GoTo(p, "save")
    BY <1>6 DEF DriverExtends, At
  <2> QED BY <1>6, <2>1, ExtendsObject, GoesOn DEF Changes, OthersStay
<1>7. CASE GivesUp(p)
  BY <1>7, GivesUpEffect
<1>8. CASE Save(p) \/ Unrecord(p)
  BY <1>8, WritesEffect
<1>9. CASE Crash(p)
  BY <1>9, CrashEffect DEF NoObject
<1> QED BY <1>1, <1>2, <1>3, <1>4, <1>5, <1>6, <1>7, <1>8, <1>9 DEF Acts

-----------------------------------------------------------------------------
(* The sizes.  Neither a row nor an object promises more than the array has, *)
(* so a save of a stale object does not either.  A new resource gets the     *)
(* size its only object says.                                                *)
RowsAreBacked == \A i \in Ids : OnArray(i) => rows[i].size <= array[i]
ObjectsAreBacked ==
  \A p \in Procs, i \in Ids : OnArray(i) => heap[p][i].size <= array[i]
NoRowNoSize == \A i \in Ids : ~Recorded(i) => rows[i].size = 0
AsksItsSize(p) ==
  call[p] # Idle /\ call[p].op \in CreateOps => heap[p][call[p].obj].size <= call[p].size
SizeInv == RowsAreBacked /\ ObjectsAreBacked /\ NoRowNoSize /\ \A p \in Procs : AsksItsSize(p)

LEMMA SizesAreNumbers ==
  ASSUME TypeOK, NEW i \in Ids
  PROVE  /\ array[i] \in Nat /\ rows[i].size \in Nat
         /\ \A p \in Procs : heap[p][i].size \in Nat
<1>1. MaxSize \in Nat
  BY VolumesAssumption
<1>2. array[i] \in 0..MaxSize /\ rows[i] \in Row /\ \A p \in Procs : heap[p][i] \in Object
  BY DEF TypeOK
<1> QED BY <1>1, <1>2 DEF Row, Object

(* It is enough to look at the process that acts: the array never shrinks    *)
(* under a resource, or gets it as large as it is said to be.                *)
LEMMA SizeLocal ==
  ASSUME TypeOK, TypeOK', SizeInv, NEW p \in Procs, OthersStay(p),
         \A j \in Ids : array'[j] > 0 =>
            \/ array[j] > 0 /\ array[j] <= array'[j]
            \/ rows[j].size <= array'[j] /\ \A q \in Procs : heap[q][j].size <= array'[j],
         \A j \in Ids : rows'[j].size \in {0, rows[j].size, heap[p][j].size},
         \A j \in Ids : \/ heap'[p][j].size \in {0, rows[j].size, heap[p][j].size}
                        \/ array'[j] > 0 => heap'[p][j].size <= array'[j],
         NoRowNoSize', AsksItsSize(p)'
  PROVE  SizeInv'
<1>1. \A j \in Ids : array'[j] > 0 =>
        rows[j].size <= array'[j] /\ \A q \in Procs : heap[q][j].size <= array'[j]
  <2> SUFFICES ASSUME NEW j \in Ids, array'[j] > 0
               PROVE  rows[j].size <= array'[j] /\ \A q \in Procs : heap[q][j].size <= array'[j]
    OBVIOUS
  <2>1. array'[j] \in Nat
    BY SizesAreNumbers DEF TypeOK
  <2>2. CASE array[j] > 0 /\ array[j] <= array'[j]
    BY <2>1, <2>2, SizesAreNumbers DEF SizeInv, RowsAreBacked, ObjectsAreBacked, OnArray
  <2> QED BY <2>2
<1>2. \A j \in Ids : array'[j] \in Nat
  BY VolumesAssumption DEF TypeOK
<1>3. RowsAreBacked'
  BY <1>1, <1>2 DEF RowsAreBacked, OnArray
<1>4. ObjectsAreBacked'
  <2> SUFFICES ASSUME NEW q \in Procs, NEW j \in Ids, array'[j] > 0
               PROVE  heap'[q][j].size <= array'[j]
    BY DEF ObjectsAreBacked, OnArray
  <2>1. CASE q = p
    BY <2>1, <1>1, <1>2
  <2>2. CASE q # p
    BY <2>2, <1>1 DEF OthersStay
  <2> QED BY <2>1, <2>2
<1>5. \A q \in Procs : AsksItsSize(q)'
  BY DEF SizeInv, AsksItsSize, OthersStay
<1> QED BY <1>3, <1>4, <1>5 DEF SizeInv

(* Most actions change no size at all.                                       *)
LEMMA SizesStay ==
  ASSUME TypeOK, TypeOK', SizeInv, NEW p \in Procs, OthersStay(p), UNCHANGED rows,
         \A j \in Ids : array'[j] > 0 => array[j] > 0 /\ array[j] <= array'[j],
         \A j \in Ids : heap'[p][j].size \in {0, rows[j].size, heap[p][j].size},
         \/ call'[p] = Idle
         \/ call'[p].op \notin CreateOps
         \/ /\ call[p] # Idle /\ call'[p].op = call[p].op /\ call'[p].obj = call[p].obj
            /\ call'[p].size = call[p].size
            /\ heap'[p][call[p].obj].size = heap[p][call[p].obj].size
  PROVE  SizeInv'
<1>1. NoRowNoSize'
  BY DEF SizeInv, NoRowNoSize, Recorded
<1>2. AsksItsSize(p)'
  BY DEF SizeInv, AsksItsSize
<1> QED BY <1>1, <1>2, SizeLocal

LEMMA KeptOrGone ==
  ASSUME TypeOK, TypeOK', NEW p \in Procs,
         UNCHANGED array \/ Grown(p) \/ \E i \in Ids : Removed(i)
  PROVE  \A j \in Ids : array'[j] > 0 => array[j] > 0 /\ array[j] <= array'[j]
<1> SUFFICES ASSUME NEW j \in Ids, array'[j] > 0
             PROVE  array[j] > 0 /\ array[j] <= array'[j]
  OBVIOUS
<1>1. array[j] \in Nat /\ array'[j] \in Nat
  BY SizesAreNumbers, VolumesAssumption DEF TypeOK
<1>2. CASE UNCHANGED array
  BY <1>1, <1>2
<1>3. CASE Grown(p)
  <2>1. CASE j = call[p].obj
    <3>1. array'[j] = call[p].size
      BY <1>3, <2>1 DEF Grown, TypeOK
    <3>2. array[j] > 0 /\ array[j] < array'[j]
      BY <1>3, <2>1, <3>1 DEF Grown, CanGrow, OnArray
    <3> QED BY <1>1, <3>2
  <2>2. CASE j # call[p].obj
    BY <1>1, <1>3, <2>2 DEF Grown, TypeOK
  <2> QED BY <2>1, <2>2
<1>4. CASE \E i \in Ids : Removed(i)
  BY <1>1, <1>4 DEF Removed
<1> QED BY <1>2, <1>3, <1>4

LEMMA CreatesSize ==
  ASSUME TypeOK, TypeOK', LifeInv, SizeInv, NEW p \in Procs,
         Creates(p)
  PROVE  SizeInv'
<1> DEFINE i == call[p].obj
<1>1. call[p].op \in CreateOps
  BY DEF Creates, DriverCreates, DriverCreateRaises, CreateInterrupted, At
<1>2. call[p] # Idle /\ i \in Ids /\ OthersStay(p) /\ UNCHANGED rows
  BY MarksEffect
<1>3. PICK pc : Leads(p, pc)
  BY MarksEffect
<1>4. \A j \in Ids : heap'[p][j].size = heap[p][j].size
  <2> HIDE DEF i
  <2>1. heap'[p][i].size = heap[p][i].size /\ \A j \in Ids \ {i} : heap'[p][j] = heap[p][j]
    BY MarksEffect DEF Changes, i
  <2> QED BY <2>1
<1>6. rows[i].size = 0 /\ \A q \in Procs \ {p} : heap[q][i].size = 0
  <2>1. ~Recorded(i) /\ "id" \in heap[p][i].dirty
    BY <1>1, <1>2, CallFacts DEF Fields
  <2> QED BY <1>2, <2>1 DEF SizeInv, NoRowNoSize, LifeInv, UnsavedIsPrivate, NoObject
<1>7. heap[p][i].size <= call[p].size
  BY <1>1, <1>2 DEF SizeInv, AsksItsSize
<1>8. \A j \in Ids : array'[j] > 0 =>
         \/ array[j] > 0 /\ array[j] <= array'[j]
         \/ rows[j].size <= array'[j] /\ \A q \in Procs : heap[q][j].size <= array'[j]
  <2> SUFFICES ASSUME NEW j \in Ids, array'[j] > 0, array'[j] # array[j]
               PROVE  /\ rows[j].size <= array'[j]
                      /\ \A q \in Procs : heap[q][j].size <= array'[j]
    BY SizesAreNumbers
  <2>1. array' = [array EXCEPT ![i] = call[p].size]
    BY DEF Creates, DriverCreates, DriverCreateRaises, CreateInterrupted, Created
  <2>2. j = i /\ array'[i] = call[p].size
    BY <2>1, <1>2 DEF TypeOK
  <2>3. array'[i] \in Nat
    BY <1>2, VolumesAssumption DEF TypeOK
  <2> QED BY <1>6, <1>7, <2>2, <2>3
<1>9. NoRowNoSize'
  BY <1>2 DEF SizeInv, NoRowNoSize, Recorded
<1>10. AsksItsSize(p)'
  BY <1>1, <1>2, <1>3, <1>4, <1>7 DEF AsksItsSize, Leads
<1> QED BY <1>2, <1>4, <1>8, <1>9, <1>10, SizeLocal

LEMMA DriverExtendsSize ==
  ASSUME TypeOK, TypeOK', SizeInv, NEW p \in Procs, DriverExtends(p)
  PROVE  SizeInv'
<1> DEFINE i == call[p].obj
<1>1. call[p] # Idle /\ call[p].op \notin CreateOps /\ UNCHANGED rows /\ i \in Ids
  BY CallTyped, CallFields DEF DriverExtends, At, CreateOps
<1>2. Leads(p, "save") /\ OthersStay(p)
  BY <1>1, ExtendsObject, GoesOn DEF DriverExtends, OthersStay
<1>3. \A j \in Ids : array'[j] > 0 => array[j] > 0 /\ array[j] <= array'[j]
  BY KeptOrGone DEF DriverExtends
<1>4. array'[i] = call[p].size /\ array'[i] \in Nat
  BY <1>1, VolumesAssumption DEF DriverExtends, Grown, TypeOK
<1>5. \A j \in Ids : \/ heap'[p][j].size = heap[p][j].size
                     \/ heap'[p][j].size <= array'[j]
  BY <1>4, ExtendsObject DEF Changes
<1>6. NoRowNoSize'
  BY <1>1 DEF SizeInv, NoRowNoSize, Recorded
<1>7. AsksItsSize(p)'
  BY <1>1, <1>2 DEF AsksItsSize, Leads
<1> QED BY <1>1, <1>2, <1>3, <1>5, <1>6, <1>7, SizeLocal

(* The other steps inside a call: only a status changes.                     *)
LEMMA MarksSize ==
  ASSUME TypeOK, TypeOK', SizeInv, NEW p \in Procs, Marks(p)
  PROVE  SizeInv'
<1> DEFINE i == call[p].obj
<1>1. call[p] # Idle /\ i \in Ids /\ OthersStay(p) /\ UNCHANGED rows
  BY MarksEffect
<1>2. PICK pc : Leads(p, pc)
  BY MarksEffect
<1>3. \A j \in Ids : heap'[p][j].size = heap[p][j].size
  <2> HIDE DEF i
  <2>1. heap'[p][i].size = heap[p][i].size /\ \A j \in Ids \ {i} : heap'[p][j] = heap[p][j]
    BY MarksEffect DEF Changes, i
  <2> QED BY <2>1
<1>4. UNCHANGED array \/ Grown(p) \/ Removed(i)
  BY DEF Marks, DriverExtendRaises, ExtendInterrupted, DriverDeletes, DriverDeleteRaises,
         UnrecordRaises
<1>5. \A j \in Ids : array'[j] > 0 => array[j] > 0 /\ array[j] <= array'[j]
  BY <1>1, <1>4, KeptOrGone
<1>6. call'[p].op = call[p].op /\ call'[p].obj = call[p].obj /\ call'[p].size = call[p].size
  BY <1>2 DEF Leads
<1> QED BY <1>1, <1>3, <1>5, <1>6, SizesStay

LEMMA GivesUpSize ==
  ASSUME TypeOK, TypeOK', SizeInv, NEW p \in Procs, GivesUp(p)
  PROVE  SizeInv'
<1>1. /\ OthersStay(p) /\ call'[p] = Idle /\ UNCHANGED <<rows, heap>>
      /\ call[p].obj \in Ids
  BY GivesUpEffect
<1>2. UNCHANGED array \/ Removed(call[p].obj)
  BY DEF GivesUp, SaveFindsNoRow, SaveRaises, DeleteInterrupted
<1>3. \A j \in Ids : array'[j] > 0 => array[j] > 0 /\ array[j] <= array'[j]
  BY <1>1, <1>2, KeptOrGone
<1> QED BY <1>1, <1>3, SizesStay

LEMMA CrashSize ==
  ASSUME TypeOK, TypeOK', SizeInv, NEW p \in Procs, Crash(p)
  PROVE  SizeInv'
<1>1. \A j \in Ids : heap'[p][j].size = 0
  BY CrashEffect DEF NoObject
<1>2. OthersStay(p) /\ call'[p] = Idle /\ UNCHANGED <<array, rows>>
  BY CrashEffect
<1> QED BY <1>1, <1>2, KeptOrGone, SizesStay

LEMMA ReadsSize ==
  ASSUME TypeOK, TypeOK', SizeInv, NEW p \in Procs,
         Reads(p) \/ \E i \in Ids : StartDelete(p, i)
  PROVE  SizeInv'
<1>1. FromStore(p) /\ OthersStay(p) /\ UNCHANGED <<array, rows>>
      /\ (call'[p] = Idle \/ call'[p].op = "delete")
  BY ReadsEffect, StartDeleteEffect DEF OthersStay
<1>2. \A j \in Ids : heap'[p][j].size \in {rows[j].size, heap[p][j].size}
  <2>1. \A j \in Ids : FromRow(j).size = rows[j].size
    BY DEF FromRow
  <2> QED BY <1>1, <2>1 DEF FromStore
<1>3. call'[p] = Idle \/ call'[p].op \notin CreateOps
  BY <1>1 DEF CreateOps
<1> QED BY <1>1, <1>2, <1>3, KeptOrGone, SizesStay

LEMMA StartExtendSize ==
  ASSUME TypeOK, TypeOK', SizeInv, NEW p \in Procs, NEW v \in Vols, NEW n,
         StartExtend(p, v, n)
  PROVE  SizeInv'
<1>1. OthersStay(p) /\ UNCHANGED <<array, rows>> /\ call'[p].op = "extend" /\ v \in Ids
  BY StartExtendEffect
<1>2. \A j \in Ids : heap'[p][j].size = heap[p][j].size
  BY StartExtendEffect DEF Changes
<1>3. call'[p].op \notin CreateOps
  BY <1>1 DEF CreateOps
<1> QED BY <1>1, <1>2, <1>3, KeptOrGone, SizesStay

LEMMA CreationsSize ==
  ASSUME TypeOK, TypeOK', LifeInv, SizeInv, NEW p \in Procs, Creations(p)
  PROVE  SizeInv'
<1>1. PICK op \in CreateOps, i \in Ids, size \in 0..MaxSize, status \in Statuses :
        NewCall(p, op, i, size, NewObject(status, size))
  BY CreationsEffect
<1>2. NewObject(status, size).size = size
  BY DEF NewObject
<1>3. /\ OthersStay(p) /\ UNCHANGED <<array, rows>> /\ i \notin used
      /\ heap'[p][i].size = size /\ call'[p].size = size /\ call'[p].obj = i
      /\ \A j \in Ids \ {i} : heap'[p][j] = heap[p][j]
  BY <1>1, <1>2 DEF NewCall
<1>4. ~OnArray(i)
  BY <1>3 DEF LifeInv, UnusedIsNowhere
<1>5. NoRowNoSize'
  BY <1>3 DEF SizeInv, NoRowNoSize, Recorded
<1>6. AsksItsSize(p)'
  <2>1. heap'[p][i].size \in Nat
    BY SizesAreNumbers, VolumesAssumption DEF TypeOK, Object
  <2> QED BY <1>3, <2>1 DEF AsksItsSize
<1>7. \A j \in Ids : \/ heap'[p][j].size = heap[p][j].size
                     \/ ~(array'[j] > 0)
  BY <1>3, <1>4 DEF OnArray
<1>8. \A j \in Ids : array'[j] > 0 => array[j] > 0 /\ array[j] <= array'[j]
  BY <1>3, KeptOrGone
<1> QED BY <1>3, <1>5, <1>6, <1>7, <1>8, SizeLocal

LEMMA WritesSize ==
  ASSUME TypeOK, TypeOK', LifeInv, UnsavedIsWhole, SizeInv, NEW p \in Procs,
         Save(p) \/ Unrecord(p)
  PROVE  SizeInv'
<1> DEFINE i == call[p].obj
<1>1. /\ call[p] # Idle /\ i \in Ids /\ UNCHANGED array /\ OthersStay(p) /\ call'[p] = Idle
      /\ \A j \in Ids : heap'[p][j].size = heap[p][j].size
      /\ \A j \in Ids \ {i} : rows'[j] = rows[j]
  BY WritesEffect
<1>2. /\ rows'[i].size \in {0, rows[i].size, heap[p][i].size}
      /\ rows'[i].status = "none" => rows'[i].size = 0
  <2>1. CASE Unrecord(p)
    BY <2>1, <1>1 DEF Unrecord, NoRow, TypeOK
  <2>2. CASE Save(p)
    <3>1. rows'[i] = Merged(rows[i], heap[p][i])
      BY <2>2, <1>1 DEF Save, TypeOK
    <3>2. /\ rows'[i].size \in {rows[i].size, heap[p][i].size}
          /\ rows'[i].status = IF "status" \in heap[p][i].dirty
                               THEN heap[p][i].status ELSE rows[i].status
      BY <3>1 DEF Merged
    <3>3. "id" \in heap[p][i].dirty \/ Recorded(i)
      BY <2>2 DEF Save, CanSave
    <3>4. "id" \in heap[p][i].dirty => "status" \in heap[p][i].dirty
      BY <1>1 DEF UnsavedIsWhole
    <3>5. heap[p][i].status # "none"
      BY <1>1, CallFacts
    <3> QED BY <3>2, <3>3, <3>4, <3>5 DEF Recorded
  <2> QED BY <2>1, <2>2
<1> HIDE DEF i
<1>3. NoRowNoSize'
  BY <1>1, <1>2 DEF SizeInv, NoRowNoSize, Recorded
<1>4. AsksItsSize(p)'
  BY <1>1 DEF AsksItsSize
<1>5. \A j \in Ids : array'[j] > 0 => array[j] > 0 /\ array[j] <= array'[j]
  BY <1>1, KeptOrGone
<1>6. \A j \in Ids : rows'[j].size \in {0, rows[j].size, heap[p][j].size}
  BY <1>1, <1>2
<1> QED BY <1>1, <1>3, <1>4, <1>5, <1>6, SizeLocal

LEMMA ActsSize ==
  ASSUME TypeOK, TypeOK', LifeInv, UnsavedIsWhole, SizeInv, NEW p \in Procs, Acts(p)
  PROVE  SizeInv'
BY CreationsSize, StartExtendSize, ReadsSize, CreatesSize, DriverExtendsSize, MarksSize,
   GivesUpSize, WritesSize, CrashSize DEF Acts

-----------------------------------------------------------------------------
(* The references between a volume and its snapshots.  A snapshot is         *)
(* recorded for the first time by the process that made it, whose save puts  *)
(* it into the loaded list of its volume; nobody else has an object of it.   *)
LinkedIsHeld == \A p \in Procs : \A s \in linked[p] : heap[p][s].status # "none"
VolumesFirst == \A s \in Snaps \cap used : VolOf[s] \in used
UnsavedIsDropped ==
  \A p \in Procs, i \in Ids :
    "id" \in heap[p][i].dirty =>
      \/ i \in dropped
      \/ call[p] # Idle /\ call[p].obj = i /\ call[p].op \in CreateOps
LinkInv ==
  /\ LinkedIsHeld
  /\ VolumesFirst
  /\ UnsavedIsDropped
  /\ LinkedIsListed
  /\ DeleteSparesKnownSnapshots

LEMMA LinkTypes ==
  ASSUME TypeOK
  PROVE  /\ \A p \in Procs : linked[p] \subseteq Snaps
         /\ \A s \in Snaps : s \in Ids /\ VolOf[s] \in Vols /\ VolOf[s] \in Ids /\ s \notin Vols
BY VolumesAssumption DEF TypeOK, Ids

(* What is enough for the process that acts, when nothing gets recorded.     *)
Listed(p) ==
  \A s \in linked[p] :
    Recorded(s) /\ cache[p][VolOf[s]].loaded => s \in cache[p][VolOf[s]].ids \cup dropped
Spared(p) ==
  \A s \in linked[p] :
    call[p] # Idle /\ call[p].op = "delete" /\ call[p].obj = VolOf[s] =>
      ~Recorded(s) \/ s \in dropped

LEMMA LinkLocal ==
  ASSUME TypeOK, LinkInv, NEW p \in Procs, OthersStay(p),
         \A q \in Procs \ {p} : linked'[q] = linked[q] /\ cache'[q] = cache[q],
         dropped \subseteq dropped',
         \A q \in Procs \ {p} : \A s \in linked[q] : Recorded(s)' => Recorded(s),
         \A s \in linked'[p] : heap'[p][s].status # "none",
         \A i \in Ids : "id" \in heap'[p][i].dirty =>
            i \in dropped'
              \/ (call'[p] # Idle /\ call'[p].obj = i /\ call'[p].op \in CreateOps),
         VolumesFirst', Listed(p)', Spared(p)'
  PROVE  LinkInv'
<1>1. LinkedIsHeld'
  BY DEF LinkInv, LinkedIsHeld, OthersStay
<1>2. UnsavedIsDropped'
  BY DEF LinkInv, UnsavedIsDropped, OthersStay
<1>3. LinkedIsListed'
  <2> SUFFICES ASSUME NEW q \in Procs \ {p} PROVE Listed(q)'
    BY DEF LinkedIsListed, Listed
  <2> QED BY DEF LinkInv, LinkedIsListed, Listed
<1>4. DeleteSparesKnownSnapshots'
  <2> SUFFICES ASSUME NEW q \in Procs \ {p} PROVE Spared(q)'
    BY DEF DeleteSparesKnownSnapshots, Spared
  <2> QED BY DEF LinkInv, DeleteSparesKnownSnapshots, Spared, OthersStay
<1> QED BY <1>1, <1>2, <1>3, <1>4 DEF LinkInv

(* Steps that record nothing and link nothing.                               *)
LEMMA LinksStay ==
  ASSUME TypeOK, LinkInv, NEW p \in Procs, Acts(p),
         UNCHANGED <<linked, used>>, dropped \subseteq dropped',
         \A s \in Ids : Recorded(s)' => Recorded(s),
         \A q \in Procs \ {p} : cache'[q] = cache[q],
         \A s \in linked[p] : Recorded(s)' =>
            /\ cache'[p][VolOf[s]].loaded => cache[p][VolOf[s]].loaded
            /\ s \in cache[p][VolOf[s]].ids => s \in cache'[p][VolOf[s]].ids,
         \A j \in Ids : heap[p][j].status # "none" => heap'[p][j].status # "none",
         \A j \in Ids : call[p] # Idle /\ call[p].obj = j /\ call[p].op \in CreateOps
                          /\ "id" \in heap'[p][j].dirty =>
            j \in dropped'
              \/ (call'[p] # Idle /\ call'[p].obj = j /\ call'[p].op \in CreateOps),
         \/ call'[p] = Idle \/ call'[p].op # "delete"
         \/ call[p] # Idle /\ call'[p].op = call[p].op /\ call'[p].obj = call[p].obj
  PROVE  LinkInv'
<1>1. OthersStay(p)
  BY UnsavedObjects
<1>2. \A i \in Ids : "id" \in heap'[p][i].dirty =>
            i \in dropped'
              \/ (call'[p] # Idle /\ call'[p].obj = i /\ call'[p].op \in CreateOps)
  BY UnsavedObjects DEF LinkInv, UnsavedIsDropped
<1>3. \A s \in linked'[p] : heap'[p][s].status # "none"
  BY LinkTypes DEF LinkInv, LinkedIsHeld
<1>4. VolumesFirst'
  BY DEF LinkInv, VolumesFirst
<1>5. Listed(p)'
  BY LinkTypes DEF LinkInv, LinkedIsListed, Listed
<1>6. Spared(p)'
  BY LinkTypes DEF LinkInv, DeleteSparesKnownSnapshots, Spared
<1>7. \A q \in Procs \ {p} : \A s \in linked[q] : Recorded(s)' => Recorded(s)
  BY LinkTypes
<1> QED BY <1>1, <1>2, <1>3, <1>4, <1>5, <1>6, <1>7, LinkLocal

LEMMA LifeStep ==
  ASSUME TypeOK, LifeInv, NEW p \in Procs, Acts(p)
  PROVE  LifeInv'
<1>1. Next
  BY DEF Acts, Next, Client, StepOf, Creations, Reads, Creates, Marks, GivesUp
<1> QED BY <1>1, NextLife

LEMMA SavedCache ==
  ASSUME TypeOK, NEW p \in Procs, call[p] # Idle, UNCHANGED cache \/ AfterSave(p)
  PROVE  /\ \A q \in Procs \ {p} : cache'[q] = cache[q]
         /\ \A v \in Vols : /\ cache'[p][v].loaded = cache[p][v].loaded
                            /\ cache[p][v].ids \subseteq cache'[p][v].ids
         /\ AfterSave(p) /\ call[p].op = "snapshot" =>
              LET v == VolOf[call[p].obj] IN
              cache'[p][v].loaded => call[p].obj \in cache'[p][v].ids
<1> DEFINE i == call[p].obj
           v == VolOf[i]
           listed == [cache[p][v] EXCEPT !.ids = cache[p][v].ids \cup {i}]
<1>1. CASE AfterSave(p) /\ call[p].op = "snapshot" /\ cache[p][v].loaded
  <2>1. v \in Vols
    BY <1>1, CallTyped, CallFields, VolumesAssumption
  <2>2. cache[p][v] \in SnapCache /\ cache \in [Procs -> [Vols -> SnapCache]]
    BY <2>1 DEF TypeOK
  <2>3. cache' = [cache EXCEPT ![p] = [cache[p] EXCEPT ![v] = listed]]
    BY <1>1, <2>1, <2>2 DEF AfterSave
  <2>4. listed.loaded = cache[p][v].loaded /\ listed.ids = cache[p][v].ids \cup {i}
    BY <2>2 DEF SnapCache
  <2> HIDE DEF listed
  <2> QED BY <2>1, <2>2, <2>3, <2>4
<1>2. CASE ~(AfterSave(p) /\ call[p].op = "snapshot" /\ cache[p][v].loaded)
  <2>1. UNCHANGED cache
    BY <1>2 DEF AfterSave
  <2> QED BY <1>2, <2>1
<1> QED BY <1>1, <1>2

LEMMA StepsLink ==
  ASSUME TypeOK, LifeInv, LinkInv, NEW p \in Procs,
         Creates(p) \/ Marks(p) \/ DriverExtends(p)
  PROVE  LinkInv'
<1> DEFINE i == call[p].obj
<1>1. Acts(p)
  BY DEF Acts
<1>2. /\ call[p] # Idle /\ i \in Ids
      /\ UNCHANGED <<rows, cache, linked, used, dropped>>
      /\ call'[p] # Idle /\ call'[p].op = call[p].op /\ call'[p].obj = i
  <2>1. CASE Creates(p) \/ Marks(p)
    BY <2>1, MarksEffect DEF Leads
  <2>2. CASE DriverExtends(p)
    <3>1. call[p] # Idle /\ GoTo(p, "save")
      BY <2>2 DEF DriverExtends, At
    <3> QED BY <2>2, <3>1, CallFacts, GoesOn DEF DriverExtends, Leads
  <2> QED BY <2>1, <2>2
<1>3. LifeInv'
  BY LifeStep, <1>1
<1>4. heap'[p][i].status # "none"
  BY <1>2, <1>3 DEF LifeInv, CallsAreSound
<1>5. \A j \in Ids \ {i} : heap'[p][j] = heap[p][j]
  BY <1>2, MarksEffect, ExtendsObject DEF Changes
<1>6. \A s \in Ids : Recorded(s)' => Recorded(s)
  BY <1>2 DEF Recorded
<1> HIDE DEF i
<1>7. \A j \in Ids : heap[p][j].status # "none" => heap'[p][j].status # "none"
  BY <1>4, <1>5
<1> QED BY <1>1, <1>2, <1>6, <1>7, LinksStay DEF i

LEMMA GivesUpLink ==
  ASSUME TypeOK, LifeInv, LinkInv, NEW p \in Procs, GivesUp(p)
  PROVE  LinkInv'
<1> DEFINE i == call[p].obj
<1>1. /\ call[p] # Idle /\ i \in Ids /\ call'[p] = Idle
      /\ UNCHANGED <<rows, heap, linked, used>>
  BY GivesUpEffect
<1>2. Acts(p)
  BY DEF Acts
<1>3. /\ dropped \subseteq dropped'
      /\ \A j \in Ids : call[p].obj = j /\ call[p].op \in CreateOps
                          /\ "id" \in heap'[p][j].dirty => j \in dropped'
  <2>1. CASE SaveFindsNoRow(p)
    BY <1>1, <2>1 DEF SaveFindsNoRow, CanSave
  <2>2. CASE SaveRaises(p)
    BY <2>2 DEF SaveRaises
  <2>3. CASE DeleteInterrupted(p)
    BY <2>3 DEF DeleteInterrupted
  <2> QED BY <2>1, <2>2, <2>3 DEF GivesUp
<1>4. /\ \A q \in Procs \ {p} : cache'[q] = cache[q]
      /\ \A v \in Vols : /\ cache'[p][v].loaded = cache[p][v].loaded
                         /\ cache[p][v].ids \subseteq cache'[p][v].ids
  <2>1. UNCHANGED cache \/ AfterSave(p)
    BY DEF GivesUp, SaveFindsNoRow, SaveRaises, DeleteInterrupted
  <2> QED BY <1>1, <2>1, SavedCache
<1>5. \A s \in Ids : Recorded(s)' => Recorded(s)
  BY <1>1 DEF Recorded
<1>6. \A s \in linked[p] : VolOf[s] \in Vols
  BY LinkTypes
<1> HIDE DEF i
<1> QED BY <1>1, <1>2, <1>3, <1>4, <1>5, <1>6, LinksStay

LEMMA SaveLink ==
  ASSUME TypeOK, LifeInv, LinkInv, NEW p \in Procs, Save(p)
  PROVE  LinkInv'
<1> DEFINE i == call[p].obj
<1>1. /\ call[p] # Idle /\ i \in Ids /\ OthersStay(p) /\ call'[p] = Idle
      /\ \A j \in Ids \ {i} : rows'[j] = rows[j] /\ heap'[p][j] = heap[p][j]
      /\ "id" \notin heap'[p][i].dirty
      /\ UNCHANGED <<linked, used, dropped>>
  BY WritesEffect
<1>2. heap'[p][i].status = heap[p][i].status
  BY SavesObject DEF Changes
<1>3. AfterSave(p) /\ CanSave(p, i)
  BY DEF Save
<1>4. /\ \A q \in Procs \ {p} : cache'[q] = cache[q]
      /\ \A v \in Vols : /\ cache'[p][v].loaded = cache[p][v].loaded
                         /\ cache[p][v].ids \subseteq cache'[p][v].ids
      /\ call[p].op = "snapshot" =>
           (cache'[p][VolOf[i]].loaded => i \in cache'[p][VolOf[i]].ids)
  BY <1>1, <1>3, SavedCache
<1>5. \A s \in linked[p] : s \in Snaps /\ s \in Ids /\ VolOf[s] \in Vols
  BY LinkTypes
<1>6. \A j \in Ids : heap[p][j].status # "none" => heap'[p][j].status # "none"
  BY <1>1, <1>2
<1>7. CASE "id" \notin heap[p][i].dirty
  <2>1. Recorded(i)
    BY <1>3, <1>7 DEF CanSave
  <2>2. \A s \in Ids : Recorded(s)' => Recorded(s)
    BY <1>1, <2>1 DEF Recorded
  <2>3. Acts(p)
    BY DEF Acts
  <2> HIDE DEF i
  <2>4. \A j \in Ids : call[p].obj = j => "id" \notin heap'[p][j].dirty
    BY <1>1 DEF i
  <2> QED BY <1>1, <1>4, <1>5, <1>6, <2>2, <2>3, <2>4, LinksStay
<1>8. CASE "id" \in heap[p][i].dirty
  <2>1. \A q \in Procs \ {p} : i \notin linked[q]
    <3>1. \A q \in Procs \ {p} : heap[q][i] = NoObject
      BY <1>1, <1>8 DEF LifeInv, UnsavedIsPrivate
    <3> QED BY <3>1 DEF LinkInv, LinkedIsHeld, NoObject
  <2>2. i \in dropped \/ call[p].op \in CreateOps
    BY <1>1, <1>8 DEF LinkInv, UnsavedIsDropped
  <2>3. i \in Snaps /\ call[p].op \in CreateOps => call[p].op = "snapshot"
    BY <1>1, CallTyped, CallFields, VolumesAssumption DEF CreateOps
  <2> HIDE DEF i
  <2>4. Listed(p)'
    <3> SUFFICES ASSUME NEW s \in linked[p], Recorded(s)', cache'[p][VolOf[s]].loaded
                 PROVE  s \in cache'[p][VolOf[s]].ids \cup dropped
      BY <1>1 DEF Listed
    <3>1. CASE s = i
      BY <3>1, <1>4, <1>5, <2>2, <2>3
    <3>2. CASE s # i
      <4>1. Recorded(s)
        BY <3>2, <1>1, <1>5 DEF Recorded
      <4> QED BY <4>1, <1>4, <1>5 DEF LinkInv, LinkedIsListed
    <3> QED BY <3>1, <3>2
  <2>5. Spared(p)'
    BY <1>1 DEF Spared
  <2>6. \A q \in Procs \ {p} : \A s \in linked[q] : Recorded(s)' => Recorded(s)
    BY <1>1, <2>1, LinkTypes DEF Recorded
  <2>7. \A s \in linked'[p] : heap'[p][s].status # "none"
    BY <1>1, <1>5, <1>6 DEF LinkInv, LinkedIsHeld
  <2>8. \A j \in Ids : "id" \in heap'[p][j].dirty => j \in dropped'
    BY <1>1 DEF LinkInv, UnsavedIsDropped, i
  <2>9. VolumesFirst'
    BY <1>1 DEF LinkInv, VolumesFirst
  <2> QED BY <1>1, <1>4, <2>4, <2>5, <2>6, <2>7, <2>8, <2>9, LinkLocal
<1> QED BY <1>7, <1>8

LEMMA UnrecordLink ==
  ASSUME TypeOK, LifeInv, LinkInv, NEW p \in Procs, Unrecord(p)
  PROVE  LinkInv'
<1> DEFINE i == call[p].obj
<1>1. /\ call[p] # Idle /\ i \in Ids /\ OthersStay(p) /\ call'[p] = Idle
      /\ \A j \in Ids \ {i} : rows'[j] = rows[j] /\ heap'[p][j] = heap[p][j]
      /\ "id" \notin heap'[p][i].dirty
      /\ UNCHANGED <<linked, used, dropped>>
  BY WritesEffect
<1>2. heap'[p][i].status = "deleted"
  BY <1>1, DeletesObject DEF Changes, Unrecord
<1>3. rows'[i].status = "none"
  <2>1. rows'[i] = NoRow
    BY <1>1 DEF Unrecord, TypeOK
  <2> QED BY <2>1 DEF NoRow
<1>4. /\ \A q \in Procs \ {p} : cache'[q] = cache[q]
      /\ \A v \in Vols : /\ cache'[p][v].loaded = cache[p][v].loaded
                         /\ cache[p][v].ids \ {i} \subseteq cache'[p][v].ids
  <2>1. CASE UNCHANGED cache
    BY <2>1
  <2>2. CASE i \in Snaps /\ cache' = [cache EXCEPT ![p][VolOf[i]].ids = @ \ {i}]
    <3> DEFINE v == VolOf[i]
               left == [cache[p][v] EXCEPT !.ids = cache[p][v].ids \ {i}]
    <3>1. v \in Vols
      BY <2>2, VolumesAssumption
    <3>2. cache[p][v] \in SnapCache /\ cache \in [Procs -> [Vols -> SnapCache]]
      BY <3>1 DEF TypeOK
    <3>3. cache' = [cache EXCEPT ![p] = [cache[p] EXCEPT ![v] = left]]
      BY <2>2, <3>1, <3>2
    <3>4. left.loaded = cache[p][v].loaded /\ left.ids = cache[p][v].ids \ {i}
      BY <3>2 DEF SnapCache
    <3> HIDE DEF left
    <3> QED BY <3>1, <3>2, <3>3, <3>4
  <2>3. IF i \in Vols THEN UNCHANGED cache ELSE SnapshotRemoved(p, i)
    BY DEF Unrecord
  <2>4. i \notin Vols => i \in Snaps
    BY <1>1 DEF Ids
  <2>5. CASE i \in Vols
    BY <2>1, <2>3, <2>5
  <2>6. CASE i \notin Vols
    BY <2>1, <2>2, <2>3, <2>4, <2>6 DEF SnapshotRemoved
  <2> QED BY <2>5, <2>6
<1> HIDE DEF i
<1>5. \A s \in Ids : Recorded(s)' => Recorded(s) /\ s # i
  BY <1>1, <1>3 DEF Recorded
<1>6. \A j \in Ids : heap[p][j].status # "none" => heap'[p][j].status # "none"
  BY <1>1, <1>2
<1>7. \A j \in Ids : call[p].obj = j => "id" \notin heap'[p][j].dirty
  BY <1>1 DEF i
<1>8. \A s \in linked[p] : s \in Ids /\ VolOf[s] \in Vols
  BY LinkTypes
<1>9. Acts(p)
  BY DEF Acts
<1>10. \A s \in linked[p] : Recorded(s)' =>
            /\ cache'[p][VolOf[s]].loaded => cache[p][VolOf[s]].loaded
            /\ s \in cache[p][VolOf[s]].ids => s \in cache'[p][VolOf[s]].ids
  BY <1>4, <1>5, <1>8
<1> QED BY <1>1, <1>4, <1>5, <1>6, <1>7, <1>9, <1>10, LinksStay

LEMMA CrashLink ==
  ASSUME TypeOK, LifeInv, LinkInv, NEW p \in Procs, Crash(p)
  PROVE  LinkInv'
<1>1. /\ OthersStay(p) /\ call'[p] = Idle /\ linked'[p] = {}
      /\ UNCHANGED <<rows, used>> /\ dropped \subseteq dropped'
      /\ \A q \in Procs \ {p} : linked'[q] = linked[q] /\ cache'[q] = cache[q]
  BY CrashEffect
<1>2. \A j \in Ids : "id" \notin heap'[p][j].dirty
  BY CrashEffect DEF NoObject
<1>3. VolumesFirst' /\ Listed(p)' /\ Spared(p)'
  BY <1>1 DEF LinkInv, VolumesFirst, Listed, Spared
<1>4. \A q \in Procs \ {p} : \A s \in linked[q] : Recorded(s)' => Recorded(s)
  BY <1>1 DEF Recorded
<1> QED BY <1>1, <1>2, <1>3, <1>4, LinkLocal

LEMMA StartExtendLink ==
  ASSUME TypeOK, LinkInv, NEW p \in Procs, NEW v \in Vols, NEW n \in 1..MaxSize,
         StartExtend(p, v, n)
  PROVE  LinkInv'
<1>1. /\ call[p] = Idle /\ call'[p].op = "extend" /\ v \in Ids
      /\ UNCHANGED <<rows, cache, linked, used, dropped>>
  BY StartExtendEffect
<1>2. heap'[p][v].status = "extending" /\ \A j \in Ids \ {v} : heap'[p][j] = heap[p][j]
  BY StartExtendEffect DEF Changes
<1>3. \A j \in Ids : heap[p][j].status # "none" => heap'[p][j].status # "none"
  BY <1>1, <1>2
<1>4. Acts(p)
  BY DEF Acts
<1>5. \A s \in Ids : Recorded(s)' => Recorded(s)
  BY <1>1 DEF Recorded
<1> QED BY <1>1, <1>3, <1>4, <1>5, LinksStay

-----------------------------------------------------------------------------
(* Reads link a snapshot only to a list that has it.                         *)
LoadsLinks(p) ==
  /\ \A q \in Procs \ {p} : linked'[q] = linked[q] /\ cache'[q] = cache[q]
  /\ \A s \in linked'[p] : s \in linked[p] \/ (Recorded(s) /\ heap'[p][s] = FromRow(s))
  /\ \A s \in linked'[p] : cache'[p][VolOf[s]].loaded =>
       \/ s \in linked[p] /\ cache'[p][VolOf[s]] = cache[p][VolOf[s]]
       \/ cache'[p][VolOf[s]].ids = RecordedSnaps(VolOf[s])

LEMMA LoadSnapshotsLinks ==
  ASSUME TypeOK, NEW p \in Procs, NEW v \in Vols, LoadSnapshots(p, v)
  PROVE  LoadsLinks(p)
<1>1. /\ \A q \in Procs \ {p} : linked'[q] = linked[q] /\ cache'[q] = cache[q]
      /\ linked'[p] = linked[p] \cup RecordedSnaps(v)
      /\ cache'[p][v].ids = RecordedSnaps(v)
      /\ \A w \in Vols \ {v} : cache'[p][w] = cache[p][w]
      /\ \A i \in Ids : i \in RecordedSnaps(v) => heap'[p][i] = FromRow(i)
  BY DEF LoadSnapshots, TypeOK
<1>2. \A s \in RecordedSnaps(v) : s \in Snaps /\ Recorded(s) /\ VolOf[s] = v
  BY DEF RecordedSnaps, SnapsOf
<1>3. \A s \in linked'[p] : s \in Ids /\ VolOf[s] \in Vols
  BY <1>1, <1>2, LinkTypes
<1> QED BY <1>1, <1>2, <1>3 DEF LoadsLinks

LEMMA ReadsLinks ==
  ASSUME TypeOK, NEW p \in Procs, Reads(p)
  PROVE  LoadsLinks(p)
<1>1. \A s \in linked[p] : s \in Snaps /\ s \in Ids /\ VolOf[s] \in Vols
  BY LinkTypes
<1>2. CASE \E v \in Vols : ReadSnapshots(p, v)
  BY <1>2, LoadSnapshotsLinks DEF ReadSnapshots
<1>3. CASE \E i \in Ids : GetById(p, i)
  <2>1. PICK i \in Ids : GetById(p, i)
    BY <1>3
  <2>2. /\ \A q \in Procs \ {p} : linked'[q] = linked[q] /\ cache'[q] = cache[q]
        /\ linked'[p] = linked[p] \ ({i} \cup SnapsOf(i))
        /\ \A w \in Vols \ {i} : cache'[p][w] = cache[p][w]
    BY <2>1 DEF GetById, TypeOK
  <2>3. \A s \in linked'[p] : s \in linked[p] /\ VolOf[s] # i
    BY <1>1, <2>2 DEF SnapsOf
  <2> QED BY <1>1, <2>2, <2>3 DEF LoadsLinks
<1>4. CASE \E v \in Vols : Refresh(p, v)
  <2>1. PICK v \in Vols : Refresh(p, v)
    BY <1>4
  <2> DEFINE again == IF cache[p][v].loaded THEN RecordedSnaps(v) ELSE {}
             read == [cache[p][v] EXCEPT !.ids = again]
  <2>2. /\ \A q \in Procs \ {p} : linked'[q] = linked[q]
        /\ linked'[p] = linked[p] \cup again
        /\ \A i \in Ids : i \in again => heap'[p][i] = FromRow(i)
    BY <2>1 DEF Refresh, TypeOK
  <2>3. cache[p][v] \in SnapCache /\ cache \in [Procs -> [Vols -> SnapCache]]
    BY DEF TypeOK
  <2>4. cache' = [cache EXCEPT ![p] = [cache[p] EXCEPT ![v] = read]]
    BY <2>1, <2>3 DEF Refresh
  <2>5. read.loaded = cache[p][v].loaded /\ read.ids = again
    BY <2>3 DEF SnapCache
  <2>6. \A s \in again : s \in Snaps /\ Recorded(s) /\ VolOf[s] = v
    BY DEF RecordedSnaps, SnapsOf
  <2>7. read.loaded => read.ids = RecordedSnaps(v)
    BY <2>5
  <2> HIDE DEF again, read
  <2>8. /\ cache'[p][v] = read
        /\ \A w \in Vols \ {v} : cache'[p][w] = cache[p][w]
        /\ \A q \in Procs \ {p} : cache'[q] = cache[q]
    BY <2>3, <2>4
  <2>9. \A s \in linked'[p] : s \in Ids /\ VolOf[s] \in Vols
    BY <2>2, <2>6, LinkTypes
  <2> QED BY <2>2, <2>6, <2>7, <2>8, <2>9 DEF LoadsLinks
<1>5. CASE ListVolumes(p)
  BY <1>5 DEF ListVolumes, LoadsLinks
<1> QED BY <1>2, <1>3, <1>4, <1>5 DEF Reads

LEMMA LoadedLink ==
  ASSUME TypeOK, TypeOK', LinkInv, NEW p \in Procs, OthersStay(p), FromStore(p),
         LoadsLinks(p),
         call[p] = Idle, UNCHANGED <<rows, used, dropped>>
  PROVE  /\ Listed(p)'
         /\ Spared(p)' => LinkInv'
<1>3. Listed(p)'
  <2> SUFFICES ASSUME NEW s \in linked'[p], Recorded(s), cache'[p][VolOf[s]].loaded
               PROVE  s \in cache'[p][VolOf[s]].ids \cup dropped
    BY DEF Listed, Recorded
  <2>1. CASE s \in linked[p] /\ cache'[p][VolOf[s]] = cache[p][VolOf[s]]
    BY <2>1 DEF LinkInv, LinkedIsListed
  <2>2. CASE cache'[p][VolOf[s]].ids = RecordedSnaps(VolOf[s])
    <3>1. s \in Snaps
      BY DEF TypeOK
    <3> QED BY <2>2, <3>1 DEF RecordedSnaps, SnapsOf
  <2> QED BY <2>1, <2>2 DEF LoadsLinks
<1>4. \A s \in linked'[p] : heap'[p][s].status # "none"
  <2> SUFFICES ASSUME NEW s \in linked'[p] PROVE heap'[p][s].status # "none"
    OBVIOUS
  <2>1. \A i \in Ids : Recorded(i) => FromRow(i).status # "none"
    BY DEF FromRow, Recorded
  <2>2. s \in Ids
    BY DEF TypeOK, Ids
  <2>3. s \in linked[p] => heap[p][s].status # "none"
    BY DEF LinkInv, LinkedIsHeld
  <2> QED BY <2>1, <2>2, <2>3 DEF LoadsLinks, FromStore
<1>5. \A i \in Ids : "id" \in heap'[p][i].dirty => i \in dropped'
  <2>1. \A j \in Ids : FromRow(j).dirty = {}
    BY DEF FromRow
  <2> QED BY <2>1 DEF FromStore, LinkInv, UnsavedIsDropped
<1>6. VolumesFirst'
  BY DEF LinkInv, VolumesFirst
<1>7. \A q \in Procs \ {p} : \A s \in linked[q] : Recorded(s)' => Recorded(s)
  BY DEF Recorded
<1>8. \A q \in Procs \ {p} : linked'[q] = linked[q] /\ cache'[q] = cache[q]
  BY DEF LoadsLinks
<1> QED BY <1>3, <1>4, <1>5, <1>6, <1>7, <1>8, LinkLocal

LEMMA ReadsLink ==
  ASSUME TypeOK, TypeOK', LinkInv, NEW p \in Procs, Reads(p)
  PROVE  LinkInv'
<1>1. /\ call[p] = Idle /\ UNCHANGED <<rows, call, used, dropped>>
      /\ FromStore(p) /\ OthersStay(p)
  BY ReadsEffect DEF OthersStay
<1>2. Spared(p)'
  BY <1>1 DEF Spared
<1> QED BY <1>1, <1>2, ReadsLinks, LoadedLink

LEMMA StartDeleteLink ==
  ASSUME TypeOK, TypeOK', LinkInv, NEW p \in Procs, NEW i \in Ids, StartDelete(p, i)
  PROVE  LinkInv'
<1>1. /\ call[p] = Idle /\ UNCHANGED <<rows, used, dropped>> /\ call'[p].obj = i
      /\ FromStore(p) /\ OthersStay(p)
  BY StartDeleteEffect
<1>2. \/ /\ i \in Snaps \/ cache[p][i].loaded
         /\ i \in Vols => cache[p][i].ids = {}
         /\ UNCHANGED <<heap, cache, linked>>
      \/ i \in Vols /\ RecordedSnaps(i) = {} /\ LoadSnapshots(p, i)
  BY DEF StartDelete, Ids
<1>3. LoadsLinks(p)
  BY <1>2, LoadSnapshotsLinks DEF LoadsLinks
<1>4. Listed(p)'
  BY <1>1, <1>3, LoadedLink
<1>5. Spared(p)'
  <2> SUFFICES ASSUME NEW s \in linked'[p], VolOf[s] = i, Recorded(s)
               PROVE  s \in dropped
    BY <1>1 DEF Spared, Recorded
  <2>1. s \in Snaps /\ i \in Vols /\ i \notin Snaps
    BY VolumesAssumption DEF TypeOK
  <2>2. cache'[p][i].loaded /\ cache'[p][i].ids = {}
    <3>1. CASE UNCHANGED cache /\ cache[p][i].loaded /\ cache[p][i].ids = {}
      BY <3>1
    <3>2. CASE RecordedSnaps(i) = {} /\ LoadSnapshots(p, i)
      BY <2>1, <3>2 DEF LoadSnapshots, TypeOK
    <3> QED BY <1>2, <2>1, <3>1, <3>2
  <2>3. Recorded(s)'
    BY <1>1 DEF Recorded
  <2> QED BY <1>1, <1>4, <2>2, <2>3 DEF Listed
<1> QED BY <1>1, <1>3, <1>5, LoadedLink

LEMMA CreationsLinks ==
  ASSUME TypeOK, NEW p \in Procs, Creations(p)
  PROVE  \E op \in CreateOps, i \in Ids, size \in 0..MaxSize, status \in Statuses :
           /\ NewCall(p, op, i, size, NewObject(status, size))
           /\ status # "none"
           /\ \A q \in Procs \ {p} : linked'[q] = linked[q] /\ cache'[q] = cache[q]
           /\ \/ /\ i \in Vols /\ UNCHANGED linked
                 /\ \A v \in Vols \ {i} : cache'[p][v] = cache[p][v]
              \/ /\ i \in Snaps /\ linked'[p] = linked[p] \cup {i} /\ UNCHANGED cache
                 /\ Holds(p, VolOf[i])
<1> USE DEF CreateOps, Ids
<1>0. ASSUME NEW v \in Vols, StartVolume(p, v)
      PROVE  /\ UNCHANGED linked
             /\ \A w \in Vols \ {v} : cache'[p][w] = cache[p][w]
             /\ \A q \in Procs \ {p} : cache'[q] = cache[q]
  BY <1>0 DEF StartVolume, TypeOK
<1>1. CASE \E v \in Vols, n \in 1..MaxSize : StartCreate(p, v, n)
  <2>1. PICK v \in Vols, n \in 1..MaxSize : StartCreate(p, v, n)
    BY <1>1
  <2> QED BY <1>0, <2>1, NewTypes, StartEffect DEF StartCreate
<1>2. CASE \E v, w \in Vols : StartClone(p, v, w)
  <2>1. PICK v \in Vols, w \in Vols : StartClone(p, v, w)
    BY <1>2
  <2> QED BY <1>0, <2>1, NewTypes, StartEffect DEF StartClone, Holds
<1>3. CASE \E v \in Vols, s \in Snaps, n \in 1..MaxSize : StartRestore(p, v, s, n)
  <2>1. PICK v \in Vols, s \in Snaps, n \in 1..MaxSize : StartRestore(p, v, s, n)
    BY <1>3
  <2>2. NewCall(p, "restore", v, n, NewObject(SourceStatus(p, s), n))
    BY <2>1, NewTypes, StartEffect DEF StartRestore
  <2> QED BY <1>0, <2>1, <2>2, NewTypes, SourceIs DEF StartRestore
<1>4. CASE \E s \in Snaps : StartSnapshot(p, s)
  <2>1. PICK s \in Snaps : StartSnapshot(p, s)
    BY <1>4
  <2>2. /\ linked'[p] = linked[p] \cup {s} /\ UNCHANGED cache /\ Holds(p, VolOf[s])
        /\ \A q \in Procs \ {p} : linked'[q] = linked[q]
    BY <2>1 DEF StartSnapshot, TypeOK
  <2>3. NewCall(p, "snapshot", s, 1, NewObject("creating", 1))
    BY <2>1, NewTypes, StartEffect DEF StartSnapshot
  <2> QED BY <2>2, <2>3, NewTypes
<1> QED BY <1>1, <1>2, <1>3, <1>4 DEF Creations

LEMMA CreationsLink ==
  ASSUME TypeOK, LifeInv, LinkInv, NEW p \in Procs, Creations(p)
  PROVE  LinkInv'
<1>1. PICK op \in CreateOps, i \in Ids, size \in 0..MaxSize, status \in Statuses :
           /\ NewCall(p, op, i, size, NewObject(status, size))
           /\ status # "none"
           /\ \A q \in Procs \ {p} : linked'[q] = linked[q] /\ cache'[q] = cache[q]
           /\ \/ /\ i \in Vols /\ UNCHANGED linked
                 /\ \A v \in Vols \ {i} : cache'[p][v] = cache[p][v]
              \/ /\ i \in Snaps /\ linked'[p] = linked[p] \cup {i} /\ UNCHANGED cache
                 /\ Holds(p, VolOf[i])
  BY CreationsLinks
<1>2. NewObject(status, size).status = status
  BY DEF NewObject
<1>3. /\ OthersStay(p) /\ UNCHANGED <<rows, dropped>> /\ i \notin used
      /\ used' = used \cup {i} /\ call[p] = Idle
      /\ heap'[p][i].status = status /\ \A j \in Ids \ {i} : heap'[p][j] = heap[p][j]
      /\ call'[p] # Idle /\ call'[p].obj = i /\ call'[p].op \in CreateOps
  BY <1>1, <1>2 DEF NewCall
<1>4. \A j \in Ids : heap[p][j].status # "none" => j \in used
  BY DEF LifeInv, UnusedIsNowhere, NoObject
<1>5. ~Recorded(i)
  BY <1>3 DEF LifeInv, UnusedIsNowhere
<1>6. \A s \in linked[p] : /\ s \in Snaps /\ s \in Ids /\ VolOf[s] \in Vols
                          /\ s \in used /\ VolOf[s] \in used
  BY <1>4, LinkTypes DEF LinkInv, LinkedIsHeld, VolumesFirst
<1>7. \A s \in linked'[p] : s \in linked[p] \/ s = i
  BY <1>1
<1>8. VolumesFirst'
  <2>1. i \in Snaps => VolOf[i] \in used
    BY <1>1, <1>4, LinkTypes, VolumesAssumption DEF Holds
  <2> QED BY <1>3, <2>1 DEF LinkInv, VolumesFirst
<1>9. Listed(p)'
  <2> SUFFICES ASSUME NEW s \in linked'[p], Recorded(s), cache'[p][VolOf[s]].loaded
               PROVE  s \in cache'[p][VolOf[s]].ids \cup dropped
    BY <1>3 DEF Listed, Recorded
  <2>1. s \in linked[p] /\ VolOf[s] # i
    BY <1>3, <1>5, <1>6, <1>7
  <2>2. cache'[p][VolOf[s]] = cache[p][VolOf[s]]
    BY <1>1, <1>6, <2>1
  <2> QED BY <2>1, <2>2 DEF LinkInv, LinkedIsListed
<1>10. Spared(p)'
  BY <1>3 DEF Spared, CreateOps
<1>11. \A s \in linked'[p] : heap'[p][s].status # "none"
  BY <1>1, <1>3, <1>6, <1>7 DEF LinkInv, LinkedIsHeld
<1>12. \A j \in Ids : "id" \in heap'[p][j].dirty =>
            j \in dropped'
              \/ (call'[p] # Idle /\ call'[p].obj = j /\ call'[p].op \in CreateOps)
  BY <1>3 DEF LinkInv, UnsavedIsDropped
<1>13. \A q \in Procs \ {p} : \A s \in linked[q] : Recorded(s)' => Recorded(s)
  BY <1>3 DEF Recorded
<1> QED BY <1>1, <1>3, <1>8, <1>9, <1>10, <1>11, <1>12, <1>13, LinkLocal

LEMMA ActsLink ==
  ASSUME TypeOK, TypeOK', LifeInv, LinkInv, NEW p \in Procs, Acts(p)
  PROVE  LinkInv'
BY CreationsLink, StartExtendLink, StartDeleteLink, ReadsLink, StepsLink, GivesUpLink,
   SaveLink, UnrecordLink, CrashLink DEF Acts

-----------------------------------------------------------------------------
(* The statuses.  Only the object of a call that is with its driver has a    *)
(* status that is not meant for the store, as long as no call is interrupted *)
(* by what "except Exception" does not see.  A restore may have copied       *)
(* "deleted" from the volume its snapshot was taken of.                      *)
Transient == {"creating", "extending"}
SettingOps == {"create", "restore", "snapshot", "extend"}
RowsSettled == \A i \in Ids : rows[i].status \notin Transient \cup {"deleted"}
ObjectSettled(p, i) ==
  heap[p][i].status \in Transient =>
    /\ call[p] # Idle /\ call[p].obj = i
    /\ call[p].op \in SettingOps /\ call[p].pc = "driver"
CallSettled(p) ==
  call[p] # Idle =>
    /\ call[p].prev \notin Transient \cup {"deleted"}
    /\ heap[p][call[p].obj].status = "deleted"
         => call[p].op = "restore" /\ call[p].pc = "driver"
ProcessSettled(p) == CallSettled(p) /\ \A i \in Ids : ObjectSettled(p, i)
StatusInv == RowsSettled /\ \A p \in Procs : ProcessSettled(p)

LEMMA StatusLocal ==
  ASSUME StatusInv, NEW p \in Procs, OthersStay(p), ProcessSettled(p)', RowsSettled'
  PROVE  StatusInv'
<1>1. \A q \in Procs \ {p} : ProcessSettled(q)'
  BY DEF StatusInv, ProcessSettled, CallSettled, ObjectSettled, OthersStay
<1> QED BY <1>1 DEF StatusInv

(* A call that goes on or ends with a status that may be saved.              *)
LEMMA StepSettles ==
  ASSUME TypeOK, StatusInv, NEW p \in Procs, call[p] # Idle, OthersStay(p),
         UNCHANGED rows, \E pc \in {"save", "unrecord"} : Leads(p, pc),
         NEW status, NEW size, NEW dirty,
         Changes(p, call[p].obj, status, size, dirty),
         status \notin Transient \cup {"deleted"}
  PROVE  StatusInv'
<1>1. CallSettled(p)'
  BY DEF StatusInv, ProcessSettled, CallSettled, Leads, Changes
<1>2. \A i \in Ids : ObjectSettled(p, i)'
  BY DEF StatusInv, ProcessSettled, ObjectSettled, Leads, Changes
<1> QED BY <1>1, <1>2, StatusLocal DEF ProcessSettled, RowsSettled, StatusInv

LEMMA CreationsStatus ==
  ASSUME TypeOK, StatusInv, NEW p \in Procs, Creations(p)
  PROVE  StatusInv'
<1>1. PICK op \in CreateOps, i \in Ids, size \in 0..MaxSize, status \in Statuses :
        /\ NewCall(p, op, i, size, NewObject(status, size))
        /\ NewStatus(p, op, status)
  BY CreationsEffect
<1>2. NewObject(status, size).status = status
  BY DEF NewObject
<1>3. \A j \in Ids : heap[p][j].status \notin Transient
  BY <1>1 DEF NewCall, StatusInv, ProcessSettled, ObjectSettled
<1>4. /\ status = "deleted" => op = "restore"
      /\ op = "clone" => status \notin Transient
  BY <1>1, <1>3 DEF Holds, NewStatus
<1>5. CallSettled(p)'
  BY <1>1, <1>2, <1>4 DEF CallSettled, NewCall, Transient
<1>6. \A j \in Ids : ObjectSettled(p, j)'
  BY <1>1, <1>2, <1>3, <1>4 DEF ObjectSettled, NewCall, CreateOps, SettingOps
<1> QED BY <1>1, <1>5, <1>6, StatusLocal
        DEF NewCall, ProcessSettled, RowsSettled, StatusInv

LEMMA StartExtendStatus ==
  ASSUME TypeOK, StatusInv, NEW p \in Procs, NEW v \in Vols, NEW n, StartExtend(p, v, n)
  PROVE  StatusInv'
<1>1. \A j \in Ids : heap[p][j].status \notin Transient
  BY StartExtendEffect DEF StatusInv, ProcessSettled, ObjectSettled
<1>2. CallSettled(p)'
  BY <1>1, StartExtendEffect DEF CallSettled, Changes, Holds
<1>3. \A j \in Ids : ObjectSettled(p, j)'
  BY <1>1, StartExtendEffect DEF ObjectSettled, Changes, SettingOps
<1> QED BY <1>2, <1>3, StatusLocal, StartExtendEffect DEF ProcessSettled, RowsSettled, StatusInv

LEMMA LoadedStatus ==
  ASSUME StatusInv, NEW p \in Procs, call[p] = Idle, FromStore(p)
  PROVE  \A j \in Ids : heap'[p][j].status \notin Transient
<1>1. \A j \in Ids : FromRow(j).status = rows[j].status
  BY DEF FromRow
<1> QED BY <1>1 DEF FromStore, StatusInv, RowsSettled, ProcessSettled, ObjectSettled

LEMMA ReadsStatus ==
  ASSUME TypeOK, StatusInv, NEW p \in Procs, Reads(p)
  PROVE  StatusInv'
<1>1. ProcessSettled(p)'
  BY ReadsEffect, LoadedStatus DEF ProcessSettled, CallSettled, ObjectSettled
<1> QED BY <1>1, StatusLocal, ReadsEffect DEF RowsSettled, StatusInv, OthersStay

LEMMA StartDeleteStatus ==
  ASSUME TypeOK, StatusInv, NEW p \in Procs, NEW i \in Ids, StartDelete(p, i)
  PROVE  StatusInv'
<1>1. \A j \in Ids : heap'[p][j].status \notin Transient
  BY StartDeleteEffect, LoadedStatus
<1>2. heap'[p][i].status # "deleted"
  <2>1. FromRow(i).status = rows[i].status
    BY DEF FromRow
  <2> QED BY <2>1, StartDeleteEffect DEF FromStore, Holds, StatusInv, RowsSettled
<1>3. CallSettled(p)'
  BY <1>2, StartDeleteEffect DEF CallSettled, Transient
<1>4. \A j \in Ids : ObjectSettled(p, j)'
  BY <1>1 DEF ObjectSettled
<1> QED BY <1>3, <1>4, StatusLocal, StartDeleteEffect
        DEF ProcessSettled, RowsSettled, StatusInv

LEMMA CreatesStatus ==
  ASSUME TypeOK, StatusInv, "interrupt" \notin Faults, NEW p \in Procs, Creates(p)
  PROVE  StatusInv'
<1>1. PICK status \in {"available", "error"} :
        /\ At(p, CreateOps, "driver")
        /\ SetStatus(p, Outcome(p, status)) /\ GoTo(p, "save") /\ UNCHANGED rows
  BY DEF Creates, DriverCreates, DriverCreateRaises, CreateInterrupted, Fault
<1>2. Outcome(p, status) \notin Transient \cup {"deleted"}
  <2>1. CASE call[p].op = "clone"
    BY <1>1, <2>1, CallTyped, CallFields
    DEF Outcome, At, StatusInv, ProcessSettled, CallSettled, ObjectSettled, SettingOps
  <2>2. CASE call[p].op # "clone"
    BY <1>1, <2>2 DEF Outcome, Transient
  <2> QED BY <2>1, <2>2
<1>3. call[p] # Idle
  BY <1>1 DEF At
<1>4. /\ Changes(p, call[p].obj, Outcome(p, status), heap[p][call[p].obj].size,
                 heap[p][call[p].obj].dirty \cup {"status"})
      /\ \A q \in Procs \ {p} : heap'[q] = heap[q]
  BY <1>1, <1>3, SetsStatus
<1>5. Leads(p, "save") /\ \A q \in Procs \ {p} : call'[q] = call[q]
  BY <1>1, <1>3, GoesOn
<1> HIDE DEF Creates
<1> QED BY <1>1, <1>2, <1>3, <1>4, <1>5, StepSettles DEF OthersStay

LEMMA MarksStatus ==
  ASSUME TypeOK, StatusInv, "interrupt" \notin Faults, NEW p \in Procs, Marks(p)
  PROVE  StatusInv'
<1>1. /\ call[p] # Idle /\ UNCHANGED rows
      /\ GoTo(p, "save") \/ GoTo(p, "unrecord")
  BY DEF Marks, DriverExtendRaises, ExtendInterrupted, DriverDeletes,
         DriverDeleteRaises, UnrecordRaises, At
<1>2. /\ \E pc \in {"save", "unrecord"} : Leads(p, pc)
      /\ \A q \in Procs \ {p} : call'[q] = call[q]
  BY <1>1, GoesOn
<1>3. \/ \E status \in {"error", "error_deleting"} : SetStatus(p, status)
      \/ UNCHANGED heap /\ call[p].op = "delete"
  <2>1. ASSUME At(p, {"delete"}, "driver") PROVE call[p].op = "delete"
    BY <2>1 DEF At
  <2> QED BY <2>1 DEF Marks, DriverExtendRaises, ExtendInterrupted, DriverDeletes,
            DriverDeleteRaises, UnrecordRaises, Fault
<1>4. CASE \E status \in {"error", "error_deleting"} : SetStatus(p, status)
  <2>1. PICK status \in {"error", "error_deleting"} : SetStatus(p, status)
    BY <1>4
  <2>2. /\ Changes(p, call[p].obj, status, heap[p][call[p].obj].size,
                   heap[p][call[p].obj].dirty \cup {"status"})
        /\ \A q \in Procs \ {p} : heap'[q] = heap[q]
    BY <1>1, <2>1, SetsStatus
  <2>3. status \notin Transient \cup {"deleted"}
    BY DEF Transient
  <2> QED BY <1>1, <1>2, <2>2, <2>3, StepSettles DEF OthersStay
<1>5. CASE UNCHANGED heap /\ call[p].op = "delete"
  <2>1. call[p].obj \in Ids
    BY <1>1, CallTyped, CallFields
  <2>2. heap[p][call[p].obj].status \notin Transient \cup {"deleted"}
    BY <1>5, <1>1, <2>1
    DEF StatusInv, ProcessSettled, CallSettled, ObjectSettled, SettingOps
  <2> QED BY <1>1, <1>2, <1>5, <2>1, <2>2, KeepsObjects, StepSettles DEF OthersStay
<1> QED BY <1>3, <1>4, <1>5

LEMMA DriverExtendsStatus ==
  ASSUME TypeOK, StatusInv, NEW p \in Procs, DriverExtends(p)
  PROVE  StatusInv'
<1>1. call[p] # Idle /\ GoTo(p, "save") /\ UNCHANGED rows
  BY DEF DriverExtends, At
<1>2. call[p].prev \notin Transient \cup {"deleted"}
  BY <1>1 DEF StatusInv, ProcessSettled, CallSettled
<1> QED BY <1>1, <1>2, GoesOn, ExtendsObject, StepSettles DEF OthersStay

LEMMA NothingTransient ==
  ASSUME StatusInv, NEW p \in Procs, call[p] # Idle => call[p].pc # "driver" \/ call[p].op = "delete"
  PROVE  \A j \in Ids : heap[p][j].status \notin Transient
BY DEF StatusInv, ProcessSettled, ObjectSettled, SettingOps

LEMMA GivesUpStatus ==
  ASSUME TypeOK, StatusInv, NEW p \in Procs, GivesUp(p)
  PROVE  StatusInv'
<1>1. call[p].pc # "driver" \/ call[p].op = "delete"
  BY DEF GivesUp, SaveFindsNoRow, SaveRaises, DeleteInterrupted, At
<1>2. ProcessSettled(p)'
  BY <1>1, NothingTransient, GivesUpEffect DEF ProcessSettled, CallSettled, ObjectSettled
<1> QED BY <1>2, StatusLocal, GivesUpEffect DEF RowsSettled, StatusInv

LEMMA SaveStatus ==
  ASSUME TypeOK, StatusInv, NEW p \in Procs, Save(p)
  PROVE  StatusInv'
<1> DEFINE i == call[p].obj
<1>1. call[p] # Idle /\ call[p].pc = "save" /\ i \in Ids
  BY CallTyped, CallFields DEF Save, At
<1>2. \A j \in Ids : heap[p][j].status \notin Transient
  BY <1>1, NothingTransient
<1>3. heap[p][i].status # "deleted"
  BY <1>1 DEF StatusInv, ProcessSettled, CallSettled
<1>4. Merged(rows[i], heap[p][i]).status \in {rows[i].status, heap[p][i].status}
  BY DEF Merged
<1>5. rows'[i] = Merged(rows[i], heap[p][i]) /\ \A j \in Ids \ {i} : rows'[j] = rows[j]
  BY <1>1 DEF Save, TypeOK
<1>6. RowsSettled'
  BY <1>1, <1>2, <1>3, <1>4, <1>5 DEF RowsSettled, StatusInv
<1>7. ProcessSettled(p)'
  BY <1>1, <1>2, SavesObject, WritesEffect DEF ProcessSettled, CallSettled, ObjectSettled, Changes
<1> QED BY <1>6, <1>7, StatusLocal, WritesEffect

LEMMA UnrecordStatus ==
  ASSUME TypeOK, StatusInv, NEW p \in Procs, Unrecord(p)
  PROVE  StatusInv'
<1> DEFINE i == call[p].obj
<1>1. call[p] # Idle /\ call[p].pc = "unrecord" /\ i \in Ids
  BY CallTyped, CallFields DEF Unrecord, At
<1>2. \A j \in Ids : heap[p][j].status \notin Transient
  BY <1>1, NothingTransient
<1>3. rows'[i] = NoRow /\ \A j \in Ids \ {i} : rows'[j] = rows[j]
  BY <1>1 DEF Unrecord, TypeOK
<1>4. RowsSettled'
  BY <1>1, <1>3 DEF RowsSettled, StatusInv, NoRow, Transient
<1>5. Changes(p, i, "deleted", heap[p][i].size, {"status"})
  BY <1>1, DeletesObject DEF Unrecord
<1>6. ProcessSettled(p)'
  BY <1>1, <1>2, <1>5, WritesEffect DEF ProcessSettled, CallSettled, ObjectSettled, Changes, Transient
<1> QED BY <1>4, <1>6, StatusLocal, WritesEffect

LEMMA CrashStatus ==
  ASSUME TypeOK, StatusInv, NEW p \in Procs, Crash(p)
  PROVE  StatusInv'
<1>1. ProcessSettled(p)'
  BY CrashEffect DEF ProcessSettled, CallSettled, ObjectSettled, NoObject, Transient
<1> QED BY <1>1, StatusLocal, CrashEffect DEF RowsSettled, StatusInv

LEMMA ActsStatus ==
  ASSUME TypeOK, StatusInv, "interrupt" \notin Faults, NEW p \in Procs, Acts(p)
  PROVE  StatusInv'
BY CreationsStatus, StartExtendStatus, StartDeleteStatus, ReadsStatus, CreatesStatus,
   DriverExtendsStatus, MarksStatus, GivesUpStatus, SaveStatus, UnrecordStatus,
   CrashStatus DEF Acts

-----------------------------------------------------------------------------
(* The volumes in flight.  One that its creation left behind is nowhere      *)
(* "available", so that no object, call or row can make it so later on, as   *)
(* long as no clone copies that status from its source.  A restore copies it *)
(* too, but has set another one when it saves, unless it is interrupted.     *)
Restoring(p, v) ==
  call[p] # Idle /\ call[p].obj = v /\ call[p].op = "restore" /\ call[p].pc = "driver"
NeverAvailable(v) ==
  /\ rows[v].status # "available"
  /\ \A q \in Procs :
       /\ heap[q][v].status = "available" => Restoring(q, v)
       /\ call[q] # Idle /\ call[q].obj = v => call[q].prev # "available"
InflightInv ==
  \A p \in Procs : \A v \in inflight[p] : heap[p][v].status # "none" /\ NeverAvailable(v)

(* Restores that are interrupted save what they have copied.                 *)
Lasting == "restore" \in Ops => "interrupt" \notin Faults
RestoresAllowed == \A p \in Procs : call[p] # Idle /\ call[p].op = "restore" => "restore" \in Ops

(* The process that acts only moves statuses around.                         *)
Moves(p, v) ==
  /\ \/ rows'[v].status \in {"none", rows[v].status}
     \/ rows'[v].status = heap[p][v].status /\ ~Restoring(p, v)
  /\ \/ heap'[p][v].status # "available"
     \/ heap'[p][v].status = rows[v].status
     \/ heap'[p][v].status = heap[p][v].status /\ ~Restoring(p, v)
     \/ call[p] # Idle /\ call[p].obj = v /\ heap'[p][v].status = call[p].prev
  /\ call'[p] # Idle /\ call'[p].obj = v =>
       \/ call'[p].prev = "none"
       \/ call'[p].prev = heap[p][v].status /\ ~Restoring(p, v)
       \/ call[p] # Idle /\ call[p].obj = v /\ call'[p].prev = call[p].prev
Keeps(p, v) == heap[p][v].status # "none" => heap'[p][v].status # "none"

LEMMA MovesKeep ==
  ASSUME NEW p \in Procs, NEW v \in Ids, OthersStay(p), NeverAvailable(v), Moves(p, v)
  PROVE  NeverAvailable(v)'
BY DEF NeverAvailable, Moves, OthersStay, Restoring

LEMMA InflightLocal ==
  ASSUME TypeOK, InflightInv, NEW p \in Procs, OthersStay(p),
         \A q \in Procs : inflight'[q] \subseteq inflight[q],
         \A v \in inflight'[p] : Keeps(p, v),
         \A v \in Vols : Moves(p, v) \/ \A q \in Procs : v \notin inflight'[q]
  PROVE  InflightInv'
<1> SUFFICES ASSUME NEW q \in Procs, NEW v \in inflight'[q]
             PROVE  (heap[q][v].status # "none" /\ NeverAvailable(v))'
  BY DEF InflightInv
<1>1. v \in inflight[q] /\ v \in Vols /\ v \in Ids
  BY DEF TypeOK, Ids
<1>2. heap'[q][v].status # "none"
  BY <1>1 DEF InflightInv, OthersStay, Keeps
<1>3. NeverAvailable(v)
  BY <1>1 DEF InflightInv
<1> QED BY <1>1, <1>2, <1>3, MovesKeep

LEMMA CreationsInflight ==
  ASSUME TypeOK, LifeInv, InflightInv, "clone" \notin Ops, NEW p \in Procs, Creations(p)
  PROVE  InflightInv'
<1>1. PICK op \in CreateOps, i \in Ids, size \in 0..MaxSize, status \in Statuses :
        /\ NewCall(p, op, i, size, NewObject(status, size))
        /\ NewStatus(p, op, status)
  BY CreationsEffect
<1>2. /\ NewObject(status, size).status = status
      /\ status = "available" => op = "restore"
  BY <1>1 DEF NewCall, NewObject, NewStatus
<1>3. \A q \in Procs : \A v \in inflight'[q] : v \in inflight[q] \/ (v = i /\ q = p)
  <2>0. ASSUME NEW op2, NEW j, NEW src, NEW n, NEW object,
               Start(p, op2, j, src, n, object)
        PROVE  i = j
    <3>1. call'[p].obj = j
      BY <2>0 DEF Start, TypeOK
    <3> QED BY <1>1, <3>1 DEF NewCall
  <2>1. ASSUME NEW v \in Vols, StartVolume(p, v), i = v
        PROVE  \A q \in Procs : \A w \in inflight'[q] : w \in inflight[q] \/ (w = i /\ q = p)
    <3>1. /\ inflight'[p] = inflight[p] \cup {v}
          /\ \A q \in Procs \ {p} : inflight'[q] = inflight[q]
      BY <2>1 DEF StartVolume, TypeOK
    <3> QED BY <2>1, <3>1
  <2>2. CASE \E v \in Vols, n \in 1..MaxSize : StartCreate(p, v, n)
    BY <2>0, <2>1, <2>2 DEF StartCreate
  <2>3. CASE \E v, w \in Vols : StartClone(p, v, w)
    BY <2>0, <2>1, <2>3 DEF StartClone
  <2>4. CASE \E v \in Vols, s \in Snaps, n \in 1..MaxSize : StartRestore(p, v, s, n)
    BY <2>0, <2>1, <2>4 DEF StartRestore
  <2>5. CASE \E s \in Snaps : StartSnapshot(p, s)
    <3>1. UNCHANGED inflight
      BY <2>5 DEF StartSnapshot
    <3> QED BY <3>1
  <2> QED BY <2>2, <2>3, <2>4, <2>5 DEF Creations
<1>4. /\ \A q \in Procs : heap[q][i] = NoObject
      /\ ~Recorded(i)
  BY <1>1 DEF NewCall, LifeInv, UnusedIsNowhere
<1>5. \A q \in Procs : i \notin inflight[q] /\ heap[q][i].status = "none"
  BY <1>4 DEF InflightInv, NoObject
<1>6. heap'[p][i].status # "none" /\ NeverAvailable(i)'
  <2>0. status # "none"
    <3>1. LifeInv'
      BY CreationsLife DEF Creations
    <3>2. heap'[p][i].status # "none"
      BY <1>1, <3>1 DEF LifeInv, CallsAreSound, NewCall
    <3> QED BY <1>1, <1>2, <3>2 DEF NewCall
  <2>1. /\ rows'[i].status # "available"
        /\ heap'[p][i].status # "none"
        /\ heap'[p][i].status = "available" => Restoring(p, i)'
    BY <1>1, <1>2, <1>4, <2>0 DEF NewCall, Recorded, Restoring
  <2>2. call'[p].prev = "none"
    BY <1>1 DEF NewCall
  <2>3. \A q \in Procs \ {p} : heap'[q][i].status = "none"
    BY <1>1, <1>5 DEF NewCall, OthersStay
  <2>4. \A q \in Procs \ {p} : call'[q] # Idle => call'[q].obj # i
    BY <1>1, <1>5 DEF NewCall, OthersStay, LifeInv, CallsAreSound
  <2> QED BY <2>1, <2>2, <2>3, <2>4 DEF NeverAvailable
<1>7. \A v \in Vols : v # i => Moves(p, v) /\ Keeps(p, v)
  <2> SUFFICES ASSUME NEW v \in Vols, v # i PROVE Moves(p, v) /\ Keeps(p, v)
    OBVIOUS
  <2>1. v \in Ids
    BY DEF Ids
  <2> QED BY <1>1, <2>1 DEF NewCall, Moves, Keeps, Restoring
<1> SUFFICES ASSUME NEW q \in Procs, NEW v \in inflight'[q]
             PROVE  (heap[q][v].status # "none" /\ NeverAvailable(v))'
  BY DEF InflightInv
<1>8. CASE v = i /\ q = p
  BY <1>6, <1>8
<1>9. CASE v \in inflight[q]
  <2>1. v \in Vols /\ v \in Ids /\ v # i /\ OthersStay(p)
    BY <1>1, <1>5, <1>9 DEF TypeOK, Ids, NewCall
  <2> QED BY <1>7, <1>9, <2>1, MovesKeep DEF InflightInv, OthersStay, Keeps
<1> QED BY <1>3, <1>8, <1>9

LEMMA StartExtendInflight ==
  ASSUME TypeOK, InflightInv, NEW p \in Procs, NEW v \in Vols, NEW n, StartExtend(p, v, n)
  PROVE  InflightInv'
<1>1. \A w \in Ids : Moves(p, w) /\ Keeps(p, w)
  BY StartExtendEffect DEF Moves, Keeps, Changes, Restoring
<1> QED BY <1>1, InflightLocal, StartExtendEffect DEF TypeOK, Ids

LEMMA LoadedInflight ==
  ASSUME TypeOK, InflightInv, NEW p \in Procs, call[p] = Idle, OthersStay(p), FromStore(p),
         UNCHANGED <<rows, inflight>>,
         call'[p] # Idle => call'[p].prev = "none"
  PROVE  InflightInv'
<1>1. \A j \in Ids : FromRow(j).status = rows[j].status
  BY DEF FromRow
<1>2. \A j \in Ids : Moves(p, j) /\ Keeps(p, j)
  BY <1>1 DEF FromStore, Moves, Keeps, Recorded, Restoring
<1> QED BY <1>2, InflightLocal DEF TypeOK, Ids

LEMMA ReadsInflight ==
  ASSUME TypeOK, InflightInv, NEW p \in Procs, Reads(p)
  PROVE  InflightInv'
BY ReadsEffect, LoadedInflight DEF OthersStay

LEMMA StartDeleteInflight ==
  ASSUME TypeOK, InflightInv, NEW p \in Procs, NEW i \in Ids, StartDelete(p, i)
  PROVE  InflightInv'
BY StartDeleteEffect, LoadedInflight

(* A step of a call that sets a status which is not "available".             *)
LEMMA StepInflight ==
  ASSUME TypeOK, LifeInv, InflightInv, NEW p \in Procs, call[p] # Idle, OthersStay(p),
         UNCHANGED <<rows, inflight>>, \E pc \in {"save", "unrecord"} : Leads(p, pc),
         NEW status, NEW size, NEW dirty,
         Changes(p, call[p].obj, status, size, dirty),
         \/ status \in {"error", "error_deleting", call[p].prev}
         \/ status = heap[p][call[p].obj].status /\ ~Restoring(p, call[p].obj),
         status # "none"
  PROVE  InflightInv'
<1>1. \A v \in Ids : Moves(p, v) /\ Keeps(p, v)
  BY DEF Moves, Keeps, Changes, Leads, Restoring
<1> QED BY <1>1, InflightLocal DEF TypeOK, Ids

LEMMA DriverCreatesInflight ==
  ASSUME TypeOK, LifeInv, InflightInv, NEW p \in Procs, DriverCreates(p)
  PROVE  InflightInv'
<1> DEFINE i == call[p].obj
           status == Outcome(p, "available")
<1>1. call[p] # Idle /\ call[p].op \in CreateOps /\ i \in Ids
  BY CallTyped, CallFields DEF DriverCreates, At
<1>2. heap[p][i].status # "none" /\ "id" \in heap[p][i].dirty
  BY <1>1 DEF LifeInv, CallsAreSound, Fields
<1>3. \A q \in Procs \ {p} : i \notin inflight[q]
  BY <1>1, <1>2 DEF LifeInv, UnsavedIsPrivate, InflightInv, NoObject
<1>4. /\ \A q \in Procs \ {p} : inflight'[q] = inflight[q]
      /\ inflight'[p] \subseteq inflight[p]
      /\ i \in Vols => i \notin inflight'[p]
  BY DEF DriverCreates, VolumeCreated, TypeOK
<1>5. /\ \E pc \in {"save", "unrecord"} : Leads(p, pc)
      /\ \A q \in Procs \ {p} : call'[q] = call[q]
  BY <1>1, GoesOn DEF DriverCreates
<1>6. /\ Changes(p, i, status, heap[p][i].size, heap[p][i].dirty \cup {"status"})
      /\ \A q \in Procs \ {p} : heap'[q] = heap[q]
  BY <1>1, SetsStatus DEF DriverCreates
<1>7. status # "none"
  BY <1>2 DEF Outcome
<1>8. UNCHANGED rows
  BY DEF DriverCreates
<1> HIDE DEF status
<1>9. \A v \in Ids : Keeps(p, v) /\ (v # i => Moves(p, v))
  BY <1>1, <1>5, <1>6, <1>7, <1>8 DEF Moves, Keeps, Changes, Leads, Restoring
<1>10. OthersStay(p)
  BY <1>5, <1>6 DEF OthersStay
<1>11. \A v \in Vols : Moves(p, v) \/ \A q \in Procs : v \notin inflight'[q]
  BY <1>3, <1>4, <1>9 DEF Ids
<1> QED BY <1>4, <1>9, <1>10, <1>11, InflightLocal DEF TypeOK, Ids

LEMMA MarksInflight ==
  ASSUME TypeOK, LifeInv, InflightInv, Lasting, RestoresAllowed, NEW p \in Procs,
         DriverCreateRaises(p) \/ CreateInterrupted(p) \/ Marks(p)
  PROVE  InflightInv'
<1>1. /\ call[p] # Idle /\ UNCHANGED <<rows, inflight>>
      /\ GoTo(p, "save") \/ GoTo(p, "unrecord")
  BY DEF DriverCreateRaises, CreateInterrupted, Marks, DriverExtendRaises,
         ExtendInterrupted, DriverDeletes, DriverDeleteRaises, UnrecordRaises, At
<1>2. call[p].obj \in Ids
  BY <1>1, CallTyped, CallFields
<1>3. /\ \E pc \in {"save", "unrecord"} : Leads(p, pc)
      /\ \A q \in Procs \ {p} : call'[q] = call[q]
  BY <1>1, GoesOn
<1> DEFINE still == ~Restoring(p, call[p].obj)
<1>4. \/ \E status \in {"error", "error_deleting"} : SetStatus(p, status)
      \/ SetStatus(p, heap[p][call[p].obj].status) /\ still
      \/ UNCHANGED heap /\ still
  <2>1. CASE DriverCreateRaises(p)
    BY <2>1 DEF DriverCreateRaises, Outcome, Restoring
  <2>2. CASE CreateInterrupted(p)
    BY <1>1, <2>2 DEF CreateInterrupted, Fault, Restoring, Lasting, RestoresAllowed
  <2>3. CASE Marks(p)
    BY <2>3 DEF Marks, DriverExtendRaises, ExtendInterrupted, DriverDeletes,
                DriverDeleteRaises, UnrecordRaises, Restoring, At
  <2> QED BY <2>1, <2>2, <2>3
<1>5. heap[p][call[p].obj].status # "none"
  BY <1>1 DEF LifeInv, CallsAreSound
<1>6. CASE UNCHANGED heap /\ still
  BY <1>1, <1>2, <1>3, <1>5, <1>6, KeepsObjects, StepInflight DEF OthersStay
<1>7. CASE SetStatus(p, heap[p][call[p].obj].status) /\ still
  BY <1>1, <1>3, <1>5, <1>7, SetsStatus, StepInflight DEF OthersStay
<1>8. CASE \E status \in {"error", "error_deleting"} : SetStatus(p, status)
  <2>1. PICK status \in {"error", "error_deleting"} : SetStatus(p, status)
    BY <1>8
  <2> QED BY <1>1, <1>3, <1>5, <2>1, SetsStatus, StepInflight DEF OthersStay
<1> QED BY <1>4, <1>6, <1>7, <1>8

LEMMA DriverExtendsInflight ==
  ASSUME TypeOK, LifeInv, InflightInv, NEW p \in Procs, DriverExtends(p)
  PROVE  InflightInv'
<1>1. call[p] # Idle /\ call[p].op = "extend" /\ GoTo(p, "save")
      /\ UNCHANGED <<rows, inflight>>
  BY DEF DriverExtends, At
<1>2. call[p].prev # "none"
  BY <1>1 DEF LifeInv, CallsAreSound
<1> QED BY <1>1, <1>2, GoesOn, ExtendsObject, StepInflight DEF OthersStay

LEMMA GivesUpInflight ==
  ASSUME TypeOK, InflightInv, NEW p \in Procs, GivesUp(p)
  PROVE  InflightInv'
<1>1. ~\E v \in Ids : Restoring(p, v)
  BY DEF GivesUp, SaveFindsNoRow, SaveRaises, DeleteInterrupted, At, Restoring
<1>2. \A v \in Ids : Moves(p, v) /\ Keeps(p, v)
  BY <1>1, GivesUpEffect DEF Moves, Keeps
<1> QED BY <1>2, InflightLocal, GivesUpEffect DEF TypeOK, Ids

LEMMA WritesInflight ==
  ASSUME TypeOK, LifeInv, InflightInv, NEW p \in Procs, Save(p) \/ Unrecord(p)
  PROVE  InflightInv'
<1> DEFINE i == call[p].obj
<1>1. /\ call[p] # Idle /\ i \in Ids /\ OthersStay(p) /\ call'[p] = Idle
      /\ \A j \in Ids \ {i} : rows'[j] = rows[j] /\ heap'[p][j] = heap[p][j]
      /\ UNCHANGED inflight
  BY WritesEffect
<1>2. heap[p][i].status # "none"
  BY <1>1 DEF LifeInv, CallsAreSound
<1>3. /\ rows'[i].status \in {"none", rows[i].status, heap[p][i].status}
      /\ heap'[p][i].status \in {"deleted", heap[p][i].status}
  <2>1. CASE Save(p)
    <3>1. Merged(rows[i], heap[p][i]).status \in {rows[i].status, heap[p][i].status}
      BY DEF Merged
    <3>2. rows'[i] = Merged(rows[i], heap[p][i])
      BY <1>1, <2>1 DEF Save, TypeOK
    <3> QED BY <2>1, <3>1, <3>2, SavesObject DEF Changes
  <2>2. CASE Unrecord(p)
    <3>1. rows'[i] = NoRow /\ SetDeleted(p, i)
      BY <1>1, <2>2 DEF Unrecord, TypeOK
    <3> QED BY <1>1, <3>1, DeletesObject DEF NoRow, Changes
  <2> QED BY <2>1, <2>2
<1>4. ~\E v \in Ids : Restoring(p, v)
  BY DEF Save, Unrecord, At, Restoring
<1>5. \A v \in Ids : Moves(p, v) /\ Keeps(p, v)
  BY <1>1, <1>2, <1>3, <1>4 DEF Moves, Keeps
<1> QED BY <1>1, <1>5, InflightLocal DEF TypeOK, Ids

LEMMA CrashInflight ==
  ASSUME TypeOK, InflightInv, NEW p \in Procs, Crash(p)
  PROVE  InflightInv'
<1>1. \A v \in Ids : Moves(p, v)
  BY CrashEffect DEF Moves, NoObject
<1> QED BY <1>1, InflightLocal, CrashEffect DEF TypeOK, Ids

LEMMA ActsInflight ==
  ASSUME TypeOK, LifeInv, InflightInv, "clone" \notin Ops, Lasting, RestoresAllowed,
         NEW p \in Procs, Acts(p)
  PROVE  InflightInv'
BY CreationsInflight, StartExtendInflight, StartDeleteInflight, ReadsInflight,
   DriverCreatesInflight, DriverExtendsInflight, MarksInflight, GivesUpInflight,
   WritesInflight, CrashInflight DEF Acts, Creates

(* Clients do only the operations they are allowed to.                       *)
LEMMA ActsAllowed ==
  ASSUME TypeOK, RestoresAllowed, NEW p \in Procs, Acts(p)
  PROVE  RestoresAllowed'
<1>1. OthersStay(p)
  BY UnsavedObjects
<1>2. call'[p] # Idle /\ call'[p].op = "restore" => "restore" \in Ops
  <2>1. CASE Creations(p) \/ Reads(p) \/ (\E i \in Ids : StartDelete(p, i))
             \/ (\E v \in Vols, n \in 1..MaxSize : StartExtend(p, v, n))
    BY <2>1, CreationsEffect, StartExtendEffect, StartDeleteEffect, ReadsEffect
    DEF NewCall, RestoresAllowed
  <2>2. CASE Creates(p) \/ Marks(p)
    BY <2>2, MarksEffect DEF Leads, RestoresAllowed
  <2>3. CASE DriverExtends(p)
    <3>1. call[p] # Idle /\ GoTo(p, "save")
      BY <2>3 DEF DriverExtends, At
    <3> QED BY <3>1, GoesOn DEF Leads, RestoresAllowed
  <2>4. CASE GivesUp(p) \/ Save(p) \/ Unrecord(p) \/ Crash(p)
    BY <2>4, GivesUpEffect, WritesEffect, CrashEffect
  <2> QED BY <2>1, <2>2, <2>3, <2>4 DEF Acts
<1> QED BY <1>1, <1>2 DEF RestoresAllowed, OthersStay

LEMMA AllowedInvariant == Spec => []RestoresAllowed
<1>1. Init => RestoresAllowed
  BY DEF Init, RestoresAllowed
<1>2. TypeOK /\ RestoresAllowed /\ [Next]_vars => RestoresAllowed'
  <2>1. ASSUME RestoresAllowed, UNCHANGED vars PROVE RestoresAllowed'
    BY <2>1 DEF RestoresAllowed, vars
  <2> QED BY <2>1, SomebodyActs, ActsAllowed
<1> QED BY <1>1, <1>2, Typing, PTL DEF Spec

-----------------------------------------------------------------------------
(* The invariants.                                                           *)
RacingInv == LifeInv /\ UnsavedIsWhole /\ SizeInv /\ LinkInv

LEMMA InitRacing ==
  ASSUME Init
  PROVE  RacingInv
<1>1. UnsavedIsWhole
  BY DEF Init, UnsavedIsWhole, NoObject
<1>2. SizeInv
  BY DEF Init, SizeInv, RowsAreBacked, ObjectsAreBacked, NoRowNoSize, AsksItsSize,
         OnArray, NoRow, NoObject
<1>3. LinkInv
  BY DEF Init, LinkInv, LinkedIsHeld, VolumesFirst, UnsavedIsDropped, LinkedIsListed,
         DeleteSparesKnownSnapshots, NoObject
<1> QED BY <1>1, <1>2, <1>3, InitLife DEF RacingInv

LEMMA ActsUnsaved ==
  ASSUME TypeOK, UnsavedIsWhole, NEW p \in Procs, Acts(p)
  PROVE  UnsavedIsWhole'
<1>1. \A j \in Ids : "id" \in heap'[p][j].dirty => "status" \in heap'[p][j].dirty
  BY UnsavedObjects DEF UnsavedIsWhole, Fields
<1> QED BY <1>1, UnsavedObjects DEF UnsavedIsWhole, OthersStay

LEMMA StutterRacing ==
  ASSUME RacingInv, UNCHANGED vars
  PROVE  RacingInv'
<1> USE DEF vars, RacingInv
<1>1. UnsavedIsWhole'
  BY DEF UnsavedIsWhole
<1>2. SizeInv'
  BY DEF SizeInv, RowsAreBacked, ObjectsAreBacked, NoRowNoSize, AsksItsSize, OnArray,
         Recorded
<1>3. LinkInv'
  BY DEF LinkInv, LinkedIsHeld, VolumesFirst, UnsavedIsDropped, LinkedIsListed,
         DeleteSparesKnownSnapshots, Recorded
<1> QED BY <1>1, <1>2, <1>3, StutterLife

LEMMA NextRacing ==
  ASSUME TypeOK, TypeOK', RacingInv, [Next]_vars
  PROVE  RacingInv'
<1>1. CASE Next
  <2>1. PICK p \in Procs : Acts(p)
    BY <1>1, SomebodyActs
  <2> QED BY <2>1, LifeStep, ActsUnsaved, ActsSize, ActsLink DEF RacingInv
<1> QED BY <1>1, StutterRacing

LEMMA RacingInvariant == Spec => []RacingInv
<1>1. Init => RacingInv
  BY InitRacing
<1>2. TypeOK /\ TypeOK' /\ RacingInv /\ [Next]_vars => RacingInv'
  BY NextRacing
<1> QED BY <1>1, <1>2, Typing, PTL DEF Spec

(* The store never promises more space than the array gives: extend records  *)
(* the new size after the driver has grown the volume, and the save of an    *)
(* object that another process has made stale writes only what it changed.   *)
THEOREM SizesAreBacked == Spec => []SizeIsBacked
<1>1. RacingInv => SizeIsBacked
  BY DEF RacingInv, SizeInv, RowsAreBacked, SizeIsBacked, Ids
<1> QED BY <1>1, RacingInvariant, PTL

(* A recorded snapshot whose object points to the volume object is in the    *)
(* loaded list of that volume object, whatever the other processes created,  *)
(* deleted or refreshed in between.                                          *)
THEOREM LinkedSnapshotsAreListed == Spec => []LinkedIsListed
<1>1. RacingInv => LinkedIsListed
  BY DEF RacingInv, LinkInv
<1> QED BY <1>1, RacingInvariant, PTL

(* Volume.delete never gets to the driver for a volume to which a recorded   *)
(* snapshot of the same process points, unless the snapshot's save was lost. *)
THEOREM KnownSnapshotsAreSpared == Spec => []DeleteSparesKnownSnapshots
<1>1. RacingInv => DeleteSparesKnownSnapshots
  BY DEF RacingInv, LinkInv
<1> QED BY <1>1, RacingInvariant, PTL

(* The statuses that a call sets while it runs, and "deleted", never reach   *)
(* the store, also not when the driver or the store fails, or the process    *)
(* dies at any point: as long as no call is interrupted.                     *)
THEOREM TransientStatusesStayOut ==
  ASSUME "interrupt" \notin Faults
  PROVE  Spec => []TransientNotRecorded
<1>1. Init => StatusInv
  BY DEF Init, StatusInv, RowsSettled, ProcessSettled, CallSettled, ObjectSettled,
         NoRow, NoObject, Transient
<1>2. TypeOK /\ StatusInv /\ [Next]_vars => StatusInv'
  <2>1. ASSUME StatusInv, UNCHANGED vars PROVE StatusInv'
    BY <2>1 DEF StatusInv, RowsSettled, ProcessSettled, CallSettled, ObjectSettled, vars
  <2> QED BY <2>1, SomebodyActs, ActsStatus
<1>3. StatusInv => TransientNotRecorded
  BY DEF StatusInv, RowsSettled, Transient, TransientNotRecorded
<1> QED BY <1>1, <1>2, <1>3, Typing, PTL DEF Spec

(* A volume that its creation left in Backend._volumes_inflight never        *)
(* becomes available, in whatever process, as long as nobody clones, and no  *)
(* restore is interrupted: a failed clone, and a restore that "except        *)
(* Exception" does not see fail (objects.py:935-951), keep the status of     *)
(* the volume they have copied.                                              *)
THEOREM FailedStaysUnavailable ==
  ASSUME "clone" \notin Ops, "restore" \in Ops => "interrupt" \notin Faults
  PROVE  Spec => []InflightOnlyFailed
<1>1. Init => InflightInv
  BY DEF Init, InflightInv
<1>2. TypeOK /\ LifeInv /\ RestoresAllowed /\ InflightInv /\ [Next]_vars => InflightInv'
  <2>1. ASSUME InflightInv, UNCHANGED vars PROVE InflightInv'
    BY <2>1 DEF InflightInv, NeverAvailable, Restoring, vars
  <2> QED BY <2>1, SomebodyActs, ActsInflight DEF Lasting
<1>3. InflightInv => InflightOnlyFailed
  BY DEF InflightInv, NeverAvailable, InflightOnlyFailed
<1> QED BY <1>1, <1>2, <1>3, Typing, LifeInvariant, AllowedInvariant, PTL DEF Spec

-----------------------------------------------------------------------------
(* What holds while the clients' calls on one volume do not overlap.  A call *)
(* saves "available" only of what is on the array, and stays the only one to *)
(* change that; a volume is created before it has snapshots.                 *)
Turns == Serialize \/ \A p, q \in Procs : p = q

Locked ==
  \A p, q \in Procs :
    p # q /\ call[p] # Idle /\ call[q] # Idle => Root(call[p].obj) # Root(call[q].obj)

Backed(p) ==
  call[p] # Idle =>
    LET i == call[p].obj
        object == heap[p][i]
    IN
    /\ call[p].op # "clone"
    /\ call[p].op \in CreateOps /\ call[p].pc = "driver" =>
         /\ object.status = "creating" \/ call[p].op = "restore"
         /\ call[p].size > 0
         /\ \A s \in Snaps \cap used : VolOf[s] # i
    /\ call[p].op = "extend" /\ call[p].pc = "driver" =>
         object.status = "extending" /\ "status" \in object.dirty
    /\ call[p].pc = "save" =>
         /\ "status" \in object.dirty
         /\ object.status = "available" => OnArray(i)

Deleting(i) == Working(i, {"delete"}, {"unrecord", "save"})
Real(i) ==
  rows[i].status = "available" =>
    \/ OnArray(i) \/ Deleting(i) \/ i \in dropped
    \/ i \in Snaps /\ ~OnArray(VolOf[i])
PhantomInv == Locked /\ (\A p \in Procs : Backed(p)) /\ \A i \in Ids : Real(i)

LEMMA Roots ==
  ASSUME NEW i \in Ids
  PROVE  /\ i \in Vols => Root(i) = i
         /\ i \in Snaps => Root(i) = VolOf[i] /\ VolOf[i] \in Vols /\ VolOf[i] # i
BY VolumesAssumption DEF Root, Ids

(* What the acts of a process do to the array.                               *)
Deletes(p) == DriverDeletes(p) \/ DriverDeleteRaises(p) \/ DeleteInterrupted(p)

LEMMA ArrayMoves ==
  ASSUME TypeOK, NEW p \in Procs, Acts(p)
  PROVE  \/ UNCHANGED array
         \/ At(p, CreateOps, "driver") /\ Created(p)
         \/ At(p, {"extend"}, "driver") /\ Grown(p)
         \/ At(p, {"delete"}, "driver") /\ Removed(call[p].obj) /\ Deletes(p)
<1>1. CASE Creations(p) \/ (\E v \in Vols, n \in 1..MaxSize : StartExtend(p, v, n))
             \/ (\E i \in Ids : StartDelete(p, i)) \/ Reads(p)
  BY <1>1, CreationsEffect, StartExtendEffect, StartDeleteEffect, ReadsEffect DEF NewCall
<1>2. CASE Creates(p)
  BY <1>2 DEF Creates, DriverCreates, DriverCreateRaises, CreateInterrupted
<1>3. CASE DriverExtends(p) \/ Marks(p)
  BY <1>3 DEF DriverExtends, Marks, DriverExtendRaises, ExtendInterrupted, DriverDeletes,
              DriverDeleteRaises, UnrecordRaises, Deletes
<1>4. CASE GivesUp(p) \/ Save(p) \/ Unrecord(p) \/ Crash(p)
  BY <1>4, WritesEffect, CrashEffect DEF GivesUp, SaveFindsNoRow, SaveRaises,
              DeleteInterrupted, Deletes
<1> QED BY <1>1, <1>2, <1>3, <1>4 DEF Acts

LEMMA Gains ==
  ASSUME TypeOK, TypeOK', NEW p \in Procs, Acts(p), NEW i \in Ids, ~OnArray(i), OnArray(i)'
  PROVE  At(p, CreateOps, "driver") /\ i = call[p].obj
<1>1. CASE UNCHANGED array \/ Grown(p) \/ \E x \in Ids : Removed(x)
  BY <1>1, KeptOrGone DEF OnArray
<1>2. CASE At(p, CreateOps, "driver") /\ Created(p)
  BY <1>2 DEF Created, TypeOK, OnArray
<1>3. At(p, {"delete"}, "driver") => call[p].obj \in Ids
  BY CallTyped, CallFields DEF At
<1> QED BY <1>1, <1>2, <1>3, ArrayMoves

LEMMA Loses ==
  ASSUME TypeOK, TypeOK', NEW p \in Procs, Acts(p), NEW i \in Ids, OnArray(i), ~OnArray(i)',
         Backed(p)
  PROVE  /\ At(p, {"delete"}, "driver") /\ Deletes(p)
         /\ \/ i = call[p].obj
            \/ i \in Snaps /\ VolOf[i] = call[p].obj /\ ~OnArray(VolOf[i])'
<1>1. ~UNCHANGED array
  BY DEF OnArray
<1>2. ~Grown(p)
  <2> SUFFICES ASSUME Grown(p) PROVE FALSE
    OBVIOUS
  <2>1. CASE i = call[p].obj
    <3>1. array'[i] = call[p].size /\ array[i] < call[p].size
      BY <2>1 DEF Grown, CanGrow, TypeOK
    <3> QED BY <3>1, SizesAreNumbers, VolumesAssumption DEF TypeOK, OnArray
  <2>2. CASE i # call[p].obj
    BY <2>2 DEF Grown, TypeOK, OnArray
  <2> QED BY <2>1, <2>2
<1>3. ~(At(p, CreateOps, "driver") /\ Created(p))
  <2> SUFFICES ASSUME At(p, CreateOps, "driver"), Created(p) PROVE FALSE
    OBVIOUS
  <2>1. CASE i = call[p].obj
    <3>1. array'[i] = call[p].size
      BY <2>1 DEF Created, TypeOK
    <3> QED BY <3>1 DEF Backed, At, OnArray
  <2>2. CASE i # call[p].obj
    BY <2>2 DEF Created, TypeOK, OnArray
  <2> QED BY <2>1, <2>2
<1>4. At(p, {"delete"}, "driver") /\ Removed(call[p].obj) /\ Deletes(p)
  BY <1>1, <1>2, <1>3, ArrayMoves
<1>5. PICK purged \in {{}, IF call[p].obj \in Vols THEN SnapsOf(call[p].obj) ELSE {}} :
        array' = [x \in Ids |-> IF x = call[p].obj \/ x \in purged THEN 0 ELSE array[x]]
  BY <1>4 DEF Removed
<1>6. i = call[p].obj \/ i \in purged
  BY <1>5 DEF OnArray
<1>7. i \in purged => i \in Snaps /\ VolOf[i] = call[p].obj
  BY <1>5 DEF SnapsOf
<1>8. call[p].obj \in Ids
  BY <1>4, CallTyped, CallFields DEF At
<1>9. array'[call[p].obj] = 0
  BY <1>5, <1>8
<1>10. i \in purged => ~OnArray(VolOf[i])'
  BY <1>7, <1>9 DEF OnArray
<1> QED BY <1>4, <1>6, <1>7, <1>10

(* The start of a creation, with what the client asks for.                   *)
LEMMA CreationsStart ==
  ASSUME TypeOK, NEW p \in Procs, Creations(p)
  PROVE  \E op \in CreateOps, i \in Ids, n \in 0..MaxSize :
           /\ op # "clone" => n > 0
           /\ op = "snapshot" => i \in Snaps /\ Holds(p, VolOf[i])
           /\ op # "snapshot" => i \in Vols
           /\ \E src, object : Start(p, op, i, src, n, object)
<1> USE DEF CreateOps, Ids
<1>0. 1 > 0 /\ \A n \in 1..MaxSize : n > 0
  BY VolumesAssumption
<1>1. CASE \E v \in Vols, n \in 1..MaxSize : StartCreate(p, v, n)
  <2>1. PICK v \in Vols, n \in 1..MaxSize : StartCreate(p, v, n)
    BY <1>1
  <2> QED BY <2>1, <1>0, NewTypes DEF StartCreate
<1>2. CASE \E v, w \in Vols : StartClone(p, v, w)
  <2>1. PICK v \in Vols, w \in Vols : StartClone(p, v, w)
    BY <1>2
  <2> QED BY <2>1, NewTypes DEF StartClone
<1>3. CASE \E v \in Vols, s \in Snaps, n \in 1..MaxSize : StartRestore(p, v, s, n)
  <2>1. PICK v \in Vols, s \in Snaps, n \in 1..MaxSize : StartRestore(p, v, s, n)
    BY <1>3
  <2> QED BY <2>1, <1>0, NewTypes DEF StartRestore
<1>4. CASE \E s \in Snaps : StartSnapshot(p, s)
  <2>1. PICK s \in Snaps : StartSnapshot(p, s)
    BY <1>4
  <2> QED BY <2>1, <1>0, NewTypes DEF StartSnapshot
<1> QED BY <1>1, <1>2, <1>3, <1>4 DEF Creations

LEMMA Untouched ==
  ASSUME Serialize, NEW I, NEW i \in I, MayTouch(I), NEW q \in Procs, call[q] # Idle
  PROVE  Root(i) # Root(call[q].obj)
BY DEF MayTouch, Locks

(* A call keeps to its resource, and one that starts is alone on its volume. *)
LEMMA Stays ==
  ASSUME TypeOK, NEW p \in Procs, Acts(p)
  PROVE  \/ call'[p] = Idle
         \/ call[p] # Idle /\ call'[p].obj = call[p].obj
         \/ /\ call[p] = Idle
            /\ Serialize => \A q \in Procs :
                 call[q] # Idle => Root(call'[p].obj) # Root(call[q].obj)
<1>1. CASE Creations(p)
  <2>1. PICK op \in CreateOps, i \in Ids, n \in 0..MaxSize :
          \E src, object : Start(p, op, i, src, n, object)
    BY <1>1, CreationsStart
  <2>2. PICK src, object : Start(p, op, i, src, n, object)
    BY <2>1
  <2>3. call[p] = Idle /\ call'[p].obj = i /\ MayTouch({i} \cup src)
    BY <2>2 DEF Start, May, Available, TypeOK
  <2> QED BY <2>3, Untouched
<1>2. CASE \E v \in Vols, n \in 1..MaxSize : StartExtend(p, v, n)
  <2>1. PICK v \in Vols, n \in 1..MaxSize : StartExtend(p, v, n)
    BY <1>2
  <2>2. call[p] = Idle /\ call'[p].obj = v /\ MayTouch({v})
    BY <2>1, StartExtendEffect DEF StartExtend
  <2> QED BY <2>2, Untouched
<1>3. CASE \E i \in Ids : StartDelete(p, i)
  <2>1. PICK i \in Ids : StartDelete(p, i)
    BY <1>3
  <2>2. call[p] = Idle /\ call'[p].obj = i /\ MayTouch({i})
    BY <2>1, StartDeleteEffect DEF StartDelete
  <2> QED BY <2>2, Untouched
<1>4. CASE Reads(p)
  BY <1>4, ReadsEffect
<1>5. CASE Creates(p) \/ Marks(p)
  BY <1>5, MarksEffect DEF Leads
<1>6. CASE DriverExtends(p)
  BY <1>6, GoesOn DEF DriverExtends, At, Leads
<1>7. CASE GivesUp(p) \/ Save(p) \/ Unrecord(p) \/ Crash(p)
  BY <1>7, GivesUpEffect, WritesEffect, CrashEffect
<1> QED BY <1>1, <1>2, <1>3, <1>4, <1>5, <1>6, <1>7 DEF Acts

LEMMA ActsLocked ==
  ASSUME TypeOK, Turns, Locked, NEW p \in Procs, Acts(p)
  PROVE  Locked'
<1>1. OthersStay(p)
  BY UnsavedObjects
<1>2. \A q \in Procs \ {p} : call[q] # Idle /\ call'[p] # Idle =>
        Root(call'[p].obj) # Root(call[q].obj)
  BY Stays DEF Turns, Locked
<1>3. \A i : Root(i)' = Root(i)
  BY DEF Root
<1> QED BY <1>1, <1>2, <1>3 DEF Locked, OthersStay, Root

(* Nobody takes a snapshot of a volume while it is created.                  *)
LEMMA SnapshotsDrawn ==
  ASSUME TypeOK, NEW p \in Procs, Acts(p), NEW s \in Snaps, s \in used', s \notin used
  PROVE  call[p] = Idle /\ Holds(p, VolOf[s]) /\ call'[p].obj = s
<1>1. CASE Creations(p)
  <2>1. PICK op \in CreateOps, i \in Ids, n \in 0..MaxSize :
           /\ op = "snapshot" => i \in Snaps /\ Holds(p, VolOf[i])
           /\ op # "snapshot" => i \in Vols
           /\ \E src, object : Start(p, op, i, src, n, object)
    BY <1>1, CreationsStart
  <2>2. used' = used \cup {i} /\ call[p] = Idle /\ call'[p].obj = i
    BY <2>1 DEF Start, May, Available, TypeOK
  <2>3. i = s
    BY <2>2
  <2> QED BY <2>1, <2>2, <2>3, VolumesAssumption
<1>2. CASE ~Creations(p)
  BY <1>2, StartExtendEffect, StartDeleteEffect, ReadsEffect, MarksEffect, GivesUpEffect,
     WritesEffect, CrashEffect DEF Acts, DriverExtends
<1> QED BY <1>1, <1>2

(* The calls of the others stay backed.                                      *)
LEMMA OthersBacked ==
  ASSUME TypeOK, TypeOK', LifeInv, PhantomInv, NEW p \in Procs, Acts(p), NEW q \in Procs \ {p}
  PROVE  Backed(q)'
<1>1. heap'[q] = heap[q] /\ call'[q] = call[q]
  BY UnsavedObjects DEF OthersStay
<1> SUFFICES ASSUME call[q] # Idle PROVE Backed(q)'
  BY <1>1 DEF Backed
<1>2. PICK i \in Ids : i = call[q].obj
  BY CallFacts
<1>3. Backed(q)
  BY DEF PhantomInv
<1>4. ASSUME call[q].op \in CreateOps, NEW s \in Snaps \cap used', VolOf[s] = i,
             \A t \in Snaps \cap used : VolOf[t] # i
      PROVE  FALSE
  <2>1. Holds(p, i)
    BY <1>4, SnapshotsDrawn
  <2>2. heap[p][i] = NoObject
    BY <1>2, <1>4, CallFacts DEF LifeInv, UnsavedIsPrivate, Fields
  <2> QED BY <2>1, <2>2 DEF Holds, NoObject
<1>5. ASSUME OnArray(i), ~OnArray(i)' PROVE FALSE
  <2>1. Backed(p)
    BY DEF PhantomInv
  <2>2. /\ call[p] # Idle
        /\ i = call[p].obj \/ (i \in Snaps /\ VolOf[i] = call[p].obj)
    BY <1>5, <2>1, Loses DEF At
  <2>3. Root(call[p].obj) # Root(i)
    BY <1>2, <2>2 DEF PhantomInv, Locked
  <2> QED BY <2>2, <2>3, Roots, VolumesAssumption DEF Root
<1> QED BY <1>1, <1>2, <1>3, <1>4, <1>5 DEF Backed

LEMMA CreationsBacked ==
  ASSUME TypeOK, VolumesFirst, "clone" \notin Ops, NEW p \in Procs, Creations(p)
  PROVE  Backed(p)'
<1>1. PICK op \in CreateOps, i \in Ids, size \in 0..MaxSize, status \in Statuses :
        /\ NewCall(p, op, i, size, NewObject(status, size))
        /\ status = "creating" \/ op \in {"clone", "restore"}
  BY CreationsEffect DEF NewStatus
<1>2. /\ op # "clone" /\ i \notin used /\ used' = used \cup {i}
      /\ call'[p].op = op /\ call'[p].pc = "driver" /\ call'[p].obj = i
      /\ heap'[p][i] = NewObject(status, size)
  BY <1>1 DEF NewCall
<1>3. heap'[p][i].status = "creating" \/ op = "restore"
  BY <1>1, <1>2 DEF NewObject
<1>4. call'[p].size > 0
  <2>1. PICK op2 \in CreateOps, j \in Ids, n \in 0..MaxSize :
           /\ op2 # "clone" => n > 0
           /\ \E src, object : Start(p, op2, j, src, n, object)
    BY CreationsStart
  <2>2. call'[p].size = n /\ call'[p].op = op2
    BY <2>1 DEF Start, TypeOK
  <2> QED BY <1>2, <2>1, <2>2
<1>5. \A s \in Snaps \cap used' : VolOf[s] # i
  <2> SUFFICES ASSUME NEW s \in Snaps, s \in used' PROVE VolOf[s] # i
    OBVIOUS
  <2>1. CASE s \in used
    BY <1>2, <2>1 DEF VolumesFirst
  <2>2. CASE s = i
    BY <2>2, VolumesAssumption
  <2> QED BY <1>2, <2>1, <2>2
<1>6. call'[p].op # "extend"
  BY <1>2 DEF CreateOps
<1> QED BY <1>2, <1>3, <1>4, <1>5, <1>6 DEF Backed

LEMMA StartsBacked ==
  ASSUME TypeOK, NEW p \in Procs,
         (\E v \in Vols, n \in 1..MaxSize : StartExtend(p, v, n))
           \/ \E i \in Ids : StartDelete(p, i)
  PROVE  Backed(p)'
<1>1. CASE \E v \in Vols, n \in 1..MaxSize : StartExtend(p, v, n)
  <2>1. PICK v \in Vols, n \in 1..MaxSize : StartExtend(p, v, n)
    BY <1>1
  <2>2. /\ call'[p].op = "extend" /\ call'[p].pc = "driver" /\ call'[p].obj = v
        /\ heap'[p][v].status = "extending" /\ "status" \in heap'[p][v].dirty
    BY <2>1, StartExtendEffect DEF Changes
  <2> QED BY <2>2 DEF Backed, CreateOps
<1>2. CASE \E i \in Ids : StartDelete(p, i)
  <2>1. call'[p].op = "delete" /\ call'[p].pc = "driver"
    BY <1>2, StartDeleteEffect
  <2> QED BY <2>1 DEF Backed, CreateOps
<1> QED BY <1>1, <1>2

(* A step that saves next.                                                   *)
LEMMA SavesNext ==
  ASSUME TypeOK, NEW p \in Procs, call[p] # Idle, Backed(p), GoTo(p, "save"),
         \/ UNCHANGED heap /\ "status" \in heap[p][call[p].obj].dirty
            /\ heap[p][call[p].obj].status # "available"
         \/ \E status : SetStatus(p, status)
              /\ (status = "available" => array'[call[p].obj] > 0)
  PROVE  Backed(p)'
<1>1. PICK i \in Ids : i = call[p].obj
  BY CallTyped, CallFields
<1>2. call'[p].op = call[p].op /\ call'[p].obj = i /\ call'[p].pc = "save"
  BY <1>1, GoesOn DEF Leads
<1>3. /\ "status" \in heap'[p][i].dirty
      /\ heap'[p][i].status = "available" => array'[i] > 0
  BY <1>1, SetsStatus DEF Changes
<1> QED BY <1>2, <1>3 DEF Backed, OnArray

LEMMA CreatesBacked ==
  ASSUME TypeOK, LifeInv, Lasting, RestoresAllowed, NEW p \in Procs, Backed(p), Creates(p)
  PROVE  Backed(p)'
<1>1. call[p] # Idle /\ GoTo(p, "save") /\ call[p].op \in CreateOps /\ call[p].pc = "driver"
  BY DEF Creates, DriverCreates, DriverCreateRaises, CreateInterrupted, At
<1>2. /\ call[p].op # "clone" /\ call[p].obj \in Ids /\ call[p].size > 0
      /\ heap[p][call[p].obj].status = "creating" \/ call[p].op = "restore"
      /\ "status" \in heap[p][call[p].obj].dirty
  BY <1>1, CallFacts DEF Backed, Fields
<1>3. CASE DriverCreates(p)
  <2>1. array'[call[p].obj] > 0
    BY <1>2, <1>3 DEF DriverCreates, Created, TypeOK
  <2>2. SetStatus(p, "available")
    BY <1>2, <1>3 DEF DriverCreates, Outcome
  <2> QED BY <1>1, <2>1, <2>2, SavesNext
<1>4. CASE DriverCreateRaises(p)
  <2>1. SetStatus(p, "error")
    BY <1>2, <1>4 DEF DriverCreateRaises, Outcome
  <2> QED BY <1>1, <2>1, SavesNext
<1>5. CASE CreateInterrupted(p)
  <2>1. heap[p][call[p].obj].status = "creating"
    BY <1>1, <1>2, <1>5 DEF CreateInterrupted, Fault, Lasting, RestoresAllowed
  <2> QED BY <1>1, <1>2, <1>5, <2>1, SavesNext DEF CreateInterrupted
<1> QED BY <1>3, <1>4, <1>5 DEF Creates

LEMMA ExtendsBacked ==
  ASSUME TypeOK, NEW p \in Procs, Backed(p), DriverExtends(p)
  PROVE  Backed(p)'
<1>1. /\ call[p] # Idle /\ GoTo(p, "save") /\ Grown(p)
      /\ call[p].op = "extend"
  BY DEF DriverExtends, At
<1>2. PICK i \in Ids : i = call[p].obj
  BY <1>1, CallTyped, CallFields
<1>3. call'[p].op = "extend" /\ call'[p].obj = i /\ call'[p].pc = "save"
  BY <1>1, <1>2, GoesOn DEF Leads
<1>4. "status" \in heap'[p][i].dirty
  BY <1>2, ExtendsObject DEF Changes
<1>5. array'[i] > 0
  <2>1. array'[i] = call[p].size /\ array[i] < call[p].size /\ array[i] > 0
    BY <1>1, <1>2 DEF Grown, CanGrow, OnArray, TypeOK
  <2>2. call[p].size \in 0..MaxSize
    BY <1>1, CallTyped, CallFields
  <2> QED BY <2>1, <2>2, SizesAreNumbers, VolumesAssumption
<1> QED BY <1>3, <1>4, <1>5 DEF Backed, OnArray

LEMMA MarksBacked ==
  ASSUME TypeOK, NEW p \in Procs, Backed(p), Marks(p)
  PROVE  Backed(p)'
<1>1. CASE DriverExtendRaises(p)
  <2>1. call[p] # Idle /\ GoTo(p, "save") /\ SetStatus(p, "error")
    BY <1>1 DEF DriverExtendRaises, At
  <2> QED BY <2>1, SavesNext
<1>2. CASE ExtendInterrupted(p)
  <2>1. /\ call[p] # Idle /\ GoTo(p, "save") /\ UNCHANGED heap
        /\ call[p].op = "extend" /\ call[p].pc = "driver"
    BY <1>2 DEF ExtendInterrupted, At
  <2>2. /\ heap[p][call[p].obj].status = "extending"
        /\ "status" \in heap[p][call[p].obj].dirty
    BY <2>1 DEF Backed
  <2> QED BY <2>1, <2>2, SavesNext
<1>3. CASE DriverDeletes(p)
  <2>1. call[p] # Idle /\ GoTo(p, "unrecord") /\ call[p].op = "delete"
    BY <1>3 DEF DriverDeletes, At
  <2>2. call'[p].op = "delete" /\ call'[p].pc = "unrecord"
    BY <2>1, GoesOn DEF Leads
  <2> QED BY <2>2 DEF Backed
<1>4. CASE DriverDeleteRaises(p) \/ UnrecordRaises(p)
  <2>1. call[p] # Idle /\ GoTo(p, "save") /\ SetStatus(p, "error_deleting")
    BY <1>4 DEF DriverDeleteRaises, UnrecordRaises, At
  <2> QED BY <2>1, SavesNext
<1> QED BY <1>1, <1>2, <1>3, <1>4 DEF Marks

LEMMA ActsBacked ==
  ASSUME TypeOK, TypeOK', LifeInv, VolumesFirst, PhantomInv, "clone" \notin Ops,
         Lasting, RestoresAllowed, NEW p \in Procs, Acts(p)
  PROVE  \A q \in Procs : Backed(q)'
<1>1. Backed(p)
  BY DEF PhantomInv
<1>2. CASE call'[p] = Idle
  BY <1>2, OthersBacked DEF Backed
<1>3. CASE call'[p] # Idle
  <2>1. Backed(p)'
    BY <1>1, <1>3, CreationsBacked, StartsBacked, ReadsEffect, CreatesBacked, ExtendsBacked,
       MarksBacked, GivesUpEffect, WritesEffect, CrashEffect DEF Acts
  <2> QED BY <2>1, OthersBacked
<1> QED BY <1>2, <1>3

(* A row becomes "available" only when a call saves that of its object.      *)
LEMMA BecomesAvailable ==
  ASSUME TypeOK, NEW p \in Procs, Acts(p), Backed(p), NEW i \in Ids,
         rows'[i].status = "available"
  PROVE  \/ rows'[i] = rows[i] /\ (Save(p) => i # call[p].obj)
         \/ Save(p) /\ i = call[p].obj /\ OnArray(i) /\ UNCHANGED array
<1>1. CASE Save(p) /\ i = call[p].obj
  <2>1. rows'[i].status = IF "status" \in heap[p][i].dirty
                          THEN heap[p][i].status ELSE rows[i].status
    BY <1>1 DEF Save, Merged, TypeOK
  <2>2. call[p] # Idle /\ call[p].pc = "save" /\ UNCHANGED array
    BY <1>1 DEF Save, At
  <2> QED BY <1>1, <2>1, <2>2 DEF Backed
<1>2. CASE Unrecord(p) /\ i = call[p].obj
  BY <1>2 DEF Unrecord, NoRow, TypeOK
<1>3. CASE (Save(p) \/ Unrecord(p)) /\ i # call[p].obj
  BY <1>3, WritesEffect
<1>4. CASE ~(Save(p) \/ Unrecord(p))
  BY <1>4, CreationsEffect, StartExtendEffect, StartDeleteEffect, ReadsEffect, MarksEffect,
     GivesUpEffect, CrashEffect DEF Acts, NewCall, DriverExtends
<1> QED BY <1>1, <1>2, <1>3, <1>4

LEMMA DroppedStays ==
  ASSUME TypeOK, NEW p \in Procs, Acts(p)
  PROVE  dropped \subseteq dropped'
BY CreationsEffect, StartExtendEffect, StartDeleteEffect, ReadsEffect, MarksEffect,
   WritesEffect, CrashEffect
DEF Acts, NewCall, DriverExtends, GivesUp, SaveFindsNoRow, SaveRaises, DeleteInterrupted

(* A delete that has been to the driver stays one until it takes the row     *)
(* away, saves the status, or loses that save.                               *)
LEMMA DeleteGoesOn ==
  ASSUME TypeOK, NEW p \in Procs, Acts(p), NEW i \in Ids,
         At(p, {"delete"}, "unrecord") \/ At(p, {"delete"}, "save"), call[p].obj = i
  PROVE  \/ Deleting(i)' \/ i \in dropped' \/ Save(p) \/ Unrecord(p) \/ ~Recorded(i)
<1>1. call[p] # Idle /\ call[p].pc # "driver" /\ call[p].op = "delete"
  BY DEF At
<1>2. ~Creations(p) /\ ~Reads(p) /\ ~(\E x \in Ids : StartDelete(p, x))
      /\ ~(\E v \in Vols, n \in 1..MaxSize : StartExtend(p, v, n))
  BY <1>1, CreationsEffect, ReadsEffect, StartDeleteEffect, StartExtendEffect DEF NewCall
<1>3. ~Creates(p) /\ ~DriverExtends(p) /\ (Marks(p) => UnrecordRaises(p))
  BY <1>1 DEF Creates, DriverCreates, DriverCreateRaises, CreateInterrupted, DriverExtends,
     Marks, DriverExtendRaises, ExtendInterrupted, DriverDeletes, DriverDeleteRaises, At
<1>4. CASE UnrecordRaises(p)
  <2>1. Leads(p, "save")
    BY <1>1, <1>4, GoesOn DEF UnrecordRaises
  <2> QED BY <1>1, <2>1 DEF Leads, Deleting, Working
<1>5. CASE GivesUp(p)
  BY <1>1, <1>5 DEF GivesUp, SaveFindsNoRow, SaveRaises, DeleteInterrupted, At, CanSave
<1>6. CASE Crash(p)
  <2>1. At(p, AnyOp, "save") \/ At(p, AnyOp, "unrecord")
    BY DEF At, AnyOp
  <2> QED BY <1>6, <2>1 DEF Crash
<1> QED BY <1>2, <1>3, <1>4, <1>5, <1>6 DEF Acts

LEMMA ActsReal ==
  ASSUME TypeOK, TypeOK', LifeInv, PhantomInv, NEW p \in Procs, Acts(p), NEW i \in Ids
  PROVE  Real(i)'
<1>1. Backed(p)
  BY DEF PhantomInv
<1> SUFFICES ASSUME rows'[i].status = "available",
                    ~OnArray(i)', i \notin dropped', ~Deleting(i)'
             PROVE  i \in Snaps /\ ~OnArray(VolOf[i])'
  BY DEF Real
<1>2. rows'[i] = rows[i] /\ (Save(p) => i # call[p].obj)
  BY <1>1, BecomesAvailable DEF OnArray
<1>3. Recorded(i) /\ rows[i].status = "available" /\ i \notin dropped
  BY <1>2, DroppedStays DEF Recorded
<1>4. CASE OnArray(i)
  <2>1. /\ At(p, {"delete"}, "driver") /\ Deletes(p)
        /\ i = call[p].obj \/ (i \in Snaps /\ ~OnArray(VolOf[i])')
    BY <1>1, <1>4, Loses
  <2>2. ASSUME i = call[p].obj PROVE FALSE
    <3>1. CASE DeleteInterrupted(p)
      BY <2>2, <3>1 DEF DeleteInterrupted
    <3>2. CASE DriverDeletes(p) \/ DriverDeleteRaises(p)
      <4>1. call[p] # Idle /\ call[p].op = "delete" /\ (GoTo(p, "unrecord") \/ GoTo(p, "save"))
        BY <3>2 DEF DriverDeletes, DriverDeleteRaises, At
      <4>2. Leads(p, "unrecord") \/ Leads(p, "save")
        BY <4>1, GoesOn
      <4> QED BY <2>2, <4>1, <4>2 DEF Leads, Deleting, Working
    <3> QED BY <2>1, <3>1, <3>2 DEF Deletes
  <2> QED BY <2>1, <2>2
<1>5. CASE Deleting(i)
  <2>1. PICK q \in Procs : /\ call[q] # Idle /\ call[q].obj = i
                           /\ call[q].op = "delete" /\ call[q].pc \in {"unrecord", "save"}
    BY <1>5 DEF Deleting, Working
  <2>2. q = p
    <3>1. q # p => call'[q] = call[q]
      BY UnsavedObjects DEF OthersStay
    <3> QED BY <2>1, <3>1 DEF Deleting, Working
  <2>3. At(p, {"delete"}, "unrecord") \/ At(p, {"delete"}, "save")
    BY <2>1, <2>2 DEF At
  <2>4. Unrecord(p)
    BY <1>2, <1>3, <2>1, <2>2, <2>3, DeleteGoesOn
  <2>5. rows'[i].status = "none"
    BY <2>1, <2>2, <2>4 DEF Unrecord, NoRow, TypeOK
  <2> QED BY <2>5
<1>6. CASE i \in Snaps /\ ~OnArray(VolOf[i])
  <2>1. VolOf[i] \in Ids
    BY <1>6, VolumesAssumption DEF Ids
  <2>2. i \in used
    BY <1>3 DEF LifeInv, UnusedIsNowhere
  <2>3. ~(At(p, CreateOps, "driver") /\ VolOf[i] = call[p].obj)
    BY <1>1, <1>6, <2>2 DEF Backed, At
  <2> QED BY <1>6, <2>1, <2>3, Gains
<1> QED BY <1>3, <1>4, <1>5, <1>6 DEF PhantomInv, Real

(* A row says "available" only of what is on the array, unless it is being   *)
(* deleted, a save was lost, or it is a snapshot whose volume is gone: as    *)
(* long as the calls on a volume do not overlap, nobody clones and no        *)
(* restore is interrupted (a failed clone and an interrupted restore are     *)
(* recorded with the status they copied).  Processes may hold stale objects. *)
THEOREM NothingIsPhantom ==
  ASSUME Turns, "clone" \notin Ops, "restore" \in Ops => "interrupt" \notin Faults
  PROVE  Spec => []NoPhantom
<1>1. Init => PhantomInv
  BY DEF Init, PhantomInv, Locked, Backed, Real, NoRow
<1>2. TypeOK /\ TypeOK' /\ RacingInv /\ RestoresAllowed /\ PhantomInv /\ [Next]_vars
        => PhantomInv'
  <2>1. ASSUME PhantomInv, UNCHANGED vars PROVE PhantomInv'
    BY <2>1 DEF PhantomInv, Locked, Backed, Real, Deleting, Working, OnArray, vars
  <2>2. ASSUME TypeOK, TypeOK', RacingInv, RestoresAllowed, PhantomInv,
               NEW p \in Procs, Acts(p)
        PROVE  PhantomInv'
    BY <2>2, ActsLocked, ActsBacked, ActsReal DEF RacingInv, LinkInv, PhantomInv, Lasting
  <2> QED BY <2>1, <2>2, SomebodyActs
<1>3. PhantomInv => NoPhantom
  BY DEF PhantomInv, Real, Deleting, NoPhantom
<1> QED BY <1>1, <1>2, <1>3, Typing, RacingInvariant, AllowedInvariant, PTL DEF Spec

-----------------------------------------------------------------------------
(* What holds while one process uses the store.  An object differs from its  *)
(* row only in the fields its call has changed and not saved yet; a resource *)
(* whose delete succeeded or one of whose saves was lost is excepted.        *)
OneProcess == \E p : Procs = {p}

Creating(p, i) == call[p] # Idle /\ call[p].obj = i /\ call[p].op \in CreateOps
Synced(p, i) ==
  /\ Recorded(i)
  /\ "status" \notin heap[p][i].dirty => heap[p][i].status = rows[i].status
  /\ "size" \notin heap[p][i].dirty => heap[p][i].size = rows[i].size
Agrees(p, i) ==
  heap[p][i].status # "none" /\ i \notin gone \cup dropped =>
    /\ Synced(p, i) \/ Creating(p, i)
    /\ heap[p][i].dirty # {} => call[p] # Idle /\ call[p].obj = i
AgreeInv == \A p \in Procs, i \in Ids : Agrees(p, i)

(* Nothing that Agrees speaks of changes.                                    *)
LEMMA AgreesStill ==
  ASSUME TypeOK, NEW p \in Procs, NEW j \in Ids, Agrees(p, j),
         heap'[p][j] = heap[p][j], rows'[j] = rows[j],
         j \in gone \cup dropped => j \in gone' \cup dropped',
         \/ call[p] = Idle
         \/ call[p].obj # j
         \/ call'[p] # Idle /\ call'[p].op = call[p].op /\ call'[p].obj = call[p].obj
  PROVE  Agrees(p, j)'
BY DEF Agrees, Synced, Creating, Recorded

LEMMA CreationsAgree ==
  ASSUME TypeOK, AgreeInv, NEW p \in Procs, Creations(p)
  PROVE  \A j \in Ids : Agrees(p, j)'
<1>1. PICK op \in CreateOps, i \in Ids, size \in 0..MaxSize, status \in Statuses :
        NewCall(p, op, i, size, NewObject(status, size))
  BY CreationsEffect
<1>2. Creating(p, i)'
  BY <1>1 DEF NewCall, Creating
<1>3. Agrees(p, i)'
  BY <1>2 DEF Agrees, Creating
<1>4. \A j \in Ids \ {i} : Agrees(p, j)'
  BY <1>1, AgreesStill DEF NewCall, AgreeInv
<1> QED BY <1>3, <1>4

LEMMA StartExtendAgrees ==
  ASSUME TypeOK, AgreeInv, NEW p \in Procs, NEW v \in Vols, NEW n, StartExtend(p, v, n)
  PROVE  \A j \in Ids : Agrees(p, j)'
<1>1. /\ call[p] = Idle /\ heap[p][v].status # "none" /\ v \in Ids
      /\ call'[p] # Idle /\ call'[p].obj = v
      /\ UNCHANGED <<rows, dropped, gone>>
      /\ heap'[p][v].size = heap[p][v].size
      /\ heap'[p][v].dirty = heap[p][v].dirty \cup {"status"}
      /\ \A j \in Ids \ {v} : heap'[p][j] = heap[p][j]
  BY StartExtendEffect DEF Holds, Changes
<1>2. Agrees(p, v)'
  BY <1>1 DEF AgreeInv, Agrees, Synced, Creating, Recorded
<1>3. \A j \in Ids \ {v} : Agrees(p, j)'
  BY <1>1, AgreesStill DEF AgreeInv
<1> QED BY <1>2, <1>3

LEMMA ReadsAgree ==
  ASSUME TypeOK, AgreeInv, NEW p \in Procs,
         Reads(p) \/ \E i \in Ids : StartDelete(p, i)
  PROVE  \A j \in Ids : Agrees(p, j)'
<1>1. call[p] = Idle /\ UNCHANGED <<rows, dropped, gone>> /\ FromStore(p)
  BY ReadsEffect, StartDeleteEffect
<1> SUFFICES ASSUME NEW j \in Ids PROVE Agrees(p, j)'
  OBVIOUS
<1>2. CASE heap'[p][j] = heap[p][j]
  BY <1>1, <1>2, AgreesStill DEF AgreeInv
<1>3. CASE heap'[p][j] = FromRow(j) /\ Recorded(j)
  <2>1. /\ heap'[p][j].status = rows[j].status /\ heap'[p][j].size = rows[j].size
        /\ heap'[p][j].dirty = {}
    BY <1>3 DEF FromRow
  <2> QED BY <1>1, <1>3, <2>1 DEF Agrees, Synced, Recorded
<1> QED BY <1>1, <1>2, <1>3 DEF FromStore

(* Whatever a step of a call changes in its object is marked as changed.     *)
LEMMA StepsChange ==
  ASSUME TypeOK, NEW p \in Procs, Creates(p) \/ Marks(p) \/ DriverExtends(p)
  PROVE  /\ call[p] # Idle /\ call[p].obj \in Ids
         /\ UNCHANGED <<rows, dropped, gone>>
         /\ call'[p] # Idle /\ call'[p].op = call[p].op /\ call'[p].obj = call[p].obj
         /\ \A j \in Ids \ {call[p].obj} : heap'[p][j] = heap[p][j]
         /\ \/ heap'[p][call[p].obj] = heap[p][call[p].obj]
            \/ /\ "status" \in heap'[p][call[p].obj].dirty
               /\ "size" \notin heap'[p][call[p].obj].dirty =>
                    /\ "size" \notin heap[p][call[p].obj].dirty
                    /\ heap'[p][call[p].obj].size = heap[p][call[p].obj].size
<1>1. CASE Creates(p) \/ Marks(p)
  <2>1. UNCHANGED heap \/ \E status : SetStatus(p, status)
    BY <1>1 DEF Creates, Marks, DriverCreates, DriverCreateRaises, CreateInterrupted,
      DriverExtendRaises, ExtendInterrupted, DriverDeletes, DriverDeleteRaises,
      UnrecordRaises
  <2>2. /\ call[p] # Idle /\ call[p].obj \in Ids
        /\ UNCHANGED <<rows, dropped, gone>>
        /\ call'[p] # Idle /\ call'[p].op = call[p].op /\ call'[p].obj = call[p].obj
    BY <1>1, MarksEffect DEF Leads
  <2>3. CASE UNCHANGED heap
    BY <2>2, <2>3
  <2>4. CASE \E status : SetStatus(p, status)
    BY <2>2, <2>4, SetsStatus DEF Changes
  <2> QED BY <2>1, <2>3, <2>4
<1>2. CASE DriverExtends(p)
  <2>1. /\ call[p] # Idle /\ call[p].obj \in Ids /\ GoTo(p, "save")
        /\ UNCHANGED <<rows, dropped, gone>>
    BY <1>2, CallTyped, CallFields DEF DriverExtends, At
  <2>2. call'[p] # Idle /\ call'[p].op = call[p].op /\ call'[p].obj = call[p].obj
    BY <2>1, GoesOn DEF Leads
  <2> QED BY <1>2, <2>1, <2>2, ExtendsObject DEF Changes
<1> QED BY <1>1, <1>2

LEMMA StepsAgree ==
  ASSUME TypeOK, LifeInv, AgreeInv, NEW p \in Procs,
         Creates(p) \/ Marks(p) \/ DriverExtends(p)
  PROVE  \A j \in Ids : Agrees(p, j)'
<1>0. PICK i \in Ids : i = call[p].obj
  BY StepsChange
<1>1. i \in Ids /\ heap[p][i].status # "none" /\ call'[p].obj = i /\ call'[p] # Idle
  BY <1>0, StepsChange, CallFacts
<1>2. Agrees(p, i)
  BY <1>0, <1>1 DEF AgreeInv
<1>3. Agrees(p, i)'
  BY <1>0, <1>1, <1>2, StepsChange DEF Agrees, Synced, Creating, Recorded
<1>4. \A j \in Ids \ {i} : Agrees(p, j)'
  BY <1>0, StepsChange, AgreesStill DEF AgreeInv
<1> QED BY <1>3, <1>4

LEMMA GivesUpAgrees ==
  ASSUME TypeOK, LifeInv, AgreeInv, NEW p \in Procs, GivesUp(p)
  PROVE  \A j \in Ids : Agrees(p, j)'
<1>0. PICK i \in Ids : i = call[p].obj
  BY GivesUpEffect
<1>1. /\ call[p] # Idle /\ i \in Ids /\ call'[p] = Idle
      /\ UNCHANGED <<rows, heap, gone>> /\ heap[p][i].status # "none"
      /\ call[p].op \in CreateOps => heap[p][i].dirty = Fields
  BY <1>0, GivesUpEffect, CallFacts
<1>2. dropped \subseteq dropped'
  BY DEF GivesUp, SaveFindsNoRow, SaveRaises, DeleteInterrupted
<1>3. i \in gone \cup dropped'
  <2>1. CASE SaveFindsNoRow(p)
    <3>1. ~Recorded(i) /\ call[p].op \notin CreateOps
      BY <1>0, <1>1, <2>1 DEF SaveFindsNoRow, CanSave, Fields
    <3> QED BY <1>1, <1>2, <3>1 DEF AgreeInv, Agrees, Synced, Creating
  <2>2. CASE SaveRaises(p) \/ DeleteInterrupted(p)
    BY <1>0, <2>2 DEF SaveRaises, DeleteInterrupted
  <2> QED BY <2>1, <2>2 DEF GivesUp
<1>4. Agrees(p, i)'
  BY <1>0, <1>1, <1>3 DEF Agrees
<1>5. \A j \in Ids \ {i} : Agrees(p, j)'
  BY <1>0, <1>1, <1>2, AgreesStill DEF AgreeInv
<1> QED BY <1>4, <1>5

LEMMA WritesAgree ==
  ASSUME TypeOK, LifeInv, AgreeInv, NEW p \in Procs, Save(p) \/ Unrecord(p)
  PROVE  \A j \in Ids : Agrees(p, j)'
<1>0. PICK i \in Ids : i = call[p].obj
  BY WritesEffect
<1>1. /\ call[p] # Idle /\ i \in Ids /\ heap[p][i].status # "none"
      /\ \A j \in Ids \ {i} : rows'[j] = rows[j] /\ heap'[p][j] = heap[p][j]
      /\ UNCHANGED dropped
  BY <1>0, WritesEffect, CallFacts
<1>2. gone \subseteq gone'
  BY DEF Save, Unrecord
<1>3. ASSUME Unrecord(p) PROVE Agrees(p, i)'
  BY <1>0, <1>3 DEF Unrecord, Agrees
<1>4. ASSUME Save(p) PROVE Agrees(p, i)'
  <2>1. /\ heap'[p][i].status = heap[p][i].status /\ heap'[p][i].size = heap[p][i].size
        /\ heap'[p][i].dirty = {}
    BY <1>0, <1>4, SavesObject DEF Changes
  <2>2. /\ rows'[i].status = IF "status" \in heap[p][i].dirty
                             THEN heap[p][i].status ELSE rows[i].status
        /\ rows'[i].size = IF "size" \in heap[p][i].dirty
                           THEN heap[p][i].size ELSE rows[i].size
        /\ UNCHANGED gone
    BY <1>0, <1>1, <1>4 DEF Save, TypeOK, Merged
  <2>3. call[p].op \in CreateOps => "status" \in heap[p][i].dirty /\ "size" \in heap[p][i].dirty
    BY <1>0, <1>1, CallFacts DEF Fields
  <2>4. Agrees(p, i)
    BY <1>0, <1>1 DEF AgreeInv
  <2> QED BY <1>1, <2>1, <2>2, <2>3, <2>4 DEF Agrees, Synced, Creating, Recorded
<1>5. \A j \in Ids \ {i} : Agrees(p, j)'
  BY <1>0, <1>1, <1>2, AgreesStill DEF AgreeInv
<1> QED BY <1>3, <1>4, <1>5

LEMMA ActsAgree ==
  ASSUME TypeOK, LifeInv, AgreeInv, OneProcess, NEW p \in Procs, Acts(p)
  PROVE  AgreeInv'
<1>1. \A j \in Ids : Agrees(p, j)'
  <2>1. CASE Crash(p)
    BY <2>1, CrashEffect DEF Agrees, NoObject
  <2> QED BY <2>1, CreationsAgree, StartExtendAgrees, ReadsAgree, StepsAgree, GivesUpAgrees,
             WritesAgree DEF Acts
<1> QED BY <1>1 DEF AgreeInv, OneProcess

(* With one process each object says, between calls, what its row says, or   *)
(* its delete has succeeded, whatever the driver and the store raised, where *)
(* calls were interrupted or the process died; unless a save was lost.       *)
THEOREM ObjectsAgree ==
  ASSUME OneProcess
  PROVE  Spec => []ObjectAgreesWithRow
<1>1. Init => AgreeInv
  BY DEF Init, AgreeInv, Agrees, NoObject
<1>2. TypeOK /\ LifeInv /\ AgreeInv /\ [Next]_vars => AgreeInv'
  <2>1. ASSUME AgreeInv, UNCHANGED vars PROVE AgreeInv'
    BY <2>1 DEF AgreeInv, Agrees, Synced, Creating, Recorded, vars
  <2> QED BY <2>1, SomebodyActs, ActsAgree
<1>3. AgreeInv => ObjectAgreesWithRow
  BY DEF AgreeInv, Agrees, Synced, Creating, ObjectAgreesWithRow, Available, Holds
<1> QED BY <1>1, <1>2, <1>3, Typing, LifeInvariant, PTL DEF Spec
-----------------------------------------------------------------------------
(* backend._volumes.  What is recorded or being created is listed, in flight *)
(* or had a save lost; what is listed is recorded or about to be.            *)
KnownTo(p, v) == v \in listing[p].ids \cup inflight[p] \cup dropped
Lists(p, v) ==
  /\ Recorded(v) \/ Creating(p, v) => KnownTo(p, v)
  /\ v \in listing[p].ids =>
       \/ Recorded(v) \/ v \in dropped
       \/ Creating(p, v) /\ call[p].pc = "save"
ListInv == \A p \in Procs : listing[p].loaded => \A v \in Vols : Lists(p, v)

(* Nothing is known that was not, and what was listed has what it needs.     *)
LEMMA ListsStill ==
  ASSUME NEW p \in Procs, NEW v \in Vols, Lists(p, v),
         listing'[p].ids = listing[p].ids, inflight'[p] = inflight[p],
         dropped \subseteq dropped',
         Recorded(v)' \/ Creating(p, v)' => Recorded(v) \/ Creating(p, v) \/ v \in dropped',
         Recorded(v) => Recorded(v)' \/ v \in dropped',
         Creating(p, v) /\ call[p].pc = "save" =>
           \/ Recorded(v)' \/ v \in dropped'
           \/ Creating(p, v)' /\ call'[p].pc = "save"
  PROVE  Lists(p, v)'
BY DEF Lists, KnownTo

(* Steps that leave the list, the rows and what is being created alone.      *)
LEMMA ListsKept ==
  ASSUME ListInv, NEW p \in Procs,
         UNCHANGED <<rows, listing, inflight, dropped>>,
         \/ call[p] = Idle /\ (call'[p] = Idle \/ call'[p].op \notin CreateOps)
         \/ call[p] # Idle /\ call[p].op \notin CreateOps
            /\ call'[p] # Idle /\ call'[p].op = call[p].op
         \/ call[p] # Idle /\ call'[p] # Idle /\ call'[p].op = call[p].op
            /\ call'[p].obj = call[p].obj /\ call'[p].pc = "save"
  PROVE  listing'[p].loaded => \A v \in Vols : Lists(p, v)'
<1>1. \A v \in Vols : /\ Recorded(v)' <=> Recorded(v)
                      /\ Creating(p, v)' <=> Creating(p, v)
                      /\ Creating(p, v) /\ call[p].pc = "save" => call'[p].pc = "save"
  BY DEF Recorded, Creating
<1> QED BY <1>1, ListsStill DEF ListInv

LEMMA CreationsList ==
  ASSUME TypeOK, ListInv, NEW p \in Procs, Creations(p)
  PROVE  listing'[p].loaded => \A v \in Vols : Lists(p, v)'
<1>1. PICK op \in CreateOps, i \in Ids, size \in 0..MaxSize, status \in Statuses :
        NewCall(p, op, i, size, NewObject(status, size))
  BY CreationsEffect
<1>2. /\ UNCHANGED <<rows, dropped, listing>>
      /\ inflight[p] \subseteq inflight'[p]
      /\ i \in Vols => i \in inflight'[p]
  <2>1. CASE \E s \in Snaps : StartSnapshot(p, s)
    <3>1. PICK s \in Snaps : StartSnapshot(p, s)
      BY <2>1
    <3>2. call'[p].obj = s
      BY <3>1 DEF StartSnapshot, Start, TypeOK
    <3>3. i = s
      BY <1>1, <3>2 DEF NewCall
    <3> QED BY <3>1, <3>3, VolumesAssumption DEF StartSnapshot, Start
  <2>2. CASE \E v \in Vols : \E op2, src, n, object :
               Start(p, op2, v, src, n, object) /\ StartVolume(p, v)
    <3>0. PICK v \in Vols : \E op2, src, n, object :
               Start(p, op2, v, src, n, object) /\ StartVolume(p, v)
      BY <2>2
    <3>1. PICK op2, src, n, object :
               Start(p, op2, v, src, n, object) /\ StartVolume(p, v)
      BY <3>0
    <3>2. call'[p].obj = v
      BY <3>1 DEF Start, TypeOK
    <3>3. i = v
      BY <1>1, <3>2 DEF NewCall
    <3> QED BY <3>1, <3>3 DEF Start, StartVolume, TypeOK
  <2> QED BY <2>1, <2>2 DEF Creations, StartCreate, StartClone, StartRestore
<1>3. \A v \in Vols : Creating(p, v)' <=> v = i
  BY <1>1 DEF NewCall, Creating
<1>4. \A v \in Vols : ~Creating(p, v) /\ (Recorded(v)' <=> Recorded(v))
  BY <1>1, <1>2 DEF NewCall, Creating, Recorded
<1> QED BY <1>2, <1>3, <1>4 DEF ListInv, Lists, KnownTo

LEMMA DriverCreatesList ==
  ASSUME TypeOK, ListInv, NEW p \in Procs, DriverCreates(p)
  PROVE  listing'[p].loaded => \A v \in Vols : Lists(p, v)'
<1>1. PICK i \in Ids : i = call[p].obj
  BY CallTyped, CallFields DEF DriverCreates, At
<1>2. /\ UNCHANGED <<rows, dropped>>
      /\ call[p] # Idle /\ Leads(p, "save")
      /\ Creating(p, i) /\ Creating(p, i)' /\ call'[p].pc = "save"
      /\ \A v \in Vols \ {i} : ~Creating(p, v) /\ ~Creating(p, v)'
  <2>1. call[p] # Idle /\ call[p].op \in CreateOps /\ GoTo(p, "save")
    BY DEF DriverCreates, At
  <2>2. Leads(p, "save")
    BY <2>1, GoesOn
  <2> QED BY <1>1, <2>1, <2>2 DEF Creating, DriverCreates, Leads
<1>3. CASE i \in Snaps
  <2>1. UNCHANGED <<listing, inflight>>
    BY <1>1, <1>3, VolumesAssumption DEF DriverCreates
  <2> QED BY <1>2, <2>1, ListsKept DEF Leads
<1>4. CASE i \in Vols
  <2>1. ListsNewVolume(p, i) /\ inflight' = [inflight EXCEPT ![p] = inflight[p] \ {i}]
    BY <1>1, <1>4 DEF DriverCreates, VolumeCreated
  <2>2. /\ inflight'[p] = inflight[p] \ {i}
        /\ listing'[p].loaded = listing[p].loaded
        /\ listing[p].loaded => listing'[p].ids = listing[p].ids \cup {i}
    <3>1. listing[p] \in VolList /\ listing \in [Procs -> VolList]
      BY DEF TypeOK
    <3> DEFINE list == [listing[p] EXCEPT !.ids = listing[p].ids \cup {i}]
    <3>2. listing[p].loaded => listing' = [listing EXCEPT ![p] = list]
      BY <2>1, <3>1 DEF ListsNewVolume
    <3>3. list.loaded = listing[p].loaded /\ list.ids = listing[p].ids \cup {i}
      BY <3>1 DEF VolList
    <3>4. ~listing[p].loaded => listing' = listing
      BY <2>1 DEF ListsNewVolume
    <3> HIDE DEF list
    <3> QED BY <2>1, <3>1, <3>2, <3>3, <3>4 DEF TypeOK
  <2>3. \A v \in Vols : Recorded(v)' <=> Recorded(v)
    BY <1>2 DEF Recorded
  <2> SUFFICES ASSUME listing[p].loaded, NEW v \in Vols PROVE Lists(p, v)'
    BY <2>2
  <2>4. Lists(p, v)
    BY DEF ListInv
  <2> QED BY <1>2, <2>2, <2>3, <2>4 DEF Lists, KnownTo
<1> QED BY <1>3, <1>4 DEF Ids

LEMMA StepsList ==
  ASSUME TypeOK, ListInv, NEW p \in Procs,
         DriverCreateRaises(p) \/ CreateInterrupted(p) \/ Marks(p) \/ DriverExtends(p)
  PROVE  listing'[p].loaded => \A v \in Vols : Lists(p, v)'
<1>1. /\ call[p] # Idle /\ call'[p] # Idle /\ UNCHANGED rows
      /\ call'[p].op = call[p].op /\ call'[p].obj = call[p].obj
  BY StepsChange DEF Creates
<1>2. UNCHANGED <<listing, inflight, dropped>>
  BY DEF DriverCreateRaises, CreateInterrupted, Marks, DriverExtendRaises,
     ExtendInterrupted, DriverDeletes, DriverDeleteRaises, UnrecordRaises, DriverExtends
<1>3. CASE DriverCreateRaises(p) \/ CreateInterrupted(p)
  <2>1. GoTo(p, "save")
    BY <1>3 DEF DriverCreateRaises, CreateInterrupted
  <2> QED BY <1>1, <1>2, <2>1, GoesOn, ListsKept DEF Leads
<1>4. CASE Marks(p) \/ DriverExtends(p)
  <2>1. call[p].op \notin CreateOps \/ call'[p].pc = "save"
    <3>1. CASE UnrecordRaises(p)
      BY <1>1, <3>1, GoesOn DEF UnrecordRaises, Leads
    <3>2. CASE ~UnrecordRaises(p)
      BY <1>4, <3>2 DEF Marks, DriverExtendRaises, ExtendInterrupted, DriverDeletes,
         DriverDeleteRaises, DriverExtends, At, CreateOps
    <3> QED BY <3>1, <3>2
  <2> QED BY <1>1, <1>2, <2>1, ListsKept
<1> QED BY <1>3, <1>4

LEMMA GivesUpList ==
  ASSUME TypeOK, LifeInv, ListInv, NEW p \in Procs, GivesUp(p)
  PROVE  listing'[p].loaded => \A v \in Vols : Lists(p, v)'
<1>1. /\ call[p] # Idle /\ call[p].obj \in Ids /\ call'[p] = Idle
      /\ UNCHANGED <<rows, inflight, listing>> /\ dropped \subseteq dropped'
  BY GivesUpEffect DEF GivesUp, SaveFindsNoRow, SaveRaises, DeleteInterrupted
<1>2. call[p].op \in CreateOps => call[p].obj \in dropped'
  <2>1. CASE SaveFindsNoRow(p)
    BY <1>1, <2>1, CallFacts DEF SaveFindsNoRow, CanSave, Fields
  <2>2. CASE SaveRaises(p) \/ DeleteInterrupted(p)
    BY <2>2 DEF SaveRaises, DeleteInterrupted
  <2> QED BY <2>1, <2>2 DEF GivesUp
<1>3. \A v \in Vols : Creating(p, v) => v \in dropped'
  BY <1>2 DEF Creating
<1>4. \A v \in Vols : (Recorded(v)' <=> Recorded(v)) /\ ~Creating(p, v)'
  BY <1>1 DEF Recorded, Creating
<1> QED BY <1>1, <1>3, <1>4, ListsStill DEF ListInv

LEMMA SaveList ==
  ASSUME TypeOK, LifeInv, UnsavedIsDropped, ListInv, NEW p \in Procs, Save(p)
  PROVE  listing'[p].loaded => \A v \in Vols : Lists(p, v)'
<1>1. PICK i \in Ids : i = call[p].obj
  BY WritesEffect
<1>2. /\ call[p] # Idle /\ call'[p] = Idle
      /\ \A j \in Ids \ {i} : rows'[j] = rows[j]
      /\ UNCHANGED <<inflight, listing, dropped>>
      /\ heap[p][i].status # "none"
      /\ call[p].op \in CreateOps => heap[p][i].dirty = Fields
  BY <1>1, WritesEffect, CallFacts DEF Save
<1>3. Recorded(i) => Recorded(i)'
  BY <1>1, <1>2 DEF Save, Recorded, Merged, TypeOK
<1>4. Creating(p, i) => Recorded(i)'
  BY <1>1, <1>2 DEF Save, Recorded, Creating, Merged, TypeOK, Fields
<1>5. Recorded(i) \/ Creating(p, i) \/ i \in dropped
  <2>1. Recorded(i) \/ "id" \in heap[p][i].dirty
    BY <1>1 DEF Save, CanSave
  <2> QED BY <1>1, <1>2, <2>1 DEF UnsavedIsDropped, Creating
<1>6. \A v \in Vols \ {i} : (Recorded(v)' <=> Recorded(v)) /\ ~Creating(p, v)
  BY <1>1, <1>2 DEF Recorded, Creating, Ids
<1>7. \A v \in Vols : ~Creating(p, v)'
  BY <1>2 DEF Creating
<1> SUFFICES ASSUME listing[p].loaded, NEW v \in Vols PROVE Lists(p, v)'
  BY <1>2
<1>8. Lists(p, v)
  BY DEF ListInv
<1> QED BY <1>2, <1>3, <1>4, <1>5, <1>6, <1>7, <1>8, ListsStill

LEMMA UnrecordList ==
  ASSUME TypeOK, ListInv, NEW p \in Procs, Unrecord(p)
  PROVE  listing'[p].loaded => \A v \in Vols : Lists(p, v)'
<1>1. PICK i \in Ids : i = call[p].obj
  BY WritesEffect
<1>2. /\ call[p] # Idle /\ call'[p] = Idle /\ call[p].op \notin CreateOps
      /\ \A j \in Ids \ {i} : rows'[j] = rows[j]
      /\ UNCHANGED <<inflight, dropped>>
  BY <1>1, WritesEffect DEF Unrecord, At, CreateOps
<1>3. ~Recorded(i)'
  <2>1. rows'[i] = NoRow
    BY <1>1 DEF Unrecord, TypeOK
  <2> QED BY <2>1 DEF Recorded, NoRow
<1>4. /\ listing'[p].loaded = listing[p].loaded
      /\ \A v \in Vols : v \in listing'[p].ids <=> v \in listing[p].ids /\ v # i
  <2>1. CASE i \in Vols
    <3> DEFINE list == [listing[p] EXCEPT !.ids = listing[p].ids \ {i}]
    <3>1. listing[p] \in VolList /\ listing \in [Procs -> VolList]
      BY DEF TypeOK
    <3>2. listing' = [listing EXCEPT ![p] = list]
      BY <1>1, <2>1, <3>1 DEF Unrecord, VolumeRemoved
    <3>3. list.loaded = listing[p].loaded /\ list.ids = listing[p].ids \ {i}
      BY <3>1 DEF VolList
    <3> HIDE DEF list
    <3> QED BY <3>1, <3>2, <3>3
  <2>2. CASE i \notin Vols
    BY <1>1, <2>2 DEF Unrecord
  <2> QED BY <2>1, <2>2
<1>5. \A v \in Vols \ {i} : Recorded(v)' <=> Recorded(v)
  BY <1>2 DEF Recorded, Ids
<1>6. \A v \in Vols : ~Creating(p, v) /\ ~Creating(p, v)'
  BY <1>2 DEF Creating
<1> SUFFICES ASSUME listing[p].loaded, NEW v \in Vols PROVE Lists(p, v)'
  BY <1>4
<1>7. Lists(p, v)
  BY DEF ListInv
<1> QED BY <1>2, <1>3, <1>4, <1>5, <1>6, <1>7 DEF Lists, KnownTo

LEMMA ReadsList ==
  ASSUME TypeOK, ListInv, NEW p \in Procs, Reads(p)
  PROVE  listing'[p].loaded => \A v \in Vols : Lists(p, v)'
<1>1. call[p] = Idle /\ UNCHANGED <<rows, call, inflight, dropped>>
  BY ReadsEffect
<1>2. CASE UNCHANGED listing
  BY <1>1, <1>2, ListsKept
<1>3. CASE ListVolumes(p)
  <2> DEFINE list == [loaded |-> TRUE, ids |-> {v \in Vols : Recorded(v)}]
  <2>1. listing' = [listing EXCEPT ![p] = list]
    BY <1>3 DEF ListVolumes
  <2>2. list.ids = {v \in Vols : Recorded(v)}
    OBVIOUS
  <2> HIDE DEF list
  <2>3. \A v \in Vols : v \in listing'[p].ids <=> Recorded(v)
    BY <2>1, <2>2 DEF TypeOK
  <2>4. \A v \in Vols : (Recorded(v)' <=> Recorded(v)) /\ ~Creating(p, v)'
    BY <1>1 DEF Recorded, Creating
  <2> QED BY <2>3, <2>4 DEF Lists, KnownTo
<1> QED BY <1>2, <1>3 DEF Reads, ReadSnapshots, GetById, Refresh

LEMMA ActsList ==
  ASSUME TypeOK, LifeInv, LinkInv, ListInv, OneProcess, NEW p \in Procs, Acts(p)
  PROVE  ListInv'
<1>1. listing'[p].loaded => \A v \in Vols : Lists(p, v)'
  <2>1. CASE \E v \in Vols, n \in 1..MaxSize : StartExtend(p, v, n)
    <3>1. PICK v \in Vols, n \in 1..MaxSize : StartExtend(p, v, n)
      BY <2>1
    <3>2. /\ call[p] = Idle /\ call'[p].op \notin CreateOps
          /\ UNCHANGED <<rows, inflight, dropped, listing>>
      BY <3>1, StartExtendEffect DEF StartExtend, CreateOps
    <3> QED BY <3>2, ListsKept
  <2>2. CASE \E i \in Ids : StartDelete(p, i)
    <3>1. PICK i \in Ids : StartDelete(p, i)
      BY <2>2
    <3>2. /\ call[p] = Idle /\ call'[p].op \notin CreateOps
          /\ UNCHANGED <<rows, inflight, dropped, listing>>
      BY <3>1, StartDeleteEffect DEF StartDelete, CreateOps
    <3> QED BY <3>2, ListsKept
  <2>3. CASE Crash(p)
    BY <2>3 DEF Crash, TypeOK, NotLoaded
  <2> QED BY <2>1, <2>2, <2>3, CreationsList, DriverCreatesList, StepsList, GivesUpList,
             SaveList, UnrecordList, ReadsList DEF Acts, Creates, LinkInv
<1> QED BY <1>1 DEF ListInv, OneProcess

(* With one process a loaded backend._volumes has every available volume,    *)
(* but for failed clones that are still in flight, and nothing that is not   *)
(* recorded or about to be; unless a save was lost.                          *)
THEOREM ListsAreTrue ==
  ASSUME OneProcess
  PROVE  Spec => []ListingTracksRows
<1>1. Init => ListInv
  BY DEF Init, ListInv, NotLoaded
<1>2. TypeOK /\ RacingInv /\ ListInv /\ [Next]_vars => ListInv'
  <2>1. ASSUME ListInv, UNCHANGED vars PROVE ListInv'
    BY <2>1 DEF ListInv, Lists, KnownTo, Creating, Recorded, vars
  <2> QED BY <2>1, SomebodyActs, ActsList DEF RacingInv
<1>3. ListInv => ListingTracksRows
  BY DEF ListInv, Lists, KnownTo, Creating, ListingTracksRows, Working, Recorded
<1> QED BY <1>1, <1>2, <1>3, Typing, RacingInvariant, PTL DEF Spec

=============================================================================
