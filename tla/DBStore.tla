------------------------------- MODULE DBStore -------------------------------
(* The database plugin (src/cinderlib/persistence/dbms.py): a volume is a    *)
(* row of its own, a volume type with extra specs when it has any, and QoS   *)
(* rows that nothing in the database links to the type, each written in a    *)
(* transaction of its own.  Processes share the database; every step of a    *)
(* save or a delete can fail before or after it is committed, and the        *)
(* process can die between two of them.                                      *)
EXTENDS Naturals, FiniteSets

CONSTANTS
  Procs,     \* client processes, each running one call at a time
  Ids,       \* volume ids, which are also the ids of their type and QoS rows
  Data,      \* what the fields of a volume row can hold
  Faults,    \* what may go wrong: "store" and "crash"
  MaxFaults  \* bound on how often it does

ASSUME DBAssumption ==
  /\ Faults \subseteq {"store", "crash"}
  /\ MaxFaults \in Nat
  /\ Data # {}

VARIABLES
  kind,    \* what the volume of each id has: see Kinds
  soft,    \* self.soft_deletes of the plugin
  row,     \* the volumes table
  type,    \* the volume_types and extra specs tables
  qos,     \* the root QoS rows that have the id of their volume
  fresh,   \* ids with a root QoS row whose generated id was not replaced yet
  specs,   \* ids with the other QoS rows, which keep the generated specs_id
  heap,    \* the volume object each process holds
  call,    \* the call of the plugin each process is in
  known,   \* ids of volumes that were saved once (a JSON of them may exist)
  torn,    \* history: ids a fault left a call on half done
  lapped,  \* history: ids of which a save that may insert, a create or a
           \* restore, overlapped with another call
  faults   \* how many faults there have been

vars == <<kind, soft, row, type, qos, fresh, specs, heap, call, known, torn, lapped,
          faults>>

Kinds == {"plain", "specs", "qos"}
Row == [state : {"none", "live", "deleted"}, data : Data]
Object == [held : BOOLEAN, data : Data, dirty : SUBSET {"id", "data"},
           linked : BOOLEAN]   \* volume_type.qos_specs_id of the object is set
Steps == {"qos", "qos id", "type", "row", "update", "specs", "reset"}
Call == [op : {"save", "delete"}, pc : Steps, id : Ids, insert : BOOLEAN]
Idle == [op |-> "idle"]

NoData == CHOOSE d \in Data : TRUE
NoObject == [held |-> FALSE, data |-> NoData, dirty |-> {}, linked |-> FALSE]

TypeOK ==
  /\ kind \in [Ids -> Kinds]
  /\ soft \in BOOLEAN
  /\ row \in [Ids -> Row]
  /\ type \in [Ids -> {"none", "bare", "whole"}]
  /\ qos \in [Ids -> {"none", "live", "deleted"}]
  /\ fresh \in SUBSET Ids
  /\ specs \in SUBSET Ids
  /\ heap \in [Procs -> [Ids -> Object]]
  /\ call \in [Procs -> Call \cup {Idle}]
  /\ known \in SUBSET Ids
  /\ torn \in SUBSET Ids
  /\ lapped \in SUBSET Ids
  /\ faults \in 0..MaxFaults

Init ==
  /\ kind \in [Ids -> Kinds]
  /\ soft \in BOOLEAN
  /\ row = [i \in Ids |-> [state |-> "none", data |-> NoData]]
  /\ type = [i \in Ids |-> "none"]
  /\ qos = [i \in Ids |-> "none"]
  /\ fresh = {}
  /\ specs = {}
  /\ heap = [p \in Procs |-> [i \in Ids |-> NoObject]]
  /\ call = [p \in Procs |-> Idle]
  /\ known = {}
  /\ torn = {}
  /\ lapped = {}
  /\ faults = 0

Live(i) == row[i].state = "live"
Busy(i) == \E p \in Procs : call[p] # Idle /\ call[p].id = i

Fault(what) ==
  /\ what \in Faults
  /\ faults < MaxFaults
  /\ faults' = faults + 1

-----------------------------------------------------------------------------
(* The objects of the clients.                                               *)

Holds(p, i, object) == heap' = [heap EXCEPT ![p][i] = object]

(* Nothing carries an id that was never drawn before.                        *)
Unused(i) ==
  /\ i \notin known \cup specs
  /\ type[i] = "none"
  /\ \A p \in Procs : ~heap[p][i].held

(* Volume(...): every field is dirty.                                        *)
New(p, i, d) ==
  /\ call[p] = Idle
  /\ Unused(i)
  /\ Holds(p, i, [held |-> TRUE, data |-> d, dirty |-> {"id", "data"},
                  linked |-> kind[i] = "qos"])
  /\ UNCHANGED <<kind, soft, lapped, row, type, qos, fresh, specs, call, known, torn, faults>>

Change(p, i, d) ==
  /\ call[p] = Idle
  /\ heap[p][i].held
  /\ Holds(p, i, [heap[p][i] EXCEPT !.data = d, !.dirty = @ \cup {"data"}])
  /\ UNCHANGED <<kind, soft, lapped, row, type, qos, fresh, specs, call, known, torn, faults>>

(* A volume read back has its type, and none of its QoS specs: the row of    *)
(* the type has no qos_specs_id.  Reading one whose type is gone raises.     *)
Get(p, i) ==
  /\ call[p] = Idle
  /\ Live(i)
  /\ kind[i] # "plain" => type[i] # "none"
  /\ Holds(p, i, [held |-> TRUE, data |-> row[i].data, dirty |-> {},
                  linked |-> FALSE])
  /\ UNCHANGED <<kind, soft, lapped, row, type, qos, fresh, specs, call, known, torn, faults>>

(* Volume.load of a JSON that was written when the volume was recorded, from *)
(* the object that created it or from one read back: no field is dirty.      *)
Load(p, i, d, linked) ==
  /\ call[p] = Idle
  /\ i \in known
  /\ linked => kind[i] = "qos"
  /\ Holds(p, i, [held |-> TRUE, data |-> d, dirty |-> {}, linked |-> linked])
  /\ UNCHANGED <<kind, soft, lapped, row, type, qos, fresh, specs, call, known, torn, faults>>

-----------------------------------------------------------------------------
(* set_volume.  get_changed_fields, and get_fields when nothing changed: an  *)
(* object that was loaded, or did not change, is saved as a whole.           *)

Overlaps(i, insert) ==
  \E p \in Procs : call[p] # Idle /\ call[p].id = i /\ (insert \/ call[p].insert)

Start(p, i, op, pc, insert) ==
  /\ call[p] = Idle
  /\ heap[p][i].held
  /\ call' = [call EXCEPT ![p] = [op |-> op, pc |-> pc, id |-> i,
                                  insert |-> insert]]
  /\ lapped' = IF Overlaps(i, insert) THEN lapped \cup {i} ELSE lapped
  /\ UNCHANGED <<kind, soft, row, type, qos, fresh, specs, heap, known, torn, faults>>

(* Mutant: the row is written first.                                         *)
RowFirst(p, i) == "row"
FirstStep(p, i) == CASE kind[i] = "plain" -> "row"
                     [] kind[i] # "plain" /\ heap[p][i].linked -> "qos"
                     [] kind[i] # "plain" /\ ~heap[p][i].linked -> "type"

(* Whether the id is among the fields to write: in a new object, and in one  *)
(* without changes.                                                          *)
Whole(object) == object.dirty = {} \/ "id" \in object.dirty

(* Mutant: the id among the changes is not looked at.                        *)
UpdatesChanges(p, i) ==
  LET whole == heap[p][i].dirty = {} IN
  Start(p, i, "save", IF whole THEN FirstStep(p, i) ELSE "update", whole)
StartSave(p, i) ==
  LET whole == Whole(heap[p][i]) IN
  Start(p, i, "save", IF whole THEN FirstStep(p, i) ELSE "update", whole)

At(p, op, pc) == call[p] # Idle /\ call[p].op = op /\ call[p].pc = pc
GoTo(p, pc) == call' = [call EXCEPT ![p].pc = pc]
Return(p) == call' = [call EXCEPT ![p] = Idle]

(* cinder.db refuses a second QoS specification of the same name, and gives  *)
(* the rows of the new one, a root and others that point to it, an id of its *)
(* own.                                                                      *)
CreateQos(p) ==
  /\ At(p, "save", "qos")
  /\ call[p].id \notin fresh /\ qos[call[p].id] # "live"
  /\ fresh' = fresh \cup {call[p].id}
  /\ specs' = specs \cup {call[p].id}
  /\ GoTo(p, "qos id")
  /\ UNCHANGED <<kind, soft, lapped, row, type, qos, heap, known, torn, faults>>

(* Only the root row gets the id of the volume.                              *)
ReplaceQosId(p) ==
  /\ At(p, "save", "qos id")
  /\ qos[call[p].id] = "none"
  /\ fresh' = fresh \ {call[p].id}
  /\ qos' = [qos EXCEPT ![call[p].id] = "live"]
  /\ GoTo(p, "type")
  /\ UNCHANGED <<kind, soft, lapped, row, type, specs, heap, known, torn, faults>>

CreateType(p) ==
  /\ At(p, "save", "type")
  /\ type[call[p].id] = "none"
  /\ type' = [type EXCEPT ![call[p].id] = "whole"]
  /\ GoTo(p, "row")
  /\ UNCHANGED <<kind, soft, lapped, row, qos, fresh, specs, heap, known, torn, faults>>

(* Mutant: when nothing changed, nothing is written over what is there.      *)
WritesChanges(p) ==
  LET i == call[p].id IN
  row' = [row EXCEPT ![i] = [state |-> "live",
            data |-> IF heap[p][i].dirty = {} THEN "null" ELSE heap[p][i].data]]
Write(p) ==
  LET i == call[p].id IN
  row' = [row EXCEPT ![i] = [state |-> "live", data |-> heap[p][i].data]]

CreateRow(p) ==
  /\ At(p, "save", "row")
  /\ row[call[p].id].state = "none"
  /\ Write(p)
  /\ known' = known \cup {call[p].id}
  /\ GoTo(p, "reset")
  /\ UNCHANGED <<kind, soft, lapped, type, qos, fresh, specs, heap, torn, faults>>

(* DBDuplicateEntry: the id is dropped from the changes, the rest updated.   *)
(* Mutants: the insert is tried again; or the volume is taken as saved.      *)
InsertAgain(p) ==
  /\ At(p, "save", "row")
  /\ row[call[p].id].state # "none"
  /\ GoTo(p, "row")
  /\ UNCHANGED <<kind, soft, lapped, row, type, qos, fresh, specs, heap, known, torn, faults>>
TakenAsSaved(p) ==
  /\ At(p, "save", "row")
  /\ row[call[p].id].state # "none"
  /\ GoTo(p, "reset")
  /\ UNCHANGED <<kind, soft, lapped, row, type, qos, fresh, specs, heap, known, torn, faults>>
RowExists(p) ==
  /\ At(p, "save", "row")
  /\ row[call[p].id].state # "none"
  /\ GoTo(p, "update")
  /\ UNCHANGED <<kind, soft, lapped, row, type, qos, fresh, specs, heap, known, torn, faults>>

(* Mutant: a row that is not there, or deleted, is written all the same.     *)
Upsert(p) == TRUE
CanUpdate(p) == Live(call[p].id)

UpdateRow(p) ==
  /\ At(p, "save", "update")
  /\ CanUpdate(p)
  /\ Write(p)
  /\ GoTo(p, "reset")
  /\ UNCHANGED <<kind, soft, lapped, type, qos, fresh, specs, heap, known, torn, faults>>

-----------------------------------------------------------------------------
(* delete_volume.                                                            *)

StartDelete(p, i) == Start(p, i, "delete", "row", FALSE)

Continue(p, more, pc) == GoTo(p, IF more THEN pc ELSE "reset")

(* volume_destroy, or a hard delete of the row: no error when it is missing. *)
Destroyed(i) ==
  row' = IF soft THEN IF Live(i) THEN [row EXCEPT ![i].state = "deleted"] ELSE row
         ELSE [row EXCEPT ![i] = [state |-> "none", data |-> NoData]]

DeleteRow(p) ==
  LET i == call[p].id IN
  /\ At(p, "delete", "row")
  /\ Destroyed(i)
  /\ Continue(p, kind[i] # "plain", IF soft THEN "type" ELSE "specs")
  /\ UNCHANGED <<kind, soft, lapped, type, qos, fresh, specs, heap, known, torn, faults>>

DeleteSpecs(p) ==
  LET i == call[p].id IN
  /\ At(p, "delete", "specs")
  /\ type' = [type EXCEPT ![i] = IF @ = "whole" THEN "bare" ELSE @]
  /\ GoTo(p, "type")
  /\ UNCHANGED <<kind, soft, lapped, row, qos, fresh, specs, heap, known, torn, faults>>

(* A soft delete calls volume_destroy with the id of the type, which is the  *)
(* id of the volume: the type stays.  Mutant: so does a hard delete.         *)
TypeTakenForVolume(p) ==
  LET i == call[p].id IN
  /\ At(p, "delete", "type")
  /\ Destroyed(i)
  /\ Continue(p, heap[p][i].linked, "qos")
  /\ UNCHANGED <<kind, soft, lapped, type, qos, fresh, specs, heap, known, torn, faults>>
DeleteType(p) ==
  LET i == call[p].id IN
  /\ At(p, "delete", "type")
  /\ IF soft THEN Destroyed(i) /\ UNCHANGED type
             ELSE type' = [type EXCEPT ![i] = "none"] /\ UNCHANGED row
  /\ Continue(p, heap[p][i].linked, "qos")
  /\ UNCHANGED <<kind, soft, lapped, qos, fresh, specs, heap, known, torn, faults>>

(* Both look for the rows whose id or specs_id is that of the volume, which  *)
(* only the root row has; qos_specs_delete raises when there is none.        *)
DeleteQos(p) ==
  LET i == call[p].id IN
  /\ At(p, "delete", "qos")
  /\ soft => qos[i] = "live"
  /\ qos' = [qos EXCEPT ![i] = IF soft THEN "deleted" ELSE "none"]
  /\ GoTo(p, "reset")
  /\ UNCHANGED <<kind, soft, lapped, row, type, fresh, specs, heap, known, torn, faults>>

-----------------------------------------------------------------------------
(* Everything is committed.  reset_change_tracker after a save; after a      *)
(* delete _set_deleted, and clients let go of the object.                    *)
Finish(p) ==
  LET i == call[p].id IN
  /\ call[p] # Idle /\ call[p].pc = "reset"
  /\ heap' = [heap EXCEPT ![p][i] = IF call[p].op = "save"
                                    THEN [@ EXCEPT !.dirty = {}] ELSE NoObject]
  /\ Return(p)
  /\ UNCHANGED <<kind, soft, lapped, row, type, qos, fresh, specs, known, torn, faults>>

-----------------------------------------------------------------------------
(* What the database refuses: the call raises, the object stays as it was.   *)
Refused(p) ==
  /\ \/ At(p, "save", "qos") /\ (call[p].id \in fresh \/ qos[call[p].id] = "live")
     \/ At(p, "save", "qos id") /\ qos[call[p].id] # "none"
     \/ At(p, "save", "type") /\ type[call[p].id] # "none"
     \/ At(p, "save", "update") /\ ~CanUpdate(p)
     \/ At(p, "delete", "qos") /\ soft /\ qos[call[p].id] # "live"
  /\ Return(p)
  /\ UNCHANGED <<kind, soft, lapped, row, type, qos, fresh, specs, heap, known, torn, faults>>

(* The database fails before the next transaction of the call, or answers    *)
(* with an error what it has committed.                                      *)
StoreRaises(p) ==
  /\ call[p] # Idle
  /\ Fault("store")
  /\ torn' = torn \cup {call[p].id}
  /\ Return(p)
  /\ UNCHANGED <<kind, soft, lapped, row, type, qos, fresh, specs, heap, known>>

Crash(p) ==
  /\ Fault("crash")
  /\ torn' = IF call[p] = Idle THEN torn ELSE torn \cup {call[p].id}
  /\ heap' = [heap EXCEPT ![p] = [i \in Ids |-> NoObject]]
  /\ Return(p)
  /\ UNCHANGED <<kind, soft, lapped, row, type, qos, fresh, specs, known>>

-----------------------------------------------------------------------------
Client(p) ==
  \E i \in Ids :
    \/ Get(p, i) \/ StartSave(p, i) \/ StartDelete(p, i)
    \/ \E d \in Data : New(p, i, d) \/ Change(p, i, d)
    \/ \E d \in Data, linked \in BOOLEAN : Load(p, i, d, linked)

StepOf(p) ==
  \/ CreateQos(p) \/ ReplaceQosId(p) \/ CreateType(p)
  \/ CreateRow(p) \/ RowExists(p) \/ UpdateRow(p)
  \/ DeleteRow(p) \/ DeleteSpecs(p) \/ DeleteType(p) \/ DeleteQos(p)
  \/ Finish(p) \/ Refused(p)

Next == \E p \in Procs : Client(p) \/ StepOf(p) \/ StoreRaises(p) \/ Crash(p)

Spec == Init /\ [][Next]_vars

(* A call that was started goes on; what clients start is up to them.        *)
FairSpec == Spec /\ \A p \in Procs : WF_vars(StepOf(p))

-----------------------------------------------------------------------------
(* What the store looks like from outside, and the requests it is asked.     *)
Found(i) ==
  IF Live(i) THEN [found |-> TRUE, data |-> row[i].data] ELSE [found |-> FALSE]

Asked(p) ==
  IF call[p] = Idle THEN [op |-> "none"]
  ELSE LET i == call[p].id IN
       IF call[p].op = "save"
       THEN [op |-> "save", id |-> i, data |-> heap[p][i].data,
             create |-> call[p].insert, done |-> call[p].pc = "reset"]
       ELSE [op |-> "delete", id |-> i, done |-> call[p].pc # "row"]

Store == INSTANCE MetadataStore
           WITH stored <- [i \in Ids |-> Found(i)],
                asked <- [p \in Procs |-> Asked(p)]

(* set_volume and delete_volume write three tables in up to four             *)
(* transactions (dbms.py:188-228, 283-317), in an order such that whatever   *)
(* fails or interleaves, in any number of processes, each call changes the   *)
(* recorded volume at one instant, as a whole, or not at all; also when it   *)
(* raises.                                                                   *)
ImplementsStore == Store!Spec

(* The type of a recorded volume is there with its extra specs, however      *)
(* often the database fails between the transactions (dbms.py:188-228,       *)
(* 283-307), as long as nobody created or restored the volume while another  *)
(* process was working on it.                                                *)
WholeVolumes ==
  \A i \in Ids \ lapped : Live(i) /\ kind[i] # "plain" => type[i] = "whole"

(* A hard delete leaves no type behind: one without a volume                 *)
(* (dbms.py:298-307) is that of a call in progress, or of one that a fault   *)
(* cut short.                                                                *)
NoOrphanTypes ==
  ~soft => \A i \in Ids : type[i] # "none" => Live(i) \/ Busy(i) \/ i \in torn

(* A volume that some process deleted is not brought back by another one     *)
(* that saves what it changed since it read it (dbms.py:216-227): only by    *)
(* one that saves an object without changes as a whole, or by the creator    *)
(* that a fault kept from hearing that its volume was recorded.              *)
OnlyRestoresRevive ==
  [][\A i \in Ids : i \in known /\ ~Live(i) /\ Live(i)' =>
       \E p \in Procs : /\ call[p] # Idle /\ call[p].id = i
                        /\ \/ heap[p][i].dirty = {}
                           \/ "id" \in heap[p][i].dirty /\ i \in torn]_vars

(* Every call ends: the one that finds its row there already goes on with an *)
(* update instead of trying again (dbms.py:216-227).                         *)
CallsEnd == \A p \in Procs : call[p] # Idle ~> call[p] = Idle

(* A process that keeps saving a volume gets it recorded in the end, however *)
(* the first attempts fail; unless the volume has a type and a fault hit a   *)
(* save of it, which leaves the type behind for the next attempts to trip    *)
(* over (dbms.py:189-204).                                                   *)
RetriesEndRecorded ==
  \A p \in Procs, i \in Ids :
    []<><<StartSave(p, i)>>_vars
      => <>(i \in known \/ (kind[i] # "plain" /\ i \in torn))
=============================================================================
