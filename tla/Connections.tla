---------------------------- MODULE Connections ----------------------------
(* Connecting one volume: exporting and mapping it on the storage array,     *)
(* attaching it to the host, and undoing both (Volume.connect, attach,       *)
(* detach, disconnect, cleanup and the methods of Connection in              *)
(* src/cinderlib/objects.py).                                                *)
(*                                                                           *)
(* Every call to the driver, to os-brick and to the metadata store is a step *)
(* of its own that may raise, and the process may die between two steps.  A  *)
(* connection stands for its connector: each has a mapping of its own.       *)
EXTENDS Naturals, FiniteSets

CONSTANTS
  Procs,      \* client processes on the host, each with one volume object
  Conns,      \* connection ids (uuid4, never drawn twice)
  Ops,        \* the operations the clients use: see ClientOps
  Faults,     \* what may go wrong: see FaultKinds
  MaxFaults,  \* bound on how often it does
  Serialize   \* TRUE when calls of different processes never overlap

(* attach and detach are methods of Volume; plug and unplug stand for the    *)
(* methods attach and detach of Connection.                                  *)
ClientOps == {"connect", "attach", "detach", "disconnect", "cleanup",
              "plug", "unplug", "connections", "get", "get connection",
              "refresh"}
FaultKinds == {"driver", "host", "store", "crash"}

ASSUME ConnectionsAssumption ==
  /\ Conns # {}
  /\ Ops \subseteq ClientOps
  /\ Faults \subseteq FaultKinds
  /\ MaxFaults \in Nat
  /\ Serialize \in BOOLEAN

VARIABLES
  exported,  \* the array: whether the volume is exported
  mapped,    \* the array: connections whose mapping exists
  plugged,   \* the host: connections whose device exists
  row,       \* the store: status in the volume's row
  recorded,  \* the store: connections that have a row
  devices,   \* the store: connections whose row has a device
  mem,       \* the Python objects of each process
  call,      \* the call each process is executing
  used,      \* connection ids drawn so far
  faults,    \* how many faults there have been
  lost       \* history: connections whose call a fault left half done

vars == <<exported, mapped, plugged, row, recorded, devices, mem, call,
          used, faults, lost>>

Steps == {"export", "update", "initialize", "record", "in-use", "unexport",
          "plug", "device", "check", "unplug", "forget",
          "terminate", "unrecord", "withdraw", "free"}

(* What a process has in memory: a Volume object with its status (unsaved    *)
(* while the change is not in the row), its _connections and its             *)
(* local_attach; Connection objects, those that still have their             *)
(* connection_info, those with a device, those whose _volume is the volume   *)
(* object, and among these the ones that a refresh linked to another Volume  *)
(* instance that shares everything with it but local_attach.  Only a change  *)
(* made to a Volume object can be unsaved.                                   *)
MemoryRecord ==
  [status : {"none", "available", "in-use"}, unsaved : BOOLEAN,
   loaded : BOOLEAN, listed : SUBSET Conns, local : SUBSET Conns,
   held : SUBSET Conns, info : SUBSET Conns, device : SUBSET Conns,
   linked : SUBSET Conns, twins : SUBSET Conns]
Memory == {m \in MemoryRecord : m.unsaved => m.status # "none"}
NoMemory == [status |-> "none", unsaved |-> FALSE,
             loaded |-> FALSE, listed |-> {}, local |-> {},
             held |-> {}, info |-> {}, device |-> {}, linked |-> {},
             twins |-> {}]

Call == [op : {"connect", "attach", "detach", "disconnect", "cleanup",
               "plug", "unplug"},
         pc : Steps, conn : Conns, force : BOOLEAN, ignore : BOOLEAN,
         todo : SUBSET Conns]
Idle == [op |-> "idle"]

TypeOK ==
  /\ exported \in BOOLEAN
  /\ mapped \in SUBSET Conns
  /\ plugged \in SUBSET Conns
  /\ row \in {"available", "in-use"}
  /\ recorded \in SUBSET Conns
  /\ devices \in SUBSET Conns
  /\ mem \in [Procs -> Memory]
  /\ call \in [Procs -> Call \cup {Idle}]
  /\ used \in SUBSET Conns
  /\ faults \in 0..MaxFaults
  /\ lost \in SUBSET Conns

(* The volume has been created and is in the store.                          *)
Init ==
  /\ exported = FALSE
  /\ mapped = {}
  /\ plugged = {}
  /\ row = "available"
  /\ recorded = {}
  /\ devices = {}
  /\ mem = [p \in Procs |-> NoMemory]
  /\ call = [p \in Procs |-> Idle]
  /\ used = {}
  /\ faults = 0
  /\ lost = {}

-----------------------------------------------------------------------------
Available(p) == call[p] = Idle
May(p, op) == /\ Available(p)
              /\ op \in Ops
              /\ Serialize => \A q \in Procs : Available(q)
HasVolume(p) == mem[p].status # "none"

At(p, pc) == call[p] # Idle /\ call[p].pc = pc
Conn(p) == call[p].conn

Begin(p, op, pc, c, force, ignore, todo) ==
  call' = [call EXCEPT ![p] = [op |-> op, pc |-> pc, conn |-> c,
                               force |-> force, ignore |-> ignore,
                               todo |-> todo]]
GoTo(p, pc) == call' = [call EXCEPT ![p].pc = pc]
Return(p) == call' = [call EXCEPT ![p] = Idle]

Fault(kind) ==
  /\ kind \in Faults
  /\ faults < MaxFaults
  /\ faults' = faults + 1
Loses(p) == lost' = lost \cup {Conn(p)}

(* Connection objects made from the rows, listed by the volume object.       *)
Loaded(m) ==
  [m EXCEPT !.loaded = TRUE, !.listed = recorded,
            !.held = @ \cup recorded, !.info = @ \cup recorded,
            !.linked = @ \cup recorded,
            !.device = (@ \ recorded) \cup (devices \cap recorded)]
WithConnections(m) == IF m.loaded THEN m ELSE Loaded(m)

-----------------------------------------------------------------------------
(* Volume.connect, which Volume.attach starts with.                          *)

StartConnect(p, op, c) ==
  /\ May(p, op)
  /\ HasVolume(p)
  /\ c \notin used
  /\ used' = used \cup {c}
  /\ Begin(p, op, "export", c, FALSE, FALSE, {})
  /\ UNCHANGED <<exported, mapped, plugged, row, recorded, devices, mem,
                 faults, lost>>

(* The driver may have a model update for the volume, which is saved.        *)
Export(p) ==
  /\ At(p, "export")
  /\ exported' = TRUE
  /\ GoTo(p, "update") \/ GoTo(p, "initialize")
  /\ UNCHANGED <<mapped, plugged, row, recorded, devices, mem, used, faults,
                 lost>>

(* An export that raised is not removed.                                     *)
ExportRaises(p) ==
  /\ At(p, "export")
  /\ Fault("driver")
  /\ \/ UNCHANGED <<exported, lost>>
     \/ exported' = TRUE /\ Loses(p)
  /\ Return(p)
  /\ UNCHANGED <<mapped, plugged, row, recorded, devices, mem, used>>

(* The save writes a status that an earlier save failed to write, too.       *)
SaveUpdate(p) ==
  /\ At(p, "update")
  /\ row' = IF mem[p].unsaved THEN mem[p].status ELSE row
  /\ mem' = [mem EXCEPT ![p].unsaved = FALSE]
  /\ GoTo(p, "initialize")
  /\ UNCHANGED <<exported, mapped, plugged, recorded, devices, used, faults,
                 lost>>

SaveUpdateRaises(p) ==
  /\ At(p, "update")
  /\ Fault("store")
  /\ Loses(p)
  /\ Return(p)
  /\ UNCHANGED <<exported, mapped, plugged, row, recorded, devices, mem, used>>

Initialize(p) ==
  /\ At(p, "initialize")
  /\ exported
  /\ mapped' = mapped \cup {Conn(p)}
  /\ GoTo(p, "record")
  /\ UNCHANGED <<exported, plugged, row, recorded, devices, mem, used, faults,
                 lost>>

(* Mutant: the export stays when the connection cannot be initialized.       *)
InitializeRaisesKeepsExport(p) ==
  /\ At(p, "initialize")
  /\ Fault("driver")
  /\ Return(p)
  /\ UNCHANGED <<exported, mapped, plugged, row, recorded, devices, mem, used,
                 lost>>
InitializeRaises(p) ==
  /\ At(p, "initialize")
  /\ \/ Fault("driver") /\ UNCHANGED <<mapped, lost>>
     \/ Fault("driver") /\ mapped' = mapped \cup {Conn(p)} /\ Loses(p)
     \/ ~exported /\ UNCHANGED <<mapped, faults, lost>>
  /\ GoTo(p, "unexport")
  /\ UNCHANGED <<exported, plugged, row, recorded, devices, mem, used>>

Record(p) ==
  /\ At(p, "record")
  /\ recorded' = recorded \cup {Conn(p)}
  /\ GoTo(p, "in-use")
  /\ UNCHANGED <<exported, mapped, plugged, row, devices, mem, used, faults,
                 lost>>

(* The mapping is not terminated: it stays without a row.                    *)
RecordRaises(p) ==
  /\ At(p, "record")
  /\ Fault("store")
  /\ Loses(p)
  /\ GoTo(p, "unexport")
  /\ UNCHANGED <<exported, mapped, plugged, row, recorded, devices, mem, used>>

(* The new object, listed when the list is loaded.                           *)
(* Mutant: the volume gets the status of the connection.                     *)
ConnectedAsAttached(m, c) ==
  [m EXCEPT !.listed = IF m.loaded THEN @ \cup {c} ELSE @,
            !.held = @ \cup {c}, !.info = @ \cup {c}, !.linked = @ \cup {c},
            !.status = "attached", !.unsaved = FALSE]
Connected(m, c) ==
  [m EXCEPT !.listed = IF m.loaded THEN @ \cup {c} ELSE @,
            !.held = @ \cup {c}, !.info = @ \cup {c}, !.linked = @ \cup {c},
            !.status = "in-use", !.unsaved = FALSE]

MarkInUse(p) ==
  /\ At(p, "in-use")
  /\ row' = "in-use"
  /\ mem' = [mem EXCEPT ![p] = Connected(@, Conn(p))]
  /\ IF call[p].op = "attach" THEN GoTo(p, "plug") ELSE Return(p)
  /\ UNCHANGED <<exported, mapped, plugged, recorded, devices, used, faults,
                 lost>>

(* The connection has been recorded, and stays; the client reaches its       *)
(* object when it was listed.                                                *)
MarkInUseRaises(p) ==
  /\ At(p, "in-use")
  /\ Fault("store")
  /\ Loses(p)
  /\ mem' = [mem EXCEPT
                ![p] = [(IF @.loaded THEN Connected(@, Conn(p)) ELSE @)
                          EXCEPT !.status = "in-use", !.unsaved = TRUE]]
  /\ GoTo(p, "unexport")
  /\ UNCHANGED <<exported, mapped, plugged, row, recorded, devices, used>>

(* The error path of connect removes the export, also when the volume has    *)
(* other connections.                                                        *)
Unexport(p) ==
  /\ At(p, "unexport")
  /\ exported' = FALSE
  /\ Return(p)
  /\ UNCHANGED <<mapped, plugged, row, recorded, devices, mem, used, faults,
                 lost>>

UnexportRaises(p) ==
  /\ At(p, "unexport")
  /\ Fault("driver")
  /\ \/ exported' = FALSE /\ UNCHANGED lost
     \/ UNCHANGED exported /\ Loses(p)
  /\ Return(p)
  /\ UNCHANGED <<mapped, plugged, row, recorded, devices, mem, used>>

-----------------------------------------------------------------------------
(* Connection.attach, called by Volume.attach or by the client.              *)

(* Volume.attach disconnects the connection when its attach raised.          *)
AttachFailed(p) ==
  IF call[p].op = "attach" THEN GoTo(p, "terminate") ELSE Return(p)

StartPlug(p, c) ==
  /\ May(p, "plug")
  /\ c \in mem[p].held \ mem[p].device
  /\ Begin(p, "plug", "plug", c, FALSE, FALSE, {})
  /\ UNCHANGED <<exported, mapped, plugged, row, recorded, devices, mem, used,
                 faults, lost>>

(* os-brick finds the volume when the array presents it to the host.         *)
Presented(p) ==
  exported /\ Conn(p) \in mapped /\ Conn(p) \in mem[p].info

Plug(p) ==
  /\ At(p, "plug")
  /\ Presented(p)
  /\ plugged' = plugged \cup {Conn(p)}
  /\ mem' = [mem EXCEPT ![p].device = @ \cup {Conn(p)}]
  /\ GoTo(p, "device")
  /\ UNCHANGED <<exported, mapped, row, recorded, devices, used, faults, lost>>

(* The device may be there all the same, and then nothing records it.        *)
PlugRaises(p) ==
  /\ At(p, "plug")
  /\ \/ Fault("host") /\ UNCHANGED <<plugged, lost>>
     \/ Fault("host") /\ Presented(p) /\ plugged' = plugged \cup {Conn(p)} /\ Loses(p)
     \/ ~Presented(p) /\ UNCHANGED <<plugged, faults, lost>>
  /\ AttachFailed(p)
  /\ UNCHANGED <<exported, mapped, row, recorded, devices, mem, used>>

(* set_connection raises when another process has deleted the row.           *)
(* Mutant: the OVO does not see the change inside its dictionary.            *)
SaveDeviceUntracked(p) ==
  /\ At(p, "device")
  /\ Conn(p) \in recorded
  /\ GoTo(p, "check")
  /\ UNCHANGED <<exported, mapped, plugged, row, recorded, devices, mem, used,
                 faults, lost>>
SaveDevice(p) ==
  /\ At(p, "device")
  /\ Conn(p) \in recorded
  /\ devices' = devices \cup {Conn(p)}
  /\ GoTo(p, "check")
  /\ UNCHANGED <<exported, mapped, plugged, row, recorded, mem, used, faults,
                 lost>>

(* The device stays on the host although attach raises.                      *)
SaveDeviceRaises(p) ==
  /\ At(p, "device")
  /\ Fault("store") \/ (Conn(p) \notin recorded /\ UNCHANGED faults)
  /\ Loses(p)
  /\ AttachFailed(p)
  /\ UNCHANGED <<exported, mapped, plugged, row, recorded, devices, mem, used>>

CheckPasses(p) ==
  /\ At(p, "check")
  /\ mem' = IF Conn(p) \in mem[p].linked \ mem[p].twins
            THEN [mem EXCEPT ![p].local = {Conn(p)}] ELSE mem
  /\ Return(p)
  /\ UNCHANGED <<exported, mapped, plugged, row, recorded, devices, used,
                 faults, lost>>

CheckFails(p) ==
  /\ At(p, "check")
  /\ Fault("host")
  /\ call' = [call EXCEPT ![p].pc = "unplug", ![p].force = TRUE,
                          ![p].ignore = TRUE]
  /\ UNCHANGED <<exported, mapped, plugged, row, recorded, devices, mem, used,
                 lost>>

-----------------------------------------------------------------------------
(* Connection.detach, called by Volume.detach, Volume.cleanup, a failing     *)
(* Connection.attach, or by the client.                                      *)

StartDetach(p, force, ignore) ==
  /\ May(p, "detach")
  /\ \E c \in mem[p].local : Begin(p, "detach", "unplug", c, force, ignore, {})
  /\ UNCHANGED <<exported, mapped, plugged, row, recorded, devices, mem, used,
                 faults, lost>>

StartUnplug(p, c, force, ignore) ==
  /\ May(p, "unplug")
  /\ c \in mem[p].held \cap mem[p].info
  /\ Begin(p, "unplug", "unplug", c, force, ignore, {})
  /\ UNCHANGED <<exported, mapped, plugged, row, recorded, devices, mem, used,
                 faults, lost>>

StartCleanup(p) ==
  /\ May(p, "cleanup")
  /\ HasVolume(p)
  /\ LET all == WithConnections(mem[p]).listed IN
       \/ \E c \in all :
            Begin(p, "cleanup", "unplug", c, FALSE, FALSE, all \ {c})
       \/ /\ all = {}
          /\ \E c \in Conns : Begin(p, "cleanup", "withdraw", c, FALSE, FALSE, {})
  /\ mem' = [mem EXCEPT ![p] = WithConnections(@)]
  /\ UNCHANGED <<exported, mapped, plugged, row, recorded, devices, used,
                 faults, lost>>

(* What follows a Connection.detach that did its work...                     *)
Detached(p) ==
  CASE call[p].op \in {"detach", "attach"} -> GoTo(p, "terminate")
    [] call[p].op = "cleanup" /\ call[p].todo # {} ->
         \E c \in call[p].todo :
           call' = [call EXCEPT ![p].pc = "unplug", ![p].conn = c,
                                ![p].todo = @ \ {c}]
    [] call[p].op = "cleanup" /\ call[p].todo = {} -> GoTo(p, "withdraw")
    [] OTHER -> Return(p)

(* ... and one that raised: Volume.detach goes on if forced.                 *)
ForcedOn(p) ==
  call[p].op = "attach" \/ (call[p].op = "detach" /\ call[p].force)
(* Mutant: Volume.detach goes on in any case.                                *)
DetachFailedAnyway(p) ==
  IF call[p].op \in {"attach", "detach"} THEN GoTo(p, "terminate") ELSE Return(p)
DetachFailed(p) == IF ForcedOn(p) THEN GoTo(p, "terminate") ELSE Return(p)

Unplug(p) ==
  /\ At(p, "unplug")
  /\ Conn(p) \in mem[p].info
  /\ plugged' = plugged \ {Conn(p)}
  /\ GoTo(p, "forget")
  /\ UNCHANGED <<exported, mapped, row, recorded, devices, mem, used, faults,
                 lost>>

(* A forced detach that ignores errors forgets the device all the same; one  *)
(* that does not raises, and Volume.detach goes on when it is forced.  The   *)
(* device may be gone all the same: otherwise going on loses it.             *)
UnplugRaises(p) ==
  LET ignored == call[p].force /\ call[p].ignore IN
  /\ At(p, "unplug")
  /\ \/ /\ Fault("host")
        /\ Conn(p) \in mem[p].info
        /\ plugged' = plugged \ {Conn(p)}
        /\ UNCHANGED lost
     \/ /\ Fault("host") \/ (Conn(p) \notin mem[p].info /\ UNCHANGED faults)
        /\ IF ignored \/ ForcedOn(p) THEN Loses(p) ELSE UNCHANGED lost
        /\ UNCHANGED plugged
  /\ IF ignored THEN GoTo(p, "forget") ELSE DetachFailed(p)
  /\ UNCHANGED <<exported, mapped, row, recorded, devices, mem, used>>

Forgotten(p) ==
  [mem EXCEPT ![p].device = @ \ {Conn(p)},
              ![p].local = IF Conn(p) \in mem[p].linked \ mem[p].twins
                           THEN {} ELSE @]

Forget(p) ==
  /\ At(p, "forget")
  /\ Conn(p) \in recorded \cap mem[p].info
  /\ mem' = Forgotten(p)
  /\ devices' = devices \ {Conn(p)}
  /\ Detached(p)
  /\ UNCHANGED <<exported, mapped, plugged, row, recorded, used, faults, lost>>

ForgetRaises(p) ==
  /\ At(p, "forget")
  /\ \/ Fault("store")
     \/ Conn(p) \notin recorded \cap mem[p].info /\ UNCHANGED faults
  /\ mem' = Forgotten(p)
  /\ DetachFailed(p)
  /\ UNCHANGED <<exported, mapped, plugged, row, recorded, devices, used, lost>>

-----------------------------------------------------------------------------
(* Connection._disconnect and then Volume._disconnect.                       *)

(* The consumer has detached the device before the client disconnects.       *)
StartDisconnect(p, c) ==
  /\ May(p, "disconnect")
  /\ c \in mem[p].held \ devices
  /\ Begin(p, "disconnect", "terminate", c, FALSE, FALSE, {})
  /\ UNCHANGED <<exported, mapped, plugged, row, recorded, devices, mem, used,
                 faults, lost>>

(* Without a connector, which a disconnect that failed to delete the row has *)
(* cleared, the driver may terminate every connection of the volume.         *)
Terminated(p) ==
  IF Conn(p) \in mem[p].info
  THEN mapped' = mapped \ {Conn(p)} /\ UNCHANGED lost
  ELSE \/ UNCHANGED <<mapped, lost>>
       \/ mapped' = {} /\ lost' = lost \cup mapped

Terminate(p) ==
  /\ At(p, "terminate")
  /\ Terminated(p)
  /\ mem' = [mem EXCEPT ![p].info = @ \ {Conn(p)},
                        ![p].device = @ \ {Conn(p)}]
  /\ GoTo(p, "unrecord")
  /\ UNCHANGED <<exported, plugged, row, recorded, devices, used, faults>>

(* Mutant: the row is deleted although the mapping was not terminated.       *)
TerminateRaisesIgnored(p) ==
  /\ At(p, "terminate")
  /\ Fault("driver")
  /\ GoTo(p, "unrecord")
  /\ UNCHANGED <<exported, mapped, plugged, row, recorded, devices, mem, used,
                 lost>>
TerminateRaises(p) ==
  /\ At(p, "terminate")
  /\ Fault("driver")
  /\ UNCHANGED <<mapped, lost>> \/ Terminated(p)
  /\ Return(p)
  /\ UNCHANGED <<exported, plugged, row, recorded, devices, mem, used>>

Unrecord(p) ==
  /\ At(p, "unrecord")
  /\ recorded' = recorded \ {Conn(p)}
  /\ devices' = devices \ {Conn(p)}
  /\ GoTo(p, "withdraw")
  /\ UNCHANGED <<exported, mapped, plugged, row, mem, used, faults, lost>>

UnrecordRaises(p) ==
  /\ At(p, "unrecord")
  /\ Fault("store")
  /\ Return(p)
  /\ UNCHANGED <<exported, mapped, plugged, row, recorded, devices, mem, used,
                 lost>>

(* The export goes with any connection, and at the end of Volume.cleanup.    *)
Withdraw(p) ==
  /\ At(p, "withdraw")
  /\ exported' = FALSE
  /\ IF call[p].op = "cleanup" THEN Return(p) ELSE GoTo(p, "free")
  /\ UNCHANGED <<mapped, plugged, row, recorded, devices, mem, used, faults,
                 lost>>

WithdrawRaises(p) ==
  /\ At(p, "withdraw")
  /\ Fault("driver")
  /\ \/ exported' = FALSE /\ UNCHANGED lost
     \/ /\ UNCHANGED exported
        /\ IF call[p].op = "cleanup" THEN UNCHANGED lost ELSE Loses(p)
  /\ Return(p)
  /\ UNCHANGED <<mapped, plugged, row, recorded, devices, mem, used>>

(* The connection leaves the list, which is loaded now if it was not; the    *)
(* volume is available when none is left.  A connection without a volume     *)
(* object loads one of its own, whose list comes from the store.             *)
Linked(p) == Conn(p) \in mem[p].linked
Unlisted(p) ==
  WithConnections([mem[p] EXCEPT !.listed = @ \ {Conn(p)}])
(* Mutant: nobody looks whether others are left.                             *)
NoneLeftAssumed(p) == TRUE
NoneLeft(p) == IF Linked(p) THEN Unlisted(p).listed = {} ELSE recorded = {}

Freed(p) ==
  IF Linked(p) /\ NoneLeft(p)
  THEN [Unlisted(p) EXCEPT !.status = "available"]
  ELSE IF Linked(p) THEN Unlisted(p) ELSE mem[p]

(* The client lets go of a connection it has disconnected.                   *)
Free(p) ==
  /\ At(p, "free")
  /\ row' = IF NoneLeft(p) THEN "available" ELSE row
  /\ mem' = [mem EXCEPT
                ![p] = [Freed(p) EXCEPT
                          !.unsaved = @ /\ ~(Linked(p) /\ NoneLeft(p)),
                          !.held = @ \ {Conn(p)}, !.linked = @ \ {Conn(p)}]]
  /\ Return(p)
  /\ UNCHANGED <<exported, mapped, plugged, recorded, devices, used, faults,
                 lost>>

FreeRaises(p) ==
  /\ At(p, "free")
  /\ NoneLeft(p)
  /\ Fault("store")
  /\ mem' = [mem EXCEPT ![p] = [Freed(p) EXCEPT
                                  !.unsaved = @ \/ Linked(p)]]
  /\ Return(p)
  /\ UNCHANGED <<exported, mapped, plugged, row, recorded, devices, used, lost>>

-----------------------------------------------------------------------------
(* Reading the store.                                                        *)

(* A new volume object; the process lets go of all it had of the old one.    *)
GetVolume(p) ==
  /\ May(p, "get")
  /\ mem' = [mem EXCEPT ![p] = [NoMemory EXCEPT !.status = row]]
  /\ UNCHANGED <<exported, mapped, plugged, row, recorded, devices, call, used,
                 faults, lost>>

(* vol.connections, loaded on the first access.                              *)
ReadConnections(p) ==
  /\ May(p, "connections")
  /\ HasVolume(p)
  /\ ~mem[p].loaded
  /\ mem' = [mem EXCEPT ![p] = Loaded(@)]
  /\ UNCHANGED <<exported, mapped, plugged, row, recorded, devices, call, used,
                 faults, lost>>

(* Connection.get_by_id: an object that has no volume object yet.            *)
GetConnection(p, c) ==
  /\ May(p, "get connection")
  /\ c \in recorded \ mem[p].linked
  /\ mem' = [mem EXCEPT ![p].held = @ \cup {c}, ![p].info = @ \cup {c},
                        ![p].device = (@ \ {c}) \cup (devices \cap {c})]
  /\ UNCHANGED <<exported, mapped, plugged, row, recorded, devices, call, used,
                 faults, lost>>

(* Volume.refresh takes over everything of a volume object read anew: the    *)
(* local attachment is forgotten, the connections are read if they were.     *)
Refresh(p) ==
  /\ May(p, "refresh")
  /\ HasVolume(p)
  /\ LET fresh == [NoMemory EXCEPT !.status = row]
     IN  mem' = [mem EXCEPT ![p] =
                   IF @.loaded THEN [Loaded(fresh) EXCEPT !.twins = recorded]
                               ELSE fresh]
  /\ UNCHANGED <<exported, mapped, plugged, row, recorded, devices, call, used,
                 faults, lost>>

(* The process dies and starts again with nothing in memory; the host stays. *)
Crash(p) ==
  /\ Fault("crash")
  /\ mem' = [mem EXCEPT ![p] = NoMemory]
  /\ Return(p)
  /\ IF Available(p) \/ (call[p].op = "cleanup" /\ call[p].pc = "withdraw")
     THEN UNCHANGED lost ELSE Loses(p)
  /\ UNCHANGED <<exported, mapped, plugged, row, recorded, devices, used>>

-----------------------------------------------------------------------------
Connecting(p) ==
  \/ Export(p) \/ ExportRaises(p) \/ SaveUpdate(p) \/ SaveUpdateRaises(p)
  \/ Initialize(p) \/ InitializeRaises(p) \/ Record(p) \/ RecordRaises(p)
  \/ MarkInUse(p) \/ MarkInUseRaises(p) \/ Unexport(p) \/ UnexportRaises(p)

Attaching(p) ==
  \/ Plug(p) \/ PlugRaises(p) \/ SaveDevice(p) \/ SaveDeviceRaises(p)
  \/ CheckPasses(p) \/ CheckFails(p)

Detaching(p) ==
  Unplug(p) \/ UnplugRaises(p) \/ Forget(p) \/ ForgetRaises(p)

Disconnecting(p) ==
  \/ Terminate(p) \/ TerminateRaises(p) \/ Unrecord(p) \/ UnrecordRaises(p)
  \/ Withdraw(p) \/ WithdrawRaises(p) \/ Free(p) \/ FreeRaises(p)

Client(p) ==
  \/ \E c \in Conns, op \in {"connect", "attach"} : StartConnect(p, op, c)
  \/ \E c \in Conns : StartPlug(p, c) \/ StartDisconnect(p, c) \/ GetConnection(p, c)
  \/ \E force, ignore \in BOOLEAN :
       \/ StartDetach(p, force, ignore)
       \/ \E c \in Conns : StartUnplug(p, c, force, ignore)
  \/ StartCleanup(p) \/ GetVolume(p) \/ ReadConnections(p) \/ Refresh(p)

Next ==
  \E p \in Procs : \/ Client(p) \/ Crash(p)
                   \/ Connecting(p) \/ Attaching(p)
                   \/ Detaching(p) \/ Disconnecting(p)

Spec == Init /\ [][Next]_vars

-----------------------------------------------------------------------------
(* Safety.                                                                   *)

Working(c, pcs) == \E p \in Procs : /\ call[p] # Idle
                                    /\ call[p].conn = c
                                    /\ call[p].pc \in pcs

(* No mapping stays on the array without a row that leads to it: connect     *)
(* saves the connection right after it was initialized, and _disconnect      *)
(* deletes the row only once it has been terminated, however the calls of    *)
(* the processes interleave.  Excepted are connections a fault left half     *)
(* done.                                                                     *)
NoLeakedMapping ==
  \A c \in mapped : c \in recorded \cup lost \/ Working(c, {"record"})

(* No export stays when nothing is connected or about to be: every error     *)
(* path of connect after the export, and every disconnect, removes it.       *)
NoLeakedExport ==
  exported => \E c \in Conns :
    \/ c \in recorded \cup lost
    \/ Working(c, Steps \ {"free", "export"})

(* A volume with a recorded connection is recorded as in use: disconnecting  *)
(* one of its connections, through the volume or through a connection that   *)
(* was read by its id, leaves it so while others are left.                   *)
ConnectedIsInUse ==
  (\E c \in recorded \ lost : ~Working(c, Steps)) => row = "in-use"

(* A device on the host is recorded in its connection's row, so that after a *)
(* crash another process can find and detach it.                             *)
NoForgottenDevice ==
  \A c \in plugged \ lost : c \in devices \cap recorded \/ Working(c, {"device"})

(* The mapping is never terminated under a device of the host.               *)
DeviceIsMapped == plugged \ lost \subseteq mapped

-----------------------------------------------------------------------------
(* What the repository says and the code does not do.                        *)

(* connections.rst:74-76: detach removes the export of the volume if there   *)
(* are no more connections to it.  In the code every disconnect does.        *)
ConnectedIsExported ==
  (\A p \in Procs : Available(p)) /\ recorded # {} => exported

=============================================================================
