-------------------------- MODULE ConnectionsProofs --------------------------
(* Theorems about Connections, for any number of processes and connections,  *)
(* any faults and any mix of client operations.                              *)
EXTENDS Connections, TLAPS

-----------------------------------------------------------------------------
(* Typing.                                                                   *)

LEMMA CallTyped ==
  ASSUME TypeOK, NEW p \in Procs, call[p] # Idle
  PROVE  /\ call[p] \in Call
         /\ Conn(p) \in Conns
  BY DEF TypeOK, Call, Conn

LEMMA AtTyped ==
  ASSUME TypeOK, NEW p \in Procs, NEW pc, At(p, pc)
  PROVE  /\ call[p] # Idle
         /\ call[p] \in Call
         /\ Conn(p) \in Conns
         /\ mem[p] \in Memory
  BY CallTyped DEF At, TypeOK

LEMMA BeginTyped ==
  ASSUME TypeOK, NEW p \in Procs,
         NEW op \in {"connect", "attach", "detach", "disconnect", "cleanup",
                     "plug", "unplug"},
         NEW pc \in Steps, NEW c \in Conns, NEW force \in BOOLEAN,
         NEW ignore \in BOOLEAN, NEW todo \in SUBSET Conns,
         Begin(p, op, pc, c, force, ignore, todo)
  PROVE  call' \in [Procs -> Call \cup {Idle}]
  BY DEF TypeOK, Begin, Call

LEMMA GoToTyped ==
  ASSUME TypeOK, NEW p \in Procs, call[p] # Idle, NEW pc \in Steps, GoTo(p, pc)
  PROVE  call' \in [Procs -> Call \cup {Idle}]
  <1>1. [call[p] EXCEPT !.pc = pc] \in Call
    BY CallTyped DEF Call
  <1>2. QED
    BY <1>1 DEF TypeOK, GoTo

LEMMA ReturnTyped ==
  ASSUME TypeOK, NEW p \in Procs, Return(p)
  PROVE  call' \in [Procs -> Call \cup {Idle}]
  BY DEF TypeOK, Return

LEMMA FaultTyped ==
  ASSUME TypeOK, NEW kind, Fault(kind)
  PROVE  faults' \in 0..MaxFaults
  BY ConnectionsAssumption DEF TypeOK, Fault

LEMMA LosesTyped ==
  ASSUME TypeOK, NEW p \in Procs, call[p] # Idle, Loses(p)
  PROVE  lost' \in SUBSET Conns
  BY CallTyped DEF TypeOK, Loses

LEMMA LoadedTyped ==
  ASSUME TypeOK, NEW m \in Memory
  PROVE  /\ Loaded(m) \in Memory
         /\ WithConnections(m) \in Memory
  <1>1. recorded \in SUBSET Conns /\ devices \in SUBSET Conns
    BY DEF TypeOK
  <1>2. Loaded(m) \in Memory
    BY <1>1 DEF Loaded, Memory, MemoryRecord
  <1>3. QED
    BY <1>2 DEF WithConnections

LEMMA ConnectedTyped ==
  ASSUME NEW m \in Memory, NEW c \in Conns
  PROVE  Connected(m, c) \in Memory
  BY DEF Connected, Memory, MemoryRecord

LEMMA MemoryTyped ==
  ASSUME TypeOK, NEW p \in Procs, NEW m \in Memory,
         mem' = [mem EXCEPT ![p] = m]
  PROVE  mem' \in [Procs -> Memory]
  BY DEF TypeOK

LEMMA NoMemoryTyped ==
  /\ NoMemory \in Memory
  /\ \A s \in {"available", "in-use"} : [NoMemory EXCEPT !.status = s] \in Memory
  BY DEF NoMemory, Memory, MemoryRecord

LEMMA StartConnectTyped ==
  ASSUME TypeOK, NEW p \in Procs, NEW op \in {"connect", "attach"},
         NEW c \in Conns, StartConnect(p, op, c)
  PROVE  TypeOK'
  <1>1. Begin(p, op, "export", c, FALSE, FALSE, {})
    BY DEF StartConnect
  <1>2. /\ op \in {"connect", "attach", "detach", "disconnect", "cleanup",
                  "plug", "unplug"}
        /\ "export" \in Steps /\ FALSE \in BOOLEAN /\ {} \in SUBSET Conns
    BY DEF Steps
  <1>3. call' \in [Procs -> Call \cup {Idle}]
    BY <1>1, <1>2, BeginTyped
  <1>4. QED
    BY <1>3 DEF StartConnect, TypeOK

LEMMA ConnectingTyped ==
  ASSUME TypeOK, NEW p \in Procs, Connecting(p)
  PROVE  TypeOK'
  <1>1. CASE Export(p)
    <2>1. call[p] # Idle
      BY <1>1 DEF Export, At
    <2>2. call' \in [Procs -> Call \cup {Idle}]
      BY <1>1, <2>1, GoToTyped DEF Export, Steps
    <2>3. QED
      BY <1>1, <2>2 DEF Export, TypeOK
  <1>2. CASE ExportRaises(p)
    <2>1. call[p] # Idle
      BY <1>2 DEF ExportRaises, At
    <2>2. lost' \in SUBSET Conns
      BY <1>2, <2>1, LosesTyped DEF ExportRaises, TypeOK
    <2>3. QED
      BY <1>2, <2>2, ReturnTyped, FaultTyped DEF ExportRaises, TypeOK
  <1>3. CASE SaveUpdate(p)
    <2>1. call[p] # Idle /\ mem[p] \in Memory
      BY <1>3 DEF SaveUpdate, At, TypeOK
    <2>2. call' \in [Procs -> Call \cup {Idle}]
      BY <1>3, <2>1, GoToTyped DEF SaveUpdate, Steps
    <2>3. [mem[p] EXCEPT !.unsaved = FALSE] \in Memory
      BY <2>1 DEF Memory, MemoryRecord
    <2>4. mem' \in [Procs -> Memory]
      BY <1>3, <2>3 DEF SaveUpdate, TypeOK
    <2>5. row' \in {"available", "in-use"}
      BY <1>3, <2>1 DEF SaveUpdate, TypeOK, Memory, MemoryRecord
    <2>6. QED
      BY <1>3, <2>2, <2>4, <2>5 DEF SaveUpdate, TypeOK
  <1>4. CASE SaveUpdateRaises(p)
    BY <1>4, LosesTyped, ReturnTyped, FaultTyped
       DEF SaveUpdateRaises, TypeOK, At
  <1>5. CASE Initialize(p)
    <2>1. call[p] # Idle /\ Conn(p) \in Conns
      BY <1>5, CallTyped DEF Initialize, At
    <2>2. call' \in [Procs -> Call \cup {Idle}]
      BY <1>5, <2>1, GoToTyped DEF Initialize, Steps
    <2>3. QED
      BY <1>5, <2>1, <2>2 DEF Initialize, TypeOK
  <1>6. CASE InitializeRaises(p)
    <2>1. call[p] # Idle /\ Conn(p) \in Conns
      BY <1>6, CallTyped DEF InitializeRaises, At
    <2>2. call' \in [Procs -> Call \cup {Idle}]
      BY <1>6, <2>1, GoToTyped DEF InitializeRaises, Steps
    <2>3. /\ mapped' \in SUBSET Conns
          /\ lost' \in SUBSET Conns
          /\ faults' \in 0..MaxFaults
      BY <1>6, <2>1, LosesTyped, FaultTyped DEF InitializeRaises, TypeOK
    <2>4. QED
      BY <1>6, <2>2, <2>3 DEF InitializeRaises, TypeOK
  <1>7. CASE Record(p)
    <2>1. call[p] # Idle /\ Conn(p) \in Conns
      BY <1>7, CallTyped DEF Record, At
    <2>2. call' \in [Procs -> Call \cup {Idle}]
      BY <1>7, <2>1, GoToTyped DEF Record, Steps
    <2>3. QED
      BY <1>7, <2>1, <2>2 DEF Record, TypeOK
  <1>8. CASE RecordRaises(p)
    <2>1. call[p] # Idle
      BY <1>8 DEF RecordRaises, At
    <2>2. call' \in [Procs -> Call \cup {Idle}]
      BY <1>8, <2>1, GoToTyped DEF RecordRaises, Steps
    <2>3. QED
      BY <1>8, <2>1, <2>2, LosesTyped, FaultTyped DEF RecordRaises, TypeOK
  <1>9. CASE MarkInUse(p)
    <2>1. call[p] # Idle /\ Conn(p) \in Conns /\ mem[p] \in Memory
      BY <1>9, CallTyped DEF MarkInUse, At, TypeOK
    <2>2. call' \in [Procs -> Call \cup {Idle}]
      BY <1>9, <2>1, GoToTyped, ReturnTyped DEF MarkInUse, Steps
    <2>3. mem' \in [Procs -> Memory]
      BY <1>9, <2>1, ConnectedTyped DEF MarkInUse, TypeOK
    <2>4. QED
      BY <1>9, <2>2, <2>3 DEF MarkInUse, TypeOK
  <1>10. CASE MarkInUseRaises(p)
    <2>1. call[p] # Idle /\ Conn(p) \in Conns /\ mem[p] \in Memory
      BY <1>10, CallTyped DEF MarkInUseRaises, At, TypeOK
    <2>2. call' \in [Procs -> Call \cup {Idle}]
      BY <1>10, <2>1, GoToTyped DEF MarkInUseRaises, Steps
    <2> DEFINE m == IF mem[p].loaded THEN Connected(mem[p], Conn(p)) ELSE mem[p]
    <2>3. m \in Memory
      BY <2>1, ConnectedTyped
    <2>4. [m EXCEPT !.status = "in-use", !.unsaved = TRUE] \in Memory
      BY <2>3 DEF Memory, MemoryRecord
    <2>5. mem' = [mem EXCEPT
                    ![p] = [m EXCEPT !.status = "in-use", !.unsaved = TRUE]]
      BY <1>10, <2>1 DEF MarkInUseRaises, TypeOK
    <2>6. mem' \in [Procs -> Memory]
      BY <2>4, <2>5, MemoryTyped
    <2>7. QED
      BY <1>10, <2>1, <2>2, <2>6, LosesTyped, FaultTyped
         DEF MarkInUseRaises, TypeOK
  <1>11. CASE Unexport(p)
    BY <1>11, ReturnTyped DEF Unexport, TypeOK
  <1>12. CASE UnexportRaises(p)
    <2>1. call[p] # Idle
      BY <1>12 DEF UnexportRaises, At
    <2>2. exported' \in BOOLEAN /\ lost' \in SUBSET Conns
      BY <1>12, <2>1, LosesTyped DEF UnexportRaises, TypeOK
    <2>3. QED
      BY <1>12, <2>2, ReturnTyped, FaultTyped DEF UnexportRaises, TypeOK
  <1>13. QED
    BY <1>1, <1>2, <1>3, <1>4, <1>5, <1>6, <1>7, <1>8, <1>9, <1>10, <1>11,
       <1>12 DEF Connecting

LEMMA AttachFailedTyped ==
  ASSUME TypeOK, NEW p \in Procs, call[p] # Idle, AttachFailed(p)
  PROVE  call' \in [Procs -> Call \cup {Idle}]
  BY GoToTyped, ReturnTyped DEF AttachFailed, Steps

LEMMA StartPlugTyped ==
  ASSUME TypeOK, NEW p \in Procs, NEW c \in Conns, StartPlug(p, c)
  PROVE  TypeOK'
  <1>1. Begin(p, "plug", "plug", c, FALSE, FALSE, {})
    BY DEF StartPlug
  <1>2. "plug" \in Steps /\ FALSE \in BOOLEAN /\ {} \in SUBSET Conns
    BY DEF Steps
  <1>3. call' \in [Procs -> Call \cup {Idle}]
    BY <1>1, <1>2, BeginTyped
  <1>4. QED
    BY <1>3 DEF StartPlug, TypeOK

LEMMA AttachingTyped ==
  ASSUME TypeOK, NEW p \in Procs, Attaching(p)
  PROVE  TypeOK'
  <1>1. CASE Plug(p)
    <2>1. call[p] # Idle /\ Conn(p) \in Conns /\ mem[p] \in Memory
      BY <1>1, CallTyped DEF Plug, At, TypeOK
    <2>2. call' \in [Procs -> Call \cup {Idle}]
      BY <1>1, <2>1, GoToTyped DEF Plug, Steps
    <2>3. [mem[p] EXCEPT !.device = @ \cup {Conn(p)}] \in Memory
      BY <2>1 DEF Memory, MemoryRecord
    <2>4. mem' \in [Procs -> Memory]
      BY <1>1, <2>3 DEF Plug, TypeOK
    <2>5. QED
      BY <1>1, <2>1, <2>2, <2>4 DEF Plug, TypeOK
  <1>2. CASE PlugRaises(p)
    <2>1. call[p] # Idle /\ Conn(p) \in Conns
      BY <1>2, CallTyped DEF PlugRaises, At
    <2>2. call' \in [Procs -> Call \cup {Idle}]
      BY <1>2, <2>1, AttachFailedTyped DEF PlugRaises
    <2>3. faults' \in 0..MaxFaults
      BY <1>2, FaultTyped DEF PlugRaises, TypeOK
    <2>4. plugged' \in SUBSET Conns /\ lost' \in SUBSET Conns
      BY <1>2, <2>1 DEF PlugRaises, Loses, TypeOK
    <2>5. QED
      BY <1>2, <2>2, <2>3, <2>4 DEF PlugRaises, TypeOK
  <1>3. CASE SaveDevice(p)
    <2>1. call[p] # Idle /\ Conn(p) \in Conns
      BY <1>3, CallTyped DEF SaveDevice, At
    <2>2. call' \in [Procs -> Call \cup {Idle}]
      BY <1>3, <2>1, GoToTyped DEF SaveDevice, Steps
    <2>3. QED
      BY <1>3, <2>1, <2>2 DEF SaveDevice, TypeOK
  <1>4. CASE SaveDeviceRaises(p)
    <2>1. call[p] # Idle
      BY <1>4 DEF SaveDeviceRaises, At
    <2>2. call' \in [Procs -> Call \cup {Idle}]
      BY <1>4, <2>1, AttachFailedTyped DEF SaveDeviceRaises
    <2>3. faults' \in 0..MaxFaults /\ lost' \in SUBSET Conns
      BY <1>4, <2>1, FaultTyped, LosesTyped DEF SaveDeviceRaises, TypeOK
    <2>4. QED
      BY <1>4, <2>2, <2>3 DEF SaveDeviceRaises, TypeOK
  <1>5. CASE CheckPasses(p)
    <2>1. Conn(p) \in Conns /\ mem[p] \in Memory
      BY <1>5, CallTyped DEF CheckPasses, At, TypeOK
    <2>2. [mem[p] EXCEPT !.local = {Conn(p)}] \in Memory
      BY <2>1 DEF Memory, MemoryRecord
    <2>3. mem' \in [Procs -> Memory]
      BY <1>5, <2>2 DEF CheckPasses, TypeOK
    <2>4. QED
      BY <1>5, <2>3, ReturnTyped DEF CheckPasses, TypeOK
  <1>6. CASE CheckFails(p)
    <2>1. call[p] \in Call
      BY <1>6, CallTyped DEF CheckFails, At
    <2>2. [call[p] EXCEPT !.pc = "unplug", !.force = TRUE, !.ignore = TRUE]
            \in Call
      BY <2>1 DEF Call, Steps
    <2>3. call' \in [Procs -> Call \cup {Idle}]
      BY <1>6, <2>2 DEF CheckFails, TypeOK
    <2>4. QED
      BY <1>6, <2>3, FaultTyped DEF CheckFails, TypeOK
  <1>7. QED
    BY <1>1, <1>2, <1>3, <1>4, <1>5, <1>6 DEF Attaching

LEMMA StartDetachTyped ==
  ASSUME TypeOK, NEW p \in Procs, NEW force \in BOOLEAN,
         NEW ignore \in BOOLEAN, StartDetach(p, force, ignore)
  PROVE  TypeOK'
  <1>1. PICK c \in mem[p].local :
          Begin(p, "detach", "unplug", c, force, ignore, {})
    BY DEF StartDetach
  <1>2. c \in Conns /\ "unplug" \in Steps /\ {} \in SUBSET Conns
    BY DEF TypeOK, Memory, MemoryRecord, Steps
  <1>3. call' \in [Procs -> Call \cup {Idle}]
    BY <1>1, <1>2, BeginTyped
  <1>4. QED
    BY <1>3 DEF StartDetach, TypeOK

LEMMA StartUnplugTyped ==
  ASSUME TypeOK, NEW p \in Procs, NEW c \in Conns, NEW force \in BOOLEAN,
         NEW ignore \in BOOLEAN, StartUnplug(p, c, force, ignore)
  PROVE  TypeOK'
  <1>1. Begin(p, "unplug", "unplug", c, force, ignore, {})
    BY DEF StartUnplug
  <1>2. "unplug" \in Steps /\ {} \in SUBSET Conns
    BY DEF Steps
  <1>3. call' \in [Procs -> Call \cup {Idle}]
    BY <1>1, <1>2, BeginTyped
  <1>4. QED
    BY <1>3 DEF StartUnplug, TypeOK

LEMMA StartCleanupTyped ==
  ASSUME TypeOK, NEW p \in Procs, StartCleanup(p)
  PROVE  TypeOK'
  <1> DEFINE all == WithConnections(mem[p]).listed
  <1>1. WithConnections(mem[p]) \in Memory
    BY LoadedTyped DEF TypeOK
  <1>2. all \subseteq Conns
    BY <1>1 DEF Memory, MemoryRecord
  <1>3. /\ "unplug" \in Steps /\ "withdraw" \in Steps /\ FALSE \in BOOLEAN
        /\ {} \in SUBSET Conns
    BY DEF Steps
  <1>4. call' \in [Procs -> Call \cup {Idle}]
    <2>1. CASE \E c \in all :
                 Begin(p, "cleanup", "unplug", c, FALSE, FALSE, all \ {c})
      <3>1. PICK c \in all :
              Begin(p, "cleanup", "unplug", c, FALSE, FALSE, all \ {c})
        BY <2>1
      <3>2. c \in Conns /\ all \ {c} \in SUBSET Conns
        BY <1>2
      <3>3. QED
        BY <1>3, <3>1, <3>2, BeginTyped
    <2>2. CASE \E c \in Conns :
                 Begin(p, "cleanup", "withdraw", c, FALSE, FALSE, {})
      BY <1>3, <2>2, BeginTyped
    <2>3. QED
      BY <2>1, <2>2 DEF StartCleanup
  <1>5. mem' \in [Procs -> Memory]
    BY <1>1 DEF StartCleanup, TypeOK
  <1>6. QED
    BY <1>4, <1>5 DEF StartCleanup, TypeOK

LEMMA DetachedTyped ==
  ASSUME TypeOK, NEW p \in Procs, call[p] # Idle,
         Detached(p) \/ DetachFailed(p)
  PROVE  call' \in [Procs -> Call \cup {Idle}]
  <1>1. call[p] \in Call
    BY CallTyped
  <1>2. "terminate" \in Steps /\ "withdraw" \in Steps
    BY DEF Steps
  <1>3. CASE Detached(p)
    <2>1. CASE /\ call[p].op = "cleanup" /\ call[p].todo # {}
               /\ \E c \in call[p].todo :
                    call' = [call EXCEPT ![p].pc = "unplug", ![p].conn = c,
                                         ![p].todo = @ \ {c}]
      <3>1. PICK c \in call[p].todo :
              call' = [call EXCEPT ![p].pc = "unplug", ![p].conn = c,
                                   ![p].todo = @ \ {c}]
        BY <2>1
      <3>2. [call[p] EXCEPT !.pc = "unplug", !.conn = c, !.todo = @ \ {c}]
              \in Call
        BY <1>1 DEF Call, Steps
      <3>3. QED
        BY <3>1, <3>2 DEF TypeOK
    <2>2. CASE GoTo(p, "terminate") \/ GoTo(p, "withdraw") \/ Return(p)
      BY <1>2, <2>2, GoToTyped, ReturnTyped
    <2>3. QED
      BY <1>3, <2>1, <2>2 DEF Detached
  <1>4. CASE DetachFailed(p)
    BY <1>2, <1>4, GoToTyped, ReturnTyped DEF DetachFailed
  <1>5. QED
    BY <1>3, <1>4

LEMMA ForgottenTyped ==
  ASSUME TypeOK, NEW p \in Procs, mem' = Forgotten(p)
  PROVE  mem' \in [Procs -> Memory]
  <1>1. mem[p] \in Memory
    BY DEF TypeOK
  <1>2. [mem[p] EXCEPT !.device = @ \ {Conn(p)},
                       !.local = IF Conn(p) \in mem[p].linked \ mem[p].twins
                                 THEN {} ELSE @] \in Memory
    BY <1>1 DEF Memory, MemoryRecord
  <1>3. QED
    BY <1>2 DEF Forgotten, TypeOK

LEMMA DetachingTyped ==
  ASSUME TypeOK, NEW p \in Procs, Detaching(p)
  PROVE  TypeOK'
  <1>1. CASE Unplug(p)
    <2>1. call[p] # Idle
      BY <1>1 DEF Unplug, At
    <2>2. call' \in [Procs -> Call \cup {Idle}]
      BY <1>1, <2>1, GoToTyped DEF Unplug, Steps
    <2>3. QED
      BY <1>1, <2>2 DEF Unplug, TypeOK
  <1>2. CASE UnplugRaises(p)
    <2>1. call[p] # Idle
      BY <1>2 DEF UnplugRaises, At
    <2>2. call' \in [Procs -> Call \cup {Idle}]
      BY <1>2, <2>1, GoToTyped, DetachedTyped DEF UnplugRaises, Steps
    <2>3. faults' \in 0..MaxFaults /\ lost' \in SUBSET Conns
      BY <1>2, <2>1, FaultTyped, LosesTyped DEF UnplugRaises, TypeOK
    <2>4. QED
      BY <1>2, <2>2, <2>3 DEF UnplugRaises, TypeOK
  <1>3. CASE Forget(p)
    <2>1. call[p] # Idle
      BY <1>3 DEF Forget, At
    <2>2. call' \in [Procs -> Call \cup {Idle}]
      BY <1>3, <2>1, DetachedTyped DEF Forget
    <2>3. QED
      BY <1>3, <2>2, ForgottenTyped DEF Forget, TypeOK
  <1>4. CASE ForgetRaises(p)
    <2>1. call[p] # Idle
      BY <1>4 DEF ForgetRaises, At
    <2>2. call' \in [Procs -> Call \cup {Idle}]
      BY <1>4, <2>1, DetachedTyped DEF ForgetRaises
    <2>3. faults' \in 0..MaxFaults
      BY <1>4, FaultTyped DEF ForgetRaises, TypeOK
    <2>4. QED
      BY <1>4, <2>2, <2>3, ForgottenTyped DEF ForgetRaises, TypeOK
  <1>5. QED
    BY <1>1, <1>2, <1>3, <1>4 DEF Detaching

LEMMA StartDisconnectTyped ==
  ASSUME TypeOK, NEW p \in Procs, NEW c \in Conns, StartDisconnect(p, c)
  PROVE  TypeOK'
  <1>1. Begin(p, "disconnect", "terminate", c, FALSE, FALSE, {})
    BY DEF StartDisconnect
  <1>2. "terminate" \in Steps /\ FALSE \in BOOLEAN /\ {} \in SUBSET Conns
    BY DEF Steps
  <1>3. call' \in [Procs -> Call \cup {Idle}]
    BY <1>1, <1>2, BeginTyped
  <1>4. QED
    BY <1>3 DEF StartDisconnect, TypeOK

LEMMA TerminatedTyped ==
  ASSUME TypeOK, NEW p \in Procs, Terminated(p)
  PROVE  mapped' \in SUBSET Conns /\ lost' \in SUBSET Conns
  BY DEF TypeOK, Terminated

LEMMA FreedTyped ==
  ASSUME TypeOK, NEW p \in Procs
  PROVE  /\ Freed(p) \in Memory
         /\ Linked(p) /\ NoneLeft(p) => Freed(p).status = "available"
  <1>1. mem[p] \in Memory
    BY DEF TypeOK
  <1>2. [mem[p] EXCEPT !.listed = @ \ {Conn(p)}] \in Memory
    BY <1>1 DEF Memory, MemoryRecord
  <1>3. Unlisted(p) \in Memory
    BY <1>2, LoadedTyped DEF Unlisted
  <1>4. /\ [Unlisted(p) EXCEPT !.status = "available"] \in Memory
        /\ [Unlisted(p) EXCEPT !.status = "available"].status = "available"
    BY <1>3 DEF Memory, MemoryRecord
  <1>5. QED
    BY <1>1, <1>3, <1>4 DEF Freed

LEMMA DisconnectingTyped ==
  ASSUME TypeOK, NEW p \in Procs, Disconnecting(p)
  PROVE  TypeOK'
  <1>1. CASE Terminate(p)
    <2>1. call[p] # Idle /\ mem[p] \in Memory
      BY <1>1 DEF Terminate, At, TypeOK
    <2>2. call' \in [Procs -> Call \cup {Idle}]
      BY <1>1, <2>1, GoToTyped DEF Terminate, Steps
    <2>3. [mem[p] EXCEPT !.info = @ \ {Conn(p)}, !.device = @ \ {Conn(p)}]
            \in Memory
      BY <2>1 DEF Memory, MemoryRecord
    <2>4. mem' \in [Procs -> Memory]
      BY <1>1, <2>3 DEF Terminate, TypeOK
    <2>5. QED
      BY <1>1, <2>2, <2>4, TerminatedTyped DEF Terminate, TypeOK
  <1>2. CASE TerminateRaises(p)
    <2>1. mapped' \in SUBSET Conns /\ lost' \in SUBSET Conns
      BY <1>2, TerminatedTyped DEF TerminateRaises, TypeOK
    <2>2. QED
      BY <1>2, <2>1, ReturnTyped, FaultTyped DEF TerminateRaises, TypeOK
  <1>3. CASE Unrecord(p)
    <2>1. call[p] # Idle
      BY <1>3 DEF Unrecord, At
    <2>2. call' \in [Procs -> Call \cup {Idle}]
      BY <1>3, <2>1, GoToTyped DEF Unrecord, Steps
    <2>3. QED
      BY <1>3, <2>2 DEF Unrecord, TypeOK
  <1>4. CASE UnrecordRaises(p)
    BY <1>4, ReturnTyped, FaultTyped DEF UnrecordRaises, TypeOK
  <1>5. CASE Withdraw(p)
    <2>1. call[p] # Idle
      BY <1>5 DEF Withdraw, At
    <2>2. call' \in [Procs -> Call \cup {Idle}]
      BY <1>5, <2>1, GoToTyped, ReturnTyped DEF Withdraw, Steps
    <2>3. QED
      BY <1>5, <2>2 DEF Withdraw, TypeOK
  <1>6. CASE WithdrawRaises(p)
    <2>1. call[p] # Idle
      BY <1>6 DEF WithdrawRaises, At
    <2>2. exported' \in BOOLEAN /\ lost' \in SUBSET Conns
      BY <1>6, <2>1, LosesTyped DEF WithdrawRaises, TypeOK
    <2>3. QED
      BY <1>6, <2>2, ReturnTyped, FaultTyped DEF WithdrawRaises, TypeOK
  <1>7. CASE Free(p)
    <2>1. Freed(p) \in Memory
      BY FreedTyped
    <2>2. [Freed(p) EXCEPT !.unsaved = @ /\ ~(Linked(p) /\ NoneLeft(p)),
                           !.held = @ \ {Conn(p)},
                           !.linked = @ \ {Conn(p)}] \in Memory
      BY <2>1 DEF Memory, MemoryRecord
    <2>3. mem' \in [Procs -> Memory]
      BY <1>7, <2>2 DEF Free, TypeOK
    <2>4. QED
      BY <1>7, <2>3, ReturnTyped DEF Free, TypeOK
  <1>8. CASE FreeRaises(p)
    <2>1. Freed(p) \in Memory /\ (Linked(p) => Freed(p).status = "available")
      BY <1>8, FreedTyped DEF FreeRaises
    <2>2. Linked(p) \in BOOLEAN
      BY DEF Linked
    <2>3. [Freed(p) EXCEPT !.unsaved = @ \/ Linked(p)] \in Memory
      BY <2>1, <2>2 DEF Memory, MemoryRecord
    <2>4. mem' \in [Procs -> Memory]
      BY <1>8, <2>3 DEF FreeRaises, TypeOK
    <2>5. QED
      BY <1>8, <2>4, ReturnTyped, FaultTyped DEF FreeRaises, TypeOK
  <1>9. QED
    BY <1>1, <1>2, <1>3, <1>4, <1>5, <1>6, <1>7, <1>8 DEF Disconnecting

LEMMA ReadingTyped ==
  ASSUME TypeOK, NEW p \in Procs,
         \/ GetVolume(p) \/ ReadConnections(p) \/ Refresh(p)
         \/ \E c \in Conns : GetConnection(p, c)
  PROVE  TypeOK'
  <1>1. mem[p] \in Memory
    BY DEF TypeOK
  <1>2. [NoMemory EXCEPT !.status = row] \in Memory
    BY NoMemoryTyped DEF TypeOK
  <1>3. CASE GetVolume(p)
    BY <1>2, <1>3 DEF GetVolume, TypeOK
  <1>4. CASE ReadConnections(p)
    BY <1>1, <1>4, LoadedTyped DEF ReadConnections, TypeOK
  <1>5. CASE Refresh(p)
    <2> DEFINE fresh == [NoMemory EXCEPT !.status = row]
    <2>1. Loaded(fresh) \in Memory
      BY <1>2, LoadedTyped
    <2>2. [Loaded(fresh) EXCEPT !.twins = recorded] \in Memory
      BY <2>1 DEF Memory, MemoryRecord, TypeOK
    <2>3. QED
      BY <1>2, <1>5, <2>2 DEF Refresh, TypeOK
  <1>6. CASE \E c \in Conns : GetConnection(p, c)
    <2>1. PICK c \in Conns : GetConnection(p, c)
      BY <1>6
    <2>2. [mem[p] EXCEPT !.held = @ \cup {c}, !.info = @ \cup {c},
                         !.device = (@ \ {c}) \cup (devices \cap {c})]
            \in Memory
      BY <1>1 DEF Memory, MemoryRecord
    <2>3. QED
      BY <2>1, <2>2 DEF GetConnection, TypeOK
  <1>7. QED
    BY <1>3, <1>4, <1>5, <1>6

LEMMA CrashTyped ==
  ASSUME TypeOK, NEW p \in Procs, Crash(p)
  PROVE  TypeOK'
  <1>1. lost' \in SUBSET Conns
    BY LosesTyped DEF Crash, Available, TypeOK
  <1>2. mem' \in [Procs -> Memory]
    BY NoMemoryTyped DEF Crash, TypeOK
  <1>3. QED
    BY <1>1, <1>2, FaultTyped, ReturnTyped DEF Crash, TypeOK

LEMMA InitTyped == Init => TypeOK
  <1>1. NoMemory \in Memory
    BY NoMemoryTyped
  <1>2. 0 \in 0..MaxFaults
    BY ConnectionsAssumption
  <1>3. QED
    BY <1>1, <1>2 DEF Init, TypeOK

LEMMA NextTyped ==
  ASSUME TypeOK, [Next]_vars
  PROVE  TypeOK'
  <1>1. ASSUME NEW p \in Procs, Client(p)
        PROVE  TypeOK'
    <2>1. ASSUME NEW c \in Conns, NEW op \in {"connect", "attach"},
                 StartConnect(p, op, c)
          PROVE  TypeOK'
      BY <2>1, StartConnectTyped
    <2>2. ASSUME NEW c \in Conns, StartPlug(p, c) \/ StartDisconnect(p, c)
          PROVE  TypeOK'
      BY <2>2, StartPlugTyped, StartDisconnectTyped
    <2>3. ASSUME NEW force \in BOOLEAN, NEW ignore \in BOOLEAN,
                 \/ StartDetach(p, force, ignore)
                 \/ \E c \in Conns : StartUnplug(p, c, force, ignore)
          PROVE  TypeOK'
      BY <2>3, StartDetachTyped, StartUnplugTyped
    <2>4. QED
      BY <1>1, <2>1, <2>2, <2>3, StartCleanupTyped, ReadingTyped DEF Client
  <1>2. CASE UNCHANGED vars
    BY <1>2 DEF TypeOK, vars
  <1>3. QED
    BY <1>1, <1>2, ConnectingTyped, AttachingTyped, DetachingTyped,
       DisconnectingTyped, CrashTyped DEF Next

(* Every reachable state is typed: whatever raises, however the calls of the *)
(* processes overlap, the volume's row and its objects keep a status the     *)
(* code could interpret, and only a change made to a volume object is ever   *)
(* waiting to be saved.                                                      *)
THEOREM ConnectionsTyping == Spec => []TypeOK
  <1>1. QED
    BY InitTyped, NextTyped, PTL DEF Spec

-----------------------------------------------------------------------------
(* What connect and disconnect leave on the array: no mapping without a row  *)
(* and no export without a connection, for any number of processes whose     *)
(* calls interleave at will.                                                 *)

-----------------------------------------------------------------------------
(* The inductive invariant.                                                  *)

EarlyPcs == {"export", "update", "initialize", "record"}
LatePcs == {"plug", "device", "check", "unplug", "forget", "terminate"}
Busy(p, pcs) == call[p] # Idle /\ call[p].pc \in pcs

(* A cleanup that has come to its last step works on no connection any more. *)
Idling(p) ==
  call[p] = Idle \/ (call[p].op = "cleanup" /\ call[p].pc = "withdraw")

(* The connections a process knows of, through its objects, through the call *)
(* it executes, and those the call may still detach or disconnect.           *)
HeldOf(m) == m.held \cup m.listed \cup m.local
Held(p) == HeldOf(mem[p])
Carried(p) == IF Idling(p) THEN {} ELSE {call[p].conn} \cup call[p].todo
Reached(p) == Held(p) \cup (IF Busy(p, LatePcs) THEN Carried(p) ELSE {})

(* Mappings that must have a row: no fault left their connection half done.  *)
Live == mapped \ lost

Shape(p) ==
  call[p] # Idle =>
    IF call[p].op = "cleanup"
    THEN call[p].pc \in {"unplug", "forget", "withdraw"}
    ELSE call[p].todo = {}

(* Whatever anyone knows of has been drawn, so that an id that is drawn now  *)
(* is nobody else's.                                                         *)
Drawn ==
  /\ recorded \subseteq used
  /\ \A p \in Procs : Held(p) \cup Carried(p) \subseteq used

(* Until its row is written, a connection is known to its own call only.     *)
Fresh(p) ==
  Busy(p, EarlyPcs) =>
    /\ Conn(p) \notin recorded
    /\ \A q \in Procs : /\ Conn(p) \notin Held(q)
                        /\ q # p => Conn(p) \notin Carried(q)

(* A connection without its connection_info has been terminated.             *)
Informed(p) == (Reached(p) \ mem[p].info) \cap Live = {}

(* The row is deleted after the mapping.                                     *)
Terminates(p) == Busy(p, {"unrecord"}) => Conn(p) \notin Live

MappingInv ==
  /\ Drawn
  /\ \A p \in Procs : Shape(p) /\ Fresh(p) /\ Informed(p) /\ Terminates(p)
  /\ NoLeakedMapping

-----------------------------------------------------------------------------
(* A step of p that neither draws a connection nor maps or records one: all  *)
(* but the first step of connect, Initialize and Record are quiet.           *)

QuietStore ==
  /\ used' = used
  /\ recorded' \subseteq recorded
  /\ Live' \subseteq Live
  /\ recorded \cap Live' \subseteq recorded'

QuietCall(p) ==
  /\ \A q \in Procs \ {p} : mem'[q] = mem[q] /\ call'[q] = call[q]
  /\ Held(p)' \cup Carried(p)' \subseteq Held(p) \cup Carried(p) \cup recorded
  /\ Busy(p, EarlyPcs)' =>
       Held(p)' = Held(p) /\ Busy(p, EarlyPcs) /\ Conn(p)' = Conn(p)
  /\ (Reached(p)' \ mem'[p].info) \cap Live' \subseteq Reached(p) \ mem[p].info
  /\ Shape(p)' /\ Terminates(p)'
  /\ Busy(p, {"record"}) => Conn(p) \notin Live'

LEMMA QuietKeeps ==
  ASSUME MappingInv, NEW p \in Procs, QuietStore, QuietCall(p)
  PROVE  MappingInv'
  <1>1. \A q \in Procs \ {p} : /\ Held(q)' = Held(q) /\ Carried(q)' = Carried(q)
                               /\ Reached(q)' = Reached(q) /\ Conn(q)' = Conn(q)
                               /\ \A pcs : Busy(q, pcs)' = Busy(q, pcs)
    BY DEF QuietCall, Held, Carried, Reached, Conn, Busy, Idling
  <1>2. Drawn'
    BY <1>1 DEF MappingInv, Drawn, QuietStore, QuietCall
  <1>3. ASSUME NEW q \in Procs, q # p
        PROVE  Shape(q)' /\ Fresh(q)' /\ Informed(q)' /\ Terminates(q)'
    <2>1. Shape(q)'
      BY <1>3 DEF MappingInv, QuietCall, Shape
    <2>2. Fresh(q)'
      <3> SUFFICES ASSUME Busy(q, EarlyPcs)
                   PROVE  /\ Conn(q) \notin recorded'
                          /\ \A r \in Procs : /\ Conn(q) \notin Held(r)'
                                              /\ r # q => Conn(q) \notin Carried(r)'
        BY <1>1, <1>3 DEF Fresh
      <3>1. /\ Conn(q) \notin recorded
            /\ \A r \in Procs : /\ Conn(q) \notin Held(r)
                                /\ r # q => Conn(q) \notin Carried(r)
        BY DEF MappingInv, Fresh
      <3>2. Conn(q) \notin Held(p)' \cup Carried(p)'
        BY <1>3, <3>1 DEF QuietCall
      <3>3. QED
        BY <1>1, <3>1, <3>2 DEF QuietStore
    <2>3. Informed(q)'
      BY <1>1, <1>3 DEF MappingInv, Informed, QuietStore, QuietCall
    <2>4. Terminates(q)'
      BY <1>1, <1>3 DEF MappingInv, Terminates, QuietStore
    <2>5. QED
      BY <2>1, <2>2, <2>3, <2>4
  <1>4. Fresh(p)' /\ Informed(p)'
    <2>1. Fresh(p)'
      <3> SUFFICES ASSUME Busy(p, EarlyPcs)'
                   PROVE  /\ Conn(p)' \notin recorded'
                          /\ \A r \in Procs :
                               /\ Conn(p)' \notin Held(r)'
                               /\ r # p => Conn(p)' \notin Carried(r)'
        BY DEF Fresh
      <3>1. /\ Conn(p)' = Conn(p) /\ Held(p)' = Held(p)
            /\ Conn(p) \notin recorded
            /\ \A r \in Procs : /\ Conn(p) \notin Held(r)
                                /\ r # p => Conn(p) \notin Carried(r)
        BY DEF MappingInv, Fresh, QuietCall
      <3>2. QED
        BY <1>1, <3>1 DEF QuietStore
    <2>2. Informed(p)'
      BY DEF MappingInv, Informed, QuietStore, QuietCall
    <2>3. QED
      BY <2>1, <2>2
  <1>5. NoLeakedMapping'
    <2> SUFFICES ASSUME NEW c \in mapped', c \notin lost'
                 PROVE  c \in recorded' \/ Working(c, {"record"})'
      BY DEF NoLeakedMapping
    <2>1. c \in Live' /\ c \in Live
      BY DEF Live, QuietStore
    <2>2. CASE c \in recorded
      BY <2>1, <2>2 DEF QuietStore
    <2>3. CASE Working(c, {"record"})
      <3>1. PICK q \in Procs : call[q] # Idle /\ call[q].conn = c
                               /\ call[q].pc \in {"record"}
        BY <2>3 DEF Working
      <3>2. q # p
        BY <2>1, <3>1 DEF QuietCall, Busy, Conn
      <3>3. QED
        BY <3>1, <3>2 DEF QuietCall, Working
    <2>4. QED
      BY <2>1, <2>2, <2>3 DEF MappingInv, NoLeakedMapping, Live
  <1>6. QED
    BY <1>2, <1>3, <1>4, <1>5 DEF MappingInv, QuietCall

(* What a quiet step does to the objects of p: nothing appears that was not  *)
(* known or recorded, and what is there without its connection_info was so.  *)
QuietMemory(p, m) ==
  /\ mem' = [mem EXCEPT ![p] = m]
  /\ HeldOf(m) \subseteq Held(p) \cup Carried(p) \cup recorded
  /\ (HeldOf(m) \ m.info) \cap Live' \subseteq Reached(p) \ mem[p].info

LEMMA SameMemory ==
  ASSUME TypeOK, NEW p \in Procs, UNCHANGED mem
  PROVE  QuietMemory(p, mem[p])
  BY DEF TypeOK, QuietMemory, Held, Reached

LEMMA SameStore ==
  ASSUME UNCHANGED <<used, recorded, mapped>>, lost \subseteq lost'
  PROVE  QuietStore
  BY DEF QuietStore, Live

(* The call of p returns.                                                    *)
LEMMA QuietReturn ==
  ASSUME TypeOK, NEW p \in Procs, NEW m \in Memory, QuietMemory(p, m),
         Return(p), Busy(p, {"record"}) => Conn(p) \notin Live'
  PROVE  QuietCall(p)
  <1>1. call'[p] = Idle /\ mem'[p] = m
    BY DEF TypeOK, Return, QuietMemory
  <1>2. \A q \in Procs \ {p} : mem'[q] = mem[q] /\ call'[q] = call[q]
    BY DEF TypeOK, Return, QuietMemory
  <1>3. Held(p)' = HeldOf(m) /\ Carried(p)' = {} /\ Reached(p)' = HeldOf(m)
    BY <1>1 DEF Held, Carried, Reached, Idling, Busy
  <1>4. \A pcs : ~Busy(p, pcs)'
    BY <1>1 DEF Busy
  <1>5. Shape(p)' /\ Terminates(p)'
    BY <1>1, <1>4 DEF Shape, Terminates
  <1>6. QED
    BY <1>1, <1>2, <1>3, <1>4, <1>5 DEF QuietCall, QuietMemory

(* The call of p goes on.                                                    *)
LEMMA QuietGoTo ==
  ASSUME TypeOK, NEW p \in Procs, ~Idling(p), Shape(p),
         NEW m \in Memory, QuietMemory(p, m),
         NEW pc \in Steps, GoTo(p, pc),
         pc \in EarlyPcs => HeldOf(m) = Held(p) /\ call[p].pc \in EarlyPcs,
         pc \in LatePcs =>
           (Carried(p) \ m.info) \cap Live' \subseteq Reached(p) \ mem[p].info,
         pc = "unrecord" => Conn(p) \notin Live',
         Busy(p, {"record"}) => Conn(p) \notin Live',
         call[p].op = "cleanup" => pc \in {"unplug", "forget", "withdraw"}
  PROVE  QuietCall(p)
  <1>1. call[p] # Idle /\ call[p] \in Call
    BY CallTyped DEF Idling
  <1>2. call'[p] = [call[p] EXCEPT !.pc = pc] /\ mem'[p] = m
    BY DEF TypeOK, GoTo, QuietMemory
  <1>3. /\ call'[p] # Idle /\ call'[p].pc = pc /\ call'[p].op = call[p].op
        /\ call'[p].conn = call[p].conn /\ call'[p].todo = call[p].todo
    <2>1. call'[p] \in Call
      BY <1>1, <1>2 DEF Call
    <2>2. call'[p].op # "idle"
      BY <2>1 DEF Call
    <2>3. QED
      BY <1>1, <1>2, <2>2 DEF Call, Idle
  <1>4. \A q \in Procs \ {p} : mem'[q] = mem[q] /\ call'[q] = call[q]
    BY DEF TypeOK, GoTo, QuietMemory
  <1>5. /\ Held(p)' = HeldOf(m) /\ Carried(p)' \subseteq Carried(p)
        /\ Conn(p)' = Conn(p)
        /\ \A pcs : Busy(p, pcs)' = (pc \in pcs)
    BY <1>2, <1>3 DEF Held, Carried, Idling, Conn, Busy
  <1>6. /\ Held(p)' \cup Carried(p)' \subseteq Held(p) \cup Carried(p) \cup recorded
        /\ Busy(p, EarlyPcs)' =>
             Held(p)' = Held(p) /\ Busy(p, EarlyPcs) /\ Conn(p)' = Conn(p)
    BY <1>1, <1>5 DEF QuietMemory, Busy
  <1>7. (Reached(p)' \ mem'[p].info) \cap Live' \subseteq Reached(p) \ mem[p].info
    <2>1. CASE pc \in LatePcs
      BY <1>2, <1>5, <2>1 DEF QuietMemory, Reached
    <2>2. CASE pc \notin LatePcs
      BY <1>2, <1>5, <2>2 DEF QuietMemory, Reached
    <2>3. QED
      BY <2>1, <2>2
  <1>8. Shape(p)' /\ Terminates(p)'
    BY <1>1, <1>3, <1>5 DEF Shape, Terminates
  <1>9. QED
    BY <1>4, <1>6, <1>7, <1>8 DEF QuietCall

-----------------------------------------------------------------------------
(* The steps of connect.                                                     *)

LEMMA AtFacts ==
  ASSUME TypeOK, MappingInv, NEW p \in Procs, NEW pc, At(p, pc)
  PROVE  /\ call[p] \in Call /\ Conn(p) \in Conns /\ mem[p] \in Memory
         /\ call[p] # Idle /\ call[p].pc = pc
         /\ Shape(p) /\ Fresh(p) /\ Informed(p) /\ Terminates(p)
         /\ pc # "withdraw" => ~Idling(p) /\ Conn(p) \in Carried(p)
         /\ pc \notin {"unplug", "forget", "withdraw"} =>
              ~Idling(p) /\ call[p].op # "cleanup" /\ Carried(p) = {Conn(p)}
  <1>1. /\ call[p] \in Call /\ Conn(p) \in Conns /\ mem[p] \in Memory
        /\ call[p] # Idle /\ call[p].pc = pc
    BY AtTyped DEF At
  <1>2. Shape(p) /\ Fresh(p) /\ Informed(p) /\ Terminates(p)
    BY DEF MappingInv
  <1>3. pc # "withdraw" => ~Idling(p) /\ Conn(p) \in Carried(p)
    BY <1>1 DEF Idling, Carried, Conn
  <1>4. pc \notin {"unplug", "forget", "withdraw"} =>
          ~Idling(p) /\ call[p].op # "cleanup" /\ Carried(p) = {Conn(p)}
    BY <1>1, <1>2 DEF Shape, Idling, Carried, Conn
  <1>5. QED
    BY <1>1, <1>2, <1>3, <1>4

(* A step that changes nothing but the array's export, the row's status, a   *)
(* device, and goes on within the same half of the call or returns.          *)
LEMMA GoOnKeeps ==
  ASSUME TypeOK, MappingInv, NEW p \in Procs, NEW from, At(p, from),
         UNCHANGED <<mem, used>>, QuietStore,
         NEW pc \in Steps, GoTo(p, pc),
         from \notin {"withdraw"},
         pc \in EarlyPcs => from \in EarlyPcs,
         pc \in LatePcs => from \in LatePcs,
         pc = "unrecord" => Conn(p) \notin Live',
         from = "record" => Conn(p) \notin Live',
         call[p].op = "cleanup" => pc \in {"unplug", "forget", "withdraw"}
  PROVE  MappingInv'
  <1>1. /\ mem[p] \in Memory /\ call[p].pc = from /\ call[p] # Idle
        /\ ~Idling(p) /\ Shape(p)
    BY AtFacts
  <1>2. QuietMemory(p, mem[p])
    BY SameMemory
  <1>3. pc \in EarlyPcs => HeldOf(mem[p]) = Held(p) /\ call[p].pc \in EarlyPcs
    BY <1>1 DEF Held
  <1>4. pc \in LatePcs =>
          (Carried(p) \ mem[p].info) \cap Live' \subseteq Reached(p) \ mem[p].info
    BY <1>1 DEF Reached, Busy
  <1>5. Busy(p, {"record"}) => Conn(p) \notin Live'
    BY <1>1 DEF Busy
  <1>6. QuietCall(p)
    BY <1>1, <1>2, <1>3, <1>4, <1>5, QuietGoTo
  <1>7. QED
    BY <1>6, QuietKeeps

LEMMA ReturnKeeps ==
  ASSUME TypeOK, MappingInv, NEW p \in Procs, UNCHANGED <<mem, used>>,
         QuietStore, Return(p), ~Busy(p, {"record"})
  PROVE  MappingInv'
  <1>1. mem[p] \in Memory
    BY DEF TypeOK
  <1>2. QuietCall(p)
    BY <1>1, SameMemory, QuietReturn
  <1>3. QED
    BY <1>2, QuietKeeps

LEMMA ExportKeeps ==
  ASSUME TypeOK, MappingInv, NEW p \in Procs, Export(p)
  PROVE  MappingInv'
  <1>1. At(p, "export") /\ call[p].op # "cleanup"
    BY AtFacts DEF Export
  <1>2. QuietStore
    BY SameStore DEF Export
  <1>3. \A pc \in {"update", "initialize"} : GoTo(p, pc) => MappingInv'
    BY <1>1, <1>2, GoOnKeeps DEF Export, Steps, EarlyPcs, LatePcs
  <1>4. QED
    BY <1>3 DEF Export

LEMMA SaveUpdateKeeps ==
  ASSUME TypeOK, MappingInv, NEW p \in Procs, SaveUpdate(p)
  PROVE  MappingInv'
  <1> DEFINE m == [mem[p] EXCEPT !.unsaved = FALSE]
  <1>1. At(p, "update") /\ mem[p] \in Memory /\ ~Idling(p) /\ Shape(p)
        /\ call[p].op # "cleanup" /\ call[p].pc = "update"
    BY AtFacts DEF SaveUpdate
  <1>2. m \in Memory /\ HeldOf(m) = Held(p) /\ m.info = mem[p].info
    BY <1>1 DEF Memory, MemoryRecord, HeldOf, Held
  <1>3. QuietMemory(p, m)
    BY <1>2 DEF QuietMemory, SaveUpdate, TypeOK, Reached
  <1>4. QuietStore
    BY SameStore DEF SaveUpdate
  <1>5. GoTo(p, "initialize") /\ "initialize" \in Steps
    BY DEF SaveUpdate, Steps
  <1>6. ~Busy(p, {"record"})
    BY <1>1 DEF Busy
  <1>7. QuietCall(p)
    BY <1>1, <1>2, <1>3, <1>5, <1>6, QuietGoTo DEF EarlyPcs, LatePcs
  <1>8. QED
    BY <1>4, <1>7, QuietKeeps

LEMMA ConnectRaisesKeeps ==
  ASSUME TypeOK, MappingInv, NEW p \in Procs,
         ExportRaises(p) \/ SaveUpdateRaises(p) \/ Unexport(p)
           \/ UnexportRaises(p)
  PROVE  MappingInv'
  <1>1. Return(p) /\ UNCHANGED <<mem, used, recorded, mapped>>
        /\ lost \subseteq lost' /\ ~Busy(p, {"record"})
    BY DEF ExportRaises, SaveUpdateRaises, Unexport, UnexportRaises, Loses,
           Busy, At
  <1>2. QED
    BY <1>1, SameStore, ReturnKeeps

(* The mapping of a connection nobody else knows of.                         *)
LEMMA MapsOwnKeeps ==
  ASSUME TypeOK, MappingInv, NEW p \in Procs, At(p, "initialize"),
         UNCHANGED <<mem, used, recorded>>, lost \subseteq lost',
         mapped' = mapped \cup {Conn(p)},
         \/ GoTo(p, "record")
         \/ GoTo(p, "unexport") /\ Conn(p) \in lost'
  PROVE  MappingInv'
  <1>1. /\ call[p] \in Call /\ call[p] # Idle /\ call[p].pc = "initialize"
        /\ call[p].op # "cleanup" /\ call[p].todo = {} /\ Fresh(p)
        /\ Carried(p) = {Conn(p)}
    BY AtFacts DEF Shape
  <1>2. /\ call'[p] # Idle /\ call'[p].pc \in {"record", "unexport"}
        /\ (call'[p].pc = "unexport" => Conn(p) \in lost')
        /\ call'[p].op # "cleanup" /\ call'[p].todo = {}
        /\ call'[p].conn = Conn(p)
    <2>1. ASSUME NEW pc \in {"record", "unexport"}, GoTo(p, pc)
          PROVE  /\ call'[p] # Idle /\ call'[p].pc = pc
                 /\ call'[p].op # "cleanup" /\ call'[p].todo = {}
                 /\ call'[p].conn = Conn(p)
      <3>1. call'[p] = [call[p] EXCEPT !.pc = pc]
        BY <2>1 DEF GoTo, TypeOK
      <3>2. call'[p].op # "idle"
        BY <1>1, <3>1 DEF Call
      <3>3. QED
        BY <1>1, <3>1, <3>2 DEF Call, Idle, Conn
    <2>2. QED
      BY <2>1
  <1>3. \A q \in Procs \ {p} : call'[q] = call[q]
    BY DEF GoTo, TypeOK
  <1>4. Live' \subseteq Live \cup {Conn(p)}
    BY DEF Live
  <1>5. /\ Conn(p) \notin recorded
        /\ \A q \in Procs : /\ Conn(p) \notin Held(q)
                            /\ q # p => Conn(p) \notin Carried(q)
    BY <1>1 DEF Fresh, Busy, EarlyPcs
  <1>6. /\ \A q \in Procs : Held(q)' = Held(q) /\ Carried(q)' = Carried(q)
                            /\ Conn(q)' = Conn(q)
        /\ \A q \in Procs \ {p} : \A pcs : Busy(q, pcs)' = Busy(q, pcs)
        /\ \A pcs : Busy(p, pcs)' = (call'[p].pc \in pcs)
    BY <1>1, <1>2, <1>3 DEF Held, Carried, Idling, Conn, Busy
  <1>7. Drawn'
    BY <1>6 DEF MappingInv, Drawn
  <1>8. ASSUME NEW q \in Procs
        PROVE  Shape(q)' /\ Fresh(q)' /\ Informed(q)' /\ Terminates(q)'
    <2>1. Shape(q)'
      BY <1>2, <1>3 DEF MappingInv, Shape
    <2>2. Fresh(q)'
      <3>1. Busy(q, EarlyPcs)' => Busy(q, EarlyPcs)
        BY <1>1, <1>6 DEF Busy, EarlyPcs
      <3>2. QED
        BY <1>6, <3>1 DEF MappingInv, Fresh
    <2>3. Informed(q)'
      <3>1. Reached(q)' \subseteq Reached(q)
        <4>1. Held(q)' = Held(q) /\ Carried(q)' = Carried(q)
          BY <1>6
        <4>2. Busy(q, LatePcs)' => Busy(q, LatePcs)
          <5>1. CASE q = p
            BY <1>2, <5>1 DEF Busy, LatePcs
          <5>2. CASE q # p
            BY <1>3, <5>2 DEF Busy
          <5>3. QED
            BY <5>1, <5>2
        <4>3. QED
          BY <4>1, <4>2 DEF Reached
      <3>2. Conn(p) \notin Reached(q)
        <4>1. CASE q = p
          BY <1>1, <1>5, <4>1 DEF Reached, Busy, LatePcs
        <4>2. CASE q # p
          BY <1>5, <4>2 DEF Reached
        <4>3. QED
          BY <4>1, <4>2
      <3>3. QED
        BY <1>4, <3>1, <3>2 DEF MappingInv, Informed
    <2>4. Terminates(q)'
      <3>1. CASE q = p
        BY <1>2, <1>6, <3>1 DEF Terminates
      <3>2. CASE q # p
        <4>1. ASSUME Busy(q, {"unrecord"})
              PROVE  Conn(q) # Conn(p)
          BY <1>5, <3>2, <4>1, AtFacts DEF Busy, At
        <4>2. QED
          BY <1>4, <1>6, <3>2, <4>1 DEF MappingInv, Terminates
      <3>3. QED
        BY <3>1, <3>2
    <2>5. QED
      BY <2>1, <2>2, <2>3, <2>4
  <1>9. NoLeakedMapping'
    <2> SUFFICES ASSUME NEW c \in mapped', c \notin lost'
                 PROVE  c \in recorded' \/ Working(c, {"record"})'
      BY DEF NoLeakedMapping
    <2>1. CASE c = Conn(p)
      BY <1>2, <2>1 DEF Working
    <2>2. CASE c # Conn(p)
      <3>1. c \in recorded \/ Working(c, {"record"})
        BY <2>2 DEF MappingInv, NoLeakedMapping
      <3>2. Working(c, {"record"}) => Working(c, {"record"})'
        BY <1>1, <1>3 DEF Working
      <3>3. QED
        BY <3>1, <3>2
    <2>3. QED
      BY <2>1, <2>2
  <1>10. QED
    BY <1>7, <1>8, <1>9 DEF MappingInv

LEMMA InitializeKeeps ==
  ASSUME TypeOK, MappingInv, NEW p \in Procs,
         Initialize(p) \/ InitializeRaises(p)
  PROVE  MappingInv'
  <1>1. At(p, "initialize") /\ call[p].op # "cleanup"
    BY AtFacts DEF Initialize, InitializeRaises
  <1>2. CASE Initialize(p)
    BY <1>1, <1>2, MapsOwnKeeps DEF Initialize
  <1>3. CASE InitializeRaises(p) /\ mapped' = mapped \cup {Conn(p)} /\ Loses(p)
    BY <1>1, <1>3, MapsOwnKeeps DEF InitializeRaises, Loses
  <1>4. CASE InitializeRaises(p) /\ UNCHANGED <<mapped, lost>>
    <2>1. QuietStore
      BY <1>4, SameStore DEF InitializeRaises
    <2>2. GoTo(p, "unexport") /\ "unexport" \in Steps
          /\ UNCHANGED <<mem, used>>
      BY <1>4 DEF InitializeRaises, Steps
    <2>3. QED
      BY <1>1, <2>1, <2>2, GoOnKeeps DEF EarlyPcs, LatePcs
  <1>5. QED
    BY <1>2, <1>3, <1>4 DEF InitializeRaises

(* The first step of connect draws an id that nobody knows of.               *)
LEMMA StartConnectKeeps ==
  ASSUME TypeOK, MappingInv, NEW p \in Procs, NEW op \in {"connect", "attach"},
         NEW c \in Conns, StartConnect(p, op, c)
  PROVE  MappingInv'
  <1>1. /\ call[p] = Idle /\ c \notin used /\ used' = used \cup {c}
        /\ UNCHANGED <<mapped, recorded, mem, lost>>
    BY DEF StartConnect, May, Available
  <1>2. /\ call'[p] # Idle /\ call'[p].op = op /\ call'[p].pc = "export"
        /\ call'[p].conn = c /\ call'[p].todo = {}
        /\ \A q \in Procs \ {p} : call'[q] = call[q]
    BY DEF StartConnect, Begin, TypeOK, Idle
  <1>3. /\ \A q \in Procs \ {p} : /\ Held(q)' = Held(q)
                                  /\ Carried(q)' = Carried(q)
                                  /\ Reached(q)' = Reached(q)
                                  /\ Conn(q)' = Conn(q)
                                  /\ \A pcs : Busy(q, pcs)' = Busy(q, pcs)
        /\ Held(p)' = Held(p) /\ Carried(p)' = {c} /\ Conn(p)' = c
    BY <1>1, <1>2 DEF Held, Carried, Reached, Conn, Busy, Idling
  <1>4. Drawn'
    BY <1>1, <1>3 DEF MappingInv, Drawn
  <1>5. Live' = Live
    BY <1>1 DEF Live
  <1>6. ASSUME NEW q \in Procs
        PROVE  Shape(q)' /\ Fresh(q)' /\ Informed(q)' /\ Terminates(q)'
    <2>1. CASE q = p
      <3>1. Shape(q)' /\ Terminates(q)'
        BY <1>2, <2>1 DEF Shape, Terminates, Busy
      <3>2. Fresh(q)'
        BY <1>1, <1>3, <2>1 DEF MappingInv, Drawn, Fresh
      <3>3. Reached(q)' = Held(q)
        BY <1>2, <1>3, <2>1 DEF Reached, Busy, LatePcs
      <3>4. Informed(q)'
        BY <1>1, <1>5, <3>3 DEF MappingInv, Informed, Reached
      <3>5. QED
        BY <3>1, <3>2, <3>4
    <2>2. CASE q # p
      <3>1. Shape(q)' /\ Informed(q)' /\ Terminates(q)'
        BY <1>1, <1>2, <1>3, <1>5, <2>2
           DEF MappingInv, Shape, Informed, Terminates
      <3>2. Fresh(q)'
        <4> SUFFICES ASSUME Busy(q, EarlyPcs)
                     PROVE  /\ Conn(q) \notin recorded
                            /\ \A r \in Procs :
                                 /\ Conn(q) \notin Held(r)
                                 /\ r # q => Conn(q) \notin Carried(r)'
          BY <1>1, <1>3, <2>2 DEF Fresh
        <4>1. Conn(q) \in Carried(q)
          BY AtFacts DEF Busy, At, EarlyPcs
        <4>2. Conn(q) # c
          BY <1>1, <4>1 DEF MappingInv, Drawn
        <4>3. QED
          BY <1>3, <2>2, <4>2 DEF MappingInv, Fresh
      <3>3. QED
        BY <3>1, <3>2
    <2>3. QED
      BY <2>1, <2>2
  <1>7. NoLeakedMapping'
    <2>1. ASSUME NEW d, Working(d, {"record"})
          PROVE  Working(d, {"record"})'
      BY <1>1, <1>2, <2>1 DEF Working
    <2>2. QED
      BY <1>1, <2>1 DEF MappingInv, NoLeakedMapping
  <1>8. QED
    BY <1>4, <1>6, <1>7 DEF MappingInv

(* From now on the connection is known to others.                            *)
LEMMA RecordKeeps ==
  ASSUME TypeOK, MappingInv, NEW p \in Procs, Record(p)
  PROVE  MappingInv'
  <1>1. /\ call[p] \in Call /\ call[p] # Idle /\ call[p].pc = "record"
        /\ call[p].op # "cleanup" /\ call[p].todo = {} /\ Fresh(p)
        /\ Carried(p) = {Conn(p)}
    BY AtFacts DEF Record, Shape
  <1>2. /\ recorded' = recorded \cup {Conn(p)} /\ GoTo(p, "in-use")
        /\ UNCHANGED <<mapped, mem, used, lost>>
    BY DEF Record
  <1>3. /\ call'[p] # Idle /\ call'[p].pc = "in-use"
        /\ call'[p].op # "cleanup" /\ call'[p].todo = {}
        /\ call'[p].conn = Conn(p)
    <2>1. call'[p] = [call[p] EXCEPT !.pc = "in-use"]
      BY <1>2 DEF GoTo, TypeOK
    <2>2. call'[p].op # "idle"
      BY <1>1, <2>1 DEF Call
    <2>3. QED
      BY <1>1, <2>1, <2>2 DEF Call, Idle, Conn
  <1>4. \A q \in Procs \ {p} : call'[q] = call[q]
    BY <1>2 DEF GoTo, TypeOK
  <1>5. /\ \A q \in Procs : Held(q)' = Held(q) /\ Carried(q)' = Carried(q)
                            /\ Conn(q)' = Conn(q)
        /\ \A q \in Procs \ {p} : \A pcs : Busy(q, pcs)' = Busy(q, pcs)
        /\ ~Busy(p, EarlyPcs)' /\ ~Busy(p, LatePcs)' /\ ~Busy(p, {"unrecord"})'
        /\ Live' = Live
    BY <1>1, <1>2, <1>3, <1>4
       DEF Held, Carried, Idling, Conn, Busy, Live, EarlyPcs, LatePcs
  <1>6. Drawn'
    BY <1>1, <1>2, <1>5 DEF MappingInv, Drawn
  <1>7. ASSUME NEW q \in Procs
        PROVE  Shape(q)' /\ Fresh(q)' /\ Informed(q)' /\ Terminates(q)'
    <2>1. Shape(q)'
      BY <1>3, <1>4 DEF MappingInv, Shape
    <2>2. Fresh(q)'
      <3> SUFFICES ASSUME q # p, Busy(q, EarlyPcs)
                   PROVE  /\ Conn(q) \notin recorded'
                          /\ \A r \in Procs :
                               /\ Conn(q) \notin Held(r)
                               /\ r # q => Conn(q) \notin Carried(r)
        BY <1>5 DEF Fresh
      <3>1. QED
        BY <1>1, <1>2 DEF MappingInv, Fresh
    <2>3. Informed(q)'
      <3>1. Reached(q)' \subseteq Reached(q)
        BY <1>5 DEF Reached
      <3>2. QED
        BY <1>2, <1>5, <3>1 DEF MappingInv, Informed
    <2>4. Terminates(q)'
      BY <1>5 DEF MappingInv, Terminates
    <2>5. QED
      BY <2>1, <2>2, <2>3, <2>4
  <1>8. NoLeakedMapping'
    <2> SUFFICES ASSUME NEW c \in mapped, c \notin lost, c \notin recorded'
                 PROVE  Working(c, {"record"})'
      BY <1>2 DEF NoLeakedMapping
    <2>1. PICK q \in Procs : call[q] # Idle /\ call[q].conn = c
                             /\ call[q].pc \in {"record"}
      BY <1>2 DEF MappingInv, NoLeakedMapping, Working
    <2>2. q # p
      BY <1>2, <2>1 DEF Conn
    <2>3. QED
      BY <1>4, <2>1, <2>2 DEF Working
  <1>9. QED
    BY <1>6, <1>7, <1>8 DEF MappingInv

LEMMA RecordRaisesKeeps ==
  ASSUME TypeOK, MappingInv, NEW p \in Procs, RecordRaises(p)
  PROVE  MappingInv'
  <1>1. At(p, "record") /\ call[p].op # "cleanup"
    BY AtFacts DEF RecordRaises
  <1>2. QuietStore
    BY SameStore DEF RecordRaises, Loses
  <1>3. Conn(p) \notin Live'
    BY DEF RecordRaises, Loses, Live
  <1>4. GoTo(p, "unexport") /\ "unexport" \in Steps /\ UNCHANGED <<mem, used>>
    BY DEF RecordRaises, Steps
  <1>5. QED
    BY <1>1, <1>2, <1>3, <1>4, GoOnKeeps DEF EarlyPcs, LatePcs

LEMMA ConnectedFacts ==
  ASSUME NEW m \in Memory, NEW c \in Conns
  PROVE  /\ Connected(m, c) \in Memory
         /\ HeldOf(Connected(m, c)) \subseteq HeldOf(m) \cup {c}
         /\ Connected(m, c).info = m.info \cup {c}
  BY DEF Connected, Memory, MemoryRecord, HeldOf

LEMMA MarkInUseKeeps ==
  ASSUME TypeOK, MappingInv, NEW p \in Procs, MarkInUse(p)
  PROVE  MappingInv'
  <1> DEFINE m == Connected(mem[p], Conn(p))
  <1>1. /\ mem[p] \in Memory /\ Conn(p) \in Conns /\ call[p].pc = "in-use"
        /\ ~Idling(p) /\ Shape(p) /\ Carried(p) = {Conn(p)}
        /\ call[p].op # "cleanup"
    BY AtFacts DEF MarkInUse
  <1>2. /\ m \in Memory /\ HeldOf(m) \subseteq Held(p) \cup {Conn(p)}
        /\ m.info = mem[p].info \cup {Conn(p)}
    BY <1>1, ConnectedFacts DEF Held
  <1>3. QuietMemory(p, m)
    BY <1>1, <1>2 DEF QuietMemory, MarkInUse, TypeOK, Reached
  <1>4. QuietStore
    BY SameStore DEF MarkInUse
  <1>5. ~Busy(p, {"record"})
    BY <1>1 DEF Busy
  <1>6. "plug" \in Steps /\ "plug" \notin EarlyPcs
        /\ (Carried(p) \ m.info) \cap Live' = {}
    BY <1>1, <1>2 DEF Steps, EarlyPcs
  <1>7. QuietCall(p)
    <2>1. CASE GoTo(p, "plug")
      BY <1>1, <1>2, <1>3, <1>5, <1>6, <2>1, QuietGoTo
    <2>2. CASE Return(p)
      BY <1>2, <1>3, <1>5, <2>2, QuietReturn
    <2>3. QED
      BY <2>1, <2>2 DEF MarkInUse
  <1>8. QED
    BY <1>4, <1>7, QuietKeeps

LEMMA MarkInUseRaisesKeeps ==
  ASSUME TypeOK, MappingInv, NEW p \in Procs, MarkInUseRaises(p)
  PROVE  MappingInv'
  <1> DEFINE n == IF mem[p].loaded THEN Connected(mem[p], Conn(p)) ELSE mem[p]
             m == [n EXCEPT !.status = "in-use", !.unsaved = TRUE]
  <1>1. /\ mem[p] \in Memory /\ Conn(p) \in Conns /\ call[p].pc = "in-use"
        /\ ~Idling(p) /\ Shape(p) /\ Carried(p) = {Conn(p)}
        /\ call[p].op # "cleanup"
    BY AtFacts DEF MarkInUseRaises
  <1>2. /\ n \in Memory /\ HeldOf(n) \subseteq Held(p) \cup {Conn(p)}
        /\ \/ n.info = mem[p].info \cup {Conn(p)}
           \/ n.info = mem[p].info /\ HeldOf(n) = Held(p)
    BY <1>1, ConnectedFacts DEF Held
  <1>3. m \in Memory /\ HeldOf(m) = HeldOf(n) /\ m.info = n.info
    BY <1>2 DEF Memory, MemoryRecord, HeldOf
  <1>4. mem' = [mem EXCEPT ![p] = m]
    BY DEF MarkInUseRaises, TypeOK
  <1>5. QuietMemory(p, m)
    BY <1>1, <1>2, <1>3, <1>4 DEF QuietMemory, Reached
  <1>6. QuietStore
    BY SameStore DEF MarkInUseRaises, Loses
  <1>7. GoTo(p, "unexport") /\ "unexport" \in Steps /\ ~Busy(p, {"record"})
    BY <1>1 DEF MarkInUseRaises, Steps, Busy
  <1>8. QuietCall(p)
    BY <1>1, <1>3, <1>5, <1>7, QuietGoTo DEF EarlyPcs, LatePcs
  <1>9. QED
    BY <1>6, <1>8, QuietKeeps

LEMMA ConnectingKeeps ==
  ASSUME TypeOK, MappingInv, NEW p \in Procs, Connecting(p)
  PROVE  MappingInv'
  BY ExportKeeps, SaveUpdateKeeps, ConnectRaisesKeeps, InitializeKeeps,
     RecordKeeps, RecordRaisesKeeps, MarkInUseKeeps, MarkInUseRaisesKeeps
     DEF Connecting

-----------------------------------------------------------------------------
(* A call that starts on connections the process knows of.                   *)

LEMMA BeginKeeps ==
  ASSUME TypeOK, MappingInv, NEW p \in Procs, call[p] = Idle,
         NEW m \in Memory, QuietMemory(p, m), QuietStore,
         NEW op \in {"detach", "disconnect", "cleanup", "plug", "unplug"},
         NEW pc \in {"plug", "unplug", "terminate", "withdraw"},
         NEW c, NEW force, NEW ignore, NEW todo,
         Begin(p, op, pc, c, force, ignore, todo),
         op = "cleanup" => pc \in {"unplug", "withdraw"},
         op # "cleanup" => todo = {} /\ pc # "withdraw",
         pc # "withdraw" => {c} \cup todo \subseteq HeldOf(m)
  PROVE  MappingInv'
  <1>1. /\ call'[p] # Idle /\ call'[p].op = op /\ call'[p].pc = pc
        /\ call'[p].conn = c /\ call'[p].todo = todo /\ mem'[p] = m
        /\ \A q \in Procs \ {p} : mem'[q] = mem[q] /\ call'[q] = call[q]
    BY DEF Begin, TypeOK, Idle, QuietMemory
  <1>2. /\ Held(p)' = HeldOf(m) /\ Carried(p)' \subseteq HeldOf(m)
        /\ Reached(p)' \subseteq HeldOf(m)
        /\ ~Busy(p, EarlyPcs)' /\ ~Busy(p, {"unrecord"})'
    BY <1>1 DEF Held, Carried, Reached, Idling, Busy, EarlyPcs
  <1>3. Shape(p)' /\ Terminates(p)'
    BY <1>1, <1>2 DEF Shape, Terminates
  <1>4. ~Busy(p, {"record"})
    BY DEF Busy
  <1>5. QuietCall(p)
    BY <1>1, <1>2, <1>3, <1>4 DEF QuietCall, QuietMemory
  <1>6. QED
    BY <1>5, QuietKeeps

LEMMA StartsKeep ==
  ASSUME TypeOK, MappingInv, NEW p \in Procs,
         \/ \E c \in Conns : StartPlug(p, c) \/ StartDisconnect(p, c)
         \/ \E force, ignore \in BOOLEAN :
              \/ StartDetach(p, force, ignore)
              \/ \E c \in Conns : StartUnplug(p, c, force, ignore)
  PROVE  MappingInv'
  <1>1. /\ call[p] = Idle /\ UNCHANGED <<mem, used, recorded, mapped, lost>>
        /\ mem[p] \in Memory
    BY DEF StartPlug, StartDisconnect, StartDetach, StartUnplug, May,
           Available, TypeOK
  <1>2. QuietStore /\ QuietMemory(p, mem[p])
    BY <1>1, SameStore, SameMemory
  <1>3. ASSUME NEW op \in {"detach", "disconnect", "plug", "unplug"},
               NEW pc \in {"plug", "unplug", "terminate"},
               NEW c \in HeldOf(mem[p]), NEW force, NEW ignore,
               Begin(p, op, pc, c, force, ignore, {})
        PROVE  MappingInv'
    BY <1>1, <1>2, <1>3, BeginKeeps
  <1>4. CASE \E c \in Conns : StartPlug(p, c) \/ StartDisconnect(p, c)
    <2>1. PICK c \in Conns : StartPlug(p, c) \/ StartDisconnect(p, c)
      BY <1>4
    <2>2. c \in HeldOf(mem[p])
      BY <2>1 DEF StartPlug, StartDisconnect, HeldOf
    <2>3. QED
      BY <1>3, <2>1, <2>2 DEF StartPlug, StartDisconnect
  <1>5. CASE \E force, ignore \in BOOLEAN :
               \/ StartDetach(p, force, ignore)
               \/ \E c \in Conns : StartUnplug(p, c, force, ignore)
    <2>1. PICK force \in BOOLEAN, ignore \in BOOLEAN :
               \/ StartDetach(p, force, ignore)
               \/ \E c \in Conns : StartUnplug(p, c, force, ignore)
      BY <1>5
    <2>2. CASE StartDetach(p, force, ignore)
      <3>1. PICK c \in mem[p].local :
              Begin(p, "detach", "unplug", c, force, ignore, {})
        BY <2>2 DEF StartDetach
      <3>2. c \in HeldOf(mem[p])
        BY DEF HeldOf
      <3>3. QED
        BY <1>3, <3>1, <3>2
    <2>3. CASE \E c \in Conns : StartUnplug(p, c, force, ignore)
      <3>1. PICK c \in Conns : StartUnplug(p, c, force, ignore)
        BY <2>3
      <3>2. c \in HeldOf(mem[p])
        BY <3>1 DEF StartUnplug, HeldOf
      <3>3. QED
        BY <1>3, <3>1, <3>2 DEF StartUnplug
    <2>4. QED
      BY <2>1, <2>2, <2>3
  <1>6. QED
    BY <1>4, <1>5

(* Reading the list of connections teaches a process recorded ones only, and *)
(* with their connection_info.                                               *)
LEMMA WithConnectionsFacts ==
  ASSUME TypeOK, NEW m \in Memory
  PROVE  /\ WithConnections(m) \in Memory /\ Loaded(m) \in Memory
         /\ \A n \in {WithConnections(m), Loaded(m)} :
              /\ HeldOf(n) \subseteq HeldOf(m) \cup recorded
              /\ HeldOf(n) \ n.info \subseteq HeldOf(m) \ m.info
         /\ WithConnections(m).listed \subseteq HeldOf(WithConnections(m))
  <1>1. WithConnections(m) \in Memory /\ Loaded(m) \in Memory
    BY LoadedTyped
  <1>2. /\ Loaded(m).listed = recorded /\ Loaded(m).local = m.local
        /\ Loaded(m).held = m.held \cup recorded
        /\ Loaded(m).info = m.info \cup recorded
    BY DEF Loaded, Memory, MemoryRecord
  <1>3. QED
    BY <1>1, <1>2 DEF WithConnections, HeldOf

LEMMA StartCleanupKeeps ==
  ASSUME TypeOK, MappingInv, NEW p \in Procs, StartCleanup(p)
  PROVE  MappingInv'
  <1> DEFINE m == WithConnections(mem[p])
             all == m.listed
  <1>1. /\ call[p] = Idle /\ UNCHANGED <<used, recorded, mapped, lost>>
        /\ mem[p] \in Memory /\ mem' = [mem EXCEPT ![p] = m]
    BY DEF StartCleanup, May, Available, TypeOK
  <1>2. QuietStore
    BY <1>1, SameStore
  <1>3. /\ m \in Memory /\ HeldOf(m) \subseteq Held(p) \cup recorded
        /\ HeldOf(m) \ m.info \subseteq Held(p) \ mem[p].info
        /\ all \subseteq HeldOf(m)
    BY <1>1, WithConnectionsFacts DEF Held
  <1>4. QuietMemory(p, m)
    BY <1>1, <1>3 DEF QuietMemory, Reached
  <1> HIDE DEF m
  <1>5. CASE \E c \in m.listed :
               Begin(p, "cleanup", "unplug", c, FALSE, FALSE, m.listed \ {c})
    <2>1. PICK c \in m.listed :
            Begin(p, "cleanup", "unplug", c, FALSE, FALSE, m.listed \ {c})
      BY <1>5
    <2>2. {c} \cup (m.listed \ {c}) \subseteq HeldOf(m)
      BY <1>3
    <2>3. QED
      BY <1>1, <1>2, <1>3, <1>4, <2>1, <2>2, BeginKeeps
  <1>6. CASE \E c \in Conns :
               Begin(p, "cleanup", "withdraw", c, FALSE, FALSE, {})
    <2>1. PICK c \in Conns :
            Begin(p, "cleanup", "withdraw", c, FALSE, FALSE, {})
      BY <1>6
    <2>2. QED
      BY <1>1, <1>2, <1>3, <1>4, <2>1, BeginKeeps
  <1>7. QED
    BY <1>5, <1>6 DEF StartCleanup, m

-----------------------------------------------------------------------------
(* The steps of attach and detach.                                           *)

(* The call goes on with a connection it carried.                            *)
LEMMA OnwardKeeps ==
  ASSUME TypeOK, MappingInv, NEW p \in Procs, Busy(p, LatePcs), QuietStore,
         NEW m \in Memory, mem' = [mem EXCEPT ![p] = m],
         HeldOf(m) \subseteq Held(p), m.info = mem[p].info,
         NEW next \in Call, call' = [call EXCEPT ![p] = next],
         next.pc \in LatePcs \cup {"withdraw"},
         {next.conn} \cup next.todo \subseteq Carried(p),
         next.op = call[p].op,
         IF next.op = "cleanup" THEN next.pc \in {"unplug", "forget", "withdraw"}
                                ELSE next.todo = {}
  PROVE  MappingInv'
  <1>1. /\ call'[p] = next /\ mem'[p] = m /\ next # Idle
        /\ \A q \in Procs \ {p} : mem'[q] = mem[q] /\ call'[q] = call[q]
    <2>1. next.op # "idle"
      BY DEF Call
    <2>2. QED
      BY <2>1 DEF TypeOK, Idle
  <1>2. /\ Held(p)' = HeldOf(m) /\ Carried(p)' \subseteq Carried(p)
        /\ \A pcs : Busy(p, pcs)' = (next.pc \in pcs)
    BY <1>1 DEF Held, Carried, Idling, Busy
  <1>3. Reached(p)' \subseteq Reached(p)
    BY <1>2 DEF Reached
  <1>4. Shape(p)' /\ Terminates(p)' /\ ~Busy(p, EarlyPcs)' /\ ~Busy(p, {"record"})
    BY <1>1, <1>2 DEF Shape, Terminates, EarlyPcs, LatePcs, Busy
  <1>5. QuietCall(p)
    BY <1>1, <1>2, <1>3, <1>4 DEF QuietCall
  <1>6. QED
    BY <1>5, QuietKeeps

LEMMA PlugKeeps ==
  ASSUME TypeOK, MappingInv, NEW p \in Procs, Plug(p)
  PROVE  MappingInv'
  <1> DEFINE m == [mem[p] EXCEPT !.device = @ \cup {Conn(p)}]
             next == [call[p] EXCEPT !.pc = "device"]
  <1>1. /\ call[p] \in Call /\ mem[p] \in Memory /\ Conn(p) \in Conns
        /\ call[p] # Idle /\ call[p].pc = "plug" /\ call[p].op # "cleanup"
        /\ call[p].todo = {} /\ Carried(p) = {Conn(p)}
    BY AtFacts DEF Plug, Shape
  <1>2. m \in Memory /\ HeldOf(m) = Held(p) /\ m.info = mem[p].info
    BY <1>1 DEF Memory, MemoryRecord, HeldOf, Held
  <1>3. /\ next \in Call /\ next.pc = "device" /\ next.op = call[p].op
        /\ next.conn = Conn(p) /\ next.todo = {}
    BY <1>1 DEF Call, Steps, Conn
  <1>4. mem' = [mem EXCEPT ![p] = m] /\ call' = [call EXCEPT ![p] = next]
    BY DEF Plug, GoTo, TypeOK
  <1>5. QuietStore
    BY SameStore DEF Plug
  <1> HIDE DEF m, next
  <1>6. QED
    BY <1>1, <1>2, <1>3, <1>4, <1>5, OnwardKeeps DEF Busy, LatePcs

LEMMA AttachFailedKeeps ==
  ASSUME TypeOK, MappingInv, NEW p \in Procs,
         PlugRaises(p) \/ SaveDeviceRaises(p)
  PROVE  MappingInv'
  <1>1. PICK from \in {"plug", "device"} : At(p, from)
    BY DEF PlugRaises, SaveDeviceRaises
  <1>2. call[p].op # "cleanup" /\ ~Busy(p, {"record"})
    BY <1>1, AtFacts DEF Busy
  <1>3. QuietStore /\ UNCHANGED <<mem, used>>
    BY SameStore DEF PlugRaises, SaveDeviceRaises, Loses
  <1>4. CASE Return(p)
    BY <1>2, <1>3, <1>4, ReturnKeeps
  <1>5. CASE GoTo(p, "terminate")
    BY <1>1, <1>2, <1>3, <1>5, GoOnKeeps DEF Steps, EarlyPcs, LatePcs
  <1>6. QED
    BY <1>4, <1>5 DEF PlugRaises, SaveDeviceRaises, AttachFailed

LEMMA SaveDeviceKeeps ==
  ASSUME TypeOK, MappingInv, NEW p \in Procs, SaveDevice(p)
  PROVE  MappingInv'
  <1>1. At(p, "device") /\ call[p].op # "cleanup"
    BY AtFacts DEF SaveDevice
  <1>2. QuietStore
    BY SameStore DEF SaveDevice
  <1>3. QED
    BY <1>1, <1>2, GoOnKeeps DEF SaveDevice, Steps, EarlyPcs, LatePcs

LEMMA CheckPassesKeeps ==
  ASSUME TypeOK, MappingInv, NEW p \in Procs, CheckPasses(p)
  PROVE  MappingInv'
  <1>1. /\ mem[p] \in Memory /\ Conn(p) \in Conns /\ call[p].pc = "check"
        /\ call[p] # Idle /\ Carried(p) = {Conn(p)} /\ Conn(p) \in Reached(p)
    BY AtFacts DEF CheckPasses, Reached, Busy, LatePcs
  <1>2. QuietStore /\ Return(p) /\ ~Busy(p, {"record"})
    BY <1>1, SameStore DEF CheckPasses, Busy
  <1>3. CASE UNCHANGED mem
    BY <1>2, <1>3, ReturnKeeps DEF CheckPasses
  <1>4. CASE mem' = [mem EXCEPT ![p].local = {Conn(p)}]
    <2> DEFINE m == [mem[p] EXCEPT !.local = {Conn(p)}]
    <2>1. /\ m \in Memory /\ HeldOf(m) \subseteq Held(p) \cup {Conn(p)}
          /\ m.info = mem[p].info
      BY <1>1 DEF Memory, MemoryRecord, HeldOf, Held
    <2>2. mem' = [mem EXCEPT ![p] = m]
      BY <1>4 DEF TypeOK
    <2>3. Held(p) \subseteq Reached(p)
      BY DEF Reached
    <2> HIDE DEF m
    <2>4. QuietMemory(p, m)
      BY <1>1, <2>1, <2>2, <2>3 DEF QuietMemory
    <2>5. QuietCall(p)
      BY <1>2, <2>1, <2>4, QuietReturn
    <2>6. QED
      BY <1>2, <2>5, QuietKeeps
  <1>5. QED
    BY <1>3, <1>4 DEF CheckPasses

LEMMA CheckFailsKeeps ==
  ASSUME TypeOK, MappingInv, NEW p \in Procs, CheckFails(p)
  PROVE  MappingInv'
  <1> DEFINE next == [call[p] EXCEPT !.pc = "unplug", !.force = TRUE,
                                     !.ignore = TRUE]
  <1>1. /\ call[p] \in Call /\ mem[p] \in Memory
        /\ call[p] # Idle /\ call[p].pc = "check" /\ call[p].op # "cleanup"
        /\ call[p].todo = {} /\ Carried(p) = {Conn(p)}
    BY AtFacts DEF CheckFails, Shape
  <1>2. /\ next \in Call /\ next.pc = "unplug" /\ next.op = call[p].op
        /\ next.conn = Conn(p) /\ next.todo = {}
    BY <1>1 DEF Call, Steps, Conn
  <1>3. mem' = [mem EXCEPT ![p] = mem[p]] /\ call' = [call EXCEPT ![p] = next]
    BY DEF CheckFails, TypeOK
  <1>4. QuietStore /\ HeldOf(mem[p]) = Held(p)
    BY SameStore DEF CheckFails, Held
  <1> HIDE DEF next
  <1>5. QED
    BY <1>1, <1>2, <1>3, <1>4, OnwardKeeps DEF Busy, LatePcs

LEMMA AttachingKeeps ==
  ASSUME TypeOK, MappingInv, NEW p \in Procs, Attaching(p)
  PROVE  MappingInv'
  BY PlugKeeps, AttachFailedKeeps, SaveDeviceKeeps, CheckPassesKeeps,
     CheckFailsKeeps DEF Attaching

(* What follows detach, whether it did its work or raised.                   *)
LEMMA DetachedKeeps ==
  ASSUME TypeOK, MappingInv, NEW p \in Procs, NEW from \in {"unplug", "forget"},
         At(p, from), QuietStore,
         NEW m \in Memory, mem' = [mem EXCEPT ![p] = m],
         HeldOf(m) \subseteq Held(p), m.info = mem[p].info,
         Detached(p) \/ DetachFailed(p)
  PROVE  MappingInv'
  <1>1. /\ call[p] \in Call /\ mem[p] \in Memory /\ call[p] # Idle
        /\ call[p].pc = from /\ ~Idling(p) /\ Shape(p)
        /\ Busy(p, LatePcs) /\ ~Busy(p, {"record"})
        /\ Carried(p) = {call[p].conn} \cup call[p].todo
    BY AtFacts DEF Busy, LatePcs, Carried
  <1>2. CASE Return(p)
    <2>1. QuietMemory(p, m)
      BY DEF QuietMemory, Reached
    <2>2. QuietCall(p)
      BY <1>1, <1>2, <2>1, QuietReturn
    <2>3. QED
      BY <2>2, QuietKeeps
  <1>3. ASSUME NEW pc \in {"terminate", "withdraw"}, GoTo(p, pc),
               call[p].op = "cleanup" <=> pc = "withdraw"
        PROVE  MappingInv'
    <2> DEFINE next == [call[p] EXCEPT !.pc = pc]
    <2>1. /\ next \in Call /\ next.pc = pc /\ next.op = call[p].op
          /\ next.conn = call[p].conn /\ next.todo = call[p].todo
      BY <1>1 DEF Call, Steps
    <2>2. call' = [call EXCEPT ![p] = next]
      BY <1>3 DEF GoTo, TypeOK
    <2> HIDE DEF next
    <2>3. pc \in LatePcs \cup {"withdraw"}
      BY DEF LatePcs
    <2>4. QED
      BY <1>1, <1>3, <2>1, <2>2, <2>3, OnwardKeeps DEF Shape
  <1>4. ASSUME NEW c \in call[p].todo, call[p].op = "cleanup",
               call' = [call EXCEPT ![p].pc = "unplug", ![p].conn = c,
                                    ![p].todo = @ \ {c}]
        PROVE  MappingInv'
    <2> DEFINE next == [call[p] EXCEPT !.pc = "unplug", !.conn = c,
                                       !.todo = @ \ {c}]
    <2>1. /\ next \in Call /\ next.pc = "unplug" /\ next.op = call[p].op
          /\ next.conn = c /\ next.todo = call[p].todo \ {c}
      BY <1>1 DEF Call, Steps
    <2>2. call' = [call EXCEPT ![p] = next]
      BY <1>4 DEF TypeOK
    <2> HIDE DEF next
    <2>3. {next.conn} \cup next.todo \subseteq Carried(p)
      BY <1>1, <2>1
    <2>4. QED
      BY <1>1, <1>4, <2>1, <2>2, <2>3, OnwardKeeps DEF LatePcs
  <1>5. CASE DetachFailed(p)
    BY <1>2, <1>3, <1>5 DEF DetachFailed, ForcedOn
  <1>6. CASE Detached(p)
    BY <1>2, <1>3, <1>4, <1>6 DEF Detached
  <1>7. QED
    BY <1>5, <1>6

LEMMA ForgottenFacts ==
  ASSUME TypeOK, NEW p \in Procs, mem' = Forgotten(p)
  PROVE  \E m \in Memory : /\ mem' = [mem EXCEPT ![p] = m]
                           /\ HeldOf(m) \subseteq Held(p)
                           /\ m.info = mem[p].info
  <1> DEFINE m == [mem[p] EXCEPT
                     !.device = @ \ {Conn(p)},
                     !.local = IF Conn(p) \in mem[p].linked \ mem[p].twins
                               THEN {} ELSE @]
  <1>1. mem[p] \in Memory
    BY DEF TypeOK
  <1>2. m \in Memory /\ HeldOf(m) \subseteq Held(p) /\ m.info = mem[p].info
    BY <1>1 DEF Memory, MemoryRecord, HeldOf, Held
  <1>3. mem' = [mem EXCEPT ![p] = m]
    BY DEF Forgotten, TypeOK
  <1>4. QED
    BY <1>2, <1>3

LEMMA DetachingKeeps ==
  ASSUME TypeOK, MappingInv, NEW p \in Procs, Detaching(p)
  PROVE  MappingInv'
  <1>1. mem[p] \in Memory /\ HeldOf(mem[p]) = Held(p)
    BY DEF TypeOK, Held
  <1>2. CASE Unplug(p)
    <2>1. QuietStore
      BY <1>2, SameStore DEF Unplug
    <2>2. QED
      BY <1>2, <2>1, GoOnKeeps DEF Unplug, Steps, EarlyPcs, LatePcs
  <1>3. CASE UnplugRaises(p)
    <2>1. QuietStore
      BY <1>3, SameStore DEF UnplugRaises, Loses
    <2>2. CASE GoTo(p, "forget")
      BY <1>3, <2>1, <2>2, GoOnKeeps
         DEF UnplugRaises, Steps, EarlyPcs, LatePcs
    <2>3. CASE DetachFailed(p)
      <3>1. mem' = [mem EXCEPT ![p] = mem[p]]
        BY <1>3 DEF UnplugRaises, TypeOK
      <3>2. QED
        BY <1>1, <1>3, <2>1, <2>3, <3>1, DetachedKeeps DEF UnplugRaises
    <2>4. QED
      BY <1>3, <2>2, <2>3 DEF UnplugRaises
  <1>4. CASE Forget(p) \/ ForgetRaises(p)
    <2>1. QuietStore /\ At(p, "forget") /\ (Detached(p) \/ DetachFailed(p))
      BY <1>4, SameStore DEF Forget, ForgetRaises
    <2>2. PICK m \in Memory : /\ mem' = [mem EXCEPT ![p] = m]
                              /\ HeldOf(m) \subseteq Held(p)
                              /\ m.info = mem[p].info
      BY <1>4, ForgottenFacts DEF Forget, ForgetRaises
    <2>3. QED
      BY <2>1, <2>2, DetachedKeeps
  <1>5. QED
    BY <1>2, <1>3, <1>4 DEF Detaching

-----------------------------------------------------------------------------
(* The steps of disconnect.                                                  *)

(* After terminate_connection the mapping of the connection is gone: if the  *)
(* connection had no connection_info any more, it was gone before.           *)
LEMMA TerminatedFacts ==
  ASSUME TypeOK, MappingInv, NEW p \in Procs, At(p, "terminate"), Terminated(p)
  PROVE  /\ Live' \subseteq Live /\ lost \subseteq lost'
         /\ Conn(p) \notin Live'
  <1>1. Conn(p) \in Reached(p) /\ Informed(p)
    BY AtFacts DEF Reached, Busy, LatePcs
  <1>2. CASE Conn(p) \in mem[p].info
    BY <1>2 DEF Terminated, Live
  <1>3. CASE Conn(p) \notin mem[p].info
    BY <1>1, <1>3 DEF Terminated, Informed, Live
  <1>4. QED
    BY <1>2, <1>3

LEMMA TerminateKeeps ==
  ASSUME TypeOK, MappingInv, NEW p \in Procs, Terminate(p)
  PROVE  MappingInv'
  <1> DEFINE m == [mem[p] EXCEPT !.info = @ \ {Conn(p)},
                                 !.device = @ \ {Conn(p)}]
  <1>1. /\ mem[p] \in Memory /\ ~Idling(p) /\ Shape(p) /\ call[p] # Idle
        /\ call[p].pc = "terminate" /\ call[p].op # "cleanup"
    BY AtFacts DEF Terminate
  <1>2. Live' \subseteq Live /\ Conn(p) \notin Live'
    BY TerminatedFacts DEF Terminate
  <1>3. QuietStore
    BY <1>2 DEF QuietStore, Terminate
  <1>4. /\ m \in Memory /\ HeldOf(m) = Held(p)
        /\ m.info = mem[p].info \ {Conn(p)}
    BY <1>1 DEF Memory, MemoryRecord, HeldOf, Held
  <1>5. mem' = [mem EXCEPT ![p] = m]
    BY DEF Terminate, TypeOK
  <1> HIDE DEF m
  <1>6. QuietMemory(p, m)
    BY <1>2, <1>4, <1>5 DEF QuietMemory, Reached
  <1>7. GoTo(p, "unrecord") /\ "unrecord" \in Steps /\ ~Busy(p, {"record"})
    BY <1>1 DEF Terminate, Steps, Busy
  <1>8. QuietCall(p)
    BY <1>1, <1>2, <1>4, <1>6, <1>7, QuietGoTo DEF EarlyPcs, LatePcs
  <1>9. QED
    BY <1>3, <1>8, QuietKeeps

LEMMA DisconnectRaisesKeeps ==
  ASSUME TypeOK, MappingInv, NEW p \in Procs,
         TerminateRaises(p) \/ UnrecordRaises(p) \/ WithdrawRaises(p)
  PROVE  MappingInv'
  <1>1. /\ Return(p) /\ UNCHANGED <<mem, used, recorded>>
        /\ ~Busy(p, {"record"})
    BY DEF TerminateRaises, UnrecordRaises, WithdrawRaises, Busy, At
  <1>2. Live' \subseteq Live
    <2>1. CASE TerminateRaises(p)
      BY <2>1, TerminatedFacts DEF TerminateRaises, Live
    <2>2. CASE UnrecordRaises(p) \/ WithdrawRaises(p)
      BY <2>2 DEF UnrecordRaises, WithdrawRaises, Loses, Live
    <2>3. QED
      BY <2>1, <2>2
  <1>3. QED
    BY <1>1, <1>2, ReturnKeeps DEF QuietStore

LEMMA UnrecordKeeps ==
  ASSUME TypeOK, MappingInv, NEW p \in Procs, Unrecord(p)
  PROVE  MappingInv'
  <1>1. At(p, "unrecord") /\ call[p].op # "cleanup" /\ Conn(p) \notin Live
    BY AtFacts DEF Unrecord, Terminates, Busy
  <1>2. QuietStore
    BY <1>1 DEF QuietStore, Unrecord, Live
  <1>3. QED
    BY <1>1, <1>2, GoOnKeeps DEF Unrecord, Steps, EarlyPcs, LatePcs

LEMMA WithdrawKeeps ==
  ASSUME TypeOK, MappingInv, NEW p \in Procs, Withdraw(p)
  PROVE  MappingInv'
  <1>1. /\ mem[p] \in Memory /\ call[p] # Idle /\ call[p].pc = "withdraw"
        /\ Shape(p) /\ ~Busy(p, {"record"})
    BY AtFacts DEF Withdraw, Busy
  <1>2. QuietStore /\ UNCHANGED <<mem, used>> /\ QuietMemory(p, mem[p])
    BY SameStore, SameMemory DEF Withdraw
  <1>3. CASE call[p].op = "cleanup"
    BY <1>1, <1>2, <1>3, ReturnKeeps DEF Withdraw
  <1>4. CASE call[p].op # "cleanup"
    <2>1. GoTo(p, "free") /\ "free" \in Steps /\ ~Idling(p)
      BY <1>1, <1>4 DEF Withdraw, Steps, Idling
    <2>2. QuietCall(p)
      BY <1>1, <1>2, <1>4, <2>1, QuietGoTo DEF EarlyPcs, LatePcs
    <2>3. QED
      BY <1>2, <2>2, QuietKeeps
  <1>5. QED
    BY <1>3, <1>4

LEMMA FreedFacts ==
  ASSUME TypeOK, NEW p \in Procs
  PROVE  /\ Freed(p) \in Memory
         /\ HeldOf(Freed(p)) \subseteq Held(p) \cup recorded
         /\ HeldOf(Freed(p)) \ Freed(p).info \subseteq Held(p) \ mem[p].info
  <1> DEFINE m == [mem[p] EXCEPT !.listed = @ \ {Conn(p)}]
  <1>1. mem[p] \in Memory
    BY DEF TypeOK
  <1>2. m \in Memory /\ HeldOf(m) \subseteq Held(p) /\ m.info = mem[p].info
    BY <1>1 DEF Memory, MemoryRecord, HeldOf, Held
  <1> HIDE DEF m
  <1>3. /\ WithConnections(m) \in Memory
        /\ HeldOf(WithConnections(m)) \subseteq Held(p) \cup recorded
        /\ HeldOf(WithConnections(m)) \ WithConnections(m).info
             \subseteq Held(p) \ mem[p].info
    BY <1>2, WithConnectionsFacts
  <1>4. Unlisted(p) = WithConnections(m)
    BY DEF Unlisted, m
  <1> DEFINE n == [Unlisted(p) EXCEPT !.status = "available"]
  <1>5. /\ n \in Memory /\ HeldOf(n) = HeldOf(Unlisted(p))
        /\ n.info = Unlisted(p).info
    BY <1>3, <1>4 DEF Memory, MemoryRecord, HeldOf
  <1> HIDE DEF n
  <1>6. Freed(p) \in {n, Unlisted(p), mem[p]}
    BY DEF Freed, n
  <1>7. QED
    BY <1>1, <1>3, <1>4, <1>5, <1>6 DEF Held

LEMMA FreeKeeps ==
  ASSUME TypeOK, MappingInv, NEW p \in Procs, Free(p) \/ FreeRaises(p)
  PROVE  MappingInv'
  <1>1. /\ Freed(p) \in Memory
        /\ Linked(p) /\ NoneLeft(p) => Freed(p).status = "available"
    BY FreedTyped
  <1>2. PICK m \in Memory : /\ mem' = [mem EXCEPT ![p] = m]
                            /\ HeldOf(m) \subseteq HeldOf(Freed(p))
                            /\ m.info = Freed(p).info
    <2>1. Linked(p) \in BOOLEAN
      BY DEF Linked
    <2>2. /\ Freed(p).unsaved \in BOOLEAN /\ Freed(p).linked \in SUBSET Conns
          /\ Freed(p).unsaved => Freed(p).status # "none"
      BY <1>1 DEF Memory, MemoryRecord
    <2>3. CASE Free(p)
      <3> DEFINE b == Freed(p).unsaved /\ ~(Linked(p) /\ NoneLeft(p))
                 held == Freed(p).held \ {Conn(p)}
                 linked == Freed(p).linked \ {Conn(p)}
                 n == [Freed(p) EXCEPT !.unsaved = b, !.held = held,
                                       !.linked = linked]
      <3>1. mem' = [mem EXCEPT ![p] = n]
        BY <2>3 DEF Free
      <3>2. b \in BOOLEAN /\ (b => Freed(p).status # "none")
        BY <1>1, <2>1, <2>2
      <3>3. held \in SUBSET Freed(p).held /\ linked \in SUBSET Conns
        BY <2>2
      <3> HIDE DEF b, held, linked
      <3>4. n \in Memory /\ HeldOf(n) \subseteq HeldOf(Freed(p))
            /\ n.info = Freed(p).info
        BY <1>1, <3>2, <3>3 DEF Memory, MemoryRecord, HeldOf
      <3> HIDE DEF n
      <3>5. QED
        BY <3>1, <3>4
    <2>4. CASE FreeRaises(p)
      <3> DEFINE b == Freed(p).unsaved \/ Linked(p)
                 n == [Freed(p) EXCEPT !.unsaved = b]
      <3>1. mem' = [mem EXCEPT ![p] = n]
        BY <2>4 DEF FreeRaises
      <3>2. b \in BOOLEAN /\ (b => Freed(p).status # "none")
        BY <1>1, <2>1, <2>2, <2>4 DEF FreeRaises
      <3> HIDE DEF b
      <3>3. n \in Memory /\ HeldOf(n) = HeldOf(Freed(p))
            /\ n.info = Freed(p).info
        BY <1>1, <3>2 DEF Memory, MemoryRecord, HeldOf
      <3> HIDE DEF n
      <3>4. QED
        BY <3>1, <3>3
    <2>5. QED
      BY <2>3, <2>4
  <1>3. QuietMemory(p, m)
    BY <1>2, FreedFacts DEF QuietMemory, Reached
  <1>4. QuietStore /\ Return(p) /\ ~Busy(p, {"record"})
    BY SameStore DEF Free, FreeRaises, Busy, At
  <1>5. QuietCall(p)
    BY <1>2, <1>3, <1>4, QuietReturn
  <1>6. QED
    BY <1>4, <1>5, QuietKeeps

LEMMA DisconnectingKeeps ==
  ASSUME TypeOK, MappingInv, NEW p \in Procs, Disconnecting(p)
  PROVE  MappingInv'
  BY TerminateKeeps, DisconnectRaisesKeeps, UnrecordKeeps, WithdrawKeeps,
     FreeKeeps DEF Disconnecting

-----------------------------------------------------------------------------
(* Reading the store, and dying.                                             *)

LEMMA NoMemoryFacts ==
  \A s \in {"available", "in-use"} :
    LET m == [NoMemory EXCEPT !.status = s]
    IN  m \in Memory /\ HeldOf(m) = {} /\ HeldOf(NoMemory) = {}
  BY DEF NoMemory, Memory, MemoryRecord, HeldOf

LEMMA ReadingKeeps ==
  ASSUME TypeOK, MappingInv, NEW p \in Procs,
         \/ GetVolume(p) \/ ReadConnections(p) \/ Refresh(p)
         \/ \E c \in Conns : GetConnection(p, c)
  PROVE  MappingInv'
  <1>1. /\ call[p] = Idle /\ UNCHANGED <<call, used, recorded, mapped, lost>>
        /\ mem[p] \in Memory /\ row \in {"available", "in-use"}
    BY DEF GetVolume, ReadConnections, Refresh, GetConnection, May, Available,
           TypeOK
  <1>2. QuietStore /\ Return(p) /\ ~Busy(p, {"record"})
    BY <1>1, SameStore DEF Return, Busy, TypeOK
  <1>3. ASSUME NEW m \in Memory, mem' = [mem EXCEPT ![p] = m],
               HeldOf(m) \subseteq Held(p) \cup recorded,
               HeldOf(m) \ m.info \subseteq Held(p) \ mem[p].info
        PROVE  MappingInv'
    <2>1. QuietMemory(p, m)
      BY <1>3 DEF QuietMemory, Reached
    <2>2. QED
      BY <1>2, <2>1, QuietReturn, QuietKeeps
  <1> DEFINE fresh == [NoMemory EXCEPT !.status = row]
  <1>4. fresh \in Memory /\ HeldOf(fresh) = {}
    BY <1>1, NoMemoryFacts
  <1>5. CASE GetVolume(p)
    <2>1. mem' = [mem EXCEPT ![p] = fresh]
      BY <1>5 DEF GetVolume
    <2> HIDE DEF fresh
    <2>2. QED
      BY <1>3, <1>4, <2>1
  <1>6. CASE ReadConnections(p)
    <2> DEFINE m == Loaded(mem[p])
    <2>1. mem' = [mem EXCEPT ![p] = m]
      BY <1>6 DEF ReadConnections, TypeOK
    <2>2. /\ m \in Memory /\ HeldOf(m) \subseteq Held(p) \cup recorded
          /\ HeldOf(m) \ m.info \subseteq Held(p) \ mem[p].info
      BY <1>1, WithConnectionsFacts DEF Held
    <2> HIDE DEF m
    <2>3. QED
      BY <1>3, <2>1, <2>2
  <1>7. CASE Refresh(p)
    <2> DEFINE m == [Loaded(fresh) EXCEPT !.twins = recorded]
    <2> HIDE DEF fresh
    <2>1. /\ Loaded(fresh) \in Memory /\ HeldOf(Loaded(fresh)) \subseteq recorded
          /\ HeldOf(Loaded(fresh)) \ Loaded(fresh).info = {}
      BY <1>4, WithConnectionsFacts
    <2>2. recorded \in SUBSET Conns
      BY DEF TypeOK
    <2>3. /\ m \in Memory /\ HeldOf(m) = HeldOf(Loaded(fresh))
          /\ m.info = Loaded(fresh).info
      BY <2>1, <2>2 DEF HeldOf, Memory, MemoryRecord
    <2> HIDE DEF m
    <2>4. mem' = [mem EXCEPT ![p] = m] \/ mem' = [mem EXCEPT ![p] = fresh]
      BY <1>7 DEF Refresh, TypeOK, fresh, m
    <2>5. QED
      BY <1>3, <1>4, <2>1, <2>3, <2>4
  <1>8. CASE \E c \in Conns : GetConnection(p, c)
    <2>1. PICK c \in Conns : GetConnection(p, c)
      BY <1>8
    <2> DEFINE m == [mem[p] EXCEPT
                       !.held = @ \cup {c}, !.info = @ \cup {c},
                       !.device = (@ \ {c}) \cup (devices \cap {c})]
    <2>2. /\ m \in Memory /\ HeldOf(m) \subseteq Held(p) \cup {c}
          /\ m.info = mem[p].info \cup {c}
      BY <1>1 DEF Memory, MemoryRecord, HeldOf, Held
    <2>3. mem' = [mem EXCEPT ![p] = m] /\ c \in recorded
      BY <2>1 DEF GetConnection, TypeOK
    <2> HIDE DEF m
    <2>4. QED
      BY <1>3, <2>2, <2>3
  <1>9. QED
    BY <1>5, <1>6, <1>7, <1>8

LEMMA CrashKeeps ==
  ASSUME TypeOK, MappingInv, NEW p \in Procs, Crash(p)
  PROVE  MappingInv'
  <1>1. NoMemory \in Memory /\ HeldOf(NoMemory) = {}
    BY NoMemoryTyped, NoMemoryFacts
  <1>2. QuietStore
    BY SameStore DEF Crash, Loses
  <1>3. Busy(p, {"record"}) => Conn(p) \notin Live'
    BY DEF Crash, Busy, Available, Loses, Live
  <1>4. QuietMemory(p, NoMemory)
    BY <1>1 DEF Crash, QuietMemory
  <1>5. QuietCall(p)
    BY <1>1, <1>3, <1>4, QuietReturn DEF Crash
  <1>6. QED
    BY <1>2, <1>5, QuietKeeps

LEMMA InitMapping == Init => MappingInv
  <1> SUFFICES ASSUME Init
               PROVE  MappingInv
    OBVIOUS
  <1>1. \A p \in Procs : call[p] = Idle /\ Held(p) = {} /\ Carried(p) = {}
                         /\ Reached(p) = {} /\ \A pcs : ~Busy(p, pcs)
    BY DEF Init, Held, HeldOf, NoMemory, Carried, Idling, Reached, Busy
  <1>2. Live = {} /\ mapped = {} /\ recorded = {}
    BY DEF Init, Live
  <1>3. QED
    BY <1>1, <1>2 DEF MappingInv, Drawn, Shape, Fresh, Informed, Terminates,
                      NoLeakedMapping

LEMMA NextMapping ==
  ASSUME TypeOK, MappingInv, [Next]_vars
  PROVE  MappingInv'
  <1>1. ASSUME NEW p \in Procs, Client(p)
        PROVE  MappingInv'
    <2>1. ASSUME NEW c \in Conns, NEW op \in {"connect", "attach"},
                 StartConnect(p, op, c)
          PROVE  MappingInv'
      BY <2>1, StartConnectKeeps
    <2>2. QED
      BY <1>1, <2>1, StartsKeep, StartCleanupKeeps, ReadingKeeps DEF Client
  <1>2. CASE UNCHANGED vars
    BY <1>2 DEF vars, MappingInv, Drawn, Shape, Fresh, Informed, Terminates,
                NoLeakedMapping, Working, Busy, Conn, Held, Carried, Idling,
                Reached, Live
  <1>3. QED
    BY <1>1, <1>2, ConnectingKeeps, AttachingKeeps, DetachingKeeps,
       DisconnectingKeeps, CrashKeeps DEF Next

(* However the calls of the processes interleave, no mapping stays on the    *)
(* array without a row: connect records what it mapped, and disconnect       *)
(* deletes a row only when its mapping is gone, also when it was called      *)
(* before and failed half way.                                               *)
THEOREM NoMappingLeaks == Spec => []NoLeakedMapping
  <1>1. Init => TypeOK /\ MappingInv
    BY InitTyped, InitMapping
  <1>2. TypeOK /\ MappingInv /\ [Next]_vars => (TypeOK /\ MappingInv)'
    BY NextTyped, NextMapping
  <1>3. MappingInv => NoLeakedMapping
    BY DEF MappingInv
  <1>4. QED
    BY <1>1, <1>2, <1>3, PTL DEF Spec

-----------------------------------------------------------------------------
(* The export.  What keeps it in place is a recorded connection, one that a  *)
(* fault left half done, or a call that will record a connection or remove   *)
(* the export.  A connection to be terminated is no reason: another process  *)
(* may have deleted its row, and then it is that process that removes the    *)
(* export.                                                                   *)

Exporting(p) ==
  /\ call[p] # Idle
  /\ \/ call[p].pc \in {"update", "initialize", "record", "unexport"}
     \/ call[p].pc = "withdraw" /\ call[p].op # "cleanup"

ExportInv ==
  exported => recorded \cup lost # {} \/ \E p \in Procs : Exporting(p)

StepOf(p) == /\ \A q \in Procs \ {p} : call'[q] = call[q]
             /\ lost \subseteq lost'

LEMMA ExportStep ==
  ASSUME ExportInv, NEW p \in Procs, StepOf(p),
         \/ exported' = FALSE
         \/ Exporting(p)'
         \/ recorded' \cup lost' # {}
         \/ exported' = exported /\ recorded \subseteq recorded' /\ ~Exporting(p)
  PROVE  ExportInv'
  <1>1. CASE exported' = FALSE \/ Exporting(p)' \/ recorded' \cup lost' # {}
    BY <1>1 DEF ExportInv
  <1>2. CASE exported' = exported /\ recorded \subseteq recorded' /\ ~Exporting(p)
    <2>1. ASSUME NEW q \in Procs, Exporting(q)
          PROVE  Exporting(q)'
      BY <1>2, <2>1 DEF Exporting, StepOf
    <2>2. QED
      BY <1>2, <2>1 DEF ExportInv, StepOf
  <1>3. QED
    BY <1>1, <1>2

(* Only the call of the process that takes the step changes.                 *)
LEMMA OwnCall ==
  ASSUME TypeOK, NEW p \in Procs,
         \/ UNCHANGED call
         \/ \E next : call' = [call EXCEPT ![p] = next]
  PROVE  \A q \in Procs \ {p} : call'[q] = call[q]
  BY DEF TypeOK

LEMMA CallSteps ==
  ASSUME TypeOK, NEW p \in Procs
  PROVE  /\ Return(p) => \E next : call' = [call EXCEPT ![p] = next]
         /\ \A pc : GoTo(p, pc) => \E next : call' = [call EXCEPT ![p] = next]
         /\ \A op, pc, c, force, ignore, todo :
              Begin(p, op, pc, c, force, ignore, todo) =>
                \E next : call' = [call EXCEPT ![p] = next]
         /\ Detached(p) \/ DetachFailed(p) \/ AttachFailed(p) =>
              \E next : call' = [call EXCEPT ![p] = next]
  <1>1. Return(p) => \E next : call' = [call EXCEPT ![p] = next]
    BY DEF Return
  <1>2. \A pc : GoTo(p, pc) => \E next : call' = [call EXCEPT ![p] = next]
    <2>1. ASSUME NEW pc, GoTo(p, pc)
          PROVE  call' = [call EXCEPT ![p] = [call[p] EXCEPT !.pc = pc]]
      BY <2>1 DEF GoTo, TypeOK
    <2>2. QED
      BY <2>1
  <1>3. \A op, pc, c, force, ignore, todo :
          Begin(p, op, pc, c, force, ignore, todo) =>
            \E next : call' = [call EXCEPT ![p] = next]
    BY DEF Begin
  <1>4. ASSUME NEW c, call' = [call EXCEPT ![p].pc = "unplug", ![p].conn = c,
                                           ![p].todo = @ \ {c}]
        PROVE  \E next : call' = [call EXCEPT ![p] = next]
    <2>1. call' = [call EXCEPT ![p] = [call[p] EXCEPT !.pc = "unplug", !.conn = c,
                                                      !.todo = @ \ {c}]]
      BY <1>4 DEF TypeOK
    <2>2. QED
      BY <2>1
  <1>5. Detached(p) \/ DetachFailed(p) \/ AttachFailed(p) =>
          \E next : call' = [call EXCEPT ![p] = next]
    BY <1>1, <1>2, <1>4 DEF Detached, DetachFailed, AttachFailed
  <1>6. QED
    BY <1>1, <1>2, <1>3, <1>5

LEMMA GoesTo ==
  ASSUME TypeOK, NEW p \in Procs, call[p] # Idle, NEW pc, GoTo(p, pc)
  PROVE  call'[p] # Idle /\ call'[p].pc = pc /\ call'[p].op = call[p].op
  <1>1. call[p] \in Call /\ call'[p] = [call[p] EXCEPT !.pc = pc]
    BY CallTyped DEF GoTo, TypeOK
  <1>2. call'[p].op = call[p].op /\ call[p].op # "idle" /\ call'[p].pc = pc
    BY <1>1 DEF Call
  <1>3. QED
    BY <1>2 DEF Idle

LEMMA ConnectingExport ==
  ASSUME TypeOK, MappingInv, ExportInv, NEW p \in Procs, Connecting(p)
  PROVE  ExportInv'
  <1>1. call[p] # Idle
    BY DEF Connecting, Export, ExportRaises, SaveUpdate, SaveUpdateRaises,
           Initialize, InitializeRaises, Record, RecordRaises, MarkInUse,
           MarkInUseRaises, Unexport, UnexportRaises, At
  <1>2. StepOf(p)
    <2>1. lost \subseteq lost'
      BY DEF Connecting, Export, ExportRaises, SaveUpdate, SaveUpdateRaises,
             Initialize, InitializeRaises, Record, RecordRaises, MarkInUse,
             MarkInUseRaises, Unexport, UnexportRaises, Loses
    <2>2. Return(p) \/ \E pc : GoTo(p, pc)
      BY DEF Connecting, Export, ExportRaises, SaveUpdate, SaveUpdateRaises,
             Initialize, InitializeRaises, Record, RecordRaises, MarkInUse,
             MarkInUseRaises, Unexport, UnexportRaises
    <2>3. QED
      BY <2>1, <2>2, CallSteps, OwnCall DEF StepOf
  <1>3. \A pc \in {"update", "initialize", "record", "unexport"} :
          GoTo(p, pc) => Exporting(p)'
    BY <1>1, GoesTo DEF Exporting
  <1>4. CASE Export(p) \/ SaveUpdate(p) \/ Initialize(p) \/ InitializeRaises(p)
               \/ RecordRaises(p) \/ MarkInUseRaises(p)
    BY <1>2, <1>3, <1>4, ExportStep
       DEF Export, SaveUpdate, Initialize, InitializeRaises, RecordRaises,
           MarkInUseRaises
  <1>5. CASE Unexport(p) \/ UnexportRaises(p)
    BY <1>2, <1>5, ExportStep DEF Unexport, UnexportRaises, Loses
  <1>6. CASE SaveUpdateRaises(p) \/ Record(p)
    BY <1>2, <1>6, ExportStep DEF SaveUpdateRaises, Record, Loses
  <1>7. CASE ExportRaises(p) \/ MarkInUse(p)
    <2>1. ~Exporting(p)
      BY <1>7 DEF ExportRaises, MarkInUse, At, Exporting
    <2>2. QED
      BY <1>2, <1>7, <2>1, ExportStep DEF ExportRaises, MarkInUse, Loses
  <1>8. QED
    BY <1>4, <1>5, <1>6, <1>7 DEF Connecting

(* attach and detach leave the export and the rows alone.                    *)
LEMMA AttachingExport ==
  ASSUME TypeOK, MappingInv, ExportInv, NEW p \in Procs,
         Attaching(p) \/ Detaching(p)
  PROVE  ExportInv'
  <1>1. UNCHANGED <<exported, recorded>> /\ lost \subseteq lost'
    BY DEF Attaching, Detaching, Plug, PlugRaises, SaveDevice,
           SaveDeviceRaises, CheckPasses, CheckFails, Unplug, UnplugRaises,
           Forget, ForgetRaises, Loses
  <1>2. ~Exporting(p)
    BY DEF Attaching, Detaching, Plug, PlugRaises, SaveDevice,
           SaveDeviceRaises, CheckPasses, CheckFails, Unplug, UnplugRaises,
           Forget, ForgetRaises, At, Exporting
  <1>3. \E next : call' = [call EXCEPT ![p] = next]
    <2>1. CASE CheckFails(p)
      <3>1. call' = [call EXCEPT ![p] = [call[p] EXCEPT
                       !.pc = "unplug", !.force = TRUE, !.ignore = TRUE]]
        BY <2>1 DEF CheckFails, TypeOK
      <3>2. QED
        BY <3>1
    <2>2. CASE ~CheckFails(p)
      BY <2>2, CallSteps
         DEF Attaching, Detaching, Plug, PlugRaises, SaveDevice,
             SaveDeviceRaises, CheckPasses, Unplug, UnplugRaises, Forget,
             ForgetRaises
    <2>3. QED
      BY <2>1, <2>2
  <1>4. StepOf(p)
    BY <1>1, <1>3, OwnCall DEF StepOf
  <1>5. QED
    BY <1>1, <1>2, <1>4, ExportStep

LEMMA DisconnectingExport ==
  ASSUME TypeOK, MappingInv, ExportInv, NEW p \in Procs, Disconnecting(p)
  PROVE  ExportInv'
  <1>1. StepOf(p)
    <2>1. lost \subseteq lost'
      BY DEF Disconnecting, Terminate, TerminateRaises, Terminated, Unrecord,
             UnrecordRaises, Withdraw, WithdrawRaises, Free, FreeRaises, Loses
    <2>2. Return(p) \/ \E pc : GoTo(p, pc)
      BY DEF Disconnecting, Terminate, TerminateRaises, Unrecord,
             UnrecordRaises, Withdraw, WithdrawRaises, Free, FreeRaises
    <2>3. QED
      BY <2>1, <2>2, CallSteps, OwnCall DEF StepOf
  <1>2. CASE Terminate(p) \/ TerminateRaises(p) \/ UnrecordRaises(p)
               \/ Free(p) \/ FreeRaises(p)
    <2>1. UNCHANGED <<exported, recorded>> /\ ~Exporting(p)
      BY <1>2 DEF Terminate, TerminateRaises, UnrecordRaises, Free,
                  FreeRaises, At, Exporting
    <2>2. QED
      BY <1>1, <2>1, ExportStep
  <1>3. CASE Unrecord(p)
    <2>1. call[p] # Idle /\ call[p].op # "cleanup" /\ GoTo(p, "withdraw")
      BY <1>3, AtFacts DEF Unrecord
    <2>2. Exporting(p)'
      BY <2>1, GoesTo DEF Exporting
    <2>3. QED
      BY <1>1, <2>2, ExportStep
  <1>4. CASE Withdraw(p)
    BY <1>1, <1>4, ExportStep DEF Withdraw
  <1>5. CASE WithdrawRaises(p)
    <2>1. call[p].op = "cleanup" => ~Exporting(p)
      BY <1>5 DEF WithdrawRaises, At, Exporting
    <2>2. QED
      BY <1>1, <1>5, <2>1, ExportStep DEF WithdrawRaises, Loses
  <1>6. QED
    BY <1>2, <1>3, <1>4, <1>5 DEF Disconnecting

LEMMA ClientExport ==
  ASSUME TypeOK, ExportInv, NEW p \in Procs, Client(p)
  PROVE  ExportInv'
  <1>1. UNCHANGED <<exported, recorded, lost>> /\ call[p] = Idle
    BY DEF Client, StartConnect, StartPlug, StartDisconnect, GetConnection,
           StartDetach, StartUnplug, StartCleanup, GetVolume, ReadConnections,
           Refresh, May, Available
  <1>2. UNCHANGED call \/ \E next : call' = [call EXCEPT ![p] = next]
    BY CallSteps
       DEF Client, StartConnect, StartPlug, StartDisconnect, GetConnection,
           StartDetach, StartUnplug, StartCleanup, GetVolume, ReadConnections,
           Refresh
  <1>3. StepOf(p) /\ ~Exporting(p)
    BY <1>1, <1>2, OwnCall DEF StepOf, Exporting
  <1>4. QED
    BY <1>1, <1>3, ExportStep

LEMMA CrashExport ==
  ASSUME TypeOK, ExportInv, NEW p \in Procs, Crash(p)
  PROVE  ExportInv'
  <1>1. StepOf(p)
    BY CallSteps, OwnCall DEF Crash, Loses, StepOf
  <1>2. UNCHANGED <<exported, recorded>>
    BY DEF Crash
  <1>3. ~Exporting(p) \/ lost' # {}
    BY DEF Crash, Available, Exporting, Loses
  <1>4. QED
    BY <1>1, <1>2, <1>3, ExportStep

LEMMA ExportIsExcused ==
  ASSUME TypeOK, ExportInv
  PROVE  NoLeakedExport
  <1> SUFFICES ASSUME exported
               PROVE  \E c \in Conns :
                        \/ c \in recorded \cup lost
                        \/ Working(c, Steps \ {"free", "export"})
    BY DEF NoLeakedExport
  <1>1. CASE recorded \cup lost # {}
    BY <1>1 DEF TypeOK
  <1>2. CASE \E p \in Procs : Exporting(p)
    <2>1. PICK p \in Procs : Exporting(p)
      BY <1>2
    <2>2. Conn(p) \in Conns
      BY <2>1, CallTyped DEF Exporting
    <2>3. Working(Conn(p), Steps \ {"free", "export"})
      BY <2>1 DEF Exporting, Working, Conn, Steps
    <2>4. QED
      BY <2>2, <2>3
  <1>3. QED
    BY <1>1, <1>2 DEF ExportInv

(* No export stays when nothing is connected or about to be: every way out   *)
(* of connect after the export, and every disconnect, removes it, unless the *)
(* driver itself fails to or the process dies.                               *)
THEOREM NoExportLeaks == Spec => []NoLeakedExport
  <1>1. Init => TypeOK /\ MappingInv /\ ExportInv
    BY InitTyped, InitMapping DEF Init, ExportInv
  <1>2. ASSUME TypeOK, MappingInv, ExportInv, [Next]_vars
        PROVE  ExportInv'
    <2>1. CASE UNCHANGED vars
      BY <1>2, <2>1 DEF vars, ExportInv, Exporting
    <2>2. QED
      BY <1>2, <2>1, ConnectingExport, AttachingExport, DisconnectingExport,
         ClientExport, CrashExport DEF Next
  <1>3. TypeOK /\ MappingInv /\ ExportInv /\ [Next]_vars
          => (TypeOK /\ MappingInv /\ ExportInv)'
    BY <1>2, NextTyped, NextMapping
  <1>4. TypeOK /\ ExportInv => NoLeakedExport
    BY ExportIsExcused
  <1>5. QED
    BY <1>1, <1>3, <1>4, PTL DEF Spec
=============================================================================
