---------------------- MODULE ConnectionsDeviceProofs -----------------------
(* The devices on the host and the status of the volume, when the calls of   *)
(* the clients do not overlap: every device is mapped and can be found by    *)
(* another process, and a volume with connections is in use.                 *)
EXTENDS ConnectionsProofs

-----------------------------------------------------------------------------
(* One call at a time.                                                       *)

Turns == Serialize \/ \A p, q \in Procs : p = q
OneCall == \A p, q \in Procs : call[p] # Idle /\ call[q] # Idle => p = q
Alone(p) == \A q \in Procs \ {p} : call[q] = Idle
OthersWait(p) == \A q \in Procs \ {p} : call'[q] = call[q]

(* What a call goes on to.                                                   *)
GoesOn(p, pc) ==
  /\ call'[p] # Idle /\ call'[p].pc = pc
  /\ call'[p].op = call[p].op /\ call'[p].conn = call[p].conn
Starts(p, op, pc, c) ==
  /\ call'[p] # Idle /\ call'[p].pc = pc
  /\ call'[p].op = op /\ call'[p].conn = c
GoesBack(p) == call'[p] = Idle

LEMMA GoToEffect ==
  ASSUME TypeOK, NEW p \in Procs, call[p] # Idle, NEW pc, GoTo(p, pc)
  PROVE  GoesOn(p, pc) /\ OthersWait(p)
<1>1. call[p] \in Call /\ call'[p] = [call[p] EXCEPT !.pc = pc] /\ OthersWait(p)
  BY CallTyped DEF GoTo, TypeOK, OthersWait
<1>2. /\ call'[p].op = call[p].op /\ call'[p].conn = call[p].conn
      /\ call'[p].pc = pc /\ call[p].op # "idle"
  BY <1>1 DEF Call
<1> QED BY <1>1, <1>2 DEF GoesOn, Idle

LEMMA ReturnEffect ==
  ASSUME TypeOK, NEW p \in Procs, Return(p)
  PROVE  GoesBack(p) /\ OthersWait(p)
BY DEF TypeOK, Return, GoesBack, OthersWait

LEMMA BeginEffect ==
  ASSUME TypeOK, NEW p \in Procs,
         NEW op \in {"connect", "attach", "detach", "disconnect", "cleanup",
                     "plug", "unplug"},
         NEW pc, NEW c, NEW force, NEW ignore, NEW todo,
         Begin(p, op, pc, c, force, ignore, todo)
  PROVE  Starts(p, op, pc, c) /\ OthersWait(p)
BY DEF TypeOK, Begin, Starts, OthersWait, Idle

LEMMA CheckFailsEffect ==
  ASSUME TypeOK, NEW p \in Procs, CheckFails(p)
  PROVE  GoesOn(p, "unplug") /\ OthersWait(p)
<1>1. call[p] \in Call
  BY AtTyped DEF CheckFails
<1> DEFINE next == [call[p] EXCEPT !.pc = "unplug", !.force = TRUE, !.ignore = TRUE]
<1>2. call'[p] = next /\ OthersWait(p)
  BY DEF CheckFails, TypeOK, OthersWait
<1>3. /\ next.op = call[p].op /\ next.conn = call[p].conn
      /\ next.pc = "unplug" /\ call[p].op # "idle"
  BY <1>1 DEF Call
<1> HIDE DEF next
<1>4. next # Idle
  BY <1>3 DEF Idle
<1> QED BY <1>2, <1>3, <1>4 DEF GoesOn

LEMMA DetachedEffect ==
  ASSUME TypeOK, NEW p \in Procs, call[p] # Idle, Detached(p)
  PROVE  /\ OthersWait(p)
         /\ \/ GoesBack(p) \/ GoesOn(p, "terminate")
            \/ call'[p] # Idle /\ call'[p].pc = "unplug" /\ call'[p].op = "cleanup"
            \/ call[p].op = "cleanup" /\ GoesOn(p, "withdraw")
<1>1. call[p] \in Call
  BY CallTyped
<1>2. ASSUME NEW c, call[p].op = "cleanup",
             call' = [call EXCEPT ![p].pc = "unplug", ![p].conn = c, ![p].todo = @ \ {c}]
      PROVE  /\ OthersWait(p)
             /\ call'[p] # Idle /\ call'[p].pc = "unplug" /\ call'[p].op = "cleanup"
  <2> DEFINE next == [call[p] EXCEPT !.pc = "unplug", !.conn = c, !.todo = @ \ {c}]
  <2>1. call'[p] = next /\ OthersWait(p)
    BY <1>2 DEF TypeOK, OthersWait
  <2>2. next.op = "cleanup" /\ next.pc = "unplug"
    BY <1>1, <1>2 DEF Call
  <2> HIDE DEF next
  <2>3. next # Idle
    BY <2>2 DEF Idle
  <2> QED BY <2>1, <2>2, <2>3
<1>3. \/ Return(p) \/ GoTo(p, "terminate")
      \/ call[p].op = "cleanup" /\ GoTo(p, "withdraw")
      \/ call[p].op = "cleanup" /\ \E c \in call[p].todo :
           call' = [call EXCEPT ![p].pc = "unplug", ![p].conn = c, ![p].todo = @ \ {c}]
  BY DEF Detached
<1> QED BY <1>2, <1>3, GoToEffect, ReturnEffect

(* Whoever acts, but for a crash, is the only one in a call.                 *)
LEMMA ActsAlone ==
  ASSUME TypeOK, Turns, OneCall, NEW p \in Procs,
         Client(p) \/ Connecting(p) \/ Attaching(p) \/ Detaching(p) \/ Disconnecting(p)
  PROVE  Alone(p)
<1>1. CASE Client(p)
  BY <1>1 DEF Client, StartConnect, StartPlug, StartDisconnect, GetConnection,
     StartDetach, StartUnplug, StartCleanup, GetVolume, ReadConnections, Refresh,
     May, Available, Turns, Alone
<1>2. CASE Connecting(p) \/ Attaching(p) \/ Detaching(p) \/ Disconnecting(p)
  <2>1. call[p] # Idle
    BY <1>2
    DEF Connecting, Export, ExportRaises, SaveUpdate, SaveUpdateRaises,
        Initialize, InitializeRaises, Record, RecordRaises, MarkInUse,
        MarkInUseRaises, Unexport, UnexportRaises,
        Attaching, Plug, PlugRaises, SaveDevice, SaveDeviceRaises, CheckPasses,
        CheckFails, Detaching, Unplug, UnplugRaises, Forget, ForgetRaises,
        Disconnecting, Terminate, TerminateRaises, Unrecord, UnrecordRaises,
        Withdraw, WithdrawRaises, Free, FreeRaises, At
  <2> QED BY <2>1 DEF OneCall, Alone
<1> QED BY <1>1, <1>2

-----------------------------------------------------------------------------
(* The devices.  A connection that is about to be terminated has no device   *)
(* any more, and one that is being made has none yet.                        *)

AttachPcs == EarlyPcs \cup {"in-use", "plug"}
Unplugged(p) == Busy(p, {"forget", "terminate", "unrecord"}) => Conn(p) \notin plugged \ lost
Unmade(p) ==
  call[p] # Idle /\ call[p].op \in {"connect", "attach"} /\ call[p].pc \in AttachPcs =>
    Conn(p) \notin plugged
DeviceInv ==
  /\ OneCall
  /\ plugged \subseteq used
  /\ NoForgottenDevice
  /\ DeviceIsMapped
  /\ \A p \in Procs : Unplugged(p) /\ Unmade(p)

(* What has to be shown of the only process that is in a call.               *)
LEMMA DeviceLocal ==
  ASSUME TypeOK, TypeOK', NEW p \in Procs, Alone(p), OthersWait(p),
         plugged' \subseteq used',
         plugged' \ lost' \subseteq mapped',
         \A c \in plugged' \ lost' :
           c \in devices' \cap recorded' \/ (Busy(p, {"device"})' /\ Conn(p)' = c),
         Unplugged(p)', Unmade(p)'
  PROVE  DeviceInv'
<1>1. OneCall'
  BY DEF OneCall, Alone, OthersWait
<1>2. NoForgottenDevice'
  BY DEF NoForgottenDevice, Working, Busy, Conn
<1>3. \A q \in Procs \ {p} : call'[q] = Idle
  BY DEF Alone, OthersWait
<1>4. \A q \in Procs \ {p} : Unplugged(q)' /\ Unmade(q)'
  BY <1>3 DEF Unplugged, Unmade, Busy
<1> QED BY <1>1, <1>2, <1>4 DEF DeviceInv, DeviceIsMapped

(* Most steps take nothing away, and plug nothing.                           *)
LEMMA DevicesStay ==
  ASSUME TypeOK, TypeOK', DeviceInv, NEW p \in Procs, Alone(p), OthersWait(p),
         plugged' = plugged, mapped \subseteq mapped', recorded \subseteq recorded',
         devices \subseteq devices', lost \subseteq lost', used \subseteq used',
         Busy(p, {"device"}) => Conn(p) \in lost' \cup (devices' \cap recorded'),
         Unplugged(p)', Unmade(p)'
  PROVE  DeviceInv'
<1>1. plugged' \subseteq used' /\ plugged' \ lost' \subseteq mapped'
  BY DEF DeviceInv, DeviceIsMapped
<1>2. \A c \in plugged' \ lost' : c \in devices' \cap recorded'
  <2> SUFFICES ASSUME NEW c \in plugged' \ lost' PROVE c \in devices' \cap recorded'
    OBVIOUS
  <2>1. c \in devices \cap recorded \/ Working(c, {"device"})
    BY DEF DeviceInv, NoForgottenDevice
  <2>2. Working(c, {"device"}) => Busy(p, {"device"}) /\ Conn(p) = c
    BY DEF Working, Alone, Busy, Conn
  <2> QED BY <2>1, <2>2
<1> QED BY <1>1, <1>2, DeviceLocal

LEMMA ClientDevices ==
  ASSUME TypeOK, TypeOK', Turns, MappingInv, DeviceInv, NEW p \in Procs, Client(p)
  PROVE  DeviceInv'
<1>1. /\ UNCHANGED <<plugged, mapped, recorded, devices, lost>> /\ call[p] = Idle
      /\ used \subseteq used'
  BY DEF Client, StartConnect, StartPlug, StartDisconnect, GetConnection,
     StartDetach, StartUnplug, StartCleanup, GetVolume, ReadConnections, Refresh,
     May, Available
<1>2. Alone(p)
  BY ActsAlone DEF DeviceInv
<1>3. ~Busy(p, {"device"})
  BY <1>1 DEF Busy
<1>4. \A c \in plugged \ lost : c \in devices
  BY <1>1, <1>2 DEF DeviceInv, NoForgottenDevice, Working, Alone
<1>5. OthersWait(p) /\ Unplugged(p)' /\ Unmade(p)'
  <2>1. CASE \E c \in Conns, op \in {"connect", "attach"} : StartConnect(p, op, c)
    <3>1. PICK c \in Conns, op \in {"connect", "attach"} : StartConnect(p, op, c)
      BY <2>1
    <3>2. Starts(p, op, "export", c) /\ OthersWait(p)
      BY <3>1, BeginEffect DEF StartConnect
    <3>3. c \notin plugged
      BY <3>1 DEF StartConnect, DeviceInv
    <3> QED BY <1>1, <3>2, <3>3 DEF Starts, Unplugged, Unmade, Busy, Conn
  <2>2. CASE \E c \in Conns : StartPlug(p, c)
    BY <2>2, BeginEffect DEF StartPlug, Starts, Unplugged, Unmade, Busy
  <2>3. CASE \E c \in Conns : StartDisconnect(p, c)
    <3>1. PICK c \in Conns : StartDisconnect(p, c)
      BY <2>3
    <3>2. Starts(p, "disconnect", "terminate", c) /\ OthersWait(p)
      BY <3>1, BeginEffect DEF StartDisconnect
    <3>3. c \notin plugged \ lost
      BY <1>4, <3>1 DEF StartDisconnect
    <3> QED BY <1>1, <3>2, <3>3 DEF Starts, Unplugged, Unmade, Busy, Conn
  <2>4. CASE \E force, ignore \in BOOLEAN :
               \/ StartDetach(p, force, ignore)
               \/ \E c \in Conns : StartUnplug(p, c, force, ignore)
    BY <2>4, BeginEffect DEF StartDetach, StartUnplug, Starts, Unplugged, Unmade, Busy
  <2>5. CASE StartCleanup(p)
    <3> DEFINE all == WithConnections(mem[p]).listed
    <3>1. \/ \E c \in all : Begin(p, "cleanup", "unplug", c, FALSE, FALSE, all \ {c})
          \/ \E c \in Conns : Begin(p, "cleanup", "withdraw", c, FALSE, FALSE, {})
      BY <2>5 DEF StartCleanup
    <3> HIDE DEF all
    <3>2. ASSUME NEW c, NEW todo, NEW pc \in {"unplug", "withdraw"},
                 Begin(p, "cleanup", pc, c, FALSE, FALSE, todo)
          PROVE  OthersWait(p) /\ Unplugged(p)' /\ Unmade(p)'
      <4>1. Starts(p, "cleanup", pc, c) /\ OthersWait(p)
        BY <3>2, BeginEffect
      <4> QED BY <4>1 DEF Starts, Unplugged, Unmade, Busy
    <3>3. CASE \E c \in all : Begin(p, "cleanup", "unplug", c, FALSE, FALSE, all \ {c})
      <4>1. PICK c \in all : Begin(p, "cleanup", "unplug", c, FALSE, FALSE, all \ {c})
        BY <3>3
      <4> QED BY <4>1, <3>2
    <3>4. CASE \E c \in Conns : Begin(p, "cleanup", "withdraw", c, FALSE, FALSE, {})
      BY <3>2, <3>4
    <3> QED BY <3>1, <3>3, <3>4
  <2>6. CASE \/ \E c \in Conns : GetConnection(p, c)
             \/ GetVolume(p) \/ ReadConnections(p) \/ Refresh(p)
    BY <1>1, <2>6 DEF GetConnection, GetVolume, ReadConnections, Refresh,
                      OthersWait, Unplugged, Unmade, Busy
  <2> QED BY <2>1, <2>2, <2>3, <2>4, <2>5, <2>6 DEF Client
<1> QED BY <1>1, <1>2, <1>3, <1>5, DevicesStay

LEMMA ConnectingDevices ==
  ASSUME TypeOK, TypeOK', Turns, MappingInv, DeviceInv, NEW p \in Procs, Connecting(p)
  PROVE  DeviceInv'
<1> USE DEF Connecting, Export, ExportRaises, SaveUpdate, SaveUpdateRaises,
            Initialize, InitializeRaises, Record, RecordRaises, MarkInUse,
            MarkInUseRaises, Unexport, UnexportRaises
<1>1. /\ call[p] # Idle /\ UNCHANGED <<plugged, devices, used>>
      /\ mapped \subseteq mapped' /\ recorded \subseteq recorded' /\ lost \subseteq lost'
  BY DEF At, Loses
<1>2. ~Busy(p, {"device"}) /\ ~Busy(p, {"forget", "terminate", "unrecord"})
  BY DEF At, Busy
<1>3. Alone(p)
  BY ActsAlone DEF DeviceInv
<1>4. \/ Return(p) \/ GoTo(p, "unexport")
      \/ \E pc \in AttachPcs : GoTo(p, pc) /\ call[p].pc \in AttachPcs
  BY DEF At, AttachPcs, EarlyPcs
<1>5. OthersWait(p) /\ Unplugged(p)' /\ Unmade(p)'
  <2>1. CASE Return(p)
    BY <2>1, ReturnEffect DEF GoesBack, Unplugged, Unmade, Busy
  <2>2. CASE GoTo(p, "unexport")
    BY <1>1, <2>2, GoToEffect DEF GoesOn, Unplugged, Unmade, Busy, AttachPcs, EarlyPcs
  <2>3. CASE \E pc \in AttachPcs : GoTo(p, pc) /\ call[p].pc \in AttachPcs
    <3>1. PICK pc \in AttachPcs : GoTo(p, pc) /\ call[p].pc \in AttachPcs
      BY <2>3
    <3>2. GoesOn(p, pc) /\ OthersWait(p)
      BY <1>1, <3>1, GoToEffect
    <3>3. Unmade(p)
      BY DEF DeviceInv
    <3>4. Unplugged(p)'
      BY <3>2 DEF GoesOn, Unplugged, Busy, AttachPcs, EarlyPcs
    <3> QED BY <1>1, <3>1, <3>2, <3>3, <3>4 DEF GoesOn, Unmade, Conn
  <2> QED BY <1>4, <2>1, <2>2, <2>3
<1> QED BY <1>1, <1>2, <1>3, <1>5, DevicesStay

(* A call that goes on to disconnect has nothing plugged.                    *)
LEMMA EndsUnplugged ==
  ASSUME TypeOK, NEW p \in Procs, call[p] # Idle,
         NEW pc \in {"check", "device", "unplug", "withdraw", "free"},
         \/ Return(p) \/ GoTo(p, pc)
         \/ \E next \in {"forget", "terminate", "unrecord"} : GoTo(p, next) /\ Conn(p) \notin plugged' \ lost'
  PROVE  OthersWait(p) /\ Unplugged(p)' /\ Unmade(p)'
<1>1. CASE Return(p)
  BY <1>1, ReturnEffect DEF GoesBack, Unplugged, Unmade, Busy
<1>2. CASE GoTo(p, pc)
  BY <1>2, GoToEffect DEF GoesOn, Unplugged, Unmade, Busy, AttachPcs, EarlyPcs
<1>3. CASE \E next \in {"forget", "terminate", "unrecord"} :
             GoTo(p, next) /\ Conn(p) \notin plugged' \ lost'
  <2>1. PICK next \in {"forget", "terminate", "unrecord"} :
          GoTo(p, next) /\ Conn(p) \notin plugged' \ lost'
    BY <1>3
  <2>2. GoesOn(p, next) /\ OthersWait(p)
    BY <2>1, GoToEffect
  <2> QED BY <2>1, <2>2 DEF GoesOn, Unplugged, Unmade, Busy, Conn, AttachPcs, EarlyPcs
<1> QED BY <1>1, <1>2, <1>3

LEMMA PlugDevices ==
  ASSUME TypeOK, TypeOK', Turns, MappingInv, DeviceInv, NEW p \in Procs, Plug(p)
  PROVE  DeviceInv'
<1>1. /\ call[p] # Idle /\ call[p].pc = "plug" /\ GoTo(p, "device")
      /\ plugged' = plugged \cup {Conn(p)} /\ Conn(p) \in mapped
      /\ UNCHANGED <<mapped, recorded, devices, used, lost>>
  BY DEF Plug, At, Presented
<1>2. Alone(p)
  BY ActsAlone DEF DeviceInv, Attaching
<1>3. Conn(p) \in used
  BY AtFacts DEF Plug, MappingInv, Drawn
<1>4. GoesOn(p, "device") /\ OthersWait(p) /\ Unplugged(p)' /\ Unmade(p)'
  BY <1>1, GoToEffect, EndsUnplugged
<1>5. Busy(p, {"device"})' /\ Conn(p)' = Conn(p)
  BY <1>4 DEF GoesOn, Busy, Conn
<1>6. \A c \in plugged \ lost : c \in devices \cap recorded
  BY <1>1, <1>2 DEF DeviceInv, NoForgottenDevice, Working, Alone
<1> QED BY <1>1, <1>2, <1>3, <1>4, <1>5, <1>6, DeviceLocal DEF DeviceInv, DeviceIsMapped

(* What os-brick attached although it raised is lost, whoever asked for it.   *)
LEMMA PlugRaisesDevices ==
  ASSUME TypeOK, TypeOK', Turns, MappingInv, DeviceInv, NEW p \in Procs, PlugRaises(p)
  PROVE  DeviceInv'
<1>1. /\ call[p] # Idle /\ call[p].pc = "plug"
      /\ UNCHANGED <<mapped, recorded, devices, used>>
      /\ \/ plugged' = plugged /\ lost' = lost
         \/ plugged' = plugged \cup {Conn(p)} /\ lost' = lost \cup {Conn(p)}
  BY DEF PlugRaises, At, Loses
<1>2. Alone(p)
  BY ActsAlone DEF DeviceInv, Attaching
<1>3. Conn(p) \in used
  BY AtFacts DEF PlugRaises, MappingInv, Drawn
<1>4. \A c \in plugged' \ lost' : c \in devices' \cap recorded' \cap mapped'
  BY <1>1, <1>2 DEF DeviceInv, DeviceIsMapped, NoForgottenDevice, Working, Alone
<1>5. Return(p) \/ (call[p].op = "attach" /\ GoTo(p, "terminate"))
  BY DEF PlugRaises, AttachFailed
<1>6. call[p].op = "attach" => Conn(p) \notin plugged' \ lost'
  BY <1>1 DEF DeviceInv, Unmade, AttachPcs
<1>7. OthersWait(p) /\ Unplugged(p)' /\ Unmade(p)'
  BY <1>1, <1>5, <1>6, EndsUnplugged
<1>8. plugged' \subseteq used'
  BY <1>1, <1>3 DEF DeviceInv
<1> QED BY <1>2, <1>4, <1>7, <1>8, DeviceLocal

LEMMA AttachingDevices ==
  ASSUME TypeOK, TypeOK', Turns, MappingInv, DeviceInv, NEW p \in Procs, Attaching(p)
  PROVE  DeviceInv'
<1>1. CASE Plug(p)
  BY <1>1, PlugDevices
<1>2. CASE PlugRaises(p)
  BY <1>2, PlugRaisesDevices
<1>3. CASE ~Plug(p) /\ ~PlugRaises(p)
  <2> USE <1>3 DEF Attaching, SaveDevice, SaveDeviceRaises, CheckPasses, CheckFails
  <2>1. /\ call[p] # Idle /\ UNCHANGED <<plugged, mapped, recorded, used>>
        /\ devices \subseteq devices' /\ lost \subseteq lost'
    BY DEF At, Loses
  <2>2. Alone(p)
    BY ActsAlone DEF DeviceInv
  <2>3. Busy(p, {"device"}) => Conn(p) \in lost' \cup (devices' \cap recorded')
    BY DEF Busy, At, Loses
  <2>4. CASE CheckFails(p)
    <3>1. OthersWait(p) /\ Unplugged(p)' /\ Unmade(p)'
      BY <2>4, CheckFailsEffect DEF GoesOn, Unplugged, Unmade, Busy, AttachPcs, EarlyPcs
    <3> QED BY <2>1, <2>2, <2>3, <3>1, DevicesStay
  <2>5. CASE SaveDevice(p) \/ SaveDeviceRaises(p) \/ CheckPasses(p)
    <3>1. \/ Return(p) \/ GoTo(p, "check")
          \/ call[p].op = "attach" /\ GoTo(p, "terminate")
               /\ Conn(p) \in lost'
      BY <2>5 DEF AttachFailed, Loses, At
    <3>2. OthersWait(p) /\ Unplugged(p)' /\ Unmade(p)'
      BY <2>1, <3>1, EndsUnplugged
    <3> QED BY <2>1, <2>2, <2>3, <3>2, DevicesStay
  <2> QED BY <2>4, <2>5
<1> QED BY <1>1, <1>2, <1>3

LEMMA DetachedDevices ==
  ASSUME TypeOK, NEW p \in Procs, call[p] # Idle, Detached(p) \/ DetachFailed(p),
         Conn(p) \notin plugged' \ lost'
  PROVE  OthersWait(p) /\ Unplugged(p)' /\ Unmade(p)'
<1>1. CASE DetachFailed(p)
  BY <1>1, EndsUnplugged DEF DetachFailed
<1>2. CASE Detached(p)
  <2>1. Conn(p)' = Conn(p) \/ ~GoesOn(p, "terminate")
    BY DEF GoesOn, Conn
  <2> QED BY <1>2, <2>1, DetachedEffect DEF GoesOn, GoesBack, Unplugged, Unmade, Busy, AttachPcs, EarlyPcs
<1> QED BY <1>1, <1>2

LEMMA DetachingDevices ==
  ASSUME TypeOK, TypeOK', Turns, MappingInv, DeviceInv, NEW p \in Procs, Detaching(p)
  PROVE  DeviceInv'
<1>1. Alone(p)
  BY ActsAlone DEF DeviceInv
<1>2. call[p] # Idle /\ ~Busy(p, {"device"})
  BY DEF Detaching, Unplug, UnplugRaises, Forget, ForgetRaises, At, Busy
<1>3. \A c \in plugged \ lost : c \in devices \cap recorded
  BY <1>1, <1>2 DEF DeviceInv, NoForgottenDevice, Working, Alone, Busy
<1>4. CASE Unplug(p)
  <2>1. /\ plugged' = plugged \ {Conn(p)} /\ GoTo(p, "forget")
        /\ UNCHANGED <<mapped, recorded, devices, used, lost>>
    BY <1>4 DEF Unplug
  <2>2. OthersWait(p) /\ Unplugged(p)' /\ Unmade(p)'
    BY <1>2, <2>1, EndsUnplugged
  <2> QED BY <1>1, <1>3, <2>1, <2>2, DeviceLocal DEF DeviceInv, DeviceIsMapped
<1>5. CASE UnplugRaises(p)
  <2>1. /\ UNCHANGED <<mapped, recorded, devices, used>>
        /\ plugged' \subseteq plugged /\ plugged' \ lost' \subseteq plugged \ lost
    BY <1>5 DEF UnplugRaises, Loses
  <2>2. \/ Return(p)
        \/ /\ \E next \in {"forget", "terminate"} : GoTo(p, next)
           /\ Conn(p) \notin plugged' \ lost'
    BY <1>5 DEF UnplugRaises, Loses, DetachFailed
  <2>3. OthersWait(p) /\ Unplugged(p)' /\ Unmade(p)'
    BY <1>2, <2>2, EndsUnplugged
  <2>4. plugged' \subseteq used' /\ plugged' \ lost' \subseteq mapped'
    BY <2>1 DEF DeviceInv, DeviceIsMapped
  <2>5. \A c \in plugged' \ lost' : c \in devices' \cap recorded'
    BY <1>3, <2>1
  <2> QED BY <1>1, <2>3, <2>4, <2>5, DeviceLocal
<1>6. CASE Forget(p) \/ ForgetRaises(p)
  <2>1. Conn(p) \notin plugged \ lost
    BY <1>6 DEF Forget, ForgetRaises, At, DeviceInv, Unplugged, Busy
  <2>2. /\ UNCHANGED <<plugged, mapped, recorded, used, lost>>
        /\ devices' \in {devices, devices \ {Conn(p)}}
        /\ Detached(p) \/ DetachFailed(p)
    BY <1>6 DEF Forget, ForgetRaises
  <2>3. OthersWait(p) /\ Unplugged(p)' /\ Unmade(p)'
    BY <1>2, <2>1, <2>2, DetachedDevices
  <2>4. \A c \in plugged' \ lost' : c \in devices' \cap recorded'
    BY <1>3, <2>1, <2>2
  <2> QED BY <1>1, <2>2, <2>3, <2>4, DeviceLocal DEF DeviceInv, DeviceIsMapped
<1> QED BY <1>4, <1>5, <1>6 DEF Detaching

LEMMA DisconnectingDevices ==
  ASSUME TypeOK, TypeOK', Turns, MappingInv, DeviceInv, NEW p \in Procs, Disconnecting(p)
  PROVE  DeviceInv'
<1>1. Alone(p)
  BY ActsAlone DEF DeviceInv
<1> USE DEF Disconnecting, Terminate, TerminateRaises, Unrecord, UnrecordRaises,
            Withdraw, WithdrawRaises, Free, FreeRaises
<1>2. call[p] # Idle /\ ~Busy(p, {"device"})
  BY DEF At, Busy
<1>3. \A c \in plugged \ lost : c \in devices \cap recorded
  BY <1>1, <1>2 DEF DeviceInv, NoForgottenDevice, Working, Alone, Busy
<1>4. Busy(p, {"terminate", "unrecord"}) => Conn(p) \notin plugged \ lost
  BY DEF DeviceInv, Unplugged, Busy
<1>5. /\ UNCHANGED <<plugged, used>> /\ lost \subseteq lost'
      /\ recorded' = recorded \/ (recorded' = recorded \ {Conn(p)} /\ Busy(p, {"terminate", "unrecord"}))
      /\ devices' = devices \/ (devices' = devices \ {Conn(p)} /\ Busy(p, {"terminate", "unrecord"}))
      /\ \/ mapped' = mapped
         \/ mapped' = mapped \ {Conn(p)} /\ Busy(p, {"terminate", "unrecord"})
         \/ mapped' = {} /\ lost' = lost \cup mapped
  BY DEF At, Busy, Loses, Terminated
<1>6. plugged' \ lost' \subseteq mapped' /\ \A c \in plugged' \ lost' : c \in devices' \cap recorded'
  BY <1>3, <1>4, <1>5 DEF DeviceInv, DeviceIsMapped
<1>7. \/ Return(p) \/ \E pc \in {"withdraw", "free"} : GoTo(p, pc)
      \/ GoTo(p, "unrecord") /\ Busy(p, {"terminate", "unrecord"})
  BY DEF At, Busy
<1>8. OthersWait(p) /\ Unplugged(p)' /\ Unmade(p)'
  BY <1>2, <1>4, <1>5, <1>7, EndsUnplugged
<1>9. plugged' \subseteq used'
  BY <1>5 DEF DeviceInv
<1> HIDE DEF Disconnecting, Terminate, TerminateRaises, Unrecord, UnrecordRaises,
            Withdraw, WithdrawRaises, Free, FreeRaises
<1> QED BY <1>1, <1>6, <1>8, <1>9, DeviceLocal

LEMMA CrashDevices ==
  ASSUME TypeOK, TypeOK', DeviceInv, NEW p \in Procs, Crash(p)
  PROVE  DeviceInv'
<1>1. /\ UNCHANGED <<plugged, mapped, recorded, devices, used>> /\ lost \subseteq lost'
      /\ Busy(p, {"device"}) => Conn(p) \in lost'
  BY DEF Crash, Loses, Available, Busy
<1>2. GoesBack(p) /\ OthersWait(p)
  BY ReturnEffect DEF Crash
<1>3. OneCall'
  BY <1>2 DEF DeviceInv, OneCall, GoesBack, OthersWait
<1>4. \A q \in Procs : Unplugged(q)' /\ Unmade(q)'
  BY <1>1, <1>2 DEF DeviceInv, Unplugged, Unmade, Busy, Conn, GoesBack, OthersWait
<1>5. NoForgottenDevice'
  <2> SUFFICES ASSUME NEW c \in plugged \ lost', c \notin devices \cap recorded
               PROVE  Working(c, {"device"})'
    BY <1>1 DEF NoForgottenDevice
  <2>1. PICK q \in Procs : call[q] # Idle /\ call[q].conn = c /\ call[q].pc \in {"device"}
    BY <1>1 DEF DeviceInv, NoForgottenDevice, Working
  <2>2. q # p
    BY <1>1, <2>1 DEF Busy, Conn
  <2> QED BY <1>2, <2>1, <2>2 DEF OthersWait, Working
<1> QED BY <1>1, <1>3, <1>4, <1>5 DEF DeviceInv, DeviceIsMapped

LEMMA DeviceInvariant ==
  ASSUME Turns
  PROVE  Spec => []DeviceInv
<1>1. Init => TypeOK /\ MappingInv /\ DeviceInv
  BY InitTyped, InitMapping
  DEF Init, DeviceInv, OneCall, NoForgottenDevice, DeviceIsMapped, Unplugged, Unmade, Busy
<1>2. ASSUME TypeOK, TypeOK', MappingInv, DeviceInv, [Next]_vars
      PROVE  DeviceInv'
  <2>1. CASE UNCHANGED vars
    BY <1>2, <2>1 DEF vars, DeviceInv, OneCall, NoForgottenDevice, DeviceIsMapped,
                      Unplugged, Unmade, Busy, Conn, Working
  <2> QED BY <1>2, <2>1, ClientDevices, ConnectingDevices, AttachingDevices,
             DetachingDevices, DisconnectingDevices, CrashDevices DEF Next
<1>3. TypeOK /\ MappingInv /\ DeviceInv /\ [Next]_vars => (TypeOK /\ MappingInv /\ DeviceInv)'
  BY <1>2, NextTyped, NextMapping
<1> QED BY <1>1, <1>3, PTL DEF Spec

(* A device on the host is recorded in the row of its connection, so that    *)
(* another process can find and detach it after a crash; only the call that  *)
(* plugged it may still have to write it down.                               *)
THEOREM DevicesAreRecorded ==
  ASSUME Turns
  PROVE  Spec => []NoForgottenDevice
<1>1. DeviceInv => NoForgottenDevice
  BY DEF DeviceInv
<1> QED BY <1>1, DeviceInvariant, PTL

(* No mapping is terminated under a device of the host, whichever process    *)
(* plugged it: a disconnect comes after the device went or was given up.     *)
THEOREM DevicesAreMapped ==
  ASSUME Turns
  PROVE  Spec => []DeviceIsMapped
<1>1. DeviceInv => DeviceIsMapped
  BY DEF DeviceInv
<1> QED BY <1>1, DeviceInvariant, PTL

-----------------------------------------------------------------------------
(* The status of the volume, with one client process.  Two processes cache   *)
(* one list of connections each, and the theorem below is not true of them.  *)

OneProcess == \E p : Procs = {p}

(* The connection that is recorded and that the volume does not list yet.    *)
Marking(p) == IF Busy(p, {"in-use"}) THEN {Conn(p)} ELSE {}

(* The list of the volume object has all the rows; a change to available     *)
(* that could not be saved is still right when a later save writes it; the   *)
(* connection being freed has lost its row; and the volume's row tells.      *)
ListComplete(p) == mem[p].loaded => recorded \subseteq mem[p].listed \cup Marking(p)
UnsavedIsTrue(p) ==
  mem[p].unsaved /\ mem[p].status = "available" => recorded \subseteq Marking(p)
Freeing(p) ==
  Busy(p, {"withdraw", "free"}) /\ call[p].op # "cleanup" => Conn(p) \notin recorded
RowTells(p) == recorded \subseteq lost \cup Marking(p) \/ row = "in-use"
InUse(p) == ListComplete(p) /\ UnsavedIsTrue(p) /\ Freeing(p) /\ RowTells(p)
InUseInv == \A p \in Procs : InUse(p)

(* Most steps do not change what the volume object knows of itself.          *)
SameVolume(p) ==
  /\ mem'[p].status = mem[p].status /\ mem'[p].unsaved = mem[p].unsaved
  /\ mem'[p].loaded = mem[p].loaded /\ mem'[p].listed = mem[p].listed

LEMMA InUseStays ==
  ASSUME NEW p \in Procs, InUse(p), SameVolume(p), ~Busy(p, {"in-use"}),
         recorded' \subseteq recorded, row' = row, lost \subseteq lost', Freeing(p)'
  PROVE  InUse(p)'
<1>1. recorded \subseteq lost \/ row = "in-use"
  BY DEF InUse, RowTells, Marking
<1>2. RowTells(p)'
  BY <1>1 DEF RowTells
<1>3. mem[p].loaded => recorded \subseteq mem[p].listed
  BY DEF InUse, ListComplete, Marking
<1>4. ListComplete(p)'
  BY <1>3 DEF ListComplete, SameVolume
<1>5. mem[p].unsaved /\ mem[p].status = "available" => recorded = {}
  BY DEF InUse, UnsavedIsTrue, Marking
<1>6. UnsavedIsTrue(p)'
  BY <1>5 DEF UnsavedIsTrue, SameVolume
<1> QED BY <1>2, <1>4, <1>6 DEF InUse

LEMMA KeptMemory ==
  ASSUME TypeOK, NEW p \in Procs, mem' = mem
  PROVE  SameVolume(p)
BY DEF SameVolume

(* The fields of a volume object that an update leaves alone.                *)
LEMMA SameFields ==
  ASSUME TypeOK, NEW p \in Procs,
         \/ \E c : mem' = [mem EXCEPT ![p].device = @ \cup {c}]
         \/ \E l : mem' = [mem EXCEPT ![p].local = l]
         \/ \E d, l : mem' = [mem EXCEPT ![p].device = d, ![p].local = l]
         \/ \E i, d : mem' = [mem EXCEPT ![p].info = i, ![p].device = d]
         \/ \E h, i, d : mem' = [mem EXCEPT ![p].held = h, ![p].info = i, ![p].device = d]
  PROVE  SameVolume(p)
<1>1. mem[p] \in MemoryRecord
  BY DEF TypeOK, Memory
<1>2. CASE \E c : mem' = [mem EXCEPT ![p].device = @ \cup {c}]
  <2>1. PICK c : mem' = [mem EXCEPT ![p].device = @ \cup {c}]
    BY <1>2
  <2> DEFINE next == [mem[p] EXCEPT !.device = mem[p].device \cup {c}]
  <2>2. mem'[p] = next
    BY <2>1 DEF TypeOK
  <2>3. /\ next.status = mem[p].status /\ next.unsaved = mem[p].unsaved
        /\ next.loaded = mem[p].loaded /\ next.listed = mem[p].listed
    BY <1>1 DEF MemoryRecord
  <2> HIDE DEF next
  <2> QED BY <2>2, <2>3 DEF SameVolume
<1>3. CASE \E l : mem' = [mem EXCEPT ![p].local = l]
  <2>1. PICK l : mem' = [mem EXCEPT ![p].local = l]
    BY <1>3
  <2> DEFINE next == [mem[p] EXCEPT !.local = l]
  <2>2. mem'[p] = next
    BY <2>1 DEF TypeOK
  <2>3. /\ next.status = mem[p].status /\ next.unsaved = mem[p].unsaved
        /\ next.loaded = mem[p].loaded /\ next.listed = mem[p].listed
    BY <1>1 DEF MemoryRecord
  <2> HIDE DEF next
  <2> QED BY <2>2, <2>3 DEF SameVolume
<1>4. CASE \E d, l : mem' = [mem EXCEPT ![p].device = d, ![p].local = l]
  <2>1. PICK d, l : mem' = [mem EXCEPT ![p].device = d, ![p].local = l]
    BY <1>4
  <2> DEFINE next == [mem[p] EXCEPT !.device = d, !.local = l]
  <2>2. mem'[p] = next
    BY <2>1 DEF TypeOK
  <2>3. /\ next.status = mem[p].status /\ next.unsaved = mem[p].unsaved
        /\ next.loaded = mem[p].loaded /\ next.listed = mem[p].listed
    BY <1>1 DEF MemoryRecord
  <2> HIDE DEF next
  <2> QED BY <2>2, <2>3 DEF SameVolume
<1>5. CASE \E i, d : mem' = [mem EXCEPT ![p].info = i, ![p].device = d]
  <2>1. PICK i, d : mem' = [mem EXCEPT ![p].info = i, ![p].device = d]
    BY <1>5
  <2> DEFINE next == [mem[p] EXCEPT !.info = i, !.device = d]
  <2>2. mem'[p] = next
    BY <2>1 DEF TypeOK
  <2>3. /\ next.status = mem[p].status /\ next.unsaved = mem[p].unsaved
        /\ next.loaded = mem[p].loaded /\ next.listed = mem[p].listed
    BY <1>1 DEF MemoryRecord
  <2> HIDE DEF next
  <2> QED BY <2>2, <2>3 DEF SameVolume
<1>6. CASE \E h, i, d : mem' = [mem EXCEPT ![p].held = h, ![p].info = i, ![p].device = d]
  <2>1. PICK h, i, d : mem' = [mem EXCEPT ![p].held = h, ![p].info = i, ![p].device = d]
    BY <1>6
  <2> DEFINE next == [mem[p] EXCEPT !.held = h, !.info = i, !.device = d]
  <2>2. mem'[p] = next
    BY <2>1 DEF TypeOK
  <2>3. /\ next.status = mem[p].status /\ next.unsaved = mem[p].unsaved
        /\ next.loaded = mem[p].loaded /\ next.listed = mem[p].listed
    BY <1>1 DEF MemoryRecord
  <2> HIDE DEF next
  <2> QED BY <2>2, <2>3 DEF SameVolume
<1> QED BY <1>2, <1>3, <1>4, <1>5, <1>6

(* An object whose list comes from the store now.                            *)
LEMMA InUseReread ==
  ASSUME NEW p \in Procs, InUse(p), ~Busy(p, {"in-use"}),
         recorded' = recorded, row' = row, lost \subseteq lost', Freeing(p)',
         mem'[p].loaded => recorded \subseteq mem'[p].listed,
         mem'[p].unsaved => mem'[p].status = mem[p].status /\ mem[p].unsaved
  PROVE  InUse(p)'
<1>1. recorded \subseteq lost \/ row = "in-use"
  BY DEF InUse, RowTells, Marking
<1>2. RowTells(p)'
  BY <1>1 DEF RowTells
<1>3. ListComplete(p)'
  BY DEF ListComplete
<1>4. mem[p].unsaved /\ mem[p].status = "available" => recorded = {}
  BY DEF InUse, UnsavedIsTrue, Marking
<1>5. UnsavedIsTrue(p)'
  BY <1>4 DEF UnsavedIsTrue
<1> QED BY <1>2, <1>3, <1>5 DEF InUse

LEMMA LoadedFields ==
  ASSUME NEW m \in Memory
  PROVE  /\ Loaded(m).loaded /\ Loaded(m).listed = recorded
         /\ Loaded(m).status = m.status /\ Loaded(m).unsaved = m.unsaved
<1>1. m \in MemoryRecord
  BY DEF Memory
<1> QED BY <1>1 DEF Loaded, MemoryRecord

LEMMA ClientInUse ==
  ASSUME TypeOK, NEW p \in Procs, InUse(p), Client(p)
  PROVE  InUse(p)'
<1>1. /\ UNCHANGED <<recorded, row, lost>> /\ call[p] = Idle
  BY DEF Client, StartConnect, StartPlug, StartDisconnect, GetConnection,
     StartDetach, StartUnplug, StartCleanup, GetVolume, ReadConnections, Refresh,
     May, Available
<1>2. ~Busy(p, {"in-use"})
  BY <1>1 DEF Busy
<1>3. mem[p] \in Memory
  BY DEF TypeOK
<1>4. CASE \E c \in Conns, op \in {"connect", "attach"} : StartConnect(p, op, c)
  <2>1. PICK c \in Conns, op \in {"connect", "attach"} : StartConnect(p, op, c)
    BY <1>4
  <2>2. Starts(p, op, "export", c) /\ mem' = mem
    BY <2>1, BeginEffect DEF StartConnect
  <2> QED BY <1>1, <1>2, <2>2, KeptMemory, InUseStays DEF Starts, Freeing, Busy
<1>5. CASE \E c \in Conns : StartPlug(p, c)
  <2>1. PICK c \in Conns : StartPlug(p, c)
    BY <1>5
  <2>2. Starts(p, "plug", "plug", c) /\ mem' = mem
    BY <2>1, BeginEffect DEF StartPlug
  <2> QED BY <1>1, <1>2, <2>2, KeptMemory, InUseStays DEF Starts, Freeing, Busy
<1>6. CASE \E c \in Conns : StartDisconnect(p, c)
  <2>1. PICK c \in Conns : StartDisconnect(p, c)
    BY <1>6
  <2>2. Starts(p, "disconnect", "terminate", c) /\ mem' = mem
    BY <2>1, BeginEffect DEF StartDisconnect
  <2> QED BY <1>1, <1>2, <2>2, KeptMemory, InUseStays DEF Starts, Freeing, Busy
<1>7. CASE \E force, ignore \in BOOLEAN :
             \/ StartDetach(p, force, ignore)
             \/ \E c \in Conns : StartUnplug(p, c, force, ignore)
  <2>1. mem' = mem /\ call'[p].pc = "unplug"
    BY <1>7, BeginEffect DEF StartDetach, StartUnplug, Starts
  <2> QED BY <1>1, <1>2, <2>1, KeptMemory, InUseStays DEF Freeing, Busy
<1>8. CASE StartCleanup(p)
  <2> DEFINE all == WithConnections(mem[p]).listed
  <2>1. /\ \/ \E c \in all : Begin(p, "cleanup", "unplug", c, FALSE, FALSE, all \ {c})
           \/ \E c \in Conns : Begin(p, "cleanup", "withdraw", c, FALSE, FALSE, {})
        /\ mem' = [mem EXCEPT ![p] = WithConnections(mem[p])]
    BY <1>8 DEF StartCleanup
  <2> HIDE DEF all
  <2>2. ASSUME NEW c, NEW todo, NEW pc \in {"unplug", "withdraw"},
               Begin(p, "cleanup", pc, c, FALSE, FALSE, todo)
        PROVE  Freeing(p)'
    BY <2>2, BeginEffect DEF Starts, Freeing, Busy
  <2>3. Freeing(p)'
    <3>1. CASE \E c \in all : Begin(p, "cleanup", "unplug", c, FALSE, FALSE, all \ {c})
      <4>1. PICK c \in all : Begin(p, "cleanup", "unplug", c, FALSE, FALSE, all \ {c})
        BY <3>1
      <4> QED BY <4>1, <2>2
    <3>2. CASE \E c \in Conns : Begin(p, "cleanup", "withdraw", c, FALSE, FALSE, {})
      BY <2>2, <3>2
    <3> QED BY <2>1, <3>1, <3>2
  <2>4. mem'[p] = WithConnections(mem[p])
    BY <2>1 DEF TypeOK
  <2>5. CASE mem[p].loaded
    BY <1>1, <1>2, <2>3, <2>4, <2>5, InUseStays DEF WithConnections, SameVolume
  <2>6. CASE ~mem[p].loaded
    <3>1. mem'[p] = Loaded(mem[p])
      BY <2>4, <2>6 DEF WithConnections
    <3> QED BY <1>1, <1>2, <1>3, <2>3, <3>1, LoadedFields, InUseReread
  <2> QED BY <2>5, <2>6
<1>9. CASE \E c \in Conns : GetConnection(p, c)
  <2>1. SameVolume(p) /\ call' = call
    BY <1>9, SameFields DEF GetConnection
  <2> QED BY <1>1, <1>2, <2>1, InUseStays DEF Freeing, Busy
<1>10. CASE GetVolume(p)
  <2>1. mem'[p] = [NoMemory EXCEPT !.status = row] /\ call' = call
    BY <1>10 DEF GetVolume, TypeOK
  <2>2. ~mem'[p].loaded /\ ~mem'[p].unsaved
    BY <2>1 DEF NoMemory
  <2> QED BY <1>1, <1>2, <2>1, <2>2, InUseReread DEF Freeing, Busy
<1>11. CASE ReadConnections(p)
  <2>1. mem'[p] = Loaded(mem[p]) /\ call' = call
    BY <1>11 DEF ReadConnections, TypeOK
  <2> QED BY <1>1, <1>2, <1>3, <2>1, LoadedFields, InUseReread DEF Freeing, Busy
<1>12. CASE Refresh(p)
  <2> DEFINE fresh == [NoMemory EXCEPT !.status = row]
             reread == [Loaded(fresh) EXCEPT !.twins = recorded]
  <2>1. mem'[p] \in {fresh, reread} /\ call' = call
    BY <1>12 DEF Refresh, TypeOK
  <2>2. fresh \in Memory /\ ~fresh.loaded /\ ~fresh.unsaved
    BY NoMemoryTyped DEF NoMemory, TypeOK
  <2>3. Loaded(fresh) \in Memory /\ Loaded(fresh).listed = recorded /\ ~Loaded(fresh).unsaved
    BY <2>2, LoadedTyped, LoadedFields
  <2>4. reread.listed = recorded /\ ~reread.unsaved
    BY <2>3 DEF Memory, MemoryRecord
  <2> HIDE DEF fresh, reread
  <2> QED BY <1>1, <1>2, <2>1, <2>2, <2>4, InUseReread DEF Freeing, Busy
<1> QED BY <1>4, <1>5, <1>6, <1>7, <1>8, <1>9, <1>10, <1>11, <1>12 DEF Client

LEMMA ConnectingInUse ==
  ASSUME TypeOK, OneProcess, NEW p \in Procs, InUse(p), Connecting(p)
  PROVE  InUse(p)'
<1>1. mem[p] \in MemoryRecord
  BY DEF TypeOK, Memory
<1>2. call[p] # Idle
  BY DEF Connecting, Export, ExportRaises, SaveUpdate, SaveUpdateRaises,
         Initialize, InitializeRaises, Record, RecordRaises, MarkInUse,
         MarkInUseRaises, Unexport, UnexportRaises, At
<1>3. Freeing(p)'
  <2>1. \/ Return(p)
        \/ \E pc \in Steps \ {"withdraw", "free"} : GoTo(p, pc)
    BY DEF Connecting, Export, ExportRaises, SaveUpdate, SaveUpdateRaises,
           Initialize, InitializeRaises, Record, RecordRaises, MarkInUse,
           MarkInUseRaises, Unexport, UnexportRaises, Steps
  <2> QED BY <1>2, <2>1, GoToEffect, ReturnEffect DEF GoesOn, GoesBack, Freeing, Busy
<1>4. CASE Record(p)
  <2>1. /\ recorded' = recorded \cup {Conn(p)} /\ GoTo(p, "in-use")
        /\ UNCHANGED <<row, mem, lost>> /\ call[p].pc = "record"
    BY <1>4 DEF Record, At
  <2>2. Marking(p) = {} /\ Marking(p)' = {Conn(p)}
    BY <1>2, <2>1, GoToEffect DEF GoesOn, Marking, Busy, Conn
  <2> QED BY <1>3, <2>1, <2>2 DEF InUse, ListComplete, UnsavedIsTrue, RowTells
<1>5. CASE MarkInUse(p)
  <2>1. /\ row' = "in-use" /\ recorded' = recorded
        /\ mem'[p] = Connected(mem[p], Conn(p)) /\ Marking(p) = {Conn(p)}
    BY <1>5 DEF MarkInUse, At, TypeOK, Marking, Busy
  <2>2. /\ mem'[p].loaded = mem[p].loaded /\ mem'[p].status = "in-use"
        /\ mem[p].loaded => mem'[p].listed = mem[p].listed \cup {Conn(p)}
    BY <1>1, <2>1 DEF Connected, MemoryRecord
  <2> QED BY <1>3, <2>1, <2>2 DEF InUse, ListComplete, UnsavedIsTrue, RowTells
<1>6. CASE MarkInUseRaises(p)
  <2> DEFINE made == IF mem[p].loaded THEN Connected(mem[p], Conn(p)) ELSE mem[p]
             next == [made EXCEPT !.status = "in-use", !.unsaved = TRUE]
  <2>1. /\ row' = row /\ recorded' = recorded /\ lost' = lost \cup {Conn(p)}
        /\ mem'[p] = next /\ Marking(p) = {Conn(p)}
    BY <1>6 DEF MarkInUseRaises, At, TypeOK, Marking, Busy, Loses
  <2>2. mem[p].loaded =>
          /\ made \in MemoryRecord
          /\ made.loaded /\ made.listed = mem[p].listed \cup {Conn(p)}
    BY <1>1, <1>2, CallTyped DEF Connected, MemoryRecord
  <2>3. ~mem[p].loaded => made \in MemoryRecord /\ ~made.loaded
    BY <1>1
  <2> HIDE DEF made
  <2>4. /\ next.loaded = made.loaded /\ next.listed = made.listed
        /\ next.status = "in-use"
    BY <2>2, <2>3 DEF MemoryRecord
  <2> HIDE DEF next
  <2> QED BY <1>3, <2>1, <2>2, <2>3, <2>4 DEF InUse, ListComplete, UnsavedIsTrue, RowTells
<1>7. CASE SaveUpdate(p)
  <2>1. /\ row' = IF mem[p].unsaved THEN mem[p].status ELSE row
        /\ mem' = [mem EXCEPT ![p].unsaved = FALSE] /\ UNCHANGED <<recorded, lost>>
        /\ ~Busy(p, {"in-use"})
    BY <1>7 DEF SaveUpdate, At, Busy
  <2>2. /\ mem'[p].loaded = mem[p].loaded /\ ~mem'[p].unsaved
        /\ mem'[p].listed = mem[p].listed
    BY <1>1, <2>1 DEF TypeOK, MemoryRecord
  <2>3. mem[p].unsaved => mem[p].status \in {"available", "in-use"}
    BY DEF TypeOK, Memory, MemoryRecord
  <2> QED BY <1>3, <2>1, <2>2, <2>3
          DEF InUse, ListComplete, UnsavedIsTrue, RowTells, Marking
<1>8. CASE ~(Record(p) \/ MarkInUse(p) \/ MarkInUseRaises(p) \/ SaveUpdate(p))
  <2>1. /\ UNCHANGED <<mem, recorded, row>> /\ lost \subseteq lost'
        /\ ~Busy(p, {"in-use"})
    BY <1>8 DEF Connecting, Export, ExportRaises, SaveUpdateRaises, Initialize,
                InitializeRaises, RecordRaises, Unexport, UnexportRaises, At, Loses, Busy
  <2> QED BY <1>3, <2>1, KeptMemory, InUseStays
<1> QED BY <1>4, <1>5, <1>6, <1>7, <1>8

LEMMA AttachingInUse ==
  ASSUME TypeOK, NEW p \in Procs, InUse(p), Attaching(p)
  PROVE  InUse(p)'
<1> USE DEF Attaching, Plug, PlugRaises, SaveDevice, SaveDeviceRaises, CheckPasses, CheckFails
<1>1. /\ UNCHANGED <<recorded, row>> /\ lost \subseteq lost'
      /\ call[p] # Idle /\ ~Busy(p, {"in-use"})
  BY DEF At, Loses, Busy
<1>2. Freeing(p)'
  <2>1. \/ CheckFails(p) \/ Return(p) \/ \E pc \in {"device", "check", "terminate"} : GoTo(p, pc)
    BY DEF AttachFailed
  <2> HIDE DEF CheckFails
  <2> QED BY <1>1, <2>1, GoToEffect, ReturnEffect, CheckFailsEffect
          DEF GoesOn, GoesBack, Freeing, Busy
<1>3. \/ mem' = mem
      \/ \E c : mem' = [mem EXCEPT ![p].device = @ \cup {c}]
      \/ \E l : mem' = [mem EXCEPT ![p].local = l]
  OBVIOUS
<1> HIDE DEF Attaching, Plug, PlugRaises, SaveDevice, SaveDeviceRaises, CheckPasses, CheckFails
<1> QED BY <1>1, <1>2, <1>3, KeptMemory, SameFields, InUseStays

LEMMA DetachingInUse ==
  ASSUME TypeOK, NEW p \in Procs, InUse(p), Detaching(p)
  PROVE  InUse(p)'
<1> USE DEF Detaching, Unplug, UnplugRaises, Forget, ForgetRaises
<1>1. /\ UNCHANGED <<recorded, row>> /\ lost \subseteq lost'
      /\ call[p] # Idle /\ ~Busy(p, {"in-use"})
  BY DEF At, Loses, Busy
<1>2. Freeing(p)'
  <2>1. \/ Return(p) \/ GoTo(p, "forget") \/ GoTo(p, "terminate") \/ Detached(p)
    BY DEF DetachFailed
  <2> HIDE DEF Detaching, Unplug, UnplugRaises, Forget, ForgetRaises
  <2>2. CASE Detached(p)
    BY <1>1, <2>2, DetachedEffect DEF GoesOn, GoesBack, Freeing, Busy
  <2> QED BY <1>1, <2>1, <2>2, GoToEffect, ReturnEffect DEF GoesOn, GoesBack, Freeing, Busy
<1>3. \/ mem' = mem
      \/ \E d, l : mem' = [mem EXCEPT ![p].device = d, ![p].local = l]
  BY DEF Forgotten
<1> HIDE DEF Detaching, Unplug, UnplugRaises, Forget, ForgetRaises
<1> QED BY <1>1, <1>2, <1>3, KeptMemory, SameFields, InUseStays

(* The connection that is freed leaves the list, whoever has loaded it.      *)
LEMMA UnlistedFields ==
  ASSUME TypeOK, NEW p \in Procs
  PROVE  /\ Unlisted(p) \in MemoryRecord /\ Unlisted(p).loaded
         /\ Unlisted(p).listed = IF mem[p].loaded THEN mem[p].listed \ {Conn(p)}
                                                  ELSE recorded
         /\ Unlisted(p).status = mem[p].status
         /\ Unlisted(p).unsaved = mem[p].unsaved
<1> DEFINE m == [mem[p] EXCEPT !.listed = @ \ {Conn(p)}]
<1>1. /\ m \in Memory /\ m.loaded = mem[p].loaded
      /\ m.listed = mem[p].listed \ {Conn(p)}
      /\ m.status = mem[p].status /\ m.unsaved = mem[p].unsaved
  BY DEF TypeOK, Memory, MemoryRecord
<1>2. Unlisted(p) = WithConnections(m)
  BY DEF Unlisted
<1> HIDE DEF m
<1>3. Loaded(m) \in Memory
  BY <1>1, LoadedTyped
<1> QED BY <1>1, <1>2, <1>3, LoadedFields DEF WithConnections, Memory

LEMMA FreedFields ==
  ASSUME TypeOK, NEW p \in Procs, InUse(p), At(p, "free"), call[p].op # "cleanup"
  PROVE  /\ Freed(p) \in MemoryRecord
         /\ Freed(p).loaded => recorded \subseteq Freed(p).listed
         /\ NoneLeft(p) /\ Linked(p) => recorded = {} /\ Freed(p).status = "available"
         /\ NoneLeft(p) => recorded = {}
         /\ ~(NoneLeft(p) /\ Linked(p)) => Freed(p).status = mem[p].status
         /\ Freed(p).unsaved = mem[p].unsaved
<1>1. Conn(p) \notin recorded
  BY DEF InUse, Freeing, At, Busy
<1>2. mem[p].loaded => recorded \subseteq mem[p].listed
  BY DEF InUse, ListComplete, Marking, At, Busy
<1>3. mem[p] \in MemoryRecord
  BY DEF TypeOK, Memory
<1>4. /\ Unlisted(p) \in MemoryRecord /\ recorded \subseteq Unlisted(p).listed
      /\ Unlisted(p).status = mem[p].status /\ Unlisted(p).unsaved = mem[p].unsaved
  BY <1>1, <1>2, UnlistedFields
<1>5. NoneLeft(p) => recorded = {}
  BY <1>4 DEF NoneLeft
<1> DEFINE free == [Unlisted(p) EXCEPT !.status = "available"]
<1>6. /\ free \in MemoryRecord /\ free.status = "available"
      /\ free.listed = Unlisted(p).listed /\ free.unsaved = mem[p].unsaved
  BY <1>4 DEF MemoryRecord
<1> HIDE DEF free
<1>7. Freed(p) = IF Linked(p) /\ NoneLeft(p) THEN free
                 ELSE IF Linked(p) THEN Unlisted(p) ELSE mem[p]
  BY DEF Freed, free
<1> QED BY <1>2, <1>3, <1>4, <1>5, <1>6, <1>7

LEMMA FreeInUse ==
  ASSUME TypeOK, NEW p \in Procs, InUse(p), call[p].op # "cleanup",
         Free(p) \/ FreeRaises(p)
  PROVE  InUse(p)'
<1> DEFINE freed == [Freed(p) EXCEPT !.unsaved = @ /\ ~(Linked(p) /\ NoneLeft(p)),
                                     !.held = @ \ {Conn(p)}, !.linked = @ \ {Conn(p)}]
           kept == [Freed(p) EXCEPT !.unsaved = @ \/ Linked(p)]
<1>1. At(p, "free") /\ Return(p) /\ recorded' = recorded /\ lost \subseteq lost'
  BY DEF Free, FreeRaises
<1>2. Freeing(p)'
  BY <1>1, ReturnEffect DEF GoesBack, Freeing, Busy
<1>3. recorded \subseteq lost \/ row = "in-use"
  BY <1>1 DEF At, InUse, RowTells, Marking, Busy
<1>4. mem[p].unsaved /\ mem[p].status = "available" => recorded = {}
  BY <1>1 DEF At, InUse, UnsavedIsTrue, Marking, Busy
<1>5. CASE Free(p)
  <2>1. /\ row' = IF NoneLeft(p) THEN "available" ELSE row
        /\ mem'[p] = freed
    BY <1>5 DEF Free, TypeOK
  <2>2. /\ freed.loaded = Freed(p).loaded /\ freed.listed = Freed(p).listed
        /\ freed.status = Freed(p).status
        /\ freed.unsaved = (Freed(p).unsaved /\ ~(Linked(p) /\ NoneLeft(p)))
    BY <1>1, FreedFields DEF MemoryRecord
  <2> HIDE DEF freed
  <2>3. ListComplete(p)'
    BY <1>1, <2>1, <2>2, FreedFields DEF ListComplete
  <2>4. UnsavedIsTrue(p)'
    BY <1>1, <1>4, <2>1, <2>2, FreedFields DEF UnsavedIsTrue
  <2>5. RowTells(p)'
    BY <1>1, <1>3, <2>1, FreedFields DEF RowTells
  <2> QED BY <1>2, <2>3, <2>4, <2>5 DEF InUse
<1>6. CASE FreeRaises(p)
  <2>1. row' = row /\ mem'[p] = kept /\ NoneLeft(p)
    BY <1>6 DEF FreeRaises, TypeOK
  <2>2. kept.loaded = Freed(p).loaded /\ kept.listed = Freed(p).listed
    BY <1>1, FreedFields DEF MemoryRecord
  <2> HIDE DEF kept
  <2>3. recorded = {}
    BY <1>1, <2>1, FreedFields
  <2> QED BY <1>1, <1>2, <2>1, <2>2, <2>3
          DEF InUse, ListComplete, UnsavedIsTrue, RowTells
<1> QED BY <1>5, <1>6

LEMMA DisconnectingInUse ==
  ASSUME TypeOK, MappingInv, NEW p \in Procs, InUse(p), Disconnecting(p)
  PROVE  InUse(p)'
<1>1. CASE Free(p) \/ FreeRaises(p)
  <2>1. call[p].op # "cleanup"
    BY <1>1 DEF Free, FreeRaises, At, MappingInv, Shape, Busy
  <2> QED BY <1>1, <2>1, FreeInUse
<1>2. CASE ~(Free(p) \/ FreeRaises(p))
  <2> USE <1>2 DEF Disconnecting, Terminate, TerminateRaises, Unrecord, UnrecordRaises,
                   Withdraw, WithdrawRaises
  <2>1. /\ recorded' \subseteq recorded /\ row' = row /\ lost \subseteq lost'
        /\ call[p] # Idle /\ ~Busy(p, {"in-use"})
    BY DEF At, Loses, Busy, Terminated
  <2>2. Freeing(p)'
    <3>1. \/ Return(p) \/ GoTo(p, "unrecord")
          \/ GoTo(p, "withdraw") /\ recorded' = recorded \ {Conn(p)}
          \/ GoTo(p, "free") /\ recorded' = recorded /\ call[p].op # "cleanup"
               /\ call[p].pc = "withdraw"
      BY DEF At
    <3>2. call[p].pc = "withdraw" /\ call[p].op # "cleanup" => Conn(p) \notin recorded
      BY <2>1 DEF InUse, Freeing, Busy
    <3> QED BY <2>1, <3>1, <3>2, GoToEffect, ReturnEffect
            DEF GoesOn, GoesBack, Freeing, Busy, Conn
  <2>3. \/ mem' = mem
        \/ \E i, d : mem' = [mem EXCEPT ![p].info = i, ![p].device = d]
    OBVIOUS
  <2> HIDE DEF Disconnecting, Terminate, TerminateRaises, Unrecord, UnrecordRaises,
               Withdraw, WithdrawRaises
  <2> QED BY <2>1, <2>2, <2>3, KeptMemory, SameFields, InUseStays
<1> QED BY <1>1, <1>2

LEMMA CrashInUse ==
  ASSUME TypeOK, NEW p \in Procs, InUse(p), Crash(p)
  PROVE  InUse(p)'
<1>1. /\ UNCHANGED <<recorded, row>> /\ mem'[p] = NoMemory /\ lost \subseteq lost'
      /\ Busy(p, {"in-use"}) => Conn(p) \in lost'
  BY DEF Crash, TypeOK, Loses, Available, Busy
<1>2. Freeing(p)'
  BY ReturnEffect DEF Crash, GoesBack, Freeing, Busy
<1> QED BY <1>1, <1>2
        DEF NoMemory, InUse, ListComplete, UnsavedIsTrue, RowTells, Marking

LEMMA InUseInvariant ==
  ASSUME OneProcess
  PROVE  Spec => []InUseInv
<1>1. Init => TypeOK /\ MappingInv /\ InUseInv
  BY InitTyped, InitMapping
  DEF Init, InUseInv, InUse, ListComplete, UnsavedIsTrue, Freeing, RowTells, Busy, NoMemory
<1>2. ASSUME TypeOK, MappingInv, InUseInv, [Next]_vars
      PROVE  InUseInv'
  <2>1. CASE UNCHANGED vars
    BY <1>2, <2>1 DEF vars, InUseInv, InUse, ListComplete, UnsavedIsTrue, Freeing,
                      RowTells, Busy, Marking, Conn
  <2>2. ASSUME NEW p \in Procs, Client(p) \/ Crash(p) \/ Connecting(p) \/ Attaching(p)
                                  \/ Detaching(p) \/ Disconnecting(p)
        PROVE  InUse(p)'
    BY <1>2, <2>2, ClientInUse, ConnectingInUse, AttachingInUse, DetachingInUse,
       DisconnectingInUse, CrashInUse DEF InUseInv
  <2> QED BY <1>2, <2>1, <2>2 DEF Next, OneProcess, InUseInv
<1>3. TypeOK /\ MappingInv /\ InUseInv /\ [Next]_vars => (TypeOK /\ MappingInv /\ InUseInv)'
  BY <1>2, NextTyped, NextMapping
<1> QED BY <1>1, <1>3, PTL DEF Spec

(* A volume with a recorded connection is recorded as in use, through every  *)
(* disconnect, failed save and crash of the client process: its list always  *)
(* has all the rows, and a status that could not be saved is true when a     *)
(* later save writes it.                                                     *)
THEOREM ConnectedVolumesAreInUse ==
  ASSUME OneProcess
  PROVE  Spec => []ConnectedIsInUse
<1>1. InUseInv => ConnectedIsInUse
  <2> SUFFICES ASSUME InUseInv, NEW c \in recorded \ lost, ~Working(c, Steps)
               PROVE  row = "in-use"
    BY DEF ConnectedIsInUse
  <2>1. PICK p \in Procs : TRUE
    BY DEF OneProcess
  <2> QED BY <2>1 DEF InUseInv, InUse, RowTells, Marking, Working, Busy, Conn, Steps
<1> QED BY <1>1, InUseInvariant, PTL

=============================================================================
