---------------------------- MODULE RBDConnector -----------------------------
(* The connector that cinderlib uses for RBD volumes on a host               *)
(* (src/cinderlib/nos_brick.py): it maps an image to a block device and      *)
(* finds the device again through a symbolic link that carries the name of   *)
(* the volume, which it keeps itself when it runs in a container.  Commands  *)
(* can fail and clients can die between any two of them; the kernel hands    *)
(* the number of an unmapped device to the next image.                       *)
EXTENDS Naturals, FiniteSets

CONSTANTS
  Clients,   \* processes on the host that attach volumes
  Vols,      \* the volumes (images)
  Devices,   \* block devices /dev/rbdN
  None,      \* no volume, no device
  MaxFaults  \* bound on how often a command or a client fails

ASSUME RBDAssumption ==
  /\ IsFiniteSet(Clients)
  /\ MaxFaults \in Nat
  /\ None \notin Vols \cup Devices

VARIABLES
  containerized,  \* RBDConnector.containerized: nobody else makes the links
  imRoot,         \* RBDConnector.im_root
  mapped,         \* the volume behind each device, None for no device
  link,           \* the device each volume's link leads to
  held,           \* the volume and the device each client was given
  call,           \* the call each client is in
  confs,          \* how many ceph configuration files there are
  leaked,         \* history: how many of them died with their client
  stale,          \* history: a fault left a link behind after its unmap
  unlinked,       \* history: a fault left a device without its link
  faults          \* how many faults there have been

vars == <<containerized, imRoot, mapped, link, held, call, confs, leaked, stale,
          unlinked, faults>>

Nothing == [vol |-> None, dev |-> None]
Steps == {"check", "map", "link", "find", "unmap", "unlink", "done"}
Call == [pc : Steps, vol : Vols, dev : Devices \cup {None}]
Idle == [pc |-> "idle", vol |-> None, dev |-> None]

TypeOK ==
  /\ containerized \in BOOLEAN /\ imRoot \in BOOLEAN
  /\ stale \in BOOLEAN /\ unlinked \in BOOLEAN
  /\ mapped \in [Devices -> Vols \cup {None}]
  /\ link \in [Vols -> Devices \cup {None}]
  /\ held \in [Clients -> [vol : Vols, dev : Devices] \cup {Nothing}]
  /\ call \in [Clients -> Call \cup {Idle}]
  /\ confs \in 0..(Cardinality(Clients) + MaxFaults)
  /\ leaked \in 0..MaxFaults
  /\ faults \in 0..MaxFaults

Init ==
  /\ containerized \in BOOLEAN /\ imRoot \in BOOLEAN
  /\ stale = FALSE /\ unlinked = FALSE
  /\ mapped = [d \in Devices |-> None]
  /\ link = [v \in Vols |-> None]
  /\ held = [c \in Clients |-> Nothing]
  /\ call = [c \in Clients |-> Idle]
  /\ confs = 0 /\ leaked = 0 /\ faults = 0

Used(v) == \E c \in Clients : held[c].vol = v \/ call[c].vol = v
At(c, pc) == call[c].pc = pc
GoTo(c, pc) == call' = [call EXCEPT ![c].pc = pc]
Return(c) == call' = [call EXCEPT ![c] = Idle]
Fault == faults < MaxFaults /\ faults' = faults + 1

(* os.path.islink and os.path.exists of what the link leads to.              *)
(* Mutant: a link is enough.                                                 *)
HasLink(v) == link[v] # None
LeadsToDevice(v) == link[v] # None /\ mapped[link[v]] # None

-----------------------------------------------------------------------------
(* connect_volume.  Nothing counts the users of a device, so that clients    *)
(* attach a volume on a host once at a time.                                 *)
Connect(c, v) ==
  /\ call[c] = Idle /\ held[c] = Nothing
  /\ ~Used(v)
  /\ confs' = confs + 1
  /\ call' = [call EXCEPT ![c] = [pc |-> "check", vol |-> v, dev |-> None]]
  /\ UNCHANGED <<containerized, imRoot, mapped, link, held, leaked, stale, unlinked,
                 faults>>

Connected(c, d) ==
  /\ held' = [held EXCEPT ![c] = [vol |-> call[c].vol, dev |-> d]]
  /\ Return(c)

(* Mutant: the link is not looked at.                                        *)
NeverMapped(v) == FALSE
IsMapped(v) == LeadsToDevice(v)

AlreadyMapped(c) ==
  /\ At(c, "check")
  /\ IsMapped(call[c].vol)
  /\ Connected(c, link[call[c].vol])
  /\ UNCHANGED <<containerized, imRoot, mapped, link, confs, leaked, stale, unlinked,
                 faults>>

NotMapped(c) ==
  /\ At(c, "check")
  /\ ~IsMapped(call[c].vol)
  /\ GoTo(c, "map")
  /\ UNCHANGED <<containerized, imRoot, mapped, link, held, confs, leaked, stale,
                 unlinked, faults>>

(* On a host that is no container udev has made the link when rbd returns.   *)
Map(c, d) ==
  LET v == call[c].vol IN
  /\ At(c, "map")
  /\ mapped[d] = None
  /\ mapped' = [mapped EXCEPT ![d] = v]
  /\ IF containerized
     THEN /\ call' = [call EXCEPT ![c].pc = "link", ![c].dev = d]
          /\ UNCHANGED <<link, held>>
     ELSE /\ link' = [link EXCEPT ![v] = d]
          /\ Connected(c, d)
  /\ UNCHANGED <<containerized, imRoot, confs, leaked, stale, unlinked, faults>>

(* _ensure_link: "ln -s -f", or os.symlink when there is no link yet.        *)
MakeLink(c) ==
  LET v == call[c].vol IN
  /\ At(c, "link")
  /\ imRoot => link[v] = None
  /\ link' = [link EXCEPT ![v] = call[c].dev]
  /\ Connected(c, call[c].dev)
  /\ UNCHANGED <<containerized, imRoot, mapped, confs, leaked, stale, unlinked, faults>>

(* EEXIST, for a link that happens to be right.                              *)
LinkIsRight(c) ==
  /\ At(c, "link")
  /\ imRoot /\ link[call[c].vol] = call[c].dev
  /\ Connected(c, call[c].dev)
  /\ UNCHANGED <<containerized, imRoot, mapped, link, confs, leaked, stale, unlinked,
                 faults>>

(* EEXIST, for a leftover: it is removed, and the link made again.           *)
(* Mutant: the leftover is taken for the link.                               *)
KeepLeftover(c) ==
  LET v == call[c].vol IN
  /\ At(c, "link")
  /\ imRoot /\ link[v] \notin {None, call[c].dev}
  /\ Connected(c, call[c].dev)
  /\ UNCHANGED <<containerized, imRoot, mapped, link, confs, leaked, stale, unlinked,
                 faults>>
RemoveLeftover(c) ==
  LET v == call[c].vol IN
  /\ At(c, "link")
  /\ imRoot /\ link[v] \notin {None, call[c].dev}
  /\ link' = [link EXCEPT ![v] = None]
  /\ UNCHANGED <<containerized, imRoot, mapped, held, call, confs, leaked, stale,
                 unlinked, faults>>

(* The map or the link fails: the configuration file goes, a mapping stays.  *)
(* Mutant: the file stays too.                                               *)
KeepsConf == confs
ConfDeleted == confs - 1

ConnectRaises(c) ==
  /\ call[c].pc \in {"map", "link"}
  /\ Fault
  /\ confs' = ConfDeleted
  /\ unlinked' = (unlinked \/ At(c, "link"))
  /\ Return(c)
  /\ UNCHANGED <<containerized, imRoot, mapped, link, held, leaked, stale>>

-----------------------------------------------------------------------------
(* disconnect_volume, which clients call until it succeeds.                  *)
Disconnect(c) ==
  /\ call[c] = Idle /\ held[c] # Nothing
  /\ call' = [call EXCEPT ![c] = [pc |-> "find", vol |-> held[c].vol, dev |-> None]]
  /\ UNCHANGED <<containerized, imRoot, mapped, link, held, confs, leaked, stale,
                 unlinked, faults>>

(* The device to unmap is the one the link leads to now.                     *)
Find(c) ==
  LET v == call[c].vol IN
  /\ At(c, "find")
  /\ IF LeadsToDevice(v)
     THEN call' = [call EXCEPT ![c].pc = "unmap", ![c].dev = link[v]]
     ELSE GoTo(c, "done")
  /\ UNCHANGED <<containerized, imRoot, mapped, link, held, confs, leaked, stale,
                 unlinked, faults>>

(* Mutant: the link is left to udev in a container too.                      *)
LeftToUdev == FALSE
OwnLinks == containerized

Unmap(c) ==
  LET v == call[c].vol
      d == call[c].dev IN
  /\ At(c, "unmap")
  /\ mapped[d] # None
  /\ mapped' = [mapped EXCEPT ![d] = None]
  /\ link' = IF containerized THEN link ELSE [w \in Vols |-> IF link[w] = d THEN None ELSE link[w]]
  /\ GoTo(c, IF OwnLinks THEN "unlink" ELSE "done")
  /\ UNCHANGED <<containerized, imRoot, held, confs, leaked, stale, unlinked, faults>>

(* The device has gone since: rbd fails.                                     *)
UnmapFinds(c) ==
  /\ At(c, "unmap")
  /\ mapped[call[c].dev] = None
  /\ Return(c)
  /\ UNCHANGED <<containerized, imRoot, mapped, link, held, confs, leaked, stale,
                 unlinked, faults>>

Unlink(c) ==
  /\ At(c, "unlink")
  /\ link' = [link EXCEPT ![call[c].vol] = None]
  /\ GoTo(c, "done")
  /\ UNCHANGED <<containerized, imRoot, mapped, held, confs, leaked, stale, unlinked,
                 faults>>

Done(c) ==
  /\ At(c, "done")
  /\ confs' = ConfDeleted
  /\ held' = [held EXCEPT ![c] = Nothing]
  /\ Return(c)
  /\ UNCHANGED <<containerized, imRoot, mapped, link, leaked, stale, unlinked, faults>>

(* The client keeps what it holds, and may try again.                        *)
DisconnectRaises(c) ==
  /\ call[c].pc \in {"unmap", "unlink"}
  /\ Fault
  /\ stale' = (stale \/ At(c, "unlink"))
  /\ Return(c)
  /\ UNCHANGED <<containerized, imRoot, mapped, link, held, confs, leaked, unlinked>>

(* A client dies; what it mapped stays on the host.                          *)
Crash(c) ==
  /\ call[c] # Idle \/ held[c] # Nothing
  /\ Fault
  /\ leaked' = leaked + 1
  /\ stale' = (stale \/ At(c, "unlink"))
  /\ unlinked' = (unlinked \/ At(c, "link"))
  /\ held' = [held EXCEPT ![c] = Nothing]
  /\ Return(c)
  /\ UNCHANGED <<containerized, imRoot, mapped, link, confs>>

-----------------------------------------------------------------------------
StepOf(c) ==
  \/ AlreadyMapped(c) \/ NotMapped(c) \/ \E d \in Devices : Map(c, d)
  \/ MakeLink(c) \/ LinkIsRight(c) \/ RemoveLeftover(c) \/ ConnectRaises(c)
  \/ Find(c) \/ Unmap(c) \/ UnmapFinds(c) \/ Unlink(c) \/ Done(c) \/ DisconnectRaises(c)

Next == \E c \in Clients : \/ \E v \in Vols : Connect(c, v)
                           \/ Disconnect(c) \/ StepOf(c) \/ Crash(c)

Spec == Init /\ [][Next]_vars

(* Calls go on, and clients disconnect in the end and try again when that    *)
(* fails; what they connect is up to them.                                   *)
FairSpec == Spec /\ \A c \in Clients : WF_vars(StepOf(c)) /\ WF_vars(Disconnect(c))

-----------------------------------------------------------------------------
Connecting(c, v) == call[c].vol = v /\ At(c, "link")
Disconnecting(c) == call[c].pc \in {"unlink", "done"}

(* The path that connect_volume returned (nos_brick.py:79-98) leads to the   *)
(* volume it was called for until that is disconnected, crashes and failing  *)
(* commands notwithstanding; unless one of them came between an unmap and    *)
(* the removal of its link (nos_brick.py:153-154).                           *)
HeldIsOwn ==
  ~stale => \A c \in Clients : held[c] # Nothing /\ ~Disconnecting(c)
                                 => mapped[held[c].dev] = held[c].vol

(* A mapped device can be found under the name of its volume, by the next    *)
(* connect or disconnect, also when the client that mapped it has died; a    *)
(* leftover link does not hide it (nos_brick.py:101-116).  Unless a fault    *)
(* came between the map and the link.                                        *)
MappedIsFound ==
  ~unlinked => \A d \in Devices : mapped[d] # None =>
                 link[mapped[d]] = d \/ \E c \in Clients : Connecting(c, mapped[d])

(* Every configuration file belongs to a client that is connecting or holds  *)
(* a device, or died (nos_brick.py:73-94, 155).                              *)
ConfsAccounted ==
  confs = leaked + Cardinality({c \in Clients : held[c] # Nothing \/ call[c] # Idle})

(* When the other clients have stopped, a client that tries again gets its   *)
(* disconnect done: what an attempt before it did, up to the unmap of the    *)
(* device whose link it left, is not tried again (nos_brick.py:146).  While  *)
(* others go on that is not so: such a link may lead to a device of theirs.  *)
Alone(c) == \A d \in Clients \ {c} : call[d] = Idle /\ held[d] = Nothing
RetriesEndDisconnected ==
  \A c \in Clients : <>[]Alone(c) => []<>(held[c] = Nothing)
=============================================================================
