------------------------- MODULE RBDConnectorProofs --------------------------
(* The paths of the RBD connector lead where they should, for any number of  *)
(* clients, volumes, devices and failures.                                   *)
EXTENDS RBDConnector, FiniteSetTheorems, TLAPS

Busy == {c \in Clients : held[c] # Nothing \/ call[c] # Idle}
Uses(c, v) == held[c].vol = v \/ call[c].vol = v

-----------------------------------------------------------------------------
(* The inductive invariant.                                                  *)

(* A client that connects holds nothing yet, one that disconnects works on   *)
(* what it holds; and no other works on that volume.                         *)
OnItsVolume(c) ==
  /\ call[c].pc \in {"check", "map", "link"} => held[c] = Nothing
  /\ call[c].pc \in {"find", "unmap", "unlink", "done"}
       => held[c] # Nothing /\ held[c].vol = call[c].vol
  /\ call[c].pc \in {"link", "unmap"} => call[c].dev \in Devices
OnTheirVolumes == \A c \in Clients : OnItsVolume(c)
OneUser == \A c, d \in Clients, v \in Vols : Uses(c, v) /\ Uses(d, v) => c = d

(* A volume is not on two devices, and its link leads to the one it is on,   *)
(* while no fault came between the map and the link: so a client that is     *)
(* about to map it finds it nowhere, and one that unmaps it leaves it        *)
(* nowhere.                                                                  *)
Linked(d) ==
  mapped[d] # None =>
    \/ link[mapped[d]] = d
    \/ \E c \in Clients : Connecting(c, mapped[d]) /\ call[c].dev = d
Nowhere(v) == \A d \in Devices : mapped[d] # v
OnlyOn(v, e) == \A d \in Devices : mapped[d] = v => d = e
Placed(c) ==
  /\ call[c].pc \in {"map", "unlink"} => Nowhere(call[c].vol)
  /\ call[c].pc \in {"link", "unmap"} => OnlyOn(call[c].vol, call[c].dev)
Found == ~unlinked => /\ \A d \in Devices : Linked(d)
                      /\ \A c \in Clients : Placed(c)

(* No link leads to the device of another volume, or will, while no fault    *)
(* came between the unmap and the removal of the link: so nobody takes away  *)
(* a device that another client holds, or is about to be given.              *)
Truthful(v) ==
  link[v] # None =>
    \/ mapped[link[v]] = v
    \/ \E c \in Clients : At(c, "unlink") /\ call[c].vol = v
Owns(c) ==
  /\ call[c].pc \in {"link", "unmap"} => mapped[call[c].dev] = call[c].vol
  /\ call[c].pc = "unlink" => containerized
Held(c) ==
  held[c] # Nothing /\ ~Disconnecting(c) => mapped[held[c].dev] = held[c].vol
Own == ~stale => /\ \A v \in Vols : Truthful(v)
                 /\ \A c \in Clients : Owns(c) /\ Held(c)

Counted == ConfsAccounted /\ leaked <= faults

IInv == TypeOK /\ OnTheirVolumes /\ OneUser /\ Found /\ Own /\ Counted

-----------------------------------------------------------------------------
LEMMA CallOf ==
  ASSUME TypeOK, NEW c \in Clients
  PROVE  /\ call[c].pc = "idle" => call[c] = Idle
         /\ call[c] = Idle => call[c].pc = "idle" /\ call[c].vol = None
         /\ call[c].pc # "idle" => /\ call[c] # Idle /\ call[c] \in Call
                                   /\ call[c].pc \in Steps /\ call[c].vol \in Vols
                                   /\ call[c].dev \in Devices \cup {None}
<1>1. call[c] = Idle => call[c].pc = "idle" /\ call[c].vol = None
  BY DEF Idle
<1>2. CASE call[c] = Idle
  BY <1>1, <1>2
<1>3. CASE call[c] \in Call
  <2>1. call[c].pc \in Steps /\ call[c].vol \in Vols /\ call[c].dev \in Devices \cup {None}
    BY <1>3 DEF Call
  <2>2. call[c].pc # "idle"
    BY <2>1 DEF Steps
  <2> QED BY <1>1, <1>3, <2>1, <2>2
<1> QED BY <1>2, <1>3 DEF TypeOK

LEMMA HeldOf ==
  ASSUME TypeOK, NEW c \in Clients
  PROVE  /\ held[c] = Nothing => held[c].vol = None
         /\ held[c] # Nothing => held[c].vol \in Vols /\ held[c].dev \in Devices
BY DEF TypeOK, Nothing

(* Only c changes what it is doing and what it holds.                        *)
HeldType == [vol : Vols, dev : Devices] \cup {Nothing}
Acts(c, k, h) ==
  /\ k \in Call \cup {Idle} /\ h \in HeldType
  /\ call' = [call EXCEPT ![c] = k]
  /\ held' = [held EXCEPT ![c] = h]

LEMMA ActsBy ==
  ASSUME TypeOK, NEW c \in Clients, NEW k, NEW h, Acts(c, k, h)
  PROVE  /\ call' \in [Clients -> Call \cup {Idle}]
         /\ held' \in [Clients -> HeldType]
         /\ call'[c] = k /\ held'[c] = h
         /\ \A d \in Clients \ {c} : call'[d] = call[d] /\ held'[d] = held[d]
BY DEF TypeOK, Acts, HeldType

LEMMA GoingTo ==
  ASSUME TypeOK, NEW c \in Clients, call[c].pc # "idle", NEW pc \in Steps, GoTo(c, pc),
         held' = held
  PROVE  \E k \in Call : /\ Acts(c, k, held[c])
                         /\ k.pc = pc /\ k.vol = call[c].vol /\ k.dev = call[c].dev
<1> DEFINE k == [call[c] EXCEPT !.pc = pc]
<1>1. call[c] \in Call
  BY CallOf
<1>2. k \in Call /\ k.pc = pc /\ k.vol = call[c].vol /\ k.dev = call[c].dev
  BY <1>1 DEF Call
<1>3. call' = [call EXCEPT ![c] = k]
  BY DEF GoTo
<1> HIDE DEF k
<1>4. held' = [held EXCEPT ![c] = held[c]] /\ held[c] \in HeldType
  BY DEF TypeOK, HeldType
<1> QED BY <1>2, <1>3, <1>4 DEF Acts

LEMMA CallIsBusy ==
  \A k \in Call : k # Idle /\ k.pc \in Steps /\ k.pc # "idle" /\ k.vol \in Vols
<1> SUFFICES ASSUME NEW k \in Call PROVE k # Idle /\ k.pc \in Steps /\ k.pc # "idle" /\ k.vol \in Vols
  OBVIOUS
<1>1. k.pc \in Steps /\ k.vol \in Vols
  BY DEF Call
<1>2. k.pc # "idle"
  BY <1>1 DEF Steps
<1> QED BY <1>1, <1>2 DEF Idle

-----------------------------------------------------------------------------
(* Clients keep to their volumes.                                            *)

LEMMA Staying ==
  ASSUME IInv, NEW c \in Clients, NEW k, NEW h, Acts(c, k, h), NEW v \in Vols,
         Uses(c, v), h.vol \in {v, None}, k.vol \in {v, None},
         h # Nothing \/ k # Idle, held[c] # Nothing \/ call[c] # Idle,
         k.pc \in {"check", "map", "link"} => h = Nothing,
         k.pc \in {"find", "unmap", "unlink", "done"} => h # Nothing /\ h.vol = k.vol,
         k.pc \in {"link", "unmap"} => k.dev \in Devices,
         confs' = confs, leaked' = leaked, faults' = faults \/ Fault
  PROVE  OnTheirVolumes' /\ OneUser' /\ Counted'
<1>1. /\ call'[c] = k /\ held'[c] = h
      /\ \A d \in Clients \ {c} : call'[d] = call[d] /\ held'[d] = held[d]
  BY ActsBy DEF IInv
<1>2. OnTheirVolumes'
  BY <1>1 DEF IInv, OnTheirVolumes, OnItsVolume
<1>3. \A d \in Clients, w \in Vols : Uses(d, w)' => Uses(d, w)
  BY <1>1, RBDAssumption DEF Uses
<1>4. OneUser'
  BY <1>3 DEF IInv, OneUser
<1>5. Busy' = Busy
  BY <1>1 DEF Busy
<1>6. leaked' <= faults'
  BY DEF IInv, TypeOK, Counted, Fault
<1> QED BY <1>2, <1>4, <1>5, <1>6 DEF IInv, Counted, ConfsAccounted, Busy

LEMMA Leaving ==
  ASSUME IInv, NEW c \in Clients, Acts(c, Idle, Nothing),
         held[c] # Nothing \/ call[c] # Idle,
         \/ confs' = confs - 1 /\ leaked' = leaked
         \/ confs' = confs /\ leaked' = leaked + 1 /\ Fault,
         faults' = faults \/ Fault
  PROVE  OnTheirVolumes' /\ OneUser' /\ Counted'
<1>1. /\ call'[c] = Idle /\ held'[c] = Nothing
      /\ \A d \in Clients \ {c} : call'[d] = call[d] /\ held'[d] = held[d]
  BY ActsBy DEF IInv
<1>2. Idle.pc = "idle" /\ Idle.vol = None /\ Nothing.vol = None
  BY DEF Idle, Nothing
<1>3. OnTheirVolumes'
  BY <1>1, <1>2 DEF IInv, OnTheirVolumes, OnItsVolume
<1>4. \A d \in Clients, w \in Vols : Uses(d, w)' => Uses(d, w)
  BY <1>1, <1>2, RBDAssumption DEF Uses
<1>5. OneUser'
  BY <1>4 DEF IInv, OneUser
<1>6. Busy' = Busy \ {c} /\ c \in Busy
  BY <1>1 DEF Busy
<1>7. Cardinality(Busy') = Cardinality(Busy) - 1 /\ Cardinality(Busy) \in Nat
  <2>1. IsFiniteSet(Busy)
    BY RBDAssumption, FS_Subset DEF Busy
  <2> QED BY <1>6, <2>1, FS_RemoveElement, FS_CardinalityType
<1>8. confs = leaked + Cardinality(Busy)
  BY DEF IInv, Counted, ConfsAccounted, Busy
<1>9. confs' = leaked' + Cardinality(Busy')
  BY <1>7, <1>8 DEF IInv, TypeOK
<1>10. leaked' <= faults'
  BY DEF IInv, TypeOK, Counted, Fault
<1> QED BY <1>3, <1>5, <1>9, <1>10 DEF Counted, ConfsAccounted, Busy

(* What one client does while no device and no link changes.                 *)
LEMMA Still ==
  ASSUME IInv, NEW c \in Clients, NEW k, NEW h, Acts(c, k, h),
         UNCHANGED <<containerized, mapped, link>>,
         unlinked => unlinked', stale => stale',
         call[c].pc = "link" => unlinked' \/ link[call[c].vol] = call[c].dev,
         call[c].pc = "unlink" => stale',
         ~unlinked' => Placed(c)',
         ~stale' => Owns(c)' /\ Held(c)'
  PROVE  Found' /\ Own'
<1>1. \A d \in Clients \ {c} : call'[d] = call[d] /\ held'[d] = held[d]
  BY ActsBy DEF IInv
<1>2. Found'
  <2> SUFFICES ASSUME ~unlinked'
               PROVE  (\A d \in Devices : Linked(d)') /\ (\A e \in Clients : Placed(e)')
    BY DEF Found
  <2>1. ASSUME NEW d \in Devices PROVE Linked(d)'
    BY <1>1 DEF IInv, Found, Linked, Connecting, At
  <2>2. ASSUME NEW e \in Clients PROVE Placed(e)'
    <3>1. CASE e = c
      BY <3>1
    <3>2. CASE e # c
      BY <1>1, <3>2 DEF IInv, Found, Placed, Nowhere, OnlyOn
    <3> QED BY <3>1, <3>2
  <2> QED BY <2>1, <2>2
<1>3. Own'
  <2> SUFFICES ASSUME ~stale'
               PROVE  (\A v \in Vols : Truthful(v)') /\ (\A e \in Clients : Owns(e)' /\ Held(e)')
    BY DEF Own
  <2>1. ASSUME NEW v \in Vols PROVE Truthful(v)'
    BY <1>1 DEF IInv, Own, Truthful, At
  <2>2. ASSUME NEW e \in Clients PROVE Owns(e)' /\ Held(e)'
    <3>1. CASE e = c
      BY <3>1
    <3>2. CASE e # c
      BY <1>1, <3>2 DEF IInv, Own, Owns, Held, Disconnecting
    <3> QED BY <3>1, <3>2
  <2> QED BY <2>1, <2>2
<1> QED BY <1>2, <1>3

(* The types follow from the rest.                                           *)
LEMMA Typing ==
  ASSUME IInv, NEW c \in Clients, NEW k, NEW h, Acts(c, k, h),
         UNCHANGED <<containerized, imRoot>>, stale' \in BOOLEAN, unlinked' \in BOOLEAN,
         mapped' \in [Devices -> Vols \cup {None}],
         link' \in [Vols -> Devices \cup {None}],
         leaked' \in Nat, faults' = faults \/ Fault, Counted'
  PROVE  TypeOK'
<1>1. call' \in [Clients -> Call \cup {Idle}] /\ held' \in [Clients -> HeldType]
  BY ActsBy DEF IInv
<1>2. faults' \in 0..MaxFaults
  BY RBDAssumption DEF IInv, TypeOK, Fault
<1>3. leaked' \in 0..MaxFaults
  BY <1>2, RBDAssumption DEF Counted
<1>4. IsFiniteSet(Clients)
  BY RBDAssumption
<1>5. Busy' \in SUBSET Clients
  BY DEF Busy
<1>6. Cardinality(Busy') \in Nat /\ Cardinality(Clients) \in Nat
      /\ Cardinality(Busy') <= Cardinality(Clients)
  BY <1>4, <1>5, FS_Subset, FS_CardinalityType
<1>7. confs' = leaked' + Cardinality(Busy')
  BY DEF Counted, ConfsAccounted, Busy
<1>8. confs' \in 0..(Cardinality(Clients) + MaxFaults)
  BY <1>3, <1>6, <1>7, RBDAssumption
<1> QED BY <1>1, <1>2, <1>3, <1>8 DEF IInv, TypeOK, HeldType

-----------------------------------------------------------------------------
(* The actions.                                                              *)

LEMMA ConnectKeeps ==
  ASSUME IInv, NEW c \in Clients, NEW v \in Vols, Connect(c, v)
  PROVE  IInv'
<1> DEFINE k == [pc |-> "check", vol |-> v, dev |-> None]
<1>1. k \in Call /\ k.pc = "check" /\ k.vol = v
  BY DEF Call, Steps
<1>2. call' = [call EXCEPT ![c] = k]
  BY DEF Connect
<1> HIDE DEF k
<1>3. call[c] = Idle /\ held[c] = Nothing /\ call[c].pc = "idle"
  BY DEF Connect, Idle
<1>4. held' = [held EXCEPT ![c] = Nothing]
  BY <1>3 DEF IInv, TypeOK, Connect
<1>5. Acts(c, k, Nothing)
  BY <1>1, <1>2, <1>4 DEF Acts, HeldType
<1>6. /\ call'[c] = k /\ held'[c] = Nothing
      /\ \A d \in Clients \ {c} : call'[d] = call[d] /\ held'[d] = held[d]
  BY <1>5, ActsBy DEF IInv
<1>7. Nothing.vol = None
  BY DEF Nothing
<1>8. OnTheirVolumes'
  BY <1>1, <1>6 DEF IInv, OnTheirVolumes, OnItsVolume
<1>9. OneUser'
  <2> SUFFICES ASSUME NEW d \in Clients, NEW e \in Clients, NEW w \in Vols,
                      Uses(d, w)', Uses(e, w)'
               PROVE  d = e
    BY DEF OneUser
  <2>1. \A a \in Clients : Uses(a, w)' => Uses(a, w) \/ (a = c /\ w = v)
    BY <1>1, <1>6, <1>7, RBDAssumption DEF Uses
  <2>2. \A a \in Clients : ~Uses(a, v)
    BY DEF Connect, Used, Uses
  <2> QED BY <2>1, <2>2 DEF IInv, OneUser
<1>10. Counted'
  <2>1. c \notin Busy /\ Busy' = Busy \cup {c}
    BY <1>1, <1>3, <1>6, CallIsBusy DEF Busy
  <2>2. IsFiniteSet(Busy)
    BY RBDAssumption, FS_Subset DEF Busy
  <2>3. Cardinality(Busy') = Cardinality(Busy) + 1 /\ Cardinality(Busy) \in Nat
    BY <2>1, <2>2, FS_AddElement, FS_CardinalityType
  <2>4. confs' = confs + 1 /\ leaked' = leaked /\ faults' = faults
    BY DEF Connect
  <2>5. confs = leaked + Cardinality(Busy) /\ leaked <= faults
    BY DEF IInv, Counted, ConfsAccounted, Busy
  <2>6. confs' = leaked' + Cardinality(Busy')
    BY <2>3, <2>4, <2>5 DEF IInv, TypeOK
  <2> QED BY <2>4, <2>5, <2>6 DEF Counted, ConfsAccounted, Busy
<1>11. UNCHANGED <<containerized, imRoot, mapped, link, leaked, stale, unlinked, faults>>
  BY DEF Connect
<1>12. Placed(c)' /\ Owns(c)' /\ Held(c)'
  BY <1>1, <1>6 DEF Placed, Owns, Held
<1>13. Found' /\ Own'
  BY <1>3, <1>5, <1>11, <1>12, Still
<1>14. TypeOK'
  BY <1>5, <1>10, <1>11, Typing DEF IInv, TypeOK
<1> QED BY <1>8, <1>9, <1>10, <1>13, <1>14 DEF IInv

(* A step of a call that changes no device and no link.                      *)
LEMMA StillKeeps ==
  ASSUME IInv, NEW c \in Clients, NEW k, NEW h, Acts(c, k, h),
         UNCHANGED <<containerized, imRoot, mapped, link, unlinked>>,
         stale' \in BOOLEAN, stale => stale',
         call[c].pc = "link" => link[call[c].vol] = call[c].dev,
         call[c].pc = "unlink" => stale',
         ~unlinked => Placed(c)',
         ~stale' => Owns(c)' /\ Held(c)',
         NEW v \in Vols,
         Uses(c, v), h.vol \in {v, None}, k.vol \in {v, None},
         h # Nothing \/ k # Idle, held[c] # Nothing \/ call[c] # Idle,
         k.pc \in {"check", "map", "link"} => h = Nothing,
         k.pc \in {"find", "unmap", "unlink", "done"} => h # Nothing /\ h.vol = k.vol,
         k.pc \in {"link", "unmap"} => k.dev \in Devices,
         confs' = confs, leaked' = leaked, faults' = faults \/ Fault
  PROVE  IInv'
<1>1. OnTheirVolumes' /\ OneUser' /\ Counted'
  BY Staying
<1>2. Found' /\ Own'
  BY Still
<1>3. TypeOK'
  BY <1>1, Typing DEF IInv, TypeOK
<1> QED BY <1>1, <1>2, <1>3 DEF IInv

LEMMA AlreadyMappedKeeps ==
  ASSUME IInv, NEW c \in Clients, AlreadyMapped(c)
  PROVE  IInv'
<1> DEFINE v == call[c].vol
           h == [vol |-> v, dev |-> link[v]]
<1>1. call[c].pc = "check" /\ v \in Vols /\ call[c] # Idle
  BY CallOf DEF IInv, AlreadyMapped, At
<1>2. link[v] \in Devices /\ mapped[link[v]] # None
  BY <1>1 DEF IInv, TypeOK, AlreadyMapped, IsMapped, LeadsToDevice
<1>3. h \in HeldType /\ h.vol = v /\ h.dev = link[v] /\ h # Nothing
  BY <1>1, <1>2, RBDAssumption DEF HeldType, Nothing
<1>4. Acts(c, Idle, h)
  BY <1>3 DEF AlreadyMapped, Connected, Return, Acts
<1>5. /\ call'[c] = Idle /\ held'[c] = h
      /\ Idle.pc = "idle" /\ Idle.vol = None
  BY <1>4, ActsBy DEF IInv, Idle
<1>6. ~stale => mapped[link[v]] = v
  <2> SUFFICES ASSUME ~stale PROVE mapped[link[v]] = v
    OBVIOUS
  <2>1. \A e \in Clients : call[e].vol = v => e = c
    BY <1>1 DEF IInv, OneUser, Uses
  <2>2. ~\E e \in Clients : At(e, "unlink") /\ call[e].vol = v
    BY <1>1, <2>1 DEF At
  <2> QED BY <1>1, <1>2, <2>2, RBDAssumption DEF IInv, Own, Truthful
<1>7. UNCHANGED <<containerized, imRoot, mapped, link, confs, leaked, stale, unlinked, faults>>
  BY DEF AlreadyMapped
<1>8. Placed(c)' /\ Owns(c)'
  BY <1>5 DEF Placed, Owns
<1>9. ~stale => Held(c)'
  BY <1>3, <1>5, <1>6, <1>7 DEF Held
<1>10. Uses(c, v)
  BY DEF Uses
<1> HIDE DEF v, h
<1>11. stale \in BOOLEAN
  BY DEF IInv, TypeOK
<1> QED BY <1>1, <1>3, <1>4, <1>5, <1>7, <1>8, <1>9, <1>10, <1>11, StillKeeps

LEMMA NotMappedKeeps ==
  ASSUME IInv, NEW c \in Clients, NotMapped(c)
  PROVE  IInv'
<1>1. call[c].pc = "check" /\ call[c].vol \in Vols /\ call[c] # Idle /\ held[c] = Nothing
  BY CallOf DEF IInv, NotMapped, At, OnTheirVolumes, OnItsVolume
<1>2. UNCHANGED <<containerized, imRoot, mapped, link, held, confs, leaked, stale,
                  unlinked, faults>>
  BY DEF NotMapped
<1>3. PICK k \in Call : Acts(c, k, Nothing) /\ k.pc = "map" /\ k.vol = call[c].vol
  BY <1>1, <1>2, GoingTo DEF IInv, NotMapped, Steps
<1>4. call'[c] = k /\ held'[c] = Nothing /\ k # Idle /\ Nothing.vol = None
  BY <1>3, ActsBy, CallIsBusy DEF IInv, Nothing
<1>5. ~unlinked => Nowhere(call[c].vol)
  <2> SUFFICES ASSUME ~unlinked, NEW d \in Devices, mapped[d] = call[c].vol PROVE FALSE
    BY DEF Nowhere
  <2>1. mapped[d] # None
    BY <1>1, RBDAssumption
  <2>2. \A e \in Clients : ~Connecting(e, mapped[d])
    <3>1. \A e \in Clients : call[e].vol = call[c].vol => e = c
      BY <1>1 DEF IInv, OneUser, Uses
    <3> QED BY <1>1, <3>1 DEF Connecting, At
  <2>3. link[call[c].vol] = d
    BY <2>1, <2>2 DEF IInv, Found, Linked
  <2> QED BY <2>1, <2>3, RBDAssumption DEF NotMapped, IsMapped, LeadsToDevice
<1>6. ~unlinked => Placed(c)'
  BY <1>2, <1>3, <1>4, <1>5 DEF Placed, Nowhere
<1>7. Owns(c)' /\ Held(c)' /\ Uses(c, call[c].vol)
  BY <1>3, <1>4 DEF Owns, Held, Uses
<1>8. stale \in BOOLEAN
  BY DEF IInv, TypeOK
<1> QED BY <1>1, <1>2, <1>3, <1>4, <1>6, <1>7, <1>8, StillKeeps

LEMMA LinkIsRightKeeps ==
  ASSUME IInv, NEW c \in Clients, LinkIsRight(c)
  PROVE  IInv'
<1> DEFINE v == call[c].vol
           h == [vol |-> v, dev |-> call[c].dev]
<1>1. /\ call[c].pc = "link" /\ v \in Vols /\ call[c] # Idle
      /\ call[c].dev \in Devices /\ link[v] = call[c].dev
  BY CallOf DEF IInv, LinkIsRight, At, OnTheirVolumes, OnItsVolume
<1>2. h \in HeldType /\ h.vol = v /\ h.dev = call[c].dev /\ h # Nothing
  BY <1>1, RBDAssumption DEF HeldType, Nothing
<1>3. Acts(c, Idle, h)
  BY <1>2 DEF LinkIsRight, Connected, Return, Acts
<1>4. /\ call'[c] = Idle /\ held'[c] = h
      /\ Idle.pc = "idle" /\ Idle.vol = None
  BY <1>3, ActsBy DEF IInv, Idle
<1>5. ~stale => mapped[call[c].dev] = v
  BY <1>1 DEF IInv, Own, Owns
<1>6. UNCHANGED <<containerized, imRoot, mapped, link, confs, leaked, stale, unlinked, faults>>
  BY DEF LinkIsRight
<1>7. Placed(c)' /\ Owns(c)'
  BY <1>4 DEF Placed, Owns
<1>8. ~stale => Held(c)'
  BY <1>2, <1>4, <1>5, <1>6 DEF Held
<1>9. Uses(c, v) /\ stale \in BOOLEAN
  BY DEF Uses, IInv, TypeOK
<1>10. link[call[c].vol] = call[c].dev
  BY <1>1
<1> HIDE DEF v, h
<1> QED BY <1>1, <1>2, <1>3, <1>4, <1>6, <1>7, <1>8, <1>9, <1>10, StillKeeps

LEMMA DisconnectKeeps ==
  ASSUME IInv, NEW c \in Clients, Disconnect(c)
  PROVE  IInv'
<1> DEFINE k == [pc |-> "find", vol |-> held[c].vol, dev |-> None]
<1>1. /\ held[c] # Nothing /\ held[c].vol \in Vols
      /\ call[c] = Idle /\ call[c].pc = "idle"
  BY CallOf, HeldOf DEF IInv, Disconnect
<1>2. k \in Call /\ k.pc = "find" /\ k.vol = held[c].vol
  BY <1>1 DEF Call, Steps
<1>3. call' = [call EXCEPT ![c] = k] /\ held' = [held EXCEPT ![c] = held[c]]
  BY DEF IInv, TypeOK, Disconnect
<1> HIDE DEF k
<1>4. Acts(c, k, held[c])
  BY <1>2, <1>3 DEF Acts, IInv, TypeOK, HeldType
<1>5. call'[c] = k /\ held'[c] = held[c]
  BY <1>4, ActsBy DEF IInv
<1>6. UNCHANGED <<containerized, imRoot, mapped, link, confs, leaked, stale, unlinked, faults>>
  BY DEF Disconnect
<1>7. Placed(c)' /\ Owns(c)'
  BY <1>2, <1>5 DEF Placed, Owns
<1>8. ~stale => Held(c)'
  BY <1>1, <1>5, <1>6 DEF IInv, Own, Held, Disconnecting
<1>9. Uses(c, held[c].vol) /\ stale \in BOOLEAN
  BY DEF Uses, IInv, TypeOK
<1> QED BY <1>1, <1>2, <1>4, <1>6, <1>7, <1>8, <1>9, StillKeeps

LEMMA FindKeeps ==
  ASSUME IInv, NEW c \in Clients, Find(c)
  PROVE  IInv'
<1> DEFINE v == call[c].vol
<1>1. /\ call[c].pc = "find" /\ v \in Vols /\ call[c] # Idle /\ call[c] \in Call
      /\ held[c] # Nothing /\ held[c].vol = v
  BY CallOf DEF IInv, Find, At, OnTheirVolumes, OnItsVolume
<1>2. UNCHANGED <<containerized, imRoot, mapped, link, held, confs, leaked, stale,
                  unlinked, faults>>
  BY DEF Find
<1>3. held[c] \in HeldType /\ held' = [held EXCEPT ![c] = held[c]]
  BY <1>2 DEF IInv, TypeOK, HeldType
<1>4. \A e \in Clients : call[e].vol = v => e = c
  BY <1>1 DEF IInv, OneUser, Uses
<1>5. Uses(c, v) /\ stale \in BOOLEAN
  BY DEF Uses, IInv, TypeOK
<1>6. CASE LeadsToDevice(v)
  <2> DEFINE k == [call[c] EXCEPT !.pc = "unmap", !.dev = link[v]]
  <2>1. link[v] \in Devices /\ mapped[link[v]] # None
    BY <1>1, <1>6 DEF IInv, TypeOK, LeadsToDevice
  <2>2. k \in Call /\ k.pc = "unmap" /\ k.vol = v /\ k.dev = link[v]
    BY <1>1, <2>1 DEF Call, Steps
  <2>3. call' = [call EXCEPT ![c] = k]
    BY <1>6 DEF Find
  <2> HIDE DEF k
  <2>4. Acts(c, k, held[c])
    BY <1>3, <2>2, <2>3 DEF Acts
  <2>5. call'[c] = k /\ held'[c] = held[c]
    BY <2>4, ActsBy DEF IInv
  <2>6. ~unlinked => Placed(c)'
    <3> SUFFICES ASSUME ~unlinked, NEW d \in Devices, mapped[d] = v PROVE d = link[v]
      BY <1>2, <2>2, <2>5 DEF Placed, OnlyOn
    <3>1. mapped[d] # None /\ \A e \in Clients : ~Connecting(e, mapped[d])
      BY <1>1, <1>4, RBDAssumption DEF Connecting, At
    <3> QED BY <3>1 DEF IInv, Found, Linked
  <2>7. ~stale => mapped[link[v]] = v
    <3> SUFFICES ASSUME ~stale PROVE mapped[link[v]] = v
      OBVIOUS
    <3>1. ~\E e \in Clients : At(e, "unlink") /\ call[e].vol = v
      BY <1>1, <1>4 DEF At
    <3> QED BY <1>1, <2>1, <3>1, RBDAssumption DEF IInv, Own, Truthful
  <2>8. ~stale => Owns(c)'
    BY <1>2, <2>2, <2>5, <2>7 DEF Owns
  <2>9. ~stale => Held(c)'
    BY <1>1, <1>2, <2>2, <2>5 DEF IInv, Own, Held, Disconnecting
  <2> HIDE DEF v
  <2> QED BY <1>1, <1>2, <1>5, <2>1, <2>2, <2>4, <2>6, <2>8, <2>9, StillKeeps
<1>7. CASE ~LeadsToDevice(v)
  <2>1. PICK k \in Call : Acts(c, k, held[c]) /\ k.pc = "done" /\ k.vol = v
    BY <1>1, <1>2, <1>7, GoingTo DEF IInv, Find, Steps
  <2>2. call'[c] = k /\ held'[c] = held[c]
    BY <2>1, ActsBy DEF IInv
  <2>3. Placed(c)' /\ Owns(c)' /\ Held(c)'
    BY <2>1, <2>2 DEF Placed, Owns, Held, Disconnecting
  <2> HIDE DEF v
  <2> QED BY <1>1, <1>2, <1>5, <2>1, <2>3, StillKeeps
<1> QED BY <1>6, <1>7

(* A disconnect that raises; the client keeps what it holds.                 *)
LEMMA RaisesKeeps ==
  ASSUME IInv, NEW c \in Clients, UnmapFinds(c) \/ DisconnectRaises(c)
  PROVE  IInv'
<1> DEFINE v == call[c].vol
<1>1. /\ call[c].pc \in {"unmap", "unlink"} /\ v \in Vols /\ call[c] # Idle
      /\ held[c] # Nothing /\ held[c].vol = v
  BY CallOf DEF IInv, UnmapFinds, DisconnectRaises, At, OnTheirVolumes, OnItsVolume
<1>2. UNCHANGED <<containerized, imRoot, mapped, link, held, confs, leaked, unlinked>>
  BY DEF UnmapFinds, DisconnectRaises
<1>3. held[c] \in HeldType /\ held' = [held EXCEPT ![c] = held[c]]
  BY <1>2 DEF IInv, TypeOK, HeldType
<1>4. Acts(c, Idle, held[c])
  BY <1>3 DEF Acts, UnmapFinds, DisconnectRaises, Return
<1>5. call'[c] = Idle /\ held'[c] = held[c] /\ Idle.pc = "idle" /\ Idle.vol = None
  BY <1>4, ActsBy DEF IInv, Idle
<1>6. Placed(c)' /\ Owns(c)'
  BY <1>5 DEF Placed, Owns
<1>7. /\ faults' = faults \/ Fault
      /\ stale' \in BOOLEAN
      /\ stale => stale'
      /\ call[c].pc = "unlink" => stale'
  <2>1. CASE UnmapFinds(c)
    BY <2>1 DEF UnmapFinds, At, IInv, TypeOK
  <2>2. CASE DisconnectRaises(c)
    BY <2>2 DEF DisconnectRaises, At, IInv, TypeOK
  <2> QED BY <2>1, <2>2
<1>8. ~stale' => Owns(c)' /\ Held(c)'
  <2> SUFFICES ASSUME ~stale' PROVE Owns(c)' /\ Held(c)'
    OBVIOUS
  <2>1. ~stale /\ call[c].pc = "unmap"
    <3>1. ~stale
      BY <1>7
    <3>2. call[c].pc # "unlink"
      BY <1>7
    <3> QED BY <1>1, <3>1, <3>2
  <2>2. Held(c)
    BY <2>1 DEF IInv, Own
  <2>3. mapped[held[c].dev] = v
    BY <1>1, <2>1, <2>2 DEF Held, Disconnecting
  <2> QED BY <1>1, <1>2, <1>5, <1>6, <2>3 DEF Held
<1>9. Uses(c, v) /\ held[c].vol \in {v, None} /\ Idle.vol \in {v, None}
  BY <1>1, <1>5 DEF Uses
<1>10. /\ call[c].pc = "link" => link[call[c].vol] = call[c].dev
       /\ Idle.pc \in {"check", "map", "link"} => held[c] = Nothing
       /\ Idle.pc \in {"find", "unmap", "unlink", "done"}
            => held[c] # Nothing /\ held[c].vol = Idle.vol
       /\ Idle.pc \in {"link", "unmap"} => Idle.dev \in Devices
  BY <1>1, <1>5
<1>11. ~unlinked => Placed(c)'
  BY <1>6
<1> HIDE DEF v
<1> QED BY <1>1, <1>2, <1>4, <1>7, <1>8, <1>9, <1>10, <1>11, StillKeeps

(* A client lets go of the volume.                                           *)
LEMMA LeavingKeeps ==
  ASSUME IInv, NEW c \in Clients, ConnectRaises(c) \/ Done(c) \/ Crash(c)
  PROVE  IInv'
<1>1. Acts(c, Idle, Nothing)
  <2>1. CASE ConnectRaises(c)
    <3>1. held[c] = Nothing
      BY <2>1 DEF IInv, ConnectRaises, OnTheirVolumes, OnItsVolume
    <3> QED BY <2>1, <3>1 DEF ConnectRaises, Return, Acts, HeldType, IInv, TypeOK
  <2>2. CASE Done(c) \/ Crash(c)
    BY <2>2 DEF Done, Crash, Return, Acts, HeldType
  <2> QED BY <2>1, <2>2
<1>2. held[c] # Nothing \/ call[c] # Idle
  <2>1. CASE ConnectRaises(c)
    BY <2>1, CallOf DEF IInv, ConnectRaises
  <2>2. CASE Done(c)
    BY <2>2, CallOf DEF IInv, Done, At
  <2>3. CASE Crash(c)
    BY <2>3 DEF Crash
  <2> QED BY <2>1, <2>2, <2>3
<1>3. /\ \/ confs' = confs - 1 /\ leaked' = leaked
         \/ confs' = confs /\ leaked' = leaked + 1 /\ Fault
      /\ faults' = faults \/ Fault
      /\ leaked' \in Nat
  BY DEF IInv, TypeOK, ConnectRaises, Done, Crash, ConfDeleted
<1>4. OnTheirVolumes' /\ OneUser' /\ Counted'
  BY <1>1, <1>2, <1>3, Leaving
<1>5. UNCHANGED <<containerized, imRoot, mapped, link>>
  BY DEF ConnectRaises, Done, Crash
<1>6. /\ stale' \in BOOLEAN /\ unlinked' \in BOOLEAN
      /\ stale => stale'
      /\ unlinked => unlinked'
      /\ call[c].pc = "link" => unlinked'
      /\ call[c].pc = "unlink" => stale'
  <2>1. CASE ConnectRaises(c)
    BY <2>1 DEF ConnectRaises, At, IInv, TypeOK
  <2>2. CASE Done(c)
    BY <2>2 DEF Done, At, IInv, TypeOK
  <2>3. CASE Crash(c)
    BY <2>3 DEF Crash, At, IInv, TypeOK
  <2> QED BY <2>1, <2>2, <2>3
<1>7. call'[c].pc = "idle" /\ held'[c] = Nothing
  BY <1>1, ActsBy DEF IInv, Idle
<1>8. Placed(c)' /\ Owns(c)' /\ Held(c)'
  BY <1>7 DEF Placed, Owns, Held
<1>9. Found' /\ Own'
  <2>1. /\ call[c].pc = "link" => unlinked' \/ link[call[c].vol] = call[c].dev
        /\ ~unlinked' => Placed(c)'
        /\ ~stale' => Owns(c)' /\ Held(c)'
    BY <1>6, <1>8
  <2> QED BY <1>1, <1>5, <1>6, <2>1, Still
<1>10. TypeOK'
  BY <1>1, <1>3, <1>4, <1>5, <1>6, Typing DEF IInv, TypeOK
<1> QED BY <1>4, <1>9, <1>10 DEF IInv

-----------------------------------------------------------------------------
(* The actions that change a device or a link.                               *)

(* What the call of c says of the others.                                    *)
LEMMA OthersElsewhere ==
  ASSUME IInv, NEW c \in Clients, call[c].vol \in Vols, NEW d \in Clients \ {c}
  PROVE  call[d].vol # call[c].vol /\ held[d].vol # call[c].vol
BY DEF IInv, OneUser, Uses

LEMMA MapKeeps ==
  ASSUME IInv, NEW c \in Clients, NEW d \in Devices, Map(c, d)
  PROVE  IInv'
<1> DEFINE v == call[c].vol
<1>1. /\ call[c].pc = "map" /\ v \in Vols /\ call[c] # Idle /\ call[c] \in Call
      /\ held[c] = Nothing /\ Nothing.vol = None
  BY CallOf DEF IInv, Map, At, OnTheirVolumes, OnItsVolume, Nothing
<1>2. /\ UNCHANGED <<containerized, imRoot, confs, leaked, stale, unlinked, faults>>
      /\ mapped[d] = None /\ mapped' = [mapped EXCEPT ![d] = v]
  BY DEF Map
<1>3. /\ mapped' \in [Devices -> Vols \cup {None}] /\ mapped'[d] = v
      /\ \A e \in Devices \ {d} : mapped'[e] = mapped[e]
  BY <1>1, <1>2 DEF IInv, TypeOK
<1>4. PICK k \in Call \cup {Idle}, h \in HeldType :
        /\ Acts(c, k, h) /\ h.vol \in {v, None} /\ k.vol \in {v, None}
        /\ h # Nothing \/ k # Idle
        /\ \/ /\ k.pc = "link" /\ k.vol = v /\ k.dev = d /\ h = Nothing /\ link' = link
           \/ /\ k.pc = "idle" /\ h # Nothing /\ h.vol = v /\ h.dev = d
              /\ link' = [link EXCEPT ![v] = d]
  <2>1. CASE containerized
    <3> DEFINE k == [call[c] EXCEPT !.pc = "link", !.dev = d]
    <3>1. k \in Call /\ k.pc = "link" /\ k.vol = v /\ k.dev = d
      BY <1>1 DEF Call, Steps
    <3>2. call' = [call EXCEPT ![c] = k] /\ link' = link
      BY <2>1 DEF Map
    <3>3. held' = [held EXCEPT ![c] = Nothing]
      BY <1>1, <2>1 DEF IInv, TypeOK, Map
    <3> HIDE DEF k
    <3>4. k # Idle /\ Nothing \in HeldType
      BY <3>1, CallIsBusy DEF HeldType
    <3>5. Acts(c, k, Nothing)
      BY <3>1, <3>2, <3>3, <3>4 DEF Acts
    <3> QED BY <1>1, <3>1, <3>2, <3>4, <3>5
  <2>2. CASE ~containerized
    <3> DEFINE h == [vol |-> v, dev |-> d]
    <3>1. h \in HeldType /\ h.vol = v /\ h.dev = d /\ h # Nothing
      BY <1>1, RBDAssumption DEF HeldType, Nothing
    <3>2. Acts(c, Idle, h) /\ link' = [link EXCEPT ![v] = d]
      BY <2>2, <3>1 DEF Map, Connected, Return, Acts
    <3>3. Idle.pc = "idle" /\ Idle.vol = None
      BY DEF Idle
    <3> HIDE DEF h
    <3> QED BY <3>1, <3>2, <3>3
  <2> QED BY <2>1, <2>2
<1>5. /\ call'[c] = k /\ held'[c] = h
      /\ \A f \in Clients \ {c} : call'[f] = call[f] /\ held'[f] = held[f]
  BY <1>4, ActsBy DEF IInv
<1>6. /\ link' \in [Vols -> Devices \cup {None}]
      /\ \A w \in Vols \ {v} : link'[w] = link[w]
      /\ k.pc = "idle" => link'[v] = d
      /\ k.pc # "idle" => link'[v] = link[v]
  BY <1>1, <1>4 DEF IInv, TypeOK
<1>7. \A f \in Clients \ {c} : call[f].vol # v /\ held[f].vol # v
  BY <1>1, OthersElsewhere
<1>8. OnTheirVolumes' /\ OneUser' /\ Counted'
  <2>1. Uses(c, v)
    BY DEF Uses
  <2>2. /\ k.pc \in {"check", "map", "link"} => h = Nothing
        /\ k.pc \in {"find", "unmap", "unlink", "done"} => h # Nothing /\ h.vol = k.vol
        /\ k.pc \in {"link", "unmap"} => k.dev \in Devices
    BY <1>4
  <2> HIDE DEF v
  <2> QED BY <1>1, <1>2, <1>4, <2>1, <2>2, Staying
<1>9. Found'
  <2> SUFFICES ASSUME ~unlinked
               PROVE  (\A e \in Devices : Linked(e)') /\ (\A f \in Clients : Placed(f)')
    BY <1>2 DEF Found
  <2>1. Nowhere(v)
    BY <1>1 DEF IInv, Found, Placed
  <2>2. ASSUME NEW e \in Devices PROVE Linked(e)'
    <3>1. CASE e = d
      BY <1>3, <1>4, <1>5, <1>6, <3>1 DEF Linked, Connecting, At
    <3>2. CASE e # d
      <4>1. mapped'[e] = mapped[e] /\ mapped[e] # v /\ mapped[e] \in Vols \cup {None}
        BY <1>3, <2>1, <3>2 DEF Nowhere, IInv, TypeOK
      <4>2. Linked(e)
        BY DEF IInv, Found
      <4> QED BY <1>1, <1>5, <1>6, <4>1, <4>2 DEF Linked, Connecting, At
    <3> QED BY <3>1, <3>2
  <2>3. ASSUME NEW f \in Clients PROVE Placed(f)'
    <3>1. CASE f = c
      BY <1>3, <1>4, <1>5, <2>1, <3>1 DEF Placed, Nowhere, OnlyOn
    <3>2. CASE f # c
      <4>1. call'[f] = call[f] /\ call[f].vol # v /\ Placed(f)
        BY <1>5, <1>7, <3>2 DEF IInv, Found
      <4> QED BY <1>3, <4>1 DEF Placed, Nowhere, OnlyOn
    <3> QED BY <3>1, <3>2
  <2> QED BY <2>2, <2>3
<1>10. Own'
  <2> SUFFICES ASSUME ~stale
               PROVE  (\A w \in Vols : Truthful(w)') /\ (\A f \in Clients : Owns(f)' /\ Held(f)')
    BY <1>2 DEF Own
  <2>1. ASSUME NEW w \in Vols PROVE Truthful(w)'
    <3>1. Truthful(w) /\ link[w] \in Devices \cup {None}
      BY DEF IInv, Own, TypeOK
    <3>2. CASE w = v /\ k.pc = "idle"
      BY <1>3, <1>6, <3>2 DEF Truthful
    <3>3. CASE w # v \/ k.pc # "idle"
      <4>1. link'[w] = link[w]
        BY <1>6, <3>3
      <4>2. link[w] # None /\ mapped[link[w]] = w => mapped'[link[w]] = w
        BY <1>2, <1>3, <3>1, RBDAssumption
      <4> QED BY <1>1, <1>5, <3>1, <4>1, <4>2 DEF Truthful, At
    <3> QED BY <3>2, <3>3
  <2>2. ASSUME NEW f \in Clients PROVE Owns(f)' /\ Held(f)'
    <3>1. CASE f = c
      BY <1>3, <1>4, <1>5, <3>1 DEF Owns, Held
    <3>2. CASE f # c
      <4>1. /\ call'[f] = call[f] /\ held'[f] = held[f]
            /\ Owns(f) /\ Held(f) /\ OnItsVolume(f)
        BY <1>5, <3>2 DEF IInv, Own, OnTheirVolumes
      <4>2. Owns(f)'
        <5>1. call[f].pc \in {"link", "unmap"} =>
                call[f].dev \in Devices /\ mapped[call[f].dev] \in Vols
          BY <4>1, CallOf DEF IInv, Owns, OnItsVolume
        <5> QED BY <1>2, <1>3, <4>1, <5>1, RBDAssumption DEF Owns
      <4>3. Held(f)'
        <5>1. held[f] # Nothing => held[f].dev \in Devices /\ held[f].vol \in Vols
          BY HeldOf DEF IInv
        <5> QED BY <1>2, <1>3, <4>1, <5>1, RBDAssumption DEF Held, Disconnecting
      <4> QED BY <4>2, <4>3
    <3> QED BY <3>1, <3>2
  <2> QED BY <2>1, <2>2
<1>11. TypeOK'
  BY <1>2, <1>3, <1>4, <1>6, <1>8, Typing DEF IInv, TypeOK
<1> QED BY <1>8, <1>9, <1>10, <1>11 DEF IInv

(* The link of a volume changes, by the hand of the client that uses it, to  *)
(* where the volume is or to nowhere.                                        *)
LEMMA Linking ==
  ASSUME IInv, NEW c \in Clients, NEW k, NEW h, Acts(c, k, h),
         NEW v \in Vols, call[c].vol = v,
         UNCHANGED <<containerized, imRoot, mapped, confs, leaked, stale, unlinked, faults>>,
         NEW to \in Devices \cup {None}, link' = [link EXCEPT ![v] = to],
         k.vol \in {v, None}, h.vol \in {v, None},
         h # Nothing \/ k # Idle,
         k.pc \in {"idle", "link", "done"},
         k.pc = "link" => h = Nothing /\ call[c].pc = "link" /\ k.dev = call[c].dev
                          /\ k.vol = v,
         k.pc = "done" => h # Nothing /\ h.vol = k.vol,
         k.pc = "idle" => h.vol = v /\ h.dev = to /\ to # None,
         to # None => call[c].pc = "link" /\ to = call[c].dev,
         \/ k.pc = "link"
         \/ call[c].pc = "link" /\ to = call[c].dev
         \/ call[c].pc = "unlink"
  PROVE  IInv'
<1>1. /\ call'[c] = k /\ held'[c] = h
      /\ \A f \in Clients \ {c} : call'[f] = call[f] /\ held'[f] = held[f]
  BY ActsBy DEF IInv
<1>2. \A f \in Clients \ {c} : call[f].vol # v
  BY OthersElsewhere
<1>3. /\ link' \in [Vols -> Devices \cup {None}] /\ link'[v] = to
      /\ \A w \in Vols \ {v} : link'[w] = link[w]
  BY DEF IInv, TypeOK
<1>4. call[c] # Idle /\ call[c].pc \in {"link", "unlink"}
  <2>1. call[c].pc \in {"link", "unlink"}
    OBVIOUS
  <2> QED BY <2>1, CallOf DEF IInv
<1>5. OnItsVolume(c) /\ Uses(c, v)
  BY DEF IInv, OnTheirVolumes, Uses
<1>6. OnTheirVolumes' /\ OneUser' /\ Counted'
  <2>1. /\ k.pc \in {"check", "map", "link"} => h = Nothing
        /\ k.pc \in {"find", "unmap", "unlink", "done"} => h # Nothing /\ h.vol = k.vol
        /\ k.pc \in {"link", "unmap"} => k.dev \in Devices
    BY <1>5 DEF OnItsVolume
  <2> QED BY <1>4, <1>5, <2>1, Staying
<1>7. Found'
  <2> SUFFICES ASSUME ~unlinked
               PROVE  (\A e \in Devices : Linked(e)') /\ (\A f \in Clients : Placed(f)')
    BY DEF Found
  <2>1. Placed(c)
    BY DEF IInv, Found
  <2>2. ASSUME NEW e \in Devices PROVE Linked(e)'
    <3>1. CASE mapped[e] = v
      <4>1. call[c].pc = "link" /\ e = call[c].dev
        BY <1>4, <2>1, <3>1 DEF Placed, Nowhere, OnlyOn
      <4>2. CASE k.pc = "link"
        BY <1>1, <3>1, <4>1, <4>2 DEF Linked, Connecting, At
      <4>3. CASE to = call[c].dev
        BY <1>3, <3>1, <4>1, <4>3 DEF Linked
      <4> QED BY <4>1, <4>2, <4>3
    <3>2. CASE mapped[e] # v
      <4>1. Linked(e) /\ mapped[e] \in Vols \cup {None}
        BY DEF IInv, Found, TypeOK
      <4> QED BY <1>1, <1>3, <3>2, <4>1 DEF Linked, Connecting, At
    <3> QED BY <3>1, <3>2
  <2>3. ASSUME NEW f \in Clients PROVE Placed(f)'
    <3>1. CASE f = c
      BY <1>1, <2>1, <3>1 DEF Placed, OnlyOn
    <3>2. CASE f # c
      BY <1>1, <3>2 DEF IInv, Found, Placed, Nowhere, OnlyOn
    <3> QED BY <3>1, <3>2
  <2> QED BY <2>2, <2>3
<1>8. Own'
  <2> SUFFICES ASSUME ~stale
               PROVE  (\A w \in Vols : Truthful(w)') /\ (\A f \in Clients : Owns(f)' /\ Held(f)')
    BY DEF Own
  <2>1. Owns(c)
    BY DEF IInv, Own
  <2>2. to # None => mapped[to] = v
    BY <2>1 DEF Owns
  <2>3. ASSUME NEW w \in Vols PROVE Truthful(w)'
    <3>1. CASE w = v
      BY <1>3, <2>2, <3>1 DEF Truthful
    <3>2. CASE w # v
      BY <1>1, <1>3, <3>2 DEF IInv, Own, Truthful, At
    <3> QED BY <3>1, <3>2
  <2>4. ASSUME NEW f \in Clients PROVE Owns(f)' /\ Held(f)'
    <3>1. CASE f = c
      <4>1. CASE k.pc = "link"
        BY <1>1, <2>1, <3>1, <4>1 DEF Owns, Held
      <4>2. CASE k.pc = "done"
        BY <1>1, <3>1, <4>2 DEF Owns, Held, Disconnecting
      <4>3. CASE k.pc = "idle"
        BY <1>1, <2>2, <3>1, <4>3 DEF Owns, Held
      <4> QED BY <4>1, <4>2, <4>3
    <3>2. CASE f # c
      BY <1>1, <3>2 DEF IInv, Own, Owns, Held, Disconnecting
    <3> QED BY <3>1, <3>2
  <2> QED BY <2>3, <2>4
<1>9. TypeOK'
  BY <1>3, <1>6, Typing DEF IInv, TypeOK
<1> QED BY <1>6, <1>7, <1>8, <1>9 DEF IInv

LEMMA MakeLinkKeeps ==
  ASSUME IInv, NEW c \in Clients, MakeLink(c)
  PROVE  IInv'
<1> DEFINE h == [vol |-> call[c].vol, dev |-> call[c].dev]
<1>1. call[c].pc = "link" /\ call[c].vol \in Vols /\ call[c].dev \in Devices
  BY CallOf DEF IInv, MakeLink, At, OnTheirVolumes, OnItsVolume
<1>2. h \in HeldType /\ h.vol = call[c].vol /\ h.dev = call[c].dev /\ h # Nothing
  BY <1>1, RBDAssumption DEF HeldType, Nothing
<1>3. Acts(c, Idle, h) /\ link' = [link EXCEPT ![call[c].vol] = call[c].dev]
  BY <1>2 DEF MakeLink, Connected, Return, Acts
<1>4. Idle.pc = "idle" /\ Idle.vol = None
  BY DEF Idle
<1>5. UNCHANGED <<containerized, imRoot, mapped, confs, leaked, stale, unlinked, faults>>
  BY DEF MakeLink
<1> HIDE DEF h
<1>6. call[c].dev # None
  BY <1>1, RBDAssumption
<1> QED BY <1>1, <1>2, <1>3, <1>4, <1>5, <1>6, Linking

LEMMA RemoveLeftoverKeeps ==
  ASSUME IInv, NEW c \in Clients, RemoveLeftover(c)
  PROVE  IInv'
<1>1. /\ call[c].pc = "link" /\ call[c].vol \in Vols /\ call[c] # Idle
      /\ held[c] = Nothing /\ Nothing.vol = None
  BY CallOf DEF IInv, RemoveLeftover, At, OnTheirVolumes, OnItsVolume, Nothing
<1>2. UNCHANGED <<call, held, containerized, imRoot, mapped, confs, leaked, stale,
                  unlinked, faults>>
  BY DEF RemoveLeftover
<1>3. Acts(c, call[c], Nothing)
  BY <1>1, <1>2 DEF IInv, TypeOK, Acts, HeldType
<1>4. link' = [link EXCEPT ![call[c].vol] = None]
  BY DEF RemoveLeftover
<1> QED BY <1>1, <1>2, <1>3, <1>4, Linking

LEMMA UnlinkKeeps ==
  ASSUME IInv, NEW c \in Clients, Unlink(c)
  PROVE  IInv'
<1>1. /\ call[c].pc = "unlink" /\ call[c].vol \in Vols
      /\ held[c] # Nothing /\ held[c].vol = call[c].vol
  BY CallOf DEF IInv, Unlink, At, OnTheirVolumes, OnItsVolume
<1>2. UNCHANGED <<held, containerized, imRoot, mapped, confs, leaked, stale, unlinked, faults>>
  BY DEF Unlink
<1>3. PICK k \in Call : Acts(c, k, held[c]) /\ k.pc = "done" /\ k.vol = call[c].vol
  BY <1>1, <1>2, GoingTo DEF IInv, Unlink, Steps
<1> DEFINE v == call[c].vol
           h == held[c]
<1>4. v \in Vols /\ call[c].vol = v /\ link' = [link EXCEPT ![v] = None]
  BY <1>1 DEF Unlink
<1>5. Acts(c, k, h) /\ k.vol = v /\ h.vol = v /\ h # Nothing /\ k.pc = "done"
  BY <1>1, <1>3
<1>6. \/ k.pc = "link"
      \/ call[c].pc = "link" /\ None = call[c].dev
      \/ call[c].pc = "unlink"
  BY <1>1
<1>7. /\ k.pc \in {"idle", "link", "done"}
      /\ k.pc = "link" => h = Nothing /\ call[c].pc = "link" /\ k.dev = call[c].dev
                          /\ k.vol = v
      /\ k.pc = "done" => h # Nothing /\ h.vol = k.vol
      /\ k.pc = "idle" => h.vol = v /\ h.dev = None /\ None # None
      /\ None # None => call[c].pc = "link" /\ None = call[c].dev
  BY <1>5
<1>8. /\ None \in Devices \cup {None} /\ k.vol \in {v, None} /\ h.vol \in {v, None}
      /\ h # Nothing \/ k # Idle
      /\ Acts(c, k, h)
      /\ UNCHANGED <<containerized, imRoot, mapped, confs, leaked, stale, unlinked, faults>>
  BY <1>2, <1>5
<1> HIDE DEF v, h
<1> QED BY <1>4, <1>6, <1>7, <1>8, Linking

LEMMA UnmapKeeps ==
  ASSUME IInv, NEW c \in Clients, Unmap(c)
  PROVE  IInv'
<1> DEFINE v == call[c].vol
           d == call[c].dev
<1>1. /\ call[c].pc = "unmap" /\ v \in Vols /\ d \in Devices /\ call[c] # Idle
      /\ held[c] # Nothing /\ held[c].vol = v
  BY CallOf DEF IInv, Unmap, At, OnTheirVolumes, OnItsVolume
<1>2. /\ UNCHANGED <<containerized, imRoot, held, confs, leaked, stale, unlinked, faults>>
      /\ mapped' = [mapped EXCEPT ![d] = None]
  BY DEF Unmap
<1>3. /\ mapped' \in [Devices -> Vols \cup {None}] /\ mapped'[d] = None
      /\ \A e \in Devices \ {d} : mapped'[e] = mapped[e]
  BY <1>1, <1>2 DEF IInv, TypeOK
<1>4. PICK k \in Call :
        /\ Acts(c, k, held[c]) /\ k.vol = v
        /\ k.pc = IF containerized THEN "unlink" ELSE "done"
  <2>1. (IF OwnLinks THEN "unlink" ELSE "done") \in Steps
    BY DEF Steps
  <2> QED BY <1>1, <1>2, <2>1, GoingTo DEF IInv, Unmap, OwnLinks
<1>5. /\ call'[c] = k /\ held'[c] = held[c]
      /\ \A f \in Clients \ {c} : call'[f] = call[f] /\ held'[f] = held[f]
  BY <1>4, ActsBy DEF IInv
<1>6. /\ link' \in [Vols -> Devices \cup {None}]
      /\ \A w \in Vols : link'[w] # None => link'[w] = link[w]
      /\ \A w \in Vols : link[w] # d => link'[w] = link[w]
      /\ containerized => link' = link
      /\ ~containerized => \A w \in Vols : link'[w] # d
  BY <1>1, RBDAssumption DEF IInv, TypeOK, Unmap
<1>7. \A f \in Clients \ {c} : call[f].vol # v /\ held[f].vol # v
  BY <1>1, OthersElsewhere
<1>8. OnTheirVolumes' /\ OneUser' /\ Counted'
  <2>1. Uses(c, v)
    BY DEF Uses
  <2>2. /\ k.pc \in {"check", "map", "link"} => held[c] = Nothing
        /\ k.pc \in {"find", "unmap", "unlink", "done"}
             => held[c] # Nothing /\ held[c].vol = k.vol
        /\ k.pc \in {"link", "unmap"} => k.dev \in Devices
    BY <1>1, <1>4
  <2> HIDE DEF v
  <2> QED BY <1>1, <1>2, <1>4, <2>1, <2>2, Staying
<1>9. Found'
  <2> SUFFICES ASSUME ~unlinked
               PROVE  (\A e \in Devices : Linked(e)') /\ (\A f \in Clients : Placed(f)')
    BY <1>2 DEF Found
  <2>1. OnlyOn(v, d)
    BY <1>1 DEF IInv, Found, Placed
  <2>2. ASSUME NEW e \in Devices PROVE Linked(e)'
    <3>1. CASE e = d
      BY <1>3, <3>1 DEF Linked
    <3>2. CASE e # d
      <4>1. Linked(e) /\ mapped'[e] = mapped[e] /\ mapped[e] \in Vols \cup {None}
        BY <1>3, <3>2 DEF IInv, Found, TypeOK
      <4>2. mapped[e] # None /\ link[mapped[e]] = e => link'[mapped[e]] = e
        BY <1>6, <3>2, <4>1
      <4> QED BY <1>1, <1>5, <4>1, <4>2 DEF Linked, Connecting, At
    <3> QED BY <3>1, <3>2
  <2>3. ASSUME NEW f \in Clients PROVE Placed(f)'
    <3>1. CASE f = c
      <4>1. \A e \in Devices : mapped'[e] # v
        BY <1>1, <1>3, <2>1, RBDAssumption DEF OnlyOn
      <4> QED BY <1>4, <1>5, <3>1, <4>1 DEF Placed, Nowhere
    <3>2. CASE f # c
      <4>1. call'[f] = call[f] /\ Placed(f)
        BY <1>5, <3>2 DEF IInv, Found
      <4>2. call[f].pc # "idle" => call[f].vol # None
        BY CallOf, RBDAssumption DEF IInv
      <4>3. \A e \in Devices : mapped'[e] # None => mapped'[e] = mapped[e]
        BY <1>3
      <4> QED BY <4>1, <4>2, <4>3 DEF Placed, Nowhere, OnlyOn
    <3> QED BY <3>1, <3>2
  <2> QED BY <2>2, <2>3
<1>10. Own'
  <2> SUFFICES ASSUME ~stale
               PROVE  (\A w \in Vols : Truthful(w)') /\ (\A f \in Clients : Owns(f)' /\ Held(f)')
    BY <1>2 DEF Own
  <2>1. mapped[d] = v
    BY <1>1 DEF IInv, Own, Owns
  <2>2. ASSUME NEW w \in Vols PROVE Truthful(w)'
    <3> SUFFICES ASSUME link'[w] # None PROVE Truthful(w)'
      BY DEF Truthful
    <3>1. link'[w] = link[w] /\ link[w] \in Devices
      BY <1>6 DEF IInv, TypeOK
    <3>2. Truthful(w)
      BY DEF IInv, Own
    <3>3. CASE mapped[link[w]] = w /\ link[w] # d
      BY <1>3, <3>1, <3>3 DEF Truthful
    <3>4. CASE mapped[link[w]] = w /\ link[w] = d
      <4>1. w = v /\ containerized
        BY <1>6, <2>1, <3>1, <3>4
      <4> QED BY <1>4, <1>5, <4>1 DEF Truthful, At
    <3>5. CASE \E f \in Clients : At(f, "unlink") /\ call[f].vol = w
      <4>1. PICK f \in Clients : At(f, "unlink") /\ call[f].vol = w
        BY <3>5
      <4>2. call'[f] = call[f]
        BY <1>1, <1>5, <4>1 DEF At
      <4> QED BY <4>1, <4>2 DEF Truthful, At
    <3> QED BY <3>1, <3>2, <3>3, <3>4, <3>5 DEF Truthful
  <2>3. ASSUME NEW f \in Clients PROVE Owns(f)' /\ Held(f)'
    <3>1. CASE f = c
      BY <1>2, <1>4, <1>5, <3>1 DEF Owns, Held, Disconnecting, At
    <3>2. CASE f # c
      <4>1. /\ call'[f] = call[f] /\ held'[f] = held[f]
            /\ call[f].vol # v /\ held[f].vol # v
            /\ Owns(f) /\ Held(f) /\ OnItsVolume(f)
        BY <1>5, <1>7, <3>2 DEF IInv, Own, OnTheirVolumes
      <4>2. Owns(f)'
        <5>1. call[f].pc \in {"link", "unmap"} =>
                call[f].dev \in Devices /\ call[f].dev # d
          BY <2>1, <4>1 DEF Owns, OnItsVolume
        <5> QED BY <1>2, <1>3, <4>1, <5>1 DEF Owns
      <4>3. Held(f)'
        <5>1. held[f] # Nothing /\ ~Disconnecting(f)
                => held[f].dev \in Devices /\ held[f].dev # d
          BY <2>1, <4>1, HeldOf DEF IInv, Held
        <5> QED BY <1>3, <4>1, <5>1 DEF Held, Disconnecting
      <4> QED BY <4>2, <4>3
    <3> QED BY <3>1, <3>2
  <2> QED BY <2>2, <2>3
<1>11. TypeOK'
  BY <1>2, <1>3, <1>4, <1>6, <1>8, Typing DEF IInv, TypeOK
<1> QED BY <1>8, <1>9, <1>10, <1>11 DEF IInv

-----------------------------------------------------------------------------
LEMMA InitIInv == Init => IInv
<1> SUFFICES ASSUME Init PROVE IInv
  OBVIOUS
<1>1. \A c \in Clients : /\ call[c] = Idle /\ call[c].pc = "idle" /\ call[c].vol = None
                         /\ held[c] = Nothing /\ held[c].vol = None
  BY DEF Init, Idle, Nothing
<1>2. Busy = {}
  BY <1>1 DEF Busy
<1>3. Cardinality({}) = 0 /\ Cardinality(Clients) \in Nat
  BY FS_EmptySet, RBDAssumption, FS_CardinalityType
<1>4. Counted
  BY <1>2, <1>3 DEF Init, Counted, ConfsAccounted, Busy
<1>5. TypeOK
  <2>1. confs \in 0..(Cardinality(Clients) + MaxFaults)
        /\ leaked \in 0..MaxFaults /\ faults \in 0..MaxFaults
    BY <1>3, RBDAssumption DEF Init
  <2>2. held \in [Clients -> [vol : Vols, dev : Devices] \cup {Nothing}]
        /\ call \in [Clients -> Call \cup {Idle}]
    BY DEF Init
  <2>3. mapped \in [Devices -> Vols \cup {None}] /\ link \in [Vols -> Devices \cup {None}]
    BY DEF Init
  <2> QED BY <2>1, <2>2, <2>3 DEF Init, TypeOK
<1>6. OnTheirVolumes /\ OneUser
  BY <1>1, RBDAssumption DEF OnTheirVolumes, OnItsVolume, OneUser, Uses
<1>7. Found
  BY <1>1 DEF Init, Found, Linked, Placed
<1>8. Own
  BY <1>1 DEF Init, Own, Truthful, Owns, Held
<1> QED BY <1>4, <1>5, <1>6, <1>7, <1>8 DEF IInv

LEMMA StutterKeeps == IInv /\ UNCHANGED vars => IInv'
<1> SUFFICES ASSUME IInv, UNCHANGED vars PROVE IInv'
  OBVIOUS
<1> USE DEF vars, IInv
<1>1. TypeOK'
  BY DEF TypeOK
<1>2. OnTheirVolumes' /\ OneUser'
  BY DEF OnTheirVolumes, OnItsVolume, OneUser, Uses
<1>3. Found'
  BY DEF Found, Linked, Connecting, At, Placed, Nowhere, OnlyOn
<1>4. Own'
  BY DEF Own, Truthful, At, Owns, Held, Disconnecting
<1>5. Counted'
  BY DEF Counted, ConfsAccounted
<1> QED BY <1>1, <1>2, <1>3, <1>4, <1>5

LEMMA NextIInv == IInv /\ [Next]_vars => IInv'
<1> SUFFICES ASSUME IInv, [Next]_vars PROVE IInv'
  OBVIOUS
<1>1. CASE UNCHANGED vars
  BY <1>1, StutterKeeps
<1>2. CASE Next
  <2>1. PICK c \in Clients : \/ \E v \in Vols : Connect(c, v)
                             \/ Disconnect(c) \/ StepOf(c) \/ Crash(c)
    BY <1>2 DEF Next
  <2>2. CASE StepOf(c)
    BY <2>2, AlreadyMappedKeeps, NotMappedKeeps, MapKeeps, MakeLinkKeeps, LinkIsRightKeeps,
       RemoveLeftoverKeeps, LeavingKeeps, FindKeeps, UnmapKeeps, UnlinkKeeps, RaisesKeeps
       DEF StepOf
  <2> QED BY <2>1, <2>2, ConnectKeeps, DisconnectKeeps, LeavingKeeps
<1> QED BY <1>1, <1>2

LEMMA Invariance == Spec => []IInv
<1> QED BY InitIInv, NextIInv, PTL DEF Spec

-----------------------------------------------------------------------------
(* The variables keep their types; as many configuration files are left at   *)
(* most as clients could have made.                                          *)
THEOREM RBDTyped == Spec => []TypeOK
<1>1. IInv => TypeOK
  BY DEF IInv
<1> QED BY <1>1, Invariance, PTL

(* A path that a client was given leads to its volume.                       *)
THEOREM PathsAreTrue == Spec => []HeldIsOwn
<1>1. IInv => HeldIsOwn
  BY DEF IInv, Own, Held, HeldIsOwn
<1> QED BY <1>1, Invariance, PTL

(* A mapped image is found again under its name.                             *)
THEOREM DevicesAreFound == Spec => []MappedIsFound
<1>1. IInv => MappedIsFound
  BY DEF IInv, Found, Linked, MappedIsFound
<1> QED BY <1>1, Invariance, PTL

(* No configuration file is left that no client accounts for.                *)
THEOREM ConfsAreAccounted == Spec => []ConfsAccounted
<1>1. IInv => ConfsAccounted
  BY DEF IInv, Counted
<1> QED BY <1>1, Invariance, PTL
=============================================================================
