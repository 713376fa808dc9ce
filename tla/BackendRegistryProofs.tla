------------------------ MODULE BackendRegistryProofs ------------------------
(* Drivers, configurations and the store stay together, for any number of    *)
(* threads, names, stores, objects and failures.                             *)
EXTENDS BackendRegistry, FiniteSetTheorems, TLAPS

ConfigSteps == {"setup", "plugin", "switch", "impl", "finish"}
BuildSteps == {"section", "import", "driver", "initialize"}
Building(t) == call[t].pc \in BuildSteps

-----------------------------------------------------------------------------
(* The inductive invariant.                                                  *)

(* One thread configures at a time, the setup is done once, and nothing is   *)
(* built before: so the configuration it starts anew has nothing to lose.    *)
OneConfigures ==
  \A t, u \in Threads :
    call[t].pc \in ConfigSteps /\ call[u].pc \in ConfigSteps => t = u
SetsUp(t) ==
  \/ call[t].pc \in {"plugin", "switch", "impl"} /\ call[t].setup
  \/ call[t].pc = "finish"
SetUpOnce == \A t \in Threads : SetsUp(t) => ~setUp
BuiltAfterSetUp ==
  /\ \A t \in Threads : call[t].pc = "register" \/ Building(t) => setUp
  /\ \A o \in Objects : Configured(o) => setUp

(* A thread builds an object of its own, and has got as far as that has.     *)
OwnObject(t) ==
  Building(t) =>
    /\ call[t].object \in Objects
    /\ call[t].object <= made
    /\ object[call[t].object].name = call[t].name
    /\ call[t].pc = "section" => object[call[t].object].phase = "registered"
    /\ call[t].pc \in {"import", "driver"} => object[call[t].object].phase = "configured"
    /\ call[t].pc = "initialize" => object[call[t].object].phase = "driver"
OwnObjects == \A t \in Threads : OwnObject(t)
Apart ==
  \A t, u \in Threads :
    Building(t) /\ Building(u) /\ call[t].object = call[u].object => t = u
UnmadeIsNew == \A o \in Objects : o > made => object[o].phase = "new"
UnderItsName ==
  \A n \in Names : backends[n] # None =>
    backends[n] <= made /\ object[backends[n]].name = n

(* While the store is being replaced, the drivers that do not use it yet,    *)
(* and those whose constructor was given the one before, are still to come.  *)
Replacing == \E t \in Threads : call[t].pc \in {"switch", "impl"}
Pending(n) == \E t \in Threads : call[t].pc = "switch" /\ n \in call[t].todo
Excused(n) == Pending(n) \/ (torn /\ ~Replacing)
ImplFollows == torn \/ Replacing \/ impl = store
DriversFollow ==
  \A n \in Names : backends[n] # None /\ HasDriver(backends[n]) =>
    object[backends[n]].store = store \/ Excused(n)
ConstructorsFollow ==
  \A t \in Threads :
    call[t].pc = "driver" /\ backends[call[t].name] = call[t].object =>
      call[t].store = store \/ Excused(call[t].name)

Order == OneConfigures /\ SetUpOnce /\ BuiltAfterSetUp
Ownership == OwnObjects /\ Apart /\ UnmadeIsNew /\ UnderItsName
Sections == SectionsStay /\ OneAttemptPerName
Following == ImplFollows /\ DriversFollow /\ ConstructorsFollow

IInv == TypeOK /\ Order /\ Ownership /\ Sections /\ Following

-----------------------------------------------------------------------------
(* What the steps do to the call of a thread.                                *)

LEMMA CallIsNotIdle == \A c \in Call : c # Idle
<1> SUFFICES ASSUME NEW c \in Call, c = Idle PROVE FALSE
  OBVIOUS
<1>1. c.pc \in Steps
  BY DEF Call
<1>2. c.pc = "idle"
  BY DEF Idle
<1> QED BY <1>1, <1>2 DEF Steps

LEMMA CallOf ==
  ASSUME TypeOK, NEW t \in Threads, call[t].pc # "idle"
  PROVE  /\ call[t] \in Call
         /\ call[t].pc \in Steps /\ call[t].name \in Names
         /\ call[t].build \in BOOLEAN /\ call[t].setup \in BOOLEAN
         /\ call[t].object \in Objects \cup {None}
         /\ call[t].store \in Stores \cup {"none"}
         /\ call[t].todo \in SUBSET Names
         /\ call[t].size \in 0..Cardinality(Names)
<1>1. call[t] \in Call
  BY DEF TypeOK, Idle
<1> QED BY <1>1 DEF Call

(* Only t does something, and it goes to pc.                                 *)
Moves(t, pc) ==
  /\ call' \in [Threads -> Call \cup {Idle}]
  /\ \A u \in Threads \ {t} : call'[u] = call[u]
  /\ call'[t].pc = pc
Keeps(t) ==
  /\ call'[t].name = call[t].name
  /\ call'[t].build = call[t].build
  /\ call'[t].setup = call[t].setup
  /\ call'[t].object = call[t].object

LEMMA GoingOn ==
  ASSUME TypeOK, NEW t \in Threads, call[t].pc # "idle", NEW pc \in Steps, GoTo(t, pc)
  PROVE  /\ Moves(t, pc) /\ Keeps(t)
         /\ call'[t].store = call[t].store
         /\ call'[t].todo = call[t].todo
<1>1. call[t] \in Call
  BY CallOf
<1> DEFINE c == [call[t] EXCEPT !.pc = pc]
<1>2. /\ c \in Call
      /\ c.name = call[t].name /\ c.build = call[t].build /\ c.setup = call[t].setup
      /\ c.object = call[t].object /\ c.store = call[t].store
      /\ c.todo = call[t].todo /\ c.pc = pc
  BY <1>1 DEF Call
<1>3. call' = [call EXCEPT ![t] = c]
  BY DEF GoTo
<1> HIDE DEF c
<1>4. /\ call' \in [Threads -> Call \cup {Idle}]
      /\ \A u \in Threads \ {t} : call'[u] = call[u]
      /\ call'[t] = c
  BY <1>2, <1>3 DEF TypeOK
<1> QED BY <1>2, <1>4 DEF Moves, Keeps

LEMMA Returning ==
  ASSUME TypeOK, NEW t \in Threads, Return(t)
  PROVE  Moves(t, "idle")
BY DEF TypeOK, Return, Moves, Idle

LEMMA Starting ==
  ASSUME TypeOK, NEW t \in Threads, NEW pc \in Steps, NEW n \in Names,
         NEW build \in BOOLEAN, NEW setup \in BOOLEAN, NewCall(t, pc, n, build, setup)
  PROVE  Moves(t, pc) /\ call'[t].setup = setup
<1> DEFINE c == [pc |-> pc, name |-> n, build |-> build, setup |-> setup,
                 object |-> None, store |-> "none", todo |-> {}, size |-> 0]
<1>1. 0 \in 0..Cardinality(Names)
  BY RegistryAssumption, FS_CardinalityType
<1>2. c \in Call /\ c.pc = pc /\ c.setup = setup
  BY <1>1 DEF Call
<1>3. call' = [call EXCEPT ![t] = c]
  BY DEF NewCall
<1> HIDE DEF c
<1> QED BY <1>2, <1>3 DEF TypeOK, Moves

-----------------------------------------------------------------------------
(* Steps that change nothing but the call, which begins or ends.             *)
LEMMA QuietKeeps ==
  ASSUME IInv, NEW t \in Threads, NEW pc \in {"idle", "setup", "plugin", "register"},
         Moves(t, pc), TypeOK',
         UNCHANGED <<setUp, store, impl, backends, object, made, torn>>,
         sections' = sections \/ ~setUp,
         call[t].pc \notin {"switch", "impl"},
         pc \in ConfigSteps => call[t].pc \in ConfigSteps \/ ~Configuring,
         pc = "plugin" /\ call'[t].setup => ~setUp,
         pc = "register" => setUp
  PROVE  IInv'
<1>1. \A u \in Threads \ {t} : call'[u] = call[u]
  BY DEF Moves
<1>2. call'[t].pc = pc
  BY DEF Moves
<1>3. OneConfigures'
  BY <1>1, <1>2 DEF IInv, Order, OneConfigures, Configuring, ConfigSteps
<1>4. SetUpOnce'
  BY <1>1, <1>2 DEF IInv, Order, SetUpOnce, SetsUp
<1>5. BuiltAfterSetUp'
  BY <1>1, <1>2 DEF IInv, Order, BuiltAfterSetUp, Building, BuildSteps, Configured
<1>6. OwnObjects' /\ Apart'
  BY <1>1, <1>2 DEF IInv, Ownership, OwnObjects, OwnObject, Apart, Building, BuildSteps
<1>7. UnmadeIsNew' /\ UnderItsName'
  BY DEF IInv, Ownership, UnmadeIsNew, UnderItsName
<1>8. Sections'
  BY DEF IInv, Order, BuiltAfterSetUp, Sections, SectionsStay, OneAttemptPerName, Configured
<1>9. (Replacing' <=> Replacing) /\ \A n \in Names : Pending(n)' <=> Pending(n)
  BY <1>1, <1>2 DEF Replacing, Pending
<1>10. \A n \in Names : Excused(n)' <=> Excused(n)
  BY <1>9 DEF Excused
<1>11. ImplFollows' /\ DriversFollow'
  BY <1>9, <1>10 DEF IInv, Following, ImplFollows, DriversFollow, HasDriver
<1>12. ConstructorsFollow'
  <2> SUFFICES ASSUME NEW u \in Threads, call'[u].pc = "driver",
                      backends[call'[u].name] = call'[u].object
               PROVE  call'[u].store = store \/ Excused(call[u].name)'
    BY DEF ConstructorsFollow
  <2>1. call'[u] = call[u]
    BY <1>1, <1>2
  <2>2. call[u].name \in Names
    BY <2>1, CallOf DEF IInv
  <2> QED BY <2>1, <2>2, <1>10 DEF IInv, Following, ConstructorsFollow
<1> QED BY <1>3, <1>4, <1>5, <1>6, <1>7, <1>8, <1>11, <1>12
         DEF IInv, Order, Ownership, Following

LEMMA StartKeeps ==
  ASSUME IInv, NEW t \in Threads, Start(t)
  PROVE  IInv'
<1>0. call[t] = Idle
  BY DEF Start, StartSetup, StartSetPersistence, StartLoad, StartConstruct
<1>1. call[t].pc = "idle"
  BY <1>0 DEF Idle
<1>2. PICK pc \in {"setup", "plugin", "register"}, n \in Names,
           build \in BOOLEAN, setup \in BOOLEAN :
        /\ NewCall(t, pc, n, build, setup)
        /\ pc \in ConfigSteps => ~Configuring
        /\ pc = "plugin" => ~setup
        /\ pc = "register" => setUp
        /\ UNCHANGED <<setUp, configured, store, impl, sections, backends, object,
                       made, torn, faults>>
  <2>1. AName \in Names
    BY RegistryAssumption DEF AName
  <2> QED BY <2>1 DEF Start, StartSetup, StartSetPersistence, StartLoad, StartConstruct,
                      Construct, ConfigSteps
<1>3. Moves(t, pc) /\ call'[t].setup = setup
  BY <1>2, Starting DEF Steps, IInv
<1>4. TypeOK'
  BY <1>2, <1>3 DEF IInv, TypeOK, Moves
<1> QED BY <1>1, <1>2, <1>3, <1>4, QuietKeeps

(* A call that ends without having done anything that counts.                *)
LEMMA ReturnKeeps ==
  ASSUME IInv, NEW t \in Threads, Return(t), TypeOK',
         UNCHANGED <<setUp, store, impl, backends, object, made, torn>>,
         sections' = sections \/ ~setUp,
         call[t].pc \notin {"switch", "impl"}
  PROVE  IInv'
<1>1. Moves(t, "idle")
  BY Returning DEF IInv
<1> QED BY <1>1, QuietKeeps DEF ConfigSteps

LEMMA EndKeeps ==
  ASSUME IInv, NEW t \in Threads,
         AlreadySetUp(t) \/ PluginRaises(t) \/ FinishRaises(t) \/ DuplicateSection(t)
           \/ DriverRaises(t)
  PROVE  IInv'
<1>1. Return(t)
  BY DEF AlreadySetUp, PluginRaises, FinishRaises, DuplicateSection, DriverRaises, Fault
<1>2. Moves(t, "idle")
  BY <1>1, Returning DEF IInv
<1>3. faults' \in 0..MaxFaults
  BY RegistryAssumption
     DEF IInv, TypeOK, AlreadySetUp, PluginRaises, FinishRaises, DuplicateSection,
         DriverRaises, Fault
<1>4. UNCHANGED <<setUp, configured, store, impl, backends, object, made, torn>>
  BY DEF AlreadySetUp, PluginRaises, FinishRaises, DuplicateSection, DriverRaises
<1>5. sections' = sections \/ (call[t].pc = "finish" /\ sections' = {})
  BY DEF AlreadySetUp, PluginRaises, FinishRaises, DuplicateSection, DriverRaises, At
<1>6. sections' = sections \/ ~setUp
  BY <1>5 DEF IInv, Order, SetUpOnce, SetsUp
<1>7. TypeOK'
  BY <1>2, <1>3, <1>4, <1>5 DEF IInv, TypeOK, Moves
<1>8. call[t].pc \notin {"switch", "impl"}
  BY DEF AlreadySetUp, PluginRaises, FinishRaises, DuplicateSection, DriverRaises, At
<1> QED BY <1>1, <1>4, <1>6, <1>7, <1>8, ReturnKeeps

LEMMA BeginSetupKeeps ==
  ASSUME IInv, NEW t \in Threads, BeginSetup(t)
  PROVE  IInv'
<1>1. Moves(t, "plugin")
  BY GoingOn DEF IInv, BeginSetup, At, Steps
<1>2. TypeOK'
  BY <1>1 DEF IInv, TypeOK, BeginSetup, Moves
<1>3. call[t].pc \in ConfigSteps /\ call[t].pc \notin {"switch", "impl"}
  BY DEF BeginSetup, At, ConfigSteps
<1>4. ~setUp /\ UNCHANGED <<setUp, store, impl, sections, backends, object, made, torn>>
  BY DEF BeginSetup, MaySetUp
<1> QED BY <1>1, <1>2, <1>3, <1>4, QuietKeeps

-----------------------------------------------------------------------------
(* The replacement of the store.                                             *)

(* It leaves the objects where they are.                                     *)
LEMMA ConfigKeeps ==
  ASSUME IInv, NEW t \in Threads, NEW pc \in {"switch", "impl", "finish", "idle"},
         call[t].pc \in ConfigSteps, Moves(t, pc), SetsUp(t)' => ~setUp,
         UNCHANGED <<setUp, sections, backends, made>>,
         \A o \in Objects : /\ object'[o].name = object[o].name
                            /\ object'[o].phase = object[o].phase
  PROVE  Order' /\ Ownership' /\ Sections'
<1>1. (\A u \in Threads \ {t} : call'[u] = call[u]) /\ call'[t].pc = pc
  BY DEF Moves
<1>2. \A o \in Objects : Configured(o)' <=> Configured(o)
  BY DEF Configured
<1>3. Order'
  <2>1. OneConfigures'
    BY <1>1 DEF IInv, Order, OneConfigures, ConfigSteps
  <2>2. SetUpOnce'
    <3> SUFFICES ASSUME NEW u \in Threads, SetsUp(u)' PROVE ~setUp'
      BY DEF SetUpOnce
    <3>1. CASE u = t
      BY <3>1
    <3>2. CASE u # t
      BY <3>2, <1>1 DEF IInv, Order, SetUpOnce, SetsUp
    <3> QED BY <3>1, <3>2
  <2>3. BuiltAfterSetUp'
    BY <1>1, <1>2 DEF IInv, Order, BuiltAfterSetUp, Building, BuildSteps
  <2> QED BY <2>1, <2>2, <2>3 DEF Order
<1>4. Ownership'
  <2>1. OwnObjects'
    <3> SUFFICES ASSUME NEW u \in Threads, Building(u)' PROVE OwnObject(u)'
      BY DEF OwnObjects, OwnObject
    <3>1. call'[u] = call[u]
      BY <1>1 DEF Building, BuildSteps
    <3> QED BY <3>1 DEF IInv, Ownership, OwnObjects, OwnObject, Building
  <2>2. Apart'
    BY <1>1 DEF IInv, Ownership, Apart, Building, BuildSteps
  <2>3. UnmadeIsNew'
    BY DEF IInv, Ownership, UnmadeIsNew
  <2>4. UnderItsName'
    <3> SUFFICES ASSUME NEW n \in Names, backends[n] # None
                 PROVE  backends[n] <= made /\ object'[backends[n]].name = n
      BY DEF UnderItsName
    <3>1. backends[n] \in Objects
      BY DEF IInv, TypeOK
    <3> QED BY <3>1 DEF IInv, Ownership, UnderItsName
  <2> QED BY <2>1, <2>2, <2>3, <2>4 DEF Ownership
<1>5. Sections'
  BY <1>2 DEF IInv, Sections, SectionsStay, OneAttemptPerName
<1> QED BY <1>3, <1>4, <1>5

(* What a thread that replaces the store says of the others.                 *)
LEMMA OnlyOneReplaces ==
  ASSUME IInv, NEW t \in Threads, call[t].pc \in ConfigSteps,
         NEW u \in Threads \ {t}
  PROVE  call[u].pc \notin ConfigSteps
BY DEF IInv, Order, OneConfigures

LEMMA StartPluginKeeps ==
  ASSUME IInv, NEW t \in Threads, NEW s \in Stores, StartPlugin(t, s)
  PROVE  IInv'
<1> DEFINE c == [call[t] EXCEPT !.pc = "switch", !.todo = Registered,
                                !.size = Cardinality(Registered)]
<1>1. call[t] \in Call /\ call[t].pc = "plugin"
  BY CallOf DEF IInv, StartPlugin, At
<1>2. Registered \in SUBSET Names /\ Cardinality(Registered) \in 0..Cardinality(Names)
  <2>1. Registered \in SUBSET Names
    BY DEF Registered
  <2>2. IsFiniteSet(Names)
    BY RegistryAssumption
  <2>3. IsFiniteSet(Registered) /\ Cardinality(Registered) <= Cardinality(Names)
    BY <2>1, <2>2, FS_Subset
  <2> QED BY <2>1, <2>2, <2>3, FS_CardinalityType
<1>3. /\ c \in Call /\ c.pc = "switch" /\ c.todo = Registered
      /\ c.setup = call[t].setup
  BY <1>1, <1>2 DEF Call, Steps
<1>4. call' = [call EXCEPT ![t] = c]
  BY DEF StartPlugin
<1> HIDE DEF c
<1>5. Moves(t, "switch") /\ call'[t].todo = Registered /\ call'[t].setup = call[t].setup
  BY <1>3, <1>4 DEF IInv, TypeOK, Moves
<1>6. TypeOK'
  BY <1>5 DEF IInv, TypeOK, StartPlugin, Moves
<1>7. SetsUp(t)' => ~setUp
  BY <1>1, <1>5 DEF IInv, Order, SetUpOnce, SetsUp, Moves
<1>8. Order' /\ Ownership' /\ Sections'
  BY <1>1, <1>5, <1>7, ConfigKeeps DEF StartPlugin, ConfigSteps
<1>9. Replacing' /\ \A n \in Registered : Pending(n)'
  BY <1>5 DEF Replacing, Pending, Moves
<1>10. ImplFollows'
  BY <1>9 DEF ImplFollows
<1>11. DriversFollow'
  BY <1>9 DEF StartPlugin, DriversFollow, Excused, Registered
<1>12. ConstructorsFollow'
  <2> SUFFICES ASSUME NEW u \in Threads, call'[u].pc = "driver",
                      backends[call'[u].name] = call'[u].object
               PROVE  Excused(call[u].name)' /\ call'[u].name = call[u].name
    BY DEF ConstructorsFollow, StartPlugin
  <2>1. call'[u] = call[u]
    BY <1>5 DEF Moves
  <2>2. call[u].name \in Names /\ call[u].object \in Objects
    BY <2>1, CallOf DEF IInv, Ownership, OwnObjects, OwnObject, Building, BuildSteps
  <2>3. call[u].name \in Registered
    BY <2>1, <2>2 DEF Registered, Objects, None
  <2> QED BY <2>1, <2>3, <1>9 DEF Excused
<1> QED BY <1>6, <1>8, <1>10, <1>11, <1>12 DEF IInv, Following

(* A step of the replacement that changes no object.                         *)
LEMMA ReplacementKeeps ==
  ASSUME IInv, NEW t \in Threads, NEW pc \in {"impl", "finish", "idle"},
         call[t].pc \in {"switch", "impl"}, Moves(t, pc), TypeOK',
         SetsUp(t)' => ~setUp,
         UNCHANGED <<setUp, store, sections, backends, object, made>>,
         \A n \in Names : Excused(n) => Excused(n)',
         torn' \/ pc = "impl" \/ impl' = store
  PROVE  IInv'
<1>1. call[t].pc \in ConfigSteps
  BY DEF ConfigSteps
<1>2. Order' /\ Ownership' /\ Sections'
  BY <1>1, ConfigKeeps
<1>3. ImplFollows'
  BY DEF ImplFollows, Replacing, Moves
<1>4. DriversFollow'
  BY DEF IInv, Following, DriversFollow, HasDriver
<1>5. ConstructorsFollow'
  <2> SUFFICES ASSUME NEW u \in Threads, call'[u].pc = "driver",
                      backends[call'[u].name] = call'[u].object
               PROVE  /\ call[u].name = call'[u].name
                      /\ call'[u].store = store \/ Excused(call[u].name)'
    BY DEF ConstructorsFollow
  <2>1. call'[u] = call[u]
    BY DEF Moves
  <2>2. call[u].name \in Names
    BY <2>1, CallOf DEF IInv
  <2> QED BY <2>1, <2>2 DEF IInv, Following, ConstructorsFollow
<1> QED BY <1>2, <1>3, <1>4, <1>5 DEF IInv, Following

LEMMA SwitchKeeps ==
  ASSUME IInv, NEW t \in Threads, NEW n \in Names, Switch(t, n)
  PROVE  IInv'
<1> DEFINE o == backends[n]
           c == [call[t] EXCEPT !.todo = @ \ {n}]
<1>1. call[t] \in Call /\ call[t].pc = "switch" /\ call[t].todo \in SUBSET Names
  BY CallOf DEF IInv, Switch, At
<1>2. /\ c \in Call /\ c.pc = "switch" /\ c.todo = call[t].todo \ {n}
      /\ c.setup = call[t].setup
  BY <1>1 DEF Call
<1>3. call' = [call EXCEPT ![t] = c]
  BY DEF Switch
<1> HIDE DEF c
<1>4. /\ Moves(t, "switch") /\ call'[t].todo = call[t].todo \ {n}
      /\ call'[t].setup = call[t].setup
  BY <1>2, <1>3 DEF IInv, TypeOK, Moves
<1>5. HasDriver(o) /\ object' = [object EXCEPT ![o].store = store]
  BY DEF Switch, Reached
<1>6. /\ object' \in [Objects -> Object]
      /\ \A q \in Objects : /\ object'[q].name = object[q].name
                            /\ object'[q].phase = object[q].phase
                            /\ object'[q].store = IF q = o THEN store ELSE object[q].store
  BY <1>5 DEF IInv, TypeOK, Object
<1>7. TypeOK'
  BY <1>4, <1>6 DEF IInv, TypeOK, Switch, Moves
<1>8. SetsUp(t)' => ~setUp
  BY <1>1, <1>4 DEF IInv, Order, SetUpOnce, SetsUp, Moves
<1>9. Order' /\ Ownership' /\ Sections'
  BY <1>1, <1>4, <1>6, <1>8, ConfigKeeps DEF Switch, ConfigSteps
<1>10. Replacing /\ Replacing' /\ \A m \in Names \ {n} : Pending(m) => Pending(m)'
  BY <1>1, <1>4 DEF Replacing, Pending, Moves
<1>11. \A m \in Names : backends'[m] = backends[m] /\ backends[m] \in Objects \cup {None}
  BY DEF IInv, TypeOK, Switch
<1>12. store' = store
  BY DEF Switch
<1>13. ImplFollows'
  BY <1>10 DEF ImplFollows
<1>14. DriversFollow'
  <2> SUFFICES ASSUME NEW m \in Names, backends[m] # None, HasDriver(backends[m])'
               PROVE  object'[backends[m]].store = store \/ Excused(m)'
    BY <1>11, <1>12 DEF DriversFollow
  <2>1. backends[m] \in Objects
    BY <1>11
  <2>2. HasDriver(backends[m])
    BY <2>1, <1>6, <1>11 DEF HasDriver
  <2>3. CASE m = n
    BY <2>1, <2>3, <1>6
  <2>4. CASE m # n
    BY <2>1, <2>2, <2>4, <1>6, <1>10 DEF IInv, Following, DriversFollow, Excused
  <2> QED BY <2>3, <2>4
<1>15. ConstructorsFollow'
  <2> SUFFICES ASSUME NEW u \in Threads, call'[u].pc = "driver",
                      backends[call'[u].name] = call'[u].object
               PROVE  /\ call[u].name = call'[u].name
                      /\ call'[u].store = store \/ Excused(call[u].name)'
    BY <1>12 DEF ConstructorsFollow, Switch
  <2>1. call'[u] = call[u]
    BY <1>4 DEF Moves
  <2>2. call[u].name \in Names /\ object[call[u].object].phase = "configured"
    BY <2>1, CallOf DEF IInv, Ownership, OwnObjects, OwnObject, Building, BuildSteps
  <2>3. call[u].name # n
    BY <2>1, <2>2, <1>5 DEF HasDriver
  <2> QED BY <2>1, <2>2, <2>3, <1>10 DEF IInv, Following, ConstructorsFollow, Excused
<1> QED BY <1>7, <1>9, <1>13, <1>14, <1>15 DEF IInv, Following

LEMMA SwitchRaisesKeeps ==
  ASSUME IInv, NEW t \in Threads, SwitchRaises(t)
  PROVE  IInv'
<1>1. Moves(t, "idle") /\ call[t].pc = "switch"
  BY Returning DEF IInv, SwitchRaises, At
<1>2. TypeOK'
  BY <1>1 DEF IInv, TypeOK, SwitchRaises, Moves
<1>3. ~SetsUp(t)'
  BY <1>1 DEF SetsUp, Moves
<1>4. torn' /\ ~Replacing'
  BY <1>1, OnlyOneReplaces DEF SwitchRaises, Replacing, Moves, ConfigSteps
<1>5. \A n \in Names : Excused(n)'
  BY <1>4 DEF Excused
<1> QED BY <1>1, <1>2, <1>3, <1>4, <1>5, ReplacementKeeps DEF SwitchRaises

LEMMA SwitchedKeeps ==
  ASSUME IInv, NEW t \in Threads, Switched(t)
  PROVE  IInv'
<1>1. /\ Moves(t, "impl") /\ Keeps(t)
      /\ call[t].pc = "switch" /\ call[t].todo = {}
  BY GoingOn DEF IInv, Switched, At, Steps
<1>2. TypeOK'
  BY <1>1 DEF IInv, TypeOK, Switched, Moves
<1>3. SetsUp(t)' => ~setUp
  BY <1>1 DEF IInv, Order, SetUpOnce, SetsUp, Moves, Keeps
<1>4. Replacing /\ \A n \in Names : ~Pending(n)
  BY <1>1, OnlyOneReplaces DEF Replacing, Pending, ConfigSteps
<1>5. \A n \in Names : ~Excused(n)
  BY <1>4 DEF Excused
<1> QED BY <1>1, <1>2, <1>3, <1>5, ReplacementKeeps DEF Switched

LEMMA SetImplKeeps ==
  ASSUME IInv, NEW t \in Threads, SetImpl(t)
  PROVE  IInv'
<1>1. call[t].pc = "impl" /\ call[t].setup \in BOOLEAN
  BY CallOf DEF IInv, SetImpl, At
<1>2. PICK pc \in {"finish", "idle"} : Moves(t, pc) /\ (pc = "finish" => call[t].setup)
  <2>1. CASE call[t].setup
    BY <1>1, <2>1, GoingOn DEF IInv, SetImpl, Steps
  <2>2. CASE ~call[t].setup
    BY <2>2, Returning DEF IInv, SetImpl
  <2> QED BY <1>1, <2>1, <2>2
<1>3. TypeOK'
  BY <1>2 DEF IInv, TypeOK, SetImpl, Moves
<1>4. SetsUp(t)' => ~setUp
  BY <1>1, <1>2 DEF IInv, Order, SetUpOnce, SetsUp, Moves
<1>5. Replacing /\ \A n \in Names : ~Pending(n)
  BY <1>1, OnlyOneReplaces DEF Replacing, Pending, ConfigSteps
<1>6. \A n \in Names : ~Excused(n)
  BY <1>5 DEF Excused
<1> QED BY <1>1, <1>2, <1>3, <1>4, <1>6, ReplacementKeeps DEF SetImpl

(* The setup ends; there is no configuration yet that would go.              *)
LEMMA FinishSetupKeeps ==
  ASSUME IInv, NEW t \in Threads, FinishSetup(t)
  PROVE  IInv'
<1>1. call[t].pc = "finish" /\ call[t].build \in BOOLEAN
  BY CallOf DEF IInv, FinishSetup, At
<1>2. PICK pc \in {"register", "idle"} : Moves(t, pc)
  <2>1. CASE call[t].build
    BY <1>1, <2>1, GoingOn DEF IInv, FinishSetup, Steps
  <2>2. CASE ~call[t].build
    BY <2>2, Returning DEF IInv, FinishSetup
  <2> QED BY <1>1, <2>1, <2>2
<1>3. (\A u \in Threads \ {t} : call'[u] = call[u]) /\ call'[t].pc = pc
  BY <1>2 DEF Moves
<1>4. TypeOK'
  BY <1>2 DEF IInv, TypeOK, FinishSetup, Moves
<1>5. UNCHANGED <<store, impl, backends, object, made, torn>> /\ setUp'
  BY DEF FinishSetup
<1>6. Order'
  <2>1. OneConfigures'
    BY <1>3 DEF IInv, Order, OneConfigures, ConfigSteps
  <2>2. SetUpOnce'
    <3> SUFFICES ASSUME NEW u \in Threads, SetsUp(u)' PROVE FALSE
      BY DEF SetUpOnce
    <3>1. u # t
      BY <1>3 DEF SetsUp
    <3>2. call[u].pc \notin ConfigSteps
      BY <3>1, <1>1, OnlyOneReplaces DEF ConfigSteps
    <3> QED BY <3>1, <3>2, <1>3 DEF SetsUp, ConfigSteps
  <2>3. BuiltAfterSetUp'
    BY <1>5 DEF BuiltAfterSetUp
  <2> QED BY <2>1, <2>2, <2>3 DEF Order
<1>7. Ownership'
  <2>1. OwnObjects' /\ Apart'
    BY <1>3, <1>5 DEF IInv, Ownership, OwnObjects, OwnObject, Apart, Building, BuildSteps
  <2>2. UnmadeIsNew' /\ UnderItsName'
    BY <1>5 DEF IInv, Ownership, UnmadeIsNew, UnderItsName
  <2> QED BY <2>1, <2>2 DEF Ownership
<1>8. Sections'
  <2>1. ~setUp
    BY <1>1 DEF IInv, Order, SetUpOnce, SetsUp
  <2>2. \A o \in Objects : ~Configured(o)'
    BY <2>1, <1>5 DEF IInv, Order, BuiltAfterSetUp, Configured
  <2> QED BY <2>2 DEF Sections, SectionsStay, OneAttemptPerName
<1>9. Following'
  <2>1. (Replacing' <=> Replacing) /\ \A n \in Names : Pending(n)' <=> Pending(n)
    BY <1>1, <1>3 DEF Replacing, Pending
  <2>2. \A n \in Names : Excused(n)' <=> Excused(n)
    BY <2>1, <1>5 DEF Excused
  <2>3. ImplFollows' /\ DriversFollow'
    BY <2>1, <2>2, <1>5 DEF IInv, Following, ImplFollows, DriversFollow, HasDriver
  <2>4. ConstructorsFollow'
    <3> SUFFICES ASSUME NEW u \in Threads, call'[u].pc = "driver",
                        backends[call'[u].name] = call'[u].object
                 PROVE  /\ call[u].name = call'[u].name
                        /\ call'[u].store = store \/ Excused(call[u].name)'
      BY <1>5 DEF ConstructorsFollow
    <3>1. call'[u] = call[u]
      BY <1>3
    <3>2. call[u].name \in Names
      BY <3>1, CallOf DEF IInv
    <3> QED BY <3>1, <3>2, <2>2 DEF IInv, Following, ConstructorsFollow
  <2> QED BY <2>3, <2>4 DEF Following
<1> QED BY <1>4, <1>6, <1>7, <1>8, <1>9 DEF IInv

-----------------------------------------------------------------------------
(* The construction of a backend.                                            *)

LEMMA BuildFrame ==
  ASSUME IInv, NEW t \in Threads, NEW pc \in BuildSteps \cup {"idle"}, Moves(t, pc),
         call[t].pc \in BuildSteps \cup {"register"}, UNCHANGED <<setUp, torn>>
  PROVE  /\ Order'
         /\ Replacing' <=> Replacing
         /\ \A n \in Names : Excused(n)' <=> Excused(n)
<1>1. (\A u \in Threads \ {t} : call'[u] = call[u]) /\ call'[t].pc = pc
  BY DEF Moves
<1>2. setUp
  BY DEF IInv, Order, BuiltAfterSetUp, Building
<1>3. OneConfigures'
  BY <1>1 DEF IInv, Order, OneConfigures, ConfigSteps, BuildSteps
<1>4. SetUpOnce'
  <2> SUFFICES ASSUME NEW u \in Threads, SetsUp(u)' PROVE FALSE
    BY DEF SetUpOnce
  <2>1. u # t
    BY <1>1 DEF SetsUp, BuildSteps
  <2> QED BY <2>1, <1>1, <1>2 DEF IInv, Order, SetUpOnce, SetsUp
<1>5. BuiltAfterSetUp'
  BY <1>2 DEF BuiltAfterSetUp
<1>6. (Replacing' <=> Replacing) /\ \A n \in Names : Pending(n)' <=> Pending(n)
  BY <1>1 DEF Replacing, Pending, BuildSteps
<1> QED BY <1>3, <1>4, <1>5, <1>6 DEF Order, Excused

LEMMA RegisterKeeps ==
  ASSUME IInv, NEW t \in Threads, Register(t)
  PROVE  IInv'
<1> DEFINE n == call[t].name
           o == made + 1
           c == [call[t] EXCEPT !.pc = "section", !.object = o]
           b == [name |-> n, phase |-> "registered", store |-> "none"]
<1>1. call[t].pc = "register" /\ call[t] \in Call /\ n \in Names
  BY CallOf DEF IInv, Register, At
<1>2. o \in Objects /\ made' = o /\ made \in Nat
  BY RegistryAssumption DEF IInv, TypeOK, Register, Objects
<1>3. c \in Call /\ c.pc = "section" /\ c.name = n /\ c.object = o
  BY <1>1, <1>2 DEF Call, Steps
<1>4. call' = [call EXCEPT ![t] = c]
  BY DEF Register
<1>5. b \in Object /\ b.name = n /\ b.phase = "registered"
  BY <1>1 DEF Object, Phases
<1>6. object' = [object EXCEPT ![o] = b] /\ backends' = [backends EXCEPT ![n] = o]
  BY DEF Register
<1> HIDE DEF c, b
<1>7. Moves(t, "section") /\ call'[t].name = n /\ call'[t].object = o
  BY <1>3, <1>4 DEF IInv, TypeOK, Moves
<1>8. /\ object' \in [Objects -> Object]
      /\ object'[o] = b
      /\ \A q \in Objects \ {o} : object'[q] = object[q]
  BY <1>2, <1>5, <1>6 DEF IInv, TypeOK
<1>9. /\ backends' \in [Names -> Objects \cup {None}]
      /\ backends'[n] = o
      /\ \A m \in Names \ {n} : backends'[m] = backends[m]
  BY <1>1, <1>2, <1>6 DEF IInv, TypeOK
<1>10. TypeOK'
  <2>1. made' \in 0..MaxObjects
    BY <1>2 DEF Objects
  <2> QED BY <2>1, <1>7, <1>8, <1>9 DEF IInv, TypeOK, Register, Moves
<1>11. \A u \in Threads \ {t} : call'[u] = call[u]
  BY <1>7 DEF Moves
<1>12. UNCHANGED <<setUp, configured, store, impl, sections, torn, faults>>
  BY DEF Register
<1>13. /\ Order'
       /\ Replacing' <=> Replacing
       /\ \A m \in Names : Excused(m)' <=> Excused(m)
  BY <1>1, <1>7, <1>12, BuildFrame DEF BuildSteps
<1>14. \A u \in Threads \ {t} : Building(u) => call[u].object \in Objects \ {o}
  BY <1>2 DEF IInv, Ownership, OwnObjects, OwnObject, Objects
<1>15. \A m \in Names : backends[m] # None => backends[m] \in Objects \ {o}
  <2> SUFFICES ASSUME NEW m \in Names, backends[m] # None
               PROVE  backends[m] \in Objects \ {o}
    OBVIOUS
  <2>1. backends[m] \in Objects /\ backends[m] <= made
    BY DEF IInv, TypeOK, Ownership, UnderItsName
  <2> QED BY <2>1, <1>2 DEF Objects
<1>16. Ownership'
  <2>1. OwnObjects'
    <3> SUFFICES ASSUME NEW u \in Threads, Building(u)' PROVE OwnObject(u)'
      BY DEF OwnObjects, OwnObject
    <3>1. CASE u = t
      BY <3>1, <1>2, <1>5, <1>7, <1>8 DEF OwnObject, Moves
    <3>2. CASE u # t
      <4>1. call'[u] = call[u] /\ Building(u)
        BY <3>2, <1>11 DEF Building
      <4>2. object'[call[u].object] = object[call[u].object]
        BY <3>2, <4>1, <1>8, <1>14
      <4>3. OwnObject(u)
        BY DEF IInv, Ownership, OwnObjects
      <4>4. call[u].object \in Objects /\ call[u].object <= made
        BY <4>1, <4>3 DEF OwnObject
      <4>5. call[u].object <= made'
        BY <4>4, <1>2 DEF Objects
      <4> QED BY <4>1, <4>2, <4>3, <4>5 DEF OwnObject
    <3> QED BY <3>1, <3>2
  <2>2. Apart'
    BY <1>7, <1>11, <1>14 DEF IInv, Ownership, Apart, Building
  <2>3. UnmadeIsNew'
    BY <1>2, <1>8 DEF IInv, Ownership, UnmadeIsNew, Objects
  <2>4. UnderItsName'
    <3> SUFFICES ASSUME NEW m \in Names, backends'[m] # None
                 PROVE  backends'[m] <= made' /\ object'[backends'[m]].name = m
      BY DEF UnderItsName
    <3>1. CASE m = n
      BY <3>1, <1>2, <1>5, <1>8, <1>9
    <3>2. CASE m # n
      <4>1. backends[m] <= made /\ object[backends[m]].name = m
        BY <3>2, <1>9 DEF IInv, Ownership, UnderItsName
      <4>2. backends[m] \in Objects \ {o} /\ backends'[m] = backends[m]
        BY <3>2, <1>9, <1>15
      <4> QED BY <4>1, <4>2, <1>2, <1>8 DEF Objects
    <3> QED BY <3>1, <3>2
  <2> QED BY <2>1, <2>2, <2>3, <2>4 DEF Ownership
<1>17. Sections'
  <2>1. \A q \in Objects : Configured(q)' => object'[q] = object[q] /\ Configured(q)
    BY <1>5, <1>8 DEF Configured
  <2> QED BY <2>1, <1>12 DEF IInv, Sections, SectionsStay, OneAttemptPerName
<1>18. Following'
  <2>1. ImplFollows'
    BY <1>12, <1>13 DEF IInv, Following, ImplFollows
  <2>2. DriversFollow'
    <3> SUFFICES ASSUME NEW m \in Names, backends'[m] # None, HasDriver(backends[m])'
                 PROVE  object'[backends'[m]].store = store' \/ Excused(m)'
      BY DEF DriversFollow
    <3>1. m # n
      BY <1>5, <1>8, <1>9 DEF HasDriver
    <3>2. backends'[m] = backends[m] /\ object'[backends[m]] = object[backends[m]]
      BY <3>1, <1>8, <1>9, <1>15
    <3> QED BY <3>2, <1>12, <1>13 DEF IInv, Following, DriversFollow, HasDriver
  <2>3. ConstructorsFollow'
    <3> SUFFICES ASSUME NEW u \in Threads, call'[u].pc = "driver",
                        backends'[call'[u].name] = call'[u].object
                 PROVE  /\ call'[u].name = call[u].name
                        /\ call'[u].store = store \/ Excused(call[u].name)'
      BY <1>12 DEF ConstructorsFollow
    <3>1. u # t /\ call'[u] = call[u]
      BY <1>7, <1>11 DEF Moves
    <3>2. call[u].name \in Names /\ call[u].object # o
      BY <3>1, <1>14, CallOf DEF IInv, Building, BuildSteps
    <3>3. call[u].name # n
      BY <3>1, <3>2, <1>9
    <3> QED BY <3>1, <3>2, <3>3, <1>9, <1>13 DEF IInv, Following, ConstructorsFollow
  <2> QED BY <2>1, <2>2, <2>3 DEF Following
<1> QED BY <1>10, <1>13, <1>16, <1>17, <1>18 DEF IInv

(* A step of a construction, on the object the thread has registered.        *)
LEMMA BuildKeeps ==
  ASSUME IInv, NEW t \in Threads, NEW pc \in {"import", "driver", "initialize", "idle"},
         call[t].pc \in BuildSteps, Moves(t, pc), TypeOK', NEW o \in Objects,
         o = call[t].object,
         pc # "idle" => Keeps(t),
         pc = "driver" => call'[t].store = store,
         UNCHANGED <<setUp, store, impl, backends, made, torn>>,
         sections \subseteq sections', call[t].name \in sections',
         \A q \in Objects \ {o} : object'[q] = object[q],
         object'[o].name = object[o].name,
         pc \in {"import", "driver"} => object'[o].phase = "configured",
         pc = "initialize" => object'[o].phase = "driver",
         object'[o].phase # "new",
         Configured(o) \/ call[t].name \notin sections,
         \/ object'[o].phase \notin {"driver", "ready"}
         \/ HasDriver(o) /\ object'[o].store = object[o].store
         \/ call[t].pc = "driver" /\ object'[o].store = call[t].store
  PROVE  IInv'
<1>1. (\A u \in Threads \ {t} : call'[u] = call[u]) /\ call'[t].pc = pc
  BY DEF Moves
<1>2. /\ Order'
      /\ Replacing' <=> Replacing
      /\ \A n \in Names : Excused(n)' <=> Excused(n)
  BY BuildFrame DEF BuildSteps
<1>3. /\ Building(t) /\ OwnObject(t)
      /\ o <= made /\ object[o].name = call[t].name /\ call[t].name \in Names
  BY CallOf DEF IInv, Ownership, OwnObjects, OwnObject, Building, BuildSteps
<1>4. \A u \in Threads \ {t} : Building(u) => call[u].object \in Objects \ {o}
  BY <1>3 DEF IInv, Ownership, OwnObjects, OwnObject, Apart
<1>5. Ownership'
  <2>1. OwnObjects'
    <3> SUFFICES ASSUME NEW u \in Threads, Building(u)' PROVE OwnObject(u)'
      BY DEF OwnObjects, OwnObject
    <3>1. CASE u = t
      BY <3>1, <1>1, <1>3 DEF OwnObject, Keeps, Building, BuildSteps
    <3>2. CASE u # t
      <4>1. call'[u] = call[u] /\ Building(u)
        BY <3>2, <1>1 DEF Building
      <4>2. object'[call[u].object] = object[call[u].object]
        BY <3>2, <4>1, <1>4
      <4>3. OwnObject(u)
        BY DEF IInv, Ownership, OwnObjects
      <4> QED BY <4>1, <4>2, <4>3 DEF OwnObject
    <3> QED BY <3>1, <3>2
  <2>2. Apart'
    BY <1>1, <1>3 DEF IInv, Ownership, Apart, Building, BuildSteps, Keeps
  <2>3. UnmadeIsNew'
    <3> SUFFICES ASSUME NEW q \in Objects, q > made PROVE object'[q].phase = "new"
      BY DEF UnmadeIsNew
    <3>1. q # o
      BY <1>3 DEF IInv, TypeOK, Objects
    <3> QED BY <3>1 DEF IInv, Ownership, UnmadeIsNew
  <2>4. UnderItsName'
    <3> SUFFICES ASSUME NEW n \in Names, backends[n] # None
                 PROVE  backends[n] <= made /\ object'[backends[n]].name = n
      BY DEF UnderItsName
    <3>1. backends[n] \in Objects
      BY DEF IInv, TypeOK
    <3> QED BY <3>1 DEF IInv, Ownership, UnderItsName
  <2> QED BY <2>1, <2>2, <2>3, <2>4 DEF Ownership
<1>6. Sections'
  <2>1. \A q \in Objects : object'[q].name = object[q].name
    OBVIOUS
  <2>2. \A q \in Objects : Configured(q)' => q = o \/ Configured(q)
    BY DEF Configured
  <2>3. SectionsStay'
    BY <2>1, <2>2, <1>3 DEF IInv, Sections, SectionsStay
  <2>4. OneAttemptPerName'
    <3> SUFFICES ASSUME NEW p \in Objects, NEW q \in Objects, p # q,
                        Configured(p)', Configured(q)'
                 PROVE  object[p].name # object[q].name
      BY <2>1 DEF OneAttemptPerName
    <3>1. CASE p # o /\ q # o
      BY <3>1, <2>2 DEF IInv, Sections, OneAttemptPerName
    <3>2. CASE Configured(o)
      BY <3>2, <2>2 DEF IInv, Sections, OneAttemptPerName
    <3>3. CASE call[t].name \notin sections
      <4>1. \A r \in Objects : Configured(r) => object[r].name # object[o].name
        BY <3>3, <1>3 DEF IInv, Sections, SectionsStay
      <4> QED BY <3>1, <4>1, <2>2
    <3> QED BY <3>1, <3>2, <3>3
  <2> QED BY <2>3, <2>4 DEF Sections
<1>7. Following'
  <2>1. ImplFollows'
    BY <1>2 DEF IInv, Following, ImplFollows
  <2>2. DriversFollow'
    <3> SUFFICES ASSUME NEW n \in Names, backends[n] # None, HasDriver(backends[n])'
                 PROVE  object'[backends[n]].store = store \/ Excused(n)
      BY <1>2 DEF DriversFollow
    <3>1. backends[n] \in Objects
      BY DEF IInv, TypeOK
    <3>2. CASE backends[n] # o
      BY <3>1, <3>2 DEF IInv, Following, DriversFollow, HasDriver
    <3>3. CASE backends[n] = o /\ HasDriver(o) /\ object'[o].store = object[o].store
      BY <3>3 DEF IInv, Following, DriversFollow
    <3>4. CASE backends[n] = o /\ call[t].pc = "driver" /\ object'[o].store = call[t].store
      <4>1. n = call[t].name
        BY <3>4, <1>3 DEF IInv, Ownership, UnderItsName
      <4> QED BY <3>4, <4>1 DEF IInv, Following, ConstructorsFollow
    <3> QED BY <3>2, <3>3, <3>4 DEF HasDriver
  <2>3. ConstructorsFollow'
    <3> SUFFICES ASSUME NEW u \in Threads, call'[u].pc = "driver",
                        backends[call'[u].name] = call'[u].object
                 PROVE  /\ call'[u].name = call[u].name
                        /\ call'[u].store = store \/ Excused(call[u].name)'
      BY DEF ConstructorsFollow
    <3>1. CASE u = t
      BY <3>1, <1>1 DEF Keeps
    <3>2. CASE u # t
      <4>1. call'[u] = call[u]
        BY <3>2, <1>1
      <4>2. call[u].name \in Names
        BY <4>1, CallOf DEF IInv
      <4> QED BY <4>1, <4>2, <1>2 DEF IInv, Following, ConstructorsFollow
    <3> QED BY <3>1, <3>2
  <2> QED BY <2>1, <2>2, <2>3 DEF Following
<1> QED BY <1>2, <1>5, <1>6, <1>7 DEF IInv

(* What holds of the object of a thread that builds it.                      *)
LEMMA Own ==
  ASSUME IInv, NEW t \in Threads, call[t].pc \in BuildSteps
  PROVE  /\ call[t].object \in Objects
         /\ object[call[t].object] \in Object
         /\ object[call[t].object].name = call[t].name
         /\ call[t].name \in Names
         /\ call[t].pc = "section" => object[call[t].object].phase = "registered"
         /\ call[t].pc \in {"import", "driver"}
              => object[call[t].object].phase = "configured"
         /\ call[t].pc = "initialize" => object[call[t].object].phase = "driver"
         /\ call[t].pc # "section" =>
              Configured(call[t].object) /\ call[t].name \in sections
<1>1. OwnObject(t) /\ Building(t) /\ call[t].name \in Names
  BY CallOf DEF IInv, Ownership, OwnObjects, Building, BuildSteps
<1>2. call[t].object \in Objects /\ object[call[t].object] \in Object
  BY <1>1 DEF OwnObject, IInv, TypeOK
<1>3. call[t].pc # "section" => Configured(call[t].object)
  BY <1>1 DEF OwnObject, Building, BuildSteps, Configured
<1>4. call[t].pc # "section" => call[t].name \in sections
  BY <1>1, <1>2, <1>3 DEF OwnObject, IInv, Sections, SectionsStay
<1> QED BY <1>1, <1>2, <1>3, <1>4 DEF OwnObject

LEMMA AddSectionKeeps ==
  ASSUME IInv, NEW t \in Threads, AddSection(t)
  PROVE  IInv'
<1>1. call[t].pc \in BuildSteps /\ call[t].pc = "section"
  BY DEF AddSection, At, BuildSteps
<1>2. PICK o \in Objects : o = call[t].object
  BY <1>1, Own
<1>3. Moves(t, "import") /\ Keeps(t)
  BY <1>1, GoingOn DEF IInv, AddSection, Steps
<1>4. object' = [object EXCEPT ![o].phase = "configured"]
  BY <1>2 DEF AddSection
<1>5. /\ object' \in [Objects -> Object]
      /\ \A q \in Objects \ {o} : object'[q] = object[q]
      /\ object'[o].name = object[o].name
      /\ object'[o].phase = "configured"
  BY <1>4 DEF IInv, TypeOK, Object, Phases
<1>6. TypeOK'
  BY <1>1, <1>3, <1>5, Own DEF IInv, TypeOK, AddSection, Moves
<1>7. call[t].name \notin sections /\ sections' = sections \cup {call[t].name}
  BY DEF AddSection, NoSection
<1>8. UNCHANGED <<setUp, store, impl, backends, made, torn>>
  BY DEF AddSection
<1> QED BY <1>1, <1>2, <1>3, <1>5, <1>6, <1>7, <1>8, BuildKeeps

LEMMA ImportDriverKeeps ==
  ASSUME IInv, NEW t \in Threads, ImportDriver(t)
  PROVE  IInv'
<1> DEFINE c == [call[t] EXCEPT !.pc = "driver", !.store = store]
<1>1. call[t].pc \in BuildSteps /\ call[t].pc = "import" /\ call[t] \in Call
  BY CallOf DEF IInv, ImportDriver, At, BuildSteps
<1>2. /\ c \in Call /\ c.pc = "driver" /\ c.store = store
      /\ c.name = call[t].name /\ c.build = call[t].build
      /\ c.setup = call[t].setup /\ c.object = call[t].object
  BY <1>1 DEF IInv, TypeOK, Call, Steps
<1>3. call' = [call EXCEPT ![t] = c]
  BY DEF ImportDriver
<1> HIDE DEF c
<1>4. Moves(t, "driver") /\ Keeps(t) /\ call'[t].store = store
  BY <1>2, <1>3 DEF IInv, TypeOK, Moves, Keeps
<1>5. TypeOK'
  BY <1>4 DEF IInv, TypeOK, ImportDriver, Moves
<1>6. PICK o \in Objects : o = call[t].object
  BY <1>1, Own
<1>7. object[o].phase = "configured" /\ Configured(o) /\ call[t].name \in sections
  BY <1>1, <1>6, Own
<1>8. UNCHANGED <<setUp, store, impl, sections, backends, object, made, torn>>
  BY DEF ImportDriver
<1> QED BY <1>1, <1>4, <1>5, <1>6, <1>7, <1>8, BuildKeeps

LEMMA DriverMadeKeeps ==
  ASSUME IInv, NEW t \in Threads, DriverMade(t)
  PROVE  IInv'
<1>1. call[t].pc \in BuildSteps /\ call[t].pc = "driver"
  BY DEF DriverMade, At, BuildSteps
<1>2. PICK o \in Objects : o = call[t].object
  BY <1>1, Own
<1>3. Moves(t, "initialize") /\ Keeps(t)
  BY <1>1, GoingOn DEF IInv, DriverMade, Steps
<1>4. object' = [object EXCEPT ![o].phase = "driver", ![o].store = call[t].store]
  BY <1>2 DEF DriverMade
<1>5. call[t].store \in Stores \cup {"none"}
  BY <1>1, CallOf DEF IInv
<1> DEFINE b == [object[o] EXCEPT !.phase = "driver", !.store = call[t].store]
<1>6. /\ b \in Object /\ b.name = object[o].name
      /\ b.phase = "driver" /\ b.store = call[t].store
  BY <1>1, <1>2, <1>5, Own DEF Object, Phases
<1>7. object' = [object EXCEPT ![o] = b]
  BY <1>4 DEF IInv, TypeOK
<1> HIDE DEF b
<1>8. /\ object' \in [Objects -> Object]
      /\ \A q \in Objects \ {o} : object'[q] = object[q]
      /\ object'[o].name = object[o].name
      /\ object'[o].phase = "driver" /\ object'[o].store = call[t].store
  BY <1>6, <1>7 DEF IInv, TypeOK
<1>9. TypeOK'
  BY <1>3, <1>8 DEF IInv, TypeOK, DriverMade, Moves
<1>10. Configured(o) /\ call[t].name \in sections
  BY <1>1, <1>2, Own
<1>11. UNCHANGED <<setUp, store, impl, sections, backends, made, torn>>
  BY DEF DriverMade
<1> QED BY <1>1, <1>2, <1>3, <1>8, <1>9, <1>10, <1>11, BuildKeeps

LEMMA DriverReadyKeeps ==
  ASSUME IInv, NEW t \in Threads, DriverReady(t)
  PROVE  IInv'
<1>1. call[t].pc \in BuildSteps /\ call[t].pc = "initialize"
  BY DEF DriverReady, At, BuildSteps
<1>2. PICK o \in Objects : o = call[t].object
  BY <1>1, Own
<1>3. Moves(t, "idle")
  BY Returning DEF IInv, DriverReady
<1>4. object' = [object EXCEPT ![o].phase = "ready"]
  BY <1>2 DEF DriverReady
<1>5. /\ object' \in [Objects -> Object]
      /\ \A q \in Objects \ {o} : object'[q] = object[q]
      /\ object'[o].name = object[o].name
      /\ object'[o].phase = "ready" /\ object'[o].store = object[o].store
  BY <1>4 DEF IInv, TypeOK, Object, Phases
<1>6. TypeOK'
  BY <1>3, <1>5 DEF IInv, TypeOK, DriverReady, Moves
<1>7. HasDriver(o) /\ Configured(o) /\ call[t].name \in sections
  BY <1>1, <1>2, Own DEF HasDriver
<1>8. UNCHANGED <<setUp, store, impl, sections, backends, made, torn>>
  BY DEF DriverReady
<1> QED BY <1>1, <1>2, <1>3, <1>5, <1>6, <1>7, <1>8, BuildKeeps

-----------------------------------------------------------------------------
LEMMA InitIInv == Init => IInv
<1> SUFFICES ASSUME Init PROVE IInv
  OBVIOUS
<1>1. \A t \in Threads : call[t].pc = "idle"
  BY DEF Init, Idle
<1>2. AName \in Names
  BY RegistryAssumption DEF AName
<1>3. \A o \in Objects : object[o].phase = "new"
  BY DEF Init
<1> DEFINE b == [name |-> AName, phase |-> "new", store |-> "none"]
<1>4. b \in Object
  BY <1>2 DEF Object, Phases
<1>5. object = [o \in Objects |-> b]
  BY DEF Init
<1> HIDE DEF b
<1>6. object \in [Objects -> Object]
  BY <1>4, <1>5
<1>7. made \in 0..MaxObjects /\ faults \in 0..MaxFaults
  BY RegistryAssumption DEF Init
<1>8. TypeOK
  BY <1>6, <1>7 DEF Init, TypeOK
<1>9. Order
  BY <1>1, <1>3 DEF Order, OneConfigures, SetUpOnce, SetsUp, BuiltAfterSetUp, Building,
                    BuildSteps, ConfigSteps, Configured
<1>10. Ownership
  BY <1>1, <1>3 DEF Init, Ownership, OwnObjects, OwnObject, Apart, UnmadeIsNew,
                    UnderItsName, Building, BuildSteps
<1>11. Sections
  BY <1>3 DEF Sections, SectionsStay, OneAttemptPerName, Configured
<1>12. Following
  BY <1>1 DEF Init, Following, ImplFollows, DriversFollow, ConstructorsFollow
<1> QED BY <1>8, <1>9, <1>10, <1>11, <1>12 DEF IInv

LEMMA StutterKeeps == IInv /\ UNCHANGED vars => IInv'
<1> SUFFICES ASSUME IInv, UNCHANGED vars PROVE IInv'
  OBVIOUS
<1> USE DEF vars, IInv
<1>1. TypeOK'
  BY DEF TypeOK
<1>2. Order'
  BY DEF Order, OneConfigures, SetUpOnce, SetsUp, BuiltAfterSetUp, Building, Configured
<1>3. Ownership'
  BY DEF Ownership, OwnObjects, OwnObject, Apart, UnmadeIsNew, UnderItsName, Building
<1>4. Sections'
  BY DEF Sections, SectionsStay, OneAttemptPerName, Configured
<1>5. Following'
  BY DEF Following, ImplFollows, DriversFollow, ConstructorsFollow, HasDriver, Excused,
         Pending, Replacing
<1> QED BY <1>1, <1>2, <1>3, <1>4, <1>5

LEMMA NextIInv == IInv /\ [Next]_vars => IInv'
<1> SUFFICES ASSUME IInv, [Next]_vars PROVE IInv'
  OBVIOUS
<1>1. CASE UNCHANGED vars
  BY <1>1, StutterKeeps
<1>2. CASE Next
  <2>1. PICK t \in Threads : Start(t) \/ ConfigStep(t) \/ BuildStep(t)
    BY <1>2 DEF Next
  <2>2. CASE Start(t)
    BY <2>2, StartKeeps
  <2>3. CASE ConfigStep(t)
    BY <2>3, BeginSetupKeeps, EndKeeps, StartPluginKeeps, SwitchKeeps, SwitchRaisesKeeps,
       SwitchedKeeps, SetImplKeeps, FinishSetupKeeps DEF ConfigStep
  <2>4. CASE BuildStep(t)
    BY <2>4, RegisterKeeps, AddSectionKeeps, EndKeeps, ImportDriverKeeps,
       DriverMadeKeeps, DriverReadyKeeps DEF BuildStep
  <2> QED BY <2>1, <2>2, <2>3, <2>4
<1> QED BY <1>1, <1>2

LEMMA Invariance == Spec => []IInv
<1> QED BY InitIInv, NextIInv, PTL DEF Spec

-----------------------------------------------------------------------------
(* The variables keep their types: the store is one of the plugins.          *)
THEOREM RegistryTyped == Spec => []TypeOK
<1>1. IInv => TypeOK
  BY DEF IInv
<1> QED BY <1>1, Invariance, PTL

(* No two backends of one name ever get to a driver.                         *)
THEOREM OneDriverPerName == Spec => []OneAttemptPerName
<1>1. IInv => OneAttemptPerName
  BY DEF IInv, Sections
<1> QED BY <1>1, Invariance, PTL

(* A backend that was configured keeps its configuration.                    *)
THEOREM SectionsAreKept == Spec => []SectionsStay
<1>1. IInv => SectionsStay
  BY DEF IInv, Sections
<1> QED BY <1>1, Invariance, PTL

(* Between replacements that went well, all drivers use the one store.       *)
THEOREM StoreIsShared == Spec => []DriversShareStore
<1>1. IInv => DriversShareStore
  <2> SUFFICES ASSUME IInv, ~torn, ~Configuring
               PROVE  /\ impl = store
                      /\ \A n \in Registered : HasDriver(backends[n])
                                                 => object[backends[n]].store = store
    BY DEF DriversShareStore
  <2>1. ~Replacing /\ \A n \in Names : ~Pending(n)
    BY DEF Configuring, Replacing, Pending
  <2>2. \A n \in Names : ~Excused(n)
    BY <2>1 DEF Excused
  <2> QED BY <2>1, <2>2 DEF IInv, Following, ImplFollows, DriversFollow, Registered
<1> QED BY <1>1, Invariance, PTL
=============================================================================
