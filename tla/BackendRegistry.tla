--------------------------- MODULE BackendRegistry ---------------------------
(* The class Backend as a registry (src/cinderlib/cinderlib.py): the backends *)
(* it knows by name, the metadata store they share, and the configuration    *)
(* that cinder reads.  Threads of one process construct backends, load them  *)
(* by name and replace the store, while drivers can fail at any stage of     *)
(* their construction.                                                       *)
EXTENDS Naturals, FiniteSets

CONSTANTS
  Threads,     \* threads of the process
  Names,       \* values of volume_backend_name
  Stores,      \* metadata stores that a configuration can name
  MaxObjects,  \* bound on how many Backend objects are constructed
  MaxFaults    \* bound on how often something outside cinderlib raises

ASSUME RegistryAssumption ==
  /\ IsFiniteSet(Names) /\ Names # {}
  /\ MaxObjects \in Nat
  /\ MaxFaults \in Nat
  /\ "none" \notin Stores

VARIABLES
  setUp,       \* global_initialization
  configured,  \* global_setup has been called: project_id and the like exist
  store,       \* Backend.persistence, "none" before it is set
  impl,        \* the persistence whose db is cinder's db_api.IMPL
  sections,    \* sections of the in-memory configuration of cinder
  backends,    \* Backend.backends: the number of an object for each name
  object,      \* the Backend objects
  made,        \* how many there are
  call,        \* the call each thread is in
  torn,        \* history: the last replacement of the store was left half done
  faults       \* how many faults there have been

vars == <<setUp, configured, store, impl, sections, backends, object, made,
          call, torn, faults>>

Objects == 1..MaxObjects
None == 0

(* How far the construction of an object got.                                *)
Phases == {"new", "registered", "configured", "driver", "ready"}
Object == [name : Names, phase : Phases, store : Stores \cup {"none"}]

Steps == {"setup", "plugin", "switch", "impl", "finish",
          "register", "section", "import", "driver", "initialize"}
Call == [pc : Steps, name : Names, build : BOOLEAN, setup : BOOLEAN, object : Objects \cup {None},
         store : Stores \cup {"none"}, todo : SUBSET Names, size : 0..Cardinality(Names)]
Idle == [pc |-> "idle"]

AName == CHOOSE n \in Names : TRUE

TypeOK ==
  /\ setUp \in BOOLEAN /\ configured \in BOOLEAN /\ torn \in BOOLEAN
  /\ store \in Stores \cup {"none"} /\ impl \in Stores \cup {"none"}
  /\ sections \in SUBSET Names
  /\ backends \in [Names -> Objects \cup {None}]
  /\ object \in [Objects -> Object]
  /\ made \in 0..MaxObjects
  /\ call \in [Threads -> Call \cup {Idle}]
  /\ faults \in 0..MaxFaults

Init ==
  /\ setUp = FALSE /\ configured = FALSE /\ torn = FALSE
  /\ store = "none" /\ impl = "none"
  /\ sections = {}
  /\ backends = [n \in Names |-> None]
  /\ object = [o \in Objects |-> [name |-> AName, phase |-> "new", store |-> "none"]]
  /\ made = 0
  /\ call = [t \in Threads |-> Idle]
  /\ faults = 0

Registered == {n \in Names : backends[n] # None}
Configured(o) == object[o].phase \in {"configured", "driver", "ready"}
HasDriver(o) == object[o].phase \in {"driver", "ready"}
At(t, pc) == call[t].pc = pc
GoTo(t, pc) == call' = [call EXCEPT ![t].pc = pc]
Return(t) == call' = [call EXCEPT ![t] = Idle]

(* One thread at a time configures the class.                                *)
Configuring == \E t \in Threads : call[t].pc \in {"setup", "plugin", "switch", "impl", "finish"}

NewCall(t, pc, n, build, setup) ==
  call' = [call EXCEPT ![t] = [pc |-> pc, name |-> n, build |-> build,
             setup |-> setup, object |-> None, store |-> "none", todo |-> {}, size |-> 0]]

-----------------------------------------------------------------------------
(* Calls.  A backend that is constructed before the setup sets up itself.    *)
Construct(t, n) ==
  /\ made < MaxObjects
  /\ IF setUp THEN NewCall(t, "register", n, TRUE, FALSE)
     ELSE ~Configuring /\ NewCall(t, "setup", n, TRUE, TRUE)

StartConstruct(t, n) ==
  /\ call[t] = Idle
  /\ Construct(t, n)
  /\ UNCHANGED <<setUp, configured, store, impl, sections, backends, object,
                 made, torn, faults>>

(* load_backend, for data with the whole configuration.  A name that is      *)
(* registered, in whatever state, is just returned; data with no more than   *)
(* a missing name is refused or kept as a name: neither changes anything.    *)
StartLoad(t, n) ==
  /\ backends[n] = None
  /\ StartConstruct(t, n)

StartSetup(t) ==
  /\ call[t] = Idle
  /\ ~Configuring
  /\ NewCall(t, "setup", AName, FALSE, TRUE)
  /\ UNCHANGED <<setUp, configured, store, impl, sections, backends, object,
                 made, torn, faults>>

StartSetPersistence(t) ==
  /\ call[t] = Idle
  /\ configured
  /\ ~Configuring
  /\ NewCall(t, "plugin", AName, FALSE, FALSE)
  /\ UNCHANGED <<setUp, configured, store, impl, sections, backends, object,
                 made, torn, faults>>

Fault(t) ==
  /\ faults < MaxFaults
  /\ faults' = faults + 1
  /\ Return(t)

-----------------------------------------------------------------------------
(* global_setup and set_persistence.                                         *)

(* Mutant: a second setup is not refused.                                    *)
SetupAgain == TRUE
MaySetUp == ~setUp

BeginSetup(t) ==
  /\ At(t, "setup")
  /\ MaySetUp
  /\ configured' = TRUE
  /\ GoTo(t, "plugin")
  /\ UNCHANGED <<setUp, store, impl, sections, backends, object, made, torn,
                 faults>>

AlreadySetUp(t) ==
  /\ At(t, "setup")
  /\ ~MaySetUp
  /\ Return(t)
  /\ UNCHANGED <<setUp, configured, store, impl, sections, backends, object,
                 made, torn, faults>>

(* The plugin starts, and takes the place of the one before.                 *)
(* Mutant: a class that is given for the plugin is not instantiated.         *)
KeepsClass(t, s) ==
  /\ At(t, "plugin")
  /\ store' = "class"
  /\ call' = [call EXCEPT ![t].pc = "switch", ![t].todo = Registered,
                          ![t].size = Cardinality(Registered)]
  /\ UNCHANGED <<setUp, configured, impl, sections, backends, object, made, torn,
                 faults>>
StartPlugin(t, s) ==
  /\ At(t, "plugin")
  /\ store' = s
  /\ call' = [call EXCEPT ![t].pc = "switch", ![t].todo = Registered,
                          ![t].size = Cardinality(Registered)]
  /\ UNCHANGED <<setUp, configured, impl, sections, backends, object, made, torn,
                 faults>>

PluginRaises(t) ==
  /\ At(t, "plugin")
  /\ Fault(t)
  /\ UNCHANGED <<setUp, configured, store, impl, sections, backends, object, made,
                 torn>>

(* The loop over the registered backends; Python refuses to go on when the   *)
(* dictionary has grown, and a backend without a driver has no driver.db.    *)
Grown(t) == Cardinality(Registered) # call[t].size
Reached(n) == HasDriver(backends[n])

Switch(t, n) ==
  /\ At(t, "switch")
  /\ n \in call[t].todo
  /\ ~Grown(t)
  /\ Reached(n)
  /\ object' = [object EXCEPT ![backends[n]].store = store]
  /\ call' = [call EXCEPT ![t].todo = @ \ {n}]
  /\ UNCHANGED <<setUp, configured, store, impl, sections, backends, made, torn,
                 faults>>

SwitchRaises(t) ==
  /\ At(t, "switch")
  /\ Grown(t) \/ \E n \in call[t].todo : ~Reached(n)
  /\ torn' = TRUE
  /\ Return(t)
  /\ UNCHANGED <<setUp, configured, store, impl, sections, backends, object, made,
                 faults>>

(* Mutant: a backend without a driver is left out.                           *)
SkipsUnfinished(t) ==
  /\ At(t, "switch")
  /\ ~Grown(t) /\ \A n \in call[t].todo : ~Reached(n)
  /\ GoTo(t, "impl")
  /\ UNCHANGED <<setUp, configured, store, impl, sections, backends, object, made,
                 torn, faults>>
Switched(t) ==
  /\ At(t, "switch")
  /\ ~Grown(t) /\ call[t].todo = {}
  /\ GoTo(t, "impl")
  /\ UNCHANGED <<setUp, configured, store, impl, sections, backends, object, made,
                 torn, faults>>

SetImpl(t) ==
  /\ At(t, "impl")
  /\ impl' = store
  /\ torn' = FALSE
  /\ IF call[t].setup THEN GoTo(t, "finish") ELSE Return(t)
  /\ UNCHANGED <<setUp, configured, store, sections, backends, object, made,
                 faults>>

(* A new parser, the serialization, the logs, the coordinator.               *)
FinishSetup(t) ==
  /\ At(t, "finish")
  /\ sections' = {}
  /\ setUp' = TRUE
  /\ IF call[t].build THEN GoTo(t, "register") ELSE Return(t)
  /\ UNCHANGED <<configured, store, impl, backends, object, made, torn, faults>>

FinishRaises(t) ==
  /\ At(t, "finish")
  /\ sections' = {}
  /\ Fault(t)
  /\ UNCHANGED <<setUp, configured, store, impl, backends, object, made, torn>>

-----------------------------------------------------------------------------
(* The construction of a backend.                                            *)

Register(t) ==
  LET n == call[t].name
      o == made + 1 IN
  /\ At(t, "register")
  /\ made < MaxObjects
  /\ made' = o
  /\ object' = [object EXCEPT ![o] = [name |-> n, phase |-> "registered",
                                      store |-> "none"]]
  /\ backends' = [backends EXCEPT ![n] = o]
  /\ call' = [call EXCEPT ![t].pc = "section", ![t].object = o]
  /\ UNCHANGED <<setUp, configured, store, impl, sections, torn, faults>>

(* Mutant: the section of an earlier object is taken over.                   *)
TakenOver(n) == TRUE
NoSection(n) == n \notin sections

AddSection(t) ==
  LET n == call[t].name IN
  /\ At(t, "section")
  /\ NoSection(n)
  /\ sections' = sections \cup {n}
  /\ object' = [object EXCEPT ![call[t].object].phase = "configured"]
  /\ GoTo(t, "import")
  /\ UNCHANGED <<setUp, configured, store, impl, backends, made, torn, faults>>

DuplicateSection(t) ==
  /\ At(t, "section")
  /\ ~NoSection(call[t].name)
  /\ Return(t)
  /\ UNCHANGED <<setUp, configured, store, impl, sections, backends, object, made,
                 torn, faults>>

(* The db of the persistence of the moment goes to the driver's constructor. *)
ImportDriver(t) ==
  /\ At(t, "import")
  /\ call' = [call EXCEPT ![t].pc = "driver", ![t].store = store]
  /\ UNCHANGED <<setUp, configured, store, impl, sections, backends, object, made,
                 torn, faults>>

DriverMade(t) ==
  /\ At(t, "driver")
  /\ object' = [object EXCEPT ![call[t].object].phase = "driver",
                              ![call[t].object].store = call[t].store]
  /\ GoTo(t, "initialize")
  /\ UNCHANGED <<setUp, configured, store, impl, sections, backends, made, torn,
                 faults>>

DriverReady(t) ==
  /\ At(t, "initialize")
  /\ object' = [object EXCEPT ![call[t].object].phase = "ready"]
  /\ Return(t)
  /\ UNCHANGED <<setUp, configured, store, impl, sections, backends, made, torn,
                 faults>>

(* The configuration is not valid, the driver does not load or its backend   *)
(* does not answer: the object stays registered as it is.                    *)
DriverRaises(t) ==
  /\ call[t].pc \in {"import", "driver", "initialize"}
  /\ Fault(t)
  /\ UNCHANGED <<setUp, configured, store, impl, sections, backends, object, made,
                 torn>>

-----------------------------------------------------------------------------
ConfigStep(t) ==
  \/ BeginSetup(t) \/ AlreadySetUp(t) \/ PluginRaises(t)
  \/ \E s \in Stores : StartPlugin(t, s)
  \/ \E n \in Names : Switch(t, n)
  \/ SwitchRaises(t) \/ Switched(t) \/ SetImpl(t)
  \/ FinishSetup(t) \/ FinishRaises(t)

BuildStep(t) ==
  \/ Register(t) \/ AddSection(t) \/ DuplicateSection(t)
  \/ ImportDriver(t) \/ DriverMade(t) \/ DriverReady(t) \/ DriverRaises(t)

Start(t) ==
  \/ StartSetup(t) \/ StartSetPersistence(t)
  \/ \E n \in Names : StartConstruct(t, n) \/ StartLoad(t, n)

Next == \E t \in Threads : Start(t) \/ ConfigStep(t) \/ BuildStep(t)

Spec == Init /\ [][Next]_vars

-----------------------------------------------------------------------------
(* set_persistence (cinderlib.py:178-193) reaches every driver there is or   *)
(* will be: one that is being constructed with the store of before (82) is   *)
(* met without a driver, and then the replacement raises.  So when no        *)
(* replacement is under way or was cut short, the drivers of the registered  *)
(* backends and cinder itself use the one store.                             *)
DriversShareStore ==
  ~torn /\ ~Configuring =>
    /\ impl = store
    /\ \A n \in Registered : HasDriver(backends[n])
                               => object[backends[n]].store = store

(* However many threads construct or load backends of one name, in whatever  *)
(* order and with whatever outcome, one at most gets to the driver           *)
(* (cinderlib.py:77-79, 244-253): two drivers never serve one configuration. *)
OneAttemptPerName ==
  \A o, q \in Objects :
    Configured(o) /\ Configured(q) /\ object[o].name = object[q].name => o = q

(* The setup (cinderlib.py:264-312) starts with an empty configuration, and  *)
(* never takes away the section of a backend that got one, explicit or not,  *)
(* failed and repeated as it may have been.                                  *)
SectionsStay ==
  \A o \in Objects : Configured(o) => object[o].name \in sections
=============================================================================
