# cinderlib in TLA+

cinderlib lets a Python program use the Cinder storage drivers without the
Cinder services: volumes, snapshots and connections are Python objects whose
metadata is kept by a persistence plugin. This directory specifies what the
library does between its callers, the storage array, the host and the metadata
store, model-checks the specifications with TLC, and proves part of what they
state with TLAPS. Every definition that stands for code is listed with its
source lines in `PROJECT.json` under `map`; `hazards` there lists what is hard
to test in this code, with the property that watches it.

## The system

| Part | State | Operations | Source | Module |
|---|---|---|---|---|
| Volume, Snapshot | an OVO with its changed fields, lazy `_snapshots`, `_volume` | create, clone, create_volume, create_snapshot, extend, delete, get_by_id, refresh | `objects.py` | `Volumes` |
| Connection | an OVO with connection info, connector and device; `_volume`, lazy `_connections`, `local_attach` | connect, attach, detach, disconnect, cleanup, device_attached | `objects.py` | `Connections` |
| Backend | the registry `backends`, the shared `persistence`, `_volumes`, `_volumes_inflight`, the driver | init, load, global_setup, set_persistence, volumes, refresh, create_volume | `cinderlib.py` | `BackendRegistry`, `Volumes` |
| DB persistence | rows for volumes, snapshots, attachments, volume types, QoS, key-values | set_*, get_*, delete_* (hard and soft) | `persistence/dbms.py` | `DBStore`, `MetadataStore` |
| Memory persistence | class-level dictionaries of the callers' own objects | the same | `persistence/memory.py` | `MemoryStore` |
| Persistence base, DB replacement | change tracking, `_set_deleted`, the DB methods drivers call | get_changed_fields, get_fields, volume_type_get | `persistence/base.py` | `MetadataStore`, `DBStore`, `Volumes` |
| Serialization | objects to JSON and back, the visited set | json, dump, load with save | `serialization.py`, `objects.py` | `MemoryStore` |
| RBD connector | the link from the expected device path to the mapped one | connect_volume, disconnect_volume | `nos_brick.py` | `RBDConnector` |
| Drivers, os-brick, cinder.db | external | called by all of the above | not in the repository | in each |

An object's operation calls the driver, sets a status on the OVO, and saves the
OVO through the persistence plugin, which writes only the fields that changed
since the last save. The object then updates the caches that point to it: the
backend's list of volumes, the volume's list of snapshots or connections. None
of this is atomic. What is hard to get right is therefore:

- a driver or the store raises in the middle (`except`, `finally` and the absence
  of a `finally` in `delete` decide what is left behind);
- an exception that is no `Exception` (KeyboardInterrupt, an eventlet Timeout)
  passes `except Exception` but not `finally`;
- the process dies between two calls and another one goes on from the store;
- processes hold stale objects, caches and lists of each other's resources;
- calls of two processes on the same resource overlap;
- one save is several transactions, one attachment several commands, one set-up
  several assignments, and each of them can be the last that is done.

## Modules

### `Volumes`

A resource is a volume or a snapshot; both follow the same code shape. `array` is
the size of each resource on the storage array, `rows` the metadata store,
`heap[p][i]` the object process `p` holds for resource `i` (with `dirty`, the
OVO's changed fields), `cache` the volumes' `_snapshots`, `linked` the snapshots
whose `_volume` is set to the process's volume object, `listing` and `inflight`
the Backend's `_volumes` and `_volumes_inflight`, `call` the method a process is
executing. Each method is split where it calls out: `StartCreate` (or `StartClone`,
`StartRestore`, `StartSnapshot`), then `DriverCreates`, `DriverCreateRaises` or
`CreateInterrupted`, then `Save`, `SaveFindsNoRow` or `SaveRaises`; `StartExtend`,
`DriverExtends` and so on; `StartDelete`, `DriverDeletes`, `Unrecord`. What a
method does to memory between two calls is part of the step before. `Crash` empties
a process's memory between any two steps.

What the model takes from outside the code:

- a driver creates only from a source it has, may leave something on the array when
  it raises, extends only a volume it has and only upwards, deletes what is
  already gone without complaint, and may or may not delete the snapshots with a
  volume;
- ids are uuid4 and never drawn twice; an insert of an existing id turns into an
  update, and an update of a missing row raises;
- a process runs one call at a time and lets go of an object it has deleted;
- snapshots have size 1 and a volume's other attributes are not modelled.

The object of a restored volume starts with the status of the snapshot's volume
(`SourceStatus`), which `Volume.__init__` copies, as that of a clone does; a create starts
with `creating`. A restore that is interrupted is therefore recorded with that status,
for example `available`. A snapshot that is not linked keeps the volume object that its
first restore loaded; the model reads the row again at each restore.

### `Connections`

One volume, because nothing of another volume is read or written. `exported` and
`mapped` are the array's, `plugged` are the devices of the host, `row`, `recorded`
and `devices` are the store's, `mem[p]` is what a process has in memory. A call has
a program counter (`pc`) that names the call to the driver, os-brick or the store
it does next; `Volume.attach` goes on from `connect` to `Connection.attach`, and to
`disconnect` when that raises; `Volume.detach` and `cleanup` go through
`Connection.detach`. Each step has a variant that raises. The driver
and os-brick may have done their work when they raise: an export, a mapping or a
device can be there, or gone, after the error. A save of the store that raises has
written nothing here (`DBStore` has the errors after a commit). The clients disconnect a
connection whose row has no device (the consumer has detached it) and fetch a
connection by id only when their volume object does not already reach it. A
driver that is asked to terminate without a connector may terminate everything.

### `MetadataStore` and `DBStore`

`Volumes` and `Connections` take a save for one step. `MetadataStore` states what
that assumes of a persistence plugin: a request takes effect at one instant between
its start and its answer, as a whole or not at all, and the answer does not tell
which. `DBStore` is the database plugin as it is. A volume is a `row`, a `type` (bare,
or whole with its extra specs) and QoS rows, each written in a transaction of its own.
The QoS rows are a root (`fresh` while it has the id that cinder.db generated, `qos`
once it has the volume's) and the consumer and the specs, which keep the generated
`specs_id` for ever (`specs`). Nothing in the database leads from the type to them: the
type is written without `qos_specs_id`, so that only the object that created the
volume, or a JSON of it, is `linked` to its QoS specs, and `Get` returns one that is not.
`heap[p][i].dirty` is what `get_changed_fields` finds. A save goes through `CreateQos`,
`ReplaceQosId`, `CreateType` and `CreateRow`, or straight to `UpdateRow` when the id is not
among the changes; a duplicate row turns the insert into an update (`RowExists`). A
delete goes through `DeleteRow`, `DeleteSpecs`, `DeleteType` and, for a linked object,
`DeleteQos`, with soft or hard deletes. `Finish` is what follows the last commit: a call
that fails or dies before it raises although it is recorded, and its object keeps its
changes. `Refused` is what the database rejects, `StoreRaises` and `Crash` end a call
anywhere. Reading a volume whose type is gone raises. The database enforces no foreign
keys (SQLite does not unless asked to; one that does would refuse the new id of the root
row, which is a `StoreRaises` at `"qos id"`).

`DBStore!Store` is `MetadataStore` under the refinement mapping `stored <- Found` (the
row, if it is live) and `asked <- Asked` (the request a call stands for, and whether it
has taken effect). What a reader finds of the type is `WholeVolumes`; of the QoS specs
it finds nothing. Clients save, delete, and restore a volume (save an object that was
loaded from JSON, or whose fields did not change, which writes it as a whole) in any
interleaving. `lapped` remembers the volumes of which a save that may insert overlapped
with another call: `WholeVolumes` does not speak of them, because a restored row can
appear over a type that a delete is taking away.

### `MemoryStore`

The memory plugin keeps the callers' objects, so identity is the state: `vol` and
`snap` are Volume and Snapshot objects, `lists` their `_snapshots` lists (two
objects can share one after a refresh), `snap[o].vol` is `_volume`, `volumes` and
`snapshots` are the class dictionaries. `file` is the JSON that was dumped last,
`Restart` the end of the process. One volume is modelled. `refresh` of the stored
object leaves it without attributes: the object becomes `hollow`, and what reads
it afterwards raises. A program makes no more calls of an object whose delete
succeeded. `mixed` becomes true where the code does leave list and store apart: a
load without save, a load with save beside an existing volume, and any load of a
snapshot, which does not store the volume it comes with. The list of an OVO
(`self._ovo.snapshots`) is taken to be the list of the object.

### `BackendRegistry`

The class attributes of `Backend`: `backends`, `store` (`persistence`), `setUp`
(`global_initialization`); cinder's `impl` (`db_api.IMPL`) and the `sections` of
its configuration; and the Backend objects with the phase their construction has
reached. Threads call the constructor, `load_backend`, `global_setup` and
`set_persistence`; plugins and drivers may raise at every stage. One thread at a time
configures the class, as the documentation asks for: two threads that construct the
first two backends would both enter `global_setup`. A backend that is loaded while
its name is registered is just returned.

### `RBDConnector`

`mapped` is the kernel's view (the image behind each `/dev/rbdN`), `link` the
symbolic links `/dev/rbd/<pool>/<name>`, `held` what the clients were given,
`confs` the ceph configuration files. `containerized` and `imRoot` are fixed at the
start: outside a container udev keeps the links, in the same instant as the command
in this model; inside one the connector makes and removes them, as root with
`os.symlink` or through `ln` as root helper. The number of an unmapped device goes to
whoever maps next. Clients attach a volume on a host once at a time (nothing
counts its users), call `disconnect_volume` again when it raises, and may die.

### MC modules and proofs

`MCVolumes`, `MCConnections` and `MCMemoryStore` define the symmetry sets, and
`MCVolumes` which snapshot belongs to which volume. `DBStore`, `BackendRegistry` and
`RBDConnector` are checked as they are, without symmetry, because their runs check
temporal properties or are small. The modules whose name ends in `Proofs` hold the
theorems.

## Runs

| Run | Instance | Shows |
|---|---|---|
| volumes_solo | 1 process, 2 volumes, 1 snapshot, every operation, driver and store errors, crashes | types; objects and `backend.volumes` agree with the store; creating and extending are not recorded; a volume is not deleted under a snapshot it knows |
| volumes_shared | 2 processes taking turns per volume, all faults | rows that say available are backed by the array; nothing is on the array without a row; `_volumes_inflight` keeps failed creations only |
| volumes_racing | 2 processes, calls overlap | deletes are final, recorded sizes are backed, loaded lists have the linked snapshots |
| volumes_failed_clone | violation | a failed clone is recorded with its source's status |
| connections_solo | 1 process, 2 connections, every operation, all faults | types; connected means in use; devices on the host are recorded |
| connections_shared | 2 processes taking turns | no mapping is terminated under an attached device; no mapping or export that nothing recorded leads to |
| connections_export | violation | disconnecting one connection removes the export of the others |
| db_store | 2 processes, 1 volume of each kind, 2 values, soft and hard deletes, errors and crashes, any interleaving | the plugin implements `MetadataStore`; a recorded volume has its type with its extra specs; hard deletes leave no type; only a restore or a retry revives |
| db_store_ends | the same with 1 value, any interleaving | calls end; retried saves get recorded |
| backend_registry | 2 threads, 2 names, 2 stores, 3 objects | drivers share the store; one driver per configuration; a configured backend keeps its section |
| rbd_connector | 2 clients, 2 volumes, 3 devices, in a container or not, root or not | a path leads to its volume; mapped images are found again; configuration files are accounted for; retried disconnects end |
| memory_store | 2 Volume objects, 3 Snapshot objects, 2 snapshots, 1 restart | the list of the stored volume is what is stored; what was dumped comes back |

Bounds. Two processes are enough for every pair of overlapping calls; two volumes
and one snapshot give a clone or a restore its source and a list its second
element; sizes up to 2 let a volume be extended once; two connections are one to
disconnect and one that is left. `DBStore` has one volume because no transaction
reads another one's rows; two values tell a lost update from a repeated one
(`db_store_ends` asks nothing of them and has one).
`BackendRegistry` has a third object so that a name can be constructed again while
the other is under construction. `RBDConnector` has a third device so that a volume
can be mapped twice beside another one. `MemoryStore` has a second object of the
volume (a twin from a load or a refresh) and a third of a snapshot; `MaxHollow`
limits emptied objects to one at a time, and one restart is enough to come back from
a dump. `MaxFaults` (1 or 2) allows a fault and another one while the first is being
handled. `Serialize` makes clients take turns (on a volume in `Volumes`, altogether in
`Connections`), which the properties about stale objects need: cinderlib has no
locks and says nothing about concurrent calls on one resource; for `NoOrphan`,
`NoLeakedMapping` and `NoLeakedExport` the theorems below cover overlapping calls too.
`CHECK_DEADLOCK FALSE` is set because an instance has finitely many ids, objects
and faults: once they are used up and everything is deleted, nothing is left to do.

Fairness is used in two runs. In `DBStore` a call that was started goes on
(`WF_vars(StepOf(p))`): Python executes the next statement. What clients start is up
to them: `CallsEnd` needs nothing of them, and `RetriesEndRecorded` is about a client
that does keep saving. In `RBDConnector` calls go on likewise, and clients disconnect
in the end and again after an error (`WF_vars(Disconnect(c))`), as
`disconnect_volume` must be called for every connect; that they connect is not assumed.

Exceptions in the properties are as narrow as the code allows. `dropped` holds the
resources one of whose saves was lost (the store raised, or the process died or was
interrupted before it). `lost` holds the connections whose call a fault left half
done in a way the code does not undo. `lapped` (`DBStore`) holds the volumes of which a
create or restore overlapped with another call, which nothing in the code prevents.
`torn` (`DBStore`, `BackendRegistry`), `stale` and
`unlinked` (`RBDConnector`) mark that a fault fell between two particular steps.

### What the violations mean

- `Volume.clone` sets `status` on the Volume instance; the OVO, which is what gets
  saved, keeps the status copied from the source.
- `Volume._disconnect` removes the export before it looks whether connections are left.

Other behaviour found while modelling, which the models have and no run is about:

- `set_volume` writes the row of a volume type without the id of its QoS specs
  (`dbms.py:189-192`), so who reads the volume gets none; the test that should notice
  (`tests/unit/persistence/base.py:231-238`) compares the specs of the volumes it stored
  with themselves;
- the id that cinder.db generates for QoS specs is replaced in the root row only
  (`dbms.py:199-202`), and an object that was read back has no id to look for
  (`dbms.py:311-312`): hard deletes leave QoS rows;
- `Snapshot._load` saves the snapshot and not the volume that came with it
  (`objects.py:903`), although `serialization.rst:126-128` says that a load with save
  ensures that what was read is stored;
- with the memory plugin `get_by_id` returns the object that is being refreshed;
  `refresh` clears its attributes and then copies them from itself (`objects.py:610-611`),
  so that the object has none from then on, against `volumes.rst:246`;
- a volume whose creation failed is not in `backend.volumes` until `refresh`;
- a forced `Volume.detach` does not report the error of the detach, because
  `Connection.detach` replaces the empty exception chain it was given;
- an interrupt during `extend` records `extending`, and the next `extend` restores it
  as the status; an interrupted restore is recorded with the status of its source;
- a volume's delete does not look at its connections; `volumes.rst` says there is no
  safeguard against deleting a volume with snapshots, while the code refuses;
- a disconnect that failed to delete the row has lost its connector, so its retry
  terminates without one; `refresh` loses `local_attach`;
- a save of a volume with a type that failed after the type was written can never be
  repeated: the type is in the way (the exception in `RetriesEndRecorded`), and so it is
  when such a volume is saved again as a whole;
- a restore that overlaps with a delete of the volume can leave its row without the type,
  and then reading it raises (`lapped`);
- a soft delete calls `volume_destroy` with the id of the type and leaves the type, so
  that `NoOrphanTypes` speaks of hard deletes only;
- a backend whose construction failed stays in `Backend.backends` without a driver, and
  `set_persistence` stops at it half way (`torn`);
- after a disconnect that failed between the unmap and the unlink, the link may lead
  to the device of another volume, and a retry unmaps that (`stale`);
- a twin of a volume that reads its snapshots takes the links of the other one's
  (`mixed`).

## Theorems

### `Volumes` and `Connections`

`Typing` proves `Spec => []TypeOK` for `Volumes`, one lemma per action.

`NothingIsOrphaned` (`[]NoOrphan`) and `DeletedStaysDeleted` (`[]DeleteIsFinal`) hold for
every set of processes, volumes and snapshots and any number of faults, and need no
locking by the clients. Neither is inductive. A row cannot be brought back because
an insert needs the object's `id` to be a changed field, and that is so only until
its first save; until then nobody else can have found the resource, because there
is no row to find it by. `LifeInv` adds these facts: an id that has not been drawn is
nowhere (`UnusedIsNowhere`), an object whose id is unsaved has no row and no twin in
another process (`UnsavedIsPrivate`), a resource being unrecorded is off the array and
a resource being created still has all its fields unsaved (`CallsAreSound`).
`VolumesProofs` shows that each action follows one of five patterns, each with a
lemma of its own (a step inside a call, its end, the start of a creation, a read, and
the two writes to the store), and that every pattern keeps `LifeInv`. The assumptions
are those of `VolumesAssumption`.

`VolumesRacingProofs` shows what else overlapping calls cannot spoil, for any number
of processes and without locking, and then what needs calls not to overlap, or one
process. It first says what each action does to the object and the call of the
process that acts (the `...Effect` lemmas; nobody else's change, `OthersStay`), so that
the rest is shown for that process alone.

- `SizesAreBacked` (`[]SizeIsBacked`). `SizeInv`: neither a row nor any process's object
  of a resource says more than the array has, so that the save of a stale object does
  not either.
- `LinkedSnapshotsAreListed` (`[]LinkedIsListed`) and `KnownSnapshotsAreSpared`
  (`[]DeleteSparesKnownSnapshots`). `LinkInv`: a snapshot is recorded for the first time
  by the process that made it, in the call whose save also puts it into the loaded
  list (an id that is still unsaved later means a lost save, `UnsavedIsDropped`), and a
  linked snapshot is held (`LinkedIsHeld`), so that nobody else can record it. The
  second theorem needs the first.
- `TransientStatusesStayOut` (`[]TransientNotRecorded`) assumes that no call is
  interrupted (`"interrupt" \notin Faults`): the `finally` of `create` and `extend` would
  save the status of the moment. `StatusInv`: only the object of a call that is with its
  driver has such a status, and what `extend` remembers is none.
- `FailedStaysUnavailable` (`[]InflightOnlyFailed`) assumes that nobody clones
  (`"clone" \notin Ops`): the finding about `clone` is that a failed one is saved with the
  status of its source. So is a restore that is interrupted, hence also no interrupts
  where there are restores (`"restore" \in Ops => "interrupt" \notin Faults`).
  `InflightInv`: a volume left in flight is available in no row, object or remembered
  status.
- `NothingIsPhantom` (`[]NoPhantom`) assumes the same, and besides that the calls on one
  volume do not overlap: `Turns` says that clients serialise or that there is one
  process. Without that, the extend of one process saves `available` over a volume that
  another one, whose delete failed half way, has taken off the array and marked.
  Processes still hold stale objects, and calls fail, are interrupted and die anywhere.
  `PhantomInv`: two calls in
  progress work on different volumes (`Locked`); a call about to save has marked the
  status as changed, and has something on the array if that is `available`; a volume is
  drawn before its snapshots, so that one that went away with snapshots in the store
  cannot come back under them (`Backed`).
- `ObjectsAgree` (`[]ObjectAgreesWithRow`) and `ListsAreTrue` (`[]ListingTracksRows`)
  are about one process (`OneProcess`): the objects and lists of another one are stale
  whenever this one writes. Everything else may happen. `AgreeInv`: an object whose
  resource was not deleted and lost no save has a row that says the same but for the fields
  marked as changed, or is being created; and only the object of the current call has
  such fields. `ListInv`: what is recorded or being created is listed, in flight or lost
  a save, and what is listed is recorded or about to be.

`ConnectionsTyping` proves `Spec => []TypeOK` for `Connections`. `TypeOK` includes that
an unsaved status is the status of a volume object: without it the save of a
model update could write no status at all.

`NoMappingLeaks` (`[]NoLeakedMapping`) and `NoExportLeaks` (`[]NoLeakedExport`) hold for
every set of processes and connections, any faults and any overlap of the calls.
For the mapping, the difficulty is a disconnect that is called again after it failed
half way: its connection has no `connection_info` any more, so the driver may
terminate nothing, and yet the row is deleted. `MappingInv` therefore says of every
connection a process can reach that without its `connection_info` it is not mapped
(`Informed`). That stays true because a connection is mapped while no other process,
list or row knows its id (`Fresh`), which in turn rests on ids being new when drawn
(`Drawn`). Nearly all actions are quiet: they map, record and draw nothing, and
`QuietKeeps` covers them; the first step of `connect`, `Initialize` and `Record` are
proved on their own. For the export, `ExportInv` narrows the calls that excuse an
export: a call about to terminate a connection is none, because another process may
have deleted its row, and then it is that process's call which removes the export.
The assumptions are those of `ConnectionsAssumption`.

`ConnectionsDeviceProofs` is about the devices on the host and the volume's status.
`DevicesAreRecorded` (`[]NoForgottenDevice`) and `DevicesAreMapped` (`[]DeviceIsMapped`)
assume `Turns`: clients serialise, or there is one process. The code has nothing that
keeps one process from disconnecting what another one is attaching, and TLC finds
both properties violated with two processes that do not serialise. `DeviceInv` adds that one
call at a time is in progress (`OneCall`), that only drawn connections have devices, that
a call about to forget, terminate or unrecord a connection has none left there
(`Unplugged`), and that one which is being made has none yet (`Unmade`). With these
each step looks at the connection of the only call. That a device without a mapping cannot
arise needs `MappingInv` too: a retry without `connection_info` finds nothing mapped.
`ConnectedVolumesAreInUse` (`[]ConnectedIsInUse`) assumes one process: a
second one that disconnects the last connection of its stale list marks the
volume available beside the connections it does not know. `InUseInv`: the loaded
list has all the rows but that of the call (`ListComplete`), a change to `available` that could
not be saved is still right when a later save writes it (`UnsavedIsTrue`), the connection
being freed has lost its row (`Freeing`), and the volume's row tells (`RowTells`).

### `DBStore`

Everything here holds for every set of processes, volumes and values and any faults,
under `DBAssumption`, for any interleaving, restores included.

`DBImplementsStore` is `Spec => ImplementsStore`. The initial states map to initial
states; `CreateRow`, `UpdateRow` and `DeleteRow` are the instants at which a request takes
effect; every other step changes neither what is found nor a pending request, or
answers one. A call that raises after its commit is a request that was done and then
answered. The difficulty is which saves may create: the requests say so when they
start (`insert`), and the code decides when it meets the row.

`OnlyRestoresReviveHolds` (`OnlyRestoresRevive`, an action property) needs the invariant
`IInv`. Whoever writes a row that is not live has the whole object to save (`Inserts`); one
with the `id` among its changes is the only holder of what was never recorded
(`Unshared`), or a fault kept from it that it was (`IdIsNew`).

`HardDeletesLeaveNoTypes` is `Spec => []NoOrphanTypes`. `TypeAccounted` names, for the
type of a volume that is not live, the call that is about to write the row or to take
the type, or the fault that cut one short (`torn`). With soft deletes the property is
false of the code, and the invariant says nothing.

`VolumesAreWhole` is `[]WholeVolumes`: what a call that may insert has prepared is there
when it gets to the row, because unless such a call overlapped with another one
(`lapped`) nobody else is deleting it (`InsertsAlone`, `Prepared`). `DBStoreTyped` is the
typing.

### `MemoryStore`

`TheListIsTheStore` (`[]ListIsStore`), `WhatIsDumpedComesBack` (`[]DumpedComesBack`) and
`StoreIsTyped` (`[]TypeOK`) hold for any number of objects, snapshots and restarts under
`MemoryAssumption` (there is a volume object, and `None` and `"volume"` are no ids). `StoreInv`
has the types, that what exists or was dumped was given out, and, as long as the program
has loaded all that is stored (`~mixed`), `Plain`: there is one volume object and one object for
each snapshot (`OneVolume`, `OwnIds`), they point to each other (`Links`), what is stored is
what has not been deleted (`StoredAreHeld`), the list has what is stored (`ListHolds`), and
nothing that was known is missing from the store or, after a restart, from the file
(`KnownKept`). The list and the store are two records of the same objects that
different calls write; that they agree needs the identity of the objects, and a load
has to make as many objects as the file has snapshots (an injection).

### `BackendRegistry`

`StoreIsShared` (`[]DriversShareStore`), `OneDriverPerName` (`[]OneAttemptPerName`) and
`SectionsAreKept` (`[]SectionsStay`) hold for every set of threads, names and stores,
any number of objects and faults, under `RegistryAssumption` (the names are finite and
there is one). `IInv` has five parts: the class is configured by one thread at a time
and nothing is built before it was set up (`Order`); an object under construction
belongs to its thread alone, and a name stands for an object of that name that was
made (`Ownership`); what was configured has its section (`Sections`);
and cinder's layer and the drivers follow the store (`Following`). The difficulty is a
backend that picked the store up before it was replaced and gets its driver
afterwards. `Following` excuses it only while the replacement has not come to it
yet: when it does it finds a driver, to which it gives the new store, or none, and raises
(`torn`). `RegistryTyped` is the typing.

### `RBDConnector`

`PathsAreTrue` (`[]HeldIsOwn`), `DevicesAreFound` (`[]MappedIsFound`) and
`ConfsAreAccounted` (`[]ConfsAccounted`) hold for every finite set of clients, any
volumes and devices, in a container or not, as root or not (`RBDAssumption`). A path stays
true because nobody takes the device away: a client unmaps the device that the link of
its volume leads to, and while no fault came between an unmap and the removal of the
link, no link leads to the device of another volume (`Own`), and no other client works
on this one (`OneUser`). That a mapped image is found rests on `Found`, where a volume
is never on two devices. The configuration files are counted by the
clients that are attached or in a call (`Counted`), with the cardinality facts of
`FiniteSetTheorems`. `RBDTyped` is the typing.

TLC found every inductive invariant to hold on instances like the ones above before it
was proved. For `DBStore`, `BackendRegistry`, `RBDConnector` and `MemoryStore` the typing is
a part of it; for `Volumes` and `Connections` it is proved first, on its own.

Every invariant that a run checks is stated by a theorem. Where a theorem has a
hypothesis beside the assumptions on the constants (`Turns`, `OneProcess`, no
interrupts, no clones), the run's instance satisfies it: there are no interrupts in
`volumes_solo`, neither clones nor restores in `volumes_shared`, and so on.

Only model-checked: the liveness properties (`CallsEnd`, `RetriesEndRecorded`,
`RetriesEndDisconnected`: fairness and `ENABLED` are out of the prover's reach). That a
property is violated is shown by a counterexample on a small instance.

## Not modelled

Plugin selection beyond its outcome, logging, privsep, import workarounds, name
lookups and filters, statistics and pools, option formatting and
`list_supported_drivers` keep no state or only pass data on. The key-value table is
a map of its own that nothing else refers to. Connections in `MemoryStore` have the
same shape as snapshots. `check_valid_device` reads a device. The NFS connector
only sets a mount path. Updates of the extra specs of a recorded volume are not
reachable from the objects. Tests, documentation and packaging are read as the
statement of what is intended.

Two threads of one process that work on one object, which the code does not
protect and nothing in it promises, are left out of `Volumes` and `Connections`.

What could follow: an abstract life cycle (absent, present, gone) that `Volumes`
implements and `Connections` composes with; connections in `MemoryStore`; the key-value
store.
