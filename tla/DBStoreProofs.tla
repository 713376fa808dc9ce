---------------------------- MODULE DBStoreProofs ----------------------------
(* The database plugin implements the metadata store, whatever the processes *)
(* and volumes, the interleaving of their calls and however often the        *)
(* database or a process fails.                                              *)
EXTENDS DBStore, TLAPS

Calling(p, i) == call[p] # Idle /\ call[p].id = i
In(p, i, op, pcs) == Calling(p, i) /\ call[p].op = op /\ call[p].pc \in pcs
Before == {"qos", "qos id", "type", "row"}

-----------------------------------------------------------------------------
(* The inductive invariant, volume by volume.  Whoever writes the row of a   *)
(* volume that is not live saves the whole object, with the id (Inserts).    *)
(* With the id among the changes it is the only holder of what was never     *)
(* recorded (Unshared), or a fault kept from it that it was (IdIsNew): so    *)
(* what brings back a deleted volume is a save of an object without changes, *)
(* or a retry.  A soft delete keeps the row (SoftKeeps), and takes the row   *)
(* of no volume that came back (DeletesGoOn).                                *)
LiveKnown(i) == Live(i) => i \in known
HeldByCallers(i) == \A p \in Procs : Calling(p, i) => heap[p][i].held
DirtyHeld(i) == \A p \in Procs : "id" \in heap[p][i].dirty => heap[p][i].held
Unshared(i) ==
  \A p, q \in Procs : p # q /\ heap[p][i].held /\ heap[q][i].held => i \in known
IdIsNew(i) ==
  \A p \in Procs : "id" \in heap[p][i].dirty /\ i \in known =>
    i \in torn \/ (Calling(p, i) /\ call[p].pc = "reset")
Inserts(i) ==
  \A p \in Procs : Calling(p, i) =>
    IF call[p].op = "save"
    THEN /\ call[p].insert = Whole(heap[p][i])
         /\ call[p].pc \in Before => call[p].insert
    ELSE ~call[p].insert
SoftKeeps(i) == soft /\ i \in known => row[i].state # "none"
DeletesGoOn(i) ==
  soft \/ i \notin lapped => \A p \in Procs :
    Calling(p, i) /\ call[p].op = "delete" /\ call[p].pc # "row" => ~Live(i)

(* What is recorded while nobody else works on the volume is still prepared  *)
(* when its row is written.                                                  *)
InsertsAlone(i) ==
  i \notin lapped => \A p, q \in Procs :
    p # q /\ Calling(p, i) /\ Calling(q, i) => ~call[p].insert
Prepared(i) ==
  i \notin lapped => \A p \in Procs :
    In(p, i, "save", {"row"}) /\ kind[i] # "plain" => type[i] = "whole"
WholeVolume(i) ==
  i \notin lapped /\ Live(i) /\ kind[i] # "plain" => type[i] = "whole"

(* A hard delete takes the row first, so that the type without a row is one  *)
(* that somebody is about to take, or to write the row for.                  *)
PlainHasNoType(i) ==
  kind[i] = "plain" =>
    /\ type[i] = "none"
    /\ \A p \in Procs : Calling(p, i) => call[p].pc \in {"row", "update", "reset"}
Accounts(p, i) == In(p, i, "save", {"row"}) \/ In(p, i, "delete", {"specs", "type"})
HardRows(i) == ~soft => row[i].state # "deleted"
TypeAccounted(i) ==
  ~soft /\ type[i] # "none" =>
    Live(i) \/ i \in torn \/ \E p \in Procs : Accounts(p, i)

VolumeInv(i) ==
  /\ LiveKnown(i) /\ HeldByCallers(i) /\ DirtyHeld(i) /\ Unshared(i) /\ IdIsNew(i)
  /\ Inserts(i) /\ SoftKeeps(i) /\ DeletesGoOn(i)
  /\ InsertsAlone(i) /\ Prepared(i) /\ WholeVolume(i)
  /\ PlainHasNoType(i) /\ HardRows(i) /\ TypeAccounted(i)
IInv == TypeOK /\ \A i \in Ids : VolumeInv(i)
-----------------------------------------------------------------------------
(* What the steps do to the call and the object of a process.                *)

LEMMA CallIsNotIdle == \A c \in Call : c # Idle
<1> SUFFICES ASSUME NEW c \in Call, c = Idle PROVE FALSE
  OBVIOUS
<1>1. c.op \in {"save", "delete"}
  BY DEF Call
<1>2. c.op = "idle"
  BY DEF Idle
<1> QED BY <1>1, <1>2

LEMMA CallOf ==
  ASSUME TypeOK, NEW p \in Procs, call[p] # Idle
  PROVE  /\ call[p] \in Call
         /\ call[p].id \in Ids
         /\ call[p].op \in {"save", "delete"}
         /\ call[p].insert \in BOOLEAN
         /\ call[p].pc \in Steps
<1>1. call[p] \in Call
  BY DEF TypeOK
<1> QED BY <1>1 DEF Call

LEMMA GoingOn ==
  ASSUME TypeOK, NEW p \in Procs, call[p] # Idle, NEW pc \in Steps, GoTo(p, pc)
  PROVE  /\ call' \in [Procs -> Call \cup {Idle}]
         /\ \A q \in Procs \ {p} : call'[q] = call[q]
         /\ call'[p] # Idle
         /\ call'[p].op = call[p].op
         /\ call'[p].id = call[p].id
         /\ call'[p].insert = call[p].insert
         /\ call'[p].pc = pc
<1>1. call[p] \in Call
  BY DEF TypeOK
<1> DEFINE c == [call[p] EXCEPT !.pc = pc]
<1>2. /\ c \in Call
      /\ c.op = call[p].op /\ c.id = call[p].id
      /\ c.insert = call[p].insert /\ c.pc = pc
  BY <1>1 DEF Call
<1>3. c # Idle
  BY <1>2, CallIsNotIdle
<1>4. call' = [call EXCEPT ![p] = c]
  BY DEF GoTo
<1> HIDE DEF c
<1>5. /\ call' \in [Procs -> Call \cup {Idle}]
      /\ \A q \in Procs \ {p} : call'[q] = call[q]
      /\ call'[p] = c
  BY <1>2, <1>4 DEF TypeOK
<1> QED BY <1>2, <1>3, <1>5

LEMMA Returning ==
  ASSUME TypeOK, NEW p \in Procs, Return(p)
  PROVE  /\ call' \in [Procs -> Call \cup {Idle}]
         /\ \A q \in Procs \ {p} : call'[q] = call[q]
         /\ call'[p] = Idle
BY DEF TypeOK, Return

LEMMA Starting ==
  ASSUME TypeOK, NEW p \in Procs, NEW i \in Ids, NEW op \in {"save", "delete"},
         NEW pc \in Steps, NEW insert \in BOOLEAN, Start(p, i, op, pc, insert)
  PROVE  /\ call' \in [Procs -> Call \cup {Idle}]
         /\ \A q \in Procs \ {p} : call'[q] = call[q]
         /\ call'[p] # Idle
         /\ call'[p].op = op
         /\ call'[p].id = i
         /\ call'[p].insert = insert
         /\ call'[p].pc = pc
<1> DEFINE c == [op |-> op, pc |-> pc, id |-> i, insert |-> insert]
<1>1. /\ c \in Call
      /\ c.op = op /\ c.id = i /\ c.insert = insert /\ c.pc = pc
  BY DEF Call
<1>2. call' = [call EXCEPT ![p] = c]
  BY DEF Start
<1>3. c # Idle
  BY <1>1, CallIsNotIdle
<1> HIDE DEF c
<1>4. /\ call' \in [Procs -> Call \cup {Idle}]
      /\ \A q \in Procs \ {p} : call'[q] = call[q]
      /\ call'[p] = c
  BY <1>1, <1>2 DEF TypeOK
<1> QED BY <1>1, <1>3, <1>4

LEMMA Holding ==
  ASSUME TypeOK, NEW p \in Procs, NEW i \in Ids, NEW object \in Object,
         Holds(p, i, object)
  PROVE  /\ heap' \in [Procs -> [Ids -> Object]]
         /\ \A q \in Procs \ {p} : heap'[q] = heap[q]
         /\ \A j \in Ids \ {i} : heap'[p][j] = heap[p][j]
         /\ heap'[p][i] = object
BY DEF TypeOK, Holds
-----------------------------------------------------------------------------
(* A step of one process: what it does not touch keeps its invariant, and so *)
(* only the volume it is about is left to look at.                           *)
OnlyBy(p) ==
  /\ kind' = kind /\ soft' = soft /\ torn \subseteq torn' /\ lapped \subseteq lapped'
  /\ \A q \in Procs \ {p} : call'[q] = call[q] /\ heap'[q] = heap[q]
SameRows(i) ==
  row'[i] = row[i] /\ type'[i] = type[i] /\ (i \in known' <=> i \in known)
LetsGo(p, i) ==
  /\ heap'[p][i].held => heap[p][i].held
  /\ "id" \in heap'[p][i].dirty => "id" \in heap[p][i].dirty /\ heap'[p][i].held

LEMMA SparedVolume ==
  ASSUME NEW p \in Procs, NEW i \in Ids, VolumeInv(i), OnlyBy(p), SameRows(i),
         LetsGo(p, i), ~Calling(p, i), ~Calling(p, i)'
  PROVE  VolumeInv(i)'
<1>1. /\ kind' = kind /\ soft' = soft
      /\ i \in torn => i \in torn'
      /\ i \notin lapped' => i \notin lapped
      /\ row'[i] = row[i] /\ type'[i] = type[i] /\ (i \in known' <=> i \in known)
      /\ Live(i)' <=> Live(i)
  BY DEF OnlyBy, SameRows, Live
<1>2. \A q \in Procs : q # p => call'[q] = call[q] /\ heap'[q] = heap[q]
  BY DEF OnlyBy
<1>3. \A q \in Procs : Calling(q, i)' <=> Calling(q, i)
  BY <1>2 DEF Calling
<1>4. \A q \in Procs : Calling(q, i) => q # p
  OBVIOUS
<1>5. LiveKnown(i)' /\ SoftKeeps(i)' /\ WholeVolume(i)' /\ HardRows(i)'
  BY <1>1 DEF VolumeInv, LiveKnown, SoftKeeps, WholeVolume, HardRows
<1>6. HeldByCallers(i)' /\ DirtyHeld(i)'
  BY <1>2, <1>3, <1>4 DEF VolumeInv, HeldByCallers, DirtyHeld, LetsGo
<1>7. Unshared(i)'
  BY <1>1, <1>2 DEF VolumeInv, Unshared, LetsGo
<1>8. IdIsNew(i)'
  BY <1>1, <1>2, <1>3, <1>4 DEF VolumeInv, IdIsNew, LetsGo
<1>9. Inserts(i)'
  BY <1>2, <1>3, <1>4 DEF VolumeInv, Inserts
<1>10. DeletesGoOn(i)' /\ InsertsAlone(i)'
  BY <1>1, <1>2, <1>3, <1>4 DEF VolumeInv, DeletesGoOn, InsertsAlone
<1>11. Prepared(i)' /\ PlainHasNoType(i)'
  BY <1>1, <1>2, <1>3, <1>4 DEF VolumeInv, Prepared, PlainHasNoType, In
<1>12. TypeAccounted(i)'
  <2>1. \A q \in Procs : Accounts(q, i) => Accounts(q, i)'
    BY <1>2, <1>3, <1>4 DEF In, Accounts
  <2> QED BY <1>1, <2>1 DEF VolumeInv, TypeAccounted
<1> QED BY <1>5, <1>6, <1>7, <1>8, <1>9, <1>10, <1>11, <1>12 DEF VolumeInv

(* A client changes the object it holds.                                     *)
LEMMA ObjectChanges ==
  ASSUME IInv, NEW p \in Procs, NEW i \in Ids, NEW object \in Object,
         call[p] = Idle, Holds(p, i, object), object.held,
         UNCHANGED <<kind, soft, lapped, row, type, qos, fresh, specs, call, known, torn, faults>>,
         \/ "id" \in object.dirty /\ Unused(i)
         \/ "id" \notin object.dirty /\ i \in known
         \/ heap[p][i].held /\ ("id" \in object.dirty => "id" \in heap[p][i].dirty)
  PROVE  IInv'
<1>1. /\ heap' \in [Procs -> [Ids -> Object]]
      /\ \A q \in Procs \ {p} : heap'[q] = heap[q]
      /\ \A j \in Ids \ {i} : heap'[p][j] = heap[p][j]
      /\ heap'[p][i] = object
  BY Holding DEF IInv
<1>2. TypeOK'
  BY <1>1 DEF IInv, TypeOK
<1>3. OnlyBy(p) /\ \A j \in Ids : SameRows(j) /\ ~Calling(p, j) /\ ~Calling(p, j)'
  BY <1>1 DEF OnlyBy, SameRows, Calling
<1>4. ASSUME NEW j \in Ids \ {i} PROVE VolumeInv(j)'
  <2>1. VolumeInv(j)
    BY DEF IInv
  <2>2. LetsGo(p, j)
    BY <1>1, <2>1 DEF LetsGo, VolumeInv, DirtyHeld
  <2> QED BY <1>3, <2>1, <2>2, SparedVolume
<1>5. VolumeInv(i)
  BY DEF IInv
<1>6. Live(i)' <=> Live(i)
  BY DEF Live
<1>7. \A q \in Procs : (Calling(q, i)' <=> Calling(q, i)) /\ (Calling(q, i) => q # p)
  BY DEF Calling
<1>8. \A q \in Procs : q # p => heap'[q] = heap[q]
  BY <1>1
<1>9. /\ LiveKnown(i)' /\ SoftKeeps(i)' /\ WholeVolume(i)' /\ HardRows(i)'
      /\ DeletesGoOn(i)' /\ InsertsAlone(i)' /\ Prepared(i)' /\ PlainHasNoType(i)'
  BY <1>5, <1>6, <1>7
  DEF VolumeInv, LiveKnown, SoftKeeps, WholeVolume, HardRows, DeletesGoOn,
      InsertsAlone, Prepared, PlainHasNoType, In
<1>10. HeldByCallers(i)' /\ DirtyHeld(i)'
  BY <1>1, <1>5, <1>7, <1>8 DEF VolumeInv, HeldByCallers, DirtyHeld
<1>11. Unshared(i)'
  BY <1>1, <1>5, <1>8 DEF VolumeInv, Unshared, Unused
<1>12. IdIsNew(i)'
  <2> SUFFICES ASSUME NEW q \in Procs, "id" \in heap'[q][i].dirty, i \in known
               PROVE  i \in torn \/ (Calling(q, i)' /\ call'[q].pc = "reset")
    BY DEF IdIsNew
  <2>1. CASE q = p
    <3>1. "id" \in heap[p][i].dirty
      BY <1>1, <2>1 DEF Unused
    <3> QED BY <1>5, <1>7, <2>1, <3>1 DEF VolumeInv, IdIsNew
  <2>2. CASE q # p
    BY <1>5, <1>7, <1>8, <2>2 DEF VolumeInv, IdIsNew
  <2> QED BY <2>1, <2>2
<1>13. Inserts(i)'
  BY <1>5, <1>7, <1>8 DEF VolumeInv, Inserts
<1>14. TypeAccounted(i)'
  <2>1. \A q \in Procs : Accounts(q, i)' <=> Accounts(q, i)
    BY DEF In, Accounts, Calling
  <2> QED BY <1>5, <1>6, <2>1 DEF VolumeInv, TypeAccounted
<1> QED BY <1>2, <1>4, <1>9, <1>10, <1>11, <1>12, <1>13, <1>14 DEF IInv, VolumeInv

(* A client starts a call.                                                   *)
LEMMA CallStarts ==
  ASSUME IInv, NEW p \in Procs, NEW i \in Ids, NEW op \in {"save", "delete"},
         NEW pc \in Steps, NEW insert \in BOOLEAN, Start(p, i, op, pc, insert),
         op = "delete" => pc = "row" /\ ~insert,
         op = "save" => insert = Whole(heap[p][i]) /\ (pc \in Before => insert),
         pc # "reset",
         op = "save" /\ kind[i] # "plain" => pc # "row",
         kind[i] = "plain" => pc \in {"row", "update"}
  PROVE  IInv'
<1>1. /\ call' \in [Procs -> Call \cup {Idle}]
      /\ \A q \in Procs \ {p} : call'[q] = call[q]
      /\ call'[p] # Idle
      /\ call'[p].op = op
      /\ call'[p].id = i
      /\ call'[p].insert = insert
      /\ call'[p].pc = pc
  BY Starting DEF IInv
<1>2. /\ UNCHANGED <<kind, soft, row, type, qos, fresh, specs, heap, known, torn, faults>>
      /\ heap[p][i].held /\ call[p] = Idle
      /\ lapped' \in SUBSET Ids /\ lapped \subseteq lapped'
      /\ i \notin lapped' =>
           /\ i \notin lapped
           /\ \A q \in Procs : Calling(q, i) => ~insert /\ ~call[q].insert
  BY DEF Start, Overlaps, Calling, IInv, TypeOK
<1>3. TypeOK'
  BY <1>1, <1>2 DEF IInv, TypeOK
<1>4. OnlyBy(p) /\ \A j \in Ids : SameRows(j) /\ ~Calling(p, j) /\ (Calling(p, j)' <=> j = i)
  BY <1>1, <1>2 DEF OnlyBy, SameRows, Calling
<1>5. ASSUME NEW j \in Ids \ {i} PROVE VolumeInv(j)'
  <2>1. VolumeInv(j)
    BY DEF IInv
  <2>2. LetsGo(p, j)
    BY <1>2, <2>1 DEF LetsGo, VolumeInv, DirtyHeld
  <2> QED BY <1>4, <2>1, <2>2, SparedVolume
<1>6. VolumeInv(i)
  BY DEF IInv
<1>7. Live(i)' <=> Live(i)
  BY <1>2 DEF Live
<1>8. \A q \in Procs : q # p => call'[q] = call[q] /\ (Calling(q, i)' <=> Calling(q, i))
  BY <1>1 DEF Calling
<1>9. /\ LiveKnown(i)' /\ SoftKeeps(i)' /\ WholeVolume(i)' /\ HardRows(i)'
      /\ DirtyHeld(i)' /\ Unshared(i)'
  BY <1>2, <1>6, <1>7
  DEF VolumeInv, LiveKnown, SoftKeeps, WholeVolume, HardRows, DirtyHeld, Unshared
<1>10. HeldByCallers(i)'
  BY <1>2, <1>6, <1>8 DEF VolumeInv, HeldByCallers
<1>11. IdIsNew(i)'
  BY <1>2, <1>4, <1>6, <1>8 DEF VolumeInv, IdIsNew
<1>12. Inserts(i)'
  BY <1>1, <1>2, <1>6, <1>8 DEF VolumeInv, Inserts
<1>13. DeletesGoOn(i)' /\ Prepared(i)' /\ PlainHasNoType(i)'
  BY <1>1, <1>2, <1>6, <1>7, <1>8 DEF VolumeInv, DeletesGoOn, Prepared, PlainHasNoType, In
<1>14. InsertsAlone(i)'
  BY <1>1, <1>2, <1>6, <1>8 DEF VolumeInv, InsertsAlone
<1>15. TypeAccounted(i)'
  <2>1. \A q \in Procs : Accounts(q, i) => Accounts(q, i)'
    BY <1>4, <1>8 DEF In, Accounts
  <2> QED BY <1>2, <1>6, <1>7, <2>1 DEF VolumeInv, TypeAccounted
<1> QED BY <1>3, <1>5, <1>9, <1>10, <1>11, <1>12, <1>13, <1>14, <1>15 DEF IInv, VolumeInv

(* A call takes a step and goes on.                                          *)
LEMMA CallGoesOn ==
  ASSUME IInv, TypeOK', NEW p \in Procs, NEW i \in Ids, NEW pc \in Steps,
         Calling(p, i), GoTo(p, pc), heap' = heap, kind' = kind, soft' = soft, torn' = torn,
         lapped' = lapped,
         \A j \in Ids \ {i} : SameRows(j),
         call[p].pc # "reset",
         call[p].op = "delete" => pc # "row" /\ known' = known,
         call[p].op = "save" /\ pc \in Before => call[p].pc \in Before,
         known \subseteq known', i \in known' => i \in known \/ pc = "reset",
         Live(i)' => i \in known',
         soft /\ i \in known' => row'[i].state # "none",
         \/ Live(i)' => Live(i)
         \/ call[p].op = "save" /\ call[p].pc = "row" /\ row[i].state = "none",
         call[p].op = "delete" /\ (soft \/ i \notin lapped) => ~Live(i)',
         \/ type'[i] = type[i]
         \/ call[p].op = "save" /\ call[p].pc = "type" /\ type'[i] = "whole"
         \/ call[p].op = "delete" /\ call[p].pc # "row",
         call[p].op = "save" /\ pc = "row" => type'[i] = "whole",
         kind[i] = "plain" => pc \in {"row", "update", "reset"} /\ type'[i] = "none",
         ~soft => row'[i].state # "deleted",
         ~soft /\ type'[i] # "none" =>
           \/ Live(i)'
           \/ Accounts(p, i)'
           \/ type[i] # "none" /\ ~Live(i) /\ ~Accounts(p, i)
  PROVE  IInv'
<1>1. /\ \A q \in Procs \ {p} : call'[q] = call[q]
      /\ call'[p] # Idle
      /\ call'[p].op = call[p].op
      /\ call'[p].id = i
      /\ call'[p].insert = call[p].insert
      /\ call'[p].pc = pc
  BY GoingOn DEF IInv, Calling
<1>2. OnlyBy(p) /\ \A q \in Procs, j \in Ids : Calling(q, j)' <=> Calling(q, j)
  BY <1>1 DEF OnlyBy, Calling
<1>3. ASSUME NEW j \in Ids \ {i} PROVE VolumeInv(j)'
  <2>1. VolumeInv(j)
    BY DEF IInv
  <2>2. LetsGo(p, j)
    BY <2>1 DEF LetsGo, VolumeInv, DirtyHeld
  <2>3. ~Calling(p, j)
    BY DEF Calling
  <2> QED BY <1>2, <2>1, <2>2, <2>3, SparedVolume
<1>4. VolumeInv(i)
  BY DEF IInv
<1>5. \A q \in Procs : q # p => call'[q] = call[q]
  BY <1>1
<1>6. call[p].op \in {"save", "delete"} /\ kind[i] \in Kinds
  BY CallOf DEF IInv, Calling, TypeOK
<1>7. LiveKnown(i)' /\ SoftKeeps(i)' /\ HardRows(i)'
  BY DEF LiveKnown, SoftKeeps, HardRows
<1>8. HeldByCallers(i)' /\ DirtyHeld(i)' /\ Unshared(i)'
  BY <1>2, <1>4 DEF VolumeInv, HeldByCallers, DirtyHeld, Unshared
<1>9. IdIsNew(i)'
  <2> SUFFICES ASSUME NEW q \in Procs, "id" \in heap[q][i].dirty, i \in known'
               PROVE  i \in torn \/ (Calling(q, i)' /\ call'[q].pc = "reset")
    BY DEF IdIsNew
  <2>1. CASE i \in known
    BY <1>2, <1>4, <1>5, <2>1 DEF VolumeInv, IdIsNew
  <2>2. CASE i \notin known /\ q = p
    BY <1>1, <1>2, <2>2
  <2>3. CASE i \notin known /\ q # p
    BY <1>4, <2>3 DEF VolumeInv, Unshared, DirtyHeld, HeldByCallers
  <2> QED BY <2>1, <2>2, <2>3
<1>10. Inserts(i)'
  BY <1>1, <1>2, <1>4, <1>5 DEF VolumeInv, Inserts
<1>11. InsertsAlone(i)'
  BY <1>1, <1>2, <1>4, <1>5 DEF VolumeInv, InsertsAlone
<1>12. (Live(i)' => Live(i)) \/ (call[p].insert /\ call[p].op = "save" /\ call[p].pc = "row"
                                  /\ row[i].state = "none")
  BY <1>4 DEF VolumeInv, Inserts, Before
<1>13. DeletesGoOn(i)'
  <2> SUFFICES ASSUME soft \/ i \notin lapped, NEW q \in Procs, Calling(q, i)',
                      call'[q].op = "delete", call'[q].pc # "row"
               PROVE  ~Live(i)'
    BY DEF DeletesGoOn
  <2>1. CASE q = p
    BY <1>1, <2>1
  <2>2. CASE q # p
    <3>1. Calling(q, i) /\ call[q].op = "delete" /\ call[q].pc # "row"
      BY <1>2, <1>5, <2>2
    <3>2. ~Live(i)
      BY <1>4, <3>1 DEF VolumeInv, DeletesGoOn
    <3>3. CASE soft
      <4>1. i \in known
        BY <1>4, <2>2, <3>1 DEF VolumeInv, Unshared, HeldByCallers
      <4> QED BY <1>4, <1>12, <3>2, <3>3, <4>1 DEF VolumeInv, SoftKeeps
    <3>4. CASE i \notin lapped
      BY <1>4, <1>12, <2>2, <3>1, <3>2, <3>4 DEF VolumeInv, InsertsAlone
    <3> QED BY <3>3, <3>4
  <2> QED BY <2>1, <2>2
<1>14. Prepared(i)'
  <2> SUFFICES ASSUME i \notin lapped, NEW q \in Procs, In(q, i, "save", {"row"})', kind[i] # "plain"
               PROVE  type'[i] = "whole"
    BY DEF Prepared
  <2>1. CASE q = p
    BY <1>1, <2>1 DEF In
  <2>2. CASE q # p
    <3>1. In(q, i, "save", {"row"})
      BY <1>2, <1>5, <2>2 DEF In
    <3>2. type[i] = "whole" /\ call[q].insert
      BY <1>4, <3>1 DEF VolumeInv, Prepared, Inserts, In, Before
    <3>3. FALSE
      BY <1>4, <2>2, <3>1, <3>2 DEF VolumeInv, InsertsAlone, In
    <3> QED BY <3>3
  <2> QED BY <2>1, <2>2
<1>15. WholeVolume(i)'
  <2> SUFFICES ASSUME i \notin lapped, Live(i)', kind[i] # "plain" PROVE type'[i] = "whole"
    BY DEF WholeVolume
  <2>1. type'[i] = type[i] \/ type'[i] = "whole"
    BY <1>6
  <2>2. Live(i) => type[i] = "whole"
    BY <1>4 DEF VolumeInv, WholeVolume
  <2>3. ~Live(i) => type[i] = "whole"
    BY <1>4, <1>12 DEF VolumeInv, Prepared, In
  <2> QED BY <2>1, <2>2, <2>3
<1>16. PlainHasNoType(i)'
  BY <1>1, <1>2, <1>4, <1>5 DEF VolumeInv, PlainHasNoType
<1>17. TypeAccounted(i)'
  <2>1. \A q \in Procs : q # p /\ Accounts(q, i) => Accounts(q, i)'
    BY <1>2, <1>5 DEF Accounts, In
  <2> QED BY <1>4, <2>1 DEF VolumeInv, TypeAccounted
<1> QED BY <1>3, <1>7, <1>8, <1>9, <1>10, <1>11, <1>13, <1>14, <1>15, <1>16, <1>17
    DEF IInv, VolumeInv

(* A call ends; the process can only have let go of objects and of changes.  *)
LEMMA CallEnds ==
  ASSUME IInv, TypeOK', NEW p \in Procs, Return(p), OnlyBy(p), row' = row, type' = type,
         known' = known, \A i \in Ids : LetsGo(p, i),
         \A i \in Ids : Calling(p, i) =>
           \/ i \in torn'
           \/ /\ ~Accounts(p, i)
              /\ call[p].pc = "reset" => "id" \notin heap'[p][i].dirty
  PROVE  IInv'
<1>1. /\ \A q \in Procs : q # p => call'[q] = call[q] /\ heap'[q] = heap[q]
      /\ call'[p] = Idle /\ kind' = kind /\ soft' = soft /\ torn \subseteq torn'
      /\ lapped \subseteq lapped'
  BY Returning DEF IInv, OnlyBy
<1> SUFFICES ASSUME NEW i \in Ids PROVE VolumeInv(i)'
  BY DEF IInv
<1>2. VolumeInv(i)
  BY DEF IInv
<1>3. /\ Live(i)' <=> Live(i)
      /\ ~Calling(p, i)'
      /\ \A q \in Procs : Calling(q, i)' => q # p /\ Calling(q, i)
  BY <1>1 DEF Live, Calling
<1>4. LiveKnown(i)' /\ SoftKeeps(i)' /\ WholeVolume(i)' /\ HardRows(i)'
  BY <1>1, <1>2, <1>3 DEF VolumeInv, LiveKnown, SoftKeeps, WholeVolume, HardRows
<1>5. HeldByCallers(i)' /\ DirtyHeld(i)' /\ Unshared(i)'
  BY <1>1, <1>2, <1>3 DEF VolumeInv, HeldByCallers, DirtyHeld, Unshared, LetsGo
<1>6. IdIsNew(i)'
  <2> SUFFICES ASSUME NEW q \in Procs, "id" \in heap'[q][i].dirty, i \in known,
                      i \notin torn'
               PROVE  Calling(q, i)' /\ call'[q].pc = "reset"
    BY DEF IdIsNew
  <2>1. "id" \in heap[q][i].dirty /\ i \notin torn
    BY <1>1 DEF LetsGo
  <2>2. Calling(q, i) /\ call[q].pc = "reset"
    BY <1>2, <2>1 DEF VolumeInv, IdIsNew
  <2>3. q # p
    BY <2>2
  <2> QED BY <1>1, <2>2, <2>3 DEF Calling
<1>7. Inserts(i)' /\ DeletesGoOn(i)' /\ InsertsAlone(i)'
  BY <1>1, <1>2, <1>3 DEF VolumeInv, Inserts, DeletesGoOn, InsertsAlone
<1>8. Prepared(i)' /\ PlainHasNoType(i)'
  BY <1>1, <1>2, <1>3 DEF VolumeInv, Prepared, PlainHasNoType, In
<1>9. TypeAccounted(i)'
  <2>1. \A q \in Procs : q # p /\ Accounts(q, i) => Accounts(q, i)'
    BY <1>1 DEF Accounts, In, Calling
  <2>2. Accounts(p, i) => i \in torn'
    BY DEF Accounts, In
  <2> QED BY <1>1, <1>2, <1>3, <2>1, <2>2 DEF VolumeInv, TypeAccounted
<1> QED BY <1>4, <1>5, <1>6, <1>7, <1>8, <1>9 DEF VolumeInv

-----------------------------------------------------------------------------
(* Every action keeps the invariant: what clients do to their objects, and   *)
(* the start of their calls.                                                 *)

LEMMA NewKeeps ==
  ASSUME IInv, NEW p \in Procs, NEW i \in Ids, NEW d \in Data, New(p, i, d)
  PROVE  IInv'
<1> DEFINE linked == kind[i] = "qos"
<1>1. linked \in BOOLEAN
  OBVIOUS
<1>2. Holds(p, i, [held |-> TRUE, data |-> d, dirty |-> {"id", "data"}, linked |-> linked])
  BY DEF New
<1> HIDE DEF linked
<1>3. [held |-> TRUE, data |-> d, dirty |-> {"id", "data"}, linked |-> linked] \in Object
  BY <1>1 DEF Object
<1> QED BY <1>2, <1>3, ObjectChanges DEF New

LEMMA ChangeKeeps ==
  ASSUME IInv, NEW p \in Procs, NEW i \in Ids, NEW d \in Data, Change(p, i, d)
  PROVE  IInv'
<1> DEFINE object == [heap[p][i] EXCEPT !.data = d, !.dirty = @ \cup {"data"}]
<1>1. heap[p][i] \in Object
  BY DEF IInv, TypeOK
<1>2. /\ object \in Object
      /\ object.held = heap[p][i].held
      /\ object.dirty = heap[p][i].dirty \cup {"data"}
  BY <1>1 DEF Object
<1>3. Holds(p, i, object)
  BY DEF Change
<1> HIDE DEF object
<1> QED BY <1>2, <1>3, ObjectChanges DEF Change

LEMMA LoadKeeps ==
  ASSUME IInv, NEW p \in Procs, NEW i \in Ids, NEW d \in Data, NEW linked \in BOOLEAN,
         Load(p, i, d, linked)
  PROVE  IInv'
<1>1. [held |-> TRUE, data |-> d, dirty |-> {}, linked |-> linked] \in Object
  BY DEF Object
<1> QED BY <1>1, ObjectChanges DEF Load

LEMMA GetKeeps ==
  ASSUME IInv, NEW p \in Procs, NEW i \in Ids, Get(p, i)
  PROVE  IInv'
<1>1. [held |-> TRUE, data |-> row[i].data, dirty |-> {}, linked |-> FALSE] \in Object
  BY DEF Object, IInv, TypeOK, Row
<1>2. i \in known
  BY DEF Get, IInv, VolumeInv, LiveKnown
<1> QED BY <1>1, <1>2, ObjectChanges DEF Get

LEMMA SavePc ==
  ASSUME TypeOK, NEW p \in Procs, NEW i \in Ids, StartSave(p, i)
  PROVE  \E pc \in Steps, insert \in BOOLEAN :
           /\ Start(p, i, "save", pc, insert)
           /\ insert = Whole(heap[p][i]) /\ (pc \in Before => insert)
           /\ pc # "reset"
           /\ kind[i] # "plain" => pc # "row"
           /\ kind[i] = "plain" => pc \in {"row", "update"}
<1> DEFINE insert == Whole(heap[p][i])
           pc == IF insert THEN FirstStep(p, i) ELSE "update"
<1>1. Start(p, i, "save", pc, insert)
  BY DEF StartSave
<1>2. kind[i] \in Kinds /\ heap[p][i].linked \in BOOLEAN
  BY DEF TypeOK, Object
<1>3. /\ kind[i] = "plain" => FirstStep(p, i) = "row"
      /\ kind[i] # "plain" => FirstStep(p, i) \in {"qos", "type"}
  BY <1>2 DEF FirstStep, Kinds
<1>4. insert \in BOOLEAN
  BY DEF Whole
<1>5. /\ pc \in Steps /\ (pc \in Before => insert) /\ pc # "reset"
      /\ kind[i] # "plain" => pc # "row"
      /\ kind[i] = "plain" => pc \in {"row", "update"}
  BY <1>3 DEF Steps, Before
<1>6. insert = Whole(heap[p][i])
  OBVIOUS
<1> HIDE DEF pc, insert
<1> QED BY <1>1, <1>4, <1>5, <1>6

LEMMA StartSaveKeeps ==
  ASSUME IInv, NEW p \in Procs, NEW i \in Ids, StartSave(p, i)
  PROVE  IInv'
<1>1. PICK pc \in Steps, insert \in BOOLEAN :
        /\ Start(p, i, "save", pc, insert)
        /\ insert = Whole(heap[p][i]) /\ (pc \in Before => insert)
        /\ pc # "reset"
        /\ kind[i] # "plain" => pc # "row"
        /\ kind[i] = "plain" => pc \in {"row", "update"}
  BY SavePc DEF IInv
<1> QED BY <1>1, CallStarts

LEMMA StartDeleteKeeps ==
  ASSUME IInv, NEW p \in Procs, NEW i \in Ids, StartDelete(p, i)
  PROVE  IInv'
BY CallStarts DEF StartDelete, Steps

(* The steps of a save.                                                      *)

LEMMA SavesStart ==
  ASSUME IInv, NEW p \in Procs, NEW i \in Ids, Calling(p, i)
  PROVE  /\ kind[i] = "plain" => type[i] = "none" /\ call[p].pc \in {"row", "update", "reset"}
         /\ Live(i) => i \in known
         /\ soft /\ i \in known => row[i].state # "none"
         /\ ~soft => row[i].state # "deleted"
BY DEF IInv, VolumeInv, PlainHasNoType, LiveKnown, SoftKeeps, HardRows

LEMMA QosKeeps ==
  ASSUME IInv, NEW p \in Procs, CreateQos(p) \/ ReplaceQosId(p)
  PROVE  IInv'
<1>1. PICK i \in Ids : Calling(p, i)
  BY CallOf DEF CreateQos, ReplaceQosId, At, IInv, Calling
<1>2. PICK pc \in {"qos id", "type"} : GoTo(p, pc)
  BY DEF CreateQos, ReplaceQosId
<1>3. /\ call[p].op = "save" /\ call[p].pc \in {"qos", "qos id"}
      /\ UNCHANGED <<kind, soft, lapped, row, type, heap, known, torn, faults>>
  BY DEF CreateQos, ReplaceQosId, At
<1>4. /\ call' \in [Procs -> Call \cup {Idle}] /\ call'[p].pc = pc /\ call'[p].op = "save"
  BY <1>1, <1>2, <1>3, GoingOn DEF IInv, Calling, Steps
<1>5. TypeOK'
  BY <1>1, <1>3, <1>4 DEF CreateQos, ReplaceQosId, Calling, IInv, TypeOK
<1>6. /\ pc \in Steps /\ \A j \in Ids : SameRows(j)
      /\ Live(i)' <=> Live(i)
      /\ ~Accounts(p, i)
  BY <1>3 DEF Steps, SameRows, Live, Accounts, In
<1> QED BY <1>1, <1>2, <1>3, <1>5, <1>6, SavesStart, CallGoesOn DEF Before

LEMMA CreateTypeKeeps ==
  ASSUME IInv, NEW p \in Procs, CreateType(p)
  PROVE  IInv'
<1>1. PICK i \in Ids : Calling(p, i)
  BY CallOf DEF CreateType, At, IInv, Calling
<1>2. /\ GoTo(p, "row") /\ "row" \in Steps /\ call[p].op = "save" /\ call[p].pc = "type"
      /\ type' = [type EXCEPT ![i] = "whole"]
      /\ UNCHANGED <<kind, soft, lapped, row, qos, fresh, specs, heap, known, torn, faults>>
  BY <1>1 DEF CreateType, At, Steps, Calling
<1>3. /\ call' \in [Procs -> Call \cup {Idle}]
      /\ call'[p] # Idle /\ call'[p].pc = "row" /\ call'[p].op = "save" /\ call'[p].id = i
  BY <1>1, <1>2, GoingOn DEF IInv, Calling
<1>4. TypeOK'
  BY <1>2, <1>3 DEF IInv, TypeOK
<1>5. type'[i] = "whole" /\ \A j \in Ids \ {i} : type'[j] = type[j]
  BY <1>2 DEF IInv, TypeOK
<1>6. /\ \A j \in Ids \ {i} : SameRows(j)
      /\ Live(i)' <=> Live(i)
      /\ Accounts(p, i)'
  BY <1>2, <1>3, <1>5 DEF SameRows, Live, Accounts, In, Calling
<1> QED BY <1>1, <1>2, <1>4, <1>5, <1>6, SavesStart, CallGoesOn DEF Before

LEMMA RowExistsKeeps ==
  ASSUME IInv, NEW p \in Procs, RowExists(p)
  PROVE  IInv'
<1>1. PICK i \in Ids : Calling(p, i)
  BY CallOf DEF RowExists, At, IInv, Calling
<1>2. /\ GoTo(p, "update") /\ "update" \in Steps /\ call[p].op = "save" /\ call[p].pc = "row"
      /\ row[i].state # "none"
      /\ UNCHANGED <<kind, soft, lapped, row, type, qos, fresh, specs, heap, known, torn, faults>>
  BY <1>1 DEF RowExists, At, Steps, Calling
<1>3. /\ call' \in [Procs -> Call \cup {Idle}] /\ call'[p].pc = "update"
  BY <1>1, <1>2, GoingOn DEF IInv, Calling
<1>4. TypeOK'
  BY <1>2, <1>3 DEF IInv, TypeOK
<1>5. /\ \A j \in Ids \ {i} : SameRows(j)
      /\ Live(i)' <=> Live(i)
  BY <1>2 DEF SameRows, Live
<1>6. ~soft => Live(i)
  BY <1>1, <1>2, SavesStart DEF Live, IInv, TypeOK, Row
<1> QED BY <1>1, <1>2, <1>4, <1>5, <1>6, SavesStart, CallGoesOn DEF Before

(* What writing the row does.                                                *)
LEMMA Writing ==
  ASSUME IInv, NEW p \in Procs, NEW i \in Ids, Calling(p, i), Write(p)
  PROVE  /\ row' \in [Ids -> Row]
         /\ \A j \in Ids \ {i} : row'[j] = row[j]
         /\ row'[i] = [state |-> "live", data |-> heap[p][i].data]
<1> DEFINE new == [state |-> "live", data |-> heap[p][i].data]
<1>1. heap[p][i] \in Object
  BY DEF IInv, TypeOK
<1>2. new \in Row
  BY <1>1 DEF Row, Object
<1>3. row' = [row EXCEPT ![i] = new]
  BY DEF Write, Calling
<1> HIDE DEF new
<1>4. /\ row' \in [Ids -> Row]
      /\ \A j \in Ids \ {i} : row'[j] = row[j]
      /\ row'[i] = new
  BY <1>2, <1>3 DEF IInv, TypeOK
<1> QED BY <1>4 DEF new

LEMMA WritesRow ==
  ASSUME IInv, NEW p \in Procs, CreateRow(p) \/ UpdateRow(p)
  PROVE  \E i \in Ids :
           /\ Calling(p, i) /\ call[p].op = "save" /\ GoTo(p, "reset") /\ Write(p)
           /\ UNCHANGED <<kind, soft, lapped, type, qos, fresh, specs, heap, torn, faults>>
           /\ \/ CreateRow(p) /\ call[p].pc = "row" /\ row[i].state = "none"
                 /\ known' = known \cup {i}
              \/ UpdateRow(p) /\ call[p].pc = "update" /\ Live(i) /\ known' = known
<1>1. PICK i \in Ids : Calling(p, i)
  BY CallOf DEF CreateRow, UpdateRow, At, IInv, Calling
<1> QED BY <1>1 DEF CreateRow, UpdateRow, CanUpdate, At, Calling

LEMMA WriteKeeps ==
  ASSUME IInv, NEW p \in Procs, CreateRow(p) \/ UpdateRow(p)
  PROVE  IInv'
<1>1. PICK i \in Ids :
        /\ Calling(p, i) /\ call[p].op = "save" /\ GoTo(p, "reset") /\ Write(p)
        /\ UNCHANGED <<kind, soft, lapped, type, qos, fresh, specs, heap, torn, faults>>
        /\ \/ CreateRow(p) /\ call[p].pc = "row" /\ row[i].state = "none"
              /\ known' = known \cup {i}
           \/ UpdateRow(p) /\ call[p].pc = "update" /\ Live(i) /\ known' = known
  BY WritesRow
<1>2. /\ row' \in [Ids -> Row]
      /\ \A j \in Ids \ {i} : row'[j] = row[j]
      /\ row'[i].state = "live"
  <2>1. /\ row' \in [Ids -> Row]
        /\ \A j \in Ids \ {i} : row'[j] = row[j]
        /\ row'[i] = [state |-> "live", data |-> heap[p][i].data]
    BY <1>1, Writing
  <2> QED BY <2>1
<1>3. /\ call' \in [Procs -> Call \cup {Idle}] /\ "reset" \in Steps
  BY <1>1, GoingOn DEF IInv, Calling, Steps
<1>4. TypeOK'
  BY <1>1, <1>2, <1>3 DEF IInv, TypeOK
<1>5. /\ \A j \in Ids \ {i} : SameRows(j)
      /\ Live(i)'
      /\ i \in known'
  BY <1>1, <1>2, SavesStart DEF SameRows, Live
<1> QED BY <1>1, <1>2, <1>3, <1>4, <1>5, SavesStart, CallGoesOn DEF Before

(* The steps of a delete.                                                    *)

LEMMA Destroying ==
  ASSUME IInv, NEW i \in Ids, Destroyed(i)
  PROVE  /\ row' \in [Ids -> Row]
         /\ \A j \in Ids \ {i} : row'[j] = row[j]
         /\ ~Live(i)'
         /\ soft /\ row[i].state # "none" => row'[i].state # "none"
         /\ ~soft => row'[i].state = "none"
         /\ ~Live(i) /\ soft => row' = row
<1>1. row[i] \in Row /\ row \in [Ids -> Row]
  BY DEF IInv, TypeOK
<1>2. CASE soft /\ Live(i)
  <2> DEFINE new == [row[i] EXCEPT !.state = "deleted"]
  <2>1. new \in Row /\ new.state = "deleted"
    BY <1>1 DEF Row
  <2>2. row' = [row EXCEPT ![i] = new]
    BY <1>2 DEF Destroyed
  <2> HIDE DEF new
  <2> QED BY <1>1, <1>2, <2>1, <2>2 DEF Live
<1>3. CASE soft /\ ~Live(i)
  BY <1>1, <1>3 DEF Destroyed, Live
<1>4. CASE ~soft
  <2> DEFINE new == [state |-> "none", data |-> NoData]
  <2>1. new \in Row /\ new.state = "none"
    BY <1>1 DEF Row, NoData
  <2>2. row' = [row EXCEPT ![i] = new]
    BY <1>4 DEF Destroyed
  <2> HIDE DEF new
  <2> QED BY <1>1, <1>4, <2>1, <2>2 DEF Live
<1> QED BY <1>2, <1>3, <1>4

(* A step of a delete that leaves the volume gone, or the rows as they are.  *)
LEMMA DeleteStep ==
  ASSUME IInv, NEW p \in Procs, NEW i \in Ids, Calling(p, i),
         call[p].op = "delete", call[p].pc # "reset", NEW pc \in Steps \ {"row"}, GoTo(p, pc),
         UNCHANGED <<kind, soft, lapped, fresh, specs, heap, known, torn, faults>>,
         qos' \in [Ids -> {"none", "live", "deleted"}],
         \A j \in Ids \ {i} : type'[j] = type[j],
         type' \in [Ids -> {"none", "bare", "whole"}], type[i] = "none" => type'[i] = "none",
         call[p].pc = "row" => type' = type,
         (row' = row /\ call[p].pc # "row") \/ Destroyed(i),
         \/ pc \in {"type", "specs"} \/ type'[i] = "none" \/ soft
         \/ ~Accounts(p, i) /\ row' = row,
         kind[i] = "plain" => pc = "reset"
  PROVE  IInv'
<1>1. /\ call' \in [Procs -> Call \cup {Idle}]
      /\ call'[p] # Idle /\ call'[p].pc = pc /\ call'[p].op = "delete" /\ call'[p].id = i
  BY GoingOn DEF IInv, Calling
<1>2. /\ row' \in [Ids -> Row]
      /\ \A j \in Ids \ {i} : row'[j] = row[j]
      /\ Live(i)' => Live(i)
      /\ ~soft => row'[i].state # "deleted"
      /\ soft /\ row[i].state # "none" => row'[i].state # "none"
      /\ Live(i)' => row' = row /\ call[p].pc # "row"
  <2>1. CASE row' = row /\ call[p].pc # "row"
    BY <2>1, SavesStart DEF IInv, TypeOK, Live
  <2>2. CASE Destroyed(i)
    BY <2>2, Destroying
  <2> QED BY <2>1, <2>2
<1>3. TypeOK'
  BY <1>1, <1>2 DEF IInv, TypeOK
<1>4. soft \/ i \notin lapped => ~Live(i)'
  BY <1>2 DEF IInv, VolumeInv, DeletesGoOn
<1>5. \A j \in Ids \ {i} : SameRows(j)
  BY <1>2 DEF SameRows
<1>6. ASSUME ~soft, type'[i] # "none"
      PROVE  Accounts(p, i)' \/ (type[i] # "none" /\ ~Live(i) /\ ~Accounts(p, i)) \/ Live(i)'
  <2>1. CASE pc \in {"type", "specs"}
    BY <1>1, <2>1 DEF Accounts, In, Calling
  <2>2. CASE ~Accounts(p, i) /\ row' = row
    BY <1>6, <2>2 DEF Live
  <2> QED BY <1>6, <2>1, <2>2
<1> QED BY <1>2, <1>3, <1>4, <1>5, <1>6, SavesStart, CallGoesOn

LEMMA DeletesOf ==
  ASSUME IInv, NEW p \in Procs,
         DeleteRow(p) \/ DeleteSpecs(p) \/ DeleteType(p) \/ DeleteQos(p)
  PROVE  \E i \in Ids, pc \in Steps \ {"row"} :
           /\ Calling(p, i) /\ call[p].op = "delete" /\ call[p].pc # "reset" /\ GoTo(p, pc)
           /\ UNCHANGED <<kind, soft, lapped, fresh, specs, heap, known, torn, faults>>
           /\ kind[i] = "plain" => pc = "reset"
           /\ \/ DeleteRow(p) /\ call[p].pc = "row" /\ Destroyed(i) /\ type' = type /\ qos' = qos
                 /\ (pc \in {"type", "specs"} \/ kind[i] = "plain")
              \/ DeleteSpecs(p) /\ call[p].pc = "specs" /\ row' = row /\ qos' = qos
                 /\ pc = "type"
                 /\ type' = [type EXCEPT ![i] = IF @ = "whole" THEN "bare" ELSE @]
              \/ DeleteType(p) /\ call[p].pc = "type" /\ qos' = qos
                 /\ \/ soft /\ Destroyed(i) /\ type' = type
                    \/ ~soft /\ row' = row /\ type' = [type EXCEPT ![i] = "none"]
              \/ DeleteQos(p) /\ call[p].pc = "qos" /\ row' = row /\ type' = type
                 /\ qos' = [qos EXCEPT ![i] = IF soft THEN "deleted" ELSE "none"]
<1>1. PICK i \in Ids : Calling(p, i)
  BY CallOf DEF DeleteRow, DeleteSpecs, DeleteType, DeleteQos, At, IInv, Calling
<1>2. /\ call[p].op = "delete" /\ call[p].pc # "reset"
      /\ UNCHANGED <<kind, soft, lapped, fresh, specs, heap, known, torn, faults>>
  BY DEF DeleteRow, DeleteSpecs, DeleteType, DeleteQos, At
<1>3. kind[i] = "plain" => call[p].pc \in {"row", "update", "reset"}
  BY <1>1, SavesStart
<1>4. CASE DeleteRow(p)
  <2> DEFINE next == IF soft THEN "type" ELSE "specs"
             pc == IF kind[i] # "plain" THEN next ELSE "reset"
  <2>1. GoTo(p, pc) /\ Destroyed(i) /\ type' = type /\ qos' = qos /\ call[p].pc = "row"
    BY <1>1, <1>4 DEF DeleteRow, Continue, Calling, At
  <2>2. /\ pc \in Steps \ {"row"} /\ (kind[i] = "plain" => pc = "reset")
        /\ pc \in {"type", "specs"} \/ kind[i] = "plain"
    BY DEF Steps
  <2> HIDE DEF next, pc
  <2> QED BY <1>1, <1>2, <1>4, <2>1, <2>2
<1>5. CASE DeleteSpecs(p)
  BY <1>1, <1>2, <1>3, <1>5 DEF DeleteSpecs, Calling, At, Steps
<1>6. CASE DeleteType(p)
  <2> DEFINE pc == IF heap[p][i].linked THEN "qos" ELSE "reset"
  <2>1. /\ GoTo(p, pc) /\ qos' = qos /\ call[p].pc = "type"
        /\ \/ soft /\ Destroyed(i) /\ type' = type
           \/ ~soft /\ row' = row /\ type' = [type EXCEPT ![i] = "none"]
    BY <1>1, <1>6 DEF DeleteType, Continue, Calling, At
  <2>2. pc \in Steps \ {"row"} /\ kind[i] # "plain"
    BY <1>3, <2>1 DEF Steps
  <2> HIDE DEF pc
  <2> QED BY <1>1, <1>2, <1>6, <2>1, <2>2
<1>7. CASE DeleteQos(p)
  BY <1>1, <1>2, <1>3, <1>7 DEF DeleteQos, Calling, At, Steps
<1> QED BY <1>4, <1>5, <1>6, <1>7

LEMMA DeleteKeeps ==
  ASSUME IInv, NEW p \in Procs,
         DeleteRow(p) \/ DeleteSpecs(p) \/ DeleteType(p) \/ DeleteQos(p)
  PROVE  IInv'
<1>1. PICK i \in Ids, pc \in Steps \ {"row"} :
        /\ Calling(p, i) /\ call[p].op = "delete" /\ call[p].pc # "reset" /\ GoTo(p, pc)
        /\ UNCHANGED <<kind, soft, lapped, fresh, specs, heap, known, torn, faults>>
        /\ kind[i] = "plain" => pc = "reset"
        /\ \/ DeleteRow(p) /\ call[p].pc = "row" /\ Destroyed(i) /\ type' = type /\ qos' = qos
              /\ (pc \in {"type", "specs"} \/ kind[i] = "plain")
           \/ DeleteSpecs(p) /\ call[p].pc = "specs" /\ row' = row /\ qos' = qos
              /\ pc = "type"
              /\ type' = [type EXCEPT ![i] = IF @ = "whole" THEN "bare" ELSE @]
           \/ DeleteType(p) /\ call[p].pc = "type" /\ qos' = qos
              /\ \/ soft /\ Destroyed(i) /\ type' = type
                 \/ ~soft /\ row' = row /\ type' = [type EXCEPT ![i] = "none"]
           \/ DeleteQos(p) /\ call[p].pc = "qos" /\ row' = row /\ type' = type
              /\ qos' = [qos EXCEPT ![i] = IF soft THEN "deleted" ELSE "none"]
  BY DeletesOf
<1>2. /\ Calling(p, i) /\ call[p].op = "delete" /\ call[p].pc # "reset" /\ GoTo(p, pc)
      /\ UNCHANGED <<kind, soft, lapped, fresh, specs, heap, known, torn, faults>>
      /\ kind[i] = "plain" => pc = "reset"
  BY <1>1
<1>3. type \in [Ids -> {"none", "bare", "whole"}] /\ qos \in [Ids -> {"none", "live", "deleted"}]
  BY DEF IInv, TypeOK
<1>4. kind[i] = "plain" => type[i] = "none"
  BY <1>1, SavesStart
<1>5. CASE DeleteRow(p) /\ call[p].pc = "row" /\ Destroyed(i) /\ type' = type /\ qos' = qos
           /\ (pc \in {"type", "specs"} \/ kind[i] = "plain")
  BY <1>2, <1>3, <1>4, <1>5, DeleteStep
<1>6. CASE DeleteSpecs(p) /\ call[p].pc = "specs" /\ row' = row /\ qos' = qos /\ pc = "type"
           /\ type' = [type EXCEPT ![i] = IF @ = "whole" THEN "bare" ELSE @]
  <2>1. /\ type' \in [Ids -> {"none", "bare", "whole"}]
        /\ \A j \in Ids \ {i} : type'[j] = type[j]
        /\ type[i] = "none" => type'[i] = "none"
    BY <1>3, <1>6
  <2> QED BY <1>2, <1>3, <1>6, <2>1, DeleteStep
<1>7. CASE DeleteType(p) /\ call[p].pc = "type" /\ qos' = qos /\ soft /\ Destroyed(i) /\ type' = type
  BY <1>2, <1>3, <1>7, DeleteStep
<1>8. CASE DeleteType(p) /\ call[p].pc = "type" /\ qos' = qos
           /\ ~soft /\ row' = row /\ type' = [type EXCEPT ![i] = "none"]
  <2>1. /\ type' \in [Ids -> {"none", "bare", "whole"}]
        /\ \A j \in Ids \ {i} : type'[j] = type[j]
        /\ type'[i] = "none"
    BY <1>3, <1>8
  <2> QED BY <1>2, <1>3, <1>8, <2>1, DeleteStep
<1>9. CASE DeleteQos(p) /\ call[p].pc = "qos" /\ row' = row /\ type' = type
           /\ qos' = [qos EXCEPT ![i] = IF soft THEN "deleted" ELSE "none"]
  <2>1. qos' \in [Ids -> {"none", "live", "deleted"}]
    BY <1>3, <1>9
  <2>2. ~Accounts(p, i)
    BY <1>2, <1>9 DEF Accounts, In
  <2> QED BY <1>2, <1>3, <1>9, <2>1, <2>2, DeleteStep
<1> QED BY <1>1, <1>5, <1>6, <1>7, <1>8, <1>9

(* The end of a call, calls that raise, and processes that die.              *)

LEMMA NoObjectIsObject ==
  NoObject \in Object /\ ~NoObject.held /\ NoObject.dirty = {}
<1>1. NoData \in Data
  BY DBAssumption DEF NoData
<1> QED BY <1>1 DEF NoObject, Object

LEMMA Finishing ==
  ASSUME IInv, NEW p \in Procs, Finish(p)
  PROVE  \E i \in Ids, object \in Object :
           /\ Calling(p, i) /\ call[p].pc = "reset" /\ Return(p)
           /\ Holds(p, i, object)
           /\ object.dirty = {} /\ (object.held => heap[p][i].held)
           /\ UNCHANGED <<kind, soft, lapped, row, type, qos, fresh, specs, known, torn, faults>>
<1>1. PICK i \in Ids : Calling(p, i)
  BY CallOf DEF Finish, IInv, Calling
<1> DEFINE object == IF call[p].op = "save" THEN [heap[p][i] EXCEPT !.dirty = {}] ELSE NoObject
<1>2. heap[p][i] \in Object
  BY DEF IInv, TypeOK
<1>3. /\ [heap[p][i] EXCEPT !.dirty = {}] \in Object
      /\ [heap[p][i] EXCEPT !.dirty = {}].dirty = {}
      /\ [heap[p][i] EXCEPT !.dirty = {}].held = heap[p][i].held
  BY <1>2 DEF Object
<1>4. object \in Object /\ object.dirty = {} /\ (object.held => heap[p][i].held)
  BY <1>3, NoObjectIsObject
<1>5. heap' = [heap EXCEPT ![p][i] = object]
  BY <1>1 DEF Finish, Calling
<1>6. Holds(p, i, object)
  BY <1>5 DEF Holds
<1> HIDE DEF object
<1> QED BY <1>1, <1>4, <1>6 DEF Finish

LEMMA FinishKeeps ==
  ASSUME IInv, NEW p \in Procs, Finish(p)
  PROVE  IInv'
<1>1. PICK i \in Ids, object \in Object :
        /\ Calling(p, i) /\ call[p].pc = "reset" /\ Return(p)
        /\ Holds(p, i, object)
        /\ object.dirty = {} /\ (object.held => heap[p][i].held)
        /\ UNCHANGED <<kind, soft, lapped, row, type, qos, fresh, specs, known, torn, faults>>
  BY Finishing
<1>2. /\ heap' \in [Procs -> [Ids -> Object]]
      /\ \A q \in Procs \ {p} : heap'[q] = heap[q]
      /\ \A j \in Ids \ {i} : heap'[p][j] = heap[p][j]
      /\ heap'[p][i] = object
  BY <1>1, Holding DEF IInv
<1>3. /\ call' \in [Procs -> Call \cup {Idle}]
      /\ \A q \in Procs \ {p} : call'[q] = call[q]
  BY <1>1, Returning DEF IInv
<1>4. TypeOK' /\ OnlyBy(p)
  BY <1>1, <1>2, <1>3 DEF IInv, TypeOK, OnlyBy
<1>5. \A j \in Ids : LetsGo(p, j)
  <2> SUFFICES ASSUME NEW j \in Ids PROVE LetsGo(p, j)
    OBVIOUS
  <2>1. DirtyHeld(j)
    BY DEF IInv, VolumeInv
  <2> QED BY <1>1, <1>2, <2>1 DEF LetsGo, DirtyHeld
<1>6. \A j \in Ids : Calling(p, j) => ~Accounts(p, j) /\ "id" \notin heap'[p][j].dirty
  BY <1>1, <1>2 DEF Calling, Accounts, In
<1> QED BY <1>1, <1>4, <1>5, <1>6, CallEnds

LEMMA RefusedKeeps ==
  ASSUME IInv, NEW p \in Procs, Refused(p)
  PROVE  IInv'
<1>1. Return(p) /\ UNCHANGED <<kind, soft, lapped, row, type, qos, fresh, specs, heap, known, torn, faults>>
  BY DEF Refused
<1>2. TypeOK' /\ OnlyBy(p)
  BY <1>1, Returning DEF IInv, TypeOK, OnlyBy
<1>3. \A i \in Ids : LetsGo(p, i)
  BY <1>1 DEF IInv, VolumeInv, DirtyHeld, LetsGo
<1>4. \A i \in Ids : ~Accounts(p, i) /\ call[p].pc # "reset"
  BY DEF Refused, At, Accounts, In
<1> QED BY <1>1, <1>2, <1>3, <1>4, CallEnds

LEMMA FaultCounts ==
  ASSUME TypeOK, NEW what, Fault(what)
  PROVE  faults' \in 0..MaxFaults
BY DBAssumption DEF TypeOK, Fault

LEMMA StoreRaisesKeeps ==
  ASSUME IInv, NEW p \in Procs, StoreRaises(p)
  PROVE  IInv'
<1>1. /\ Return(p) /\ faults' \in 0..MaxFaults
      /\ UNCHANGED <<kind, soft, lapped, row, type, qos, fresh, specs, heap, known>>
  BY FaultCounts DEF StoreRaises, IInv
<1>2. torn' \in SUBSET Ids /\ \A i \in Ids : Calling(p, i) => i \in torn'
  BY CallOf DEF StoreRaises, IInv, TypeOK, Calling
<1>3. TypeOK' /\ OnlyBy(p)
  BY <1>1, <1>2, Returning DEF StoreRaises, IInv, TypeOK, OnlyBy
<1>4. \A i \in Ids : LetsGo(p, i)
  BY <1>1 DEF IInv, VolumeInv, DirtyHeld, LetsGo
<1> QED BY <1>1, <1>2, <1>3, <1>4, CallEnds

LEMMA CrashKeeps ==
  ASSUME IInv, NEW p \in Procs, Crash(p)
  PROVE  IInv'
<1>1. /\ Return(p) /\ faults' \in 0..MaxFaults
      /\ UNCHANGED <<kind, soft, lapped, row, type, qos, fresh, specs, known>>
  BY FaultCounts DEF Crash, IInv
<1>2. /\ torn' \in SUBSET Ids /\ torn \subseteq torn'
      /\ \A i \in Ids : Calling(p, i) => i \in torn'
  BY CallOf DEF Crash, IInv, TypeOK, Calling
<1>3. /\ heap' \in [Procs -> [Ids -> Object]]
      /\ \A q \in Procs \ {p} : heap'[q] = heap[q]
      /\ \A j \in Ids : ~heap'[p][j].held /\ heap'[p][j].dirty = {}
  BY NoObjectIsObject DEF Crash, IInv, TypeOK
<1>4. TypeOK' /\ OnlyBy(p)
  BY <1>1, <1>2, <1>3, Returning DEF IInv, TypeOK, OnlyBy
<1>5. \A i \in Ids : LetsGo(p, i)
  BY <1>3 DEF LetsGo
<1> QED BY <1>1, <1>2, <1>4, <1>5, CallEnds

LEMMA StutterKeeps ==
  ASSUME IInv, UNCHANGED vars
  PROVE  IInv'
BY DEF vars, IInv, TypeOK, VolumeInv, LiveKnown, HeldByCallers, DirtyHeld, Unshared,
   IdIsNew, Inserts, SoftKeeps, DeletesGoOn, InsertsAlone, Prepared, WholeVolume,
   PlainHasNoType, HardRows, TypeAccounted, Accounts, In, Calling, Live

-----------------------------------------------------------------------------
(* The invariant of the specification.                                       *)

LEMMA InitIInv == Init => IInv
<1> SUFFICES ASSUME Init PROVE IInv
  OBVIOUS
<1>1. \A p \in Procs, i \in Ids :
        /\ ~Calling(p, i)
        /\ ~Live(i)
        /\ heap[p][i].dirty = {}
        /\ ~heap[p][i].held
  BY DEF Init, Calling, Live, NoObject
<1>2. \A i \in Ids : ~Live(i) /\ row[i].state = "none" /\ type[i] = "none" /\ i \notin known
  BY DEF Init, Live
<1>3. TypeOK
  <2>1. NoData \in Data
    BY DBAssumption DEF NoData
  <2> QED BY <2>1, NoObjectIsObject, DBAssumption DEF Init, TypeOK, Row, Kinds
<1> QED BY <1>1, <1>2, <1>3
  DEF IInv, VolumeInv, LiveKnown, HeldByCallers, DirtyHeld, Unshared, IdIsNew, Inserts,
      SoftKeeps, DeletesGoOn, InsertsAlone, Prepared, WholeVolume, PlainHasNoType,
      HardRows, TypeAccounted, In

LEMMA NextIInv == IInv /\ [Next]_vars => IInv'
<1> SUFFICES ASSUME IInv, [Next]_vars PROVE IInv'
  OBVIOUS
<1>1. CASE UNCHANGED vars
  BY <1>1, StutterKeeps
<1>2. CASE Next
  <2>1. PICK p \in Procs : Client(p) \/ StepOf(p) \/ StoreRaises(p) \/ Crash(p)
    BY <1>2 DEF Next
  <2>2. CASE Client(p)
    BY <2>2, NewKeeps, ChangeKeeps, LoadKeeps, GetKeeps, StartSaveKeeps,
       StartDeleteKeeps DEF Client
  <2>3. CASE StepOf(p)
    BY <2>3, QosKeeps, CreateTypeKeeps, WriteKeeps, RowExistsKeeps, DeleteKeeps,
       FinishKeeps, RefusedKeeps DEF StepOf
  <2> QED BY <2>1, <2>2, <2>3, StoreRaisesKeeps, CrashKeeps
<1> QED BY <1>1, <1>2

LEMMA Invariant == Spec => []IInv
BY InitIInv, NextIInv, PTL DEF Spec

(* Every variable keeps its type: the tables hold rows, and each process is  *)
(* idle or at a step of a call for one volume (DBPersistence,                *)
(* dbms.py:36-347).                                                          *)
THEOREM DBStoreTyped == Spec => []TypeOK
<1>1. IInv => TypeOK
  BY DEF IInv
<1> QED BY <1>1, Invariant, PTL

(* Every recorded volume has its type with the extra specs, for any number   *)
(* of processes and volumes, and however often the database fails between    *)
(* the transactions (dbms.py:177-228, 283-317), unless a create or a restore *)
(* of the volume overlapped with another call on it.                         *)
THEOREM VolumesAreWhole == Spec => []WholeVolumes
<1>1. IInv => WholeVolumes
  BY DEF IInv, VolumeInv, WholeVolume, WholeVolumes
<1> QED BY <1>1, Invariant, PTL

(* Once nobody works on a volume that is gone, a hard delete has left no     *)
(* type behind, unless a fault cut a call short (dbms.py:283-307): for any   *)
(* number of processes, and any interleaving of restores and deletes.        *)
THEOREM HardDeletesLeaveNoTypes == Spec => []NoOrphanTypes
<1>1. IInv => NoOrphanTypes
  BY DEF IInv, VolumeInv, TypeAccounted, NoOrphanTypes, Accounts, In, Calling, Busy
<1> QED BY <1>1, Invariant, PTL

-----------------------------------------------------------------------------
(* A deleted volume is not brought back by a save of changes.                *)

LEMMA RowsUnchanged ==
  ASSUME IInv, NEW p \in Procs,
         Client(p) \/ StepOf(p) \/ StoreRaises(p) \/ Crash(p),
         ~CreateRow(p), ~UpdateRow(p), ~DeleteRow(p), ~DeleteType(p)
  PROVE  row' = row
<1>1. Client(p) => row' = row
  BY DEF Client, New, Change, Load, Get, StartSave, StartDelete, Start
<1>2. StepOf(p) => row' = row
  BY DEF StepOf, CreateQos, ReplaceQosId, CreateType, RowExists, DeleteSpecs, DeleteQos,
         Finish, Refused
<1> QED BY <1>1, <1>2 DEF StoreRaises, Crash

LEMMA OnlyCreateRevives ==
  ASSUME IInv, NEW p \in Procs, NEW i \in Ids, ~Live(i), Live(i)',
         Client(p) \/ StepOf(p) \/ StoreRaises(p) \/ Crash(p)
  PROVE  CreateRow(p) /\ Calling(p, i) /\ call[p].op = "save" /\ call[p].pc = "row"
<1>1. row' # row
  BY DEF Live
<1>2. CASE DeleteRow(p) \/ DeleteType(p)
  <2>1. PICK j \in Ids : Calling(p, j)
    BY <1>2, CallOf DEF DeleteRow, DeleteType, At, IInv, Calling
  <2>2. Destroyed(j)
    BY <1>1, <1>2, <2>1 DEF DeleteRow, DeleteType, Calling
  <2>3. row'[i] = row[i] \/ ~Live(i)'
    BY <2>2, Destroying
  <2> QED BY <2>3 DEF Live
<1>3. CASE CreateRow(p) \/ UpdateRow(p)
  <2>1. PICK j \in Ids :
          /\ Calling(p, j) /\ call[p].op = "save" /\ GoTo(p, "reset") /\ Write(p)
          /\ UNCHANGED <<kind, soft, lapped, type, qos, fresh, specs, heap, torn, faults>>
          /\ \/ CreateRow(p) /\ call[p].pc = "row" /\ row[j].state = "none"
                /\ known' = known \cup {j}
             \/ UpdateRow(p) /\ call[p].pc = "update" /\ Live(j) /\ known' = known
    BY <1>3, WritesRow
  <2>2. \A k \in Ids \ {j} : row'[k] = row[k]
    BY <2>1, Writing
  <2>3. j = i
    BY <2>2 DEF Live
  <2> QED BY <2>1, <2>3
<1> QED BY <1>1, <1>2, <1>3, RowsUnchanged

(* A volume that some process deleted comes back only by the save of an      *)
(* object without changes, or by the creator that a fault kept from hearing  *)
(* that its volume was recorded (dbms.py:177-180, 216-227): never by the     *)
(* save of changes, whatever the interleaving.                               *)
THEOREM OnlyRestoresReviveHolds == Spec => OnlyRestoresRevive
<1>1. ASSUME IInv, [Next]_vars, NEW i \in Ids, i \in known, ~Live(i), Live(i)'
      PROVE  \E p \in Procs : /\ call[p] # Idle /\ call[p].id = i
                              /\ \/ heap[p][i].dirty = {}
                                 \/ "id" \in heap[p][i].dirty /\ i \in torn
  <2>1. ~UNCHANGED vars
    BY <1>1 DEF vars, Live
  <2>2. PICK p \in Procs : Client(p) \/ StepOf(p) \/ StoreRaises(p) \/ Crash(p)
    BY <1>1, <2>1 DEF Next
  <2>3. Calling(p, i) /\ call[p].op = "save" /\ call[p].pc = "row"
    BY <1>1, <2>2, OnlyCreateRevives
  <2>4. Whole(heap[p][i])
    BY <1>1, <2>3 DEF IInv, VolumeInv, Inserts, Before
  <2>5. "id" \in heap[p][i].dirty => i \in torn
    BY <1>1, <2>3 DEF IInv, VolumeInv, IdIsNew
  <2> QED BY <2>3, <2>4, <2>5 DEF Calling, Whole
<1>2. IInv /\ [Next]_vars =>
        \A i \in Ids : i \in known /\ ~Live(i) /\ Live(i)' =>
          \E p \in Procs : /\ call[p] # Idle /\ call[p].id = i
                           /\ \/ heap[p][i].dirty = {}
                              \/ "id" \in heap[p][i].dirty /\ i \in torn
  BY <1>1
<1> QED BY <1>2, Invariant, PTL DEF Spec, OnlyRestoresRevive

-----------------------------------------------------------------------------
(* The plugin implements the metadata store.                                 *)

LEMMA FoundIs ==
  ASSUME NEW i \in Ids
  PROVE  Found(i) = IF Live(i) THEN Store!Volume(row[i].data) ELSE Store!Nothing
BY DEF Found, Store!Volume, Store!Nothing

LEMMA SameFound ==
  ASSUME \A i \in Ids : row'[i] = row[i] \/ (~Live(i) /\ ~Live(i)')
  PROVE  [i \in Ids |-> Found(i)]' = [i \in Ids |-> Found(i)]
<1> SUFFICES ASSUME NEW i \in Ids PROVE Found(i)' = Found(i)
  OBVIOUS
<1>1. (Live(i)' <=> Live(i)) /\ (Live(i) => row'[i] = row[i])
  BY DEF Live
<1> QED BY <1>1 DEF Found

LEMMA AskedIdle ==
  ASSUME NEW p \in Procs, call[p] = Idle
  PROVE  Asked(p) = Store!NoRequest
BY DEF Asked, Store!NoRequest

LEMMA OthersAsked ==
  ASSUME NEW p \in Procs, OnlyBy(p)
  PROVE  \A q \in Procs \ {p} : Asked(q)' = Asked(q)
BY DEF OnlyBy, Asked

(* What a request becomes when it takes effect.                              *)
LEMMA SaveDone ==
  ASSUME NEW i, NEW d, NEW c, NEW b \in BOOLEAN
  PROVE  Store!Done([op |-> "save", id |-> i, data |-> d, create |-> c, done |-> b])
           = [op |-> "save", id |-> i, data |-> d, create |-> c, done |-> TRUE]
<1> DEFINE R == [op : {"save"}, id : {i}, data : {d}, create : {c}, done : BOOLEAN]
           r == [op |-> "save", id |-> i, data |-> d, create |-> c, done |-> b]
<1>1. r \in R /\ r.id = i /\ r.data = d /\ r.create = c
  OBVIOUS
<1> HIDE DEF r
<1>2. Store!Done(r) \in R /\ Store!Done(r).done = TRUE
  BY <1>1 DEF Store!Done
<1>3. Store!Done(r) = [op |-> "save", id |-> i, data |-> d, create |-> c, done |-> TRUE]
  BY <1>2
<1> QED BY <1>3 DEF r

LEMMA DeleteDone ==
  ASSUME NEW i, NEW b \in BOOLEAN
  PROVE  Store!Done([op |-> "delete", id |-> i, done |-> b])
           = [op |-> "delete", id |-> i, done |-> TRUE]
<1> DEFINE R == [op : {"delete"}, id : {i}, done : BOOLEAN]
           r == [op |-> "delete", id |-> i, done |-> b]
<1>1. r \in R
  OBVIOUS
<1> HIDE DEF r
<1>2. Store!Done(r) \in R /\ Store!Done(r).done = TRUE
  BY <1>1 DEF Store!Done
<1>3. Store!Done(r) = [op |-> "delete", id |-> i, done |-> TRUE]
  BY <1>2
<1> QED BY <1>3 DEF r

(* What a process in a call asks, by the fields the store looks at.          *)
LEMMA AskedSave ==
  ASSUME TypeOK, NEW p \in Procs, NEW i \in Ids, Calling(p, i), call[p].op = "save"
  PROVE  /\ Asked(p) = [op |-> "save", id |-> i, data |-> heap[p][i].data,
                        create |-> call[p].insert, done |-> call[p].pc = "reset"]
         /\ Asked(p) \in Store!Request /\ Asked(p) # Store!NoRequest
<1> DEFINE done == call[p].pc = "reset"
<1>1. done \in BOOLEAN /\ call[p].insert \in BOOLEAN
  BY CallOf DEF Calling
<1>2. heap[p][i].data \in Data
  BY DEF TypeOK, Object
<1>3. Asked(p) = [op |-> "save", id |-> i, data |-> heap[p][i].data,
                  create |-> call[p].insert, done |-> done]
  BY DEF Asked, Calling
<1> HIDE DEF done
<1>4. Asked(p).op = "save" /\ Asked(p) \in Store!Request
  BY <1>1, <1>2, <1>3 DEF Store!Request
<1>5. Asked(p) # Store!NoRequest
  BY <1>4 DEF Store!NoRequest
<1> QED BY <1>3, <1>4, <1>5 DEF done

LEMMA AskedDelete ==
  ASSUME TypeOK, NEW p \in Procs, NEW i \in Ids, Calling(p, i), call[p].op = "delete"
  PROVE  /\ Asked(p) = [op |-> "delete", id |-> i, done |-> call[p].pc # "row"]
         /\ Asked(p) \in Store!Request /\ Asked(p) # Store!NoRequest
<1> DEFINE done == call[p].pc # "row"
<1>1. done \in BOOLEAN
  OBVIOUS
<1>2. Asked(p) = [op |-> "delete", id |-> i, done |-> done]
  BY DEF Asked, Calling
<1> HIDE DEF done
<1>3. [op |-> "delete", id |-> i, done |-> done] \in [op : {"delete"}, id : Ids, done : BOOLEAN]
  BY <1>1
<1>4. Asked(p).op = "delete" /\ Asked(p) \in Store!Request
  BY <1>2, <1>3 DEF Store!Request
<1>5. Asked(p) # Store!NoRequest
  BY <1>4 DEF Store!NoRequest
<1> QED BY <1>2, <1>4, <1>5 DEF done

LEMMA AskedIsRequest ==
  ASSUME TypeOK, NEW p \in Procs, call[p] # Idle
  PROVE  Asked(p) \in Store!Request /\ Asked(p) # Store!NoRequest
<1>1. PICK i \in Ids : Calling(p, i)
  BY CallOf DEF Calling
<1> QED BY <1>1, CallOf, AskedSave, AskedDelete

(* The start of a call is a request.                                         *)
LEMMA Asks ==
  ASSUME IInv, IInv', NEW p \in Procs, NEW i \in Ids, NEW op \in {"save", "delete"},
         NEW pc \in Steps, NEW insert \in BOOLEAN, Start(p, i, op, pc, insert),
         op = "delete" => pc = "row", op = "save" => pc # "reset"
  PROVE  Store!Ask(p)
<1>1. /\ \A q \in Procs \ {p} : call'[q] = call[q]
      /\ call'[p] # Idle
      /\ call'[p].op = op
      /\ call'[p].id = i
      /\ call'[p].pc = pc
      /\ call'[p].insert = insert
  BY Starting DEF IInv
<1>2. /\ heap' = heap /\ row' = row /\ call[p] = Idle
      /\ kind' = kind /\ soft' = soft /\ torn' = torn /\ lapped \subseteq lapped'
  BY DEF Start
<1>3. Asked(p) = Store!NoRequest
  BY <1>2, AskedIdle
<1>4. \A q \in Procs \ {p} : Asked(q)' = Asked(q)
  BY <1>1, <1>2, OthersAsked DEF OnlyBy
<1>5. Asked(p)' \in Store!Request
  <2>1. heap[p][i].data \in Data
    BY DEF IInv, TypeOK, Object
  <2>2. CASE op = "save"
    <3> DEFINE done == pc = "reset"
    <3>1. Asked(p)' = [op |-> "save", id |-> i, data |-> heap[p][i].data,
                       create |-> insert, done |-> done]
      BY <1>1, <1>2, <2>2 DEF Asked
    <3>2. done \in BOOLEAN
      OBVIOUS
    <3> HIDE DEF done
    <3> QED BY <2>1, <3>1, <3>2 DEF Store!Request
  <2>3. CASE op = "delete"
    <3>1. Asked(p)' = [op |-> "delete", id |-> i, done |-> FALSE]
      <4> DEFINE done == pc # "row"
      <4>1. Asked(p)' = [op |-> "delete", id |-> i, done |-> done]
        BY <1>1, <2>3 DEF Asked
      <4>2. done = FALSE
        BY <2>3
      <4> HIDE DEF done
      <4> QED BY <4>1, <4>2
    <3> QED BY <3>1 DEF Store!Request
  <2> QED BY <2>2, <2>3
<1>6. ~Asked(p)'.done
  BY <1>1 DEF Asked
<1>7. [j \in Ids |-> Found(j)]' = [j \in Ids |-> Found(j)]
  BY <1>2, SameFound
<1>8. [q \in Procs |-> Asked(q)]'
        = [[q \in Procs |-> Asked(q)] EXCEPT ![p] = Asked(p)']
  BY <1>4
<1> QED BY <1>3, <1>5, <1>6, <1>7, <1>8 DEF Store!Ask

(* The end of a call is an answer, whether it returns or raises.             *)
LEMMA Answers ==
  ASSUME IInv, NEW p \in Procs, call[p] # Idle, Return(p), OnlyBy(p), row' = row
  PROVE  Store!Answer(p)
<1>1. Asked(p) # Store!NoRequest
  BY AskedIsRequest DEF IInv
<1>2. Asked(p)' = Store!NoRequest
  BY Returning DEF IInv, Asked, Store!NoRequest
<1>3. \A q \in Procs \ {p} : Asked(q)' = Asked(q)
  BY OthersAsked
<1>4. [i \in Ids |-> Found(i)]' = [i \in Ids |-> Found(i)]
  BY SameFound
<1>5. [q \in Procs |-> Asked(q)]'
        = [[q \in Procs |-> Asked(q)] EXCEPT ![p] = Store!NoRequest]
  BY <1>2, <1>3
<1> QED BY <1>1, <1>4, <1>5 DEF Store!Answer

(* A call that goes on stays the request it was; it is done once it has      *)
(* written or deleted the row.                                               *)
LEMMA GoesOn ==
  ASSUME IInv, NEW p \in Procs, NEW i \in Ids, Calling(p, i), NEW pc \in Steps,
         GoTo(p, pc), UNCHANGED <<kind, soft, lapped, heap, torn>>
  PROVE  /\ \A q \in Procs \ {p} : Asked(q)' = Asked(q)
         /\ call[p].op = "save" /\ call[p].pc # "reset" =>
              Asked(p)' = IF pc = "reset" THEN Store!Done(Asked(p)) ELSE Asked(p)
         /\ call[p].op = "delete" /\ pc # "row" => Asked(p)' = Store!Done(Asked(p))
         /\ call[p].op = "delete" /\ pc # "row" /\ call[p].pc # "row" => Asked(p)' = Asked(p)
<1>1. /\ \A q \in Procs \ {p} : call'[q] = call[q]
      /\ call'[p] # Idle
      /\ call'[p].op = call[p].op
      /\ call'[p].id = i
      /\ call'[p].insert = call[p].insert
      /\ call'[p].pc = pc
  BY GoingOn DEF IInv, Calling
<1>2. \A q \in Procs \ {p} : Asked(q)' = Asked(q)
  BY <1>1, OthersAsked DEF OnlyBy
<1>3. ASSUME call[p].op = "save", call[p].pc # "reset"
      PROVE  Asked(p)' = IF pc = "reset" THEN Store!Done(Asked(p)) ELSE Asked(p)
  <2> DEFINE asking(b) == [op |-> "save", id |-> i, data |-> heap[p][i].data,
                           create |-> call[p].insert, done |-> b]
  <2>1. Asked(p) = asking(FALSE)
    BY <1>3 DEF Asked, Calling
  <2>2. Asked(p)' = asking(pc = "reset")
    BY <1>1, <1>3 DEF Asked
  <2>3. Store!Done(asking(FALSE)) = asking(TRUE)
    BY SaveDone
  <2> HIDE DEF asking
  <2>4. pc = "reset" => Asked(p)' = asking(TRUE)
    <3> SUFFICES ASSUME pc = "reset" PROVE Asked(p)' = asking(TRUE)
      OBVIOUS
    <3>1. (pc = "reset") = TRUE
      OBVIOUS
    <3> QED BY <2>2, <3>1
  <2>5. pc # "reset" => Asked(p)' = asking(FALSE)
    <3> SUFFICES ASSUME pc # "reset" PROVE Asked(p)' = asking(FALSE)
      OBVIOUS
    <3>1. (pc = "reset") = FALSE
      OBVIOUS
    <3> QED BY <2>2, <3>1
  <2> QED BY <2>1, <2>3, <2>4, <2>5
<1>4. ASSUME call[p].op = "delete", pc # "row"
      PROVE  /\ Asked(p)' = Store!Done(Asked(p))
             /\ call[p].pc # "row" => Asked(p)' = Asked(p)
  <2> DEFINE asking(b) == [op |-> "delete", id |-> i, done |-> b]
  <2>1. Asked(p) = asking(call[p].pc # "row")
    BY <1>4 DEF Asked, Calling
  <2>2. Asked(p)' = asking(pc # "row")
    BY <1>1, <1>4 DEF Asked
  <2>3. (pc # "row") = TRUE
    BY <1>4
  <2>4. Store!Done(asking(call[p].pc # "row")) = asking(TRUE)
    <3> DEFINE done == call[p].pc # "row"
    <3>1. done \in BOOLEAN
      OBVIOUS
    <3> HIDE DEF done
    <3>2. Store!Done(asking(done)) = asking(TRUE)
      BY <3>1, DeleteDone
    <3> QED BY <3>2 DEF done
  <2>5. call[p].pc # "row" => (call[p].pc # "row") = TRUE
    OBVIOUS
  <2> HIDE DEF asking
  <2> QED BY <2>1, <2>2, <2>3, <2>4, <2>5
<1> QED BY <1>2, <1>3, <1>4

(* The transaction that writes the row is the save.                          *)
LEMMA Saves ==
  ASSUME IInv, NEW p \in Procs, CreateRow(p) \/ UpdateRow(p)
  PROVE  Store!Save(p)
<1>1. PICK i \in Ids :
        /\ Calling(p, i) /\ call[p].op = "save" /\ GoTo(p, "reset") /\ Write(p)
        /\ UNCHANGED <<kind, soft, lapped, type, qos, fresh, specs, heap, torn, faults>>
        /\ \/ CreateRow(p) /\ call[p].pc = "row" /\ row[i].state = "none"
              /\ known' = known \cup {i}
           \/ UpdateRow(p) /\ call[p].pc = "update" /\ Live(i) /\ known' = known
  BY WritesRow
<1>2. /\ \A j \in Ids \ {i} : row'[j] = row[j]
      /\ row'[i] = [state |-> "live", data |-> heap[p][i].data]
  BY <1>1, Writing
<1> DEFINE done == call[p].pc = "reset"
<1>3. /\ Asked(p) = [op |-> "save", id |-> i, data |-> heap[p][i].data,
                     create |-> call[p].insert, done |-> done]
      /\ Asked(p) # Store!NoRequest
  BY <1>1, AskedSave DEF IInv
<1>4. done = FALSE
  BY <1>1
<1> HIDE DEF done
<1>5. /\ Asked(p).op = "save" /\ Asked(p).id = i /\ ~Asked(p).done
      /\ Asked(p).data = heap[p][i].data /\ Asked(p).create = call[p].insert
  BY <1>3, <1>4
<1>6. Asked(p).create \/ Found(i) # Store!Nothing
  <2>1. CASE call[p].pc = "row"
    BY <1>1, <1>5, <2>1 DEF IInv, VolumeInv, Inserts, Before
  <2>2. CASE Live(i)
    BY <2>2, FoundIs DEF Store!Volume, Store!Nothing
  <2> QED BY <1>1, <2>1, <2>2
<1>7. Found(i)' = Store!Volume(heap[p][i].data)
  BY <1>2 DEF Found, Live, Store!Volume
<1>8. \A j \in Ids \ {i} : Found(j)' = Found(j)
  BY <1>2 DEF Found, Live
<1>9. [j \in Ids |-> Found(j)]'
        = [[j \in Ids |-> Found(j)] EXCEPT ![i] = Store!Volume(heap[p][i].data)]
  BY <1>7, <1>8
<1>10. /\ Asked(p)' = Store!Done(Asked(p))
       /\ \A q \in Procs \ {p} : Asked(q)' = Asked(q)
  BY <1>1, GoesOn DEF Steps
<1>11. [q \in Procs |-> Asked(q)]'
         = [[q \in Procs |-> Asked(q)] EXCEPT ![p] = Store!Done(Asked(p))]
  BY <1>10
<1> QED BY <1>3, <1>5, <1>6, <1>9, <1>11 DEF Store!Save

(* The transaction that deletes the row is the delete.                       *)
LEMMA Deletes ==
  ASSUME IInv, NEW p \in Procs, DeleteRow(p)
  PROVE  Store!Delete(p)
<1>1. PICK i \in Ids, pc \in Steps \ {"row"} :
        /\ Calling(p, i) /\ call[p].op = "delete" /\ GoTo(p, pc)
        /\ UNCHANGED <<kind, soft, lapped, heap, torn>>
        /\ call[p].pc = "row" /\ Destroyed(i)
  <2>1. PICK i \in Ids : Calling(p, i)
    BY CallOf DEF DeleteRow, At, IInv, Calling
  <2> DEFINE next == IF soft THEN "type" ELSE "specs"
             pc == IF kind[i] # "plain" THEN next ELSE "reset"
  <2>2. /\ call[p].op = "delete" /\ GoTo(p, pc) /\ call[p].pc = "row" /\ Destroyed(i)
        /\ UNCHANGED <<kind, soft, lapped, heap, torn>>
    BY <2>1 DEF DeleteRow, Continue, Calling, At
  <2>3. pc \in Steps \ {"row"}
    BY DEF Steps
  <2> HIDE DEF next, pc
  <2> QED BY <2>1, <2>2, <2>3
<1>2. ~Live(i)' /\ \A j \in Ids \ {i} : row'[j] = row[j]
  BY <1>1, Destroying
<1> DEFINE done == call[p].pc # "row"
<1>3. Asked(p) = [op |-> "delete", id |-> i, done |-> done] /\ Asked(p) # Store!NoRequest
  BY <1>1, AskedDelete DEF IInv
<1>4. done = FALSE
  BY <1>1
<1> HIDE DEF done
<1>5. Asked(p).op = "delete" /\ Asked(p).id = i /\ ~Asked(p).done
  BY <1>3, <1>4
<1>6. Found(i)' = Store!Nothing
  BY <1>2 DEF Found, Store!Nothing
<1>7. \A j \in Ids \ {i} : Found(j)' = Found(j)
  BY <1>2 DEF Found, Live
<1>8. [j \in Ids |-> Found(j)]'
        = [[j \in Ids |-> Found(j)] EXCEPT ![i] = Store!Nothing]
  BY <1>6, <1>7
<1>9. /\ Asked(p)' = Store!Done(Asked(p))
      /\ \A q \in Procs \ {p} : Asked(q)' = Asked(q)
  BY <1>1, GoesOn
<1>10. [q \in Procs |-> Asked(q)]'
         = [[q \in Procs |-> Asked(q)] EXCEPT ![p] = Store!Done(Asked(p))]
  BY <1>9
<1> QED BY <1>3, <1>5, <1>8, <1>10 DEF Store!Delete

(* Steps that nobody sees.                                                   *)
LEMMA Hidden ==
  ASSUME \A i \in Ids : row'[i] = row[i] \/ (~Live(i) /\ ~Live(i)'),
         \A q \in Procs : Asked(q)' = Asked(q)
  PROVE  UNCHANGED Store!vars
BY SameFound DEF Store!vars

LEMMA HiddenSteps ==
  ASSUME IInv, NEW p \in Procs,
         \/ CreateQos(p) \/ ReplaceQosId(p) \/ CreateType(p) \/ RowExists(p)
         \/ DeleteSpecs(p) \/ DeleteType(p) \/ DeleteQos(p)
  PROVE  UNCHANGED Store!vars
<1>1. PICK i \in Ids : Calling(p, i)
  BY CallOf DEF CreateQos, ReplaceQosId, CreateType, RowExists, DeleteSpecs, DeleteType,
                DeleteQos, At, IInv, Calling
<1>2. CASE CreateQos(p) \/ ReplaceQosId(p) \/ CreateType(p) \/ RowExists(p)
  <2>1. PICK pc \in Steps : GoTo(p, pc) /\ pc # "reset"
    BY <1>2 DEF CreateQos, ReplaceQosId, CreateType, RowExists, Steps
  <2>2. /\ call[p].op = "save" /\ call[p].pc # "reset"
        /\ UNCHANGED <<kind, soft, lapped, heap, torn, row>>
    BY <1>2 DEF CreateQos, ReplaceQosId, CreateType, RowExists, At
  <2> QED BY <1>1, <2>1, <2>2, GoesOn, Hidden
<1>3. CASE DeleteSpecs(p) \/ DeleteType(p) \/ DeleteQos(p)
  <2>1. PICK j \in Ids, pc \in Steps \ {"row"} :
          /\ Calling(p, j) /\ call[p].op = "delete" /\ call[p].pc # "row" /\ GoTo(p, pc)
          /\ UNCHANGED <<kind, soft, lapped, heap, torn>>
          /\ row' = row \/ (soft /\ Destroyed(j))
    BY <1>3, DeletesOf DEF DeleteRow, DeleteSpecs, DeleteType, DeleteQos, At
  <2>2. \A q \in Procs : Asked(q)' = Asked(q)
    BY <2>1, GoesOn
  <2>3. soft => ~Live(j)
    BY <2>1 DEF IInv, VolumeInv, DeletesGoOn
  <2>4. \A k \in Ids : row'[k] = row[k] \/ (~Live(k) /\ ~Live(k)')
    BY <2>1, <2>3, Destroying
  <2> QED BY <2>2, <2>4, Hidden
<1> QED BY <1>2, <1>3

LEMMA StepMaps ==
  ASSUME IInv, IInv', NEW p \in Procs,
         Client(p) \/ StepOf(p) \/ StoreRaises(p) \/ Crash(p)
  PROVE  [Store!Next]_(Store!vars)
<1>1. Store!Ask(p) \/ Store!Save(p) \/ Store!Delete(p) \/ Store!Answer(p)
        => Store!Next
  BY DEF Store!Next
<1>2. CASE Client(p)
  <2>1. PICK i \in Ids :
          \/ StartSave(p, i) \/ StartDelete(p, i)
          \/ \/ Get(p, i)
             \/ \E d \in Data : New(p, i, d) \/ Change(p, i, d)
             \/ \E d \in Data, linked \in BOOLEAN : Load(p, i, d, linked)
    BY <1>2 DEF Client
  <2>2. CASE \/ Get(p, i)
             \/ \E d \in Data : New(p, i, d) \/ Change(p, i, d)
             \/ \E d \in Data, linked \in BOOLEAN : Load(p, i, d, linked)
    <3>1. call' = call /\ row' = row /\ call[p] = Idle
      BY <2>2 DEF New, Change, Load, Get
    <3>2. PICK object : Holds(p, i, object)
      BY <2>2 DEF New, Change, Load, Get
    <3>3. \A q \in Procs \ {p} : heap'[q] = heap[q]
      BY <3>2 DEF Holds, IInv, TypeOK
    <3>4. \A q \in Procs : Asked(q)' = Asked(q)
      BY <3>1, <3>3 DEF Asked
    <3> QED BY <3>1, <3>4, Hidden
  <2>3. CASE StartSave(p, i)
    <3>1. PICK pc \in Steps, insert \in BOOLEAN :
            Start(p, i, "save", pc, insert) /\ pc # "reset"
      BY <2>3, SavePc DEF IInv
    <3> QED BY <3>1, <1>1, Asks
  <2>4. CASE StartDelete(p, i)
    <3>1. Start(p, i, "delete", "row", FALSE) /\ "row" \in Steps
      BY <2>4 DEF StartDelete, Steps
    <3> QED BY <3>1, <1>1, Asks
  <2> QED BY <2>1, <2>2, <2>3, <2>4
<1>3. CASE CreateRow(p) \/ UpdateRow(p) \/ DeleteRow(p)
  BY <1>1, <1>3, Saves, Deletes
<1>4. CASE \/ CreateQos(p) \/ ReplaceQosId(p) \/ CreateType(p) \/ RowExists(p)
           \/ DeleteSpecs(p) \/ DeleteType(p) \/ DeleteQos(p)
  BY <1>4, HiddenSteps
<1>5. CASE Finish(p)
  <2>1. PICK i \in Ids, object \in Object :
          /\ Calling(p, i) /\ call[p].pc = "reset" /\ Return(p)
          /\ Holds(p, i, object)
          /\ UNCHANGED <<kind, soft, lapped, row, type, qos, fresh, specs, known, torn, faults>>
    BY <1>5, Finishing
  <2>2. OnlyBy(p)
    BY <2>1, Holding, Returning DEF IInv, OnlyBy
  <2> QED BY <2>1, <2>2, <1>1, Answers DEF Calling
<1>6. CASE Refused(p) \/ StoreRaises(p) \/ Crash(p)
  <2>1. Return(p) /\ row' = row
    BY <1>6 DEF Refused, StoreRaises, Crash
  <2>2. kind' = kind /\ soft' = soft /\ torn \subseteq torn' /\ lapped' = lapped
    BY <1>6 DEF Refused, StoreRaises, Crash
  <2>3. \A q \in Procs \ {p} : heap'[q] = heap[q]
    BY <1>6 DEF Refused, StoreRaises, Crash, IInv, TypeOK
  <2>4. OnlyBy(p) /\ call'[p] = Idle
    BY <2>1, <2>2, <2>3, Returning DEF IInv, OnlyBy
  <2>5. CASE call[p] # Idle
    BY <2>1, <2>4, <2>5, <1>1, Answers
  <2>6. CASE call[p] = Idle
    <3>1. Asked(p)' = Asked(p)
      BY <2>4, <2>6 DEF Asked
    <3>2. \A q \in Procs : Asked(q)' = Asked(q)
      BY <3>1, <2>4, OthersAsked
    <3> QED BY <3>2, <2>1, Hidden
  <2> QED BY <2>5, <2>6
<1> QED BY <1>2, <1>3, <1>4, <1>5, <1>6 DEF StepOf

(* The database plugin is a metadata store: set_volume and delete_volume     *)
(* (dbms.py:177-228, 283-317) change the recorded volume at one instant, as  *)
(* a whole or not at all, whether they return or raise, for any number of    *)
(* processes, volumes and faults, and any interleaving of their calls.       *)
THEOREM DBImplementsStore == Spec => ImplementsStore
<1>1. Init => Store!Init
  <2> SUFFICES ASSUME Init PROVE Store!Init
    OBVIOUS
  <2>1. \A i \in Ids : Found(i) = Store!Nothing
    BY DEF Init, Found, Live, Store!Nothing
  <2>2. \A p \in Procs : Asked(p) = Store!NoRequest
    BY AskedIdle DEF Init
  <2> QED BY <2>1, <2>2 DEF Store!Init
<1>2. IInv /\ IInv' /\ [Next]_vars => [Store!Next]_(Store!vars)
  <2> SUFFICES ASSUME IInv, IInv', [Next]_vars
               PROVE  [Store!Next]_(Store!vars)
    OBVIOUS
  <2>1. CASE UNCHANGED vars
    <3>1. \A p \in Procs : Asked(p)' = Asked(p)
      BY <2>1 DEF vars, Asked
    <3>2. \A i \in Ids : Found(i)' = Found(i)
      BY <2>1 DEF vars, Found, Live
    <3> QED BY <3>1, <3>2 DEF Store!vars
  <2>2. CASE Next
    <3>1. PICK p \in Procs : Client(p) \/ StepOf(p) \/ StoreRaises(p) \/ Crash(p)
      BY <2>2 DEF Next
    <3> QED BY <3>1, StepMaps
  <2> QED BY <2>1, <2>2
<1> QED BY <1>1, <1>2, Invariant, PTL DEF Spec, ImplementsStore, Store!Spec
=============================================================================
