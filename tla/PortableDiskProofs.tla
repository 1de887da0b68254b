------------------------- MODULE PortableDiskProofs -------------------------
(***************************************************************************)
(* PortableDisk keeps disks and identities apart that do not belong to     *)
(* each other, and implements GuestDisk, for every set of images, every    *)
(* number of disks and every number of failures and interruptions.         *)
(***************************************************************************)
EXTENDS PortableDisk, TLAPS

Creating  == {"overlay", "ident", "publish"}
Replacing == {"move", "undo"}

Matched(pair) ==
  pair.disk # None => /\ pair.ident # None => pair.disk.base = pair.ident
                      /\ pair.disk.capacity \in {0, Capacity(pair.disk.base)}

Paired == \A pair \in {final, staged, retained} \cup kept : Matched(pair)

(* What preparePortableDisk has done so far at the place it works in.      *)
Preparing ==
  /\ pc \in {"off", "prepare"} => staged = NoPair
  /\ target = "staged" /\ pc \notin {"off", "prepare"} => fresh
  /\ target = "staged" /\ pc \in {"match"} \cup Creating => final # NoPair
  /\ target = "final" \/ pc = "match" => staged = NoPair
  /\ pc \in Creating => Place.disk = None
  /\ pc = "publish" => Place.ident = factory
  /\ pc \in {"ident", "publish", "retire"} \cup Replacing => created \in Ids
  /\ pc \in {"retire"} \cup Replacing => target = "staged" /\ fresh
  /\ pc = "retire" => final # NoPair /\ staged = [disk |-> NewDisk, ident |-> factory]
  /\ pc \notin Replacing \cup {"boot"} => retained = NoPair
  /\ pc = "boot" => final.disk # None /\ final.disk.base = factory

(* The renames of a reset: what exists of the old pair, then the new one.  *)
IsPlan(p) ==
  /\ Len(p) \in {3, 4}
  /\ p[Len(p) - 1] = "newIdent" /\ p[Len(p)] = "newDisk"
  /\ Len(p) = 4 => p[1] = "oldDisk" /\ p[2] = "oldIdent"
  /\ Len(p) = 3 => p[1] \in {"oldDisk", "oldIdent"}

Planned(old) ==
  /\ old.disk # None <=> plan[1] = "oldDisk"
  /\ Len(plan) = 3 => (old.ident # None <=> plan[1] = "oldIdent")

(* Where the two pairs are after so many renames of a reset. *)
Halfway ==
  pc \in Replacing =>
    /\ IsPlan(plan)
    /\ IF step = 0 THEN Planned(final) ELSE Planned(retained)
    /\ step = 0 => retained = NoPair /\ (Len(plan) = 4 => final.ident # None)
    /\ step = 1 /\ Len(plan) = 4 => /\ final.disk = None /\ final.ident = retained.disk.base
                                   /\ retained.ident = None
    /\ step >= 2 /\ Len(plan) = 4 => retained.ident # None
    /\ step = Len(plan) - 2 => final = [disk |-> None, ident |-> None]
    /\ step < Len(plan) - 1 => staged = [disk |-> NewDisk, ident |-> factory]
    /\ step = Len(plan) - 1 => /\ staged = [disk |-> NewDisk, ident |-> None]
                               /\ final = [disk |-> None, ident |-> factory]
    /\ step = Len(plan) => /\ staged = [disk |-> None, ident |-> None]
                           /\ final = [disk |-> NewDisk, ident |-> factory]
    /\ pc = "undo" => step < Len(plan)

(* The disk being made has a number no other disk has had.                 *)
Old(id) == IF pc \in {"ident", "publish", "retire", "undo"} \/ (pc = "move" /\ step < Len(plan))
           THEN id < created ELSE id <= created
Numbers ==
  /\ \A id \in booted : Old(id)
  /\ \A pair \in kept \cup {retained} : pair.disk # None => Old(pair.disk.id)
  /\ final.disk # None => Old(final.disk.id)
  /\ pc = "move" /\ step = Len(plan) =>
       /\ \A id \in booted : id < created
       /\ \A pair \in kept \cup {retained} : pair.disk # None => pair.disk.id < created

Inv == TypeOK /\ Paired /\ Preparing /\ Halfway /\ Numbers

-----------------------------------------------------------------------------
(* A pair is its two files. *)
LEMMA Fields ==
  ASSUME NEW pair \in Pair
  PROVE  /\ pair = [disk |-> pair.disk, ident |-> pair.ident]
         /\ pair.disk \in Disk \cup {None} /\ pair.ident \in Images \cup {None}
         /\ \A d : [pair EXCEPT !.disk = d] = [disk |-> d, ident |-> pair.ident]
         /\ \A i : [pair EXCEPT !.ident = i] = [disk |-> pair.disk, ident |-> i]
<1>1. pair \in [disk: Disk \cup {None}, ident: Images \cup {None}]
  BY DEF Pair
<1> QED
  BY <1>1

(* A disk and its identity make a pair.                                    *)
LEMMA PairOf ==
  ASSUME NEW d \in Disk \cup {None}, NEW i \in Images \cup {None}
  PROVE  [disk |-> d, ident |-> i] \in Pair
BY DEF Pair

(* The pair that is not there.                                             *)
LEMMA NoPairIsPair == /\ NoPair \in Pair /\ NoPair.disk = None /\ NoPair.ident = None
                      /\ NoPair = [disk |-> None, ident |-> None]
BY PairOf DEF NoPair

(* The fields of a disk.                                                   *)
LEMMA DiskFields ==
  ASSUME NEW d \in Disk
  PROVE  d # None /\ d.id \in Ids /\ d.base \in Images
BY PortableAssumption DEF Disk

(* The disk preparePortableDisk makes. *)
LEMMA Made ==
  ASSUME created \in Ids, factory \in Images
  PROVE  /\ NewDisk \in Disk /\ NewDisk # None /\ NewDisk.id = created /\ NewDisk.base = factory
         /\ NewDisk.capacity = Capacity(factory)
<1>1. Capacity(factory) \in 0 .. 2
  BY DEF Capacity
<1>2. NewDisk \in Disk
  BY <1>1 DEF NewDisk, Disk
<1> QED
  BY <1>2, DiskFields DEF NewDisk

(* A disk whose header was damaged is still the same disk. *)
LEMMA Damaged ==
  ASSUME NEW pair \in Pair, pair.disk # None, NEW p, p = [pair EXCEPT !.disk.capacity = 0]
  PROVE  /\ p \in Pair /\ p.ident = pair.ident /\ p.disk # None
         /\ p.disk.id = pair.disk.id /\ p.disk.base = pair.disk.base /\ p.disk.capacity = 0
<1>1. pair.disk \in [id: Ids, base: Images, capacity: 0 .. 2]
  BY Fields DEF Disk
<1> DEFINE d == [pair.disk EXCEPT !.capacity = 0]
<1>2. d = [id |-> pair.disk.id, base |-> pair.disk.base, capacity |-> 0]
  BY <1>1
<1>3. d \in Disk /\ d.id = pair.disk.id /\ d.base = pair.disk.base /\ d.capacity = 0
  BY <1>1, <1>2 DEF Disk
<1>4. p = [disk |-> d, ident |-> pair.ident]
  <2>1. pair \in [disk: Disk \cup {None}, ident: Images \cup {None}]
    BY DEF Pair
  <2> QED
    BY <2>1
<1> HIDE DEF d
<1> QED
  BY <1>3, <1>4, Fields, PairOf, DiskFields

(* A reset's plan when it begins. *)
LEMMA PlanOf ==
  ASSUME NEW a \in BOOLEAN, NEW b \in BOOLEAN, a \/ b, NEW p,
         p = (IF a THEN <<"oldDisk">> ELSE <<>>) \o (IF b THEN <<"oldIdent">> ELSE <<>>)
             \o <<"newIdent", "newDisk">>
  PROVE  /\ p \in Seq(Moves) /\ IsPlan(p)
         /\ a <=> p[1] = "oldDisk"
         /\ Len(p) = 3 => (b <=> p[1] = "oldIdent")
         /\ Len(p) = 4 => b
<1> DEFINE x == IF a THEN <<"oldDisk">> ELSE <<>>
           y == IF b THEN <<"oldIdent">> ELSE <<>>
           z == <<"newIdent", "newDisk">>
<1>1. x \in Seq(Moves) /\ y \in Seq(Moves) /\ z \in Seq(Moves)
  <2>1. /\ <<"oldDisk">> \in Seq(Moves) /\ <<"oldIdent">> \in Seq(Moves)
        /\ <<>> \in Seq(Moves) /\ z \in Seq(Moves)
    BY DEF Moves
  <2> QED
    BY <2>1
<1>2. p = (x \o y) \o z
  OBVIOUS
<1>3. /\ IF a THEN Len(x) = 1 /\ x[1] = "oldDisk" ELSE Len(x) = 0
      /\ IF b THEN Len(y) = 1 /\ y[1] = "oldIdent" ELSE Len(y) = 0
      /\ Len(z) = 2 /\ z[1] = "newIdent" /\ z[2] = "newDisk"
  OBVIOUS
<1> HIDE DEF x, y, z
<1>4. x \o y \in Seq(Moves) /\ (x \o y) \o z \in Seq(Moves)
  BY <1>1
<1>5. Len(p) = Len(x) + Len(y) + 2
  BY <1>1, <1>2, <1>3
<1>6. p[Len(p) - 1] = "newIdent" /\ p[Len(p)] = "newDisk"
  BY <1>1, <1>2, <1>3, <1>5
<1>7. /\ a => p[1] = "oldDisk"
      /\ a /\ b => p[2] = "oldIdent"
      /\ b /\ ~a => p[1] = "oldIdent"
  BY <1>1, <1>2, <1>3, <1>5
<1> QED
  BY <1>2, <1>3, <1>4, <1>5, <1>6, <1>7 DEF IsPlan

(* Every action keeps the invariant; one step per action, one leaf per     *)
(* part of it.                                                             *)
LEMMA Step ==
  ASSUME Inv, [Next]_vars
  PROVE  Inv'
<1> USE PortableAssumption DEF Inv
<1>1. CASE ReplacePayload
  <2>1. TypeOK'
    BY <1>1 DEF TypeOK, ReplacePayload, pairs
  <2>2. Paired'
    BY <1>1 DEF Paired, ReplacePayload, pairs
  <2>3. Preparing'
    BY <1>1 DEF Preparing, Creating, ReplacePayload, pairs
  <2>4. Halfway'
    BY <1>1 DEF Halfway, Replacing, ReplacePayload
  <2>5. Numbers'
    BY <1>1 DEF Numbers, Old, ReplacePayload, pairs
  <2> QED
    BY <2>1, <2>2, <2>3, <2>4, <2>5
<1>2. ASSUME NEW f \in BOOLEAN, Launch(f) PROVE Inv'
  <2>1. TypeOK'
    BY <1>2 DEF TypeOK, Launch, pairs
  <2>2. Paired'
    BY <1>2 DEF Paired, Launch, pairs
  <2>3. Preparing'
    BY <1>2 DEF Preparing, Creating, Replacing, Launch, pairs
  <2>4. Halfway'
    BY <1>2 DEF Halfway, Replacing, Launch
  <2>5. Numbers'
    BY <1>2 DEF Numbers, Old, Launch, pairs
  <2> QED
    BY <2>1, <2>2, <2>3, <2>4, <2>5
<1>3. CASE Shutdown
  <2>1. TypeOK'
    BY <1>3, NoPairIsPair DEF TypeOK, Shutdown, Leave, Shelve
  <2>2. Paired'
    BY <1>3, NoPairIsPair DEF Paired, Matched, Shutdown, Leave, Shelve
  <2>3. Preparing'
    BY <1>3 DEF Preparing, Creating, Replacing, Shutdown, Leave
  <2>4. Halfway'
    BY <1>3 DEF Halfway, Replacing, Shutdown, Leave
  <2>5. Numbers'
    BY <1>3, NoPairIsPair DEF Numbers, Old, Shutdown, Leave, Shelve
  <2> QED
    BY <2>1, <2>2, <2>3, <2>4, <2>5
<1>4. CASE Unplug
  <2>0. final.disk # None
    BY <1>4 DEF Unplug, Preparing
  <2>6. /\ final' \in Pair /\ final'.ident = final.ident /\ final'.disk # None
        /\ final'.disk.id = final.disk.id /\ final'.disk.base = final.disk.base
        /\ final'.disk.capacity = 0
    BY <1>4, <2>0, Damaged DEF Unplug, TypeOK
  <2>1. TypeOK'
    BY <1>4, <2>6, NoPairIsPair DEF TypeOK, Unplug, Fault, Leave, Shelve
  <2>2. Paired'
    BY <1>4, <2>0, <2>6, NoPairIsPair DEF Paired, Matched, Unplug, Leave, Shelve
  <2>3. Preparing'
    BY <1>4 DEF Preparing, Creating, Replacing, Unplug, Leave
  <2>4. Halfway'
    BY <1>4 DEF Halfway, Replacing, Unplug, Leave
  <2>5. Numbers'
    BY <1>4, <2>0, <2>6, NoPairIsPair DEF Numbers, Old, Unplug, Leave, Shelve
  <2> QED
    BY <2>1, <2>2, <2>3, <2>4, <2>5
<1>5. CASE Stop
  <2>1. TypeOK'
    BY <1>5, NoPairIsPair DEF TypeOK, Stop, Fault, Leave, Shelve
  <2>2. Paired'
    BY <1>5, NoPairIsPair DEF Paired, Matched, Stop, Leave, Shelve
  <2>3. Preparing'
    BY <1>5 DEF Preparing, Creating, Replacing, Stop, Leave
  <2>4. Halfway'
    BY <1>5 DEF Halfway, Replacing, Stop, Leave
  <2>5. Numbers'
    BY <1>5, Fields, DiskFields DEF TypeOK, Numbers, Old, Preparing, Replacing, Ids, Stop, Leave, Shelve
  <2> QED
    BY <2>1, <2>2, <2>3, <2>4, <2>5
<1>6. CASE Crash
  <2>1. TypeOK'
    BY <1>6, NoPairIsPair DEF TypeOK, Crash, Fault, Leave, Shelve
  <2>2. Paired'
    BY <1>6, NoPairIsPair DEF Paired, Matched, Crash, Leave, Shelve
  <2>3. Preparing'
    BY <1>6 DEF Preparing, Creating, Replacing, Crash, Leave
  <2>4. Halfway'
    BY <1>6 DEF Halfway, Replacing, Crash, Leave
  <2>5. Numbers'
    BY <1>6, Fields, NoPairIsPair, DiskFields DEF TypeOK, Numbers, Old, Ids, Crash, Leave, Shelve
  <2> QED
    BY <2>1, <2>2, <2>3, <2>4, <2>5
<1>7. CASE Prepare
  <2>1. TypeOK'
    BY <1>7 DEF TypeOK, Prepare, pairs
  <2>2. Paired'
    BY <1>7 DEF Paired, Prepare, pairs
  <2>3. Preparing'
    BY <1>7 DEF Preparing, Creating, Replacing, Prepare, pairs
  <2>4. Halfway'
    BY <1>7 DEF Halfway, Replacing, Prepare
  <2>5. Numbers'
    BY <1>7 DEF Numbers, Old, Prepare, pairs
  <2> QED
    BY <2>1, <2>2, <2>3, <2>4, <2>5
<1>8. CASE UseDisk
  <2>0. target = "final" /\ final.disk # None /\ final.disk.base = factory
    <3>1. target = "final"
      BY <1>8, NoPairIsPair DEF UseDisk, Place, Preparing, TypeOK
    <3>2. final.disk # None /\ final.ident = factory
      BY <1>8, <3>1 DEF UseDisk, OverlayMatches, Place
    <3> QED
      BY <3>1, <3>2 DEF Paired, Matched, TypeOK
  <2>1. TypeOK'
    BY <1>8, <2>0, Fields, DiskFields DEF TypeOK, UseDisk, Place, pairs
  <2>2. Paired'
    BY <1>8 DEF Paired, UseDisk, pairs
  <2>3. Preparing'
    BY <1>8, <2>0 DEF Preparing, Creating, Replacing, UseDisk, pairs
  <2>4. Halfway'
    BY <1>8 DEF Halfway, Replacing, UseDisk
  <2>5. Numbers'
    BY <1>8, <2>0 DEF Numbers, Old, UseDisk, Place, pairs
  <2> QED
    BY <2>1, <2>2, <2>3, <2>4, <2>5
<1>9. CASE RefuseDisk
  <2>1. TypeOK'
    BY <1>9, NoPairIsPair DEF TypeOK, RefuseDisk, Leave, Shelve
  <2>2. Paired'
    BY <1>9, NoPairIsPair DEF Paired, Matched, RefuseDisk, Leave, Shelve
  <2>3. Preparing'
    BY <1>9 DEF Preparing, Creating, Replacing, RefuseDisk, Leave
  <2>4. Halfway'
    BY <1>9 DEF Halfway, Replacing, RefuseDisk, Leave
  <2>5. Numbers'
    BY <1>9 DEF Numbers, Old, Preparing, Replacing, RefuseDisk, Leave, Shelve
  <2> QED
    BY <2>1, <2>2, <2>3, <2>4, <2>5
<1>10. CASE QuarantineDisk
  <2>1. TypeOK'
    BY <1>10, Fields, PairOf DEF TypeOK, QuarantineDisk, Put, Place, Shelve
  <2>2. Paired'
    BY <1>10, Fields DEF TypeOK, Paired, Matched, QuarantineDisk, Put, Place, Shelve
  <2>3. Preparing'
    BY <1>10, Fields DEF TypeOK, Preparing, Replacing, QuarantineDisk, Put, Place
  <2>4. Halfway'
    BY <1>10 DEF Halfway, Replacing, QuarantineDisk
  <2>5. Numbers'
    BY <1>10, Fields DEF TypeOK, Numbers, Old, Preparing, Replacing, QuarantineDisk, Put, Place, Shelve
  <2> QED
    BY <2>1, <2>2, <2>3, <2>4, <2>5
<1>11. CASE CreateOverlay
  <2>0. created' \in Ids /\ Place' = Place
    BY <1>11 DEF CreateOverlay, TypeOK, Ids, Place, pairs
  <2>1. TypeOK'
    BY <1>11 DEF TypeOK, CreateOverlay, pairs
  <2>2. Paired'
    BY <1>11 DEF Paired, CreateOverlay, pairs
  <2>3. Preparing'
    BY <1>11, <2>0 DEF Preparing, Creating, Replacing, CreateOverlay, pairs
  <2>4. Halfway'
    BY <1>11 DEF Halfway, Replacing, CreateOverlay
  <2>5. Numbers'
    BY <1>11, Fields, DiskFields DEF TypeOK, Numbers, Old, Ids, CreateOverlay, pairs
  <2> QED
    BY <2>1, <2>2, <2>3, <2>4, <2>5
<1>12. CASE WriteIdent
  <2>0. Place.disk = None /\ Place \in Pair /\ factory \in Images
    BY <1>12 DEF WriteIdent, Preparing, Creating, Place, TypeOK
  <2>6. [Place EXCEPT !.ident = factory] = [disk |-> None, ident |-> factory]
    BY <2>0, Fields
  <2>7. \/ target = "final" /\ final' = [disk |-> None, ident |-> factory] /\ UNCHANGED staged
        \/ target = "staged" /\ staged' = [disk |-> None, ident |-> factory] /\ UNCHANGED final
    BY <1>12, <2>6 DEF WriteIdent, Put, TypeOK
  <2>1. TypeOK'
    BY <1>12, <2>7, PairOf DEF TypeOK, WriteIdent
  <2>2. Paired'
    BY <1>12, <2>7 DEF Paired, Matched, WriteIdent
  <2>3. Preparing'
    BY <1>12, <2>7 DEF Preparing, Creating, Replacing, WriteIdent, Place
  <2>4. Halfway'
    BY <1>12 DEF Halfway, Replacing, WriteIdent
  <2>5. Numbers'
    BY <1>12, <2>7 DEF Numbers, Old, WriteIdent
  <2> QED
    BY <2>1, <2>2, <2>3, <2>4, <2>5
<1>13. CASE RefuseIdent
  <2>1. TypeOK'
    BY <1>13, NoPairIsPair DEF TypeOK, RefuseIdent, Leave, Shelve
  <2>2. Paired'
    BY <1>13, NoPairIsPair DEF Paired, Matched, RefuseIdent, Leave, Shelve
  <2>3. Preparing'
    BY <1>13 DEF Preparing, Creating, Replacing, RefuseIdent, Leave
  <2>4. Halfway'
    BY <1>13 DEF Halfway, Replacing, RefuseIdent, Leave
  <2>5. Numbers'
    BY <1>13, Fields, DiskFields DEF TypeOK, Numbers, Old, Preparing, Replacing, Ids, RefuseIdent, Leave, Shelve
  <2> QED
    BY <2>1, <2>2, <2>3, <2>4, <2>5
<1>14. CASE PublishOverlay
  <2>0. /\ Place.ident = factory /\ Place \in Pair /\ factory \in Images /\ created \in Ids
        /\ NewDisk' = NewDisk
    BY <1>14 DEF PublishOverlay, Preparing, Place, TypeOK, NewDisk
  <2>6. [Place EXCEPT !.disk = NewDisk] = [disk |-> NewDisk, ident |-> factory]
    BY <2>0, Fields
  <2>7. [disk |-> NewDisk, ident |-> factory] \in Pair
    BY <2>0, Made, PairOf
  <2>8. CASE target = "final"
    <3>0. /\ final' = [disk |-> NewDisk, ident |-> factory] /\ UNCHANGED staged
          /\ pc' = "boot" /\ booted' = booted \cup {created}
      BY <1>14, <2>6, <2>8 DEF PublishOverlay, Put
    <3>1. TypeOK'
      BY <1>14, <2>0, <2>7, <3>0 DEF TypeOK, PublishOverlay
    <3>2. Paired'
      BY <1>14, <2>0, <3>0, Made DEF Paired, Matched, PublishOverlay
    <3>3. Preparing'
      BY <1>14, <2>0, <3>0, Made DEF Preparing, Creating, Replacing, PublishOverlay
    <3>4. Halfway'
      BY <3>0 DEF Halfway, Replacing
    <3>5. Numbers'
      BY <1>14, <2>0, <3>0, Made, Fields, DiskFields DEF TypeOK, Numbers, Old, Ids, PublishOverlay
    <3> QED
      BY <3>1, <3>2, <3>3, <3>4, <3>5
  <2>9. CASE target = "staged"
    <3>0. /\ staged' = [disk |-> NewDisk, ident |-> factory] /\ UNCHANGED final
          /\ pc' = "retire" /\ booted' = booted
      BY <1>14, <2>6, <2>9 DEF PublishOverlay, Put
    <3>6. fresh /\ final # NoPair
      BY <1>14, <2>9 DEF PublishOverlay, Preparing, Creating
    <3>1. TypeOK'
      BY <1>14, <2>7, <3>0 DEF TypeOK, PublishOverlay
    <3>2. Paired'
      BY <1>14, <2>0, <3>0, Made DEF Paired, Matched, PublishOverlay
    <3>3. Preparing'
      BY <1>14, <2>0, <2>9, <3>0 DEF Preparing, Creating, Replacing, PublishOverlay
    <3>4. Halfway'
      BY <3>0 DEF Halfway, Replacing
    <3>5. Numbers'
      BY <1>14, <3>0 DEF Numbers, Old, PublishOverlay
    <3> QED
      BY <3>1, <3>2, <3>3, <3>4, <3>5
  <2> QED
    BY <2>8, <2>9 DEF TypeOK
<1>15. CASE Retire
  <2>0. /\ final # NoPair /\ retained = NoPair /\ created \in Ids
        /\ staged = [disk |-> NewDisk, ident |-> factory] /\ NewDisk' = NewDisk
    BY <1>15 DEF Retire, Preparing, Replacing, NewDisk
  <2>6. final.disk # None \/ final.ident # None
    BY <2>0, Fields DEF TypeOK, NoPair
  <2>7. /\ plan' \in Seq(Moves) /\ IsPlan(plan')
        /\ final.disk # None <=> plan'[1] = "oldDisk"
        /\ Len(plan') = 3 => (final.ident # None <=> plan'[1] = "oldIdent")
        /\ Len(plan') = 4 => final.ident # None
    BY <1>15, <2>6, PlanOf DEF Retire
  <2>8. Len(plan') \in {3, 4}
    BY <2>7 DEF IsPlan
  <2>9. step' = 0 /\ pc' = "move" /\ UNCHANGED <<factory, pairs, fresh, target, created, booted, faults>>
    BY <1>15 DEF Retire
  <2>1. TypeOK'
    BY <2>7, <2>9 DEF TypeOK, pairs
  <2>2. Paired'
    BY <2>9 DEF Paired, pairs
  <2>3. Preparing'
    BY <1>15 DEF Preparing, Creating, Replacing, Retire
  <2>4. Halfway'
    <3>1. UNCHANGED <<final, staged, retained>> /\ retained.ident = None
      BY <2>0, <2>9, NoPairIsPair DEF pairs
    <3>2. Planned(final)'
      BY <2>7, <3>1 DEF Planned
    <3>3. /\ step' # 1 /\ ~(step' >= 2) /\ step' # Len(plan') - 2 /\ step' # Len(plan') - 1
          /\ step' # Len(plan') /\ step' < Len(plan') - 1
      <4>1. CASE Len(plan') = 3
        BY <2>9, <4>1
      <4>2. CASE Len(plan') = 4
        BY <2>9, <4>2
      <4> QED
        BY <2>8, <4>1, <4>2
    <3> QED
      BY ONLY <2>0, <2>7, <2>9, <3>1, <3>2, <3>3 DEF Halfway, Planned
  <2>5. Numbers'
    BY <1>15, <2>8, <2>9 DEF Numbers, Old, Retire, pairs
  <2> QED
    BY <2>1, <2>2, <2>3, <2>4, <2>5
<1>16. CASE UndoEnds
  <2>1. TypeOK'
    BY <1>16, NoPairIsPair DEF TypeOK, UndoEnds, Smooth, Fault, Leave, Shelve
  <2>2. Paired'
    BY <1>16, NoPairIsPair DEF Paired, Matched, UndoEnds, Leave, Shelve
  <2>3. Preparing'
    BY <1>16 DEF Preparing, Creating, Replacing, UndoEnds, Leave
  <2>4. Halfway'
    BY <1>16 DEF Halfway, Replacing, UndoEnds, Leave
  <2>5. Numbers'
    BY <1>16, Fields, NoPairIsPair, DiskFields DEF TypeOK, Numbers, Old, Ids, UndoEnds, Leave, Shelve
  <2> QED
    BY <2>1, <2>2, <2>3, <2>4, <2>5
<1>17. CASE Moved
  <2>0. factory \in Images /\ created \in Ids
    BY <1>17 DEF Moved, Preparing, Replacing, TypeOK
  <2>6. final = [disk |-> NewDisk, ident |-> factory] /\ Len(plan) \in {3, 4}
    BY <1>17 DEF Moved, Halfway, Replacing, IsPlan
  <2>7. final.disk # None /\ final.disk.id = created /\ final.disk.base = factory
    BY <2>0, <2>6, Made
  <2>1. TypeOK'
    BY <1>17, <2>0, <2>7 DEF TypeOK, Moved, pairs
  <2>2. Paired'
    BY <1>17 DEF Paired, Moved, pairs
  <2>3. Preparing'
    BY <1>17, <2>7 DEF Preparing, Creating, Replacing, Moved, pairs
  <2>4. Halfway'
    BY <1>17 DEF Halfway, Replacing, Moved
  <2>5. Numbers'
    BY <1>17, <2>7 DEF Numbers, Old, Moved, pairs
  <2> QED
    BY <2>1, <2>2, <2>3, <2>4, <2>5
<1>18. CASE Move
  <2>0. /\ pc = "move" /\ step < Len(plan) /\ IsPlan(plan) /\ step \in Nat
        /\ created \in Ids /\ factory \in Images
        /\ UNCHANGED <<factory, kept, fresh, target, plan, created, booted>>
        /\ NewDisk' = NewDisk /\ NewDisk \in Disk /\ NewDisk # None /\ NewDisk.base = factory
        /\ NewDisk.id = created /\ NewDisk.capacity = Capacity(factory)
        /\ target = "staged" /\ fresh
    BY <1>18, Made DEF Move, Halfway, Preparing, Replacing, TypeOK, NewDisk
  <2>1. CASE Fault /\ pc' = "undo" /\ UNCHANGED <<final, staged, retained, step>>
    <3>1. TypeOK'
      BY <2>0, <2>1 DEF TypeOK, Fault
    <3>2. Paired'
      BY <2>0, <2>1 DEF Paired
    <3>3. Preparing'
      BY <2>0, <2>1 DEF Preparing, Creating, Replacing
    <3>4. Halfway'
      BY <2>0, <2>1 DEF Halfway, Planned, Replacing
    <3>5. Numbers'
      BY <2>0, <2>1 DEF Numbers, Old
    <3> QED
      BY <3>1, <3>2, <3>3, <3>4, <3>5
  <2>2. ASSUME Rename(plan[step + 1]), step' = step + 1, UNCHANGED pc, Smooth
        PROVE  Inv'
    <3>0. step' \in 0 .. Len(plan') /\ UNCHANGED faults
      BY <2>0, <2>2 DEF Smooth
    <3>1. CASE plan[step + 1] = "oldDisk"
      <4>1. step = 0 /\ plan[1] = "oldDisk"
        BY <2>0, <3>1 DEF IsPlan
      <4>2. /\ final.disk # None /\ retained.disk = None /\ retained.ident = None
            /\ staged = [disk |-> NewDisk, ident |-> factory]
            /\ Len(plan) = 4 => final.ident # None /\ final.ident = final.disk.base
            /\ Len(plan) = 3 => final.ident = None
        BY <2>0, <4>1, NoPairIsPair DEF Halfway, Planned, Replacing, Paired, Matched, IsPlan
      <4>3. /\ final' = [disk |-> None, ident |-> final.ident]
            /\ retained' = [disk |-> final.disk, ident |-> None] /\ UNCHANGED staged
        BY <2>2, <3>1, <4>2, Fields DEF TypeOK, Rename
      <4>20. /\ step' = 1 /\ step' # 0 /\ ~(step' >= 2) /\ step' # Len(plan) - 1
            /\ step' # Len(plan) /\ step' < Len(plan) - 1 /\ step' < Len(plan)
        <5>1. CASE Len(plan) = 3
          BY <2>0, <2>2, <4>1, <5>1
        <5>2. CASE Len(plan) = 4
          BY <2>0, <2>2, <4>1, <5>2
        <5> QED
          BY <2>0, <5>1, <5>2 DEF IsPlan
      <4>4. TypeOK'
        BY <2>0, <2>2, <3>0, <3>1, <4>1, <4>2, <4>3, Fields, PairOf, NoPairIsPair DEF TypeOK
      <4>5. Paired'
        <5>1. Matched(final') /\ Matched(staged') /\ Matched(retained')
          BY <4>3 DEF Paired, Matched
        <5> QED
          BY <2>0, <5>1 DEF Paired
      <4>6. Preparing'
        BY <2>0, <2>2, <3>0, <3>1, <4>1, <4>2, <4>3 DEF Preparing, Creating, Replacing
      <4>7. Halfway'
        BY <2>0, <4>2, <4>3, <4>20
          DEF Halfway, Planned, Replacing, IsPlan
      <4>8. Numbers'
        BY <2>0, <2>2, <4>3, <4>20 DEF Numbers, Old
      <4> QED
        BY <4>4, <4>5, <4>6, <4>7, <4>8
    <3>2. CASE plan[step + 1] = "oldIdent"
      <4>1. \/ Len(plan) = 3 /\ step = 0 /\ plan[1] = "oldIdent"
            \/ Len(plan) = 4 /\ step = 1 /\ plan[1] = "oldDisk"
        BY <2>0, <3>0, <3>2 DEF IsPlan
      <4>9. staged = [disk |-> NewDisk, ident |-> factory]
        BY <2>0, <4>1 DEF Halfway, Replacing, IsPlan
      <4>12. final.disk = None
        BY <2>0, <4>1 DEF Halfway, Planned, Replacing
      <4>14. retained.ident = None
        BY <2>0, <4>1, NoPairIsPair DEF Halfway, Replacing
      <4>10. Len(plan) = 3 => retained.disk = None
        BY <2>0, <4>1, NoPairIsPair DEF Halfway, Replacing
      <4>11. Len(plan) = 4 => retained.disk # None /\ final.ident = retained.disk.base
        BY <2>0, <4>1 DEF Halfway, Planned, Replacing
      <4>13. final.ident # None
        <5>1. retained.disk # None => retained.disk.base \in Images
          <6>1. retained.disk \in Disk \cup {None}
            BY Fields DEF TypeOK
          <6> QED
            BY <6>1, DiskFields
        <5>2. None \notin Images
          OBVIOUS
        <5>3. CASE Len(plan) = 4
          BY <4>11, <5>1, <5>2, <5>3
        <5> QED
          BY <2>0, <4>1, <5>3 DEF Halfway, Planned, Replacing, IsPlan
      <4>2. /\ final.disk = None /\ final.ident # None /\ retained.ident = None
            /\ staged = [disk |-> NewDisk, ident |-> factory]
            /\ Len(plan) = 3 => retained.disk = None
            /\ Len(plan) = 4 => retained.disk # None /\ final.ident = retained.disk.base
        BY <4>9, <4>10, <4>11, <4>12, <4>13, <4>14
      <4>3. /\ final' = [disk |-> None, ident |-> None]
            /\ retained' = [disk |-> retained.disk, ident |-> final.ident] /\ UNCHANGED staged
        BY <2>2, <3>2, <4>2, Fields DEF TypeOK, Rename
      <4>20. /\ step' = Len(plan) - 2 /\ step' # 0 /\ step' # Len(plan) - 1 /\ step' # Len(plan)
            /\ step' < Len(plan) - 1 /\ step' < Len(plan) /\ (Len(plan) = 4 => step' = 2 /\ step' # 1)
        <5>1. CASE Len(plan) = 3
          BY <2>0, <2>2, <4>1, <5>1
        <5>2. CASE Len(plan) = 4
          BY <2>0, <2>2, <4>1, <5>2
        <5> QED
          BY <2>0, <5>1, <5>2 DEF IsPlan
      <4>4. TypeOK'
        BY <2>0, <2>2, <3>0, <3>2, <4>1, <4>2, <4>3, Fields, PairOf, NoPairIsPair DEF TypeOK
      <4>5. Paired'
        <5>1. Matched(final') /\ Matched(staged') /\ Matched(retained')
          BY <2>0, <4>2, <4>3 DEF Paired, Matched, IsPlan
        <5> QED
          BY <2>0, <5>1 DEF Paired
      <4>6. Preparing'
        BY <2>0, <2>2, <3>0, <3>2, <4>1, <4>2, <4>3 DEF Preparing, Creating, Replacing
      <4>7. Halfway'
        BY <2>0, <4>2, <4>3, <4>20
          DEF Halfway, Planned, Replacing, IsPlan
      <4>8. Numbers'
        BY <2>0, <2>2, <4>3, <4>20 DEF Numbers, Old
      <4> QED
        BY <4>4, <4>5, <4>6, <4>7, <4>8
    <3>3. CASE plan[step + 1] = "newIdent"
      <4>1. step = Len(plan) - 2
        BY <2>0, <3>3 DEF IsPlan
      <4>2. /\ final = [disk |-> None, ident |-> None]
            /\ staged = [disk |-> NewDisk, ident |-> factory]
        BY <2>0, <4>1 DEF Halfway, Replacing
      <4>3. /\ final' = [disk |-> None, ident |-> factory]
            /\ staged' = [disk |-> NewDisk, ident |-> None] /\ UNCHANGED retained
        BY <2>2, <3>3, <4>2 DEF Rename
      <4>20. /\ step' = Len(plan) - 1 /\ step # 0 /\ step' # 0 /\ step' # Len(plan) - 2
            /\ ~(step' < Len(plan) - 1) /\ step' # Len(plan) /\ step' < Len(plan)
            /\ step' # 1 /\ (Len(plan) = 4 => step >= 2)
        <5>1. CASE Len(plan) = 3
          BY <2>0, <2>2, <4>1, <5>1
        <5>2. CASE Len(plan) = 4
          BY <2>0, <2>2, <4>1, <5>2
        <5> QED
          BY <2>0, <5>1, <5>2 DEF IsPlan
      <4>4. TypeOK'
        BY <2>0, <2>2, <3>0, <3>3, <4>1, <4>2, <4>3, Fields, PairOf, NoPairIsPair DEF TypeOK
      <4>5. Paired'
        <5>1. Matched(final') /\ Matched(staged') /\ Matched(retained')
          BY <4>2, <4>3 DEF Paired, Matched
        <5> QED
          BY <2>0, <5>1 DEF Paired
      <4>6. Preparing'
        BY <2>0, <2>2, <3>0, <3>3, <4>1, <4>2, <4>3 DEF Preparing, Creating, Replacing
      <4>7. Halfway'
        BY <2>0, <4>3, <4>20
          DEF Halfway, Planned, Replacing, IsPlan
      <4>8. Numbers'
        BY <2>0, <2>2, <4>3, <4>20 DEF Numbers, Old
      <4> QED
        BY <4>4, <4>5, <4>6, <4>7, <4>8
    <3>4. CASE plan[step + 1] = "newDisk"
      <4>1. step = Len(plan) - 1
        BY <2>0, <3>4 DEF IsPlan
      <4>2. /\ final = [disk |-> None, ident |-> factory]
            /\ staged = [disk |-> NewDisk, ident |-> None]
        BY <2>0, <4>1 DEF Halfway, Replacing
      <4>3. /\ final' = [disk |-> NewDisk, ident |-> factory]
            /\ staged' = [disk |-> None, ident |-> None] /\ UNCHANGED retained
        BY <2>2, <3>4, <4>2 DEF Rename
      <4>20. /\ step' = Len(plan) /\ step # 0 /\ step' # 0 /\ step' # Len(plan) - 2
            /\ ~(step' < Len(plan) - 1) /\ step' # Len(plan) - 1 /\ step' # 1 /\ (Len(plan) = 4 => step >= 2)
        <5>1. CASE Len(plan) = 3
          BY <2>0, <2>2, <4>1, <5>1
        <5>2. CASE Len(plan) = 4
          BY <2>0, <2>2, <4>1, <5>2
        <5> QED
          BY <2>0, <5>1, <5>2 DEF IsPlan
      <4>4. TypeOK'
        BY <2>0, <2>2, <3>0, <3>4, <4>1, <4>2, <4>3, Fields, PairOf, NoPairIsPair DEF TypeOK
      <4>5. Paired'
        <5>1. Matched(final') /\ Matched(staged') /\ Matched(retained')
          BY <2>0, <4>3 DEF Paired, Matched
        <5> QED
          BY <2>0, <5>1 DEF Paired
      <4>6. Preparing'
        BY <2>0, <2>2, <3>0, <3>4, <4>1, <4>2, <4>3 DEF Preparing, Creating, Replacing
      <4>7. Halfway'
        BY <2>0, <2>2, <4>3, <4>20
          DEF Halfway, Planned, Replacing, IsPlan
      <4>8. Numbers'
        <5>1. \A pair \in kept \cup {retained} : pair.disk # None => pair.disk.id \in Ids
          BY Fields, DiskFields DEF TypeOK
        <5>2. \A id \in Ids : id < created => id <= created
          BY <2>0 DEF Ids
        <5>3. pc = "move" /\ step < Len(plan)
          BY <2>0
        <5>4. /\ \A id \in booted : id < created
              /\ \A pair \in kept \cup {retained} : pair.disk # None => pair.disk.id < created
          BY <5>3 DEF Numbers, Old
        <5>5. final'.disk # None => final'.disk.id = created
          BY <2>0, <4>3
        <5> QED
          BY <2>0, <2>2, <4>3, <4>20, <5>1, <5>2, <5>4, <5>5 DEF Numbers, Old, TypeOK, Ids
      <4> QED
        BY <4>4, <4>5, <4>6, <4>7, <4>8
    <3> QED
      BY <2>0, <3>1, <3>2, <3>3, <3>4 DEF IsPlan, Moves
  <2> QED
    BY <1>18, <2>1, <2>2 DEF Move
<1>19. CASE UndoMove
  <2>0. /\ pc = "undo" /\ step > 0 /\ step < Len(plan) /\ IsPlan(plan) /\ step \in Nat
        /\ created \in Ids /\ factory \in Images
        /\ UNCHANGED <<factory, kept, pc, fresh, target, plan, created, booted, faults>>
        /\ NewDisk' = NewDisk /\ NewDisk \in Disk /\ NewDisk # None /\ NewDisk.base = factory
        /\ NewDisk.id = created /\ NewDisk.capacity = Capacity(factory)
        /\ target = "staged" /\ fresh
        /\ RenameBack(plan[step]) /\ step' = step - 1
    BY <1>19, Made DEF UndoMove, Halfway, Preparing, Replacing, TypeOK, NewDisk
  <2>4. step' \in 0 .. Len(plan')
    BY <2>0 DEF IsPlan
  <2>1. CASE plan[step] = "oldDisk"
    <3>1. step = 1 /\ plan[1] = "oldDisk"
      BY <2>0, <2>1 DEF IsPlan
    <3>9. staged = [disk |-> NewDisk, ident |-> factory]
      BY <2>0, <3>1 DEF Halfway, Replacing, IsPlan
    <3>12. final.disk = None
      BY <2>0, <3>1 DEF Halfway, Replacing, IsPlan
    <3>13. retained.disk # None
      BY <2>0, <3>1 DEF Halfway, Planned, Replacing
    <3>14. retained.ident = None
      BY <2>0, <3>1 DEF Halfway, Planned, Replacing, IsPlan
    <3>10. Len(plan) = 3 => final.ident = None
      BY <2>0, <3>1 DEF Halfway, Replacing
    <3>11. Len(plan) = 4 => final.ident = retained.disk.base
      BY <2>0, <3>1 DEF Halfway, Replacing
    <3>15. Len(plan) = 4 => final.ident # None
      <4>1. retained.disk \in Disk
        BY <3>13, Fields DEF TypeOK
      <4>2. retained.disk.base # None
        BY <4>1, DiskFields
      <4> QED
        BY <3>11, <4>2
    <3>2. /\ final.disk = None /\ retained.disk # None /\ retained.ident = None
          /\ staged = [disk |-> NewDisk, ident |-> factory]
          /\ Len(plan) = 3 => final.ident = None
          /\ Len(plan) = 4 => final.ident = retained.disk.base /\ final.ident # None
      BY <3>9, <3>10, <3>11, <3>12, <3>13, <3>14, <3>15
    <3>3. /\ final' = [disk |-> retained.disk, ident |-> final.ident]
          /\ retained' = [disk |-> None, ident |-> None] /\ UNCHANGED staged
      BY <2>0, <2>1, <3>2, Fields DEF TypeOK, RenameBack
    <3>20. /\ step' = 0 /\ step' # 1 /\ ~(step' >= 2) /\ step' # Len(plan) - 2
          /\ step' # Len(plan) - 1 /\ step' # Len(plan) /\ step' < Len(plan) - 1 /\ step' < Len(plan)
      <4>1. CASE Len(plan) = 3
        BY <2>0, <3>1, <4>1
      <4>2. CASE Len(plan) = 4
        BY <2>0, <3>1, <4>2
      <4> QED
        BY <2>0, <4>1, <4>2 DEF IsPlan
    <3>4. TypeOK'
      BY <2>0, <2>4, <2>1, <3>1, <3>2, <3>3, Fields, PairOf, NoPairIsPair DEF TypeOK
    <3>5. Paired'
      <4>1. Matched(final') /\ Matched(staged') /\ Matched(retained')
        BY <2>0, <3>2, <3>3 DEF Paired, Matched, IsPlan
      <4> QED
        BY <2>0, <4>1 DEF Paired
    <3>6. Preparing'
      BY <2>0, <2>4, <2>1, <3>1, <3>2, <3>3 DEF Preparing, Creating, Replacing
    <3>7. Halfway'
      BY <2>0, <3>2, <3>3, NoPairIsPair
          DEF Halfway, Planned, Replacing, IsPlan
    <3>8. Numbers'
      BY <2>0, <3>3 DEF Numbers, Old
    <3> QED
      BY <3>4, <3>5, <3>6, <3>7, <3>8
  <2>2. CASE plan[step] = "oldIdent"
    <3>1. \/ Len(plan) = 3 /\ step = 1 /\ plan[1] = "oldIdent"
          \/ Len(plan) = 4 /\ step = 2 /\ plan[1] = "oldDisk"
      BY <2>0, <2>2 DEF IsPlan
    <3>9. staged = [disk |-> NewDisk, ident |-> factory]
      BY <2>0, <3>1 DEF Halfway, Replacing, IsPlan
    <3>12. final = [disk |-> None, ident |-> None]
      BY <2>0, <3>1 DEF Halfway, Replacing, IsPlan
    <3>13. retained.ident # None
      BY <2>0, <3>1 DEF Halfway, Planned, Replacing
    <3>10. Len(plan) = 3 => retained.disk = None
      BY <2>0, <3>1 DEF Halfway, Planned, Replacing
    <3>11. Len(plan) = 4 => retained.disk # None /\ retained.ident = retained.disk.base
      BY <2>0, <3>13 DEF Halfway, Planned, Replacing, Paired, Matched, IsPlan
    <3>2. /\ final = [disk |-> None, ident |-> None] /\ retained.ident # None
          /\ staged = [disk |-> NewDisk, ident |-> factory]
          /\ Len(plan) = 3 => retained.disk = None
          /\ Len(plan) = 4 => retained.disk # None /\ retained.ident = retained.disk.base
      BY <3>9, <3>10, <3>11, <3>12, <3>13
    <3>3. /\ final' = [disk |-> None, ident |-> retained.ident]
          /\ retained' = [disk |-> retained.disk, ident |-> None] /\ UNCHANGED staged
      BY <2>0, <2>2, <3>2, Fields DEF TypeOK, RenameBack
    <3>20. /\ step' # Len(plan) - 2 /\ step' # Len(plan) - 1 /\ step' # Len(plan) /\ ~(step' >= 2)
          /\ step' < Len(plan) - 1 /\ step' < Len(plan)
          /\ IF Len(plan) = 3 THEN step' = 0 ELSE step' = 1 /\ step' # 0
      <4>1. CASE Len(plan) = 3
        BY <2>0, <3>1, <4>1
      <4>2. CASE Len(plan) = 4
        BY <2>0, <3>1, <4>2
      <4> QED
        BY <2>0, <4>1, <4>2 DEF IsPlan
    <3>4. TypeOK'
      BY <2>0, <2>4, <2>2, <3>1, <3>2, <3>3, Fields, PairOf, NoPairIsPair DEF TypeOK
    <3>5. Paired'
      <4>1. Matched(final') /\ Matched(staged') /\ Matched(retained')
        BY <3>3 DEF Paired, Matched
      <4> QED
        BY <2>0, <4>1 DEF Paired
    <3>6. Preparing'
      BY <2>0, <2>4, <2>2, <3>1, <3>2, <3>3 DEF Preparing, Creating, Replacing
    <3>7. Halfway'
      BY <2>0, <3>2, <3>3, NoPairIsPair
          DEF Halfway, Planned, Replacing, IsPlan
    <3>8. Numbers'
      BY <2>0, <3>3 DEF Numbers, Old
    <3> QED
      BY <3>4, <3>5, <3>6, <3>7, <3>8
  <2>3. CASE plan[step] = "newIdent"
    <3>1. step = Len(plan) - 1
      BY <2>0, <2>3 DEF IsPlan
    <3>2. /\ final = [disk |-> None, ident |-> factory]
          /\ staged = [disk |-> NewDisk, ident |-> None]
      BY <2>0, <3>1 DEF Halfway, Replacing
    <3>3. /\ final' = [disk |-> None, ident |-> None]
          /\ staged' = [disk |-> NewDisk, ident |-> factory] /\ UNCHANGED retained
      BY <2>0, <2>3, <3>2 DEF RenameBack
    <3>20. /\ step' = Len(plan) - 2 /\ step # 0 /\ step' # 0 /\ step' # Len(plan) - 1
          /\ step' # Len(plan) /\ step' < Len(plan) - 1 /\ step' < Len(plan)
          /\ Len(plan) = 4 => step >= 2 /\ step' # 1
      <4>1. CASE Len(plan) = 3
        BY <2>0
      <4>2. CASE Len(plan) = 4
        BY <2>0
      <4> QED
        BY <2>0, <4>1, <4>2 DEF IsPlan
    <3>4. TypeOK'
      BY <2>0, <2>4, <2>3, <3>1, <3>2, <3>3, Fields, PairOf, NoPairIsPair DEF TypeOK
    <3>5. Paired'
      <4>1. Matched(final') /\ Matched(staged') /\ Matched(retained')
        BY <2>0, <3>3 DEF Paired, Matched
      <4> QED
        BY <2>0, <4>1 DEF Paired
    <3>6. Preparing'
      BY <2>0, <2>4, <2>3, <3>1, <3>2, <3>3 DEF Preparing, Creating, Replacing
    <3>7. Halfway'
      BY <2>0, <3>2, <3>3
          DEF Halfway, Planned, Replacing, IsPlan
    <3>8. Numbers'
      BY <2>0, <3>3 DEF Numbers, Old
    <3> QED
      BY <3>4, <3>5, <3>6, <3>7, <3>8
  <2> QED
    BY <2>0, <2>1, <2>2, <2>3 DEF IsPlan, Moves
<1>20. CASE UNCHANGED vars
  BY <1>20 DEF vars, pairs, TypeOK, Paired, Matched, Preparing, Creating, Place, NewDisk, Capacity,
     Halfway, Planned, Numbers, Old
<1> QED
  BY <1>1, <1>2, <1>3, <1>4, <1>5, <1>6, <1>7, <1>8, <1>9, <1>10, <1>11, <1>12, <1>13, <1>14,
     <1>15, <1>16, <1>17, <1>18, <1>19, <1>20 DEF Next, Launcher

(* Whatever fails or is interrupted, an old disk and a new identity, or    *)
(* the other way round, never lie side by side.                            *)
THEOREM Safe == Spec => []Inv
<1>1. Init => Inv
  <2> SUFFICES ASSUME Init PROVE Inv
    OBVIOUS
  <2>1. TypeOK
    <3>1. plan \in Seq(Moves) /\ step \in 0 .. Len(plan)
      BY DEF Init
    <3>2. created \in 0 .. MaxDisks /\ faults \in 0 .. MaxFaults
      BY PortableAssumption DEF Init
    <3> QED
      BY <3>1, <3>2, NoPairIsPair DEF Init, TypeOK
  <2>2. Paired
    BY NoPairIsPair DEF Init, Paired, Matched
  <2>3. Preparing /\ Halfway
    BY DEF Init, Preparing, Creating, Replacing, Halfway
  <2>4. Numbers
    BY NoPairIsPair DEF Init, Numbers
  <2> QED
    BY <2>1, <2>2, <2>3, <2>4 DEF Inv
<1>2. Inv /\ [Next]_vars => Inv'
  BY Step
<1> QED
  BY <1>1, <1>2, PTL DEF Spec

-----------------------------------------------------------------------------
(* What GuestDisk sees: the current disk, and the numbers put aside.       *)
PutAside == DiskIds(kept \cup {retained}) \ {CurrentDisk}

(* The numbers of the disks of a set of pairs.                             *)
LEMMA InIds ==
  ASSUME NEW P, NEW x
  PROVE  x \in DiskIds(P) <=> \E pair \in P : pair.disk # None /\ x = pair.disk.id
BY DEF DiskIds

(* Putting a pair aside adds the number of its disk, if it has one.        *)
LEMMA Aside ==
  ASSUME NEW P, NEW pair
  PROVE  /\ pair.disk = None => DiskIds(P \cup {pair}) = DiskIds(P)
         /\ pair.disk # None => DiskIds(P \cup {pair}) = DiskIds(P) \cup {pair.disk.id}
<1>1. \A x : x \in DiskIds(P \cup {pair})
               <=> x \in DiskIds(P) \/ (pair.disk # None /\ x = pair.disk.id)
  BY InIds
<1>2. CASE pair.disk = None
  BY <1>1, <1>2
<1>3. CASE pair.disk # None
  BY <1>1, <1>3
<1> QED
  BY <1>2, <1>3

(* A launch that ends shelves the retained pair and loses nothing.         *)
LEMMA Left ==
  ASSUME Leave
  PROVE  DiskIds(kept \cup {retained})' = DiskIds(kept \cup {retained})
<1>1. retained' = NoPair /\ DiskIds(kept' \cup {retained'}) = DiskIds(kept')
  BY Aside, NoPairIsPair DEF Leave
<1>2. CASE retained = NoPair
  BY <1>1, <1>2, Aside, NoPairIsPair DEF Leave, Shelve
<1>3. CASE retained # NoPair
  BY <1>1, <1>3 DEF Leave, Shelve
<1> QED
  BY <1>1, <1>2, <1>3 DEF DiskIds

(* Numbers of disks are numbers.                                           *)
LEMMA Apart ==
  ASSUME TypeOK
  PROVE  /\ None \notin DiskIds(kept \cup {retained})
         /\ final.disk # None => final.disk.id # None
<1>1. \A pair \in Pair : pair.disk # None => pair.disk.id # None
  BY PortableAssumption, Fields, DiskFields
<1>2. kept \cup {retained} \subseteq Pair /\ final \in Pair
  BY DEF TypeOK
<1> QED
  BY <1>1, <1>2, InIds

(* The number of the disk being published is one GuestDisk has not seen.   *)
LEMMA Fresh ==
  ASSUME Inv, pc = "publish" \/ (pc = "move" /\ step < Len(plan))
  PROVE  /\ created \in Ids \ (PutAside \cup booted \cup {CurrentDisk})
         /\ created \notin DiskIds(kept \cup {retained})
         /\ created # None
<1>1. created \in Ids /\ created # None
  BY PortableAssumption DEF Inv, Preparing, Replacing
<1>2. /\ \A id \in booted : id < created
      /\ \A pair \in kept \cup {retained} : pair.disk # None => pair.disk.id < created
      /\ final.disk # None => final.disk.id < created
  BY DEF Inv, Numbers, Old
<1>3. created \notin booted /\ created \notin DiskIds(kept \cup {retained})
  BY <1>1, <1>2, InIds DEF Ids
<1>4. created # CurrentDisk
  BY <1>1, <1>2 DEF CurrentDisk, CurrentFile, Ids
<1> QED
  BY <1>1, <1>3, <1>4 DEF PutAside

(* Steps GuestDisk does not see.                                           *)
LEMMA Unseen ==
  ASSUME CurrentDisk' = CurrentDisk, PutAside' = PutAside, booted' = booted, fresh' \in BOOLEAN
  PROVE  GuestDisk!Next
BY DEF GuestDisk!Next, GuestDisk!disks, PutAside, Misfit

(* Among them every step that leaves the disks where they are.             *)
LEMMA SameDisks ==
  ASSUME CurrentDisk' = CurrentDisk, DiskIds(kept \cup {retained})' = DiskIds(kept \cup {retained}),
         booted' = booted, fresh' \in BOOLEAN
  PROVE  GuestDisk!Next
BY Unseen DEF PutAside

(* A reset that ends between its renames leaves the old disk put aside.    *)
LEMMA Interrupted ==
  ASSUME Inv, pc \in Replacing, Leave, final' = final, booted' = booted, fresh' = fresh
  PROVE  GuestDisk!Next
<1>0. fresh /\ fresh' \in BOOLEAN /\ pc' = "off"
  BY DEF Inv, Preparing, Replacing, TypeOK, Leave
<1>1. DiskIds(kept \cup {retained})' = DiskIds(kept \cup {retained})
  BY Left
<1>2. CASE final.disk # None
  <2>1. CurrentDisk' = CurrentDisk
    BY <1>0, <1>2 DEF CurrentDisk, CurrentFile
  <2> QED
    BY <1>0, <1>1, <2>1, SameDisks
<1>3. CASE final.disk = None
  <2>1. CurrentDisk' = None
    BY <1>0, <1>3 DEF CurrentDisk, CurrentFile
  <2>2. PutAside' = DiskIds(kept \cup {retained})
    BY <1>1, <2>1, Apart DEF PutAside, Inv
  <2>3. CASE retained.disk # None
    <3>1. CurrentDisk = retained.disk.id
      BY <1>3, <2>3 DEF CurrentDisk, CurrentFile, Replacing
    <3>2. CurrentDisk \in DiskIds(kept \cup {retained})
      BY <2>3, <3>1, InIds
    <3>3. CurrentDisk # None /\ PutAside' = PutAside \cup {CurrentDisk}
      BY <2>2, <3>2, Apart DEF PutAside, Inv
    <3> QED
      BY <1>0, <2>1, <3>3 DEF GuestDisk!Next, GuestDisk!Replace, PutAside, Misfit
  <2>4. CASE retained.disk = None
    <3>1. CurrentDisk = None
      BY <1>3, <2>4 DEF CurrentDisk, CurrentFile
    <3>2. PutAside' = PutAside
      BY <2>2, <3>1, Apart DEF PutAside, Inv
    <3> QED
      BY <1>0, <2>1, <3>1, <3>2, Unseen
  <2> QED
    BY <2>3, <2>4
<1> QED
  BY <1>2, <1>3

(* The last rename of a reset replaces the disk, or makes the first one.   *)
LEMMA Swapped ==
  ASSUME Inv, pc = "move", step = Len(plan) - 1, step < Len(plan), final.disk = None,
         final'.disk = NewDisk, UNCHANGED <<factory, pc, retained, kept, fresh, booted>>
  PROVE  GuestDisk!Next
<1>0. /\ fresh /\ fresh' \in BOOLEAN /\ created \in Ids /\ factory \in Images
      /\ NewDisk.id = created /\ NewDisk # None
  BY Made DEF Inv, Preparing, Replacing, TypeOK
<1>1. /\ created \in Ids \ (PutAside \cup booted \cup {CurrentDisk}) /\ created # None
      /\ created \notin DiskIds(kept \cup {retained})
  BY Fresh
<1>2. CurrentDisk' = created
  BY <1>0 DEF CurrentDisk, CurrentFile
<1>3. PutAside' = DiskIds(kept \cup {retained})
  BY <1>1, <1>2 DEF PutAside
<1>4. CASE retained.disk # None
  <2>1. CurrentDisk = retained.disk.id
    BY <1>4 DEF CurrentDisk, CurrentFile
  <2>2. CurrentDisk \in DiskIds(kept \cup {retained})
    BY <1>4, <2>1, InIds
  <2>3. CurrentDisk # None /\ PutAside' = PutAside \cup {CurrentDisk}
    BY <1>3, <2>2, Apart DEF PutAside, Inv
  <2> QED
    BY <1>0, <1>1, <1>2, <2>3
    DEF GuestDisk!Next, GuestDisk!Replace, GuestDisk!Unused, GuestDisk!RunsOn, PutAside, Misfit
<1>5. CASE retained.disk = None
  <2>1. CurrentDisk = None
    BY <1>5 DEF CurrentDisk, CurrentFile
  <2>2. PutAside' = PutAside
    BY <1>3, <2>1, Apart DEF PutAside, Inv
  <2> QED
    BY <1>0, <1>1, <1>2, <2>1, <2>2
    DEF GuestDisk!Next, GuestDisk!Make, GuestDisk!Unused, GuestDisk!RunsOn, PutAside, Misfit
<1> QED
  BY <1>4, <1>5

(* A launch that has not begun to move the disks.                          *)
LEMMA Calm ==
  ASSUME TypeOK, pc \notin Replacing, pc' \notin Replacing \/ retained.disk = None, final'.disk = final.disk,
         retained' = retained, kept' = kept, booted' = booted, fresh' \in BOOLEAN
  PROVE  GuestDisk!Next
<1>1. CurrentDisk' = CurrentDisk
  BY DEF CurrentDisk, CurrentFile, Replacing
<1> QED
  BY <1>1, SameDisks DEF DiskIds

(* A launch that ends, or is ended, elsewhere than between the renames.    *)
LEMMA Ended ==
  ASSUME pc \notin Replacing, Leave, CurrentFile' = final'.disk,
         final.disk = None <=> final'.disk = None,
         final.disk # None => final'.disk.id = final.disk.id, booted' = booted, fresh' \in BOOLEAN
  PROVE  GuestDisk!Next
<1>1. CurrentDisk' = CurrentDisk
  BY DEF CurrentDisk, CurrentFile, Replacing
<1> QED
  BY <1>1, Left, SameDisks

(* Between the renames, the old disk counts as current where it is.        *)
LEMMA MovedDisk ==
  ASSUME NEW P, NEW pair, NEW current, pair.disk # None => current = pair.disk.id
  PROVE  DiskIds(P \cup {pair}) \ {current} = DiskIds(P) \ {current}
<1>1. CASE pair.disk = None
  BY <1>1, Aside
<1>2. CASE pair.disk # None
  <2>1. DiskIds(P \cup {pair}) = DiskIds(P) \cup {current}
    BY <1>2, Aside
  <2> QED
    BY <2>1
<1> QED
  BY <1>1, <1>2

(* The current disk is moved aside, for the abstract disk the same disk    *)
(* still.                                                                  *)
LEMMA MovedAside ==
  ASSUME pc \in Replacing, pc' \in Replacing, kept' = kept, booted' = booted, fresh' \in BOOLEAN,
         retained.disk = None, final.disk # None, final'.disk = None, retained'.disk = final.disk
  PROVE  GuestDisk!Next
<1>1. CurrentDisk = final.disk.id /\ CurrentDisk' = CurrentDisk
  BY DEF CurrentDisk, CurrentFile, Replacing
<1>2. DiskIds(kept \cup {retained'}) \ {CurrentDisk} = DiskIds(kept) \ {CurrentDisk}
  BY <1>1, MovedDisk
<1>3. DiskIds(kept \cup {retained}) = DiskIds(kept)
  BY Aside
<1>4. PutAside' = DiskIds(kept \cup {retained'}) \ {CurrentDisk}
  BY <1>1 DEF PutAside, DiskIds
<1> QED
  BY <1>1, <1>2, <1>3, <1>4, Unseen DEF PutAside

(* The retained disk is moved back.                                        *)
LEMMA MovedBack ==
  ASSUME pc \in Replacing, pc' \in Replacing, kept' = kept, booted' = booted, fresh' \in BOOLEAN,
         retained.disk # None, final.disk = None, final'.disk = retained.disk, retained'.disk = None
  PROVE  GuestDisk!Next
<1>1. CurrentDisk = retained.disk.id /\ CurrentDisk' = CurrentDisk
  BY DEF CurrentDisk, CurrentFile, Replacing
<1>2. DiskIds(kept \cup {retained}) \ {CurrentDisk} = DiskIds(kept) \ {CurrentDisk}
  BY <1>1, MovedDisk
<1>3. DiskIds(kept \cup {retained'}) = DiskIds(kept)
  BY Aside
<1>4. PutAside' = DiskIds(kept \cup {retained'}) \ {CurrentDisk}
  BY <1>1 DEF PutAside, DiskIds
<1> QED
  BY <1>1, <1>2, <1>3, <1>4, Unseen DEF PutAside

(* The identities do not matter to GuestDisk.                              *)
LEMMA SameFields ==
  ASSUME pc' = pc, kept' = kept, booted' = booted, fresh' \in BOOLEAN,
         final'.disk = final.disk, retained'.disk = retained.disk
  PROVE  GuestDisk!Next
<1>1. CurrentDisk' = CurrentDisk
  BY DEF CurrentDisk, CurrentFile
<1>2. DiskIds(kept \cup {retained'}) = DiskIds(kept \cup {retained})
  <2>1. CASE retained.disk = None
    <3>1. DiskIds(kept \cup {retained}) = DiskIds(kept)
      BY <2>1, Aside
    <3>2. DiskIds(kept \cup {retained'}) = DiskIds(kept)
      BY <2>1, Aside
    <3> QED
      BY <3>1, <3>2
  <2>2. CASE retained.disk # None
    <3>1. DiskIds(kept \cup {retained}) = DiskIds(kept) \cup {retained.disk.id}
      BY <2>2, Aside
    <3>2. DiskIds(kept \cup {retained'}) = DiskIds(kept) \cup {retained.disk.id}
      BY <2>2, Aside
    <3> QED
      BY <3>1, <3>2
  <2> QED
    BY <2>1, <2>2
<1>3. DiskIds(kept \cup {retained})' = DiskIds(kept \cup {retained'})
  BY DEF DiskIds
<1> QED
  BY <1>1, <1>2, <1>3, SameDisks

(* The step simulation.                                                    *)
LEMMA Simulates ==
  ASSUME Inv, Inv', Next
  PROVE  GuestDisk!Next
<1>0. TypeOK /\ fresh \in BOOLEAN /\ fresh' \in BOOLEAN /\ final \in Pair /\ staged \in Pair
      /\ retained \in Pair /\ factory \in Images
  BY DEF Inv, TypeOK
<1>1. CASE ReplacePayload
  BY <1>0, <1>1, Calm DEF ReplacePayload, pairs, Replacing
<1>2. ASSUME NEW f \in BOOLEAN, Launch(f) PROVE GuestDisk!Next
  BY <1>0, <1>2, Calm DEF Launch, pairs, Replacing
<1>3. CASE Shutdown \/ Stop \/ RefuseDisk \/ RefuseIdent
  <2>1. pc \notin Replacing /\ Leave /\ final' = final /\ booted' = booted
    BY <1>3 DEF Shutdown, Stop, RefuseDisk, RefuseIdent, Replacing
  <2>2. CurrentFile' = final'.disk
    BY <2>1 DEF CurrentFile, Leave
  <2> QED
    BY <1>0, <2>1, <2>2, Ended
<1>4. CASE Unplug
  <2>1. final.disk # None
    BY <1>4 DEF Unplug, Inv, Preparing
  <2>2. final'.disk # None /\ final'.disk.id = final.disk.id
    BY <1>0, <1>4, <2>1, Damaged DEF Unplug
  <2>3. pc \notin Replacing /\ Leave /\ CurrentFile' = final'.disk /\ booted' = booted
    BY <1>4 DEF Unplug, Replacing, CurrentFile, Leave
  <2> QED
    BY <1>0, <2>1, <2>2, <2>3, Ended
<1>5. CASE Crash
  BY <1>5, Interrupted DEF Crash, Replacing
<1>6. CASE UndoEnds
  BY <1>6, Interrupted DEF UndoEnds, Replacing
<1>7. CASE Prepare
  BY <1>0, <1>7, Calm DEF Prepare, pairs, Replacing
<1>8. CASE UseDisk \/ Moved
  <2>1. final.disk # None /\ final.disk.id # None /\ UNCHANGED <<final, retained, kept>>
        /\ booted' = booted \cup {final.disk.id}
    <3>1. CASE UseDisk
      <4>1. target = "final"
        BY <1>0, <1>8, <3>1, NoPairIsPair DEF UseDisk, OverlayMatches, Place, Inv, Preparing, TypeOK
      <4> QED
        BY <1>0, <3>1, <4>1, Apart DEF UseDisk, OverlayMatches, Place, pairs
    <3>2. CASE Moved
      <4>1. final'.disk # None
        BY <3>2 DEF Moved, Inv, Preparing
      <4> QED
        BY <1>0, <3>2, <4>1, Apart DEF Moved, pairs
    <3> QED
      BY <1>8, <3>1, <3>2
  <2>2. CurrentDisk = final.disk.id /\ CurrentDisk' = final.disk.id
    BY <2>1 DEF CurrentDisk, CurrentFile
  <2> QED
    BY <1>0, <2>1, <2>2 DEF GuestDisk!Next, GuestDisk!Use, PutAside, Misfit
<1>9. CASE QuarantineDisk
  <2>0. /\ retained = NoPair /\ retained' = retained /\ booted' = booted /\ pc = "match"
        /\ pc' = "overlay" /\ factory' = factory
    BY <1>9 DEF QuarantineDisk, Inv, Preparing, Replacing
  <2>1. CASE Place.disk = None
    <3>1. [Place EXCEPT !.disk = None].disk = None /\ [Place EXCEPT !.ident = None] = NoPair
      BY <1>0, <2>1, Fields, NoPairIsPair DEF Place
    <3>2. final'.disk = final.disk /\ kept' = kept
      BY <1>0, <1>9, <2>1, <3>1 DEF QuarantineDisk, Put, Place, Shelve, TypeOK
    <3> QED
      BY <1>0, <2>0, <3>2, Calm DEF Replacing
  <2>2. CASE Place.disk # None
    <3>1. target = "final" /\ Place = final
      BY <1>0, <2>0, <2>2, NoPairIsPair DEF Place, Inv, Preparing, TypeOK
    <3>2. Misfit /\ final.disk.id # None
      BY <1>0, <1>9, <2>2, <3>1, Apart DEF QuarantineDisk, OverlayMatches, Misfit
    <3>3. final'.disk = None
      BY <1>0, <1>9, <3>1, Fields DEF QuarantineDisk, Put
    <3>4. CurrentDisk = final.disk.id /\ CurrentDisk' = None
      BY <2>0, <2>2, <3>1, <3>3 DEF CurrentDisk, CurrentFile
    <3> DEFINE old == [final EXCEPT !.ident = None]
    <3>5. old.disk = final.disk /\ old.disk # None
      BY <1>0, <2>2, <3>1, Fields
    <3>6. kept' = kept \cup {old}
      BY <1>9, <3>1, <3>5, NoPairIsPair DEF QuarantineDisk, Shelve
    <3> HIDE DEF old
    <3>7. DiskIds(kept \cup {retained})' = DiskIds(kept) \cup {CurrentDisk}
      <4>1. DiskIds(kept' \cup {NoPair}) = DiskIds(kept')
        BY Aside, NoPairIsPair
      <4>2. DiskIds(kept \cup {old}) = DiskIds(kept) \cup {CurrentDisk}
        BY <3>4, <3>5, Aside
      <4> QED
        BY <2>0, <3>6, <4>1, <4>2 DEF DiskIds
    <3>8. DiskIds(kept \cup {retained}) = DiskIds(kept)
      BY <2>0, Aside, NoPairIsPair
    <3>9. None \notin DiskIds(kept \cup {retained})
      BY <1>0, Apart
    <3>10. PutAside' = PutAside \cup {CurrentDisk}
      BY <3>2, <3>4, <3>7, <3>8, <3>9 DEF PutAside
    <3> QED
      BY <1>0, <2>0, <3>2, <3>4, <3>10 DEF GuestDisk!Next, GuestDisk!Replace, PutAside, Misfit
  <2> QED
    BY <2>1, <2>2
<1>10. CASE CreateOverlay
  BY <1>0, <1>10, Calm DEF CreateOverlay, pairs, Replacing
<1>11. CASE WriteIdent
  <2>1. final'.disk = final.disk
    BY <1>0, <1>11, Fields DEF WriteIdent, Put, Place
  <2> QED
    BY <1>0, <1>11, <2>1, Calm DEF WriteIdent, Replacing
<1>12. CASE PublishOverlay
  <2>1. CASE target = "staged"
    BY <1>0, <1>12, <2>1, Calm DEF PublishOverlay, Put, Replacing
  <2>2. CASE target = "final"
    <3>1. final.disk = None /\ pc = "publish" /\ pc' = "boot"
      BY <1>12, <2>2 DEF PublishOverlay, Inv, Preparing, Creating, Place
    <3>2. created \in Ids \ (PutAside \cup booted \cup {CurrentDisk}) /\ created # None
      BY <1>12, Fresh DEF PublishOverlay
    <3>3. final'.disk = NewDisk /\ NewDisk # None /\ NewDisk.id = created
      <4>1. NewDisk # None /\ NewDisk.id = created
        BY <1>0, <3>2, Made
      <4> QED
        BY <1>0, <1>12, <2>2, <4>1, Fields DEF PublishOverlay, Put, Place
    <3>4. CurrentDisk = None /\ CurrentDisk' = created
      BY <3>1, <3>3 DEF CurrentDisk, CurrentFile
    <3>5. PutAside' = PutAside
      <4>1. DiskIds(kept \cup {retained})' = DiskIds(kept \cup {retained})
        BY <1>12 DEF PublishOverlay
      <4>2. created \notin DiskIds(kept \cup {retained}) /\ None \notin DiskIds(kept \cup {retained})
        BY <1>0, <1>12, Fresh, Apart DEF PublishOverlay
      <4> QED
        BY <3>4, <4>1, <4>2 DEF PutAside
    <3>6. booted' = booted \cup {created}
      BY <1>12, <2>2 DEF PublishOverlay
    <3> QED
      BY <1>0, <3>2, <3>4, <3>5, <3>6
      DEF GuestDisk!Next, GuestDisk!Make, GuestDisk!Unused, GuestDisk!RunsOn, PutAside, Misfit
  <2> QED
    BY <1>0, <2>1, <2>2 DEF TypeOK
<1>13. CASE Retire
  <2>1. retained.disk = None
    BY <1>13, NoPairIsPair DEF Retire, Inv, Preparing, Replacing
  <2> QED
    BY <1>0, <1>13, <2>1, Calm DEF Retire, pairs, Replacing
<1>14. CASE Move
  <2>0. /\ pc = "move" /\ step < Len(plan) /\ step \in Nat /\ IsPlan(plan)
        /\ UNCHANGED <<factory, kept, fresh, created, booted>>
    BY <1>0, <1>14 DEF Move, Inv, Halfway, Replacing, TypeOK
  <2>1. CASE pc' = "undo" /\ UNCHANGED <<final, staged, retained, step>>
    <3>1. CurrentDisk' = CurrentDisk
      BY <2>0, <2>1 DEF CurrentDisk, CurrentFile
    <3> QED
      BY <1>0, <2>0, <2>1, <3>1, SameDisks DEF DiskIds
  <2>2. CASE Rename(plan[step + 1]) /\ UNCHANGED pc
    <3>1. CASE plan[step + 1] = "oldDisk"
      <4>1. step = 0
        BY <2>0, <3>1 DEF IsPlan
      <4>2. retained.disk = None /\ final.disk # None
        BY <2>0, <3>1, <4>1, NoPairIsPair DEF Inv, Halfway, Planned, Replacing
      <4>3. final'.disk = None /\ retained'.disk = final.disk
        BY <1>0, <2>2, <3>1, Fields DEF Rename
      <4> QED
        BY <1>0, <2>0, <2>2, <4>2, <4>3, MovedAside DEF Replacing
    <3>2. CASE plan[step + 1] \in {"oldIdent", "newIdent"}
      <4>1. final'.disk = final.disk /\ retained'.disk = retained.disk
        BY <1>0, <2>2, <3>2, Fields DEF Rename
      <4> QED
        BY <1>0, <2>0, <2>2, <4>1, SameFields
    <3>3. CASE plan[step + 1] = "newDisk"
      <4>1. step = Len(plan) - 1
        BY <2>0, <3>3 DEF IsPlan
      <4>2. final.disk = None /\ staged.disk = NewDisk
        BY <2>0, <4>1 DEF Inv, Halfway, Replacing
      <4>3. final'.disk = NewDisk /\ retained' = retained
        BY <1>0, <2>2, <3>3, <4>2, Fields DEF Rename
      <4> QED
        BY <2>0, <2>2, <4>1, <4>2, <4>3, Swapped
    <3> QED
      BY <1>0, <2>0, <3>1, <3>2, <3>3 DEF IsPlan
  <2> QED
    BY <1>14, <2>1, <2>2 DEF Move
<1>15. CASE UndoMove
  <2>0. /\ pc = "undo" /\ step < Len(plan) /\ step > 0 /\ step \in Nat /\ IsPlan(plan)
        /\ UNCHANGED <<factory, kept, pc, fresh, created, booted>> /\ RenameBack(plan[step])
    BY <1>0, <1>15 DEF UndoMove, Inv, Halfway, Replacing, TypeOK
  <2>1. CASE plan[step] = "oldDisk"
    <3>1. step = 1
      BY <2>0, <2>1 DEF IsPlan
    <3>2. step # 0 /\ plan[1] = "oldDisk"
      BY <2>1, <3>1
    <3>3. retained.disk # None
      BY <2>0, <3>2 DEF Inv, Halfway, Planned, Replacing
    <3>4. final.disk = None
      BY <2>0, <3>1 DEF Inv, Halfway, Replacing, IsPlan
    <3>5. final'.disk = retained.disk /\ retained'.disk = None
      BY <1>0, <2>0, <2>1, Fields DEF RenameBack
    <3> QED
      BY <1>0, <2>0, <3>3, <3>4, <3>5, MovedBack DEF Replacing
  <2>2. CASE plan[step] \in {"oldIdent", "newIdent"}
    <3>1. final'.disk = final.disk /\ retained'.disk = retained.disk
      BY <1>0, <2>0, <2>2, Fields DEF RenameBack
    <3> QED
      BY <1>0, <2>0, <3>1, SameFields
  <2> QED
    BY <1>0, <2>0, <2>1, <2>2 DEF IsPlan
<1> QED
  BY <1>1, <1>2, <1>3, <1>4, <1>5, <1>6, <1>7, <1>8, <1>9, <1>10, <1>11, <1>12, <1>13, <1>14, <1>15
  DEF Next, Launcher

(* PortableDisk implements GuestDisk: whatever fails or is interrupted in  *)
(* preparePortableDisk, resetPortableDisk and publishPortableReset, a disk *)
(* that has been current is lost by nothing, and only -fresh or a payload  *)
(* it does not fit puts one aside.                                         *)
THEOREM Implements == Spec => Promise
<1>1. Init => GuestDisk!Init
  <2> SUFFICES ASSUME Init PROVE GuestDisk!Init
    OBVIOUS
  <2>1. CurrentDisk = None
    BY NoPairIsPair DEF Init, CurrentDisk, CurrentFile
  <2>2. DiskIds(kept \cup {retained}) = {}
    BY NoPairIsPair, InIds DEF Init
  <2> QED
    BY <2>1, <2>2 DEF Init, GuestDisk!Init, Misfit
<1>2. Inv /\ Inv' /\ [Next]_vars => [GuestDisk!Next]_GuestDisk!vars
  <2>1. ASSUME Inv, Inv', Next PROVE GuestDisk!Next
    BY <2>1, Simulates
  <2>2. ASSUME UNCHANGED vars PROVE UNCHANGED GuestDisk!vars
    BY <2>2 DEF vars, pairs, GuestDisk!vars, GuestDisk!disks, CurrentDisk, CurrentFile, DiskIds,
       Misfit, Capacity
  <2> QED
    BY <2>1, <2>2
<1> QED
  BY Safe, <1>1, <1>2, PTL DEF Spec, Promise, GuestDisk!Spec

(* The type invariant of the pairs, the reset's plan and the history.      *)
THEOREM TypeCorrect == Spec => []TypeOK
<1>1. Inv => TypeOK
  BY DEF Inv
<1> QED
  BY Safe, <1>1, PTL

(* An interruption of publishPortableReset never pairs an old disk with    *)
(* the replacement factory's identity, wherever the two come to lie.       *)
THEOREM IdentitiesPaired == Spec => []PairedIdentity
<1>1. Inv => PairedIdentity
  BY DEF Inv, Paired, Matched, PairedIdentity
<1> QED
  BY Safe, <1>1, PTL

(* What preparePortableDisk lets a guest run on was made on the factory    *)
(* image that lies on the stick now.                                       *)
THEOREM BootedOnFactory == Spec => []BootsOnItsFactory
<1>1. Inv => BootsOnItsFactory
  BY DEF Inv, Preparing, BootsOnItsFactory
<1> QED
  BY Safe, <1>1, PTL

(* A launch without -fresh takes an undamaged disk away from nobody who    *)
(* exchanges the payload, as long as all payloads ask for the same size of *)
(* disk: preparePortableDisk refuses the disk then.                        *)
THEOREM PayloadSwapRefused ==
  ASSUME \A a, b \in Images : Capacity(a) = Capacity(b)
  PROVE  Spec => ReplacedPayloadIsRefused
<1>1. Inv /\ [Next]_vars
        => [final.disk # None /\ final.disk.capacity # 0 /\ ~fresh
              => final'.disk # None /\ final'.disk.id = final.disk.id]_vars
  <2> SUFFICES ASSUME Inv, Next, final.disk # None, final.disk.capacity # 0, ~fresh
               PROVE  final'.disk # None /\ final'.disk.id = final.disk.id
    OBVIOUS
  <2>0. final \in Pair /\ factory \in Images /\ target \in {"final", "staged"}
    BY DEF Inv, TypeOK
  <2>1. CASE final'.disk = final.disk
    BY <2>1
  <2>2. CASE Unplug
    BY <2>0, <2>2, Damaged DEF Unplug
  <2>3. CASE WriteIdent \/ PublishOverlay
    <3>1. CASE target = "final"
      <4>1. pc \notin Creating
        BY <3>1 DEF Inv, Preparing, Place
      <4> QED
        BY <2>3, <4>1 DEF WriteIdent, PublishOverlay, Creating
    <3>2. CASE target = "staged"
      BY <2>3, <3>2 DEF WriteIdent, PublishOverlay, Put
    <3> QED
      BY <2>0, <3>1, <3>2
  <2>4. CASE QuarantineDisk
    <3>1. CASE target = "final"
      <4>1. final.disk.capacity = Capacity(factory)
        <5>1. final.disk.base \in Images
          BY <2>0, Fields, DiskFields
        <5>2. final.disk.capacity = Capacity(final.disk.base)
          BY DEF Inv, Paired, Matched
        <5> QED
          BY <2>0, <5>1, <5>2
      <4> QED
        BY <2>4, <3>1, <4>1 DEF QuarantineDisk, OverlayMatches, Place
    <3>2. CASE target = "staged"
      BY <2>4, <3>2 DEF QuarantineDisk, Put
    <3> QED
      BY <2>0, <3>1, <3>2
  <2>5. CASE Move \/ UndoMove
    BY <2>5 DEF Move, UndoMove, Inv, Preparing, Replacing
  <2> QED
    BY <2>1, <2>2, <2>3, <2>4, <2>5
    DEF Next, Launcher, ReplacePayload, Launch, Shutdown, Stop, Crash, Prepare, UseDisk, RefuseDisk,
        CreateOverlay, RefuseIdent, Retire, UndoEnds, Moved, pairs
<1> QED
  BY Safe, <1>1, PTL DEF Spec, ReplacedPayloadIsRefused
=============================================================================
