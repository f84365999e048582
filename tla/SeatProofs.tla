------------------------------ MODULE SeatProofs ------------------------------
(***************************************************************************)
(* Proofs about Seat, for any seats, watches and number of moves: no       *)
(* report passes between the key and a device that another user may have   *)
(* open.                                                                   *)
(*                                                                         *)
(* The record a device was made under is a file the key keeps open, so its *)
(* number names no other file (Held).  Nobody else was active while that   *)
(* file was the record, so a node another user may have open is on a seat  *)
(* whose record is another by then (Exposed).  A watch that was told of    *)
(* nothing has missed nothing (Told), and a seat that had no record when   *)
(* the key looked is not one it vouches for (Absent).                      *)
(***************************************************************************)
EXTENDS Seat, FiniteSetTheorems, WellFoundedInduction, NaturalsInduction, TLAPS

\* The device exists from Create until it is destroyed.
HasDevice == pc = "serve" \/ (pc = "look" /\ why.what \notin {"turn", "held"})

Watching ==
    [seat : Seats, how : {"notified", "polled", "absent", "due"}, moved : BOOLEAN,
     lookup : {"done", "pending"}, changes : Nat, read : Nat, seen : SUBSET FileNames]

\* The types of what the argument is about.
Typed ==
    /\ records \in [Seats -> [ino : Nat, active : {"nobody", "owner", "other"}]]
    /\ watch \in Watching
    /\ seat \in [active : {"none", "unknown", "nobody", "owner", "other"},
                 record : {"none", "absent", "file"} \X Nat,
                 under : {"none", "absent", "file"} \X Nat]
    /\ why \in [what : {"none", "turn", "held", "handled", "sent"}, exposed : BOOLEAN]
    /\ active \in [Seats -> {"nobody", "owner", "other"}]
    /\ events \subseteq FileNames \cup {"lost", "gone"}
    /\ notifying \in FileNames \cup {NoSeat}
    /\ node \in Seats \cup {NoSeat}
    /\ dir \in BOOLEAN /\ recorded \in BOOLEAN /\ exposed \in BOOLEAN /\ readable \in BOOLEAN
    /\ pc \in {"turn", "held", "look", "create", "serve", "end"}

\* logind's records: a file is one seat's, and says who logind has active there.
Logind ==
    /\ \A s \in Seats :
          /\ records[s].ino # 0 => dir /\ s \in FileNames /\ records[s].active = active[s]
          /\ records[s].ino = 0 => records[s] = NoRecord
    /\ \A s, t \in Seats : records[s].ino = records[t].ino /\ records[s].ino # 0 => s = t

\* The device, and what the key knows of it.
Device ==
    /\ HasDevice <=> node # NoSeat
    /\ node = NoSeat => ~recorded /\ ~exposed
    /\ exposed => recorded
    /\ HasDevice => Allowed(seat) /\ seat.record = seat.under
    /\ HasDevice /\ watch.lookup = "done" => watch.seat = node
    /\ why.exposed => exposed
    /\ why.exposed /\ why.what = "handled" => watch.lookup = "done"
    /\ pc = "create" => Allowed(seat)
    /\ ~watch.moved
    /\ pc # "look" => ~why.exposed

\* What was read last is a record if the key may go by it.
Judged == Allowed(seat) => seat.record[1] \in {"absent", "file"}

\* The file read last is held open, and says what it said.
Held ==
    seat.record[1] = "file" =>
        /\ seat.record[2] # 0 /\ watch.read = seat.record[2]
        /\ \A s \in Seats : records[s].ino = seat.record[2] => records[s].active = seat.active

\* A node that another user may have open is on a seat whose record is not the file
\* read last any more.
Exposed ==
    exposed /\ seat.record[1] = "file" => records[node].ino # seat.record[2]

\* A watch that has nothing to tell missed nothing: the file read last is still the
\* record, or it was just replaced and udev has not moved on.
Told ==
    pc # "look" /\ watch.how = "notified" /\ events = {} /\ seat.record[1] = "file" =>
        \/ records[watch.seat].ino = seat.record[2]
        \/ notifying = watch.seat /\ (node = watch.seat => ~exposed)

\* A seat without a record when the key last looked is not one it has seen.
Absent == pc # "look" /\ seat.record[1] = "absent" => watch.seat \notin watch.seen

SeatInv ==
    /\ Typed /\ Logind /\ Device /\ Judged /\ Held /\ Exposed /\ Told /\ Absent
    /\ ServedToOwner

-----------------------------------------------------------------------------
(* File numbers *)

\* A set of numbers has a least one.
LEMMA Least ==
    ASSUME NEW T \in SUBSET Nat, T # {}
    PROVE  \E x \in T : \A y \in T : x <= y
<1>1. PICK x \in T : \A y \in T : ~(<<y, x>> \in OpToRel(<, Nat))
  BY NatLessThanWellFounded, WFMin
<1>2. \A y \in T : ~(y < x)
  BY <1>1 DEF OpToRel
<1>3. QED
  BY <1>2

\* Among two more numbers than there are seats, one is no record's and not r.
LEMMA SomeFree ==
    ASSUME NEW r \in Nat, NEW ino, \A s \in Seats : ino[s] \in Nat
    PROVE  (1..Cardinality(Seats) + 2) \ ({ino[s] : s \in Seats} \cup {r}) # {}
<1> DEFINE I == {ino[s] : s \in Seats}
           n == Cardinality(Seats)
<1>1. IsFiniteSet(I) /\ Cardinality(I) <= n
  <2> DEFINE g == [s \in Seats |-> ino[s]]
  <2>1. g \in Surjection(Seats, I)
    BY DEF Surjection
  <2>2. QED
    BY <2>1, FS_Surjection, SeatAssumption
<1>2. n \in Nat /\ Cardinality(I) \in Nat
  BY <1>1, FS_CardinalityType, SeatAssumption
<1> HIDE DEF I, n
<1>3. IsFiniteSet(I \cup {r}) /\ Cardinality(I \cup {r}) <= Cardinality(I) + 1
  <2>1. /\ IsFiniteSet(I \cup {r})
        /\ Cardinality(I \cup {r}) = IF r \in I THEN Cardinality(I) ELSE Cardinality(I) + 1
    BY <1>1, FS_AddElement
  <2>2. QED
    BY <1>2, <2>1
<1>4. Cardinality(1..n + 2) = n + 2
  <2> DEFINE m == n + 2
  <2>1. m \in Int /\ m >= 1
    BY <1>2
  <2> HIDE DEF m
  <2>2. Cardinality(1..m) = IF 1 > m THEN 0 ELSE m - 1 + 1
    BY <2>1, FS_Interval
  <2>3. Cardinality(1..m) = m
    BY <2>1, <2>2
  <2>4. QED
    BY <2>3 DEF m
<1>5. SUFFICES ASSUME 1..n + 2 \subseteq I \cup {r} PROVE FALSE
  BY DEF I, n
<1>6. Cardinality(1..n + 2) <= Cardinality(I \cup {r})
  BY <1>3, <1>5, FS_Subset
<1>7. Cardinality(I \cup {r}) \in Nat
  BY <1>3, FS_CardinalityType
<1>8. QED
  BY <1>1, <1>2, <1>3, <1>4, <1>6, <1>7

\* A new file gets a number that no record has, nor the file the key holds open.
LEMMA FreshInode ==
    ASSUME Typed
    PROVE  /\ FreeInode \in Nat \ {0} /\ FreeInode # watch.read
           /\ \A t \in Seats : records[t].ino # FreeInode
<1> DEFINE free == (1..Cardinality(Seats) + 2) \ ({records[t].ino : t \in Seats} \cup {watch.read})
           ino == [t \in Seats |-> records[t].ino]
<1>1. watch.read \in Nat /\ \A t \in Seats : ino[t] \in Nat
  BY DEF Typed, Watching
<1>2. {records[t].ino : t \in Seats} = {ino[t] : t \in Seats}
  OBVIOUS
<1>3. Cardinality(Seats) \in Nat
  BY FS_CardinalityType, SeatAssumption
<1>4. free # {}
  BY <1>1, <1>2, SomeFree
<1>5. free \in SUBSET Nat
  BY <1>3
<1>6. FreeInode = CHOOSE i \in free : \A j \in free : i <= j
  BY DEF FreeInode
<1>7. FreeInode \in free
  <2> HIDE DEF free
  <2>1. \E i \in free : \A j \in free : i <= j
    BY <1>4, <1>5, Least
  <2>2. QED
    BY <1>6, <2>1
<1>8. QED
  BY <1>3, <1>7

-----------------------------------------------------------------------------
(* logind, udev and the kernel *)

\* Nothing is served by a step that serves nothing.
LEMMA NothingServed == served' = NotServed => ServedToOwner'
BY DEF ServedToOwner, NotServed

\* logind writes a record.
LEMMA SaveStep ==
    ASSUME SeatInv, NEW s \in Seats, Save(s)
    PROVE  SeatInv'
<1>1. /\ dir /\ notifying = NoSeat /\ s \in FileNames /\ notifying' = s /\ served' = NotServed
      /\ UNCHANGED <<dir, readable, node, recorded, exposed, events, device, pc, why, seat, watch>>
  BY DEF Save, udev, daemon
<1>2. PICK user \in Users : /\ active' = [active EXCEPT ![s] = user]
                            /\ records' = [records EXCEPT ![s] = [ino |-> FreeInode, active |-> user]]
  BY DEF Save
<1>3. /\ FreeInode \in Nat \ {0} /\ FreeInode # watch.read /\ \A t \in Seats : records[t].ino # FreeInode
  BY FreshInode DEF SeatInv
<1> HIDE DEF FreeInode
<1>4. Typed'
  BY <1>1, <1>2, <1>3 DEF SeatInv, Typed, Users
<1>5. \A t \in Seats : /\ records'[t] = IF t = s THEN [ino |-> FreeInode, active |-> user] ELSE records[t]
                       /\ active'[t] = IF t = s THEN user ELSE active[t]
  BY <1>2 DEF SeatInv, Typed
<1>6. /\ records'[s].ino = FreeInode /\ records'[s].active = active'[s]
      /\ \A t \in Seats \ {s} : records'[t] = records[t] /\ active'[t] = active[t]
  BY <1>5
<1>7. Logind'
  BY <1>1, <1>3, <1>6 DEF SeatInv, Logind
<1>8. Device' /\ Judged' /\ Absent'
  BY <1>1 DEF SeatInv, Device, HasDevice, Judged, Allowed, Absent
<1>9. Held' /\ Exposed'
  <2>1. Held'
    BY <1>1, <1>3, <1>6 DEF SeatInv, Held
  <2>2. Exposed'
    BY <1>1, <1>3, <1>6 DEF SeatInv, Held, Exposed, Device, Typed
  <2>3. QED
    BY <2>1, <2>2
<1>10. Told'
  <2>1. SUFFICES ASSUME pc # "look", watch.how = "notified", events = {}, seat.record[1] = "file"
                 PROVE  \/ records'[watch.seat].ino = seat.record[2]
                        \/ s = watch.seat /\ (node = watch.seat => ~exposed)
    BY <1>1 DEF Told
  <2>2. watch.seat \in Seats /\ watch.seat # NoSeat
    BY SeatAssumption DEF SeatInv, Typed, Watching
  <2>3. records[watch.seat].ino = seat.record[2]
    BY <1>1, <2>1, <2>2 DEF SeatInv, Told
  <2>4. node = watch.seat => ~exposed
    BY <2>1, <2>3 DEF SeatInv, Exposed
  <2>5. QED
    BY <1>6, <2>2, <2>3, <2>4
<1>11. QED
  BY <1>1, <1>4, <1>7, <1>8, <1>9, <1>10, NothingServed DEF SeatInv

\* logind removes a record.
LEMMA RemoveStep ==
    ASSUME SeatInv, NEW s \in Seats, Remove(s)
    PROVE  SeatInv'
<1>1. /\ records[s].ino # 0 /\ notifying = NoSeat /\ notifying' = s /\ served' = NotServed
      /\ UNCHANGED <<dir, readable, node, recorded, exposed, events, device, pc, why, seat, watch>>
  BY DEF Remove, udev, daemon
<1>2. PICK user \in Users : /\ active' = [active EXCEPT ![s] = user]
                            /\ records' = [records EXCEPT ![s] = NoRecord]
  BY DEF Remove
<1>3. s \in FileNames /\ NoRecord.ino = 0 /\ NoRecord \in [ino : Nat, active : {"nobody", "owner", "other"}]
  BY <1>1 DEF SeatInv, Logind, NoRecord
<1>4. Typed'
  BY <1>1, <1>2, <1>3 DEF SeatInv, Typed, Users
<1>5. /\ records'[s] = NoRecord
      /\ \A t \in Seats \ {s} : records'[t] = records[t] /\ active'[t] = active[t]
  BY <1>2 DEF SeatInv, Typed
<1> HIDE DEF NoRecord
<1>6. Logind'
  BY <1>1, <1>3, <1>5 DEF SeatInv, Logind
<1>7. Device' /\ Judged' /\ Absent'
  BY <1>1 DEF SeatInv, Device, HasDevice, Judged, Allowed, Absent
<1>8. Held' /\ Exposed'
  <2>1. Held'
    BY <1>1, <1>3, <1>5 DEF SeatInv, Held
  <2>2. Exposed'
    BY <1>1, <1>3, <1>5 DEF SeatInv, Held, Exposed, Device, Typed
  <2>3. QED
    BY <2>1, <2>2
<1>9. Told'
  <2>1. SUFFICES ASSUME pc # "look", watch.how = "notified", events = {}, seat.record[1] = "file"
                 PROVE  \/ records'[watch.seat].ino = seat.record[2]
                        \/ s = watch.seat /\ (node = watch.seat => ~exposed)
    BY <1>1 DEF Told
  <2>2. watch.seat \in Seats /\ watch.seat # NoSeat
    BY SeatAssumption DEF SeatInv, Typed, Watching
  <2>3. records[watch.seat].ino = seat.record[2]
    BY <1>1, <2>1, <2>2 DEF SeatInv, Told
  <2>4. node = watch.seat => ~exposed
    BY <2>1, <2>3 DEF SeatInv, Exposed
  <2>5. QED
    BY <1>5, <2>2, <2>3, <2>4
<1>10. QED
  BY <1>1, <1>4, <1>6, <1>7, <1>8, <1>9, NothingServed DEF SeatInv

\* The event of a change is queued.
LEMMA NotifyStep ==
    ASSUME SeatInv, Notify
    PROVE  SeatInv'
<1>1. /\ notifying # NoSeat /\ notifying' = NoSeat /\ served' = NotServed
      /\ UNCHANGED <<dir, active, records, readable, node, recorded, exposed, device, pc, why, seat, watch>>
  BY DEF Notify, udev, daemon
<1>2. /\ watch.how = "notified" => events' # {}
      /\ events' \subseteq events \cup {notifying, "lost"}
  BY DEF Notify
<1>3. Typed'
  <2>1. notifying \in FileNames
    BY <1>1 DEF SeatInv, Typed
  <2>2. events' \subseteq FileNames \cup {"lost", "gone"}
    BY <1>2, <2>1 DEF SeatInv, Typed
  <2>3. QED
    BY <1>1, <2>2 DEF SeatInv, Typed
<1>4. Logind' /\ Device' /\ Judged' /\ Held' /\ Exposed' /\ Absent'
  BY <1>1 DEF SeatInv, Logind, Device, HasDevice, Judged, Allowed, Held, Exposed, Absent
<1>5. Told'
  BY <1>1, <1>2 DEF Told
<1>6. QED
  BY <1>1, <1>3, <1>4, <1>5, NothingServed DEF SeatInv

\* The directory comes or goes, with every record.
LEMMA DirectoryStep ==
    ASSUME SeatInv, Directory
    PROVE  SeatInv'
<1>1. /\ notifying = NoSeat /\ dir' = ~dir /\ served' = NotServed
      /\ UNCHANGED <<active, readable, notifying, node, recorded, exposed, device, pc, why, seat, watch>>
  BY DEF Directory, udev, daemon
<1>2. /\ records' = [s \in Seats |-> NoRecord]
      /\ events' = IF dir /\ watch.how = "notified" THEN events \cup {"gone"} ELSE events
  BY DEF Directory
<1>3. NoRecord.ino = 0 /\ NoRecord \in [ino : Nat, active : {"nobody", "owner", "other"}]
  BY DEF NoRecord
<1>4. Typed'
  <2>1. dir' \in BOOLEAN /\ events' \subseteq FileNames \cup {"lost", "gone"}
    BY <1>1, <1>2 DEF SeatInv, Typed
  <2>2. records' \in [Seats -> [ino : Nat, active : {"nobody", "owner", "other"}]]
    BY <1>2, <1>3
  <2>3. QED
    BY <1>1, <2>1, <2>2 DEF SeatInv, Typed
<1>5. \A s \in Seats : records'[s] = NoRecord /\ records'[s].ino = 0
  BY <1>2, <1>3
<1>6. Logind'
  BY <1>5 DEF Logind
<1>7. Device' /\ Judged' /\ Absent'
  BY <1>1 DEF SeatInv, Device, HasDevice, Judged, Allowed, Absent
<1>8. Held'
  BY <1>1, <1>5 DEF SeatInv, Held
<1>9. Exposed'
  BY <1>1, <1>5 DEF SeatInv, Held, Exposed, Device, Typed
<1>10. Told'
  <2>1. SUFFICES ASSUME pc # "look", watch.how = "notified", events' = {}, seat.record[1] = "file"
                 PROVE  FALSE
    BY <1>1 DEF Told
  <2>2. watch.seat \in Seats /\ watch.seat # NoSeat
    BY SeatAssumption DEF SeatInv, Typed, Watching
  <2>3. ~dir /\ events = {}
    BY <1>2, <2>1
  <2>4. records[watch.seat].ino = seat.record[2]
    BY <1>1, <2>1, <2>2, <2>3 DEF SeatInv, Told
  <2>5. records[watch.seat].ino = 0
    BY <2>2, <2>3 DEF SeatInv, Logind
  <2>6. QED
    BY <2>1, <2>4, <2>5 DEF SeatInv, Held
<1>11. QED
  BY <1>1, <1>4, <1>6, <1>7, <1>8, <1>9, <1>10, NothingServed DEF SeatInv

\* The records become readable or unreadable; the kernel queues an event.
LEMMA PermissionKernelStep ==
    ASSUME SeatInv, Permission \/ Kernel
    PROVE  SeatInv'
<1>1. /\ UNCHANGED <<dir, active, records, notifying, node, recorded, exposed, events, pc, why, seat, watch>>
      /\ served' = NotServed /\ readable' \in BOOLEAN
  BY DEF Permission, Kernel, udev, daemon, logind, SeatInv, Typed
<1>2. Typed'
  BY <1>1 DEF SeatInv, Typed
<1>3. Logind' /\ Device' /\ Judged' /\ Held' /\ Exposed' /\ Absent' /\ Told'
  BY <1>1 DEF SeatInv, Logind, Device, HasDevice, Judged, Allowed, Held, Exposed, Absent, Told
<1>4. QED
  BY <1>1, <1>2, <1>3, NothingServed DEF SeatInv

\* udev records the device's seat, or gives its node to the user active there.
LEMMA UdevStep ==
    ASSUME SeatInv, Udev
    PROVE  SeatInv'
<1>1. /\ UNCHANGED <<dir, active, records, readable, notifying, node, events, pc, why, seat, watch>>
      /\ served' = NotServed /\ node # NoSeat /\ recorded' = TRUE
      /\ \/ exposed' = exposed
         \/ recorded /\ notifying = NoSeat /\ active[node] = "other" /\ exposed' = TRUE
  BY DEF Udev, daemon, logind
<1>2. exposed' \in BOOLEAN /\ (exposed => exposed')
  <2>1. exposed \in BOOLEAN
    BY DEF SeatInv, Typed
  <2>2. CASE exposed' = exposed
    BY <2>1, <2>2
  <2>3. CASE exposed' = TRUE
    BY <2>3
  <2>4. QED
    BY <1>1, <2>2, <2>3
<1>3. Typed'
  BY <1>1, <1>2 DEF SeatInv, Typed
<1>4. Logind' /\ Judged' /\ Held' /\ Absent'
  BY <1>1 DEF SeatInv, Logind, Judged, Allowed, Held, Absent
<1>5. Device'
  BY <1>1, <1>2 DEF SeatInv, Device, HasDevice, Allowed
<1>6. ASSUME exposed' # exposed, seat.record[1] = "file"
      PROVE  records[node].ino # seat.record[2]
  <2>1. node \in Seats /\ active[node] = "other"
    BY <1>1, <1>6 DEF SeatInv, Typed
  <2>2. seat.active # "other"
    BY <1>1 DEF SeatInv, Device, Allowed
  <2>3. QED
    BY <1>6, <2>1, <2>2 DEF SeatInv, Logind, Held
<1>7. Exposed'
  BY <1>1, <1>6 DEF SeatInv, Exposed
<1>8. Told'
  <2>1. SUFFICES ASSUME pc # "look", watch.how = "notified", events = {}, seat.record[1] = "file"
                 PROVE  \/ records[watch.seat].ino = seat.record[2]
                        \/ notifying = watch.seat /\ (node = watch.seat => ~exposed')
    BY <1>1 DEF Told
  <2>2. watch.seat \in Seats /\ watch.seat # NoSeat
    BY SeatAssumption DEF SeatInv, Typed, Watching
  <2>3. QED
    BY <1>1, <2>1, <2>2 DEF SeatInv, Told
<1>9. QED
  BY <1>1, <1>3, <1>4, <1>5, <1>7, <1>8, NothingServed DEF SeatInv

-----------------------------------------------------------------------------
(* The key's watch *)

\* look_up_seat moves the watch only to the device's seat, and has it looked at.
LEMMA LookedUp ==
    ASSUME SeatInv, NEW tries \in BOOLEAN, NEW w, w = LookUpSeat(watch, tries)
    PROVE  /\ w \in Watching
           /\ w.read = watch.read /\ w.seen = watch.seen /\ w.how = watch.how
           /\ w.seat = watch.seat \/ w.moved
           /\ HasDevice /\ w.lookup = "done" => w.seat = node
           /\ HasDevice /\ tries /\ recorded => w.lookup = "done"
<1>1. watch \in Watching /\ node \in Seats \cup {NoSeat} /\ watch.changes + 1 \in Nat
  BY DEF SeatInv, Typed, Watching
<1>2. NodeSeat \in {node, NoSeat} /\ (recorded => NodeSeat = node)
  BY DEF NodeSeat
<1>3. Counted(watch.changes + 1) \in Nat
  BY <1>1 DEF Counted
<1>4. CASE watch.lookup = "done" \/ ~tries \/ NodeSeat = NoSeat
  BY <1>1, <1>2, <1>4 DEF LookUpSeat, SeatInv, Device
<1>5. CASE ~(watch.lookup = "done" \/ ~tries \/ NodeSeat = NoSeat)
  <2>1. NodeSeat = node /\ node \in Seats
    BY <1>1, <1>2, <1>5
  <2>2. CASE NodeSeat = watch.seat
    <3>1. w = [watch EXCEPT !.lookup = "done"]
      BY <1>5, <2>2 DEF LookUpSeat
    <3>2. QED
      BY <1>1, <2>1, <2>2, <3>1 DEF Watching
  <2>3. CASE NodeSeat # watch.seat
    <3>1. w = [watch EXCEPT !.lookup = "done", !.seat = NodeSeat, !.moved = TRUE,
                            !.changes = Counted(watch.changes + 1)]
      BY <1>5, <2>3 DEF LookUpSeat
    <3>2. QED
      BY <1>1, <1>3, <2>1, <3>1 DEF Watching
  <2>4. QED
    BY <2>2, <2>3
<1>6. QED
  BY <1>4, <1>5

\* Draining the events leaves the watch on its seat.
LEMMA DrainedWatch ==
    ASSUME SeatInv, NEW w \in Watching, NEW how \in Watches
    PROVE  /\ Drained(w, how) \in Watching
           /\ Drained(w, how).read = w.read /\ Drained(w, how).seat = w.seat
           /\ Drained(w, how).lookup = w.lookup /\ ~Drained(w, how).moved
<1> DEFINE absent == w.how \in {"absent", "due"}
           waiting == IF w.how = "notified" THEN events ELSE {}
           named == w.seat \in waiting
           one(b) == IF b THEN 1 ELSE 0
           n == one(absent /\ dir) + one(named \/ "lost" \in waiting) + one("gone" \in waiting)
           h == CASE absent -> IF dir THEN how ELSE "absent"
                  [] "gone" \in waiting -> "due"
                  [] OTHER -> w.how
           seen == IF named THEN w.seen \cup {w.seat} ELSE w.seen
           changes == Counted(w.changes + one(absent /\ dir) + one(named \/ "lost" \in waiting)
                                        + one("gone" \in waiting))
<1>1. Drained(w, how) = [w EXCEPT !.moved = FALSE, !.how = h, !.seen = seen, !.changes = changes]
  BY DEF Drained
<1>2. h \in {"notified", "polled", "absent", "due"}
  BY SeatAssumption DEF Watching
<1>3. seen \in SUBSET FileNames
  BY SeatAssumption DEF SeatInv, Typed, Watching
<1>4. changes \in Nat
  <2>1. \A b \in BOOLEAN : one(b) \in Nat
    OBVIOUS
  <2>2. one(absent /\ dir) \in Nat /\ one(named \/ "lost" \in waiting) \in Nat /\ one("gone" \in waiting) \in Nat
    OBVIOUS
  <2> HIDE DEF one
  <2>3. QED
    BY <2>2 DEF Counted, Watching
<1> HIDE DEF h, seen, changes
<1>5. QED
  BY <1>1, <1>2, <1>3, <1>4 DEF Watching

\* Noting that the directory is not there does no more than that.
LEMMA RecheckedWatch ==
    ASSUME NEW w \in Watching
    PROVE  /\ Rechecked(w) \in Watching
           /\ Rechecked(w).read = w.read /\ Rechecked(w).seat = w.seat /\ Rechecked(w).seen = w.seen
           /\ Rechecked(w).lookup = w.lookup /\ Rechecked(w).moved = w.moved
           /\ Rechecked(w).how \in {"notified", "polled"} => Rechecked(w).how = w.how
BY DEF Rechecked, Watching

\* A step that asks the watch and has to look.
LEMMA LookBegins ==
    ASSUME SeatInv, NEW tries \in BOOLEAN, NEW how \in Watches,
           UNCHANGED <<logind, udev, seat>>, Asked(LookUpSeat(watch, tries), TRUE, how),
           pc' = "look", pc # "look", served' = NotServed,
           NEW for \in {"none", "turn", "held", "handled", "sent"}, why' = For(for),
           HasDevice <=> for \notin {"turn", "held"}, for = "handled" => tries
    PROVE  SeatInv'
<1> DEFINE w == LookUpSeat(watch, tries)
<1>1. /\ w \in Watching /\ w.read = watch.read
      /\ HasDevice /\ w.lookup = "done" => w.seat = node
      /\ for = "handled" /\ exposed => w.lookup = "done"
  BY LookedUp DEF SeatInv, Device
<1>2. watch' = Drained(w, how) /\ events' \subseteq events
  BY DEF Asked
<1> HIDE DEF w
<1>3. /\ watch' \in Watching /\ watch'.read = watch.read /\ ~watch'.moved
      /\ for = "handled" /\ exposed => watch'.lookup = "done"
      /\ HasDevice /\ watch'.lookup = "done" => watch'.seat = node
  BY <1>1, <1>2, DrainedWatch
<1>4. why' = [what |-> for, exposed |-> exposed]
  BY DEF For
<1>5. HasDevice' <=> HasDevice
  BY <1>4 DEF HasDevice
<1>6. Typed'
  <2>1. why' \in [what : {"none", "turn", "held", "handled", "sent"}, exposed : BOOLEAN]
    BY <1>4 DEF SeatInv, Typed
  <2>2. QED
    BY <1>2, <1>3, <2>1 DEF SeatInv, Typed, logind, udev
<1>7. Logind' /\ Judged' /\ Exposed' /\ Absent' /\ Told'
  BY DEF SeatInv, Logind, Judged, Allowed, Exposed, Absent, Told, logind, udev
<1>8. Held'
  BY <1>3 DEF SeatInv, Held, logind
<1>9. Device'
  <2> HIDE DEF HasDevice
  <2>1. QED
    BY <1>3, <1>4, <1>5 DEF SeatInv, Device, Allowed, logind, udev
<1>10. QED
  BY <1>6, <1>7, <1>8, <1>9, NothingServed DEF SeatInv

\* A step that asks the watch and has no reason to look.
LEMMA NoLookNeeded ==
    ASSUME SeatInv, NEW tries \in BOOLEAN, NEW how, NEW elapsed \in BOOLEAN,
           UNCHANGED <<logind, udev, seat>>, Asked(LookUpSeat(watch, tries), FALSE, how),
           ~WatchChanged(LookUpSeat(watch, tries), elapsed),
           pc # "look", pc' \in {"turn", "held", "create", "serve", "end"},
           pc' = "serve" <=> pc = "serve", pc' = "create" => Allowed(seat), why' = NoLook
    PROVE  /\ Typed' /\ Logind' /\ Device' /\ Judged' /\ Held' /\ Exposed' /\ Told' /\ Absent'
           /\ LookUpSeat(watch, tries).seat = watch.seat
           /\ LookUpSeat(watch, tries).how \in {"notified", "polled"} =>
                 LookUpSeat(watch, tries).how = "notified" /\ events = {}
<1> DEFINE w == LookUpSeat(watch, tries)
<1>1. /\ w \in Watching /\ w.read = watch.read /\ w.seen = watch.seen /\ w.how = watch.how
      /\ w.seat = watch.seat \/ w.moved
      /\ HasDevice /\ w.lookup = "done" => w.seat = node
  BY LookedUp
<1>2. watch' = Rechecked(w) /\ events' = events
  BY DEF Asked
<1>3. ~w.moved /\ w.how # "polled" /\ (w.how = "notified" => events = {})
  BY DEF WatchChanged
<1> HIDE DEF w
<1>4. /\ watch' \in Watching /\ watch'.read = watch.read /\ watch'.seen = watch.seen
      /\ watch'.seat = watch.seat /\ ~watch'.moved
      /\ watch'.how \in {"notified", "polled"} => watch'.how = watch.how
      /\ watch'.lookup = w.lookup
  BY <1>1, <1>2, <1>3, RecheckedWatch
<1>5. HasDevice' <=> HasDevice
  BY DEF HasDevice
<1>6. Typed'
  <2>1. why' \in [what : {"none", "turn", "held", "handled", "sent"}, exposed : BOOLEAN]
    BY DEF NoLook
  <2>2. QED
    BY <1>2, <1>4, <2>1 DEF SeatInv, Typed, logind, udev
<1>7. Logind' /\ Judged' /\ Exposed'
  BY DEF SeatInv, Logind, Judged, Allowed, Exposed, logind, udev
<1>8. Held' /\ Absent'
  BY <1>4 DEF SeatInv, Held, Absent, logind
<1>9. Told'
  BY <1>2, <1>4 DEF SeatInv, Told, logind, udev
<1>10. Device'
  <2>1. ~why'.exposed
    BY DEF NoLook
  <2> HIDE DEF HasDevice
  <2>2. QED
    BY <1>1, <1>3, <1>4, <1>5, <2>1 DEF SeatInv, Device, Allowed, logind, udev
<1>11. QED
  BY <1>1, <1>3, <1>6, <1>7, <1>8, <1>9, <1>10 DEF w

-----------------------------------------------------------------------------
(* The key's steps *)

\* What the end of a look finds.
LEMMA Found ==
    ASSUME SeatInv, NEW found, found = Read(watch)
    PROVE  /\ found.watch \in Watching
           /\ found.watch.seat = watch.seat /\ found.watch.how = watch.how
           /\ found.watch.lookup = watch.lookup /\ found.watch.moved = watch.moved
           /\ \/ found.active = "unknown" /\ found.record = Unread
              \/ /\ found.active = "nobody" /\ found.record = <<"absent", watch.changes>>
                 /\ watch.seat \notin found.watch.seen
              \/ /\ found.active = records[watch.seat].active
                 /\ found.record = <<"file", records[watch.seat].ino>>
                 /\ records[watch.seat].ino # 0 /\ found.watch.read = records[watch.seat].ino
<1> DEFINE r == IF watch.seat \in FileNames THEN ReadSeat(watch) ELSE NoRecord
           q == records[watch.seat]
<1>1. watch \in Watching /\ watch.seat \in Seats /\ watch.seen \subseteq FileNames
  BY DEF SeatInv, Typed, Watching
<1>2. q \in [ino : Nat, active : {"nobody", "owner", "other"}] /\ (q.ino = 0 => q = NoRecord)
  BY <1>1 DEF SeatInv, Typed, Logind
<1>3. r = NoRecord \/ r.active = "unknown" \/ (r = q /\ q # NoRecord)
  BY DEF ReadSeat, ReadRecord
<1>4. found = CASE r = NoRecord ->
                     [active |-> "nobody", record |-> <<"absent", watch.changes>>,
                      watch |-> [watch EXCEPT !.read = 0]]
                [] r.active = "unknown" -> [active |-> "unknown", record |-> Unread, watch |-> watch]
                [] OTHER ->
                     [active |-> r.active, record |-> <<"file", r.ino>>,
                      watch |-> [watch EXCEPT !.read = r.ino, !.seen = @ \cup {watch.seat}]]
  BY DEF Read
<1>5. CASE r = NoRecord
  <2>1. watch.seat \notin watch.seen
    <3>1. CASE watch.seat \notin FileNames
      BY <1>1, <3>1
    <3>2. CASE watch.seat \in FileNames /\ watch.seat \in watch.seen
      <4>1. ReadSeat(watch) = NoRecord
        BY <1>5, <3>2
      <4>2. ReadRecord(watch.seat) # NoRecord \/ ReadSeat(watch).active = "unknown"
        <5>1. ReadRecord(watch.seat) \in [ino : Nat, active : {"nobody", "owner", "other", "unknown"}]
          BY <1>2 DEF ReadRecord
        <5>2. QED
          BY <3>2, <5>1 DEF ReadSeat
      <4>3. NoRecord.active # "unknown"
        BY DEF NoRecord
      <4>4. QED
        BY <4>1, <4>2, <4>3 DEF ReadSeat
    <3>3. QED
      BY <3>1, <3>2
  <2>2. r.active # "unknown"
    BY <1>5 DEF NoRecord
  <2> HIDE DEF r
  <2>3. found = [active |-> "nobody", record |-> <<"absent", watch.changes>>,
                 watch |-> [watch EXCEPT !.read = 0]]
    BY <1>4, <1>5, <2>2
  <2> DEFINE n == [watch EXCEPT !.read = 0]
  <2>4. /\ n \in Watching /\ n.seat = watch.seat /\ n.how = watch.how /\ n.seen = watch.seen
        /\ n.lookup = watch.lookup /\ n.moved = watch.moved
    BY <1>1 DEF Watching
  <2>5. found.active = "nobody" /\ found.record = <<"absent", watch.changes>> /\ found.watch = n
    BY <2>3
  <2> HIDE DEF n
  <2>6. QED
    BY <2>1, <2>4, <2>5
<1>6. CASE r # NoRecord /\ r.active = "unknown"
  <2> HIDE DEF r
  <2>1. found = [active |-> "unknown", record |-> Unread, watch |-> watch]
    BY <1>4, <1>6
  <2>2. QED
    BY <1>1, <2>1
<1>7. CASE r # NoRecord /\ r.active # "unknown"
  <2> DEFINE n == [watch EXCEPT !.read = q.ino, !.seen = watch.seen \cup {watch.seat}]
  <2>1. r = q /\ watch.seat \in FileNames
    BY <1>3, <1>7
  <2>2. q.ino # 0
    BY <1>2, <1>7, <2>1
  <2> HIDE DEF r, q
  <2>3. found = [active |-> q.active, record |-> <<"file", q.ino>>, watch |-> n]
    BY <1>4, <1>7, <2>1
  <2>4. /\ n \in Watching /\ n.read = q.ino /\ n.seat = watch.seat /\ n.how = watch.how
        /\ n.lookup = watch.lookup /\ n.moved = watch.moved
    <3>1. q.ino \in Nat /\ watch.seen \cup {watch.seat} \in SUBSET FileNames
      BY <1>1, <1>2, <2>1
    <3>2. QED
      BY <1>1, <3>1 DEF Watching
  <2> HIDE DEF n
  <2>5. QED
    BY <2>2, <2>3, <2>4 DEF q
<1>8. QED
  BY <1>5, <1>6, <1>7

\* A report served without a look: the watch had nothing to tell.
LEMMA ServedQuietly ==
    ASSUME SeatInv, pc = "serve", NEW tries \in BOOLEAN, NEW w, w = LookUpSeat(watch, tries),
           w.seat = watch.seat, w.how \in {"notified", "polled"} => w.how = "notified" /\ events = {},
           NEW what \in {"none", "handled", "sent"}, what = "handled" => tries,
           Served(For(what), w)
    PROVE  ServedToOwner'
<1>1. CASE what = "none"
  <2>1. served' = NotServed
    BY <1>1 DEF Served, For
  <2>2. QED
    BY <2>1, NothingServed
<1>2. CASE what # "none"
  <2>1. served' = [what |-> what, exposed |-> exposed,
                   certain |-> /\ w.how \in {"notified", "polled"} /\ w.seat \in w.seen
                               /\ what = "sent" => w.lookup = "done"]
    BY <1>2 DEF Served, For
  <2>2. SUFFICES ASSUME exposed, w.how \in {"notified", "polled"}, w.seat \in w.seen,
                        what = "sent" => w.lookup = "done"
                 PROVE  FALSE
    BY <2>1 DEF ServedToOwner
  <2>3. HasDevice /\ recorded /\ Allowed(seat)
    BY <2>2 DEF HasDevice, SeatInv, Device
  <2>4. w.lookup = "done" /\ watch.seat = node /\ w.seen = watch.seen /\ watch.how = w.how
    BY <1>2, <2>2, <2>3, LookedUp
  <2>5. seat.record[1] = "file"
    BY <2>2, <2>3, <2>4 DEF SeatInv, Judged, Absent
  <2>6. QED
    BY <2>2, <2>4, <2>5 DEF SeatInv, Told, Exposed
<1>3. QED
  BY <1>1, <1>2

\* wait_for_turn.
LEMMA WaitForTurnStep ==
    ASSUME SeatInv, WaitForTurn
    PROVE  SeatInv'
<1>1. PICK elapsed \in BOOLEAN, tries \in BOOLEAN, how \in Watches :
          LET w == LookUpSeat(watch, tries)
              looks == \/ WatchChanged(w, elapsed)
                       \/ seat.active = (IF pc = "turn" THEN "none" ELSE "unknown")
          IN  /\ Asked(w, looks, how)
              /\ IF looks THEN pc' = "look" /\ why' = For(pc)
                 ELSE Decide(seat) /\ why' = NoLook
  BY DEF WaitForTurn
<1> DEFINE w == LookUpSeat(watch, tries)
           looks == \/ WatchChanged(w, elapsed)
                    \/ seat.active = (IF pc = "turn" THEN "none" ELSE "unknown")
<1>2. /\ pc \in {"turn", "held"} /\ served' = NotServed
      /\ UNCHANGED <<logind, udev, seat>> /\ ~HasDevice
  BY DEF WaitForTurn, HasDevice
<1>3. CASE looks
  <2>1. Asked(w, TRUE, how) /\ pc' = "look" /\ why' = For(pc)
    BY <1>1, <1>3 DEF Asked
  <2>2. QED
    BY <1>2, <2>1, LookBegins
<1>4. CASE ~looks
  <2>1. Asked(w, FALSE, how) /\ Decide(seat) /\ why' = NoLook
    BY <1>1, <1>4 DEF Asked
  <2>2. pc' \in {"create", "held", "end"} /\ (pc' = "create" => Allowed(seat))
    BY <2>1 DEF Decide
  <2>3. Typed' /\ Logind' /\ Device' /\ Judged' /\ Held' /\ Exposed' /\ Told' /\ Absent'
    BY <1>2, <1>4, <2>1, <2>2, NoLookNeeded
  <2>4. QED
    BY <1>2, <2>3, NothingServed DEF SeatInv
<1>5. QED
  BY <1>3, <1>4

\* A report is read, or there is none; or one is written.
LEMMA ExchangeStep ==
    ASSUME SeatInv, (\E reads \in BOOLEAN : TryRead(reads)) \/ Write
    PROVE  SeatInv'
<1>1. PICK what \in {"none", "handled", "sent"}, elapsed \in BOOLEAN, tries \in BOOLEAN, how \in Watches :
          LET w == LookUpSeat(watch, tries)
              looks == WatchChanged(w, elapsed)
          IN  /\ what = "handled" => tries
              /\ Asked(w, looks, how)
              /\ IF looks THEN pc' = "look" /\ why' = For(what) /\ served' = NotServed
                 ELSE pc' = pc /\ why' = NoLook /\ Served(For(what), w)
  <2>1. ASSUME NEW reads \in BOOLEAN, TryRead(reads)
        PROVE  \E what \in {"none", "handled", "sent"}, elapsed \in BOOLEAN, tries \in BOOLEAN, how \in Watches :
                  LET w == LookUpSeat(watch, tries)
                      looks == WatchChanged(w, elapsed)
                  IN  /\ what = "handled" => tries
                      /\ Asked(w, looks, how)
                      /\ IF looks THEN pc' = "look" /\ why' = For(what) /\ served' = NotServed
                         ELSE pc' = pc /\ why' = NoLook /\ Served(For(what), w)
    <3> DEFINE got == TryReadFrame(device, reads)[2]
               what == IF got THEN "handled" ELSE "none"
    <3>1. PICK elapsed \in BOOLEAN, tries \in BOOLEAN, how \in Watches :
             LET w == LookUpSeat(watch, tries \/ got)
                 looks == WatchChanged(w, elapsed)
             IN  /\ Asked(w, looks, how)
                 /\ IF looks THEN pc' = "look" /\ why' = For(what) /\ served' = NotServed
                    ELSE pc' = pc /\ why' = NoLook /\ Served(For(what), w)
      BY <2>1 DEF TryRead
    <3> DEFINE t == tries \/ got
    <3>2. t \in BOOLEAN /\ what \in {"none", "handled", "sent"} /\ (what = "handled" => t)
      OBVIOUS
    <3> HIDE DEF got, what
    <3>3. LET w == LookUpSeat(watch, t)
              looks == WatchChanged(w, elapsed)
          IN  /\ Asked(w, looks, how)
              /\ IF looks THEN pc' = "look" /\ why' = For(what) /\ served' = NotServed
                 ELSE pc' = pc /\ why' = NoLook /\ Served(For(what), w)
      BY <3>1
    <3> HIDE DEF t
    <3>4. QED
      BY <3>2, <3>3
  <2>2. CASE Write
    BY <2>2 DEF Write
  <2>3. QED
    BY <2>1, <2>2
<1> DEFINE w == LookUpSeat(watch, tries)
<1>2. pc = "serve" /\ UNCHANGED <<logind, udev, seat>> /\ HasDevice
  BY DEF TryRead, Write, HasDevice
<1>3. CASE WatchChanged(w, elapsed)
  <2>1. /\ Asked(w, TRUE, how) /\ pc' = "look" /\ why' = For(what) /\ served' = NotServed
        /\ what = "handled" => tries
    BY <1>1, <1>3 DEF Asked
  <2>2. QED
    BY <1>2, <2>1, LookBegins
<1>4. CASE ~WatchChanged(w, elapsed)
  <2>1. Asked(w, FALSE, how) /\ pc' = pc /\ why' = NoLook /\ Served(For(what), w)
    BY <1>1, <1>4 DEF Asked
  <2>2. /\ Typed' /\ Logind' /\ Device' /\ Judged' /\ Held' /\ Exposed' /\ Told' /\ Absent'
        /\ w.seat = watch.seat
        /\ w.how \in {"notified", "polled"} => w.how = "notified" /\ events = {}
    BY <1>2, <1>4, <2>1, NoLookNeeded
  <2>3. ServedToOwner'
    BY <1>1, <1>2, <2>1, <2>2, ServedQuietly
  <2>4. QED
    BY <2>2, <2>3 DEF SeatInv
<1>5. QED
  BY <1>3, <1>4

\* The end of a look.
LEMMA LookStep ==
    ASSUME SeatInv, Look
    PROVE  SeatInv'
<1> DEFINE found == Read(watch)
           s == [seat EXCEPT !.active = found.active, !.record = found.record]
           ws == watch.seat
<1>1. /\ pc = "look" /\ why' = NoLook /\ UNCHANGED <<logind, events>>
      /\ seat' = IF Retires(s) THEN [s EXCEPT !.under = Unread] ELSE s
      /\ watch' = found.watch
      /\ IF why.what \in {"turn", "held"}
         THEN Decide(s) /\ served' = NotServed /\ UNCHANGED <<udev, device>>
         ELSE Verdict(why, Retires(s), found.watch)
  BY DEF Look
<1>2. /\ watch' \in Watching /\ watch'.seat = ws /\ watch'.how = watch.how
      /\ watch'.lookup = watch.lookup /\ ~watch'.moved
      /\ \/ found.active = "unknown" /\ found.record = Unread
         \/ /\ found.active = "nobody" /\ found.record = <<"absent", watch.changes>>
            /\ ws \notin watch'.seen
         \/ /\ found.active = records[ws].active
            /\ found.record = <<"file", records[ws].ino>>
            /\ records[ws].ino # 0 /\ watch'.read = records[ws].ino
  BY <1>1, Found DEF SeatInv, Device
<1>3. ws \in Seats /\ records[ws].ino \in Nat /\ watch.changes \in Nat
      /\ records[ws].active \in {"nobody", "owner", "other"}
  BY DEF SeatInv, Typed, Watching
<1> HIDE DEF found
<1>4. /\ s.active = found.active /\ s.record = found.record /\ s.under = seat.under
      /\ seat'.active = found.active /\ seat'.record = found.record
      /\ Allowed(seat') = Allowed(s)
      /\ ~Retires(s) => seat'.under = seat.under
  BY <1>1 DEF SeatInv, Typed, Allowed
<1>5. /\ seat' \in [active : {"none", "unknown", "nobody", "owner", "other"},
                    record : {"none", "absent", "file"} \X Nat,
                    under : {"none", "absent", "file"} \X Nat]
  <2>1. /\ found.active \in {"none", "unknown", "nobody", "owner", "other"}
        /\ found.record \in {"none", "absent", "file"} \X Nat /\ Unread \in {"none", "absent", "file"} \X Nat
    BY <1>2, <1>3 DEF Unread
  <2>2. s \in [active : {"none", "unknown", "nobody", "owner", "other"},
               record : {"none", "absent", "file"} \X Nat,
               under : {"none", "absent", "file"} \X Nat]
    BY <2>1 DEF SeatInv, Typed
  <2> HIDE DEF s
  <2>3. QED
    BY <1>1, <2>1, <2>2
<1> HIDE DEF s
<1>6. seat'.record[1] = "file" => /\ seat'.record[2] = records[ws].ino /\ records[ws].ino # 0
                                  /\ watch'.read = records[ws].ino
                                  /\ seat'.active = records[ws].active
  BY <1>2, <1>4 DEF Unread
<1>7. Logind' /\ Judged' /\ Held' /\ Absent'
  <2>1. Logind'
    BY <1>1 DEF SeatInv, Logind, logind
  <2>2. Judged'
    BY <1>2, <1>4 DEF Judged, Allowed, Unread
  <2>3. Held'
    BY <1>1, <1>3, <1>6 DEF SeatInv, Logind, Held, logind
  <2>4. Absent'
    BY <1>2, <1>4 DEF Absent, Unread
  <2>5. QED
    BY <2>1, <2>2, <2>3, <2>4
<1>8. Told'
  BY <1>1, <1>2, <1>6 DEF Told, logind
<1>9. ~why'.exposed /\ why' \in [what : {"none", "turn", "held", "handled", "sent"}, exposed : BOOLEAN]
  BY <1>1 DEF NoLook
<1>10. CASE why.what \in {"turn", "held"}
  <2>1. /\ Decide(s) /\ served' = NotServed /\ UNCHANGED udev
        /\ pc' \in {"create", "held", "end"} /\ (pc' = "create" => Allowed(s))
    BY <1>1, <1>10 DEF Decide
  <2>2. ~HasDevice /\ ~HasDevice' /\ node = NoSeat /\ ~exposed
    BY <1>1, <1>10, <2>1 DEF SeatInv, Device, HasDevice
  <2>3. Typed'
    BY <1>1, <1>2, <1>5, <1>9, <2>1 DEF SeatInv, Typed, logind, udev
  <2>4. Device'
    <3> HIDE DEF HasDevice
    <3>1. QED
      BY <1>2, <1>4, <1>9, <2>1, <2>2 DEF SeatInv, Device, udev
  <2>5. Exposed'
    BY <2>1, <2>2 DEF Exposed, udev
  <2>6. QED
    BY <1>7, <1>8, <2>1, <2>3, <2>4, <2>5, NothingServed DEF SeatInv
<1>11. CASE why.what \notin {"turn", "held"} /\ Retires(s)
  <2>1. pc' = "turn" /\ Destroyed /\ served' = NotServed
    BY <1>1, <1>11 DEF Verdict
  <2>2. node' = NoSeat /\ recorded' = FALSE /\ exposed' = FALSE
    BY <2>1 DEF Destroyed
  <2>3. Typed'
    BY <1>1, <1>2, <1>5, <1>9, <2>1, <2>2 DEF SeatInv, Typed, logind
  <2>4. ~HasDevice'
    BY <2>1 DEF HasDevice
  <2>5. Device'
    <3> HIDE DEF HasDevice
    <3>1. QED
      BY <1>2, <1>9, <2>1, <2>2, <2>4 DEF Device
  <2>6. Exposed'
    BY <2>2 DEF Exposed
  <2>7. QED
    BY <1>7, <1>8, <2>1, <2>3, <2>5, <2>6, NothingServed DEF SeatInv
<1>12. CASE why.what \notin {"turn", "held"} /\ ~Retires(s)
  <2>1. pc' = "serve" /\ Served(why, watch') /\ UNCHANGED udev
    BY <1>1, <1>12 DEF Verdict
  <2>2. HasDevice /\ HasDevice' /\ Allowed(s) /\ seat'.record = seat.record /\ seat'.under = seat'.record
    BY <1>1, <1>4, <1>12, <2>1 DEF HasDevice, Retires, SeatInv, Device
  <2>3. Typed'
    BY <1>1, <1>2, <1>5, <1>9, <2>1 DEF SeatInv, Typed, logind, udev
  <2>4. Device'
    <3> HIDE DEF HasDevice
    <3>1. QED
      BY <1>2, <1>4, <1>9, <2>1, <2>2 DEF SeatInv, Device, udev
  <2>5. Exposed'
    BY <1>1, <2>1, <2>2 DEF SeatInv, Exposed, logind, udev
  <2>6. ServedToOwner'
    <3>1. CASE why.what = "none"
      BY <2>1, <3>1, NothingServed DEF Served
    <3>2. CASE why.what # "none"
      <4>1. served' = [what |-> why.what, exposed |-> why.exposed,
                       certain |-> /\ watch'.how \in {"notified", "polled"} /\ watch'.seat \in watch'.seen
                                   /\ why.what = "sent" => watch'.lookup = "done"]
        BY <2>1, <3>2 DEF Served
      <4>2. SUFFICES ASSUME why.exposed, watch'.seat \in watch'.seen,
                            why.what = "sent" => watch'.lookup = "done"
                     PROVE  FALSE
        BY <4>1 DEF ServedToOwner
      <4>3. exposed
        BY <4>2 DEF SeatInv, Device
      <4>4. seat'.record[1] = "file" /\ seat.record[2] = records[ws].ino /\ seat.record[1] = "file"
        BY <1>2, <1>4, <1>6, <2>2, <4>2 DEF Allowed
      <4>5. records[node].ino # seat.record[2]
        BY <4>3, <4>4 DEF SeatInv, Exposed
      <4>6. QED
        <5>1. why.what \in {"handled", "sent"} /\ watch.lookup = "done"
          BY <1>2, <1>12, <3>2, <4>2 DEF SeatInv, Device, Typed
        <5>2. QED
          BY <2>2, <4>4, <4>5, <5>1 DEF SeatInv, Device
    <3>3. QED
      BY <3>1, <3>2
  <2>7. QED
    BY <1>7, <1>8, <2>3, <2>4, <2>5, <2>6 DEF SeatInv
<1>13. QED
  BY <1>10, <1>11, <1>12

\* A device is created under the record last read.
LEMMA CreateStep ==
    ASSUME SeatInv, Create
    PROVE  SeatInv'
<1>1. pc = "create" /\ served' = NotServed /\ UNCHANGED <<logind, events, why>> /\ Allowed(seat)
      /\ ~HasDevice /\ node = NoSeat /\ ~exposed /\ ~recorded /\ ~why.exposed
  BY DEF Create, SeatInv, Device, HasDevice
<1>2. CASE /\ pc' = "serve" /\ node' \in Seats /\ UNCHANGED <<recorded, exposed>>
           /\ seat' = [seat EXCEPT !.record = Recounted(seat.record), !.under = Recounted(seat.record)]
           /\ watch' = [watch EXCEPT !.lookup = "pending", !.changes = 0]
  <2>1. /\ watch' \in Watching /\ watch'.read = watch.read /\ watch'.seat = watch.seat
        /\ watch'.seen = watch.seen /\ watch'.how = watch.how /\ watch'.lookup = "pending" /\ ~watch'.moved
    BY <1>2 DEF SeatInv, Typed, Watching, Device
  <2>2. /\ Recounted(seat.record)[1] = seat.record[1]
        /\ seat.record[1] = "file" => Recounted(seat.record) = seat.record
        /\ Recounted(seat.record) \in {"none", "absent", "file"} \X Nat
    BY DEF Recounted, SeatInv, Typed
  <2>3. /\ seat' \in [active : {"none", "unknown", "nobody", "owner", "other"},
                      record : {"none", "absent", "file"} \X Nat,
                      under : {"none", "absent", "file"} \X Nat]
        /\ seat'.active = seat.active /\ seat'.under = seat'.record
        /\ seat'.record[1] = seat.record[1]
        /\ seat.record[1] = "file" => seat'.record = seat.record
    BY <1>2, <2>2 DEF SeatInv, Typed
  <2>4. Typed'
    BY <1>1, <1>2, <2>1, <2>3 DEF SeatInv, Typed, logind
  <2>5. Logind' /\ Judged' /\ Held' /\ Absent' /\ Exposed' /\ Told'
    BY <1>1, <1>2, <2>1, <2>3 DEF SeatInv, Logind, Judged, Allowed, Held, Absent, Exposed, Told, logind
  <2>6. HasDevice' /\ node' # NoSeat /\ Allowed(seat')
    BY <1>1, <1>2, <2>3, SeatAssumption DEF HasDevice, Allowed
  <2>7. Device'
    <3> HIDE DEF HasDevice
    <3>1. QED
      BY <1>1, <1>2, <2>1, <2>3, <2>6 DEF Device, Allowed
  <2>8. QED
    BY <1>1, <2>4, <2>5, <2>7, NothingServed DEF SeatInv
<1>3. CASE pc' = "end" /\ UNCHANGED <<udev, device, seat, watch>>
  <2>1. Typed'
    BY <1>1, <1>3 DEF SeatInv, Typed, logind, udev
  <2>2. Logind' /\ Judged' /\ Held' /\ Absent' /\ Exposed' /\ Told'
    BY <1>1, <1>3 DEF SeatInv, Logind, Judged, Allowed, Held, Absent, Exposed, Told, logind, udev
  <2>3. ~HasDevice'
    BY <1>3 DEF HasDevice
  <2>4. Device'
    <3> HIDE DEF HasDevice
    <3>1. QED
      BY <1>1, <1>3, <2>3 DEF SeatInv, Device, Allowed, udev
  <2>5. QED
    BY <1>1, <2>1, <2>2, <2>4, NothingServed DEF SeatInv
<1>4. QED
  BY <1>2, <1>3 DEF Create

\* The daemon ends, and its device with it.
LEMMA EndStep ==
    ASSUME SeatInv, End
    PROVE  SeatInv'
<1>1. /\ pc = "serve" /\ pc' = "end" /\ served' = NotServed /\ UNCHANGED <<logind, events, why, seat, watch>>
      /\ node' = NoSeat /\ recorded' = FALSE /\ exposed' = FALSE /\ ~why.exposed
  BY DEF End, Destroyed, SeatInv, Device
<1>2. Typed'
  BY <1>1 DEF SeatInv, Typed, logind
<1>3. Logind' /\ Judged' /\ Held' /\ Absent' /\ Exposed'
  BY <1>1 DEF SeatInv, Logind, Judged, Allowed, Held, Absent, Exposed, logind
<1>4. Told'
  <2>1. watch.seat # NoSeat
    BY SeatAssumption DEF SeatInv, Typed, Watching
  <2>2. QED
    BY <1>1, <2>1 DEF SeatInv, Told, logind
<1>5. ~HasDevice'
  BY <1>1 DEF HasDevice
<1>6. Device'
  <2> HIDE DEF HasDevice
  <2>1. QED
    BY <1>1, <1>5 DEF SeatInv, Device
<1>7. QED
  BY <1>1, <1>2, <1>3, <1>4, <1>6, NothingServed DEF SeatInv

\* The invariant holds initially.
LEMMA InitInvariant == Init => SeatInv
<1> SUFFICES ASSUME Init PROVE SeatInv
  OBVIOUS
<1>1. PICK how \in Watches :
          watch = [seat |-> DefaultSeat, how |-> IF dir THEN how ELSE "absent", moved |-> FALSE,
                   lookup |-> "done", changes |-> 0, read |-> 0, seen |-> {}]
  BY DEF Init
<1>2. watch \in Watching /\ ~watch.moved
  BY <1>1, SeatAssumption DEF Watching
<1>3. /\ dir \in BOOLEAN /\ readable = TRUE /\ notifying = NoSeat /\ events = {} /\ node = NoSeat
      /\ recorded = FALSE /\ exposed = FALSE /\ pc = "turn" /\ why = NoLook /\ served = NotServed
      /\ seat = [active |-> "none", record |-> Unread, under |-> Unread]
  BY DEF Init
<1>4. \A s \in Seats : \/ records[s] = NoRecord
                       \/ dir /\ s = DefaultSeat /\ records[s] = [ino |-> 1, active |-> "owner"]
  BY DEF Init
<1>5. /\ active = [s \in Seats |-> IF records[s].ino = 0 THEN "nobody" ELSE "owner"]
      /\ records \in [Seats -> [ino : Nat, active : {"nobody", "owner", "other"}]]
  BY DEF Init, NoRecord
<1>6. Typed
  BY <1>2, <1>3, <1>5 DEF Typed, NoLook, Unread
<1>7. Logind
  <2>1. NoRecord.ino = 0
    BY DEF NoRecord
  <2>2. \A s \in Seats : records[s].ino # 0 => dir /\ s = DefaultSeat /\ records[s].active = "owner"
    BY <1>4, <2>1
  <2>3. \A s \in Seats : records[s].ino = 0 => records[s] = NoRecord
    BY <1>4
  <2>4. QED
    BY <1>5, <2>2, <2>3, SeatAssumption DEF Logind
<1>8. Device
  BY <1>2, <1>3 DEF Device, HasDevice, NoLook
<1>9. Judged /\ Held /\ Exposed /\ Told /\ Absent /\ ServedToOwner
  BY <1>3 DEF Judged, Allowed, Held, Exposed, Told, Absent, ServedToOwner, NotServed, Unread
<1>10. QED
  BY <1>6, <1>7, <1>8, <1>9 DEF SeatInv

\* Every step keeps the invariant.
LEMMA NextInvariant == SeatInv /\ [Next]_vars => SeatInv'
<1> SUFFICES ASSUME SeatInv, [Next]_vars PROVE SeatInv'
  OBVIOUS
<1>1. CASE UNCHANGED vars
  <2>1. Typed' /\ Logind' /\ Judged' /\ Held' /\ Exposed' /\ Told' /\ Absent' /\ ServedToOwner'
    BY <1>1 DEF SeatInv, Typed, Logind, Judged, Allowed, Held, Exposed, Told, Absent, ServedToOwner,
                vars, logind, udev
  <2>2. Device'
    BY <1>1 DEF SeatInv, Device, HasDevice, Allowed, vars, logind, udev
  <2>3. QED
    BY <2>1, <2>2 DEF SeatInv
<1>2. CASE Key
  BY <1>2, WaitForTurnStep, CreateStep, ExchangeStep, LookStep, EndStep DEF Key
<1>3. ASSUME NEW s \in Seats, Save(s) \/ Remove(s) PROVE SeatInv'
  BY <1>3, SaveStep, RemoveStep
<1>4. CASE Notify \/ Directory \/ Permission \/ Udev \/ Kernel
  BY <1>4, NotifyStep, DirectoryStep, PermissionKernelStep, UdevStep
<1>5. QED
  BY <1>1, <1>2, <1>3, <1>4 DEF Next

\* The invariant holds in every reachable state.
THEOREM Invariance == Spec => []SeatInv
BY InitInvariant, NextInvariant, PTL DEF Spec

\* However logind, udev and the kernel interleave with the key's looks, reads and
\* writes, no report is handled from or sent to a device that another user may have
\* open, as long as the key can watch the seats or has seen the record (check).
THEOREM OthersAreNotServed == Spec => []ServedToOwner
<1>1. SeatInv => ServedToOwner
  BY DEF SeatInv
<1>2. QED
  BY <1>1, Invariance, PTL
=============================================================================
