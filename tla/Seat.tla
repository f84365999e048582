-------------------------------- MODULE Seat --------------------------------
(***************************************************************************)
(* Whether the key's device may exist: the daemon's outer loop over the    *)
(* devices it creates (pqkey: service.rs), its judgement of the seat       *)
(* (seat.rs), and its reading and watching of logind's records             *)
(* (platform/linux/seat.rs), with the device of UhidDevice.                *)
(*                                                                         *)
(* logind, udev and the kernel are external.  logind writes each state of  *)
(* a seat to a new file that it renames over the seat's record; the kernel *)
(* queues an inotify event just after.  A number names a file only while   *)
(* the file exists or is open.  udev puts the device on a seat, records    *)
(* that, and then gives its node to the user whose session is active       *)
(* there; a file opened on the node lasts as long as the device.           *)
(***************************************************************************)
EXTENDS UhidDevice, Integers, FiniteSets

CONSTANTS
    Seats, DefaultSeat, NoSeat,
    FileNames,        \* the seats whose name can be a file's
    Watches,          \* how the seats directory can be watched
    MaxMoves          \* bound: how often logind, or the directory, changes something

ASSUME SeatAssumption ==
    /\ Events \subseteq AllEvents
    /\ DefaultSeat \in FileNames /\ FileNames \subseteq Seats /\ NoSeat \notin Seats
    /\ IsFiniteSet(Seats) /\ Seats \cap {"lost", "gone"} = {}
    /\ Watches \subseteq {"notified", "polled"} /\ Watches # {}

VARIABLES
    \* External: whether the seats directory exists; who logind has active on
    \* each seat; each seat's record [ino, active] (ino 0: none); whether the
    \* records can be read; the seat whose event is still to be queued; how much
    \* of this has changed (a bound); the events queued; the device's seat and whether udev has recorded it;
    \* whether another user may have the node open.
    dir, active, records, readable, notifying, moves, events, node, recorded, exposed,
    \* The daemon
    pc, why,          \* where it is; what a look is for, and whether another user
                      \* may have had the node open when it began
    device,
    seat,             \* Seat: [active, record, under]
    watch,            \* SeatWatch: [seat, how, moved, lookup, changes, read, seen]
    served            \* history: the report the last step handled or sent

logind == <<dir, active, records, readable, notifying, moves>>
udev == <<node, recorded, exposed>>
vars == <<logind, udev, events, pc, why, device, seat, watch, served>>

\* No session ("nobody") is taken apart from the user's only while there is no
\* record: the key treats them alike.
Users == {"owner", "other"}
NoRecord == [ino |-> 0, active |-> "nobody"]
Unread == <<"none", 0>>
NoLook == [what |-> "none", exposed |-> FALSE]
NotServed == [what |-> "none", exposed |-> FALSE, certain |-> TRUE]
-----------------------------------------------------------------------------
(* SeatWatch *)

\* Bound: the changes are counted from the device's creation, as only what is read
\* since is compared.
Recounted(record) == IF record[1] = "absent" THEN <<"absent", 0>> ELSE record
Counted(n) == IF node = NoSeat THEN 0 ELSE n

\* node_seat: the seat udev's database has for the device's node.
NodeSeat == IF recorded THEN node ELSE NoSeat

\* look_up_seat, which tries for each report, and without one when the last
\* attempt is old enough.  The time udev is given is taken to run out only for
\* a device it never records.
LookUpSeat(w, tries) ==
    IF w.lookup = "done" \/ ~tries \/ NodeSeat = NoSeat THEN w
    ELSE IF NodeSeat = w.seat THEN [w EXCEPT !.lookup = "done"]
    ELSE [w EXCEPT !.lookup = "done", !.seat = NodeSeat, !.moved = TRUE, !.changes = Counted(@ + 1)]

\* SeatWatch::changed.  A directory that was missing is looked for again when
\* that is due: at once ("due"), or a second after it was last looked for.
WatchChanged(w, elapsed) ==
    \/ w.moved
    \/ w.how = "notified" /\ events # {}
    \/ w.how = "polled"
    \/ w.how = "absent" /\ elapsed /\ dir
    \/ w.how = "due" /\ dir

\* changed notes when it looked for the directory.
Rechecked(w) == IF w.how = "due" /\ ~dir THEN [w EXCEPT !.how = "absent"] ELSE w

\* The beginning of look: a directory that came back is watched (start), and the
\* events that wait are drained.  They tell whether the record was named, so has
\* been seen, and whether the watch is gone with the directory.
Drained(w, how) ==
    LET absent == w.how \in {"absent", "due"}
        waiting == IF w.how = "notified" THEN events ELSE {}
        named == w.seat \in waiting
        one(b) == IF b THEN 1 ELSE 0
    IN  [w EXCEPT !.moved = FALSE,
                  !.how = CASE absent -> IF dir THEN how ELSE "absent"
                            [] "gone" \in waiting -> "due"
                            [] OTHER -> w.how,
                  !.seen = IF named THEN @ \cup {w.seat} ELSE @,
                  !.changes = Counted(@ + one(absent /\ dir) + one(named \/ "lost" \in waiting)
                                           + one("gone" \in waiting))]

\* read_record, parse_active: which file the seat's record is, and who it says is
\* active.  One that cannot be read, or is not understood, says nobody knows.
ReadRecord(s) ==
    IF readable THEN records[s] ELSE [ino |-> 0, active |-> "unknown"]

\* read_seat: a record that is gone since the key saw it is an error too.
ReadSeat(w) ==
    LET r == ReadRecord(w.seat)
    IN  IF r = NoRecord /\ w.seat \in w.seen THEN [r EXCEPT !.active = "unknown"] ELSE r

\* The end of SeatWatch::look: what the record says, which one it is, and the watch
\* after it.  The file read stays open, so its number names no other.
Read(w) ==
    LET r == IF w.seat \in FileNames THEN ReadSeat(w) ELSE NoRecord
    IN  CASE r = NoRecord ->
                [active |-> "nobody", record |-> <<"absent", w.changes>>,
                 watch |-> [w EXCEPT !.read = 0]]
          [] r.active = "unknown" -> [active |-> "unknown", record |-> Unread, watch |-> w]
          [] OTHER ->
                [active |-> r.active, record |-> <<"file", r.ino>>,
                 watch |-> [w EXCEPT !.read = r.ino, !.seen = @ \cup {w.seat}]]
-----------------------------------------------------------------------------
(* Seat *)

\* Variant: a device waits for a record that names the key's user (PluggedWhenFree).
AllowedNamed(s) == s.active = "owner"

\* allows, allowed
Allowed(s) == s.active \in {"nobody", "owner"}

\* Variant: a look that finds the key's user active keeps the device (ServedToOwner).
RetiresForeign(s) == ~Allowed(s)

\* The end of check: the device must go when the seat's record is no longer the
\* one it was created under.  That ends the transport, so check is not called
\* again for the device (retired).
Retires(s) == ~Allowed(s) \/ s.record # s.under
-----------------------------------------------------------------------------
(* serve_plugged_with_presence *)

For(what) == [what |-> what, exposed |-> exposed]

\* The device is dropped, with every file opened on its node; the transport has
\* cancelled the request it had and sends nothing for it.
Destroyed ==
    /\ device' = NewDevice
    /\ node' = NoSeat
    /\ recorded' = FALSE
    /\ exposed' = FALSE

\* A report was handled or sent.
Served(for, w) ==
    served' = IF for.what = "none" THEN NotServed
                 ELSE [what |-> for.what, exposed |-> for.exposed,
                       certain |-> /\ w.how \in {"notified", "polled"} /\ w.seat \in w.seen
                                   /\ for.what = "sent" => w.lookup = "done"]

\* SeatDevice: what is done with the check's verdict.
Verdict(for, retires, w) ==
    IF retires THEN pc' = "turn" /\ Destroyed /\ served' = NotServed
    ELSE pc' = "serve" /\ Served(for, w) /\ UNCHANGED <<udev, device>>

\* wait_for_turn once it has looked.  A device that has to wait ends on a shutdown,
\* or when telling that it waits (on_hold) or the wait itself fails.
Decide(s) == pc' \in IF Allowed(s) THEN {"create"} ELSE {"held", "end"}

\* The source is asked whether the record changed, and drained if so: w is the
\* watch before, and looks whether a look follows.
Asked(w, looks, how) ==
    /\ watch' = IF looks THEN Drained(w, how) ELSE Rechecked(w)
    /\ events' = IF looks /\ w.how = "notified" THEN {} ELSE events

\* wait_for_turn up to its loop ("turn"), or a turn of its loop after a wait.
WaitForTurn ==
    /\ pc \in {"turn", "held"}
    /\ \E elapsed, tries \in BOOLEAN, how \in Watches :
          LET w == LookUpSeat(watch, tries)
              looks == \/ WatchChanged(w, elapsed)
                       \/ seat.active = (IF pc = "turn" THEN "none" ELSE "unknown")
          IN  /\ Asked(w, looks, how)
              /\ IF looks THEN pc' = "look" /\ why' = For(pc)
                 ELSE Decide(seat) /\ why' = NoLook
    /\ served' = NotServed
    /\ UNCHANGED <<logind, udev, device, seat>>

\* A device is created under the record last read (plugged) and, if it is the
\* first, announced (on_ready); either may fail.  udev puts the device on a seat.
Create ==
    /\ pc = "create"
    /\ served' = NotServed
    /\ UNCHANGED <<logind, events, why>>
    /\ \/ /\ pc' = "serve"
          /\ device' = NewDevice
          /\ seat' = [seat EXCEPT !.record = Recounted(@), !.under = Recounted(seat.record)]
          /\ watch' = [watch EXCEPT !.lookup = "pending", !.changes = 0]
          /\ node' \in Seats
          /\ UNCHANGED <<recorded, exposed>>
       \/ /\ pc' = "end"
          /\ UNCHANGED <<udev, device, seat, watch>>

\* SeatDevice::try_read_frame and check: a report is handled if the device may go on.
TryRead(reads) ==
    /\ pc = "serve"
    /\ reads => device.queue # <<>>
    /\ LET read == TryReadFrame(device, reads)
           for == For(IF read[2] THEN "handled" ELSE "none")
       IN \E elapsed, tries \in BOOLEAN, how \in Watches :
             LET w == LookUpSeat(watch, tries \/ read[2])
                 looks == WatchChanged(w, elapsed)
             IN  /\ Asked(w, looks, how)
                 /\ device' = read[1]
                 /\ IF looks THEN pc' = "look" /\ why' = for /\ served' = NotServed
                    ELSE pc' = pc /\ why' = NoLook /\ Served(for, w)
    /\ UNCHANGED <<logind, udev, seat>>

\* SeatDevice::write_frame: a report of the transport's is sent if the device may go on.
Write ==
    /\ pc = "serve"
    /\ \E elapsed, tries \in BOOLEAN, how \in Watches :
          LET w == LookUpSeat(watch, tries)
              looks == WatchChanged(w, elapsed)
          IN  /\ Asked(w, looks, how)
              /\ IF looks THEN pc' = "look" /\ why' = For("sent") /\ served' = NotServed
                 ELSE pc' = pc /\ why' = NoLook /\ Served(For("sent"), w)
    /\ UNCHANGED <<logind, udev, device, seat>>

\* The end of a look: the record is read.
Look ==
    /\ pc = "look"
    /\ LET found == Read(watch)
           s == [seat EXCEPT !.active = found.active, !.record = found.record]
       IN  /\ seat' = IF Retires(s) THEN [s EXCEPT !.under = Unread] ELSE s
           /\ watch' = found.watch
           /\ IF why.what \in {"turn", "held"}
              THEN Decide(s) /\ served' = NotServed /\ UNCHANGED <<udev, device>>
              ELSE Verdict(why, Retires(s), found.watch)
    /\ why' = NoLook
    /\ UNCHANGED <<logind, events>>

\* Shutdown, or a device that fails, ends the transport with another error than
\* that of a device that must go, and so the daemon.
End ==
    /\ pc = "serve"
    /\ pc' = "end"
    /\ Destroyed
    /\ served' = NotServed
    /\ UNCHANGED <<logind, events, why, seat, watch>>
-----------------------------------------------------------------------------
(* logind, udev and the kernel *)

daemon == <<pc, why, seat, watch>>
Moves == moves < MaxMoves /\ moves' = moves + 1

\* A number is used again as soon as it can be.
FreeInode ==
    LET free == (1..Cardinality(Seats) + 2) \ ({records[t].ino : t \in Seats} \cup {watch.read})
    IN  CHOOSE i \in free : \A j \in free : i <= j

\* logind saves a state of seat s: a user's session is active there.
Save(s) ==
    /\ dir /\ notifying = NoSeat /\ Moves /\ s \in FileNames
    /\ \E user \in Users :
          /\ active' = [active EXCEPT ![s] = user]
          /\ records' = [records EXCEPT ![s] = [ino |-> FreeInode, active |-> user]]
    /\ notifying' = s
    /\ served' = NotServed
    /\ UNCHANGED <<dir, readable, udev, events, device, daemon>>

\* logind removes a record, as the seat goes away or a save fails, and may go on
\* moving the seat's devices to its users.
Remove(s) ==
    /\ records[s].ino # 0 /\ notifying = NoSeat /\ Moves
    /\ records' = [records EXCEPT ![s] = NoRecord]
    /\ \E user \in Users : active' = [active EXCEPT ![s] = user]
    /\ notifying' = s
    /\ served' = NotServed
    /\ UNCHANGED <<dir, readable, udev, events, device, daemon>>

\* The kernel queues the event of the record written or removed last, or that
\* events were lost.
Notify ==
    /\ notifying # NoSeat
    /\ notifying' = NoSeat
    /\ IF watch.how = "notified" /\ "gone" \notin events
       THEN \E event \in {notifying, "lost"} : events' = events \cup {event}
       ELSE events' = events
    /\ served' = NotServed
    /\ UNCHANGED <<dir, active, records, readable, moves, udev, device, daemon>>

\* logind starts and creates the directory, or it goes away with its records.
Directory ==
    /\ notifying = NoSeat /\ Moves
    /\ dir' = ~dir
    /\ records' = [s \in Seats |-> NoRecord]
    /\ events' = IF dir /\ watch.how = "notified" THEN events \cup {"gone"} ELSE events
    /\ served' = NotServed
    /\ UNCHANGED <<active, readable, notifying, udev, device, daemon>>

\* The records become unreadable, or cease to be ones the key understands, or
\* become readable again.
Permission ==
    /\ Moves
    /\ readable' = ~readable
    /\ served' = NotServed
    /\ UNCHANGED <<dir, active, records, notifying, udev, events, device, daemon>>

\* udev records the device's seat, and then gives the node to the user active there.
Udev ==
    /\ node # NoSeat
    /\ \/ ~recorded /\ recorded' = TRUE /\ exposed' = exposed
       \/ /\ recorded /\ ~exposed /\ notifying = NoSeat /\ active[node] = "other"
          /\ exposed' = TRUE /\ recorded' = recorded
    /\ served' = NotServed
    /\ UNCHANGED <<logind, node, events, device, daemon>>

\* The kernel queues an event for the device.
Kernel ==
    /\ node # NoSeat
    /\ \E e \in Events : CanQueue(device, e) /\ device' = Queued(device, e)
    /\ served' = NotServed
    /\ UNCHANGED <<logind, udev, events, daemon>>
-----------------------------------------------------------------------------
Init ==
    /\ dir \in BOOLEAN
    /\ records \in {[s \in Seats |-> NoRecord],
                   [s \in Seats |-> IF dir /\ s = DefaultSeat
                                    THEN [ino |-> 1, active |-> "owner"]
                                    ELSE NoRecord]}
    /\ active = [s \in Seats |-> IF records[s].ino = 0 THEN "nobody" ELSE "owner"]
    /\ readable = TRUE
    /\ notifying = NoSeat /\ moves = 0
    /\ events = {}
    /\ node = NoSeat /\ recorded = FALSE /\ exposed = FALSE
    /\ pc = "turn" /\ why = NoLook
    /\ device = NewDevice
    /\ seat = [active |-> "none", record |-> Unread, under |-> Unread]
    /\ \E how \in Watches :
          watch = [seat |-> DefaultSeat, how |-> IF dir THEN how ELSE "absent", moved |-> FALSE,
                   lookup |-> "done", changes |-> 0, read |-> 0, seen |-> {}]
    /\ served = NotServed

Key == WaitForTurn \/ Create \/ (\E reads \in BOOLEAN : TryRead(reads)) \/ Write \/ Look \/ End

Next ==
    \/ Key
    \/ \E s \in Seats : Save(s) \/ Remove(s)
    \/ Notify \/ Directory \/ Permission \/ Udev \/ Kernel

\* The key's thread runs, reads between the reports it sends what has waited long
\* enough, and the kernel delivers what it has.  Nothing has to fail.
Fairness ==
    /\ WF_vars((WaitForTurn \/ Create \/ Look) /\ pc' # "end")
    /\ SF_vars(TryRead(TRUE))
    /\ WF_vars(Notify)

Spec == Init /\ [][Next]_vars
FairSpec == Spec /\ Fairness
-----------------------------------------------------------------------------
TypeOK ==
    /\ pc \in {"turn", "held", "look", "create", "serve", "end"}
    /\ (node # NoSeat) = (pc = "serve" \/ (pc = "look" /\ why.what \in {"none", "handled", "sent"}))
    /\ watch.how # "notified" => events = {}

\* No report is handled from, and none sent to, a device that another user may
\* have open because their session was active on its seat since it was created,
\* even if it no longer is: check sees every such record before the report, as
\* long as the key can watch the directory or has seen the seat's record.
ServedToOwner == served.exposed => ~served.certain

\* A client the kernel holds for its GET_REPORT or SET_REPORT, even a malformed
\* one, is answered or the device goes (try_read_frame).
WriterReleased == device.blocked ~> (~device.blocked \/ pc = "end")

\* While the seat's record names the key's user or nobody, or a seat has none, and
\* is readable, the key has a device again and again (wait_for_turn).
Free ==
    /\ pc # "end" /\ readable /\ notifying = NoSeat
    /\ LET r == records[watch.seat] IN
       IF watch.seat \notin FileNames THEN TRUE
       ELSE IF r.ino = 0 THEN watch.seat \notin watch.seen /\ watch.seat \notin events
       ELSE r.active \in {"nobody", "owner"}
PluggedWhenFree == <>[]Free => []<>(node # NoSeat)
=============================================================================
