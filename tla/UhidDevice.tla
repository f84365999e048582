----------------------------- MODULE UhidDevice -----------------------------
(***************************************************************************)
(* The key's virtual HID device (pqkey: platform/linux/uhid.rs) as what a  *)
(* call of it does to the device's record:                                 *)
(*   queue     the kernel's events the key has not read                    *)
(*   blocked   whether the kernel holds a client until the key replies     *)
(* An event is an output report or a SET_REPORT, with its report type,     *)
(* whether its size fits its data and whether the data is a CTAPHID frame, *)
(* a GET_REPORT, or one the key does nothing with (OPEN, CLOSE, START).    *)
(***************************************************************************)
EXTENDS Sequences

CONSTANTS
    Events,           \* the events the kernel sends, among AllEvents
    MaxQueue          \* bound: events the kernel queues; it drops what does not fit

Event(types, rtypes, fits, frames) ==
    [type : types, rtype : rtypes, fits : fits, frame : frames]

\* The events the kernel sends, and one whose size it never sends (fits).
AllEvents ==
    Event({"OUTPUT", "SET_REPORT"}, {"output"}, {TRUE}, BOOLEAN)
    \cup Event({"OUTPUT", "SET_REPORT"}, {"feature"}, {TRUE}, {TRUE})
    \cup Event({"OUTPUT", "SET_REPORT"}, {"output"}, {FALSE}, {FALSE})
    \cup Event({"GET_REPORT", "OPEN"}, {"feature"}, {TRUE}, {FALSE})

\* The kernel holds the client of these until it is answered.
Answered == {"SET_REPORT", "GET_REPORT"}

NewDevice == [queue |-> <<>>, blocked |-> FALSE]

\* A GET_REPORT or SET_REPORT waits for its reply, one at a time.
Queued(d, e) ==
    IF Len(d.queue) = MaxQueue THEN d
    ELSE [d EXCEPT !.queue = Append(@, e),
                   !.blocked = @ \/ e.type \in Answered]

CanQueue(d, e) == e.type \in Answered => ~d.blocked

\* report_data, ReportType::from_raw, frame_from_report_slice
HasFrame(e) == e.type \in {"OUTPUT", "SET_REPORT"} /\ e.rtype = "output" /\ e.fits /\ e.frame

\* Variant: a SET_REPORT whose size does not fit is ignored as an output event is
\* (WriterReleased).
ReadEventIgnoring(d) ==
    LET e == Head(d.queue) IN
    [d EXCEPT !.queue = Tail(@), !.blocked = @ /\ (e.type \notin Answered \/ ~e.fits)]

\* The event is read, and a request for a report answered: a SET_REPORT with
\* success if it is an output report of a size that fits, GET_REPORT with an error.
ReadEvent(d) ==
    LET e == Head(d.queue) IN
    [d EXCEPT !.queue = Tail(@), !.blocked = @ /\ e.type \notin Answered]

\* try_read_frame: <<the device, whether a frame was read>>.  An event is read only
\* once it has been seen to wait for the time its contents take to be visible
\* (reads); one that is no frame leaves the loop polling for the next.
TryReadFrame(d, reads) ==
    IF ~reads \/ d.queue = <<>> THEN <<d, FALSE>>
    ELSE <<ReadEvent(d), HasFrame(Head(d.queue))>>
=============================================================================
