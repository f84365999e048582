---------------------------- MODULE HarnessStore ----------------------------
(***************************************************************************)
(* The store the fuzz targets put under the engine (fuzz/src/storage.rs):  *)
(* a MemoryStore that records every call the engine makes of it, and fails *)
(* the call a schedule names, before it changes anything.  Publications of *)
(* the PIN state have a schedule and a record of their own.                *)
(*                                                                         *)
(* An answer is the store after the call, its error and its value.         *)
(***************************************************************************)
EXTENDS MemoryStore

Slots ==
    {"pin read", "credential read", "set read", "credential write",
     "counter read", "counter write", "array read", "array write"}

(* Call::slot.                                                             *)
slot(call) ==
    CASE call = "PinRead" -> "pin read"
      [] call = "Get" -> "credential read"
      [] call \in {"List", "Count"} -> "set read"
      [] call \in {"Put", "Insert", "Delete"} -> "credential write"
      [] call = "CounterRead" -> "counter read"
      [] call = "CounterWrite" -> "counter write"
      [] call = "BlobRead" -> "array read"
      [] call = "BlobWrite" -> "array write"

(* The error a fault makes a call return.                                  *)
error(call, fault) ==
    CASE fault = "Io" -> "Io"
      [] call \in {"List", "Count", "Put", "Insert", "Delete"} ->
            "CredentialSetUnavailable"
      [] OTHER -> "Corrupt"

NewHarnessStore ==
    [inner |-> NewMemoryStore, fault |-> None,
     faults |-> [sl \in Slots |-> None], writes |-> << >>, events |-> << >>]

schedule(s, mode, after) == [s EXCEPT !.fault = Some([mode |-> mode, after |-> after])]

(* The writes of the counter and of the array only fail to write.          *)
schedule_fault(s, sl, kind, after) ==
    [s EXCEPT !.faults[sl] =
        Some([kind |-> IF sl \in {"counter write", "array write"} THEN "Io" ELSE kind,
              after |-> after])]

(* take_writes and take_events, before every command.                      *)
Taken(s) == [s EXCEPT !.writes = << >>, !.events = << >>]

---------------------------------------------------------------------------
Answer(s, err, value) == [s |-> s, error |-> err, value |-> value]

Event(call, fault, id) == [call |-> call, fault |-> fault, id |-> id]

Due(scheduled) == scheduled # None /\ scheduled[1].after = 0

(* A schedule after one more call.                                         *)
Later(scheduled) ==
    IF scheduled = None \/ Due(scheduled) THEN None
    ELSE Some([scheduled[1] EXCEPT !.after = @ - 1])

(* State::enter.  `id` is the credential the call names, if any.           *)
enter(s, call, id) ==
    LET scheduled == s.faults[slot(call)]
        fault == IF Due(scheduled) THEN Some(scheduled[1].kind) ELSE None
    IN  Answer([s EXCEPT !.faults[slot(call)] = Later(scheduled),
                         !.events = Append(@, Event(call, fault, id))],
               IF fault = None THEN "none" ELSE error(call, fault[1]),
               << >>)

(* The result of an operation that got past `entered`.                     *)
Served(entered, result) ==
    IF entered.error # "none" THEN entered
    ELSE Answer(entered.s, result.error, result.value)

Changed(entered, after) ==
    IF entered.error # "none" THEN entered
    ELSE Answer([entered.s EXCEPT !.inner = after.store],
                after.result.error, after.result.value)

(* What a publication of the PIN state comes to, by the mode scheduled.    *)
Outcome(mode) ==
    CASE mode = 0 -> Some("Volatile")
      [] mode = 1 -> Some("Flushed")
      [] mode = 2 -> None
      [] OTHER -> Some("Unconfirmed")

(* State::publication, then the store's own write of it.                   *)
Recorded(s, record, outcome) ==
    [s EXCEPT !.fault = Later(@),
              !.writes = Append(@, [state |-> record, outcome |-> outcome]),
              !.events = Append(@, Event("PinWrite",
                                    IF outcome = None THEN Some("Io") ELSE None, None))]

Published(s, outcome, after) ==
    IF outcome = None THEN Answer(s, "Io", << >>)
    ELSE IF after.result.error # "none" THEN Answer(s, after.result.error, << >>)
    ELSE Answer([s EXCEPT !.inner = after.store], "none", outcome[1])

publication(s, record, after) ==
    LET outcome == Outcome(IF Due(s.fault) THEN s.fault[1].mode ELSE 0)
    IN  Published(Recorded(s, record, outcome), outcome, after)

---------------------------------------------------------------------------
get(s, id) == Served(enter(s, "Get", Some(id)), MemoryGet(s.inner, id))

put(s, r) == Changed(enter(s, "Put", Some(r.credential_id)), MemoryPut(s.inner, r))

insert_or_replace_discoverable(s, r) ==
    Changed(enter(s, "Insert", Some(r.credential_id)), MemoryInsert(s.inner, r))

delete(s, id) == Changed(enter(s, "Delete", Some(id)), MemoryDelete(s.inner, id))

list(s) == Served(enter(s, "List", None), MemoryList(s.inner))

count(s) == Served(enter(s, "Count", None), MemoryCount(s.inner))

pin_state(s) == Served(enter(s, "PinRead", None), Done(s.inner.pin_state))

set_pin_state(s, record) == publication(s, record, MemorySetPinState(s.inner, record))

clear(s) == publication(s, DefaultPinState, MemoryClear(s.inner))

signature_counter(s) ==
    Served(enter(s, "CounterRead", None), Done(s.inner.signature_counter))

set_signature_counter(s, value) ==
    Changed(enter(s, "CounterWrite", None), MemorySetCounter(s.inner, value))

large_blob_array(s) ==
    Served(enter(s, "BlobRead", None), Done(s.inner.large_blob_array))

set_large_blob_array(s, array) ==
    Changed(enter(s, "BlobWrite", None), MemorySetLargeBlobs(s.inner, array))

seal_credential_id(s, plaintext, ad) ==
    Changed(Answer(s, "none", << >>), MemorySeal(s.inner, plaintext, ad))

open_credential_id(s, sealed, ad) ==
    Served(Answer(s, "none", << >>), MemoryOpenId(s.inner, sealed, ad))
=============================================================================
