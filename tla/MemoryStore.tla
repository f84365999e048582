---------------------------- MODULE MemoryStore ----------------------------
(***************************************************************************)
(* The in-memory credential store (store/memory.rs), the reference every   *)
(* store is held to: "Every implementation must behave identically"        *)
(* (store/mod.rs).  Each operation takes the store and returns the store   *)
(* after it and its result.                                                *)
(*                                                                         *)
(* Sealing is modelled by what it guarantees: sealed contents open under   *)
(* the key and the associated data they were sealed with, and under no     *)
(* other.  Keys are numbered in the order they are generated.              *)
(***************************************************************************)
EXTENDS Records

CONSTANT MaxCredentials     \* DEFAULT_MAX_CREDENTIALS, or with_max_credentials

Result(error, value) == [error |-> error, value |-> value]
Done(value) == Result("none", value)
After(store, result) == [store |-> store, result |-> result]
Refused(store, error) == After(store, Result(error, << >>))

---------------------------------------------------------------------------
(* keys.rs and envelope.rs: subkeys, and sealed credential IDs.            *)

SubKey(root, info) == [root |-> root, info |-> info]

SealedId(root, plaintext, ad) ==
    [key |-> SubKey(root, "id-encryption"), ad |-> ad, plaintext |-> plaintext]

OpenSealedId(root, sealed, ad) ==
    IF sealed.key = SubKey(root, "id-encryption") /\ sealed.ad = ad
    THEN Some(sealed.plaintext)
    ELSE None

---------------------------------------------------------------------------
NewMemoryStore ==
    [credentials |-> {}, pin_state |-> None, signature_counter |-> 0,
     large_blob_array |-> INITIAL_LARGE_BLOB_ARRAY, attestation |-> None,
     credential_key |-> None, generated |-> 0]

WithId(records, id) == {r \in records : r.credential_id = id}

(* The discoverable credentials of the same relying party and user.        *)
SameAccount(records, r) ==
    {s \in records : /\ is_discoverable(s.credential_id)
                     /\ s.rp_id = r.rp_id /\ s.user_id = r.user_id}

MemoryGet(m, id) ==
    LET found == WithId(m.credentials, id)
    IN  Done(IF found = {} THEN None ELSE Some(CHOOSE r \in found : TRUE))

MemoryPut(m, r) ==
    LET existing == WithId(m.credentials, r.credential_id)
        Stored(order) ==
            After([m EXCEPT !.credentials =
                      (@ \ existing) \cup {[r EXCEPT !.created_at = order]}],
                  Done(TRUE))
    IN  IF ~validate_credential(r) THEN Refused(m, "InvalidRecord")
        ELSE IF existing # {} THEN Stored((CHOOSE s \in existing : TRUE).created_at)
        ELSE IF Cardinality(m.credentials) >= MaxCredentials THEN Refused(m, "Full")
        ELSE Stored(next_created_at(m.credentials))

MemoryDelete(m, id) ==
    After([m EXCEPT !.credentials = @ \ WithId(@, id)],
          Done(WithId(m.credentials, id) # {}))

MemoryInsert(m, r) ==
    LET retired == SameAccount(m.credentials, r)
    IN  IF \/ ~validate_credential(r)
           \/ ~is_discoverable(r.credential_id)
           \/ WithId(m.credentials, r.credential_id) # {}
        THEN Refused(m, "InvalidRecord")
        ELSE IF retired = {} /\ Cardinality(m.credentials) >= MaxCredentials
        THEN Refused(m, "Full")
        ELSE After([m EXCEPT !.credentials =
                       (@ \ retired)
                       \cup {[r EXCEPT !.created_at = next_created_at(m.credentials)]}],
                   Done(TRUE))

MemoryList(m) == Done(sort_newest_first(m.credentials))

MemoryCount(m) == Done(Cardinality(m.credentials))

MemoryClear(m) ==
    After([m EXCEPT !.credentials = {}, !.pin_state = Some(DefaultPinState),
                    !.signature_counter = 0,
                    !.large_blob_array = INITIAL_LARGE_BLOB_ARRAY,
                    !.credential_key = None],
          Done(TRUE))

MemorySetPinState(m, state) ==
    IF validate_pin_state(state)
    THEN After([m EXCEPT !.pin_state = Some(state)], Done(TRUE))
    ELSE Refused(m, "InvalidRecord")

MemorySetCounter(m, value) ==
    After([m EXCEPT !.signature_counter = value], Done(TRUE))

MemorySetLargeBlobs(m, array) ==
    IF validate_large_blob_array(array)
    THEN After([m EXCEPT !.large_blob_array = array], Done(TRUE))
    ELSE Refused(m, "InvalidRecord")

MemorySetAttestation(m, r) ==
    IF validate_attestation(r)
    THEN After([m EXCEPT !.attestation = Some(r)], Done(TRUE))
    ELSE Refused(m, "InvalidRecord")

(* Sealing makes the key on first use, and, as the file store does, a      *)
(* default PIN state.                                                      *)
MemorySeal(m, plaintext, ad) ==
    LET fresh == m.credential_key = None
        root == IF fresh THEN m.generated + 1 ELSE m.credential_key[1]
    IN  After([m EXCEPT !.credential_key = Some(root),
                        !.generated = IF fresh THEN @ + 1 ELSE @,
                        !.pin_state = IF @ = None THEN Some(DefaultPinState) ELSE @],
              Done(SealedId(root, plaintext, ad)))

MemoryOpenId(m, sealed, ad) ==
    Done(IF m.credential_key = None THEN None
         ELSE OpenSealedId(m.credential_key[1], sealed, ad))
=============================================================================
