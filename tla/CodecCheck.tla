----------------------------- MODULE CodecCheck -----------------------------
(***************************************************************************)
(* The decoder check of store/fuzzing.rs: valid encodings of every record, *)
(* those of earlier versions included, edited a few times and given to the *)
(* decoder of their object.                                                *)
(***************************************************************************)
EXTENDS Codec

CONSTANT MaxEdits       \* bound: edits of one input

VARIABLE input

---------------------------------------------------------------------------
(* The seeds.                                                              *)

known_answer ==
    [credential_id |-> CredentialId("unmarked", [random |-> 0]), rp_id |-> "example",
     user_id |-> "id", user_name |-> Some("alice"), user_display_name |-> None,
     alg |-> -48, private_key |-> KeyMaterial("Seed", 20),
     cred_random_with_uv |-> "aa", cred_random_without_uv |-> "bb",
     cred_blob |-> None, large_blob_key |-> None, third_party_payment |-> FALSE,
     cred_protect |-> 2, sign_count |-> 300, created_at |-> 700]

es256 ==
    [known_answer EXCEPT !.credential_id = CredentialId("stored", [random |-> 11]),
        !.user_id = "", !.user_name = None, !.alg = -7,
        !.private_key = KeyMaterial("P256Scalar", 40)]

credentials ==
    {known_answer, es256,
     [es256 EXCEPT !.alg = -257, !.private_key = KeyMaterial("RsaPrimes", 1),
        !.third_party_payment = TRUE],
     [es256 EXCEPT !.credential_id = CredentialId("sealed", [random |-> 33]),
        !.alg = -35, !.private_key = KeyMaterial("Seed", 60), !.cred_protect = 3,
        !.sign_count = 0, !.created_at = 0],
     [known_answer EXCEPT !.credential_id = CredentialId("discoverable", [random |-> 44]),
        !.user_display_name = Some("Alice"), !.alg = -50,
        !.cred_blob = Some([len |-> 32, b |-> "blob"]), !.large_blob_key = Some("d0"),
        !.third_party_payment = TRUE, !.cred_protect = 1,
        !.sign_count = U32_MAX, !.created_at = U64_MAX],
     [known_answer EXCEPT !.alg = -53, !.cred_blob = Some([len |-> 0, b |-> ""])]}

PersistentToken(secret, granted) == Some([secret |-> secret, granted |-> granted])

configured ==
    [pin_hash |-> Some("hash"), pin_retries |-> 5, consecutive_failures |-> 2,
     pin_auth_blocked |-> FALSE, min_pin_length |-> 8,
     min_pin_length_rp_ids |-> <<[len |-> 11, b |-> "example"], [len |-> 1, b |-> "a"]>>,
     force_pin_change |-> FALSE, pin_code_point_length |-> 6, always_uv |-> TRUE,
     pin_complexity_policy |-> TRUE,
     persistent_tokens |-> <<PersistentToken("61", TRUE), PersistentToken("62", FALSE)>>]

pin_states == {DefaultPinState, configured}

(* The first keys of a PIN state, as earlier versions wrote them.          *)
Legacy(state, newest) ==
    Encoded(SelectSeq(encode_pin_state(state).entries, LAMBDA e : e.key.v <= newest))

attestation ==
    [private_key |-> "42", certificate_chain |-> <<[len |-> 4, b |-> "x"],
                                                   [len |-> 4, b |-> "y"]>>]

Seed(object, bytes) == [object |-> object, bytes |-> bytes, edits |-> 0]

seeds ==
    {Seed("Credential", encode_credential(r, r.created_at)) : r \in credentials}
    \cup {Seed("PinState", encode_pin_state(s)) : s \in pin_states}
    \cup {Seed("PinState", Legacy(configured, newest)) : newest \in {4, 9}}
    \cup {Seed("Attestation", encode_attestation(attestation))}
    \cup {Seed("SignatureCounter", encode_signature_counter(v)) : v \in {700, U32_MAX}}
    \cup {Seed("LargeBlobArray", encode_large_blob_array(a)) :
             a \in {INITIAL_LARGE_BLOB_ARRAY, [len |-> 1024, b |-> "cycle", hash |-> TRUE]}}

---------------------------------------------------------------------------
(* The edits: of the frame, of the entries and of an item.                 *)

Lengths == {0, 16, 31, 32, 33, 256}
Numbers == {-265, -7, 0, 1, 3, 4, 63, 64, 255, 256, U32_MAX + 1, U64_MAX + 1}

ItemEdits(item) ==
    CASE item.t \in {"bytes", "text"} -> {[item EXCEPT !.len = n] : n \in Lengths}
      [] item.t = "int" -> {Integer(n) : n \in Numbers}
      [] item.t = "bool" -> {Bool(~item.v)}
      [] item.t = "array" ->
            {Array(SubSeq(item.v, 1, n)) : n \in 0 .. Len(item.v)}
            \cup {Array(item.v \o [i \in 1 .. n |-> Text(len, "rp")]) :
                     n \in {7, 9}, len \in {253, 254}}
      [] item.t = "map" ->
            {Map(<<Entry(1, Bytes(32, secret)), Entry(2, Bool(granted))>>) :
                secret \in {"zero", "61"}, granted \in BOOLEAN}

OtherType(item) == IF item.t = "int" THEN Bool(TRUE) ELSE Integer(1)

Entries == input.bytes.entries

Edit(bytes) ==
    /\ input.edits < MaxEdits
    /\ input' = [input EXCEPT !.bytes = bytes, !.edits = @ + 1]

EditEntries(entries) == Edit([input.bytes EXCEPT !.entries = entries])

CodecNext ==
    \/ \E trailing \in BOOLEAN :
          Edit([input.bytes EXCEPT !.map = trailing, !.trailing = trailing])
    \/ \E i \in DOMAIN Entries :
          \/ EditEntries([j \in 1 .. Len(Entries) - 1 |-> Entries[IF j < i THEN j ELSE j + 1]])
          \/ EditEntries(Append(Entries, Entries[i]))
          \/ \E k \in {-1, 5, 13, 17} : EditEntries([Entries EXCEPT ![i].key = Integer(k)])
          \/ EditEntries([Entries EXCEPT ![i].key = Text(1, "1")])
          \/ \E item \in ItemEdits(Entries[i].item) :
                EditEntries([Entries EXCEPT ![i].item = item])
          \/ EditEntries([Entries EXCEPT ![i].item = OtherType(@)])

CodecInit == input \in seeds

(* A record that decodes encodes again, and the encoding decodes to an     *)
(* equal record (store/fuzzing.rs, check): no field is lost, no default    *)
(* comes back as something else, and the decoder accepts nothing the       *)
(* encoder refuses, for records of earlier versions too.                   *)
RoundTrips == round_trip(input.object, input.bytes)
=============================================================================
