------------------------------- MODULE Codec -------------------------------
(***************************************************************************)
(* The encoding of records inside an envelope (store/codec.rs) and the     *)
(* decoder check of store/fuzzing.rs.                                      *)
(*                                                                         *)
(* An encoded record is the list of entries of a CBOR map, each a key and  *)
(* an item of some CBOR type, and two things a strict decoder refuses:     *)
(* something that is no map, and bytes after it.  A decoder takes every    *)
(* entry it knows and fails on the first fault of the encoding, whichever  *)
(* it is; so a format is the table of its fields, and a record decodes if  *)
(* every entry is one of the table's and every required one is there.      *)
(***************************************************************************)
EXTENDS Records

CONSTANTS U32_MAX,      \* the largest value of a 32-bit field
          U64_MAX       \* the largest value of a 64-bit field

ASSUME WidthsAreOrdered ==
    U32_MAX \in Nat /\ U64_MAX \in Nat /\ 255 < U32_MAX /\ U32_MAX <= U64_MAX

Bytes(len, b) == [t |-> "bytes", len |-> len, v |-> b]
Text(len, b) == [t |-> "text", len |-> len, v |-> b]
Integer(n) == [t |-> "int", v |-> n]
Bool(b) == [t |-> "bool", v |-> b]
Array(items) == [t |-> "array", v |-> items]
Map(entries) == [t |-> "map", v |-> entries]

Entry(k, item) == [key |-> Integer(k), item |-> item]
OptEntry(k, option, Item(_)) ==
    [i \in DOMAIN option |-> Entry(k, Item(option[i]))]

Encoded(entries) == [map |-> TRUE, trailing |-> FALSE, entries |-> entries]

---------------------------------------------------------------------------
(* Decoding: the fields of a map, and the table of a format.               *)

(* Fields::parse: a map, nothing after it, and distinct unsigned keys.     *)
Parses(bytes) ==
    /\ bytes.map
    /\ ~bytes.trailing
    /\ \A i \in DOMAIN bytes.entries :
          bytes.entries[i].key.t = "int" /\ bytes.entries[i].key.v >= 0
    /\ \A i, j \in DOMAIN bytes.entries :
          bytes.entries[i].key.v = bytes.entries[j].key.v => i = j

Keys(bytes) == {bytes.entries[i].key.v : i \in DOMAIN bytes.entries}

At(bytes, k) ==
    bytes.entries[CHOOSE i \in DOMAIN bytes.entries :
                     bytes.entries[i].key.v = k].item

Opt(bytes, k, Read(_)) ==
    IF k \in Keys(bytes) THEN Some(Read(At(bytes, k))) ELSE None

WithDefault(bytes, k, default) ==
    IF k \in Keys(bytes) THEN At(bytes, k).v ELSE default

Value(item) == item.v
Sized(item) == [len |-> item.len, b |-> item.v]

IsBytes(item) == item.t = "bytes"
IsText(item) == item.t = "text"
IsBool(item) == item.t = "bool"
IsArray(item, n) == item.t = "bytes" /\ item.len = n
IsInt(item, lo, hi) == item.t = "int" /\ item.v >= lo /\ item.v <= hi
IsList(item, Is(_)) == item.t = "array" /\ \A i \in DOMAIN item.v : Is(item.v[i])

(* The sub-map of a persistent token, read like a record.                  *)
IsToken(item) ==
    /\ item.t = "map"
    /\ LET fields == Encoded(item.v)
       IN  /\ Parses(fields) /\ Keys(fields) = {1, 2}
           /\ IsArray(At(fields, 1), 32) /\ IsBool(At(fields, 2))

Token(item) ==
    [secret |-> At(Encoded(item.v), 1).v, granted |-> At(Encoded(item.v), 2).v]

(* Every key is one of the format's, none required is missing, and every   *)
(* item is what the format says of its key.                                *)
Reads(bytes, required, optional, Field(_, _)) ==
    /\ Parses(bytes)
    /\ required \subseteq Keys(bytes)
    /\ Keys(bytes) \subseteq required \cup optional
    /\ \A k \in Keys(bytes) : Field(k, At(bytes, k))

Ok(value) == [corruption |-> "none", value |-> value]
Corrupt(reason) == [corruption |-> reason, value |-> << >>]

Validated(value, Valid(_)) == IF Valid(value) THEN Ok(value) ELSE Corrupt("Inconsistent")

---------------------------------------------------------------------------
(* Credential records.                                                     *)

KEY_TYPES == [P256Scalar |-> 1, Seed |-> 2, RsaPrimes |-> 3]

encode_credential(r, created_at) == Encoded(
    <<Entry(1, Bytes(1, r.credential_id)), Entry(2, Text(1, r.rp_id)),
      Entry(3, Bytes(1, r.user_id))>>
    \o OptEntry(4, r.user_name, LAMBDA name : Text(1, name))
    \o OptEntry(5, r.user_display_name, LAMBDA name : Text(1, name))
    \o <<Entry(6, Integer(r.alg)), Entry(7, Integer(KEY_TYPES[r.private_key.kind])),
         Entry(8, Bytes(KeyLength(r.private_key.kind), r.private_key.bytes)),
         Entry(9, Bytes(32, r.cred_random_with_uv)),
         Entry(10, Bytes(32, r.cred_random_without_uv)),
         Entry(11, Integer(r.cred_protect)), Entry(12, Integer(r.sign_count)),
         Entry(13, Integer(created_at))>>
    \o OptEntry(14, r.cred_blob, LAMBDA blob : Bytes(blob.len, blob.b))
    \o OptEntry(15, r.large_blob_key, LAMBDA key : Bytes(32, key))
    \o IF r.third_party_payment THEN <<Entry(16, Bool(TRUE))>> ELSE << >>)

KeyKind(key_type) ==
    CHOOSE kind \in DOMAIN KEY_TYPES : KEY_TYPES[kind] = key_type

CredentialField(k, item) ==
    CASE k \in {1, 3} -> IsBytes(item)
      [] k \in {2, 4, 5} -> IsText(item)
      [] k = 6 -> item.t = "int" /\ IsCoseAlg(item.v)
      [] k = 7 -> IsInt(item, 1, 3)
      [] k = 8 -> IsBytes(item)
      [] k \in {9, 10, 15} -> IsArray(item, 32)
      [] k = 11 -> IsInt(item, 0, 255)
      [] k = 12 -> IsInt(item, 0, U32_MAX)
      [] k = 13 -> IsInt(item, 0, U64_MAX)
      [] k = 14 -> IsBytes(item)
      [] k = 16 -> IsBool(item)

CredentialOf(bytes) ==
    [credential_id |-> At(bytes, 1).v, rp_id |-> At(bytes, 2).v,
     user_id |-> At(bytes, 3).v, user_name |-> Opt(bytes, 4, Value),
     user_display_name |-> Opt(bytes, 5, Value), alg |-> At(bytes, 6).v,
     private_key |-> KeyMaterial(KeyKind(At(bytes, 7).v), At(bytes, 8).v),
     cred_random_with_uv |-> At(bytes, 9).v,
     cred_random_without_uv |-> At(bytes, 10).v, cred_protect |-> At(bytes, 11).v,
     sign_count |-> At(bytes, 12).v, created_at |-> At(bytes, 13).v,
     cred_blob |-> Opt(bytes, 14, Sized), large_blob_key |-> Opt(bytes, 15, Value),
     third_party_payment |-> WithDefault(bytes, 16, FALSE)]

decode_credential(bytes) ==
    LET readable ==
            /\ Reads(bytes, (1 .. 13) \ {4, 5}, {4, 5, 14, 15, 16}, CredentialField)
            /\ At(bytes, 8).len = KeyLength(KeyKind(At(bytes, 7).v))
    IN  IF ~readable THEN Corrupt("Encoding")
        ELSE Validated(CredentialOf(bytes), validate_decoded_credential)

---------------------------------------------------------------------------
(* PIN states.  Keys 5 to 12 came later: a state written without them      *)
(* reads with their defaults.                                              *)

TokenItem(token) ==
    Map(<<Entry(1, Bytes(32, token.secret)), Entry(2, Bool(token.granted))>>)

encode_pin_state(s) == Encoded(
    OptEntry(1, s.pin_hash, LAMBDA hash : Bytes(16, hash))
    \o <<Entry(2, Integer(s.pin_retries)), Entry(3, Integer(s.consecutive_failures)),
         Entry(4, Bool(s.pin_auth_blocked)), Entry(5, Integer(s.min_pin_length)),
         Entry(6, Array([i \in DOMAIN s.min_pin_length_rp_ids |->
                            Text(s.min_pin_length_rp_ids[i].len,
                                 s.min_pin_length_rp_ids[i].b)])),
         Entry(7, Bool(s.force_pin_change)),
         Entry(8, Integer(s.pin_code_point_length)), Entry(9, Bool(s.always_uv)),
         Entry(10, Bool(s.pin_complexity_policy))>>
    \o OptEntry(11, s.persistent_tokens[1], TokenItem)
    \o OptEntry(12, s.persistent_tokens[2], TokenItem))

PinStateField(k, item) ==
    CASE k = 1 -> IsArray(item, 16)
      [] k \in {2, 3, 5, 8} -> IsInt(item, 0, 255)
      [] k \in {4, 7, 9, 10} -> IsBool(item)
      [] k = 6 -> IsList(item, IsText)
      [] k \in {11, 12} -> IsToken(item)

PinStateOf(bytes) ==
    [pin_hash |-> Opt(bytes, 1, Value), pin_retries |-> At(bytes, 2).v,
     consecutive_failures |-> At(bytes, 3).v, pin_auth_blocked |-> At(bytes, 4).v,
     min_pin_length |-> WithDefault(bytes, 5, DEFAULT_MIN_PIN_LENGTH),
     min_pin_length_rp_ids |->
        LET items == WithDefault(bytes, 6, << >>)
        IN  [i \in DOMAIN items |-> Sized(items[i])],
     force_pin_change |-> WithDefault(bytes, 7, FALSE),
     pin_code_point_length |-> WithDefault(bytes, 8, DEFAULT_MIN_PIN_LENGTH),
     always_uv |-> WithDefault(bytes, 9, FALSE),
     pin_complexity_policy |-> WithDefault(bytes, 10, FALSE),
     persistent_tokens |-> <<Opt(bytes, 11, Token), Opt(bytes, 12, Token)>>]

\* Variant: the rules of the record are not applied to what was read
\* (RoundTrips).
decode_pin_state_loosely(bytes) ==
    IF ~Reads(bytes, 2 .. 4, {1} \cup 5 .. 12, PinStateField) THEN Corrupt("Encoding")
    ELSE Ok(PinStateOf(bytes))

decode_pin_state(bytes) ==
    IF ~Reads(bytes, 2 .. 4, {1} \cup 5 .. 12, PinStateField) THEN Corrupt("Encoding")
    ELSE Validated(PinStateOf(bytes), validate_pin_state)

---------------------------------------------------------------------------
(* The attestation record, the signature counter, the large-blob array and *)
(* the list of members.                                                    *)

encode_attestation(r) == Encoded(
    <<Entry(1, Bytes(32, r.private_key)),
      Entry(2, Array([i \in DOMAIN r.certificate_chain |->
                         Bytes(r.certificate_chain[i].len,
                               r.certificate_chain[i].b)]))>>)

AttestationField(k, item) ==
    IF k = 1 THEN IsArray(item, 32) ELSE IsList(item, IsBytes)

AttestationOf(bytes) ==
    [private_key |-> At(bytes, 1).v,
     certificate_chain |->
        [i \in DOMAIN At(bytes, 2).v |-> Sized(At(bytes, 2).v[i])]]

decode_attestation(bytes) ==
    IF ~Reads(bytes, {1, 2}, {}, AttestationField) THEN Corrupt("Encoding")
    ELSE Validated(AttestationOf(bytes), validate_attestation)

encode_signature_counter(value) == Encoded(<<Entry(1, Integer(value))>>)

decode_signature_counter(bytes) ==
    IF ~Reads(bytes, {1}, {}, LAMBDA k, item : IsInt(item, 0, U32_MAX))
    THEN Corrupt("Encoding")
    ELSE Ok(At(bytes, 1).v)

encode_large_blob_array(array) == Encoded(<<Entry(1, Bytes(array.len, array))>>)

decode_large_blob_array(bytes) ==
    IF ~Reads(bytes, {1}, {}, LAMBDA k, item : IsBytes(item))
    THEN Corrupt("Encoding")
    ELSE Validated([At(bytes, 1).v EXCEPT !.len = At(bytes, 1).len],
                   validate_large_blob_array)

---------------------------------------------------------------------------
(* store/fuzzing.rs: run an input through the decoder of an object; what   *)
(* decodes must encode again, and decode to the same value.                *)

Decode(object, bytes) ==
    CASE object = "Credential" -> decode_credential(bytes)
      [] object = "PinState" -> decode_pin_state(bytes)
      [] object = "Attestation" -> decode_attestation(bytes)
      [] object = "SignatureCounter" -> decode_signature_counter(bytes)
      [] object = "LargeBlobArray" -> decode_large_blob_array(bytes)

Encode(object, value) ==
    CASE object = "Credential" -> encode_credential(value, value.created_at)
      [] object = "PinState" -> encode_pin_state(value)
      [] object = "Attestation" -> encode_attestation(value)
      [] object = "SignatureCounter" -> encode_signature_counter(value)
      [] object = "LargeBlobArray" -> encode_large_blob_array(value)

Encodes(object, value) ==
    CASE object = "PinState" -> validate_pin_state(value)
      [] object = "LargeBlobArray" -> validate_large_blob_array(value)
      [] OTHER -> TRUE

Again(object, decoded) ==
    decoded.corruption = "none" =>
        /\ Encodes(object, decoded.value)
        /\ Decode(object, Encode(object, decoded.value)) = decoded

round_trip(object, bytes) == Again(object, Decode(object, bytes))
=============================================================================
