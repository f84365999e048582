------------------------------ MODULE Records ------------------------------
(***************************************************************************)
(* The records a credential store keeps, the algorithms their keys belong  *)
(* to, the forms of a credential ID, and the rules every record obeys when *)
(* it is written and when it is read back (store/record.rs, crypto/alg.rs, *)
(* credential_id.rs, store/mod.rs, store/large_blobs.rs).                  *)
(*                                                                         *)
(* An optional field is a sequence of length zero or one.  Byte strings    *)
(* carry the length the rules look at and an abstract content.  Random     *)
(* secrets of a record (its CredRandom values) are one field.              *)
(***************************************************************************)
EXTENDS Integers, Sequences, FiniteSets

Some(v) == <<v>>
None == << >>

---------------------------------------------------------------------------
(* Algorithms: the identifier and the scheme of each, in getInfo's order.  *)

Alg(identifier, scheme) == [identifier |-> identifier, scheme |-> scheme]

ALL ==
    << Alg(-7, <<"Ecdsa", "P256">>),      Alg(-48, <<"MlDsa", "44">>),
       Alg(-49, <<"MlDsa", "65">>),       Alg(-50, <<"MlDsa", "87">>),
       Alg(-9, <<"Ecdsa", "P256">>),      Alg(-35, <<"Ecdsa", "P384">>),
       Alg(-51, <<"Ecdsa", "P384">>),     Alg(-36, <<"Ecdsa", "P521">>),
       Alg(-52, <<"Ecdsa", "P521">>),     Alg(-47, <<"Ecdsa", "Secp256k1">>),
       Alg(-8, <<"EdDsa", "Ed25519">>),   Alg(-19, <<"EdDsa", "Ed25519">>),
       Alg(-53, <<"EdDsa", "Ed448">>),    Alg(-257, <<"Rsa", "Pkcs1v15", "256">>),
       Alg(-258, <<"Rsa", "Pkcs1v15", "384">>),
       Alg(-259, <<"Rsa", "Pkcs1v15", "512">>),
       Alg(-37, <<"Rsa", "Pss", "256">>), Alg(-38, <<"Rsa", "Pss", "384">>),
       Alg(-39, <<"Rsa", "Pss", "512">>),
       Alg(-265, <<"Ecdsa", "BrainpoolP256r1">>),
       Alg(-267, <<"Ecdsa", "BrainpoolP384r1">>) >>

(* CoseAlg::try_from: whether an identifier is one of the table's.         *)
IsCoseAlg(identifier) == \E i \in DOMAIN ALL : ALL[i].identifier = identifier

Scheme(identifier) ==
    ALL[CHOOSE i \in DOMAIN ALL : ALL[i].identifier = identifier].scheme

key_kind(identifier) ==
    LET scheme == Scheme(identifier)
    IN  CASE scheme = <<"Ecdsa", "P256">> -> "P256Scalar"
          [] scheme[1] = "Rsa" -> "RsaPrimes"
          [] OTHER -> "Seed"

fits_sealed_key_field(kind) == kind # "RsaPrimes"

(* Only an algorithm whose key fits the 32-byte field and whose identifier *)
(* fits a signed byte can live in a sealed credential ID.                  *)
is_sealable(identifier) ==
    /\ fits_sealed_key_field(key_kind(identifier))
    /\ identifier \in -128 .. 127

---------------------------------------------------------------------------
(* Key material.  `bytes` is an abstract key: ZERO is no P-256 scalar and  *)
(* no pair of primes, UNRELATED a pair of numbers that look like primes    *)
(* and form no RSA key.                                                    *)

ZERO == 0
UNRELATED == -1

KeyMaterial(kind, bytes) == [kind |-> kind, bytes |-> bytes]

KeyLength(kind) == IF kind = "RsaPrimes" THEN 256 ELSE 32

ValidKey(key, rebuild_rsa_key) ==
    CASE key.kind = "P256Scalar" -> key.bytes # ZERO
      [] key.kind = "RsaPrimes" ->
            key.bytes # ZERO /\ (rebuild_rsa_key => key.bytes # UNRELATED)
      [] key.kind = "Seed" -> TRUE

---------------------------------------------------------------------------
(* Credential IDs.  `form` stands for the length and the marker byte, `n`  *)
(* for the rest: random bytes, or a sealed credential.                     *)

CredentialId(form, n) == [form |-> form, n |-> n]

is_sealed(id) == id.form = "sealed"

is_discoverable(id) == id.form \notin {"sealed", "stored"}

---------------------------------------------------------------------------
(* What a credential record must satisfy to be written (rebuild_rsa_key)   *)
(* and to be read back.                                                    *)

MAX_CRED_BLOB_LENGTH == 32

check_credential(r, rebuild_rsa_key) ==
    /\ r.credential_id.form # "empty"
    /\ is_sealed(r.credential_id) =>
            is_sealable(r.alg) /\ ~r.third_party_payment
    /\ r.private_key.kind = key_kind(r.alg)
    /\ ValidKey(r.private_key, rebuild_rsa_key)
    /\ \A i \in DOMAIN r.cred_blob : r.cred_blob[i].len <= MAX_CRED_BLOB_LENGTH
    /\ r.large_blob_key # None => is_discoverable(r.credential_id)
    /\ r.cred_protect \in 1 .. 3

validate_credential(r) == check_credential(r, TRUE)
validate_decoded_credential(r) == check_credential(r, FALSE)

(* The creation order of a new record: one more than the newest.           *)
next_created_at(records) ==
    IF records = {} THEN 1
    ELSE 1 + CHOOSE newest \in {r.created_at : r \in records} :
                 \A r \in records : r.created_at <= newest

(* Most recently created first; creation orders are unique in a store.     *)
sort_newest_first(records) ==
    LET Newer(r) == {s \in records : s.created_at > r.created_at}
    IN  [i \in 1 .. Cardinality(records) |->
            CHOOSE r \in records : Cardinality(Newer(r)) = i - 1]

---------------------------------------------------------------------------
(* The PIN state.                                                          *)

MAX_PIN_RETRIES == 8
DEFAULT_MIN_PIN_LENGTH == 4
MAX_PIN_LENGTH == 63
MAX_MIN_PIN_LENGTH_RP_IDS == 8
MAX_RP_ID_LENGTH == 253

DefaultPinState ==
    [pin_hash |-> None, pin_retries |-> MAX_PIN_RETRIES,
     consecutive_failures |-> 0, pin_auth_blocked |-> FALSE,
     min_pin_length |-> DEFAULT_MIN_PIN_LENGTH, min_pin_length_rp_ids |-> << >>,
     force_pin_change |-> FALSE, pin_code_point_length |-> DEFAULT_MIN_PIN_LENGTH,
     always_uv |-> FALSE, pin_complexity_policy |-> FALSE,
     persistent_tokens |-> <<None, None>>]

(* A persistent token is [secret, granted]; the secret "zero" is all zeros.*)
ValidToken(state, token) ==
    /\ token.secret # "zero"
    /\ token.granted => state.pin_hash # None /\ ~state.force_pin_change

validate_pin_state(state) ==
    LET lengths == DEFAULT_MIN_PIN_LENGTH .. MAX_PIN_LENGTH
    IN  /\ state.min_pin_length \in lengths
        /\ state.pin_code_point_length \in lengths
        /\ Len(state.min_pin_length_rp_ids) <= MAX_MIN_PIN_LENGTH_RP_IDS
        /\ \A i \in DOMAIN state.min_pin_length_rp_ids :
              state.min_pin_length_rp_ids[i].len <= MAX_RP_ID_LENGTH
        /\ \A p \in 1 .. 2 : \A i \in DOMAIN state.persistent_tokens[p] :
              ValidToken(state, state.persistent_tokens[p][i])

---------------------------------------------------------------------------
(* The attestation record and the serialized large-blob array.             *)

validate_attestation(r) ==
    /\ r.private_key # "zero"
    /\ Len(r.certificate_chain) > 0
    /\ \A i \in DOMAIN r.certificate_chain : r.certificate_chain[i].len > 0

MAX_SERIALIZED_LARGE_BLOB_ARRAY == 16384

(* `hash` says whether the last sixteen bytes are the hash of the others.  *)
INITIAL_LARGE_BLOB_ARRAY == [len |-> 17, b |-> "initial", hash |-> TRUE]

validate_large_blob_array(array) ==
    array.len \in 17 .. MAX_SERIALIZED_LARGE_BLOB_ARRAY /\ array.hash
=============================================================================
