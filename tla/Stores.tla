------------------------------- MODULE Stores -------------------------------
(***************************************************************************)
(* The file-backed and the in-memory store given the same operations, the  *)
(* credential IDs the engine makes over a store (ctap/credential_id.rs,    *)
(* ctap/make_credential.rs), and files that are damaged, lost, misplaced   *)
(* or restored from a copy between two operations.                         *)
(*                                                                         *)
(* A behaviour belongs to a case: "set" works on credentials, "objects" on *)
(* the other objects, "ids" registers through the engine; "faults" adds    *)
(* faults of any file and "lost key" those of the key files.               *)
(***************************************************************************)
EXTENDS ObjectStore

CONSTANTS Cases,            \* the cases explored
          Credentials,      \* records given to put and insert
          FewCredentials,   \* those given to them among faults
          PinStates, Counters, Arrays, Attestations,
          Rps, Algs,        \* what registrations ask for
          MaxOrder,         \* bound: creation orders
          MaxKeys,          \* bound: keys generated
          MaxFaults,        \* bound: faults in a behaviour
          MaxSteps,         \* bound: operations in a behaviour with faults
          MaxMade           \* bound: registrations in a behaviour

VARIABLES case, file, memory, last, sealed, written, backup, faults, steps, made

storeVars ==
    <<case, file, memory, last, sealed, written, backup, faults, steps, made>>

NothingWritten ==
    [credential |-> {}, pin |-> {DefaultPinState}, counter |-> {0},
     array |-> {INITIAL_LARGE_BLOB_ARRAY}, attestation |-> {}]

NewFileStore == [files |-> << >>, dirs |-> {}, generated |-> 0]

StoresInit ==
    /\ case \in Cases
    /\ file = FileOpen(NewFileStore)
    /\ memory = NewMemoryStore
    /\ last = [file |-> Done(TRUE), memory |-> Done(TRUE)]
    /\ sealed = {}
    /\ written = NothingWritten
    /\ backup = None
    /\ faults = 0
    /\ steps = 0
    /\ made = {}

---------------------------------------------------------------------------
(* One operation on both stores.  An operation the file store refuses for  *)
(* want of its key is not done on the other either.                        *)

Faultless == case \in {"set", "objects"}

Step ==
    /\ steps < MaxSteps
    /\ steps' = IF case \in {"faults", "lost key"} THEN steps + 1 ELSE steps

Operate(f, m) ==
    /\ Step
    /\ file' = f.store
    /\ memory' = IF f.result.error = "KeyUnavailable" THEN memory ELSE m.store
    /\ last' = IF Faultless THEN [file |-> f.result, memory |-> m.result] ELSE last
    /\ UNCHANGED <<case, backup, faults>>

(* A write, remembered among faults.                                       *)
Write(what, value, f, m) ==
    /\ Operate(f, m)
    /\ written' = IF Faultless \/ f.result.error # "none" THEN written
                  ELSE [written EXCEPT ![what] = @ \cup {value}]
    /\ UNCHANGED <<sealed, made>>

In(cases) == case \in cases

SetCases == {"set", "faults", "lost key"}
ObjectCases == {"objects", "faults", "lost key"}

(* What a record looks like whatever its place in the order.               *)
Unordered(r) == [r EXCEPT !.created_at = 0]

Put(r) ==
    /\ In(SetCases) /\ (Faultless \/ r \in FewCredentials)
    /\ Write("credential", Unordered(r), FilePut(file, r), MemoryPut(memory, r))
    /\ next_created_at(memory.credentials) <= MaxOrder

Insert(r) ==
    /\ In(SetCases) /\ (Faultless \/ r \in FewCredentials)
    /\ Write("credential", Unordered(r), FileInsert(file, r), MemoryInsert(memory, r))
    /\ next_created_at(memory.credentials) <= MaxOrder

Delete(id) ==
    /\ In({"set", "ids"})
    /\ Operate(FileDelete(file, id), MemoryDelete(memory, id))
    /\ made' = {[c EXCEPT !.live = @ /\ c.record.credential_id # id] : c \in made}
    /\ UNCHANGED <<sealed, written>>

Clear ==
    /\ Step
    /\ file.generated < MaxKeys
    /\ file' = FileClear(file).store
    /\ memory' = MemoryClear(memory).store
    /\ last' = [file |-> Done(TRUE), memory |-> Done(TRUE)]
    /\ written' = [NothingWritten EXCEPT !.attestation = written.attestation]
    /\ made' = {[c EXCEPT !.live = FALSE] : c \in made}
    /\ UNCHANGED <<case, sealed, backup, faults>>

SetPinState(state) ==
    /\ In(ObjectCases) /\ (Faultless \/ validate_pin_state(state))
    /\ Write("pin", state, FileSetPinState(file, state), MemorySetPinState(memory, state))

SetCounter(value) ==
    /\ In(ObjectCases)
    /\ Write("counter", value, FileSetCounter(file, value), MemorySetCounter(memory, value))

SetLargeBlobs(array) ==
    /\ In(ObjectCases) /\ (Faultless \/ validate_large_blob_array(array))
    /\ Write("array", array, FileSetLargeBlobs(file, array), MemorySetLargeBlobs(memory, array))

SetAttestation(r) ==
    /\ In(ObjectCases) /\ (Faultless \/ validate_attestation(r))
    /\ Write("attestation", r, FileSetAttestation(file, r), MemorySetAttestation(memory, r))

(* Another process, or the next start, opens the store.                    *)
Reopen ==
    /\ Step
    /\ file' = FileOpen(file)
    /\ file'.generated <= MaxKeys
    /\ UNCHANGED <<case, memory, last, sealed, written, backup, faults, made>>

Sealed(ad, f, m) ==
    /\ Operate([f EXCEPT !.result.value = TRUE], [m EXCEPT !.result.value = TRUE])
    /\ sealed' = IF f.result.error # "none" THEN sealed
                 ELSE sealed \cup {[file |-> f.result.value, memory |-> m.result.value]}
    /\ UNCHANGED <<written, made>>

Seal(ad) ==
    /\ In({"objects", "lost key"})
    /\ Cardinality(sealed) < MaxMade
    /\ Sealed(ad, FileSeal(file, "secret", ad), MemorySeal(memory, "secret", ad))

---------------------------------------------------------------------------
(* Registration: a credential that is discoverable, enabled for payment,   *)
(* or of an algorithm that does not fit is stored; any other is sealed     *)
(* into its own ID, bound to the hash of its relying party.                *)

(* An i8 as the byte it is stored in, and that byte read as an i8.         *)
\* Variant: the byte is read as unsigned (MadeIsFound).
AsU8(byte) == byte

AsByte(n) == n % 256
AsI8(byte) == IF byte > 127 THEN byte - 256 ELSE byte

sealed_associated_data(rp_id) == [context |-> "pqkey/v2/sealed-credential-id", rp |-> rp_id]

Randoms(r, seed, of) ==
    [r EXCEPT !.cred_random_with_uv = <<seed, of, "with-uv">>,
              !.cred_random_without_uv = <<seed, of, "without-uv">>]

NewRecord(rp, alg, payment, n) ==
    [credential_id |-> CredentialId("empty", [random |-> n]), rp_id |-> rp,
     user_id |-> "user", user_name |-> None, user_display_name |-> None,
     alg |-> alg, private_key |-> KeyMaterial(key_kind(alg), n),
     cred_random_with_uv |-> << >>, cred_random_without_uv |-> << >>,
     cred_blob |-> None, large_blob_key |-> None, third_party_payment |-> payment,
     cred_protect |-> 1 + (n % 3), sign_count |-> 0, created_at |-> 0]

(* The ID carries the algorithm, the policy, the key and a seed.           *)
seal_credential(s, r, seed) ==
    IF r.third_party_payment \/ ~is_sealable(r.alg) \/ r.alg \notin -128 .. 127
    THEN Refused(s, "PROCESSING")
    ELSE FileSeal(s, [alg |-> AsByte(r.alg), cred_protect |-> r.cred_protect,
                      key |-> r.private_key.bytes, seed |-> seed],
                  sealed_associated_data(r.rp_id))

(* sealed_credential: the credential that such contents describe.          *)
SealedCredential(id, rp, p) ==
    LET alg == AsI8(p.alg)
        r == Randoms([NewRecord(rp, alg, FALSE, 0) EXCEPT
                         !.credential_id = id, !.user_id = "",
                         !.private_key = KeyMaterial(key_kind(alg), p.key),
                         !.cred_protect = p.cred_protect], p.seed, "sealed")
    IN  IF IsCoseAlg(alg) /\ is_sealable(alg) /\ validate_credential(r)
        THEN Some(r)
        ELSE None

(* A record that cannot be read is as good as none.                        *)
stored_credential(s, id, Filter(_)) ==
    LET Tolerant(found) ==
            IF found.error = "Corrupt" THEN Done(None)
            ELSE IF Found(found) /\ ~Filter(found.value[1]) THEN Done(None)
            ELSE found
    IN  Tolerant(FileGet(s, id))

credential_for_rp(s, id, rp) ==
    LET Described(opened) ==
            IF Found(opened) THEN Done(SealedCredential(id, rp, opened.value[1]))
            ELSE opened
    IN  IF is_sealed(id)
        THEN Described(FileOpenId(s, id.n, sealed_associated_data(rp)))
        ELSE stored_credential(s, id, LAMBDA r : r.rp_id = rp)

StoredRecord(rp, alg, rk, payment, n) ==
    LET r == Randoms(NewRecord(rp, alg, payment, n), n, "stored")
        form == IF rk THEN "discoverable" ELSE "stored"
    IN  [r EXCEPT !.credential_id = CredentialId(form, [random |-> n]),
                  !.user_id = IF rk THEN @ ELSE ""]

IsStored(alg, rk, payment) == rk \/ payment \/ ~is_sealable(alg)

(* `made` keeps every credential that was registered, and whether it still *)
(* is: a discoverable one replaces those of its account.                   *)
Retire(gone) == {[c EXCEPT !.live = @ /\ c.record \notin gone] : c \in made}

Registered(record, f, replaced) ==
    /\ file' = f.store
    /\ made' = IF f.result.error # "none" THEN made
               ELSE Retire(replaced)
                    \cup {[live |-> TRUE,
                           record |-> IF record.credential_id.form # "empty" THEN record
                                      ELSE [record EXCEPT !.credential_id =
                                               CredentialId("sealed", f.result.value)]]}
    /\ UNCHANGED <<case, memory, last, sealed, written, backup, faults, steps>>

RegisterDiscoverable(r) ==
    Registered(r, FileInsert(file, r), SameAccount({c.record : c \in made}, r))
RegisterStored(r) == Registered(r, FilePut(file, r), {})
RegisterSealed(r, seed) == Registered(r, seal_credential(file, r, seed), {})

Register(rp, alg, rk, payment) ==
    /\ In({"ids"})
    /\ Cardinality(made) < MaxMade
    /\ LET n == Cardinality(made) + 1
       IN  IF rk THEN RegisterDiscoverable(StoredRecord(rp, alg, rk, payment, n))
           ELSE IF IsStored(alg, rk, payment)
           THEN RegisterStored(StoredRecord(rp, alg, rk, payment, n))
           ELSE RegisterSealed(Randoms([NewRecord(rp, alg, payment, n)
                                           EXCEPT !.user_id = ""], n, "sealed"), n)

---------------------------------------------------------------------------
(* Faults of files: bytes change, a file is cut short or lost, one file is *)
(* copied over another, or a file comes back from a copy of the directory. *)

IsKeyFile(path) == path.dir = "keys"

Faulty(path) == IF case = "lost key" THEN IsKeyFile(path) ELSE case = "faults"

Fault(files) ==
    /\ faults < MaxFaults
    /\ faults' = faults + 1
    /\ file' = [file EXCEPT !.files = files]
    /\ UNCHANGED <<case, memory, last, sealed, written, backup, steps, made>>

Damage(path) ==
    /\ Faulty(path)
    /\ \E contents \in IF IsKeyFile(path)
                        THEN {[len |-> 0, root |-> 0], [len |-> 32, root |-> 0]}
                        ELSE {[file.files[path] EXCEPT !.length = "short"],
                              [file.files[path] EXCEPT !.intact = FALSE]} :
          Fault([file.files EXCEPT ![path] = contents])

Lose(path) == Faulty(path) /\ Fault(Restrict(file.files, DOMAIN file.files \ {path}))

Misplace(from, to) ==
    /\ case = "faults" /\ from # to /\ faults = 0
    /\ IsKeyFile(from) = IsKeyFile(to)
    /\ Fault([file.files EXCEPT ![to] = file.files[from]])

Copy ==
    /\ Step
    /\ case \in {"faults", "lost key"} /\ backup = None
    /\ faults = 0
    /\ backup' = Some(file)
    /\ UNCHANGED <<case, file, memory, last, sealed, written, faults, made>>

(* A key file comes back only if no key was made since: an older key with  *)
(* its files is an older store.                                            *)
Restore(path) ==
    /\ Faulty(path)
    /\ IsKeyFile(path) => backup[1].generated = file.generated
    /\ Fault((path :> backup[1].files[path]) @@ file.files)

---------------------------------------------------------------------------
StoresNext ==
    \/ \E r \in Credentials : Put(r) \/ Insert(r) \/ Delete(r.credential_id)
    \/ \E c \in made : ~is_sealed(c.record.credential_id) /\ Delete(c.record.credential_id)
    \/ Clear
    \/ Reopen
    \/ \E state \in PinStates : SetPinState(state)
    \/ \E value \in Counters : SetCounter(value)
    \/ \E array \in Arrays : SetLargeBlobs(array)
    \/ \E r \in Attestations : SetAttestation(r)
    \/ \E ad \in Rps : Seal(ad)
    \/ \E rp \in Rps, alg \in Algs, rk, payment \in BOOLEAN :
          Register(rp, alg, rk, payment)
    \/ \E path \in DOMAIN file.files : Damage(path) \/ Lose(path)
    \/ \E from, to \in DOMAIN file.files : Misplace(from, to)
    \/ Copy
    \/ backup # None /\ \E path \in DOMAIN backup[1].files : Restore(path)

---------------------------------------------------------------------------
(* Properties.                                                             *)

Same(f, m) == f.error = m.error /\ (f.error = "none" => f.value = m.value)

OpensAlike(s) ==
    \A ad \in Rps : Same(FileOpenId(file, s.file, ad), MemoryOpenId(memory, s.memory, ad))

(* "Every implementation must behave identically" (store/mod.rs): after    *)
(* any sequence of operations, resets and reopenings the file-backed store *)
(* and the in-memory store gave the last operation the same result, and    *)
(* every read of one finds what the same read of the other finds.          *)
InStep ==
    case \in {"set", "objects"} =>
        /\ Same(last.file, last.memory)
        /\ \A r \in Credentials :
              Same(FileGet(file, r.credential_id), MemoryGet(memory, r.credential_id))
        /\ Same(FileList(file), MemoryList(memory))
        /\ Same(FileCount(file), MemoryCount(memory))
        /\ Same(FilePinState(file), Done(memory.pin_state))
        /\ Same(FileCounter(file), Done(memory.signature_counter))
        /\ Same(FileLargeBlobs(file), Done(memory.large_blob_array))
        /\ Same(FileAttestation(file), Done(memory.attestation))
        /\ \A s \in sealed : OpensAlike(s)

Genuine(result, Given(_)) ==
    result.error = "none" => \A i \in DOMAIN result.value : Given(result.value[i])

(* envelope.rs binds every object to its key, type and name: however files *)
(* are damaged, lost, copied over one another or brought back from an      *)
(* older copy, a read returns an error, nothing, or something the store    *)
(* was given for that very object since the last reset.                    *)
AuthenticObjects ==
    case = "faults" =>
        /\ \A r \in Credentials :
              Genuine(FileGet(file, r.credential_id),
                      LAMBDA c : /\ c.credential_id = r.credential_id
                                 /\ Unordered(c) \in written.credential)
        /\ Genuine(FilePinState(file), LAMBDA s : s \in written.pin)
        /\ Genuine(FileAttestation(file), LAMBDA a : a \in written.attestation)
        /\ FileCounter(file).error = "none" => FileCounter(file).value \in written.counter
        /\ FileLargeBlobs(file).error = "none" =>
              FileLargeBlobs(file).value \in written.array

Reported(f, m) == f.error = "KeyUnavailable" \/ Same(f, m)

(* A root key that is lost, cut short or zeroed is reported and never      *)
(* silently replaced while anything depends on it, credential IDs sealed   *)
(* under it and kept by relying parties included (file.rs, has_data and    *)
(* seal_credential_id): every read agrees with the in-memory store or says *)
(* that the key is unavailable, so that what the key protects is there     *)
(* again when the key file is.                                             *)
LostKeyReported ==
    case = "lost key" =>
        /\ \A r \in Credentials : Reported(FileGet(file, r.credential_id),
                                           MemoryGet(memory, r.credential_id))
        /\ Reported(FileList(file), MemoryList(memory))
        /\ Reported(FilePinState(file), Done(memory.pin_state))
        /\ Reported(FileCounter(file), Done(memory.signature_counter))
        /\ Reported(FileLargeBlobs(file), Done(memory.large_blob_array))
        /\ Reported(FileAttestation(file), Done(memory.attestation))
        /\ \A s \in sealed, ad \in Rps : Reported(FileOpenId(file, s.file, ad),
                                                 MemoryOpenId(memory, s.memory, ad))

(* The file-backed store behaves as the in-memory one, damage excepted:    *)
(* after any sequence of operations, resets and reopenings both give the   *)
(* same results; with any of its files damaged, what it reads is what it   *)
(* was given or an error; and with the key lost, nothing but the error     *)
(* that says so, so that all is there again when the key is.               *)
StoresAgree == InStep /\ AuthenticObjects /\ LostKeyReported

AsMade(c, rp, found) ==
    /\ found.error = "none"
    /\ found.value # None <=> c.live /\ rp = c.record.rp_id
    /\ \A i \in DOMAIN found.value : Unordered(found.value[i]) = c.record

(* A registered credential, stored or sealed into its ID, is found under   *)
(* that ID for its relying party with the algorithm, key, policy and       *)
(* hmac-secret values it was made with, and for no other relying party;    *)
(* one that was deleted, replaced or made before a reset is not found      *)
(* (ctap/credential_id.rs, credential_for_rp).                             *)
MadeIsFound ==
    case = "ids" =>
        \A c \in made, rp \in Rps :
            AsMade(c, rp, credential_for_rp(file, c.record.credential_id, rp))
=============================================================================
