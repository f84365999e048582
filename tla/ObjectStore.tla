---------------------------- MODULE ObjectStore ----------------------------
(***************************************************************************)
(* The file-backed credential store seen as the objects it keeps           *)
(* (store/file.rs over store/keys.rs, store/envelope.rs and                *)
(* store/codec.rs): which key an operation runs under and when one is      *)
(* made, what an envelope is bound to, where a record lives before and     *)
(* after the move to the managed layout, and what a reader accepts.        *)
(* Writes and flushes succeed here; what a crash or a failing flush leaves *)
(* is the subject of CredentialStore.                                      *)
(*                                                                         *)
(* A store is [files, dirs, generated]: the contents of every file by its  *)
(* path, the credential directories that exist, and the number of keys     *)
(* generated so far, which also names the newest.                          *)
(***************************************************************************)
EXTENDS MemoryStore, Codec, Functions, TLC

Domains == <<"device", "credential">>

Path(dir, name) == [dir |-> dir, name |-> name]
Named(file) == [file |-> file]

KeyFile(domain) == Path("keys", Named(domain))
PIN_STATE_FILE == Path("", Named("pin-state"))
SIGNATURE_COUNTER_FILE == Path("", Named("signature-counter"))
LARGE_BLOBS_FILE == Path("", Named("large-blobs"))
ATTESTATION_FILE == Path("", Named("attestation"))
FORMAT_FILE == Path("", Named("credential-format"))
ACTIVE_FILE == Path("credential-set", Named("active"))

Exists(s, path) == path \in DOMAIN s.files

WriteFile(s, path, contents) ==
    [s EXCEPT !.files = (path :> contents) @@ @]

RemoveFiles(s, paths) ==
    [s EXCEPT !.files = Restrict(@, DOMAIN @ \ paths)]

---------------------------------------------------------------------------
(* keys.rs: the file name of a credential is an HMAC of its ID; here the   *)
(* pair of the key and the ID.                                             *)

file_name(root, id) == [index |-> SubKey(root, "index-hmac"), id |-> id]

is_credential_file_name(name) == "index" \in DOMAIN name

(* A key file of another length, or of zeros only, is unusable, not        *)
(* missing.  Root 0 is the all-zero key.                                   *)
KeyContents(root) == [len |-> 32, root |-> root]

load(s, domain) ==
    LET path == KeyFile(domain)
    IN  IF ~Exists(s, path) THEN Done(None)
        ELSE IF s.files[path].len # 32 \/ s.files[path].root = 0
        THEN Result("KeyUnavailable", None)
        ELSE Done(Some(s.files[path].root))

(* A fresh key for the domain, over whatever key file there is.            *)
Generate(s, domain) ==
    [WriteFile(s, KeyFile(domain), KeyContents(s.generated + 1))
        EXCEPT !.generated = @ + 1]

CredentialFileNames(s) ==
    {path.name : path \in {p \in DOMAIN s.files :
        p.dir = "credentials" /\ is_credential_file_name(p.name)}}

has_data(s, domain) ==
    IF domain = "device" THEN Exists(s, ATTESTATION_FILE)
    ELSE \/ \E path \in {PIN_STATE_FILE, SIGNATURE_COUNTER_FILE,
                         LARGE_BLOBS_FILE, FORMAT_FILE} : Exists(s, path)
         \/ "credential-set" \in s.dirs
         \/ CredentialFileNames(s) # {}

root_key_for_read(s, domain) ==
    IF ~Exists(s, KeyFile(domain)) /\ has_data(s, domain)
    THEN Result("KeyUnavailable", None)
    ELSE load(s, domain)

(* The store with the key, which is made only if nothing depends on one.   *)
OrGenerated(s, domain, key) ==
    IF key = Done(None)
    THEN After(Generate(s, domain), Done(Some(s.generated + 1)))
    ELSE After(s, key)

root_key_for_write(s, domain) == OrGenerated(s, domain, root_key_for_read(s, domain))

(* An operation that writes runs under the key for a write; one that reads *)
(* finds nothing if there is no key yet.                                   *)
WithKey(key, Op(_, _)) ==
    IF key.result.error # "none" THEN Refused(key.store, key.result.error)
    ELSE Op(key.store, key.result.value[1])

Writing(s, domain, Op(_, _)) == WithKey(root_key_for_write(s, domain), Op)

UnderKey(key, nothing, Op(_)) ==
    IF key.error # "none" THEN Result(key.error, << >>)
    ELSE IF key.value = None THEN Done(nothing)
    ELSE Op(key.value[1])

Reading(s, domain, nothing, Op(_)) ==
    UnderKey(root_key_for_read(s, domain), nothing, Op)

---------------------------------------------------------------------------
(* envelope.rs: contents sealed under a key and bound to a record type and *)
(* a logical name.  `length` and `header` are what is checked before the   *)
(* tag is; damage that changes any other byte breaks the tag (`intact`).   *)

AssociatedData(type, name) == [type |-> type, name |-> name]

seal(root, domain, type, name, plaintext) ==
    [length |-> "fits", header |-> type, intact |-> TRUE,
     key |-> SubKey(root, domain), ad |-> AssociatedData(type, name),
     plaintext |-> plaintext]

open(root, domain, type, name, envelope) ==
    IF envelope.length # "fits" THEN Corrupt("Length")
    ELSE IF envelope.header # type THEN Corrupt("Header")
    ELSE IF \/ ~envelope.intact
            \/ envelope.key # SubKey(root, domain)
            \/ envelope.ad # AssociatedData(type, name)
    THEN Corrupt("Authentication")
    ELSE Ok(envelope.plaintext)

Decoded(decoded) ==
    IF decoded.corruption # "none" THEN Result("Corrupt", decoded.corruption)
    ELSE Done(Some(decoded.value))

Opened(opened, Dec(_)) ==
    IF opened.corruption # "none" THEN Result("Corrupt", opened.corruption)
    ELSE Decoded(Dec(opened.value))

ReadSealed(s, root, domain, type, path, name, Dec(_)) ==
    IF ~Exists(s, path) THEN Done(None)
    ELSE Opened(open(root, domain, type, name, s.files[path]), Dec)

read_object(s, root, domain, type, path, Dec(_)) ==
    ReadSealed(s, root, domain, type, path, path, Dec)

write_object(s, root, domain, type, path, plaintext) ==
    WriteFile(s, path, seal(root, domain, type, path, plaintext))

---------------------------------------------------------------------------
(* Membership: a legacy store's members are its credential files; a        *)
(* managed store's are what the manifest names, and where.                 *)

RecordDir(layout, location) ==
    CASE layout = "legacy" -> "credentials"
      [] location = "Legacy" -> "credential-set"
      [] location = "Managed" -> "credential-set/records"

(* The logical name a record's envelope is bound to.                       *)
CredentialObject(name, location) ==
    Path(IF location = "Legacy" THEN "credentials" ELSE "credential-set/records",
         name)

Marker == [format |-> "pqkey/credential-set/v1"]
ManifestBytes(manifest) == [manifest |-> manifest]

Found(read) == read.error = "none" /\ read.value # None

Unavailable == Result("CredentialSetUnavailable", << >>)

ManifestMembers(manifest) ==
    IF Found(manifest) THEN Done([layout |-> "managed", members |-> manifest.value[1]])
    ELSE Unavailable

membership(s, root) ==
    IF "credential-set" \in s.dirs
    THEN IF Found(read_object(s, root, "record", "CredentialFormat", FORMAT_FILE,
                      LAMBDA b : IF b = Marker THEN Ok(b) ELSE Corrupt("Encoding")))
         THEN ManifestMembers(read_object(s, root, "record", "CredentialSet",
                                          ACTIVE_FILE, LAMBDA b : Ok(b.manifest)))
         ELSE Unavailable
    ELSE IF "credentials" \notin s.dirs THEN Unavailable
    ELSE Done([layout |-> "legacy",
               members |-> [n \in CredentialFileNames(s) |-> "Legacy"]])

RecordPath(set, name) ==
    Path(RecordDir(set.layout, set.members[name]), name)

(* The record under a name; one that decodes and carries another ID than   *)
(* its name's is refused.                                                  *)
OfItsName(root, name, record) ==
    IF Found(record) /\ file_name(root, record.value[1].credential_id) # name
    THEN Result("Corrupt", "Inconsistent")
    ELSE record

read_credential_in(s, root, set, name) ==
    OfItsName(root, name,
        ReadSealed(s, root, "record", "Credential", RecordPath(set, name),
                   CredentialObject(name, set.members[name]), decode_credential))

(* What is read under every name; listing skips what cannot be read, and a *)
(* replacement refuses to.                                                 *)
ReadAll(s, root, set) ==
    [name \in DOMAIN set.members |-> read_credential_in(s, root, set, name)]

scan(reads) == {reads[name].value[1] : name \in {n \in DOMAIN reads : Found(reads[n])}}

---------------------------------------------------------------------------
(* Publishing membership, and the cleanup that follows: a file that is no  *)
(* member goes, and so does a copy of a member at the other location.      *)

reclaimable(s, manifest, path) ==
    /\ path.dir \in {"credential-set", "credential-set/records"}
    /\ is_credential_file_name(path.name)
    /\ path.name \notin DOMAIN manifest
       \/ LET place == Path(RecordDir("managed", manifest[path.name]), path.name)
          IN  place # path /\ Exists(s, place)

\* Variant: retired files are left where they are (StoresAgree).
cleanup_retired_never(s, manifest) == s

cleanup_retired(s, manifest) ==
    RemoveFiles(s, {path \in DOMAIN s.files : reclaimable(s, manifest, path)})

publish_manifest(s, root, manifest) ==
    cleanup_retired(write_object(s, root, "record", "CredentialSet", ACTIVE_FILE,
                                 ManifestBytes(manifest)),
                    manifest)

(* A legacy store's first commit renames its directory.                    *)
Migrated(s) ==
    LET Moved(path) ==
            CASE path.dir = "credentials" -> [path EXCEPT !.dir = "credential-set"]
              [] path.dir = "credentials/records" ->
                    [path EXCEPT !.dir = "credential-set/records"]
              [] OTHER -> path
        moved == {Moved(path) : path \in DOMAIN s.files}
    IN  [s EXCEPT !.files =
                [path \in moved |->
                    s.files[CHOOSE old \in DOMAIN s.files : Moved(old) = path]],
            !.dirs = (@ \ {"credentials"}) \cup {"credential-set"}]

write_candidate(s, root, record, order, namespace) ==
    LET name == file_name(root, record.credential_id)
    IN  WriteFile(s, Path(namespace, name),
                  seal(root, "record", "Credential", CredentialObject(name, "Managed"),
                       encode_credential(record, order)))

collision(s, name) ==
    \E dir \in {"credentials", "credentials/records", "credential-set",
                "credential-set/records"} : Exists(s, Path(dir, name))

---------------------------------------------------------------------------
(* The operations of the store.                                            *)

FileOpen(s) ==
    LET made == IF "credential-set" \in s.dirs \/ Exists(s, FORMAT_FILE) THEN s
                ELSE [s EXCEPT !.dirs = @ \cup {"credentials"}]
    IN  root_key_for_write(root_key_for_write(made, "device").store,
                           "credential").store

Among(set, Op(_)) ==
    IF set.error # "none" THEN Result(set.error, << >>) ELSE Op(set.value)

FileGet(s, id) == Reading(s, "credential", None, LAMBDA root :
    Among(membership(s, root), LAMBDA set :
        IF file_name(root, id) \notin DOMAIN set.members THEN Done(None)
        ELSE read_credential_in(s, root, set, file_name(root, id))))

(* An insert is limited and takes the next place in the order; an update   *)
(* keeps its own.  A member whose record cannot be read is inserted again. *)
PutRecord(s, root, r, name, set, order) ==
    IF name \in DOMAIN set.members \/ set.layout = "legacy"
    THEN LET location == IF name \in DOMAIN set.members THEN set.members[name]
                         ELSE "Legacy"
         IN  WriteFile(s, Path(RecordDir(set.layout, location), name),
                       seal(root, "record", "Credential",
                            CredentialObject(name, location),
                            encode_credential(r, order)))
    ELSE publish_manifest(write_candidate(s, root, r, order, "credential-set/records"),
                          root, (name :> "Managed") @@ set.members)

PutAmong(s, root, r, name, set, reads) ==
    LET member == name \in DOMAIN reads
    IN  IF set.layout = "managed" /\ ~member /\ collision(s, name)
        THEN Refused(s, "InvalidRecord")
        ELSE IF member /\ Found(reads[name])
        THEN After(PutRecord(s, root, r, name, set, reads[name].value[1].created_at),
                   Done(TRUE))
        ELSE IF Cardinality(scan(reads)) >= MaxCredentials THEN Refused(s, "Full")
        ELSE After(PutRecord(s, root, r, name, set, next_created_at(scan(reads))),
                   Done(TRUE))

PutUnder(s, root, r, set) ==
    IF set.error # "none" THEN Refused(s, set.error)
    ELSE PutAmong(s, root, r, file_name(root, r.credential_id), set.value,
                  ReadAll(s, root, set.value))

FilePut(s, r) ==
    IF ~validate_credential(r) THEN Refused(s, "InvalidRecord")
    ELSE Writing(s, "credential", LAMBDA t, root :
            PutUnder(t, root, r, membership(t, root)))

(* A replacement publishes the new member and retires the account's others *)
(* at once; a legacy store moves to the managed layout with it.            *)
Replaced(s, root, r, set, order, manifest) ==
    IF set.layout = "managed"
    THEN publish_manifest(write_candidate(s, root, r, order, "credential-set/records"),
                          root, manifest)
    ELSE publish_manifest(
            Migrated(write_candidate(
                write_object(s, root, "record", "CredentialFormat", FORMAT_FILE, Marker),
                root, r, order, "credentials/records")),
            root, manifest)

InsertAmong(s, root, r, name, set, reads, current) ==
    LET unread == {n \in DOMAIN reads : ~Found(reads[n])}
        retired == {file_name(root, q.credential_id) : q \in SameAccount(current, r)}
    IN  IF unread # {}
        THEN Refused(s, LET bad == reads[CHOOSE n \in unread : TRUE]
                        IN  IF bad.error = "none" THEN "CredentialSetUnavailable"
                            ELSE bad.error)
        ELSE IF retired = {} /\ Cardinality(current) >= MaxCredentials
        THEN Refused(s, "Full")
        ELSE After(Replaced(s, root, r, set, next_created_at(current),
                            (name :> "Managed")
                            @@ Restrict(set.members, DOMAIN set.members \ retired)),
                   Done(TRUE))

InsertRead(s, root, r, name, set, reads) ==
    InsertAmong(s, root, r, name, set, reads, scan(reads))

InsertUnder(s, root, r, name, set) ==
    IF collision(s, name) THEN Refused(s, "InvalidRecord")
    ELSE IF set.error # "none" THEN Refused(s, set.error)
    ELSE InsertRead(s, root, r, name, set.value, ReadAll(s, root, set.value))

FileInsert(s, r) ==
    IF ~validate_credential(r) \/ ~is_discoverable(r.credential_id)
    THEN Refused(s, "InvalidRecord")
    ELSE Writing(s, "credential", LAMBDA t, root :
            InsertUnder(t, root, r, file_name(root, r.credential_id),
                        membership(t, root)))

DeleteAmong(s, root, name, set) ==
    IF name \notin DOMAIN set.members THEN After(s, Done(FALSE))
    ELSE After(IF set.layout = "legacy"
               THEN RemoveFiles(s, {Path("credentials", name)})
               ELSE publish_manifest(s, root,
                        Restrict(set.members, DOMAIN set.members \ {name})),
               Done(TRUE))

DeleteUnder(s, root, id, set) ==
    IF set.error # "none" THEN Refused(s, set.error)
    ELSE DeleteAmong(s, root, file_name(root, id), set.value)

DeleteWith(s, id, key) ==
    IF key.error # "none" THEN Refused(s, key.error)
    ELSE IF key.value = None THEN After(s, Done(FALSE))
    ELSE DeleteUnder(s, key.value[1], id, membership(s, key.value[1]))

FileDelete(s, id) == DeleteWith(s, id, root_key_for_read(s, "credential"))

FileScan(s, nothing, Of(_)) == Reading(s, "credential", nothing, LAMBDA root :
    Among(membership(s, root), LAMBDA set : Done(Of(scan(ReadAll(s, root, set))))))

FileList(s) == FileScan(s, << >>, sort_newest_first)
FileCount(s) == FileScan(s, 0, Cardinality)

(* A reset replaces the key first and needs no readable record.            *)
FileClear(s) ==
    LET managed == "credential-set" \in s.dirs \/ Exists(s, FORMAT_FILE)
        rotated == Generate(s, "credential")
        root == rotated.generated
        purged == RemoveFiles(rotated,
                      {p \in DOMAIN s.files :
                          \/ p.dir \notin {"", "keys"}
                          \/ p \in {SIGNATURE_COUNTER_FILE, LARGE_BLOBS_FILE}})
        emptied == IF ~managed THEN [purged EXCEPT !.dirs = @ \cup {"credentials"}]
                   ELSE publish_manifest(
                            write_object([purged EXCEPT !.dirs = {"credential-set"}],
                                root, "record", "CredentialFormat", FORMAT_FILE, Marker),
                            root, << >>)
    IN  After(write_object(emptied, root, "record", "PinState", PIN_STATE_FILE,
                           encode_pin_state(DefaultPinState)),
              Done(TRUE))

FilePinState(s) == Reading(s, "credential", None, LAMBDA root :
    read_object(s, root, "record", "PinState", PIN_STATE_FILE, decode_pin_state))

FileSetPinState(s, state) == Writing(s, "credential", LAMBDA t, root :
    IF ~validate_pin_state(state) THEN Refused(t, "InvalidRecord")
    ELSE After(write_object(t, root, "record", "PinState", PIN_STATE_FILE,
                            encode_pin_state(state)), Done(TRUE)))

OrDefault(read, default) ==
    IF read.error # "none" THEN read
    ELSE Done(IF read.value = None THEN default ELSE read.value[1])

FileCounter(s) == Reading(s, "credential", 0, LAMBDA root :
    OrDefault(read_object(s, root, "record", "SignatureCounter",
                          SIGNATURE_COUNTER_FILE, decode_signature_counter), 0))

FileSetCounter(s, value) == Writing(s, "credential", LAMBDA t, root :
    After(write_object(t, root, "record", "SignatureCounter",
                       SIGNATURE_COUNTER_FILE, encode_signature_counter(value)),
          Done(TRUE)))

FileLargeBlobs(s) ==
    IF ~Exists(s, LARGE_BLOBS_FILE) THEN Done(INITIAL_LARGE_BLOB_ARRAY)
    ELSE Reading(s, "credential", INITIAL_LARGE_BLOB_ARRAY, LAMBDA root :
        OrDefault(read_object(s, root, "record", "LargeBlobArray", LARGE_BLOBS_FILE,
                              decode_large_blob_array), INITIAL_LARGE_BLOB_ARRAY))

FileSetLargeBlobs(s, array) ==
    IF ~validate_large_blob_array(array) THEN Refused(s, "InvalidRecord")
    ELSE Writing(s, "credential", LAMBDA t, root :
        After(write_object(t, root, "record", "LargeBlobArray", LARGE_BLOBS_FILE,
                           encode_large_blob_array(array)), Done(TRUE)))

FileAttestation(s) == Reading(s, "device", None, LAMBDA root :
    read_object(s, root, "device", "Attestation", ATTESTATION_FILE,
                decode_attestation))

FileSetAttestation(s, r) ==
    IF ~validate_attestation(r) THEN Refused(s, "InvalidRecord")
    ELSE Writing(s, "device", LAMBDA t, root :
        After(write_object(t, root, "device", "Attestation", ATTESTATION_FILE,
                           encode_attestation(r)), Done(TRUE)))

(* Sealed IDs live at relying parties: a PIN state marks that something    *)
(* depends on the key.                                                     *)
FileSeal(s, plaintext, ad) == Writing(s, "credential", LAMBDA t, root :
    After(IF Exists(t, PIN_STATE_FILE) THEN t
          ELSE write_object(t, root, "record", "PinState", PIN_STATE_FILE,
                            encode_pin_state(DefaultPinState)),
          Done(SealedId(root, plaintext, ad))))

FileOpenId(s, sealed, ad) == Reading(s, "credential", None, LAMBDA root :
    Done(OpenSealedId(root, sealed, ad)))
=============================================================================
