--------------------------- MODULE CredentialStore ---------------------------
(***************************************************************************)
(* The credential set of the file store (pqkey-ctap: store/file.rs,        *)
(* store/fsio.rs, store/keys.rs, store/manifest.rs): both layouts, the     *)
(* migration between them, the manifest transactions and their cleanup,    *)
(* and the credential half of a reset.                                     *)
(*                                                                         *)
(* One writer runs one operation at a time; an operation is a sequence of  *)
(* writes, one step each, and the process may die between any two of them. *)
(* Nothing is cached between operations, so dying loses only `op'.  A      *)
(* write is a rename into a directory followed by a flush of it.  `disk'   *)
(* holds the directories as a running system sees them; `images' holds,    *)
(* for each directory, the contents power loss may leave: those at its     *)
(* last flush or any later ones, independently of the other directories.   *)
(* Files are flushed before they get their name, so contents are whole.    *)
(*                                                                         *)
(* Abstracted: a credential record is its key generation and a revision;   *)
(* creation orders, encodings and temporary files are left out.  The       *)
(* records/ directory of a namespace exists from its first use on.         *)
(***************************************************************************)
EXTENDS Integers, FiniteSets

CONSTANTS
    Ids, Account, NoAccount, MaxRev, Unavailable,   \* as in CredentialSet
    MaxCredentials,     \* max_credentials
    MaxKey,             \* bound: credential keys ever generated
    FlushSupported,     \* the filesystem supports directory flushes
    Faults              \* which of "write", "flush", "crash", "power" happen

ASSUME StoreAssumption ==
    /\ MaxKey \in Nat \ {0}
    /\ MaxRev \in Nat
    /\ MaxCredentials \in Nat \ {0}
    /\ DOMAIN Account = Ids
    /\ FlushSupported \in BOOLEAN
    /\ Unavailable \notin [Ids -> {-1} \cup 0..MaxRev]

VARIABLES
    disk,               \* the directories, as seen
    images,             \* the contents of each that power loss may leave
    op                  \* the operation in progress

vars == <<disk, images, op>>
-----------------------------------------------------------------------------
(* Directories *)

\* A file is sealed under a generation of the credential key; 0: no file.
Files == [key : 0..MaxKey, rev : 0..MaxRev]
NoFile == [key |-> 0, rev |-> 0]
NoFiles == [i \in Ids |-> NoFile]

Locations == {"Legacy", "Managed"}
Manifests == [key : 0..MaxKey, members : [Ids -> Locations \cup {"none"}]]
NoMembers == [i \in Ids |-> "none"]
NoManifest == [key |-> 0, members |-> NoMembers]

\* A namespace directory holds legacy records and the manifest `active', and
\* its records/ the managed records.  "L" is the one created as credentials/,
\* "M" the one a reset creates as credential-set/.  The root holds the format
\* marker and says which namespace has which name; keys/ holds the key.
Namespaces == [active : Manifests, files : [Ids -> Files]]
Roots == [format : 0..MaxKey, credentials : BOOLEAN, managed : {"none", "L", "M"}]
Disks == [keys : 0..MaxKey, root : Roots,
          L : Namespaces, Lrecords : [Ids -> Files],
          M : Namespaces, Mrecords : [Ids -> Files]]
Directories == {"keys", "root", "L", "Lrecords", "M", "Mrecords"}

Records(ns) == IF ns = "L" THEN "Lrecords" ELSE "Mrecords"

\* What power loss may leave: each directory on its own.
Snapshots ==
    [keys : images.keys, root : images.root,
     L : images.L, Lrecords : images.Lrecords,
     M : images.M, Mrecords : images.Mrecords]

Outcomes ==
    {"Ok"} \cup (IF "write" \in Faults THEN {"Err"} ELSE {})
           \cup (IF "flush" \in Faults THEN {"Unflushed"} ELSE {})

Published(outcome) == outcome # "Err"

\* sync_dir_strict: an unsupported flush is an error.  sync_dir lets it pass.
FlushedStrictly(outcome) == outcome = "Ok" /\ FlushSupported
Flushed(outcome) == outcome = "Ok"

\* A rename into directory d that gives it the contents c, and its flush.
Write(d, c, outcome) ==
    IF Published(outcome)
    THEN /\ disk' = [disk EXCEPT ![d] = c]
         /\ images' = [images EXCEPT ![d] = IF FlushedStrictly(outcome) THEN {c} ELSE @ \cup {c}]
    ELSE UNCHANGED <<disk, images>>
-----------------------------------------------------------------------------
(* Reading *)

\* active_manifest: which authority a disk has.  Without the managed namespace
\* the legacy directory is scanned; with it only an authentic marker and an
\* authentic manifest will do.
Authority(s) ==
    CASE s.keys = 0 -> "unavailable"
      [] s.keys # 0 /\ s.root.managed = "none" ->
            IF s.root.credentials THEN "legacy" ELSE "unavailable"
      [] OTHER ->
            IF s.root.format = s.keys /\ s[s.root.managed].active.key = s.keys
            THEN "managed" ELSE "unavailable"

\* record_dir
FileAt(s, i, location) ==
    LET ns == IF s.root.managed = "none" THEN "L" ELSE s.root.managed
    IN  IF location = "Legacy" THEN s[ns].files[i] ELSE s[Records(ns)][i]

\* The credentials an authority lists, and where.  A legacy store lists
\* whatever is in credentials/.
Listing(s) ==
    IF Authority(s) = "managed" THEN s[s.root.managed].active.members
    ELSE [i \in Ids |-> IF s.L.files[i] # NoFile THEN "Legacy" ELSE "none"]

Listed(s) == {i \in Ids : Listing(s)[i] # "none"}

\* read_credential_in: the file is there and opens under the key.
Readable(s, i) == FileAt(s, i, Listing(s)[i]).key = s.keys

\* list: what the store can use.
Usable(s) ==
    IF Authority(s) = "unavailable" THEN Unavailable
    ELSE [i \in Ids |-> IF i \in Listed(s) /\ Readable(s, i)
                        THEN FileAt(s, i, Listing(s)[i]).rev ELSE -1]

\* collision: a file of that name in any record directory.
Collision(i) ==
    \/ disk.L.files[i] # NoFile \/ disk.Lrecords[i] # NoFile
    \/ disk.M.files[i] # NoFile \/ disk.Mrecords[i] # NoFile

\* Credential IDs are random: a new one is not known anywhere.
Fresh(i) ==
    /\ \A n \in images.L \cup images.M :
          n.files[i] = NoFile /\ n.active.members[i] = "none"
    /\ \A r \in images.Lrecords \cup images.Mrecords : r[i] = NoFile
-----------------------------------------------------------------------------
(* Operations *)

Idle == [step |-> "idle"]

\* The operation ends, with success or with an error.
Return == op' = Idle

\* The namespace a transaction works in.
Namespace == IF disk.root.managed = "none" THEN "L" ELSE disk.root.managed

\* The membership that has i and not the credentials it retires.
WithReplacement(i, retired) ==
    [j \in Ids |-> IF j = i THEN "Managed"
                   ELSE IF j \in retired THEN "none" ELSE Listing(disk)[j]]

\* insert_or_replace_discoverable up to its first write: every listed record
\* must be readable, those of the account are retired, and only an account
\* that has none needs a free slot.
InsertOrReplaceDiscoverable(i) ==
    LET matching == {j \in Listed(disk) : Account[j] = Account[i]} IN
    /\ op = Idle
    /\ Account[i] # NoAccount
    /\ Fresh(i) /\ ~Collision(i)
    /\ Authority(disk) # "unavailable"
    /\ \A j \in Listed(disk) : Readable(disk, j)
    /\ matching # {} \/ Cardinality(Listed(disk)) < MaxCredentials
    /\ op' = [step |-> IF Authority(disk) = "legacy" THEN "marker" ELSE "candidate",
              id |-> i,
              members |-> WithReplacement(i, matching)]
    /\ UNCHANGED <<disk, images>>

\* write_format_marker
WriteFormatMarker(outcome) ==
    /\ op.step = "marker"
    /\ Write("root", [disk.root EXCEPT !.format = disk.keys], outcome)
    /\ IF FlushedStrictly(outcome) THEN op' = [op EXCEPT !.step = "candidate"] ELSE Return

\* write_candidate
WriteCandidate(outcome) ==
    LET d == Records(Namespace) IN
    /\ op.step = "candidate"
    /\ Write(d, [disk[d] EXCEPT ![op.id] = [key |-> disk.keys, rev |-> 0]], outcome)
    /\ IF FlushedStrictly(outcome)
       THEN op' = [op EXCEPT !.step = IF disk.root.managed = "none" THEN "prepare" ELSE "publish"]
       ELSE Return

Manifest == [key |-> disk.keys, members |-> op.members]

\* Variant: the rename does not wait for the manifest's flush (AtomicSet).
PrepareMigrationLoosely(outcome) ==
    /\ op.step = "prepare"
    /\ Write("L", [disk.L EXCEPT !.active = Manifest], outcome)
    /\ IF Published(outcome) THEN op' = [op EXCEPT !.step = "migrate"] ELSE Return

\* publish_migration up to the rename: the manifest goes into the legacy
\* namespace, where lookup ignores it.
PrepareMigration(outcome) ==
    /\ op.step = "prepare"
    /\ Write("L", [disk.L EXCEPT !.active = Manifest], outcome)
    /\ IF FlushedStrictly(outcome) THEN op' = [op EXCEPT !.step = "migrate"] ELSE Return

\* The rename of credentials/ to credential-set/, and finish_commit.
PublishMigration(outcome) ==
    /\ op.step = "migrate"
    /\ Write("root", [disk.root EXCEPT !.credentials = FALSE, !.managed = "L"], outcome)
    /\ IF FlushedStrictly(outcome) THEN op' = [op EXCEPT !.step = "cleanup"] ELSE Return

\* Variant: a managed commit flushes its own directory only (FlushedIsDurable,
\* AtomicSet).
ConfirmedByNamespace(outcome, rootOutcome) == FlushedStrictly(outcome)

\* finish_commit also flushes the root: a migration before may have been left
\* unconfirmed.
Confirmed(outcome, rootOutcome) == FlushedStrictly(outcome) /\ FlushedStrictly(rootOutcome)

\* publish_manifest and finish_commit.
PublishManifest(outcome, rootOutcome) ==
    LET ns == Namespace
        c == [disk[ns] EXCEPT !.active = Manifest]
    IN
    /\ op.step = "publish"
    /\ rootOutcome # "Err"
    /\ IF FlushedStrictly(outcome) /\ FlushedStrictly(rootOutcome)
       THEN /\ disk' = [disk EXCEPT ![ns] = c]
            /\ images' = [images EXCEPT ![ns] = {c}, !.root = {disk.root}]
       ELSE Write(ns, c, outcome)
    /\ IF Confirmed(outcome, rootOutcome) THEN op' = [op EXCEPT !.step = "cleanup"] ELSE Return

\* reclaimable: cleanup after a manifest removes i's file from a location if it is
\* no member, or a member at the other location, which has its file.
Reclaimable(members, i, location) ==
    /\ FileAt(disk, i, location) # NoFile
    /\ \/ members[i] = "none"
       \/ members[i] # location /\ FileAt(disk, i, members[i]) # NoFile

\* cleanup_retired, one location: it stops at the first error, with any part
\* of the work done.
Cleanup(location, kept, outcome) ==
    LET ns == Namespace
        removed == {i \in Ids : Reclaimable(op.members, i, location)} \ kept
        d == IF location = "Legacy" THEN ns ELSE Records(ns)
        Without(files) == [i \in Ids |-> IF i \in removed THEN NoFile ELSE files[i]]
    IN
    /\ op.step = IF location = "Legacy" THEN "cleanup" ELSE "cleanup_records"
    /\ kept \subseteq {i \in Ids : Reclaimable(op.members, i, location)}
    /\ kept # {} => "write" \in Faults /\ outcome = "Unflushed"
    /\ outcome # "Err"
    /\ Write(d, IF location = "Legacy" THEN [disk[d] EXCEPT !.files = Without(@)]
                ELSE Without(disk[d]), outcome)
    /\ IF location = "Legacy" THEN op' = [op EXCEPT !.step = "cleanup_records"] ELSE Return
-----------------------------------------------------------------------------
(* put and delete *)

\* put of a new credential into a managed store.
PutManaged(i) ==
    /\ op = Idle
    /\ Account[i] = NoAccount
    /\ Fresh(i) /\ ~Collision(i)
    /\ Authority(disk) = "managed"
    /\ Cardinality({j \in Listed(disk) : Readable(disk, j)}) < MaxCredentials
    /\ op' = [step |-> "candidate", id |-> i,
              members |-> [Listing(disk) EXCEPT ![i] = "Managed"]]
    /\ UNCHANGED <<disk, images>>

\* put of a new credential into a legacy store.
PutLegacy(i, outcome) ==
    /\ op = Idle
    /\ Account[i] = NoAccount
    /\ Fresh(i)
    /\ Authority(disk) = "legacy"
    /\ Cardinality({j \in Listed(disk) : Readable(disk, j)}) < MaxCredentials
    /\ Write("L", [disk.L EXCEPT !.files[i] = [key |-> disk.keys, rev |-> 0]], outcome)
    /\ UNCHANGED op

\* put of a credential that is there: a count or a name is updated.
PutUpdate(i, outcome) ==
    LET location == Listing(disk)[i]
        d == IF location = "Legacy" THEN Namespace ELSE Records(Namespace)
        new == [key |-> disk.keys, rev |-> FileAt(disk, i, location).rev + 1]
    IN
    /\ op = Idle
    /\ Authority(disk) # "unavailable"
    /\ i \in Listed(disk) /\ Readable(disk, i)
    /\ FileAt(disk, i, location).rev < MaxRev
    /\ Write(d, IF location = "Legacy" THEN [disk[d] EXCEPT !.files[i] = new]
                ELSE [disk[d] EXCEPT ![i] = new], outcome)
    /\ UNCHANGED op

\* delete, of a credential that its caller has just read.
DeleteManaged(i) ==
    /\ op = Idle
    /\ Authority(disk) = "managed"
    /\ i \in Listed(disk) /\ Readable(disk, i)
    /\ op' = [step |-> "publish", id |-> i, members |-> [Listing(disk) EXCEPT ![i] = "none"]]
    /\ UNCHANGED <<disk, images>>

DeleteLegacy(i, outcome) ==
    /\ op = Idle
    /\ Authority(disk) = "legacy"
    /\ i \in Listed(disk) /\ Readable(disk, i)
    /\ Write("L", [disk.L EXCEPT !.files[i] = NoFile], outcome)
    /\ UNCHANGED op
-----------------------------------------------------------------------------
(* clear: rotate the key, purge, and establish an empty managed set *)

IsManaged == disk.root.managed # "none" \/ disk.root.format # 0

FreshKey(k) ==
    /\ k \notin images.keys
    /\ \A r \in images.root : r.format # k
    /\ \A n \in images.L \cup images.M : n.active.key # k /\ \A i \in Ids : n.files[i].key # k
    /\ \A r \in images.Lrecords \cup images.Mrecords : \A i \in Ids : r[i].key # k

\* FileKeySource::rotate: a failed flush is an error after publication; the
\* old key's contents are overwritten with zeros, as far as that works.
Rotate(k, outcome, zeroed) ==
    /\ op = Idle
    /\ FreshKey(k)
    /\ Published(outcome)
    /\ zeroed \/ "write" \in Faults
    /\ disk' = [disk EXCEPT !.keys = k]
    /\ images' = [images EXCEPT !.keys =
          CASE FlushedStrictly(outcome) -> {k}
            [] Flushed(outcome) /\ ~FlushSupported /\ zeroed -> (@ \ {disk.keys}) \cup {0, k}
            [] OTHER -> @ \cup {k}]
    /\ op' = IF Flushed(outcome)
             THEN [step |-> IF IsManaged THEN "purge" ELSE "purge_legacy"] ELSE Idle

\* The files of the legacy layout are removed; an error leaves some of them.
PurgeLegacy(left, outcome) ==
    LET c == [disk.L EXCEPT !.files = [i \in Ids |-> IF i \in left THEN @[i] ELSE NoFile]] IN
    /\ op.step = "purge_legacy"
    /\ Published(outcome)
    /\ left # {} => "write" \in Faults /\ outcome = "Unflushed"
    /\ Write("L", c, outcome)
    /\ Return

\* Both namespaces are emptied, credential-set/ created if there is none, and
\* credentials/ removed unless something is left in it.
PurgeManaged(left, rmdir, outcome) ==
    LET Purged(files) == [i \in Ids |-> IF i \in left THEN files[i] ELSE NoFile]
        Emptied(n) == [active |-> IF left = {} THEN NoManifest ELSE n.active,
                       files |-> Purged(n.files)]
        new == [disk EXCEPT !.L = Emptied(@), !.M = Emptied(@),
                            !.Lrecords = Purged(@), !.Mrecords = Purged(@),
                            !.root.credentials = @ /\ ~rmdir,
                            !.root.managed = IF @ = "none" THEN "M" ELSE @]
        Kept(d) == IF FlushedStrictly(outcome) THEN {new[d]} ELSE images[d] \cup {new[d]}
    IN
    /\ op.step = "purge"
    /\ Published(outcome)
    /\ left # {} => "write" \in Faults /\ outcome = "Unflushed"
    /\ disk' = new
    /\ images' = [images EXCEPT !.L = Kept("L"), !.M = Kept("M"),
                                !.Lrecords = Kept("Lrecords"), !.Mrecords = Kept("Mrecords"),
                                !.root = @ \cup {new.root}]
    /\ IF Flushed(outcome) THEN op' = [op EXCEPT !.step = "reset_marker"] ELSE Return

WriteResetMarker(outcome) ==
    /\ op.step = "reset_marker"
    /\ Write("root", [disk.root EXCEPT !.format = disk.keys], outcome)
    /\ IF Flushed(outcome) THEN op' = [step |-> "publish", members |-> NoMembers] ELSE Return
-----------------------------------------------------------------------------
ProcessRestart ==
    /\ "crash" \in Faults
    /\ op # Idle
    /\ Return
    /\ UNCHANGED <<disk, images>>

PowerLoss(s) ==
    /\ "power" \in Faults
    /\ disk' = s
    /\ images' = [d \in Directories |-> {s[d]}]
    /\ Return
-----------------------------------------------------------------------------
\* A store of the legacy layout with some credentials in it.
Init ==
    /\ \E ids \in SUBSET Ids :
          /\ \A i, j \in ids : Account[i] = Account[j] /\ Account[i] # NoAccount => i = j
          /\ disk = [keys |-> 1,
                     root |-> [format |-> 0, credentials |-> TRUE, managed |-> "none"],
                     L |-> [active |-> NoManifest,
                            files |-> [i \in Ids |-> IF i \in ids THEN [key |-> 1, rev |-> 0]
                                                     ELSE NoFile]],
                     Lrecords |-> NoFiles,
                     M |-> [active |-> NoManifest, files |-> NoFiles],
                     Mrecords |-> NoFiles]
    /\ images = [d \in Directories |-> {disk[d]}]
    /\ op = Idle

Next ==
    \/ \E i \in Ids : InsertOrReplaceDiscoverable(i) \/ PutManaged(i) \/ DeleteManaged(i)
    \/ \E o \in Outcomes : WriteFormatMarker(o)
    \/ \E o \in Outcomes : WriteCandidate(o)
    \/ \E o \in Outcomes : PrepareMigration(o)
    \/ \E o \in Outcomes : PublishMigration(o)
    \/ \E o \in Outcomes, r \in Outcomes : PublishManifest(o, r)
    \/ \E location \in Locations, kept \in SUBSET Ids, o \in Outcomes : Cleanup(location, kept, o)
    \/ \E i \in Ids, o \in Outcomes : PutLegacy(i, o) \/ PutUpdate(i, o) \/ DeleteLegacy(i, o)
    \/ \E k \in 1..MaxKey, o \in Outcomes, zeroed \in BOOLEAN : Rotate(k, o, zeroed)
    \/ \E left \in SUBSET Ids, o \in Outcomes : PurgeLegacy(left, o)
    \/ \E left \in SUBSET Ids, rmdir \in BOOLEAN, o \in Outcomes : PurgeManaged(left, rmdir, o)
    \/ \E o \in Outcomes : WriteResetMarker(o)
    \/ ProcessRestart
    \/ \E s \in Snapshots : PowerLoss(s)

Spec == Init /\ [][Next]_vars
-----------------------------------------------------------------------------
(* Properties *)

Steps == {"idle", "marker", "candidate", "prepare", "migrate", "publish", "cleanup",
          "cleanup_records", "purge", "purge_legacy", "reset_marker"}

\* The directories hold what they may hold, and the visible contents of each
\* are among those power loss may leave.
TypeOK ==
    /\ Snapshots \subseteq Disks
    /\ disk \in Snapshots
    /\ op.step \in Steps

\* The abstract credential set: what is usable, and what power loss may make
\* usable.
Set == INSTANCE CredentialSet WITH
    current <- Usable(disk),
    outcomes <- {Usable(s) : s \in Snapshots},
    unsettled <- images.keys # {disk.keys}

\* Membership reported Flushed survives power loss, whichever directory loses
\* what, as long as the key it is sealed under does (finish_commit).
FlushedIsDurable ==
    op.step \in {"cleanup", "cleanup_records"} /\ images.keys = {disk.keys} =>
        \A s \in Snapshots :
            Usable(s) # Unavailable /\ Set!Present(Usable(s)) = Set!Present(Usable(disk))

\* Every step of the store is one whole operation on the usable set, or
\* nothing: no error, crash or power loss shows a mixture of two sets.
AtomicSet == Set!Spec

=============================================================================
