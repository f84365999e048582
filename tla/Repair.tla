-------------------------------- MODULE Repair --------------------------------
(***************************************************************************)
(* Damage to the credential set, and `pqkey repair' (pqkey-ctap:           *)
(* store/repair.rs, store/damage.rs, inspect and membership in             *)
(* store/file.rs; pqkey: cli/repair.rs).                                   *)
(*                                                                         *)
(* The files are CredentialStore's, and the running key changes them with  *)
(* its actions.  Then files or directories are damaged by something else,  *)
(* and repair, with the key stopped, plans what to do, asks, plans again,  *)
(* gives what it will replace or remove a second name in a quarantine,     *)
(* publishes a list of the credentials that are left, and writes the       *)
(* format marker.  Every write may fail, and a crash or power loss may end *)
(* it after any of them.                                                   *)
(*                                                                         *)
(* A damaged file is one that no longer opens under the store's key.  A    *)
(* rev is the signature count of a record.  The key is not damaged and not *)
(* rotated here: without it repair refuses, and a reset is CredentialStore's.*)
(***************************************************************************)
EXTENDS CredentialStore

CONSTANTS
    MaxDamage           \* bound: times something is damaged

VARIABLES
    lock,       \* who holds the state lock: "none", "key" or "repair"
    held,       \* the files that have a name in a quarantine
    safe,       \* those of them that power loss leaves there
    stake,      \* history: files that were on storage when a repair was planned
    served,     \* history: what it served then, if all of it was on storage
    damages     \* history: how often something was damaged

repairVars == <<lock, held, safe, stake, served, damages>>
allVars == <<disk, images, op, repairVars>>

\* Key generations that nothing opens under: a file whose contents were damaged,
\* and something else, such as a directory, in a metadata file's place.
Broken == 2
NotAFile == 3

ASSUME RepairAssumption == MaxKey >= NotAFile /\ MaxDamage \in Nat

-----------------------------------------------------------------------------
(* Places in the state directory *)

FormatFile == <<"root", "format", "-">>
ActiveFile(ns) == <<ns, "active", "-">>
MetadataFiles == {FormatFile, ActiveFile("L"), ActiveFile("M")}
RecordFiles == {"L", "M"} \X Locations \X Ids

DirectoryOf(p) ==
    IF p[2] = "Managed" THEN Records(p[1]) ELSE p[1]

ContentAt(s, p) ==
    CASE p[2] = "format" -> [key |-> s.root.format]
      [] p[2] = "active" -> s[p[1]].active
      [] p[2] = "Legacy" -> s[p[1]].files[p[3]]
      [] p[2] = "Managed" -> s[Records(p[1])][p[3]]

\* A file is there: it is one, and its namespace has a name.
Holds(s, p) ==
    /\ ContentAt(s, p).key \notin {0, NotAFile}
    /\ p[1] \in {"root", s.root.managed} \/ (p[1] = "L" /\ s.root.credentials)

\* Every file of the store: where it is, and what is in it.
Entries(s) ==
    {[at |-> p, is |-> ContentAt(s, p)] : p \in {q \in MetadataFiles \cup RecordFiles : Holds(s, q)}}

\* s with the file at p damaged or, with k = 0, gone.
WithKey(s, p, k) ==
    CASE p[2] = "format" -> [s EXCEPT !.root.format = k]
      [] p[2] = "active" ->
            [s EXCEPT ![p[1]].active = IF k = 0 THEN NoManifest ELSE [@ EXCEPT !.key = k]]
      [] p[2] = "Legacy" ->
            [s EXCEPT ![p[1]].files[p[3]] = IF k = 0 THEN NoFile ELSE [@ EXCEPT !.key = k]]
      [] p[2] = "Managed" ->
            [s EXCEPT ![Records(p[1])][p[3]] = IF k = 0 THEN NoFile ELSE [@ EXCEPT !.key = k]]
-----------------------------------------------------------------------------
(* Inspection *)

CredentialSetDir == <<"root", "credential-set", "-">>
CredentialsDir == <<"root", "credentials", "-">>

\* membership: what hides every credential.
MembershipDamage(s) ==
    IF s.root.managed = "none"
    THEN IF s.root.credentials THEN {}
         ELSE {CredentialsDir} \cup (IF s.root.format # 0 THEN {CredentialSetDir} ELSE {})
    ELSE IF s.root.format # s.keys THEN {FormatFile}
    ELSE IF s[s.root.managed].active.key # s.keys THEN {ActiveFile(s.root.managed)}
    ELSE {}

\* inspect_once: or else the members that cannot be read, and in a legacy store
\* the records that cannot.
Inspect(s) ==
    IF MembershipDamage(s) # {} THEN MembershipDamage(s)
    ELSE {<<IF s.root.managed = "none" THEN "L" ELSE s.root.managed, Listing(s)[i], i>> :
             i \in {j \in Listed(s) : ~Readable(s, j)}}
-----------------------------------------------------------------------------
(* plan_repair *)

\* The credentials of `ids', where `at' says they are.
List(ids, at) == [i \in Ids |-> IF i \in ids THEN at[i] ELSE "none"]

\* Variant: the legacy records are forgotten (NothingLost).
ReclaimedManaged(members) ==
    {p \in RecordFiles : p[1] = Namespace /\ p[2] = "Managed" /\ Reclaimable(members, p[3], p[2])}

\* The records cleanup after a manifest removes.
Reclaimed(members) ==
    {p \in RecordFiles : p[1] = Namespace /\ Reclaimable(members, p[3], p[2])}

Opens(i, location) == FileAt(disk, i, location).key = disk.keys

\* plan_kept: the manifest authenticates; its members without a record go.
PlanKept ==
    LET manifest == disk[Namespace].active.members
        list == List({i \in Ids : manifest[i] # "none" /\ Opens(i, manifest[i])}, manifest)
    IN  IF list = manifest
        THEN [publication |-> "Nothing", members |-> list, marker |-> FALSE, moved |-> {}]
        ELSE [publication |-> "Manifest", members |-> list, marker |-> FALSE,
              moved |-> {ActiveFile(Namespace)} \cup Reclaimed(list)]

\* one_per_name: of two copies the one with the higher count.
OnePerName(i) ==
    IF /\ Opens(i, "Managed")
       /\ Opens(i, "Legacy") => FileAt(disk, i, "Managed").rev > FileAt(disk, i, "Legacy").rev
    THEN "Managed" ELSE "Legacy"

\* plan_rebuild: the manifest is lost; every record that opens is a member.
PlanRebuild ==
    LET list == List({i \in Ids : Opens(i, "Legacy") \/ Opens(i, "Managed")},
                     [i \in Ids |-> OnePerName(i)])
    IN  [publication |-> "Manifest", members |-> list, marker |-> FALSE,
         moved |-> {p \in {ActiveFile(Namespace)} : ContentAt(disk, p).key # 0} \cup Reclaimed(list)]

\* plan_listing: a legacy store's records that open get a list, by the migration of
\* a first registration, which replaces what an earlier one prepared.
PlanListing ==
    LET list == List({i \in Ids : Opens(i, "Legacy")}, [i \in Ids |-> "Legacy"])
    IN  [publication |-> "Migration", members |-> list, marker |-> FALSE,
         moved |-> {p \in {ActiveFile("L")} : ContentAt(disk, p).key # 0}
                   \cup {<<"L", "Legacy", i>> : i \in {j \in Ids : disk.L.files[j] # NoFile /\ ~Opens(j, "Legacy")}}
                   \cup {<<"L", "Managed", i>> : i \in {j \in Ids : disk.Lrecords[j] # NoFile}}]

PlanCreated(publication) ==
    [publication |-> publication, members |-> NoMembers, marker |-> FALSE, moved |-> {}]

\* Variant: only a damaged marker is (RepairHeals).
MarkedIfDamaged(plan) ==
    IF disk.root.format \in {0, disk.keys} THEN plan
    ELSE [plan EXCEPT !.marker = TRUE, !.moved = @ \cup {FormatFile}]

\* mark: a marker that is damaged or missing is written again.
Marked(plan) ==
    IF disk.root.format = disk.keys THEN plan
    ELSE [plan EXCEPT !.marker = TRUE,
                      !.moved = @ \cup {p \in {FormatFile} : disk.root.format # 0}]

\* plan_with
Plan ==
    IF disk.root.managed # "none"
    THEN Marked(IF disk[disk.root.managed].active.key = disk.keys THEN PlanKept ELSE PlanRebuild)
    ELSE IF disk.root.credentials THEN Marked(PlanListing)
    ELSE IF disk.root.format # 0 THEN Marked(PlanCreated("Namespace"))
    ELSE PlanCreated("LegacyDirectory")

\* plan_repair finds nothing to do.
NeedsNothing(plan) == plan.publication = "Nothing" /\ ~plan.marker /\ plan.moved = {}
-----------------------------------------------------------------------------
(* repair: the steps of cli/repair.rs and of carry_out *)

Release == lock' = "none" /\ Return

\* repair_with takes the lock, plans, and shows the plan.
AskRepair ==
    /\ lock = "none" /\ op = Idle
    /\ Inspect(disk) # {} /\ ~NeedsNothing(Plan)
    /\ lock' = "repair"
    /\ op' = [step |-> "asked", plan |-> Plan]
    /\ UNCHANGED <<disk, images, held, safe, stake, served, damages>>

\* The step that publishes.
Publication(plan) ==
    CASE plan.publication = "Nothing" -> "remark"
      [] plan.publication = "Manifest" -> "republish"
      [] plan.publication = "Migration" -> IF plan.marker THEN "first marker" ELSE "list"
      [] OTHER -> "create"

\* repair plans again, and goes on only with the plan that was shown.
BeginRepair ==
    /\ op.step = "asked"
    /\ IF Plan = op.plan
       THEN /\ op' = [step |-> IF Plan.moved # {} THEN "quarantine" ELSE Publication(Plan),
                      plan |-> Plan, members |-> Plan.members,
                      marker |-> Plan.marker, flushed |-> TRUE]
            /\ stake' = stake \cup {e \in Entries(disk) : \A s \in Snapshots : e \in Entries(s)}
            /\ served' = {Usable(s) : s \in {t \in {disk} : Snapshots = {t}}}
            /\ UNCHANGED lock
       ELSE Release /\ UNCHANGED <<stake, served>>
    /\ UNCHANGED <<disk, images, held, safe, damages>>

\* The user says no.
Decline ==
    /\ op.step = "asked"
    /\ Release
    /\ UNCHANGED <<disk, images, held, safe, stake, served, damages>>

\* quarantine: a file is linked, anything else moved; an error leaves part of it done.
Quarantine(done, outcome) ==
    LET files == {[at |-> p, is |-> ContentAt(disk, p)] : p \in {q \in done : Holds(disk, q)}}
        away == {p \in done : ContentAt(disk, p).key = NotAFile}
        AwayFrom(d) ==
            IF FormatFile \in away /\ d = "root" THEN [disk.root EXCEPT !.format = 0]
            ELSE IF d \in {"L", "M"} /\ ActiveFile(d) \in away
            THEN [disk[d] EXCEPT !.active = NoManifest]
            ELSE disk[d]
    IN
    /\ op.step = "quarantine"
    /\ done \subseteq op.plan.moved
    /\ outcome # "Err"
    /\ done # op.plan.moved => outcome = "Unflushed"
    /\ disk' = [d \in Directories |-> AwayFrom(d)]
    /\ images' = [d \in Directories |-> images[d] \cup {AwayFrom(d)}]
    /\ held' = held \cup files
    /\ safe' = IF outcome = "Ok" THEN safe \cup files ELSE safe
    /\ IF outcome = "Ok"
       THEN op' = [op EXCEPT !.step = Publication(op.plan)] /\ UNCHANGED lock
       ELSE Release
    /\ UNCHANGED <<stake, served, damages>>

\* What carry_out does once the list is published.
AfterList(flushed) ==
    [op EXCEPT !.step = IF op.marker THEN "remark" ELSE "done", !.flushed = @ /\ flushed]

\* ensure_private_dir: a new and empty namespace.
CreateNamespace(ns, outcome) ==
    LET root == IF ns = "M" THEN [disk.root EXCEPT !.managed = "M"]
                ELSE [disk.root EXCEPT !.credentials = TRUE]
        new == [disk EXCEPT !.root = root,
                            ![ns] = [active |-> NoManifest, files |-> NoFiles],
                            ![Records(ns)] = NoFiles]
    IN
    IF outcome = "Err" THEN UNCHANGED <<disk, images>>
    ELSE /\ disk' = new
         /\ images' = [d \in Directories |->
                          CASE d = "root" -> IF outcome = "Ok" THEN {root} ELSE images.root \cup {root}
                            [] d \in {ns, Records(ns)} -> {new[d]}
                            [] OTHER -> images[d]]

\* The namespace is created again, or a legacy store's directory.
CreateDirectory(outcome) ==
    /\ op.step = "create"
    /\ CreateNamespace(IF op.plan.publication = "Namespace" THEN "M" ELSE "L", outcome)
    /\ IF outcome # "Ok" THEN Release
       ELSE /\ UNCHANGED lock
            /\ op' = IF op.plan.publication = "Namespace" THEN [op EXCEPT !.step = "republish"]
                     ELSE AfterList(TRUE)
    /\ UNCHANGED <<held, safe, stake, served, damages>>

\* write_format_marker, before a legacy store's first commit.
WriteFirstMarker(outcome) ==
    /\ op.step = "first marker"
    /\ Write("root", [disk.root EXCEPT !.format = disk.keys], outcome)
    /\ IF outcome = "Ok" THEN op' = [op EXCEPT !.step = "list", !.marker = FALSE] /\ UNCHANGED lock
       ELSE Release
    /\ UNCHANGED <<held, safe, stake, served, damages>>

\* Variant: the rename does not wait for the manifest's flush (ServesWhole).
PrepareListLoosely(outcome) ==
    /\ op.step = "list"
    /\ Write("L", [disk.L EXCEPT !.active = Manifest], outcome)
    /\ IF outcome # "Err" THEN op' = [op EXCEPT !.step = "switch"] /\ UNCHANGED lock
       ELSE Release
    /\ UNCHANGED <<held, safe, stake, served, damages>>

\* publish_migration up to the rename,
PrepareList(outcome) ==
    /\ op.step = "list"
    /\ Write("L", [disk.L EXCEPT !.active = Manifest], outcome)
    /\ IF outcome = "Ok" THEN op' = [op EXCEPT !.step = "switch"] /\ UNCHANGED lock
       ELSE Release
    /\ UNCHANGED <<held, safe, stake, served, damages>>

\* and the rename.
SwitchNamespace(outcome) ==
    /\ op.step = "switch"
    /\ Write("root", [disk.root EXCEPT !.credentials = FALSE, !.managed = "L"], outcome)
    /\ IF outcome = "Err" THEN Release
       ELSE /\ UNCHANGED lock
            /\ op' = IF outcome = "Ok" THEN [op EXCEPT !.step = "reclaim"] ELSE AfterList(FALSE)
    /\ UNCHANGED <<held, safe, stake, served, damages>>

\* publish_manifest and finish_commit, which flushes the root too.
Republish(outcome, rootOutcome) ==
    LET c == [disk[Namespace] EXCEPT !.active = Manifest] IN
    /\ op.step = "republish"
    /\ rootOutcome # "Err"
    /\ IF FlushedStrictly(outcome) /\ FlushedStrictly(rootOutcome)
       THEN /\ disk' = [disk EXCEPT ![Namespace] = c]
            /\ images' = [images EXCEPT ![Namespace] = {c}, !.root = {disk.root}]
       ELSE Write(Namespace, c, outcome)
    /\ IF outcome = "Err" THEN Release
       ELSE /\ UNCHANGED lock
            /\ op' = IF Confirmed(outcome, rootOutcome) THEN [op EXCEPT !.step = "reclaim"]
                     ELSE AfterList(FALSE)
    /\ UNCHANGED <<held, safe, stake, served, damages>>

\* cleanup_retired: what it does not remove, or may come back, is pending.
Reclaim(location, kept, outcome) ==
    LET removable == {i \in Ids : Reclaimable(op.members, i, location)}
        Without(files) == [i \in Ids |-> IF i \in removable \ kept THEN NoFile ELSE files[i]]
        d == IF location = "Legacy" THEN Namespace ELSE Records(Namespace)
    IN
    /\ op.step = IF location = "Legacy" THEN "reclaim" ELSE "reclaim records"
    /\ kept \subseteq removable
    /\ kept # {} => outcome = "Unflushed"
    /\ outcome # "Err"
    /\ Write(d, IF location = "Legacy" THEN [disk[d] EXCEPT !.files = Without(@)]
                ELSE Without(disk[d]), outcome)
    /\ op' = IF location = "Legacy" THEN [op EXCEPT !.step = "reclaim records"] ELSE AfterList(TRUE)
    /\ UNCHANGED repairVars

\* replace_format_marker: last, since it decides whether the list is used at all.
Remark(outcome) ==
    /\ op.step = "remark"
    /\ Write("root", [disk.root EXCEPT !.format = disk.keys], outcome)
    /\ IF outcome = "Err" THEN Release
       ELSE op' = [op EXCEPT !.step = "done", !.flushed = @ /\ outcome = "Ok"] /\ UNCHANGED lock
    /\ UNCHANGED <<held, safe, stake, served, damages>>

\* repair_with reports it.
EndRepair ==
    /\ op.step = "done"
    /\ Release
    /\ UNCHANGED <<disk, images, held, safe, stake, served, damages>>
-----------------------------------------------------------------------------
(* The key, and what befalls its store *)

\* open_with_key_source: a legacy store's directory is created if it is missing.
StartKey(outcome) ==
    /\ lock = "none" /\ op = Idle
    /\ IF disk.root.managed = "none" /\ disk.root.format = 0 /\ ~disk.root.credentials
       THEN CreateNamespace("L", outcome)
       ELSE outcome = "Ok" /\ UNCHANGED <<disk, images>>
    /\ lock' = IF outcome = "Ok" THEN "key" ELSE "none"
    /\ UNCHANGED <<op, held, safe, stake, served, damages>>

StopKey ==
    /\ lock = "key" /\ op = Idle
    /\ lock' = "none"
    /\ UNCHANGED <<disk, images, op, held, safe, stake, served, damages>>

\* A step of the running key: CredentialStore's, without the reset.
KeyStep ==
    /\ lock = "key"
    /\ \/ \E i \in Ids : InsertOrReplaceDiscoverable(i) \/ PutManaged(i) \/ DeleteManaged(i)
       \/ \E o \in Outcomes :
             WriteFormatMarker(o) \/ WriteCandidate(o) \/ PrepareMigration(o) \/ PublishMigration(o)
       \/ \E o, r \in Outcomes : PublishManifest(o, r)
       \/ \E location \in Locations, kept \in SUBSET Ids, o \in Outcomes : Cleanup(location, kept, o)
       \/ \E i \in Ids, o \in Outcomes : PutLegacy(i, o) \/ PutUpdate(i, o) \/ DeleteLegacy(i, o)
    /\ stake' = {}
    /\ UNCHANGED <<lock, held, safe, served, damages>>

\* A file is damaged, lost, or replaced by something that is not a file.
DamageFile(p, k) ==
    LET d == DirectoryOf(p) IN
    /\ damages < MaxDamage
    /\ op.step \in {"idle", "asked"}
    /\ images[d] = {disk[d]}
    /\ Holds(disk, p)
    /\ ContentAt(disk, p).key # k
    /\ disk' = WithKey(disk, p, k)
    /\ images' = [images EXCEPT ![d] = {disk'[d]}]
    /\ stake' = {e \in stake : e.at # p}
    /\ damages' = damages + 1
    /\ UNCHANGED <<op, lock, held, safe, served>>

\* A namespace is lost.
LoseDirectory(ns) ==
    /\ damages < MaxDamage
    /\ op.step \in {"idle", "asked"}
    /\ IF disk.root.managed = ns THEN TRUE ELSE ns = "L" /\ disk.root.credentials
    /\ disk' = [disk EXCEPT !.root.managed = IF @ = ns THEN "none" ELSE @,
                            !.root.credentials = @ /\ disk.root.managed = ns,
                            ![ns] = [active |-> NoManifest, files |-> NoFiles],
                            ![Records(ns)] = NoFiles]
    /\ images' = [d \in Directories |-> IF d \in {"root", ns, Records(ns)} THEN {disk'[d]} ELSE images[d]]
    /\ stake' = {e \in stake : e.at[1] # ns}
    /\ damages' = damages + 1
    /\ UNCHANGED <<op, lock, held, safe, served>>

\* The key or repair dies.
Crash ==
    /\ "crash" \in Faults
    /\ lock # "none"
    /\ Release
    /\ UNCHANGED <<disk, images, held, safe, stake, served, damages>>

LosePower(s, left) ==
    /\ "power" \in Faults
    /\ disk' = s
    /\ images' = [d \in Directories |-> {s[d]}]
    /\ left \subseteq held \ safe
    /\ held' = safe \cup left
    /\ safe' = held'
    /\ Release
    /\ UNCHANGED <<stake, served, damages>>
-----------------------------------------------------------------------------
RepairInit ==
    /\ Init
    /\ lock = "none"
    /\ held = {} /\ safe = {} /\ stake = {}
    /\ served = {}
    /\ damages = 0

RepairNext ==
    \/ AskRepair \/ BeginRepair \/ Decline \/ EndRepair
    \/ \E done \in SUBSET (MetadataFiles \cup RecordFiles), o \in Outcomes : Quarantine(done, o)
    \/ \E o \in Outcomes : CreateDirectory(o)
    \/ \E o \in Outcomes : WriteFirstMarker(o)
    \/ \E o \in Outcomes : PrepareList(o)
    \/ \E o \in Outcomes : SwitchNamespace(o)
    \/ \E o, r \in Outcomes : Republish(o, r)
    \/ \E location \in Locations, kept \in SUBSET Ids, o \in Outcomes : Reclaim(location, kept, o)
    \/ \E o \in Outcomes : Remark(o)
    \/ \E o \in Outcomes : StartKey(o)
    \/ StopKey
    \/ KeyStep
    \/ \E p \in MetadataFiles, k \in {0, Broken, NotAFile} : DamageFile(p, k)
    \/ \E p \in RecordFiles, k \in {0, Broken} : DamageFile(p, k)
    \/ \E ns \in {"L", "M"} : LoseDirectory(ns)
    \/ Crash
    \/ \E s \in Snapshots, left \in SUBSET held : LosePower(s, left)

RepairSpec == RepairInit /\ [][RepairNext]_allVars
-----------------------------------------------------------------------------
(* Properties *)

Repairing == lock = "repair" /\ op.step # "asked"

\* Whatever repair does and whenever it ends, every file that was in the store
\* when it began is still in its place or in the quarantine, also after power loss
\* (repair_with: "No file of the store is lost: each is still in the store or
\* kept in" damaged/).
NothingLost == \A s \in Snapshots : stake \subseteq Entries(s) \cup safe

\* While a repair of a store that was on storage runs, and whatever a crash or power loss leaves of it, the store
\* serves the credentials it served before, or those of the repaired list (repair:
\* "an error or a crash at any checkpoint leaves the store serving the credentials it
\* served before or those of the repaired list").
ServesWhole ==
    Repairing /\ served # {} =>
        LET list == [i \in Ids |-> IF op.members[i] = "none" THEN -1
                                   ELSE FileAt(disk, i, op.members[i]).rev]
        IN  \A s \in Snapshots : Usable(s) \in served \cup {list}

\* A repair that ends well leaves nothing that an inspection would call damaged,
\* after power loss too if the store was on storage and the repair was reported
\* flushed; and whatever is damaged, repair
\* has a plan for ("repairing again finishes the work").
RepairHeals ==
    /\ op.step = "done" => Inspect(disk) = {}
    /\ op.step = "done" /\ op.flushed /\ served # {} => \A s \in Snapshots : Inspect(s) = {}
    /\ Inspect(disk) # {} => ~NeedsNothing(Plan)
=============================================================================
