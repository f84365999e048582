------------------------ MODULE CredentialStoreProofs ------------------------
(***************************************************************************)
(* Proofs about CredentialStore, for any credentials, accounts and bounds: *)
(* the store implements CredentialSet, no account ever has two             *)
(* credentials, and membership reported flushed is durable.                *)
(*                                                                         *)
(* The invariant, the steps that publish a manifest, those of a reset and  *)
(* power loss are in CredentialStoreLemmas; here each other step (a        *)
(* cleanup's, an update's, a deletion's and the first ones of an           *)
(* operation) gets its lemma.                                              *)
(***************************************************************************)
EXTENDS CredentialStoreLemmas

-----------------------------------------------------------------------------
(* cleanup_retired *)

\* What a commit has confirmed: the root, and the manifest in every image of the
\* namespace.
LEMMA CleaningFacts ==
    ASSUME StoreInv, CleaningUp
    PROVE  /\ Typed /\ disk.root.managed \in {"L", "M"} /\ Namespace = disk.root.managed
           /\ images.root = {disk.root} /\ disk.root.format = disk.keys
           /\ disk[disk.root.managed] \in images[disk.root.managed]
           /\ \A n \in images[disk.root.managed] : n.active = Manifest
           /\ Durable(images[disk.root.managed], images[Records(disk.root.managed)], images.keys)
<1>1. /\ Typed /\ disk.root.managed \in {"L", "M"}
  BY DiskFacts DEF StoreInv, CleaningUp
<1>2. disk[disk.root.managed] \in images[disk.root.managed] /\ disk.root \in images.root
  BY <1>1, TypedParts
<1>3. Durable(images[disk.root.managed], images[Records(disk.root.managed)], images.keys)
  BY <1>1, <1>2 DEF StoreInv, MembersInv, Named, Records
<1>4. QED
  BY <1>1, <1>2, <1>3 DEF CleaningUp, Namespace

\* Namespace c lists what n does, and differs only in files that are no members.
Cleaned(n, c) ==
    /\ c.active = n.active
    /\ \A j \in Ids : n.active.members[j] = "Legacy" => c.files[j] = n.files[j]

\* Such a namespace reads the same.
LEMMA SameRead ==
    ASSUME NEW k, NEW root, NEW n, NEW c, NEW r, Cleaned(n, c)
    PROVE  SetIn(k, root, c, r) = SetIn(k, root, n, r)
<1>1. \A j \in Ids : MemberRev(c, r, k, j) = MemberRev(n, r, k, j)
  BY DEF MemberRev, Cleaned
<1>2. QED
  BY <1>1 DEF SetIn, ManagedSet, Cleaned

\* The same for its records.
LEMMA SameRecordsRead ==
    ASSUME NEW k, NEW root, NEW n, NEW r, NEW c,
           \A j \in Ids : n.active.members[j] = "Managed" => c[j] = r[j]
    PROVE  SetIn(k, root, n, c) = SetIn(k, root, n, r)
<1>1. \A j \in Ids : MemberRev(n, c, k, j) = MemberRev(n, r, k, j)
  BY DEF MemberRev
<1>2. QED
  BY <1>1 DEF SetIn, ManagedSet

\* Members that lose no file stay durable.
LEMMA CleanDurable ==
    ASSUME NEW N, NEW N2, NEW R, NEW keys, NEW n \in N, NEW c, N2 \subseteq N \cup {c},
           \A m \in N : m.active = n.active, Cleaned(n, c),
           Durable(N, R, keys)
    PROVE  Durable(N2, R, keys)
BY DEF Durable, Cleaned

\* The same for records.
LEMMA CleanRecordsDurable ==
    ASSUME NEW N, NEW R, NEW R2, NEW keys, NEW n \in N, NEW r \in R, NEW c, R2 \subseteq R \cup {c},
           \A m \in N : m.active = n.active,
           \A j \in Ids : n.active.members[j] = "Managed" => c[j] = r[j],
           Durable(N, R, keys)
    PROVE  Durable(N, R2, keys)
BY DEF Durable

\* cleanup of the legacy files of the namespace.
LEMMA CleanLegacy ==
    ASSUME StoreInv, CleaningUp, NEW ns \in {"L", "M"}, disk.root.managed = ns,
           NEW c \in Namespaces, Cleaned(disk[ns], c),
           NEW o, Published(o), Write(ns, c, o), op' = [op EXCEPT !.step = "cleanup_records"]
    PROVE  StoreInv' /\ AbstractStep
<1> DEFINE n0 == disk[ns]
<1>1. /\ Typed /\ images.root = {disk.root} /\ disk.root.format = disk.keys
      /\ n0 \in images[ns] /\ n0.active = Manifest
      /\ \A n \in images[ns] : n.active = n0.active
      /\ Durable(images[ns], images[Records(ns)], images.keys)
  BY CleaningFacts
<1>2. Typed' /\ Wrote(ns, c, o) /\ \A e \in Directories \ {ns} : Kept(e)
  BY <1>1, WriteEffect DEF Directories
<1>3. Kept("keys") /\ Kept("root") /\ Kept("Lrecords") /\ Kept("Mrecords")
  BY <1>2 DEF Directories
<1>4. disk'[ns] = c /\ images'[ns] \subseteq images[ns] \cup {c}
  BY <1>2 DEF Wrote
<1>5. Cleaned(n0, c) /\ c.active = n0.active
  BY DEF Cleaned
<1> HIDE DEF n0
<1>6. RootInv' /\ \A x : Named(x)' => x = ns
  BY <1>1, <1>3 DEF StoreInv, RootInv, Kept, Named
<1>7. MembersInv'
  <2>1. Durable(images'[ns], images[Records(ns)], images.keys)
    BY <1>1, <1>4, <1>5, CleanDurable
  <2>2. QED
    BY <1>3, <1>6, <2>1 DEF MembersInv, Kept, Records
<1>8. OpInv'
  <2>1. /\ op' \in [step : {"cleanup", "cleanup_records"}, id : Ids, members : Memberships]
                   \cup [step : {"cleanup", "cleanup_records"}, members : Memberships]
        /\ op'.members = op.members
    <3>1. CASE op \in [step : {"cleanup", "cleanup_records"}, id : Ids, members : Memberships]
      BY <3>1
    <3>2. CASE op \in [step : {"cleanup", "cleanup_records"}, members : Memberships]
      BY <3>2
    <3>3. QED
      BY <3>1, <3>2 DEF CleaningUp
  <2>2. Manifest' = Manifest
    BY <1>3, <2>1 DEF Manifest, Kept
  <2>3. \A n \in images'[ns] : n.active = Manifest'
    BY <1>1, <1>4, <1>5, <2>2
  <2>4. CleaningUp'
    BY <1>1, <1>3, <2>1, <2>3 DEF CleaningUp, Kept
  <2>5. QED
    BY <2>4 DEF OpInv
<1>9. \A k, root, r : SetIn(k, root, c, r) = SetIn(k, root, n0, r)
  BY <1>5, SameRead
<1>10. Set!Settle
  <2>1. CASE ns = "L"
    <3>1. Kept("M") /\ n0 = disk.L /\ n0 \in images.L /\ disk'.L = c
      BY <1>1, <1>2, <1>4, <2>1 DEF Directories, n0
    <3>2. Visible' = Visible
      <4>1. SetOf(disk.keys, disk.root, c, disk.Lrecords, disk.M, disk.Mrecords) = Visible
        BY <1>9, <2>1, <3>1 DEF Visible, SetOf
      <4>2. QED
        BY <1>3, <3>1, <4>1 DEF Visible, Kept
    <3>3. ASSUME NEW k \in images'.keys, NEW root \in images'.root, NEW l \in images'.L,
                 NEW lr \in images'.Lrecords, NEW m \in images'.M, NEW mr \in images'.Mrecords
          PROVE  SetOf(k, root, l, lr, m, mr) \in Left
      <4>1. /\ k \in images.keys /\ root \in images.root /\ lr \in images.Lrecords
            /\ m \in images.M /\ mr \in images.Mrecords /\ l \in images.L \cup {c} /\ root.managed = "L"
        BY <1>1, <1>3, <1>4, <2>1, <3>1 DEF Kept
      <4>2. SetOf(k, root, c, lr, m, mr) = SetOf(k, root, n0, lr, m, mr)
        BY <1>9, <4>1 DEF SetOf
      <4>3. \A x \in images.L : SetOf(k, root, x, lr, m, mr) \in Left
        BY <1>1, <4>1, Outcome DEF ReadFromImages, Left
      <4>4. QED
        BY <3>1, <4>1, <4>2, <4>3
    <3>4. QED
      BY <1>1, <1>2, <1>3, <3>2, <3>3, SettleStep DEF Kept
  <2>2. CASE ns = "M"
    <3>1. Kept("L") /\ n0 = disk.M /\ n0 \in images.M /\ disk'.M = c
      BY <1>1, <1>2, <1>4, <2>2 DEF Directories, n0
    <3>2. Visible' = Visible
      <4>1. SetOf(disk.keys, disk.root, disk.L, disk.Lrecords, c, disk.Mrecords) = Visible
        BY <1>9, <2>2, <3>1 DEF Visible, SetOf
      <4>2. QED
        BY <1>3, <3>1, <4>1 DEF Visible, Kept
    <3>3. ASSUME NEW k \in images'.keys, NEW root \in images'.root, NEW l \in images'.L,
                 NEW lr \in images'.Lrecords, NEW m \in images'.M, NEW mr \in images'.Mrecords
          PROVE  SetOf(k, root, l, lr, m, mr) \in Left
      <4>1. /\ k \in images.keys /\ root \in images.root /\ lr \in images.Lrecords
            /\ l \in images.L /\ mr \in images.Mrecords /\ m \in images.M \cup {c} /\ root.managed = "M"
        BY <1>1, <1>3, <1>4, <2>2, <3>1 DEF Kept
      <4>2. SetOf(k, root, l, lr, c, mr) = SetOf(k, root, l, lr, n0, mr)
        BY <1>9, <4>1 DEF SetOf
      <4>3. QED
        BY <1>1, <3>1, <4>1, <4>2, Outcome DEF ReadFromImages, Left
    <3>4. QED
      BY <1>1, <1>2, <1>3, <3>2, <3>3, SettleStep DEF Kept
  <2>3. QED
    BY <2>1, <2>2
<1>11. QED
  BY <1>2, <1>6, <1>7, <1>8, <1>10, SettleRefines DEF StoreInv

\* cleanup of the managed records of the namespace.
LEMMA CleanRecords ==
    ASSUME StoreInv, CleaningUp, NEW ns \in {"L", "M"}, disk.root.managed = ns,
           NEW c \in [Ids -> Files],
           \A j \in Ids : disk[ns].active.members[j] = "Managed" => c[j] = disk[Records(ns)][j],
           NEW o, Published(o), Write(Records(ns), c, o), op' = Idle
    PROVE  StoreInv' /\ AbstractStep
<1> DEFINE n0 == disk[ns]
           rec == Records(ns)
           r0 == disk[rec]
<1>1. /\ Typed /\ images.root = {disk.root} /\ n0 \in images[ns]
      /\ \A n \in images[ns] : n.active = n0.active
      /\ Durable(images[ns], images[rec], images.keys)
  BY CleaningFacts
<1>2. rec \in {"Lrecords", "Mrecords"} /\ r0 \in images[rec]
  BY <1>1, TypedParts DEF Records
<1>3. Typed' /\ Wrote(rec, c, o) /\ \A e \in Directories \ {rec} : Kept(e)
  BY <1>1, <1>2, WriteEffect DEF Directories
<1>4. \A j \in Ids : n0.active.members[j] = "Managed" => c[j] = r0[j]
  OBVIOUS
<1> HIDE DEF n0, r0, rec
<1>5. Kept("keys") /\ Kept("root") /\ Kept("L") /\ Kept("M")
  BY <1>2, <1>3 DEF Directories
<1>6. disk'[rec] = c /\ images'[rec] \subseteq images[rec] \cup {c}
  BY <1>3 DEF Wrote
<1>7. RootInv' /\ \A x : Named(x)' => x = ns
  BY <1>1, <1>5 DEF StoreInv, RootInv, Kept, Named
<1>8. MembersInv'
  <2>1. Durable(images[ns], images'[rec], images.keys)
    BY <1>1, <1>2, <1>4, <1>6, CleanRecordsDurable
  <2>2. QED
    BY <1>5, <1>7, <2>1 DEF MembersInv, Kept, Records, rec
<1>9. \A n \in images[ns] : \A k, root : SetIn(k, root, n, c) = SetIn(k, root, n, r0)
  BY <1>1, <1>4, SameRecordsRead
<1>10. Set!Settle
  <2>1. CASE ns = "L"
    <3>1. Kept("Mrecords") /\ r0 = disk.Lrecords /\ rec = "Lrecords" /\ disk.L \in images.L
      BY <1>1, <1>3, <2>1, TypedParts DEF Directories, r0, rec, Records
    <3>2. Visible' = Visible
      BY <1>5, <1>6, <1>9, <2>1, <3>1 DEF Visible, SetOf, Kept
    <3>3. ASSUME NEW k \in images'.keys, NEW root \in images'.root, NEW l \in images'.L,
                 NEW lr \in images'.Lrecords, NEW m \in images'.M, NEW mr \in images'.Mrecords
          PROVE  SetOf(k, root, l, lr, m, mr) \in Left
      <4>1. /\ k \in images.keys /\ root \in images.root /\ lr \in images.Lrecords \cup {c}
            /\ m \in images.M /\ mr \in images.Mrecords /\ l \in images.L /\ root.managed = "L"
        BY <1>1, <1>5, <1>6, <2>1, <3>1 DEF Kept
      <4>2. SetOf(k, root, l, c, m, mr) = SetOf(k, root, l, r0, m, mr)
        BY <1>9, <2>1, <4>1 DEF SetOf
      <4>3. QED
        BY <1>1, <1>2, <3>1, <4>1, <4>2, Outcome DEF ReadFromImages, Left
    <3>4. QED
      BY <1>1, <1>3, <1>5, <3>2, <3>3, SettleStep DEF Kept
  <2>2. CASE ns = "M"
    <3>1. Kept("Lrecords") /\ r0 = disk.Mrecords /\ rec = "Mrecords" /\ disk.M \in images.M
      BY <1>1, <1>3, <2>2, TypedParts DEF Directories, r0, rec, Records
    <3>2. Visible' = Visible
      BY <1>5, <1>6, <1>9, <2>2, <3>1 DEF Visible, SetOf, Kept
    <3>3. ASSUME NEW k \in images'.keys, NEW root \in images'.root, NEW l \in images'.L,
                 NEW lr \in images'.Lrecords, NEW m \in images'.M, NEW mr \in images'.Mrecords
          PROVE  SetOf(k, root, l, lr, m, mr) \in Left
      <4>1. /\ k \in images.keys /\ root \in images.root /\ mr \in images.Mrecords \cup {c}
            /\ m \in images.M /\ lr \in images.Lrecords /\ l \in images.L /\ root.managed = "M"
        BY <1>1, <1>5, <1>6, <2>2, <3>1 DEF Kept
      <4>2. SetOf(k, root, l, lr, m, c) = SetOf(k, root, l, lr, m, r0)
        BY <1>9, <2>2, <4>1 DEF SetOf
      <4>3. QED
        BY <1>1, <1>2, <3>1, <4>1, <4>2, Outcome DEF ReadFromImages, Left
    <3>4. QED
      BY <1>1, <1>3, <1>5, <3>2, <3>3, SettleStep DEF Kept
  <2>3. QED
    BY <2>1, <2>2
<1>11. QED
  BY <1>3, <1>7, <1>8, <1>10, SettleRefines DEF StoreInv, OpInv

\* The steps that only a cleanup has.
LEMMA CleanupSteps ==
    ASSUME StoreInv, op.step \in {"cleanup", "cleanup_records"}
    PROVE  CleaningUp
<1>1. op # Idle
  <2>1. Idle.step = "idle"
    BY DEF Idle
  <2>2. QED
    BY <2>1
<1>2. ~Deletion /\ ~Insertion
  BY DEF Deletion, Insertion
<1>3. ~Resetting
  BY DEF Resetting
<1>4. QED
  BY <1>1, <1>2, <1>3 DEF StoreInv, OpInv

\* cleanup_retired removes nothing a member is read from, so it shows nothing.
LEMMA CleanupStep ==
    ASSUME StoreInv, NEW location \in Locations, NEW kept, NEW o, Cleanup(location, kept, o)
    PROVE  StoreInv' /\ AbstractStep
<1> DEFINE ns == disk.root.managed
           removed == {i \in Ids : Reclaimable(op.members, i, location)} \ kept
           Without(files) == [i \in Ids |-> IF i \in removed THEN NoFile ELSE files[i]]
<1>1. CleaningUp /\ Published(o)
  BY CleanupSteps DEF Cleanup, Published, Locations
<1>2. /\ Typed /\ ns \in {"L", "M"} /\ Namespace = ns /\ disk[ns].active = Manifest
      /\ disk[ns] \in Namespaces /\ disk[Records(ns)] \in [Ids -> Files]
  <2>1. Typed /\ ns \in {"L", "M"} /\ Namespace = ns /\ disk[ns].active = Manifest
    BY <1>1, CleaningFacts
  <2>2. QED
    BY <2>1, TypedParts DEF Records
<1>3. \A i \in Ids : disk[ns].active.members[i] = location => i \notin removed
  BY <1>2 DEF Reclaimable, Manifest, Locations
<1>4. ASSUME NEW files \in [Ids -> Files]
      PROVE  /\ Without(files) \in [Ids -> Files]
             /\ \A i \in Ids : i \notin removed => Without(files)[i] = files[i]
  BY StoreAssumption DEF NoFile, Files
<1>5. CASE location = "Legacy"
  <2> DEFINE c == [disk[ns] EXCEPT !.files = Without(@)]
  <2>1. Write(ns, c, o) /\ op' = [op EXCEPT !.step = "cleanup_records"]
    BY <1>2, <1>5 DEF Cleanup
  <2> HIDE DEF removed, Without
  <2>2. c \in Namespaces /\ c.active = disk[ns].active /\ c.files = Without(disk[ns].files)
    <3>1. disk[ns].files \in [Ids -> Files]
      BY <1>2 DEF Namespaces
    <3>2. Without(disk[ns].files) \in [Ids -> Files]
      BY <1>4, <3>1
    <3>3. QED
      BY <1>2, <3>2 DEF Namespaces
  <2>3. \A j \in Ids : disk[ns].active.members[j] = "Legacy" => c.files[j] = disk[ns].files[j]
    <3>1. disk[ns].files \in [Ids -> Files]
      BY <1>2 DEF Namespaces
    <3>2. QED
      BY <1>3, <1>4, <1>5, <2>2, <3>1
  <2> HIDE DEF c
  <2>4. QED
    BY <1>1, <1>2, <2>1, <2>2, <2>3, CleanLegacy DEF Cleaned
<1>6. CASE location = "Managed"
  <2> DEFINE c == Without(disk[Records(ns)])
  <2>1. Write(Records(ns), c, o) /\ op' = Idle
    BY <1>2, <1>6 DEF Cleanup, Return
  <2> HIDE DEF removed, Without
  <2>2. c \in [Ids -> Files]
    BY <1>2, <1>4
  <2>3. \A j \in Ids : disk[ns].active.members[j] = "Managed" => c[j] = disk[Records(ns)][j]
    BY <1>2, <1>3, <1>4, <1>6
  <2> HIDE DEF c
  <2>4. QED
    BY <1>1, <1>2, <2>1, <2>2, <2>3, CleanRecords
<1>7. QED
  BY <1>5, <1>6 DEF Locations

-----------------------------------------------------------------------------
(* put and delete *)

\* A legacy store: the visible set is what credentials/ holds.
LEMMA LegacyStore ==
    ASSUME StoreInv, Authority(disk) = "legacy"
    PROVE  /\ Typed /\ disk.root.managed = "none" /\ disk.root.credentials /\ Namespace = "L"
           /\ Visible = LegacySet(disk.L, disk.keys)
           /\ Visible \in Set!Sets /\ Visible # Unavailable
<1>1. /\ Typed /\ disk.root.managed = "none" /\ disk.root.credentials
  BY DiskFacts, AuthorityIs DEF StoreInv
<1>2. Visible = LegacySet(disk.L, disk.keys)
  BY <1>1 DEF Visible, SetOf
<1>3. disk.L \in Namespaces /\ disk.Lrecords \in [Ids -> Files]
  BY <1>1, TypedParts
<1>4. QED
  BY <1>1, <1>2, <1>3, SetTyped DEF Namespace

\* A credential that is listed and readable is visible at the revision of its file.
LEMMA VisibleRead ==
    ASSUME StoreInv, NEW i \in Ids, Authority(disk) # "unavailable",
           i \in Listed(disk), Readable(disk, i)
    PROVE  /\ Typed /\ Visible \in Set!Sets /\ Visible # Unavailable
           /\ Listing(disk)[i] \in Locations
           /\ Visible[i] = FileAt(disk, i, Listing(disk)[i]).rev
           /\ FileAt(disk, i, Listing(disk)[i]).key = disk.keys
           /\ FileAt(disk, i, Listing(disk)[i]) = IF Listing(disk)[i] = "Legacy"
                                                  THEN disk[Namespace].files[i]
                                                  ELSE disk[Records(Namespace)][i]
           /\ Authority(disk) \in {"legacy", "managed"}
<1>1. Typed /\ disk \in Disks /\ disk.keys # 0 /\ disk.root.managed \in {"none", "L", "M"}
  BY DiskFacts DEF StoreInv
<1>2. Authority(disk) \in {"legacy", "managed"}
  BY <1>1, AuthorityIs
<1>3. Visible \in Set!Sets /\ Visible # Unavailable
  <2>1. CASE Authority(disk) = "legacy"
    BY <2>1, LegacyStore
  <2>2. CASE Authority(disk) = "managed"
    <3>1. disk.root.managed \in {"L", "M"}
      BY <1>1, <2>2, AuthorityIs
    <3>2. QED
      BY <2>2, <3>1, ManagedMembers
  <2>3. QED
    BY <1>2, <2>1, <2>2
<1>4. Visible[i] = FileAt(disk, i, Listing(disk)[i]).rev
  <2>1. Usable(disk)[i] = FileAt(disk, i, Listing(disk)[i]).rev
    BY DEF Usable
  <2>2. QED
    BY <1>1, <2>1, Outcome DEF ReadFromImages
<1>5. Listing(disk)[i] \in Locations
  BY <1>1, ListingIs DEF Listed, Memberships
<1>6. FileAt(disk, i, Listing(disk)[i]).key = disk.keys
  BY DEF Readable
<1>7. QED
  BY <1>1, <1>2, <1>3, <1>4, <1>5, <1>6 DEF FileAt, Namespace

\* Set u is old, or old with v for a credential that old has.
Updates(u, old, i, v) ==
    \/ u = old
    \/ /\ u \in Set!Sets /\ old \in Set!Sets /\ old # Unavailable
       /\ old[i] # -1 /\ u[i] = v /\ v # -1
       /\ \A j \in Ids \ {i} : u[j] = old[j]

\* Such a set is accounted for by old and by one that has v.
LEMMA UpdateAccounted ==
    ASSUME NEW sets, NEW old \in sets, NEW new \in sets, new # Unavailable, NEW i \in Ids, NEW u,
           NEW v, new[i] = v, Updates(u, old, i, v)
    PROVE  Set!OneOf(u, sets)
<1>1. CASE u = old
  BY <1>1, Accounted
<1>2. CASE /\ u \in Set!Sets /\ old \in Set!Sets /\ old # Unavailable
           /\ old[i] # -1 /\ u[i] = v /\ v # -1
           /\ \A j \in Ids \ {i} : u[j] = old[j]
  <2>1. \A j \in Ids : (u[j] = -1) <=> (old[j] = -1)
    BY <1>2
  <2>2. \A j \in Ids : u[j] # -1 => \E o \in sets : o # Unavailable /\ u[j] = o[j]
    BY <1>2
  <2>3. QED
    BY <1>2, <2>1, <2>2, AccountedMixed
<1>3. QED
  BY <1>1, <1>2 DEF Updates

\* A step after which every set is one from before, with at most i updated, and the
\* visible one is.
LEMMA UpdateRefines ==
    ASSUME Typed, Typed', images'.keys = images.keys, disk'.keys = disk.keys,
           Visible \in Set!Sets, Visible # Unavailable,
           NEW i \in Ids, NEW v, Visible[i] \in 0..(MaxRev - 1), v = Visible[i] + 1,
           Updates(Visible', Visible, i, v), Visible'[i] = v,
           \A k \in images'.keys, root \in images'.root, l \in images'.L, lr \in images'.Lrecords,
              m \in images'.M, mr \in images'.Mrecords :
              \E old \in Left : Updates(SetOf(k, root, l, lr, m, mr), old, i, v)
    PROVE  AbstractStep
<1> DEFINE new == [Visible EXCEPT ![i] = v]
           sets == Left \cup {new} \cup Lost
<1>1. v \in 0..MaxRev /\ v # -1
  BY StoreAssumption
<1>2. new \in Set!Sets /\ new[i] = v /\ \A j \in Ids \ {i} : new[j] = Visible[j]
  BY <1>1 DEF Set!Sets
<1>3. new # Unavailable
  BY <1>2, StoreAssumption DEF Set!Sets, Set!Absent
<1>4. Visible' = new
  <2>1. CASE Visible' = Visible
    BY <2>1 DEF Set!Sets
  <2>2. CASE Visible' # Visible
    <3>1. Visible' \in Set!Sets /\ \A j \in Ids \ {i} : Visible'[j] = Visible[j]
      BY <2>2 DEF Updates
    <3>2. QED
      BY <1>2, <3>1 DEF Set!Sets
  <2>3. QED
    BY <2>1, <2>2
<1> HIDE DEF new
<1>5. new \in sets /\ Left \subseteq sets
  OBVIOUS
<1> HIDE DEF sets
<1>6. ASSUME NEW u, NEW old \in Left, Updates(u, old, i, v)
      PROVE  Set!OneOf(u, sets)
  BY <1>2, <1>3, <1>5, <1>6, UpdateAccounted
<1>7. \A k \in images'.keys, root \in images'.root, l \in images'.L, lr \in images'.Lrecords,
         m \in images'.M, mr \in images'.Mrecords : Set!OneOf(SetOf(k, root, l, lr, m, mr), sets)
  BY <1>6
<1>8. Set!Becomes(new)
  BY <1>4, <1>7, BecomesStep, Zenon DEF sets
<1>9. Set!Update(i)
  <2>1. Usable(disk) = Visible
    BY Outcome DEF ReadFromImages
  <2>2. new = [Usable(disk) EXCEPT ![i] = @ + 1]
    BY <2>1 DEF new
  <2>3. QED
    BY <1>8, <2>1, <2>2 DEF Set!Update
<1>10. QED
  BY <1>9 DEF AbstractStep, Set!Next

\* Namespace c has i's file replaced by f, under the same key.
FileUpdated(n, c, i, f) ==
    /\ c.active = n.active
    /\ c.files[i] = f /\ f.key = n.files[i].key
    /\ \A j \in Ids \ {i} : c.files[j] = n.files[j]

\* Records c have i's file replaced by f, under the same key.
RecordUpdated(r, c, i, f) ==
    /\ c[i] = f /\ f.key = r[i].key
    /\ \A j \in Ids \ {i} : c[j] = r[j]

\* What is read of an updated namespace.
LEMMA FileUpdatedSet ==
    ASSUME NEW n \in Namespaces, NEW c \in Namespaces, NEW i \in Ids, NEW f \in Files,
           FileUpdated(n, c, i, f), NEW r \in [Ids -> Files], NEW k, NEW root
    PROVE  /\ Updates(LegacySet(c, k), LegacySet(n, k), i, f.rev)
           /\ Updates(SetIn(k, root, c, r), SetIn(k, root, n, r), i, f.rev)
<1>1. /\ LegacySet(c, k) \in Set!Sets /\ LegacySet(n, k) \in Set!Sets /\ LegacySet(n, k) # Unavailable
      /\ ManagedSet(c, r, k) \in Set!Sets /\ ManagedSet(n, r, k) \in Set!Sets
      /\ ManagedSet(n, r, k) # Unavailable
  BY SetTyped
<1>2. f.rev # -1 /\ n.files[i].rev # -1
  BY StoreAssumption DEF Files, Namespaces
<1>3. ASSUME NEW j \in Ids \ {i}
      PROVE  LegacySet(c, k)[j] = LegacySet(n, k)[j] /\ ManagedSet(c, r, k)[j] = ManagedSet(n, r, k)[j]
  BY DEF FileUpdated, LegacySet, ManagedSet, MemberRev
<1>4. Updates(LegacySet(c, k), LegacySet(n, k), i, f.rev)
  <2>1. LegacySet(c, k)[i] = RevUnder(f, k) /\ LegacySet(n, k)[i] = RevUnder(n.files[i], k)
    BY DEF FileUpdated, LegacySet
  <2>2. CASE f.key = k
    BY <1>1, <1>2, <1>3, <2>1, <2>2 DEF Updates, RevUnder, FileUpdated
  <2>3. CASE f.key # k
    <3>1. \A j \in Ids : LegacySet(c, k)[j] = LegacySet(n, k)[j]
      BY <1>3, <2>1, <2>3 DEF RevUnder, FileUpdated
    <3>2. LegacySet(c, k) = LegacySet(n, k)
      BY <1>1, <3>1 DEF Set!Sets
    <3>3. QED
      BY <3>2 DEF Updates
  <2>4. QED
    BY <2>2, <2>3
<1>5. Updates(ManagedSet(c, r, k), ManagedSet(n, r, k), i, f.rev)
  <2>1. ManagedSet(c, r, k)[i] = MemberRev(c, r, k, i) /\ ManagedSet(n, r, k)[i] = MemberRev(n, r, k, i)
    BY DEF ManagedSet
  <2>2. CASE f.key = k /\ n.active.members[i] = "Legacy"
    <3>1. ManagedSet(c, r, k)[i] = f.rev /\ ManagedSet(n, r, k)[i] # -1
      BY <1>2, <2>1, <2>2 DEF FileUpdated, MemberRev, RevUnder
    <3>2. QED
      BY <1>1, <1>2, <1>3, <3>1 DEF Updates
  <2>3. CASE ~(f.key = k /\ n.active.members[i] = "Legacy")
    <3>1. ManagedSet(c, r, k)[i] = ManagedSet(n, r, k)[i]
      BY <2>1, <2>3 DEF FileUpdated, MemberRev, RevUnder
    <3>2. ManagedSet(c, r, k) = ManagedSet(n, r, k)
      BY <1>1, <1>3, <3>1 DEF Set!Sets
    <3>3. QED
      BY <3>2 DEF Updates
  <2>4. QED
    BY <2>2, <2>3
<1>6. Updates(SetIn(k, root, c, r), SetIn(k, root, n, r), i, f.rev)
  <2>1. CASE root.format = k /\ n.active.key = k
    BY <1>5, <2>1 DEF SetIn, FileUpdated
  <2>2. CASE ~(root.format = k /\ n.active.key = k)
    BY <2>2 DEF SetIn, FileUpdated, Updates
  <2>3. QED
    BY <2>1, <2>2
<1>7. QED
  BY <1>4, <1>6

\* What is read of updated records.
LEMMA RecordUpdatedSet ==
    ASSUME NEW n \in Namespaces, NEW r \in [Ids -> Files], NEW c \in [Ids -> Files], NEW i \in Ids,
           NEW f \in Files, RecordUpdated(r, c, i, f), NEW k, NEW root
    PROVE  Updates(SetIn(k, root, n, c), SetIn(k, root, n, r), i, f.rev)
<1>1. /\ ManagedSet(n, c, k) \in Set!Sets /\ ManagedSet(n, r, k) \in Set!Sets
      /\ ManagedSet(n, r, k) # Unavailable
  BY SetTyped, Zenon
<1>2. f.rev # -1 /\ r[i].rev # -1
  BY StoreAssumption DEF Files
<1>3. ASSUME NEW j \in Ids \ {i}
      PROVE  ManagedSet(n, c, k)[j] = ManagedSet(n, r, k)[j]
  BY DEF RecordUpdated, ManagedSet, MemberRev
<1>4. Updates(ManagedSet(n, c, k), ManagedSet(n, r, k), i, f.rev)
  <2>1. ManagedSet(n, c, k)[i] = MemberRev(n, c, k, i) /\ ManagedSet(n, r, k)[i] = MemberRev(n, r, k, i)
    BY DEF ManagedSet
  <2>2. CASE f.key = k /\ n.active.members[i] = "Managed"
    <3>1. ManagedSet(n, c, k)[i] = f.rev /\ ManagedSet(n, r, k)[i] # -1
      BY <1>2, <2>1, <2>2 DEF RecordUpdated, MemberRev, RevUnder
    <3>2. QED
      BY <1>1, <1>2, <1>3, <3>1 DEF Updates
  <2>3. CASE ~(f.key = k /\ n.active.members[i] = "Managed")
    <3>1. ManagedSet(n, c, k)[i] = ManagedSet(n, r, k)[i]
      BY <2>1, <2>3 DEF RecordUpdated, MemberRev, RevUnder
    <3>2. ManagedSet(n, c, k) = ManagedSet(n, r, k)
      BY <1>1, <1>3, <3>1 DEF Set!Sets
    <3>3. QED
      BY <3>2 DEF Updates
  <2>4. QED
    BY <2>2, <2>3
<1>5. CASE root.format = k /\ n.active.key = k
  BY <1>4, <1>5 DEF SetIn
<1>6. CASE ~(root.format = k /\ n.active.key = k)
  BY <1>6 DEF SetIn, Updates
<1>7. QED
  BY <1>5, <1>6

\* An update keeps members durable: the key of the file stays.
LEMMA FileUpdatedDurable ==
    ASSUME NEW N, NEW N2, NEW R, NEW keys, NEW n \in N, NEW c, N2 \subseteq N \cup {c},
           NEW i \in Ids, NEW f, FileUpdated(n, c, i, f), Durable(N, R, keys)
    PROVE  Durable(N2, R, keys)
<1>1. c.active = n.active /\ \A j \in Ids : c.files[j].key = n.files[j].key
  BY DEF FileUpdated
<1>2. QED
  BY <1>1 DEF Durable

\* The same for records.
LEMMA RecordUpdatedDurable ==
    ASSUME NEW N, NEW R, NEW R2, NEW keys, NEW r \in R, NEW c, R2 \subseteq R \cup {c},
           NEW i \in Ids, NEW f, RecordUpdated(r, c, i, f), Durable(N, R, keys)
    PROVE  Durable(N, R2, keys)
<1>1. \A j \in Ids : c[j].key = r[j].key
  BY DEF RecordUpdated
<1>2. QED
  BY <1>1 DEF Durable

\* put writes f for i's file in the namespace d.
FileUpdate(i, d, o, f, c) ==
    /\ op = Idle /\ UNCHANGED op /\ Authority(disk) # "unavailable"
    /\ i \in Listed(disk) /\ Readable(disk, i) /\ Listing(disk)[i] = "Legacy" /\ Namespace = d
    /\ f.key = disk.keys /\ disk[d].files[i].rev < MaxRev /\ f.rev = disk[d].files[i].rev + 1
    /\ c = [disk[d] EXCEPT !.files[i] = f] /\ Write(d, c, o)

\* put of a credential whose file is in the namespace itself.
LEMMA UpdateFileStep ==
    ASSUME StoreInv, NEW i \in Ids, NEW d \in {"L", "M"}, NEW o, NEW f \in Files, NEW c,
           FileUpdate(i, d, o, f, c)
    PROVE  StoreInv' /\ AbstractStep
<1> DEFINE n0 == disk[d]
<1>1. /\ Typed /\ Visible \in Set!Sets /\ Visible # Unavailable
      /\ Visible[i] = n0.files[i].rev /\ n0.files[i].key = disk.keys
      /\ Authority(disk) \in {"legacy", "managed"}
  BY VisibleRead DEF FileUpdate
<1>2. n0 \in Namespaces /\ n0 \in images[d] /\ disk.Lrecords \in [Ids -> Files] /\ disk.Mrecords \in [Ids -> Files]
  BY <1>1, TypedParts
<1>3. c \in Namespaces /\ FileUpdated(n0, c, i, f)
  BY <1>1, <1>2 DEF Namespaces, FileUpdated, FileUpdate
<1>4. Typed' /\ Wrote(d, c, o) /\ \A e \in Directories \ {d} : Kept(e)
  BY <1>1, <1>3, WriteEffect DEF Directories, FileUpdate
<1>5. Kept("keys") /\ Kept("root") /\ Kept("Lrecords") /\ Kept("Mrecords")
  BY <1>4 DEF Directories
<1>6. RootInv' /\ \A x : Named(x)' <=> Named(x)
  BY <1>5 DEF StoreInv, RootInv, Kept, Named
<1>7. OpInv'
  BY DEF OpInv, FileUpdate
<1>0. op = Idle /\ UNCHANGED op /\ f.key = disk.keys
  BY DEF FileUpdate
<1>8. CASE ~Published(o)
  <2>1. UNCHANGED <<disk, images>>
    BY <1>8 DEF Write, FileUpdate
  <2>2. QED
    BY <2>1, <1>0, EndKeeps, StutterRefines
<1>9. CASE Published(o)
  <2>1. disk'[d] = c /\ images'[d] \subseteq images[d] \cup {c}
    BY <1>4, <1>9 DEF Wrote
  <2>2. /\ n0.files[i].rev \in 0..(MaxRev - 1)
        /\ f.rev = Visible[i] + 1
    BY <1>1, <1>2, StoreAssumption DEF Namespaces, Files, FileUpdate
  <2>3. LegacySet(c, disk.keys)[i] = f.rev
    BY <1>0, <1>3 DEF LegacySet, FileUpdated, RevUnder
  <2>4. ASSUME Authority(disk) = "managed", NEW r
        PROVE  SetIn(disk.keys, disk.root, c, r)[i] = f.rev
    <3>0. disk.root.managed = d
      BY <1>1, <2>4, DiskFacts, AuthorityIs DEF Namespace, FileUpdate
    <3>1. disk.root.format = disk.keys /\ n0.active.key = disk.keys /\ n0.active.members[i] = "Legacy"
      BY <2>4, <3>0, ManagedMembers DEF FileUpdate
    <3>2. MemberRev(c, r, disk.keys, i) = f.rev
      BY <1>0, <1>3, <3>1 DEF MemberRev, FileUpdated, RevUnder
    <3>3. QED
      BY <1>3, <3>1, <3>2, Zenon DEF SetIn, ManagedSet, FileUpdated
  <2>5. ASSUME NEW k, NEW root, NEW r \in [Ids -> Files]
        PROVE  /\ Updates(LegacySet(c, k), LegacySet(n0, k), i, f.rev)
               /\ Updates(SetIn(k, root, c, r), SetIn(k, root, n0, r), i, f.rev)
    <3> HIDE DEF n0
    <3>1. QED
      BY <1>2, <1>3, FileUpdatedSet
  <2>6. \A x : Updates(x, x, i, f.rev)
    BY DEF Updates
  <2>7. CASE d = "L"
    <3>1. Kept("M") /\ n0 = disk.L /\ disk'.L = c /\ images'.L \subseteq images.L \cup {c} /\ disk.L \in images.L
      BY <1>2, <1>4, <2>1, <2>7 DEF Directories
    <3>2. MembersInv'
      <4> HIDE DEF n0
      <4>1. Durable(images.L, images.Lrecords, images.keys) => Durable(images'.L, images.Lrecords, images.keys)
        BY <1>3, <3>1, FileUpdatedDurable
      <4>2. QED
        BY <1>5, <1>6, <3>1, <4>1 DEF StoreInv, MembersInv, Kept
    <3>3. Visible' = SetOf(disk.keys, disk.root, c, disk.Lrecords, disk.M, disk.Mrecords)
      BY <1>5, <3>1 DEF Visible, Kept
    <3> HIDE DEF n0
    <3>4. ASSUME NEW k, NEW root, NEW lr \in [Ids -> Files], NEW m, NEW mr
          PROVE  Updates(SetOf(k, root, c, lr, m, mr), SetOf(k, root, n0, lr, m, mr), i, f.rev)
      BY <2>5, <2>6 DEF SetOf
    <3>5. Updates(Visible', Visible, i, f.rev)
      BY <1>2, <3>1, <3>3, <3>4 DEF Visible
    <3>6. Visible'[i] = f.rev
      <4>1. CASE Authority(disk) = "legacy"
        BY <2>3, <3>3, <4>1, LegacyStore DEF SetOf
      <4>2. CASE Authority(disk) = "managed"
        <5>1. disk.root.managed = "L"
          BY <1>1, <2>7, <4>2, DiskFacts, AuthorityIs DEF Namespace, FileUpdate
        <5>2. QED
          BY <2>4, <3>3, <4>2, <5>1 DEF SetOf
      <4>3. QED
        BY <1>1, <4>1, <4>2
    <3>7. ASSUME NEW k \in images'.keys, NEW root \in images'.root, NEW l \in images'.L,
                 NEW lr \in images'.Lrecords, NEW m \in images'.M, NEW mr \in images'.Mrecords
          PROVE  \E old \in Left : Updates(SetOf(k, root, l, lr, m, mr), old, i, f.rev)
      <4>1. /\ k \in images.keys /\ root \in images.root /\ lr \in images.Lrecords
            /\ m \in images.M /\ mr \in images.Mrecords /\ l \in images.L \cup {c} /\ lr \in [Ids -> Files]
        BY <1>1, <1>5, <3>1, TypedParts DEF Kept
      <4>2. \A x \in images.L : SetOf(k, root, x, lr, m, mr) \in Left
        BY <1>1, <4>1, Outcome DEF ReadFromImages, Left
      <4>3. CASE l = c
        BY <3>1, <3>4, <4>1, <4>2, <4>3
      <4>4. CASE l \in images.L
        BY <2>6, <4>2, <4>4
      <4>5. QED
        BY <4>1, <4>3, <4>4
    <3>8. AbstractStep
      BY <1>1, <1>4, <1>5, <2>2, <3>5, <3>6, <3>7, UpdateRefines DEF Kept
    <3>9. QED
      BY <1>4, <1>6, <1>7, <3>2, <3>8 DEF StoreInv
  <2>8. CASE d = "M"
    <3>1. Kept("L") /\ n0 = disk.M /\ disk'.M = c /\ images'.M \subseteq images.M \cup {c} /\ disk.M \in images.M
      BY <1>2, <1>4, <2>1, <2>8 DEF Directories
    <3>2. MembersInv'
      <4> HIDE DEF n0
      <4>1. Durable(images.M, images.Mrecords, images.keys) => Durable(images'.M, images.Mrecords, images.keys)
        BY <1>3, <3>1, FileUpdatedDurable
      <4>2. QED
        BY <1>5, <1>6, <3>1, <4>1 DEF StoreInv, MembersInv, Kept
    <3>3. Visible' = SetOf(disk.keys, disk.root, disk.L, disk.Lrecords, c, disk.Mrecords)
      BY <1>5, <3>1 DEF Visible, Kept
    <3> HIDE DEF n0
    <3>4. ASSUME NEW k, NEW root, NEW l, NEW lr, NEW mr \in [Ids -> Files]
          PROVE  Updates(SetOf(k, root, l, lr, c, mr), SetOf(k, root, l, lr, n0, mr), i, f.rev)
      BY <2>5, <2>6 DEF SetOf
    <3>5. Updates(Visible', Visible, i, f.rev)
      BY <1>2, <3>1, <3>3, <3>4 DEF Visible
    <3>6. Visible'[i] = f.rev
      <4>1. disk.root.managed = "M"
        BY <1>1, <2>8, DiskFacts DEF Namespace, FileUpdate
      <4>2. Authority(disk) = "managed"
        BY <1>1, <4>1, DiskFacts, AuthorityIs
      <4>3. QED
        BY <2>4, <3>3, <4>1, <4>2 DEF SetOf
    <3>7. ASSUME NEW k \in images'.keys, NEW root \in images'.root, NEW l \in images'.L,
                 NEW lr \in images'.Lrecords, NEW m \in images'.M, NEW mr \in images'.Mrecords
          PROVE  \E old \in Left : Updates(SetOf(k, root, l, lr, m, mr), old, i, f.rev)
      <4>1. /\ k \in images.keys /\ root \in images.root /\ lr \in images.Lrecords
            /\ l \in images.L /\ mr \in images.Mrecords /\ m \in images.M \cup {c} /\ mr \in [Ids -> Files]
        BY <1>1, <1>5, <3>1, TypedParts DEF Kept
      <4>2. \A x \in images.M : SetOf(k, root, l, lr, x, mr) \in Left
        BY <1>1, <4>1, Outcome DEF ReadFromImages, Left
      <4>3. CASE m = c
        BY <3>1, <3>4, <4>1, <4>2, <4>3
      <4>4. CASE m \in images.M
        BY <2>6, <4>2, <4>4
      <4>5. QED
        BY <4>1, <4>3, <4>4
    <3>8. AbstractStep
      BY <1>1, <1>4, <1>5, <2>2, <3>5, <3>6, <3>7, UpdateRefines DEF Kept
    <3>9. QED
      BY <1>4, <1>6, <1>7, <3>2, <3>8 DEF StoreInv
  <2>9. QED
    BY <2>7, <2>8
<1>10. QED
  BY <1>8, <1>9

\* put writes f for i's file in d, the records of ns.
RecordUpdate(i, ns, d, o, f, c) ==
    /\ op = Idle /\ UNCHANGED op /\ Authority(disk) # "unavailable"
    /\ i \in Listed(disk) /\ Readable(disk, i) /\ Listing(disk)[i] = "Managed"
    /\ Namespace = ns /\ d = Records(ns)
    /\ f.key = disk.keys /\ disk[d][i].rev < MaxRev /\ f.rev = disk[d][i].rev + 1
    /\ c = [disk[d] EXCEPT ![i] = f] /\ Write(d, c, o)

\* put of a credential whose file is in records/.
LEMMA UpdateRecordStep ==
    ASSUME StoreInv, NEW i \in Ids, NEW ns \in {"L", "M"}, NEW d, NEW o, NEW f \in Files, NEW c,
           RecordUpdate(i, ns, d, o, f, c)
    PROVE  StoreInv' /\ AbstractStep
<1> DEFINE r0 == disk[d]
<1>1. /\ Typed /\ Visible \in Set!Sets /\ Visible # Unavailable
      /\ Visible[i] = r0[i].rev /\ r0[i].key = disk.keys
      /\ Authority(disk) \in {"legacy", "managed"}
  BY VisibleRead DEF RecordUpdate
<1>2. /\ d \in {"Lrecords", "Mrecords"} /\ r0 \in [Ids -> Files] /\ r0 \in images[d]
      /\ disk.L \in Namespaces /\ disk.M \in Namespaces
  BY <1>1, TypedParts DEF Records, RecordUpdate
<1>3. c \in [Ids -> Files] /\ RecordUpdated(r0, c, i, f)
  BY <1>1, <1>2 DEF RecordUpdated, RecordUpdate
<1>4. Typed' /\ Wrote(d, c, o) /\ \A e \in Directories \ {d} : Kept(e)
  BY <1>1, <1>2, <1>3, WriteEffect DEF Directories, RecordUpdate
<1>5. Kept("keys") /\ Kept("root") /\ Kept("L") /\ Kept("M")
  BY <1>2, <1>4 DEF Directories
<1>6. RootInv' /\ \A x : Named(x)' <=> Named(x)
  BY <1>5 DEF StoreInv, RootInv, Kept, Named
<1>7. OpInv'
  BY DEF OpInv, RecordUpdate
<1>0. op = Idle /\ UNCHANGED op /\ f.key = disk.keys /\ d = Records(ns)
  BY DEF RecordUpdate
<1>8. CASE ~Published(o)
  <2>1. UNCHANGED <<disk, images>>
    BY <1>8 DEF Write, RecordUpdate
  <2>2. QED
    BY <2>1, <1>0, EndKeeps, StutterRefines
<1>9. CASE Published(o)
  <2>1. disk'[d] = c /\ images'[d] \subseteq images[d] \cup {c}
    BY <1>4, <1>9 DEF Wrote
  <2>2. r0[i].rev \in 0..(MaxRev - 1) /\ f.rev = Visible[i] + 1
    BY <1>1, <1>2, StoreAssumption DEF Files, RecordUpdate
  <2>3. Authority(disk) = "managed" /\ disk.root.managed = ns
    <3>1. Authority(disk) # "legacy"
      BY <1>1, DiskFacts, ListingIs DEF RecordUpdate
    <3>2. QED
      BY <1>1, <3>1, DiskFacts, AuthorityIs DEF Namespace, RecordUpdate
  <2>4. SetIn(disk.keys, disk.root, disk[ns], c)[i] = f.rev
    <3>1. /\ disk.root.format = disk.keys /\ disk[ns].active.key = disk.keys
          /\ disk[ns].active.members[i] = "Managed"
      BY <2>3, ManagedMembers DEF RecordUpdate
    <3>2. MemberRev(disk[ns], c, disk.keys, i) = f.rev
      BY <1>0, <1>3, <3>1 DEF MemberRev, RecordUpdated, RevUnder
    <3>3. QED
      BY <1>3, <3>1, <3>2 DEF SetIn, ManagedSet
  <2>5. ASSUME NEW k, NEW root, NEW n \in Namespaces
        PROVE  Updates(SetIn(k, root, n, c), SetIn(k, root, n, r0), i, f.rev)
    <3> HIDE DEF r0
    <3>1. QED
      BY <1>2, <1>3, RecordUpdatedSet
  <2>6. \A x : Updates(x, x, i, f.rev)
    BY DEF Updates
  <2>7. CASE ns = "L"
    <3>1. /\ d = "Lrecords" /\ Kept("Mrecords") /\ r0 = disk.Lrecords /\ disk'.Lrecords = c
          /\ images'.Lrecords \subseteq images.Lrecords \cup {c} /\ disk.Lrecords \in images.Lrecords
      BY <1>0, <1>2, <1>4, <2>1, <2>7 DEF Directories, Records
    <3>2. MembersInv'
      <4> HIDE DEF r0
      <4>1. Durable(images.L, images.Lrecords, images.keys) => Durable(images.L, images'.Lrecords, images.keys)
        BY <1>3, <3>1, RecordUpdatedDurable
      <4>2. QED
        BY <1>5, <1>6, <3>1, <4>1 DEF StoreInv, MembersInv, Kept
    <3>3. Visible' = SetOf(disk.keys, disk.root, disk.L, c, disk.M, disk.Mrecords)
      BY <1>5, <3>1, Zenon DEF Visible, Kept
    <3> HIDE DEF r0
    <3>4. ASSUME NEW k, NEW root, NEW l \in Namespaces, NEW m, NEW mr
          PROVE  Updates(SetOf(k, root, l, c, m, mr), SetOf(k, root, l, r0, m, mr), i, f.rev)
      BY <2>5, <2>6 DEF SetOf
    <3>5. Updates(Visible', Visible, i, f.rev)
      BY <1>2, <3>1, <3>3, <3>4 DEF Visible
    <3>6. Visible'[i] = f.rev
      BY <2>3, <2>4, <2>7, <3>3 DEF SetOf
    <3>7. ASSUME NEW k \in images'.keys, NEW root \in images'.root, NEW l \in images'.L,
                 NEW lr \in images'.Lrecords, NEW m \in images'.M, NEW mr \in images'.Mrecords
          PROVE  \E old \in Left : Updates(SetOf(k, root, l, lr, m, mr), old, i, f.rev)
      <4>1. /\ k \in images.keys /\ root \in images.root /\ l \in images.L /\ l \in Namespaces
            /\ m \in images.M /\ mr \in images.Mrecords /\ lr \in images.Lrecords \cup {c}
        BY <1>1, <1>5, <3>1, TypedParts DEF Kept
      <4>2. \A x \in images.Lrecords : SetOf(k, root, l, x, m, mr) \in Left
        BY <1>1, <4>1, Outcome DEF ReadFromImages, Left
      <4>3. CASE lr = c
        BY <3>1, <3>4, <4>1, <4>2, <4>3, ZenonT(30)
      <4>4. CASE lr \in images.Lrecords
        BY <2>6, <4>2, <4>4
      <4>5. QED
        BY <4>1, <4>3, <4>4
    <3>8. AbstractStep
      BY <1>1, <1>4, <1>5, <2>2, <3>5, <3>6, <3>7, UpdateRefines DEF Kept
    <3>9. QED
      BY <1>4, <1>6, <1>7, <3>2, <3>8 DEF StoreInv
  <2>8. CASE ns = "M"
    <3>1. /\ d = "Mrecords" /\ Kept("Lrecords") /\ r0 = disk.Mrecords /\ disk'.Mrecords = c
          /\ images'.Mrecords \subseteq images.Mrecords \cup {c} /\ disk.Mrecords \in images.Mrecords
      BY <1>0, <1>2, <1>4, <2>1, <2>8 DEF Directories, Records
    <3>2. MembersInv'
      <4> HIDE DEF r0
      <4>1. Durable(images.M, images.Mrecords, images.keys) => Durable(images.M, images'.Mrecords, images.keys)
        BY <1>3, <3>1, RecordUpdatedDurable
      <4>2. QED
        BY <1>5, <1>6, <3>1, <4>1 DEF StoreInv, MembersInv, Kept
    <3>3. Visible' = SetOf(disk.keys, disk.root, disk.L, disk.Lrecords, disk.M, c)
      BY <1>5, <3>1, Zenon DEF Visible, Kept
    <3> HIDE DEF r0
    <3>4. ASSUME NEW k, NEW root, NEW l, NEW lr, NEW m \in Namespaces
          PROVE  Updates(SetOf(k, root, l, lr, m, c), SetOf(k, root, l, lr, m, r0), i, f.rev)
      BY <2>5, <2>6 DEF SetOf
    <3>5. Updates(Visible', Visible, i, f.rev)
      BY <1>2, <3>1, <3>3, <3>4 DEF Visible
    <3>6. Visible'[i] = f.rev
      BY <2>3, <2>4, <2>8, <3>3 DEF SetOf
    <3>7. ASSUME NEW k \in images'.keys, NEW root \in images'.root, NEW l \in images'.L,
                 NEW lr \in images'.Lrecords, NEW m \in images'.M, NEW mr \in images'.Mrecords
          PROVE  \E old \in Left : Updates(SetOf(k, root, l, lr, m, mr), old, i, f.rev)
      <4>1. /\ k \in images.keys /\ root \in images.root /\ l \in images.L /\ m \in Namespaces
            /\ m \in images.M /\ lr \in images.Lrecords /\ mr \in images.Mrecords \cup {c}
        BY <1>1, <1>5, <3>1, TypedParts DEF Kept
      <4>2. \A x \in images.Mrecords : SetOf(k, root, l, lr, m, x) \in Left
        BY <1>1, <4>1, Outcome DEF ReadFromImages, Left
      <4>3. CASE mr = c
        BY <3>1, <3>4, <4>1, <4>2, <4>3, Zenon
      <4>4. CASE mr \in images.Mrecords
        BY <2>6, <4>2, <4>4
      <4>5. QED
        BY <4>1, <4>3, <4>4
    <3>8. AbstractStep
      BY <1>1, <1>4, <1>5, <2>2, <3>5, <3>6, <3>7, UpdateRefines DEF Kept
    <3>9. QED
      BY <1>4, <1>6, <1>7, <3>2, <3>8 DEF StoreInv
  <2>9. QED
    BY <2>7, <2>8
<1>10. QED
  BY <1>8, <1>9

\* put of a credential that is there, in any layout.
LEMMA PutUpdateStep ==
    ASSUME StoreInv, NEW i \in Ids, NEW o, PutUpdate(i, o)
    PROVE  StoreInv' /\ AbstractStep
<1> DEFINE location == Listing(disk)[i]
           ns == Namespace
           f == [key |-> disk.keys, rev |-> FileAt(disk, i, location).rev + 1]
<1>1. /\ op = Idle /\ UNCHANGED op /\ Authority(disk) # "unavailable"
      /\ i \in Listed(disk) /\ Readable(disk, i) /\ FileAt(disk, i, location).rev < MaxRev
  BY DEF PutUpdate
<1>2. /\ Typed /\ location \in {"Legacy", "Managed"}
      /\ FileAt(disk, i, location) = IF location = "Legacy" THEN disk[ns].files[i] ELSE disk[Records(ns)][i]
  BY <1>1, VisibleRead DEF Locations
<1>3. /\ ns \in {"L", "M"} /\ Records(ns) \in {"Lrecords", "Mrecords"}
  BY <1>2, RecordsDirectory
<1>4. FileAt(disk, i, location) \in Files /\ disk.keys \in 0..MaxKey
  BY <1>2, <1>3, TypedParts, StoreAssumption DEF Namespaces
<1>5. f \in Files /\ f.key = disk.keys /\ f.rev = FileAt(disk, i, location).rev + 1
  BY <1>1, <1>4, StoreAssumption DEF Files
<1>6. CASE location = "Legacy"
  <2> DEFINE c == [disk[ns] EXCEPT !.files[i] = f]
  <2>1. Write(ns, c, o)
    BY <1>6 DEF PutUpdate
  <2>2. c = [disk[ns] EXCEPT !.files[i] = f]
    OBVIOUS
  <2> HIDE DEF c, f
  <2>3. QED
    BY <1>1, <1>2, <1>3, <1>5, <1>6, <2>1, <2>2, UpdateFileStep DEF FileUpdate
<1>7. CASE location = "Managed"
  <2> DEFINE d == Records(ns)
             c == [disk[d] EXCEPT ![i] = f]
  <2>1. Write(d, c, o)
    BY <1>7 DEF PutUpdate
  <2>2. c = [disk[d] EXCEPT ![i] = f]
    OBVIOUS
  <2> HIDE DEF c, f
  <2>3. QED
    BY <1>1, <1>2, <1>3, <1>5, <1>7, <2>1, <2>2, UpdateRecordStep DEF RecordUpdate
<1>8. QED
  BY <1>2, <1>6, <1>7

\* A file of credentials/ is written or removed in a legacy store.
LEMMA LegacyBecomes ==
    ASSUME StoreInv, Authority(disk) = "legacy", op = Idle, UNCHANGED op, NEW i \in Ids, NEW o,
           NEW f \in Files, f.key \in {0, disk.keys}, disk.L.files[i].key \in {0, disk.keys},
           NEW c, c = [disk.L EXCEPT !.files[i] = f], Write("L", c, o)
    PROVE  /\ StoreInv'
           /\ UNCHANGED <<disk, images>> \/ Set!Becomes([Visible EXCEPT ![i] = RevUnder(f, disk.keys)])
<1> DEFINE new == [Visible EXCEPT ![i] = RevUnder(f, disk.keys)]
<1>1. /\ Typed /\ disk.root.managed = "none" /\ disk.root.credentials
      /\ Visible = LegacySet(disk.L, disk.keys)
  BY LegacyStore
<1>2. /\ disk.L \in Namespaces /\ disk.L \in images.L /\ images.keys \subseteq 1..MaxKey /\ disk.keys # 0
  BY <1>1, TypedParts, DiskFacts
<1>3. /\ c \in Namespaces /\ c.files[i] = f /\ \A j \in Ids \ {i} : c.files[j] = disk.L.files[j]
  BY <1>2 DEF Namespaces
<1>4. Typed' /\ Wrote("L", c, o) /\ \A e \in Directories \ {"L"} : Kept(e)
  BY <1>1, <1>3, WriteEffect DEF Directories
<1>5. Kept("keys") /\ Kept("root") /\ Kept("Lrecords") /\ Kept("M") /\ Kept("Mrecords")
  BY <1>4 DEF Directories
<1>6. RootInv' /\ MembersInv' /\ OpInv'
  BY <1>1, <1>5, LegacyFacts DEF StoreInv, RootInv, MembersInv, Named, Kept, OpInv
<1>7. CASE ~Published(o)
  <2>1. UNCHANGED <<disk, images>>
    BY <1>7 DEF Write
  <2>2. QED
    BY <2>1, EndKeeps
<1>8. CASE Published(o)
  <2>1. disk'.L = c /\ images'.L \subseteq images.L \cup {c}
    BY <1>4, <1>8 DEF Wrote
  <2>2. LegacySet(c, disk.keys) = new
    <3>1. \A j \in Ids : RevUnder(c.files[j], disk.keys) =
                            IF j = i THEN RevUnder(f, disk.keys) ELSE RevUnder(disk.L.files[j], disk.keys)
      BY <1>3
    <3>2. QED
      BY <1>1, <3>1 DEF LegacySet
  <2>3. ASSUME NEW k \in images.keys, k # disk.keys PROVE LegacySet(c, k) = LegacySet(disk.L, k)
    <3>1. f.key # k /\ disk.L.files[i].key # k
      BY <1>2, <2>3
    <3>2. \A j \in Ids : RevUnder(c.files[j], k) = RevUnder(disk.L.files[j], k)
      BY <1>3, <3>1 DEF RevUnder
    <3>3. QED
      BY <3>2 DEF LegacySet
  <2> HIDE DEF new
  <2>4. Visible' = new
    BY <1>1, <1>5, <2>1, <2>2 DEF Visible, SetOf, Kept
  <2>5. ASSUME NEW k \in images'.keys, NEW root \in images'.root, NEW l \in images'.L,
               NEW lr \in images'.Lrecords, NEW m \in images'.M, NEW mr \in images'.Mrecords
        PROVE  SetOf(k, root, l, lr, m, mr) \in Left \cup {new} \cup Lost
    <3>1. /\ k \in images.keys /\ root \in images.root /\ lr \in images.Lrecords
          /\ m \in images.M /\ mr \in images.Mrecords /\ l \in images.L \cup {c}
      BY <1>5, <2>1 DEF Kept
    <3>2. root.managed = "none"
      BY <1>1, <3>1, LegacyFacts
    <3>3. \A x \in images.L : SetOf(k, root, x, lr, m, mr) \in Left
      BY <1>1, <3>1, Outcome DEF ReadFromImages, Left
    <3>4. CASE l = c /\ root.credentials /\ k = disk.keys
      BY <2>2, <3>2, <3>4 DEF SetOf
    <3>5. CASE l = c /\ ~(root.credentials /\ k = disk.keys)
      <4>1. SetOf(k, root, c, lr, m, mr) = SetOf(k, root, disk.L, lr, m, mr)
        BY <2>3, <3>1, <3>2, <3>5 DEF SetOf
      <4>2. QED
        BY <1>2, <3>3, <3>5, <4>1
    <3>6. QED
      BY <3>1, <3>3, <3>4, <3>5
  <2>6. \A k \in images'.keys, root \in images'.root, l \in images'.L, lr \in images'.Lrecords,
           m \in images'.M, mr \in images'.Mrecords :
           Set!OneOf(SetOf(k, root, l, lr, m, mr), Left \cup {new} \cup Lost)
    BY <2>5, Accounted
  <2>7. Set!Becomes(new)
    BY <1>1, <1>4, <1>5, <2>4, <2>6, BecomesStep DEF Kept
  <2>8. QED
    BY <1>4, <1>6, <2>7 DEF StoreInv, new
<1>9. QED
  BY <1>7, <1>8

\* put of a new credential into a legacy store.
LEMMA PutLegacyStep ==
    ASSUME StoreInv, NEW i \in Ids, NEW o, PutLegacy(i, o)
    PROVE  StoreInv' /\ AbstractStep
<1> DEFINE f == [key |-> disk.keys, rev |-> 0]
           c == [disk.L EXCEPT !.files[i] = f]
<1>1. /\ op = Idle /\ UNCHANGED op /\ Account[i] = NoAccount /\ Fresh(i) /\ Authority(disk) = "legacy"
      /\ Write("L", c, o)
  BY DEF PutLegacy
<1>2. /\ Typed /\ Visible = LegacySet(disk.L, disk.keys)
      /\ Visible \in Set!Sets /\ Visible # Unavailable
  BY <1>1, LegacyStore
<1>3. disk.L.files[i] = NoFile /\ disk.keys # 0 /\ disk.keys \in 0..MaxKey
  BY <1>1, <1>2, TypedParts, DiskFacts, StoreAssumption DEF Fresh
<1>4. f \in Files /\ f.key = disk.keys /\ RevUnder(f, disk.keys) = 0
  BY <1>3, StoreAssumption DEF Files, RevUnder
<1>5. Visible[i] = -1 /\ disk.L.files[i].key = 0
  BY <1>2, <1>3 DEF LegacySet, RevUnder, NoFile
<1>6. c = [disk.L EXCEPT !.files[i] = f]
  OBVIOUS
<1> HIDE DEF c, f
<1>7. /\ StoreInv'
      /\ UNCHANGED <<disk, images>> \/ Set!Becomes([Visible EXCEPT ![i] = RevUnder(f, disk.keys)])
  BY <1>1, <1>4, <1>5, <1>6, LegacyBecomes
<1>8. [Visible EXCEPT ![i] = RevUnder(f, disk.keys)] = Inserted(i)
  BY <1>1, <1>2, <1>4 DEF Inserted, Set!Sets
<1>9. CASE UNCHANGED <<disk, images>>
  BY <1>7, <1>9, StutterRefines
<1>10. CASE Set!Becomes(Inserted(i))
  BY <1>2, <1>5, <1>7, <1>10, InsertionRefines
<1>11. QED
  BY <1>7, <1>8, <1>9, <1>10, Zenon

\* delete of a credential of a legacy store.
LEMMA DeleteLegacyStep ==
    ASSUME StoreInv, NEW i \in Ids, NEW o, DeleteLegacy(i, o)
    PROVE  StoreInv' /\ AbstractStep
<1> DEFINE c == [disk.L EXCEPT !.files[i] = NoFile]
<1>1. /\ op = Idle /\ UNCHANGED op /\ Authority(disk) = "legacy" /\ Write("L", c, o)
      /\ i \in Listed(disk) /\ Readable(disk, i)
  BY DEF DeleteLegacy
<1>2. /\ Typed /\ Visible \in Set!Sets /\ Visible # Unavailable /\ Visible = LegacySet(disk.L, disk.keys)
  BY <1>1, LegacyStore
<1>3. disk.L.files[i].key = disk.keys /\ disk.keys # 0 /\ disk.L.files[i].rev # -1
  <2>1. FileAt(disk, i, Listing(disk)[i]) = disk.L.files[i]
    BY <1>1, <1>2, DiskFacts, ListingIs DEF Listed
  <2>2. disk.L.files[i] \in Files
    BY <1>2, TypedParts DEF Namespaces
  <2>3. QED
    BY <1>1, <1>2, <2>1, <2>2, DiskFacts, StoreAssumption DEF Readable, Files
<1>4. NoFile \in Files /\ NoFile.key = 0 /\ RevUnder(NoFile, disk.keys) = -1
  BY <1>3, StoreAssumption DEF NoFile, Files, RevUnder
<1>5. Visible[i] # -1
  BY <1>2, <1>3 DEF LegacySet, RevUnder
<1>6. c = [disk.L EXCEPT !.files[i] = NoFile]
  OBVIOUS
<1> HIDE DEF c
<1>7. /\ StoreInv'
      /\ UNCHANGED <<disk, images>> \/ Set!Becomes([Visible EXCEPT ![i] = -1])
  BY <1>1, <1>3, <1>4, <1>6, LegacyBecomes
<1>8. CASE UNCHANGED <<disk, images>>
  BY <1>7, <1>8, StutterRefines
<1>9. CASE Set!Becomes([Visible EXCEPT ![i] = -1])
  BY <1>2, <1>5, <1>7, <1>9, DeletionRefines
<1>10. QED
  BY <1>7, <1>8, <1>9

-----------------------------------------------------------------------------
(* Invariance and refinement *)

\* A legacy store with some credentials satisfies the invariant, and its visible
\* set is one the abstract specification starts with.
LEMMA InitStep == Init => StoreInv /\ Set!Init
<1> SUFFICES ASSUME Init PROVE StoreInv /\ Set!Init
  OBVIOUS
<1>1. PICK ids \in SUBSET Ids :
         /\ \A i, j \in ids : Account[i] = Account[j] /\ Account[i] # NoAccount => i = j
         /\ disk = [keys |-> 1,
                    root |-> [format |-> 0, credentials |-> TRUE, managed |-> "none"],
                    L |-> [active |-> NoManifest,
                           files |-> [i \in Ids |-> IF i \in ids THEN [key |-> 1, rev |-> 0] ELSE NoFile]],
                    Lrecords |-> NoFiles,
                    M |-> [active |-> NoManifest, files |-> NoFiles],
                    Mrecords |-> NoFiles]
  BY Zenon DEF Init
<1>2. images = [d \in Directories |-> {disk[d]}] /\ op = Idle
  BY DEF Init
<1>3. /\ disk.keys \in 1..MaxKey /\ disk.root \in Roots /\ disk.L \in Namespaces /\ disk.M \in Namespaces
      /\ disk.Lrecords \in [Ids -> Files] /\ disk.Mrecords \in [Ids -> Files]
  <2>1. NoFile \in Files /\ [key |-> 1, rev |-> 0] \in Files /\ 1 \in 1..MaxKey /\ 0 \in 0..MaxKey
    BY StoreAssumption DEF NoFile, Files
  <2>2. NoManifest \in Manifests /\ NoFiles \in [Ids -> Files]
    BY <2>1 DEF NoManifest, Manifests, NoMembers, Locations, NoFiles
  <2>3. QED
    BY <1>1, <2>1, <2>2 DEF Roots, Namespaces
<1>4. images = [keys |-> {disk.keys}, root |-> {disk.root}, L |-> {disk.L}, Lrecords |-> {disk.Lrecords},
                M |-> {disk.M}, Mrecords |-> {disk.Mrecords}]
  BY <1>2, Zenon DEF Directories
<1>5. disk = [keys |-> disk.keys, root |-> disk.root, L |-> disk.L, Lrecords |-> disk.Lrecords,
              M |-> disk.M, Mrecords |-> disk.Mrecords]
  BY <1>1
<1>6. Snapshots = {disk}
  <2>1. disk \in Snapshots
    BY <1>4, <1>5 DEF Snapshots
  <2>2. ASSUME NEW t \in Snapshots PROVE t = disk
    <3>1. t = [keys |-> t.keys, root |-> t.root, L |-> t.L, Lrecords |-> t.Lrecords, M |-> t.M,
               Mrecords |-> t.Mrecords]
      BY DEF Snapshots
    <3>2. /\ t.keys = disk.keys /\ t.root = disk.root /\ t.L = disk.L /\ t.M = disk.M
          /\ t.Lrecords = disk.Lrecords /\ t.Mrecords = disk.Mrecords
      BY <1>4 DEF Snapshots
    <3>3. QED
      BY <1>5, <3>1, <3>2
  <2>3. QED
    BY <2>1, <2>2
<1>7. Typed
  <2>1. images \in ImageSets
    BY <1>3, <1>4 DEF ImageSets
  <2>2. QED
    BY <1>6, <2>1 DEF Typed
<1>8. RootInv /\ MembersInv
  <2>1. images.root = {disk.root} /\ disk.root.managed = "none"
    BY <1>1, <1>4
  <2>2. QED
    BY <2>1 DEF RootInv, MembersInv, Named
<1>9. StoreInv
  BY <1>2, <1>7, <1>8 DEF StoreInv, OpInv
<1>10. Visible = LegacySet(disk.L, disk.keys) /\ Usable(disk) = Visible
  <2>1. disk.root.managed = "none" /\ disk.root.credentials
    BY <1>1
  <2>2. QED
    BY <1>7, <2>1, Outcome DEF Visible, SetOf, ReadFromImages
<1>11. Visible \in Set!Sets
  BY <1>3, <1>10, SetTyped
<1>12. Set!OnePerAccount(Visible)
  <2>1. \A i \in Ids : Visible[i] # -1 => i \in ids
    BY <1>1, <1>10 DEF LegacySet, RevUnder, NoFile
  <2>2. QED
    BY <1>1, <2>1 DEF Set!OnePerAccount, Set!Present, Set!Absent
<1>13. Set!Init
  <2>1. {Usable(s) : s \in Snapshots} = {Usable(disk)}
    BY <1>6
  <2>2. (images.keys # {disk.keys}) = FALSE
    BY <1>4
  <2>3. QED
    BY <1>10, <1>11, <1>12, <2>1, <2>2 DEF Set!Init
<1>14. QED
  BY <1>9, <1>13

\* Every step keeps the invariant, and is a step of the abstract set or of none.
LEMMA NextStep ==
    ASSUME FlushSupported
    PROVE  StoreInv /\ [Next]_vars => StoreInv' /\ AbstractStep
<1> SUFFICES ASSUME StoreInv, [Next]_vars PROVE StoreInv' /\ AbstractStep
  OBVIOUS
<1>1. CASE UNCHANGED vars
  BY <1>1, EndKeeps, StutterRefines DEF vars
<1>2. ASSUME NEW i \in Ids, InsertOrReplaceDiscoverable(i) \/ PutManaged(i) \/ DeleteManaged(i)
      PROVE  StoreInv' /\ AbstractStep
  <2>1. UNCHANGED <<disk, images>>
    BY <1>2 DEF InsertOrReplaceDiscoverable, PutManaged, DeleteManaged
  <2>2. QED
    BY <1>2, <2>1, BeginInsertionKeeps, BeginDeletionKeeps, StutterRefines
<1>3. ASSUME NEW o \in Outcomes,
             \/ WriteFormatMarker(o) \/ WriteCandidate(o) \/ PrepareMigration(o)
             \/ PublishMigration(o) \/ WriteResetMarker(o)
      PROVE  StoreInv' /\ AbstractStep
  BY <1>3, WriteFormatMarkerStep, WriteCandidateStep, PrepareMigrationStep, PublishMigrationStep,
     WriteResetMarkerStep
<1>4. ASSUME NEW o \in Outcomes, NEW r \in Outcomes, PublishManifest(o, r)
      PROVE  StoreInv' /\ AbstractStep
  BY <1>4, PublishManifestStep
<1>5. ASSUME NEW location \in Locations, NEW kept \in SUBSET Ids, NEW o \in Outcomes,
             Cleanup(location, kept, o)
      PROVE  StoreInv' /\ AbstractStep
  BY <1>5, CleanupStep
<1>6. ASSUME NEW i \in Ids, NEW o \in Outcomes, PutLegacy(i, o) \/ PutUpdate(i, o) \/ DeleteLegacy(i, o)
      PROVE  StoreInv' /\ AbstractStep
  BY <1>6, PutLegacyStep, PutUpdateStep, DeleteLegacyStep
<1>7. ASSUME NEW k \in 1..MaxKey, NEW o \in Outcomes, NEW zeroed \in BOOLEAN, Rotate(k, o, zeroed)
      PROVE  StoreInv' /\ AbstractStep
  BY <1>7, RotateStep
<1>8. ASSUME NEW left \in SUBSET Ids, NEW o \in Outcomes, PurgeLegacy(left, o)
      PROVE  StoreInv' /\ AbstractStep
  BY <1>8, PurgeLegacyStep
<1>9. ASSUME NEW left \in SUBSET Ids, NEW rmdir \in BOOLEAN, NEW o \in Outcomes,
             PurgeManaged(left, rmdir, o)
      PROVE  StoreInv' /\ AbstractStep
  BY <1>9, PurgeManagedStep
<1>10. CASE ProcessRestart
  <2>1. UNCHANGED <<disk, images>> /\ op' = Idle
    BY <1>10 DEF ProcessRestart, Return
  <2>2. QED
    BY <2>1, EndKeeps, StutterRefines
<1>11. ASSUME NEW s \in Snapshots, PowerLoss(s)
       PROVE  StoreInv' /\ AbstractStep
  BY <1>11, PowerLossStep
<1>12. QED
  BY <1>1, <1>2, <1>3, <1>4, <1>5, <1>6, <1>7, <1>8, <1>9, <1>10, <1>11 DEF Next

\* The invariant holds in every reachable state of a store on a filesystem that
\* supports directory flushes.
THEOREM Invariance ==
    ASSUME FlushSupported
    PROVE  Spec => []StoreInv
<1>1. StoreInv /\ [Next]_vars => StoreInv'
  BY NextStep
<1>2. QED
  BY <1>1, InitStep, PTL DEF Spec

\* Every step of the store is one whole operation on the usable set, or nothing:
\* the store implements CredentialSet, through every failed write, crash and power
\* loss, for any credentials, accounts and bounds (publish_manifest, finish_commit,
\* publish_migration, clear).
THEOREM SetIsAtomic ==
    ASSUME FlushSupported
    PROVE  Spec => AtomicSet
<1>1. Init => Set!Init
  BY InitStep
<1>2. StoreInv /\ [Next]_vars =>
         [Set!Next]_<<Usable(disk), {Usable(s) : s \in Snapshots}, images.keys # {disk.keys}>>
  <2>1. StoreInv /\ [Next]_vars => AbstractStep
    BY NextStep
  <2>2. QED
    BY <2>1 DEF AbstractStep, Abstract, Left
<1>3. QED
  BY <1>1, <1>2, Invariance, PTL DEF Spec, AtomicSet, Set!Spec

-----------------------------------------------------------------------------
(* What a commit has confirmed, and accounts *)

\* A commit that is being cleaned up shows the same members in every image.
LEMMA CleaningDurable ==
    ASSUME StoreInv, CleaningUp, images.keys = {disk.keys}, NEW s \in Snapshots
    PROVE  /\ Usable(s) # Unavailable
           /\ \A i \in Ids : Usable(s)[i] # -1 <=> op.members[i] # "none"
<1> DEFINE ns == disk.root.managed
           n == s[ns]
           r == s[Records(ns)]
           k == disk.keys
<1>1. /\ Typed /\ ns \in {"L", "M"} /\ images.root = {disk.root} /\ disk.root.format = k
      /\ \A m \in images[ns] : m.active = Manifest
      /\ Durable(images[ns], images[Records(ns)], images.keys)
  BY CleaningFacts
<1>2. s \in Disks /\ s.keys = k /\ s.root = disk.root /\ k # 0
  BY <1>1, TypedParts, DiskFacts DEF Snapshots
<1>3. n \in images[ns] /\ r \in images[Records(ns)]
  BY <1>1 DEF Snapshots, Records
<1>4. n \in Namespaces /\ r \in [Ids -> Files]
  BY <1>1, <1>2 DEF Disks, Records
<1>5. n.active.key = k /\ n.active.members = op.members
  <2> HIDE DEF ns, n, r
  <2>1. n.active = Manifest
    BY <1>1, <1>3
  <2>2. QED
    BY <2>1 DEF Manifest
<1>6. Usable(s) = ManagedSet(n, r, k)
  <2>1. Usable(s) = SetOf(s.keys, s.root, s.L, s.Lrecords, s.M, s.Mrecords)
    BY <1>2, UsableIs
  <2>2. Usable(s) = SetIn(k, disk.root, n, r)
    BY <1>1, <1>2, <2>1 DEF SetOf, Records
  <2>3. QED
    BY <1>1, <1>5, <2>2 DEF SetIn
<1>7. op.members \in [Ids -> {"Legacy", "Managed", "none"}]
  BY DEF CleaningUp, Memberships, Locations
<1> HIDE DEF n, r, k
<1>8. ASSUME NEW i \in Ids PROVE MemberRev(n, r, k, i) # -1 <=> op.members[i] # "none"
  <2>1. /\ op.members[i] = "Legacy" => n.files[i].key = k
        /\ op.members[i] = "Managed" => r[i].key = k
    BY <1>1, <1>3, <1>5 DEF Durable, k
  <2>2. n.files[i].rev # -1 /\ r[i].rev # -1
    BY <1>4, StoreAssumption DEF Namespaces, Files
  <2>3. QED
    BY <1>5, <1>7, <2>1, <2>2 DEF MemberRev, RevUnder
<1>9. ManagedSet(n, r, k) # Unavailable
  BY <1>4, SetTyped
<1>10. QED
  BY <1>6, <1>8, <1>9 DEF ManagedSet

\* The invariant implies that what was confirmed is durable.
LEMMA ConfirmedDurable == StoreInv => FlushedIsDurable
<1> SUFFICES ASSUME StoreInv, op.step \in {"cleanup", "cleanup_records"}, images.keys = {disk.keys},
                    NEW s \in Snapshots
             PROVE  Usable(s) # Unavailable /\ Set!Present(Usable(s)) = Set!Present(Usable(disk))
  BY DEF FlushedIsDurable
<1>1. CleaningUp /\ disk \in Snapshots
  BY CleanupSteps DEF StoreInv, Typed
<1>2. /\ Usable(s) # Unavailable
      /\ \A i \in Ids : Usable(s)[i] # -1 <=> op.members[i] # "none"
  BY <1>1, CleaningDurable
<1>3. \A i \in Ids : Usable(disk)[i] # -1 <=> op.members[i] # "none"
  BY <1>1, CleaningDurable
<1>4. QED
  BY <1>2, <1>3 DEF Set!Present, Set!Absent

\* Without directory flushes nothing is ever reported flushed.
NeverConfirmed == "step" \in DOMAIN op /\ op.step \notin {"cleanup", "cleanup_records"}

\* No step confirms anything on a filesystem without directory flushes.
LEMMA NeverConfirmedStep ==
    ASSUME ~FlushSupported
    PROVE  /\ Init => NeverConfirmed
           /\ NeverConfirmed /\ [Next]_vars => NeverConfirmed'
<1>1. Idle.step = "idle" /\ "step" \in DOMAIN Idle
  BY DEF Idle
<1>2. Init => NeverConfirmed
  BY <1>1 DEF Init, NeverConfirmed
<1>3. ASSUME NeverConfirmed, [Next]_vars PROVE NeverConfirmed'
  <2> DEFINE Other == {"idle", "marker", "candidate", "prepare", "migrate", "publish", "purge",
                       "purge_legacy", "reset_marker"}
  <2>1. ASSUME NEW x \in Other, op' = [op EXCEPT !.step = x] PROVE NeverConfirmed'
    BY <1>3, <2>1 DEF NeverConfirmed
  <2>2. op' = Idle \/ op' = op => NeverConfirmed'
    BY <1>1, <1>3 DEF NeverConfirmed
  <2>3. \A o : ~FlushedStrictly(o)
    BY DEF FlushedStrictly
  <2>4. ASSUME NEW i \in Ids, InsertOrReplaceDiscoverable(i) \/ PutManaged(i) \/ DeleteManaged(i)
        PROVE  NeverConfirmed'
    <3>1. \E x \in Other : \E m : op' = [step |-> x, id |-> i, members |-> m]
      BY <2>4, Zenon DEF InsertOrReplaceDiscoverable, PutManaged, DeleteManaged
    <3>2. QED
      BY <3>1 DEF NeverConfirmed
  <2>5. ASSUME NEW o, \/ WriteFormatMarker(o) \/ WriteCandidate(o) \/ PrepareMigration(o)
                      \/ PublishMigration(o)
        PROVE  NeverConfirmed'
    BY <2>2, <2>3, <2>5 DEF WriteFormatMarker, WriteCandidate, PrepareMigration, PublishMigration, Return
  <2>6. ASSUME NEW o, NEW r, PublishManifest(o, r) PROVE NeverConfirmed'
    BY <2>2, <2>3, <2>6 DEF PublishManifest, Confirmed, Return
  <2>7. ASSUME NEW location \in Locations, NEW kept, NEW o, Cleanup(location, kept, o)
        PROVE  NeverConfirmed'
    BY <1>3, <2>7 DEF Cleanup, NeverConfirmed
  <2>8. ASSUME NEW i \in Ids, NEW o, PutLegacy(i, o) \/ PutUpdate(i, o) \/ DeleteLegacy(i, o)
        PROVE  NeverConfirmed'
    BY <2>2, <2>8 DEF PutLegacy, PutUpdate, DeleteLegacy
  <2>9. ASSUME NEW k, NEW o, NEW zeroed, Rotate(k, o, zeroed) PROVE NeverConfirmed'
    BY <2>2, <2>9 DEF Rotate, NeverConfirmed
  <2>10. ASSUME NEW left, NEW o, PurgeLegacy(left, o) PROVE NeverConfirmed'
    BY <2>2, <2>10 DEF PurgeLegacy, Return
  <2>11. ASSUME NEW left, NEW rmdir, NEW o, PurgeManaged(left, rmdir, o) PROVE NeverConfirmed'
    BY <2>1, <2>2, <2>11 DEF PurgeManaged, Return
  <2>12. ASSUME NEW o, WriteResetMarker(o) PROVE NeverConfirmed'
    <3>1. op' = Idle \/ op' = [step |-> "publish", members |-> NoMembers]
      BY <2>12 DEF WriteResetMarker, Return
    <3>2. QED
      BY <2>2, <3>1 DEF NeverConfirmed
  <2>13. ProcessRestart => NeverConfirmed'
    BY <2>2 DEF ProcessRestart, Return
  <2>14. ASSUME NEW s, PowerLoss(s) PROVE NeverConfirmed'
    BY <2>2, <2>14 DEF PowerLoss, Return
  <2>15. UNCHANGED vars => NeverConfirmed'
    BY <2>2 DEF vars
  <2>16. QED
    BY <1>3, <2>4, <2>5, <2>6, <2>7, <2>8, <2>9, <2>10, <2>11, <2>12, <2>13, <2>14, <2>15 DEF Next
<1>4. QED
  BY <1>2, <1>3

\* Membership that finish_commit reports flushed survives power loss, whichever
\* directory loses what, on every filesystem.
THEOREM FlushedSurvives == Spec => []FlushedIsDurable
<1>1. CASE FlushSupported
  <2>1. Spec => []StoreInv
    BY <1>1, Invariance
  <2>2. QED
    BY <2>1, ConfirmedDurable, PTL
<1>2. CASE ~FlushSupported
  <2>1. /\ Init => NeverConfirmed
        /\ NeverConfirmed /\ [Next]_vars => NeverConfirmed'
    BY <1>2, NeverConfirmedStep
  <2>2. NeverConfirmed => FlushedIsDurable
    BY DEF NeverConfirmed, FlushedIsDurable
  <2>3. QED
    BY <2>1, <2>2, PTL DEF Spec
<1>3. QED
  BY <1>1, <1>2

\* A set that is one of several, up to revisions, has one credential per account
\* if they do.
LEMMA OneOfUnique ==
    ASSUME NEW sets, NEW s, Set!OneOf(s, sets), s # Unavailable,
           \A m \in sets : m # Unavailable => Set!OnePerAccount(m)
    PROVE  Set!OnePerAccount(s)
<1>1. CASE s \in sets
  BY <1>1
<1>2. CASE s \notin sets
  <2>1. PICK m \in sets \ {Unavailable} : Set!Present(s) = Set!Present(m)
    BY <1>2 DEF Set!OneOf
  <2>2. QED
    BY <2>1 DEF Set!OnePerAccount
<1>3. QED
  BY <1>1, <1>2

\* Each operation on the set leaves one credential per account: a replacement
\* retires every other one of its account.
LEMMA NewSetsUnique ==
    ASSUME NEW s \in Set!Sets, Set!OnePerAccount(s), NEW i \in Ids
    PROVE  /\ Account[i] # NoAccount => Set!OnePerAccount(Set!Replaced(s, i))
           /\ Account[i] = NoAccount => Set!OnePerAccount([s EXCEPT ![i] = 0])
           /\ s[i] # -1 => \A v : Set!OnePerAccount([s EXCEPT ![i] = v])
           /\ Set!OnePerAccount([s EXCEPT ![i] = -1])
           /\ Set!OnePerAccount(Set!Empty)
<1>1. DOMAIN s = Ids
  BY DEF Set!Sets
<1>2. Account[i] # NoAccount => Set!OnePerAccount(Set!Replaced(s, i))
  BY DEF Set!OnePerAccount, Set!Present, Set!Absent, Set!Replaced
<1>3. Account[i] = NoAccount => Set!OnePerAccount([s EXCEPT ![i] = 0])
  BY <1>1 DEF Set!OnePerAccount, Set!Present, Set!Absent
<1>4. ASSUME s[i] # -1, NEW v PROVE Set!OnePerAccount([s EXCEPT ![i] = v])
  BY <1>1, <1>4 DEF Set!OnePerAccount, Set!Present, Set!Absent
<1>5. Set!OnePerAccount([s EXCEPT ![i] = -1])
  BY <1>1 DEF Set!OnePerAccount, Set!Present, Set!Absent
<1>6. Set!OnePerAccount(Set!Empty)
  BY DEF Set!OnePerAccount, Set!Present, Set!Absent, Set!Empty
<1>7. QED
  BY <1>2, <1>3, <1>4, <1>5, <1>6

\* A visible set is a function, or Unavailable.
LEMMA VisibleTyped == Typed => Usable(disk) \in Set!Sets \cup {Unavailable}
<1> SUFFICES ASSUME Typed PROVE Visible \in Set!Sets \cup {Unavailable}
  BY Outcome DEF ReadFromImages
<1>1. /\ disk.L \in Namespaces /\ disk.M \in Namespaces
      /\ disk.Lrecords \in [Ids -> Files] /\ disk.Mrecords \in [Ids -> Files]
  BY TypedParts
<1>2. QED
  BY <1>1, SetTyped, Zenon DEF Visible, SetOf, SetIn

\* A step of the abstract set keeps accounts unique.
LEMMA AccountsStep ==
    ASSUME Typed, Set!UniqueAccounts, AbstractStep
    PROVE  Set!UniqueAccounts'
<1> DEFINE cur == Usable(disk)
           next == Usable(disk)'
           left == {Usable(s) : s \in Snapshots}
           Unique(s) == s # Unavailable => Set!OnePerAccount(s)
<1>1. cur \in Set!Sets \cup {Unavailable} /\ \A s \in left \cup {cur} : Unique(s)
  BY VisibleTyped DEF Set!UniqueAccounts
<1>2. Unique(Set!Empty) /\ Unique(Unavailable)
  BY DEF Set!OnePerAccount, Set!Present, Set!Absent, Set!Empty
<1>3. SUFFICES \A s \in left' \cup {next} : Unique(s)
  BY DEF Set!UniqueAccounts, Set!OnePerAccount, Set!Present
<1>4. ASSUME NEW new, Set!OnePerAccount(new), Set!Becomes(new) PROVE \A s \in left' \cup {next} : Unique(s)
  <2>1. PICK sets : /\ sets \in SUBSET (left \cup {new} \cup {Set!Empty, Unavailable})
                    /\ next = new /\ next \in left' /\ \A s \in left' : Set!OneOf(s, sets)
    BY <1>4, Zenon DEF Set!Becomes
  <2>2. \A m \in sets : Unique(m)
    BY <1>1, <1>2, <1>4, <2>1
  <2>3. QED
    BY <2>1, <2>2, OneOfUnique
<1>5. ASSUME NEW i \in Ids, Set!InsertOrReplace(i) \/ Set!Insert(i) \/ Set!Update(i) \/ Set!Delete(i)
      PROVE  \A s \in left' \cup {next} : Unique(s)
  <2>1. cur \in Set!Sets /\ Set!OnePerAccount(cur)
    BY <1>1, <1>5 DEF Set!InsertOrReplace, Set!Insert, Set!Update, Set!Delete
  <2>2. CASE Set!InsertOrReplace(i)
    BY <1>4, <2>1, <2>2, NewSetsUnique, Zenon DEF Set!InsertOrReplace
  <2>3. CASE Set!Insert(i)
    BY <1>4, <2>1, <2>3, NewSetsUnique, Zenon DEF Set!Insert
  <2>4. CASE Set!Update(i)
    <3>1. cur[i] # -1 /\ Set!Becomes([cur EXCEPT ![i] = cur[i] + 1])
      BY <2>4, StoreAssumption DEF Set!Update
    <3>2. QED
      BY <1>4, <2>1, <3>1, NewSetsUnique, Zenon
  <2>5. CASE Set!Delete(i)
    BY <1>4, <2>1, <2>5, NewSetsUnique, Zenon DEF Set!Delete, Set!Absent
  <2>6. QED
    BY <1>5, <2>2, <2>3, <2>4, <2>5
<1>6. CASE Set!Reset
  <2>1. /\ next \in left'
        /\ \A s \in left' : Set!OneOf(s, left \cup {Set!Empty, Unavailable})
    BY <1>6 DEF Set!Reset
  <2>2. QED
    BY <1>1, <1>2, <2>1, OneOfUnique, ZenonT(30)
<1>7. CASE Set!Settle
  <2>1. next = cur /\ \A s \in left' : Set!OneOf(s, left)
    BY <1>7 DEF Set!Settle
  <2>2. QED
    BY <1>1, <2>1, OneOfUnique, Zenon
<1>8. CASE Set!PowerLoss
  <2>1. next \in left /\ left' = {next}
    BY <1>8 DEF Set!PowerLoss
  <2>2. QED
    BY <1>1, <2>1
<1>9. CASE UNCHANGED Abstract
  <2>1. next = cur /\ left' = left
    BY <1>9 DEF Abstract, Left
  <2>2. QED
    BY <1>1, <2>1
<1>10. QED
  BY <1>5, <1>6, <1>7, <1>8, <1>9 DEF AbstractStep, Set!Next

\* No account ever has two discoverable credentials, neither in what the store
\* shows nor in what power loss may leave of it (insert_or_replace_discoverable).
THEOREM OneCredentialPerAccount ==
    ASSUME FlushSupported
    PROVE  Spec => []Set!UniqueAccounts
<1>1. Init => Set!UniqueAccounts
  <2>1. Set!Init => Set!UniqueAccounts
    BY DEF Set!Init, Set!UniqueAccounts
  <2>2. QED
    BY <2>1, InitStep
<1>2. StoreInv /\ [Next]_vars => AbstractStep
  BY NextStep
<1>3. StoreInv /\ Set!UniqueAccounts /\ [Next]_vars => Set!UniqueAccounts'
  BY <1>2, AccountsStep DEF StoreInv
<1>4. QED
  BY <1>1, <1>3, Invariance, PTL DEF Spec
=============================================================================
