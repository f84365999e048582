------------------------ MODULE CredentialStoreLemmas ------------------------
(***************************************************************************)
(* The invariant of CredentialStore, for any credentials, accounts and     *)
(* bounds, and its steps that publish a manifest, those of a reset and     *)
(* power loss: each keeps the invariant, and changes what can be read as   *)
(* one operation of CredentialSet does, or not at all.                     *)
(* CredentialStoreProofs has the other steps, and the theorems.            *)
(*                                                                         *)
(* The argument rests on two things.  What power loss may leave is any     *)
(* choice of one image per directory, so the set read after it is SetOf    *)
(* applied to any such choice (Outcome); a step that writes one directory  *)
(* is then judged by what its new contents make of every choice of the     *)
(* others.  And the invariant StoreInv says why no choice shows a mixture: *)
(* the members of any manifest that may be found have files that open      *)
(* under its key in every image (Durable), and each operation has made     *)
(* durable what its next step builds on (Insertion, CleaningUp,            *)
(* Resetting).                                                             *)
(***************************************************************************)
EXTENDS CredentialStore, TLAPS

-----------------------------------------------------------------------------
(* The invariant *)

\* Every directory holds what it may hold, and its visible contents are among
\* those power loss may leave.
ImageSets ==
    [keys : SUBSET (1..MaxKey), root : SUBSET Roots,
     L : SUBSET Namespaces, Lrecords : SUBSET [Ids -> Files],
     M : SUBSET Namespaces, Mrecords : SUBSET [Ids -> Files]]

Typed == images \in ImageSets /\ disk \in Snapshots

\* A namespace gets the managed name once, between two power losses.
RootInv == \A r \in images.root : r.managed \in {"none", disk.root.managed}

\* Power loss may leave the managed name on ns.
Named(ns) == \E r \in images.root : r.managed = ns

\* Whatever power loss leaves of a namespace and its records, the members of a
\* manifest that opens under a key that may be left have files that open under it.
Durable(namespaces, records, keys) ==
    \A n \in namespaces, j \in Ids : n.active.key \in keys =>
        /\ n.active.members[j] = "Legacy" => \A m \in namespaces : m.files[j].key = n.active.key
        /\ n.active.members[j] = "Managed" => \A r \in records : r[j].key = n.active.key

\* So it is in each namespace that may have the managed name.
MembersInv ==
    /\ Named("L") => Durable(images.L, images.Lrecords, images.keys)
    /\ Named("M") => Durable(images.M, images.Mrecords, images.keys)

\* No namespace and no record knows key k.
NoTrace(k) ==
    /\ \A n \in images.L \cup images.M : n.active.key # k /\ \A i \in Ids : n.files[i].key # k
    /\ \A r \in images.Lrecords \cup images.Mrecords : \A i \in Ids : r[i].key # k

\* What a manifest may list.
Memberships == [Ids -> Locations \cup {"none"}]

\* insert_or_replace_discoverable and put: the new set is the listed one with the
\* candidate, whose record is durable before a manifest names it; a migration is
\* renamed only when its manifest is durable.
Insertion ==
    /\ op \in [step : {"marker", "candidate", "prepare", "migrate", "publish"},
               id : Ids, members : Memberships]
    /\ Authority(disk) \in (CASE op.step \in {"marker", "prepare", "migrate"} -> {"legacy"}
                              [] op.step = "publish" -> {"managed"}
                              [] OTHER -> {"legacy", "managed"})
    /\ Listing(disk)[op.id] = "none"
    /\ op.members[op.id] = "Managed"
    /\ \A j \in Ids \ {op.id} :
          op.members[j] = IF Account[j] = Account[op.id] /\ Account[op.id] # NoAccount
                          THEN "none" ELSE Listing(disk)[j]
    /\ Authority(disk) = "legacy" =>
          \A j \in Ids : op.members[j] = "Legacy" => disk.L.files[j].key = disk.keys
    /\ op.step \in {"marker", "candidate"} => Fresh(op.id)
    /\ op.step \in {"candidate", "prepare", "migrate"} => disk.root.format = disk.keys
    /\ op.step \in {"prepare", "migrate", "publish"} =>
          /\ images[Records(Namespace)] = {disk[Records(Namespace)]}
          /\ disk[Records(Namespace)][op.id] = [key |-> disk.keys, rev |-> 0]
    /\ op.step = "migrate" => images.L = {disk.L} /\ disk.L.active = Manifest

\* delete: the new set is the listed one without the credential.
Deletion ==
    /\ op \in [step : {"publish"}, id : Ids, members : Memberships]
    /\ Authority(disk) = "managed"
    /\ Listing(disk)[op.id] # "none"
    /\ op.members = [Listing(disk) EXCEPT ![op.id] = "none"]

\* finish_commit reported Flushed: every image of root and namespace has the manifest.
CleaningUp ==
    /\ op \in [step : {"cleanup", "cleanup_records"}, id : Ids, members : Memberships]
              \cup [step : {"cleanup", "cleanup_records"}, members : Memberships]
    /\ images.root = {disk.root}
    /\ disk.root.managed # "none"
    /\ disk.root.format = disk.keys
    /\ \A n \in images[disk.root.managed] : n.active = Manifest

\* clear: the new key is durable, and opens nothing yet.
Resetting ==
    /\ op \in [step : {"purge", "purge_legacy", "reset_marker"}]
              \cup [step : {"publish"}, members : {NoMembers}]
    /\ images.keys = {disk.keys}
    /\ NoTrace(disk.keys)
    /\ op.step = "purge_legacy" => disk.root.managed = "none"
    /\ op.step \in {"reset_marker", "publish"} => disk.root.managed # "none"
    /\ op.step = "publish" => disk.root.format = disk.keys

\* The running operation, if there is one, has prepared its next step.
OpInv == op = Idle \/ Insertion \/ Deletion \/ CleaningUp \/ Resetting

StoreInv == Typed /\ RootInv /\ MembersInv /\ OpInv

-----------------------------------------------------------------------------
(* The usable set, by the directories it is read from *)

\* The count of a record file that opens under key k; -1: it does not.
RevUnder(f, k) == IF f.key = k THEN f.rev ELSE -1

\* A legacy store serves every record of its namespace that opens,
LegacySet(n, k) == [j \in Ids |-> RevUnder(n.files[j], k)]

\* and a managed one the members its manifest lists, each where it is.
MemberRev(n, r, k, j) ==
    CASE n.active.members[j] = "Legacy" -> RevUnder(n.files[j], k)
      [] n.active.members[j] = "Managed" -> RevUnder(r[j], k)
      [] OTHER -> -1

ManagedSet(n, r, k) == [j \in Ids |-> MemberRev(n, r, k, j)]

\* Without an authentic marker and manifest nothing is served.
SetIn(k, root, n, r) ==
    IF root.format = k /\ n.active.key = k THEN ManagedSet(n, r, k) ELSE Unavailable

\* What is served with key k, from the root and the four other directories.
SetOf(k, root, l, lr, m, mr) ==
    CASE root.managed = "none" -> IF root.credentials THEN LegacySet(l, k) ELSE Unavailable
      [] root.managed = "L" -> SetIn(k, root, l, lr)
      [] OTHER -> SetIn(k, root, m, mr)

\* What is served now.
Visible == SetOf(disk.keys, disk.root, disk.L, disk.Lrecords, disk.M, disk.Mrecords)

\* What can be read from a disk is read from its directories as SetOf says.
LEMMA UsableIs ==
    ASSUME NEW s \in Disks, s.keys # 0
    PROVE  Usable(s) = SetOf(s.keys, s.root, s.L, s.Lrecords, s.M, s.Mrecords)
<1>0. /\ s.L \in Namespaces /\ s.M \in Namespaces /\ s.root \in Roots
      /\ s.Lrecords \in [Ids -> Files] /\ s.Mrecords \in [Ids -> Files]
  BY DEF Disks
<1>1. CASE s.root.managed = "none"
  <2>1. CASE s.root.credentials
    <3>1. Authority(s) = "legacy"
      BY <1>1, <2>1 DEF Authority
    <3>2. ASSUME NEW j \in Ids
          PROVE  (IF j \in Listed(s) /\ Readable(s, j) THEN FileAt(s, j, Listing(s)[j]).rev ELSE -1)
                   = RevUnder(s.L.files[j], s.keys)
      <4>1. Listing(s)[j] = IF s.L.files[j] # NoFile THEN "Legacy" ELSE "none"
        BY <3>1 DEF Listing
      <4>2. FileAt(s, j, "Legacy") = s.L.files[j]
        BY <1>1 DEF FileAt
      <4>3. CASE s.L.files[j] = NoFile
        BY <4>1, <4>3 DEF Listed, RevUnder, NoFile
      <4>4. CASE s.L.files[j] # NoFile
        BY <4>1, <4>2, <4>4 DEF Listed, RevUnder, Readable
      <4>5. QED
        BY <4>3, <4>4
    <3>3. QED
      BY <1>1, <2>1, <3>1, <3>2 DEF Usable, SetOf, LegacySet
  <2>2. CASE ~s.root.credentials
    BY <1>1, <2>2 DEF Usable, Authority, SetOf
  <2>3. QED
    BY <2>1, <2>2
<1>2. ASSUME NEW n \in Namespaces, NEW r \in [Ids -> Files],
             s.root.managed # "none", s[s.root.managed] = n, s[Records(s.root.managed)] = r
      PROVE  Usable(s) = SetIn(s.keys, s.root, n, r)
  <2>1. CASE s.root.format = s.keys /\ n.active.key = s.keys
    <3>1. Authority(s) = "managed"
      BY <1>2, <2>1 DEF Authority
    <3>2. ASSUME NEW j \in Ids
          PROVE  (IF j \in Listed(s) /\ Readable(s, j) THEN FileAt(s, j, Listing(s)[j]).rev ELSE -1)
                   = MemberRev(n, r, s.keys, j)
      <4>1. Listing(s)[j] = n.active.members[j]
        BY <1>2, <3>1 DEF Listing
      <4>2. FileAt(s, j, "Legacy") = n.files[j] /\ FileAt(s, j, "Managed") = r[j]
        BY <1>2 DEF FileAt
      <4>3. n.active.members[j] \in {"Legacy", "Managed", "none"}
        BY DEF Namespaces, Manifests, Locations
      <4>4. QED
        BY <4>1, <4>2, <4>3 DEF Listed, MemberRev, RevUnder, Readable
    <3>3. QED
      BY <2>1, <3>1, <3>2 DEF Usable, SetIn, ManagedSet
  <2>2. CASE ~(s.root.format = s.keys /\ n.active.key = s.keys)
    BY <1>2, <2>2 DEF Usable, Authority, SetIn
  <2>3. QED
    BY <2>1, <2>2
<1>3. CASE s.root.managed = "L"
  BY <1>0, <1>2, <1>3 DEF SetOf, Records
<1>4. CASE s.root.managed = "M"
  BY <1>0, <1>2, <1>4 DEF SetOf, Records
<1>5. QED
  BY <1>0, <1>1, <1>3, <1>4 DEF Roots

\* The contents of the directories, one by one.
LEMMA TypedParts ==
    ASSUME Typed
    PROVE  /\ images.keys \subseteq 1..MaxKey /\ disk.keys \in images.keys
           /\ images.root \subseteq Roots /\ disk.root \in images.root
           /\ images.L \subseteq Namespaces /\ disk.L \in images.L
           /\ images.M \subseteq Namespaces /\ disk.M \in images.M
           /\ images.Lrecords \subseteq [Ids -> Files] /\ disk.Lrecords \in images.Lrecords
           /\ images.Mrecords \subseteq [Ids -> Files] /\ disk.Mrecords \in images.Mrecords
           /\ disk \in Disks
           /\ Snapshots \subseteq Disks
BY StoreAssumption DEF Typed, ImageSets, Snapshots, Disks

\* The visible disk is one of the disks there may be.
LEMMA DiskTyped == Typed => disk \in Disks
BY TypedParts

\* The same in the next state.
LEMMA DiskTypedNext == Typed' => (disk \in Disks)'
BY DiskTyped, PTL

\* What power loss may make of the set is what any contents of the directories
\* make of it.
ReadFromImages ==
    /\ \A k \in images.keys, root \in images.root, l \in images.L, lr \in images.Lrecords,
          m \in images.M, mr \in images.Mrecords :
          SetOf(k, root, l, lr, m, mr) \in {Usable(s) : s \in Snapshots}
    /\ \A u \in {Usable(s) : s \in Snapshots} :
          \E k \in images.keys, root \in images.root, l \in images.L, lr \in images.Lrecords,
             m \in images.M, mr \in images.Mrecords : u = SetOf(k, root, l, lr, m, mr)
    /\ Usable(disk) = Visible

\* Choosing a disk power loss may leave is choosing an image of every directory.
LEMMA Outcome == Typed => ReadFromImages
<1> SUFFICES ASSUME Typed PROVE ReadFromImages
  OBVIOUS
<1>1. ASSUME NEW k \in images.keys, NEW root \in images.root, NEW l \in images.L,
             NEW lr \in images.Lrecords, NEW m \in images.M, NEW mr \in images.Mrecords
      PROVE  SetOf(k, root, l, lr, m, mr) \in {Usable(s) : s \in Snapshots}
  <2> DEFINE s == [keys |-> k, root |-> root, L |-> l, Lrecords |-> lr, M |-> m, Mrecords |-> mr]
  <2>1. s \in Snapshots
    BY DEF Snapshots
  <2>2. s \in Disks /\ s.keys # 0
    BY <2>1, TypedParts
  <2>3. QED
    BY <2>1, <2>2, UsableIs
<1>2. ASSUME NEW s \in Snapshots
      PROVE  \E k \in images.keys, root \in images.root, l \in images.L, lr \in images.Lrecords,
                m \in images.M, mr \in images.Mrecords : Usable(s) = SetOf(k, root, l, lr, m, mr)
  <2>1. s \in Disks /\ s.keys # 0
    BY TypedParts DEF Snapshots
  <2>2. QED
    BY <2>1, UsableIs DEF Snapshots
<1>3. Usable(disk) = Visible
  BY TypedParts, UsableIs DEF Visible
<1>4. QED
  BY <1>1, <1>2, <1>3 DEF ReadFromImages

\* The same in the next state.
LEMMA OutcomeNext == Typed' => ReadFromImages'
BY Outcome, PTL

-----------------------------------------------------------------------------
(* Steps of the abstract set *)

\* The sets power loss may leave, and those an unsettled key may come to.
Left == {Usable(s) : s \in Snapshots}
Lost == IF images.keys # {disk.keys} THEN {Set!Empty, Unavailable} ELSE {}

\* A usable set is a function, and Unavailable is none.
LEMMA SetTyped ==
    ASSUME NEW k, NEW n \in Namespaces, NEW r \in [Ids -> Files]
    PROVE  /\ LegacySet(n, k) \in Set!Sets /\ LegacySet(n, k) # Unavailable
           /\ ManagedSet(n, r, k) \in Set!Sets /\ ManagedSet(n, r, k) # Unavailable
           /\ Set!Empty \in Set!Sets /\ Set!Empty # Unavailable
<1>1. ASSUME NEW f \in Files PROVE RevUnder(f, k) \in {-1} \cup 0..MaxRev
  BY DEF RevUnder, Files
<1>2. \A j \in Ids : n.files[j] \in Files /\ r[j] \in Files
  BY DEF Namespaces
<1>3. \A j \in Ids : MemberRev(n, r, k, j) \in {-1} \cup 0..MaxRev
  <2>1. SUFFICES ASSUME NEW j \in Ids PROVE MemberRev(n, r, k, j) \in {-1} \cup 0..MaxRev
    OBVIOUS
  <2>2. CASE n.active.members[j] = "Legacy"
    BY <1>1, <1>2, <2>2 DEF MemberRev
  <2>3. CASE n.active.members[j] = "Managed"
    BY <1>1, <1>2, <2>3 DEF MemberRev
  <2>4. CASE n.active.members[j] \notin {"Legacy", "Managed"}
    BY <2>4 DEF MemberRev
  <2>5. QED
    BY <2>2, <2>3, <2>4
<1>4. LegacySet(n, k) \in Set!Sets
  BY <1>1, <1>2 DEF LegacySet, Set!Sets, Set!Absent
<1>5. ManagedSet(n, r, k) \in Set!Sets
  BY <1>3 DEF ManagedSet, Set!Sets, Set!Absent
<1>6. Set!Empty \in Set!Sets
  BY DEF Set!Empty, Set!Sets, Set!Absent
<1>7. Unavailable \notin Set!Sets
  BY StoreAssumption DEF Set!Sets, Set!Absent
<1>8. QED
  BY <1>4, <1>5, <1>6, <1>7

\* A set is accounted for by sets it is one of, or whose membership it has with
\* each record at a revision that one of them has.
LEMMA Accounted ==
    ASSUME NEW u, NEW sets, u \in sets
    PROVE  Set!OneOf(u, sets)
BY DEF Set!OneOf

\* So is a set with the members of one of them and revisions of any of them.
LEMMA AccountedMixed ==
    ASSUME NEW sets, NEW u \in Set!Sets, NEW m \in sets, m # Unavailable,
           \A j \in Ids : (u[j] = -1) <=> (m[j] = -1),
           \A j \in Ids : u[j] # -1 => \E o \in sets : o # Unavailable /\ u[j] = o[j]
    PROVE  Set!OneOf(u, sets)
BY DEF Set!OneOf, Set!Present, Set!Absent

\* A step that changes the visible set to new, and leaves only sets accounted for.
LEMMA BecomesStep ==
    ASSUME Typed, Typed', images'.keys = images.keys, disk'.keys = disk.keys,
           NEW new, Visible' = new,
           \A k \in images'.keys, root \in images'.root, l \in images'.L, lr \in images'.Lrecords,
              m \in images'.M, mr \in images'.Mrecords :
              Set!OneOf(SetOf(k, root, l, lr, m, mr), Left \cup {new} \cup Lost)
    PROVE  Set!Becomes(new)
<1>1. Usable(disk)' = new /\ Usable(disk)' \in Left'
  <2>1. Usable(disk)' = Visible'
    BY Outcome, OutcomeNext DEF ReadFromImages
  <2>2. Usable(disk)' \in Left'
    BY DEF Left, Typed
  <2>3. QED
    BY <2>1, <2>2
<1>2. \A u \in Left' : Set!OneOf(u, Left \cup {new} \cup Lost)
  BY OutcomeNext DEF Left, ReadFromImages
<1>3. (images.keys # {disk.keys})' = (images.keys # {disk.keys})
  OBVIOUS
<1>4. QED
  BY <1>1, <1>2, <1>3 DEF Set!Becomes, Left, Lost

\* A step of a reset: what can be read afterwards is empty, or nothing.
LEMMA ResetStep ==
    ASSUME Typed, Typed', Visible' \in {Set!Empty, Unavailable},
           \A k \in images'.keys, root \in images'.root, l \in images'.L, lr \in images'.Lrecords,
              m \in images'.M, mr \in images'.Mrecords :
              SetOf(k, root, l, lr, m, mr) \in Left \cup {Set!Empty, Unavailable}
    PROVE  Set!Reset
<1>1. Usable(disk)' \in {Set!Empty, Unavailable} /\ Usable(disk)' \in Left'
  <2>1. Usable(disk)' = Visible'
    BY Outcome, OutcomeNext DEF ReadFromImages
  <2>2. Usable(disk)' \in Left'
    BY DEF Left, Typed
  <2>3. QED
    BY <2>1, <2>2
<1>2. \A u \in Left' : u \in Left \cup {Set!Empty, Unavailable}
  BY OutcomeNext DEF Left, ReadFromImages
<1>3. \A u \in Left' : Set!OneOf(u, Left \cup {Set!Empty, Unavailable})
  BY <1>2, Accounted
<1>4. (images.keys # {disk.keys})' \in BOOLEAN
  OBVIOUS
<1>5. QED
  BY <1>1, <1>3, <1>4 DEF Set!Reset, Left

\* A step that shows nothing, and at most takes away what power loss may leave.
LEMMA SettleStep ==
    ASSUME Typed, Typed', images'.keys = images.keys, disk'.keys = disk.keys, Visible' = Visible,
           \A k \in images'.keys, root \in images'.root, l \in images'.L, lr \in images'.Lrecords,
              m \in images'.M, mr \in images'.Mrecords :
              SetOf(k, root, l, lr, m, mr) \in Left
    PROVE  Set!Settle
<1>1. Usable(disk)' = Usable(disk) /\ Usable(disk)' \in Left'
  <2>1. Usable(disk)' = Visible' /\ Usable(disk) = Visible
    BY Outcome, OutcomeNext DEF ReadFromImages
  <2>2. Usable(disk)' \in Left'
    BY DEF Left, Typed
  <2>3. QED
    BY <2>1, <2>2
<1>2. \A u \in Left' : u \in Left
  BY OutcomeNext DEF Left, ReadFromImages
<1>3. \A u \in Left' : Set!OneOf(u, Left)
  BY <1>2, Accounted
<1>4. (images.keys # {disk.keys})' = (images.keys # {disk.keys})
  OBVIOUS
<1>5. QED
  BY <1>1, <1>3, <1>4 DEF Set!Settle, Left
-----------------------------------------------------------------------------
(* Writes *)

\* What a step does to a directory: nothing, or Write with contents c and outcome o.
Kept(d) == disk'[d] = disk[d] /\ images'[d] = images[d]

Wrote(d, c, o) ==
    IF Published(o)
    THEN disk'[d] = c /\ images'[d] = IF FlushedStrictly(o) THEN {c} ELSE images[d] \cup {c}
    ELSE Kept(d)

\* A write changes one directory.
LEMMA WriteEffect ==
    ASSUME Typed, NEW d \in Directories \ {"keys"}, NEW c, NEW o, Write(d, c, o),
           d = "root" => c \in Roots,
           d \in {"L", "M"} => c \in Namespaces,
           d \in {"Lrecords", "Mrecords"} => c \in [Ids -> Files]
    PROVE  Typed' /\ Wrote(d, c, o) /\ \A e \in Directories \ {d} : Kept(e)
<1>1. disk \in Disks /\ images \in ImageSets
  BY TypedParts DEF Typed
<1>2. CASE ~Published(o)
  BY <1>2 DEF Write, Wrote, Kept, Typed, Snapshots
<1>3. CASE Published(o)
  <2>1. disk' = [disk EXCEPT ![d] = c]
    BY <1>3 DEF Write
  <2>2. images' = [images EXCEPT ![d] = IF FlushedStrictly(o) THEN {c} ELSE @ \cup {c}]
    BY <1>3 DEF Write
  <2>3. Wrote(d, c, o)
    BY <1>1, <1>3, <2>1, <2>2, Zenon DEF Wrote, Disks, ImageSets, Directories
  <2>4. \A e \in Directories \ {d} : Kept(e)
    BY <1>1, <2>1, <2>2 DEF Kept, Disks, ImageSets, Directories
  <2>5. images' \in ImageSets
    BY <1>1, <2>2 DEF ImageSets, Directories
  <2>6. disk' \in Snapshots'
    BY <1>1, <2>1, <2>2, TypedParts DEF Disks, ImageSets, Directories, Snapshots
  <2>7. QED
    BY <2>3, <2>4, <2>5, <2>6 DEF Typed
<1>4. QED
  BY <1>2, <1>3

-----------------------------------------------------------------------------
(* Authorities *)

\* active_manifest, case by case.
LEMMA AuthorityIs ==
    ASSUME NEW s \in Disks, s.keys # 0
    PROVE  /\ Authority(s) = "legacy" <=> s.root.managed = "none" /\ s.root.credentials
           /\ Authority(s) = "managed" <=>
                 /\ s.root.managed # "none"
                 /\ s.root.format = s.keys
                 /\ s[s.root.managed].active.key = s.keys
           /\ Authority(s) \in {"legacy", "managed", "unavailable"}
<1>1. CASE s.root.managed = "none"
  BY <1>1 DEF Authority
<1>2. CASE s.root.managed # "none"
  BY <1>2 DEF Authority
<1>3. QED
  BY <1>1, <1>2

\* What an authority lists.
LEMMA ListingIs ==
    ASSUME NEW s \in Disks, s.keys # 0, Authority(s) # "unavailable"
    PROVE  /\ Listing(s) \in Memberships
           /\ Authority(s) = "legacy" =>
                 \A j \in Ids : /\ Listing(s)[j] = IF s.L.files[j] # NoFile THEN "Legacy" ELSE "none"
                                /\ FileAt(s, j, "Legacy") = s.L.files[j]
           /\ Authority(s) = "managed" => Listing(s) = s[s.root.managed].active.members
           /\ s.root.managed = "L" =>
                 \A j \in Ids : /\ FileAt(s, j, "Legacy") = s.L.files[j]
                                /\ FileAt(s, j, "Managed") = s.Lrecords[j]
           /\ s.root.managed = "M" =>
                 \A j \in Ids : /\ FileAt(s, j, "Legacy") = s.M.files[j]
                                /\ FileAt(s, j, "Managed") = s.Mrecords[j]
<1>1. /\ s.L \in Namespaces /\ s.M \in Namespaces /\ s.root.managed \in {"none", "L", "M"}
  BY DEF Disks, Roots
<1>2. CASE Authority(s) = "legacy"
  BY <1>1, <1>2, AuthorityIs DEF Listing, FileAt, Memberships, Locations
<1>3. CASE Authority(s) = "managed"
  <2>1. Listing(s) = s[s.root.managed].active.members
    BY <1>3 DEF Listing
  <2>2. s.root.managed \in {"L", "M"}
    BY <1>1, <1>3, AuthorityIs
  <2>3. Listing(s) \in Memberships
    BY <1>1, <2>1, <2>2 DEF Namespaces, Manifests, Memberships
  <2>4. QED
    BY <1>3, <2>1, <2>2, <2>3 DEF FileAt, Records
<1>4. QED
  BY <1>2, <1>3, AuthorityIs

\* A disk that differs where lookup does not look has the same authority.
LEMMA AuthoritySame ==
    ASSUME NEW s \in Disks, NEW t \in Disks, s.keys # 0, t.keys = s.keys,
           t.root.managed = s.root.managed, t.root.credentials = s.root.credentials,
           s.root.managed = "none" => t.L.files = s.L.files,
           s.root.managed # "none" =>
              t.root.format = s.root.format
              /\ t[s.root.managed].active = s[s.root.managed].active
    PROVE  /\ Authority(t) = Authority(s)
           /\ Authority(s) # "unavailable" => Listing(t) = Listing(s)
<1>1. Authority(t) = Authority(s)
  BY AuthorityIs
<1>2. CASE Authority(s) = "managed"
  BY <1>1, <1>2, AuthorityIs DEF Listing
<1>3. CASE Authority(s) = "legacy"
  BY <1>1, <1>3, AuthorityIs DEF Listing
<1>4. QED
  BY <1>1, <1>2, <1>3, AuthorityIs

-----------------------------------------------------------------------------
(* The start of an operation *)

\* What depends on the disk alone is kept by a step that leaves it alone.
LEMMA DiskKept ==
    ASSUME StoreInv, UNCHANGED <<disk, images>>
    PROVE  Typed' /\ RootInv' /\ MembersInv'
BY DEF StoreInv, Typed, Snapshots, RootInv, MembersInv, Named

\* The facts of a disk that lookup works on.
LEMMA DiskFacts ==
    ASSUME Typed
    PROVE  disk \in Disks /\ disk.keys # 0 /\ disk.root.managed \in {"none", "L", "M"}
BY TypedParts DEF Disks, Roots

\* A fresh credential is listed nowhere.
LEMMA FreshUnlisted ==
    ASSUME Typed, NEW i \in Ids, Fresh(i), Authority(disk) # "unavailable"
    PROVE  Listing(disk)[i] = "none"
<1>1. CASE Authority(disk) = "legacy"
  BY <1>1, DiskFacts, TypedParts, ListingIs DEF Fresh
<1>2. CASE Authority(disk) = "managed"
  BY <1>2, DiskFacts, TypedParts, ListingIs, AuthorityIs DEF Fresh
<1>3. QED
  BY <1>1, <1>2, DiskFacts, AuthorityIs

\* insert_or_replace_discoverable and put, up to the first write.
LEMMA BeginInsertionKeeps ==
    ASSUME StoreInv, NEW i \in Ids, InsertOrReplaceDiscoverable(i) \/ PutManaged(i)
    PROVE  StoreInv'
<1>1. UNCHANGED <<disk, images>> /\ Fresh(i)
  BY DEF InsertOrReplaceDiscoverable, PutManaged
<1>2. Typed /\ Authority(disk) \in {"legacy", "managed"}
  BY DiskFacts, AuthorityIs DEF StoreInv, InsertOrReplaceDiscoverable, PutManaged
<1>3. /\ Listing(disk) \in Memberships
      /\ Listing(disk)[i] = "none"
      /\ Authority(disk) = "managed" => disk.root.format = disk.keys
  BY <1>1, <1>2, DiskFacts, FreshUnlisted, ListingIs, AuthorityIs
<1>4. CASE InsertOrReplaceDiscoverable(i)
  <2> DEFINE matching == {j \in Listed(disk) : Account[j] = Account[i]}
             ms == WithReplacement(i, matching)
  <2>1. /\ op' = [step |-> IF Authority(disk) = "legacy" THEN "marker" ELSE "candidate",
                  id |-> i, members |-> ms]
        /\ Account[i] # NoAccount
        /\ \A j \in Listed(disk) : Readable(disk, j)
    BY <1>4 DEF InsertOrReplaceDiscoverable
  <2>2. /\ ms \in Memberships
        /\ ms[i] = "Managed"
        /\ \A j \in Ids \ {i} : ms[j] = IF Account[j] = Account[i] THEN "none" ELSE Listing(disk)[j]
    BY <1>3 DEF WithReplacement, Memberships, Locations, Listed
  <2>3. ASSUME Authority(disk) = "legacy", NEW j \in Ids, ms[j] = "Legacy"
        PROVE  disk.L.files[j].key = disk.keys
    <3>1. j # i /\ Listing(disk)[j] = "Legacy"
      BY <2>2, <2>3
    <3>2. Readable(disk, j)
      BY <2>1, <3>1 DEF Listed
    <3>3. QED
      BY <1>2, <2>3, <3>1, <3>2, DiskFacts, ListingIs DEF Readable
  <2> HIDE DEF ms
  <2>4. Insertion'
    BY <1>1, <1>2, <1>3, <2>1, <2>2, <2>3 DEF Insertion, Fresh
  <2>5. QED
    BY <1>1, <2>4, DiskKept DEF StoreInv, OpInv
<1>5. CASE PutManaged(i)
  <2> DEFINE ms == [Listing(disk) EXCEPT ![i] = "Managed"]
  <2>1. /\ op' = [step |-> "candidate", id |-> i, members |-> ms]
        /\ Account[i] = NoAccount
        /\ Authority(disk) = "managed"
    BY <1>5 DEF PutManaged
  <2>2. /\ ms \in Memberships
        /\ ms[i] = "Managed"
        /\ \A j \in Ids \ {i} : ms[j] = Listing(disk)[j]
    BY <1>3 DEF Memberships, Locations
  <2> HIDE DEF ms
  <2>4. Insertion'
    BY <1>1, <1>2, <1>3, <2>1, <2>2 DEF Insertion, Fresh
  <2>5. QED
    BY <1>1, <2>4, DiskKept DEF StoreInv, OpInv
<1>6. QED
  BY <1>4, <1>5

\* delete, up to the manifest.
LEMMA BeginDeletionKeeps ==
    ASSUME StoreInv, NEW i \in Ids, DeleteManaged(i)
    PROVE  StoreInv'
<1>1. /\ UNCHANGED <<disk, images>>
      /\ Authority(disk) = "managed"
      /\ Listing(disk)[i] # "none"
      /\ op' = [step |-> "publish", id |-> i, members |-> [Listing(disk) EXCEPT ![i] = "none"]]
  BY DEF DeleteManaged, Listed
<1>2. Listing(disk) \in Memberships
  BY <1>1, DiskFacts, ListingIs DEF StoreInv
<1>3. [Listing(disk) EXCEPT ![i] = "none"] \in Memberships
  BY <1>2 DEF Memberships
<1>4. Deletion'
  BY <1>1, <1>3 DEF Deletion
<1>5. QED
  BY <1>1, <1>4, DiskKept DEF StoreInv, OpInv

\* An operation that ends without a write, or is cut off by the end of the process.
LEMMA EndKeeps ==
    ASSUME StoreInv, UNCHANGED <<disk, images>>, op' = Idle \/ op' = op
    PROVE  StoreInv'
<1>1. CASE op' = Idle
  BY <1>1, DiskKept DEF StoreInv, OpInv
<1>2. CASE op' = op
  <2>1. Insertion => Insertion'
    BY <1>2 DEF Insertion, Fresh, Namespace, Manifest
  <2>2. Deletion => Deletion'
    BY <1>2 DEF Deletion
  <2>3. CleaningUp => CleaningUp'
    BY <1>2 DEF CleaningUp, Manifest
  <2>4. Resetting => Resetting'
    BY <1>2 DEF Resetting, NoTrace
  <2>5. QED
    BY <1>2, <2>1, <2>2, <2>3, <2>4, DiskKept DEF StoreInv, OpInv
<1>3. QED
  BY <1>1, <1>2

-----------------------------------------------------------------------------
(* insert_or_replace_discoverable: marker, candidate, migration *)

\* The abstract variables, and a step of the abstract set or of none.
\* The variables of CredentialSet, and its steps.
Abstract == <<Usable(disk), Left, images.keys # {disk.keys}>>
AbstractStep == Set!Next \/ UNCHANGED Abstract

\* A step that writes nothing is no step of the abstract set.
LEMMA StutterRefines == ASSUME UNCHANGED <<disk, images>> PROVE AbstractStep
BY DEF AbstractStep, Abstract, Left, Snapshots

\* A step that only makes something durable is Settle.
LEMMA SettleRefines == ASSUME Set!Settle PROVE AbstractStep
BY DEF AbstractStep, Set!Next

\* A step of clear is Reset.
LEMMA ResetRefines == ASSUME Set!Reset PROVE AbstractStep
BY DEF AbstractStep, Set!Next

\* The steps that only an insertion has.
LEMMA InsertionSteps ==
    ASSUME StoreInv, op.step \in {"marker", "candidate", "prepare", "migrate"}
    PROVE  Insertion
<1>1. op # Idle
  BY DEF Idle
<1>2. ~Deletion /\ ~CleaningUp
  BY DEF Deletion, CleaningUp
<1>3. ~Resetting
  BY DEF Resetting
<1>4. QED
  BY <1>1, <1>2, <1>3 DEF StoreInv, OpInv

\* The format marker is rewritten, and no namespace is renamed.
LEMMA MarkerWritten ==
    ASSUME StoreInv, NEW o, Write("root", [disk.root EXCEPT !.format = disk.keys], o)
    PROVE  /\ Typed' /\ RootInv' /\ MembersInv'
           /\ Wrote("root", [disk.root EXCEPT !.format = disk.keys], o)
           /\ Kept("keys") /\ Kept("L") /\ Kept("Lrecords") /\ Kept("M") /\ Kept("Mrecords")
           /\ disk'.root.managed = disk.root.managed
           /\ disk'.root.credentials = disk.root.credentials
<1> DEFINE c == [disk.root EXCEPT !.format = disk.keys]
<1>1. disk.root \in Roots /\ disk.keys \in 0..MaxKey
  BY TypedParts, StoreAssumption DEF StoreInv
<1>2. c \in Roots /\ c.managed = disk.root.managed /\ c.credentials = disk.root.credentials
  BY <1>1 DEF Roots
<1> HIDE DEF c
<1>3. Typed' /\ Wrote("root", c, o) /\ \A e \in Directories \ {"root"} : Kept(e)
  BY <1>2, WriteEffect DEF StoreInv, Directories, c
<1>4. Kept("keys") /\ Kept("L") /\ Kept("Lrecords") /\ Kept("M") /\ Kept("Mrecords")
  BY <1>3 DEF Directories
<1>5. /\ images'.root \subseteq images.root \cup {c}
      /\ disk'.root.managed = disk.root.managed
      /\ disk'.root.credentials = disk.root.credentials
  BY <1>2, <1>3 DEF Wrote, Kept
<1>6. RootInv'
  BY <1>2, <1>5 DEF StoreInv, RootInv
<1>7. \A ns : Named(ns)' => Named(ns)
  BY <1>2, <1>5, TypedParts DEF Named, StoreInv
<1>8. MembersInv'
  BY <1>4, <1>7 DEF StoreInv, MembersInv, Kept
<1>9. QED
  BY <1>3, <1>4, <1>5, <1>6, <1>8 DEF c

\* write_format_marker shows nothing: a legacy store does not look at the marker.
LEMMA WriteFormatMarkerStep ==
    ASSUME StoreInv, NEW o, WriteFormatMarker(o)
    PROVE  StoreInv' /\ AbstractStep
<1> DEFINE c == [disk.root EXCEPT !.format = disk.keys]
<1>1. Insertion /\ op.step = "marker" /\ Write("root", c, o)
  BY InsertionSteps DEF WriteFormatMarker
<1>2. Authority(disk) = "legacy" /\ disk.root.managed = "none"
  <2>1. Authority(disk) = "legacy"
    BY <1>1 DEF Insertion
  <2>2. QED
    BY <2>1, DiskFacts, AuthorityIs DEF StoreInv
<1>3. /\ Typed' /\ RootInv' /\ MembersInv' /\ Wrote("root", c, o)
      /\ Kept("keys") /\ Kept("L") /\ Kept("Lrecords") /\ Kept("M") /\ Kept("Mrecords")
      /\ disk'.root.managed = disk.root.managed
      /\ disk'.root.credentials = disk.root.credentials
  BY <1>1, MarkerWritten
<1>4. c.managed = "none" /\ c.credentials = disk.root.credentials /\ c.format = disk.keys
  BY <1>2, TypedParts DEF StoreInv, Roots
<1> HIDE DEF c
<1>5. OpInv'
  <2>1. CASE ~FlushedStrictly(o)
    BY <2>1 DEF WriteFormatMarker, Return, OpInv
  <2>2. CASE FlushedStrictly(o)
    <3>1. op' = [op EXCEPT !.step = "candidate"] /\ disk'.root = c
      BY <1>3, <2>2 DEF WriteFormatMarker, FlushedStrictly, Published, Wrote
    <3>2. Authority(disk') = Authority(disk) /\ Listing(disk') = Listing(disk)
      <4>1. disk' \in Disks /\ disk'.keys = disk.keys /\ disk'.L = disk.L
        BY <1>3, DiskTypedNext DEF Kept
      <4>2. QED
        BY <1>2, <1>3, <4>1, DiskFacts, AuthoritySame DEF StoreInv
    <3>3. op' \in [step : {"candidate"}, id : Ids, members : Memberships]
          /\ op'.id = op.id /\ op'.members = op.members /\ op'.step = "candidate"
      BY <1>1, <3>1 DEF Insertion
    <3>4. Fresh(op.id) /\ Fresh(op.id)'
      BY <1>1, <1>3, <3>3 DEF Insertion, Fresh, Kept
    <3>5. Insertion'
      BY <1>1, <1>2, <1>3, <1>4, <3>1, <3>2, <3>3, <3>4 DEF Insertion, Kept, Fresh
    <3>6. QED
      BY <3>5 DEF OpInv
  <2>3. QED
    BY <2>1, <2>2
<1>6. Set!Settle
  <2>1. Visible' = Visible
    BY <1>2, <1>3 DEF Visible, Kept, SetOf
  <2>2. ASSUME NEW k \in images'.keys, NEW root \in images'.root, NEW l \in images'.L,
               NEW lr \in images'.Lrecords, NEW m \in images'.M, NEW mr \in images'.Mrecords
        PROVE  SetOf(k, root, l, lr, m, mr) \in Left
    <3>1. k \in images.keys /\ l \in images.L /\ lr \in images.Lrecords
          /\ m \in images.M /\ mr \in images.Mrecords /\ root \in images.root \cup {c}
      BY <1>3, <2>2 DEF Kept, Wrote
    <3>2. SetOf(k, c, l, lr, m, mr) = SetOf(k, disk.root, l, lr, m, mr)
      BY <1>2, <1>4 DEF SetOf
    <3>3. QED
      BY <3>1, <3>2, Outcome, TypedParts DEF StoreInv, ReadFromImages, Left
  <2>3. QED
    BY <1>3, <2>1, <2>2, SettleStep DEF StoreInv, Kept
<1>7. QED
  BY <1>3, <1>5, <1>6, SettleRefines DEF StoreInv

\* A record nobody lists is not missed, and not seen.
LEMMA UnlistedDurable ==
    ASSUME NEW N, NEW R, NEW R2, NEW keys, NEW r \in R, NEW c, NEW i \in Ids,
           R2 \subseteq R \cup {c}, \A j \in Ids \ {i} : c[j] = r[j],
           \A n \in N : n.active.members[i] = "none",
           Durable(N, R, keys)
    PROVE  Durable(N, R2, keys)
BY DEF Durable

\* A record nobody lists changes nothing that is read.
LEMMA UnlistedUnseen ==
    ASSUME NEW n, NEW r, NEW c, NEW i \in Ids, NEW k, NEW root,
           \A j \in Ids \ {i} : c[j] = r[j], n.active.members[i] = "none"
    PROVE  SetIn(k, root, n, c) = SetIn(k, root, n, r)
<1>1. \A j \in Ids : MemberRev(n, c, k, j) = MemberRev(n, r, k, j)
  BY DEF MemberRev
<1>2. ManagedSet(n, c, k) = ManagedSet(n, r, k)
  BY <1>1 DEF ManagedSet
<1>3. QED
  BY <1>2 DEF SetIn

\* The directory of managed records of the namespace in use.
LEMMA RecordsDirectory ==
    ASSUME Typed
    PROVE  /\ disk.root.managed = "M" => Namespace = "M" /\ Records(Namespace) = "Mrecords"
           /\ disk.root.managed # "M" => Namespace = "L" /\ Records(Namespace) = "Lrecords"
BY DiskFacts DEF Namespace, Records

\* write_candidate shows nothing: no manifest lists the candidate yet.
LEMMA WriteCandidateStep ==
    ASSUME StoreInv, NEW o, WriteCandidate(o)
    PROVE  StoreInv' /\ AbstractStep
<1> DEFINE d == Records(Namespace)
           f == [key |-> disk.keys, rev |-> 0]
           c == [disk[d] EXCEPT ![op.id] = f]
<1>1. Insertion /\ op.step = "candidate" /\ Write(d, c, o) /\ Typed
  BY InsertionSteps DEF WriteCandidate, StoreInv
<1>2. op.id \in Ids /\ Fresh(op.id) /\ d \in {"Lrecords", "Mrecords"}
  BY <1>1, RecordsDirectory DEF Insertion
<1>3. disk[d] \in [Ids -> Files] /\ disk[d] \in images[d] /\ f \in Files
  <2>1. f \in Files
    BY <1>1, TypedParts, StoreAssumption DEF Files
  <2>2. QED
    BY <1>1, <1>2, <2>1, TypedParts
<1>4. /\ c \in [Ids -> Files] /\ c[op.id] = f
      /\ \A j \in Ids \ {op.id} : c[j] = disk[d][j]
  BY <1>2, <1>3
<1> HIDE DEF c, d, f
<1>5. Typed' /\ Wrote(d, c, o) /\ \A e \in Directories \ {d} : Kept(e)
  BY <1>1, <1>2, <1>4, WriteEffect DEF Directories
<1>6. Kept("keys") /\ Kept("root") /\ Kept("L") /\ Kept("M")
  BY <1>2, <1>5 DEF Directories
<1>7. images'[d] \subseteq images[d] \cup {c}
  BY <1>5 DEF Wrote, Kept
<1>8. \A n \in images.L \cup images.M : n.active.members[op.id] = "none"
  BY <1>2 DEF Fresh
<1>9. RootInv' /\ \A ns : Named(ns)' <=> Named(ns)
  BY <1>6 DEF StoreInv, RootInv, Kept, Named
<1>10. MembersInv'
  <2>1. CASE d = "Lrecords"
    <3>1. Durable(images.L, images.Lrecords, images.keys) => Durable(images.L, images'.Lrecords, images.keys)
      BY <1>2, <1>3, <1>4, <1>7, <1>8, <2>1, UnlistedDurable
    <3>2. Kept("Mrecords")
      BY <1>5, <2>1 DEF Directories
    <3>3. QED
      BY <1>6, <1>9, <3>1, <3>2 DEF StoreInv, MembersInv, Kept
  <2>2. CASE d = "Mrecords"
    <3>1. Durable(images.M, images.Mrecords, images.keys) => Durable(images.M, images'.Mrecords, images.keys)
      BY <1>2, <1>3, <1>4, <1>7, <1>8, <2>2, UnlistedDurable
    <3>2. Kept("Lrecords")
      BY <1>5, <2>2 DEF Directories
    <3>3. QED
      BY <1>6, <1>9, <3>1, <3>2 DEF StoreInv, MembersInv, Kept
  <2>3. QED
    BY <1>2, <2>1, <2>2
<1>11. OpInv'
  <2>1. CASE ~FlushedStrictly(o)
    BY <2>1 DEF WriteCandidate, Return, OpInv
  <2>2. CASE FlushedStrictly(o)
    <3>1. op' = [op EXCEPT !.step = IF disk.root.managed = "none" THEN "prepare" ELSE "publish"]
      BY <2>2 DEF WriteCandidate
    <3>2. images'[d] = {disk'[d]} /\ disk'[d][op.id] = f
      BY <1>4, <1>5, <2>2 DEF FlushedStrictly, Published, Wrote
    <3>3. Authority(disk') = Authority(disk) /\ Listing(disk') = Listing(disk)
      <4>1. disk' \in Disks
        BY <1>5, DiskTypedNext
      <4>2. Authority(disk) # "unavailable"
        BY <1>1 DEF Insertion
      <4>3. QED
        BY <1>1, <1>6, <4>1, <4>2, DiskFacts, AuthoritySame DEF Kept
    <3>4. /\ op' \in [step : {"prepare", "publish"}, id : Ids, members : Memberships]
          /\ op'.id = op.id /\ op'.members = op.members
          /\ op'.step = IF disk.root.managed = "none" THEN "prepare" ELSE "publish"
      BY <1>1, <3>1 DEF Insertion
    <3>5. Authority(disk) = IF disk.root.managed = "none" THEN "legacy" ELSE "managed"
      <4>1. Authority(disk) \in {"legacy", "managed"}
        BY <1>1 DEF Insertion
      <4>2. QED
        BY <1>1, <4>1, DiskFacts, AuthorityIs
    <3>6. Records(Namespace)' = d /\ f = [key |-> disk'.keys, rev |-> 0]
      BY <1>6 DEF Namespace, Kept, d, f
    <3>7. Insertion'
      BY <1>1, <1>6, <3>2, <3>3, <3>4, <3>5, <3>6 DEF Insertion, Kept
    <3>8. QED
      BY <3>7 DEF OpInv
  <2>3. QED
    BY <2>1, <2>2
<1>12. Set!Settle
  <2>1. CASE d = "Lrecords"
    <3>1. Kept("Mrecords") /\ disk'.Lrecords \in {disk.Lrecords, c}
      BY <1>5, <2>1 DEF Directories, Wrote, Kept
    <3>2. ASSUME NEW n \in images.L, NEW k, NEW root
          PROVE  SetIn(k, root, n, c) = SetIn(k, root, n, disk.Lrecords)
      <4>1. n.active.members[op.id] = "none" /\ \A j \in Ids \ {op.id} : c[j] = disk.Lrecords[j]
        BY <1>4, <1>8, <2>1
      <4>2. QED
        BY <1>2, <4>1, UnlistedUnseen
    <3>3. Visible' = Visible
      <4>1. disk.L \in images.L /\ disk.M \in images.M
        BY <1>1, TypedParts
      <4>2. SetOf(disk.keys, disk.root, disk.L, c, disk.M, disk.Mrecords) = Visible
        BY <3>2, <4>1 DEF Visible, SetOf
      <4>3. QED
        BY <1>6, <3>1, <4>2 DEF Visible, Kept
    <3>4. ASSUME NEW k \in images'.keys, NEW root \in images'.root, NEW l \in images'.L,
                 NEW lr \in images'.Lrecords, NEW m \in images'.M, NEW mr \in images'.Mrecords
          PROVE  SetOf(k, root, l, lr, m, mr) \in Left
      <4>1. /\ k \in images.keys /\ root \in images.root /\ l \in images.L
            /\ m \in images.M /\ mr \in images.Mrecords /\ lr \in images.Lrecords \cup {c}
        BY <1>6, <1>7, <2>1, <3>1 DEF Kept
      <4>2. SetOf(k, root, l, c, m, mr) = SetOf(k, root, l, disk.Lrecords, m, mr)
        BY <3>2, <4>1 DEF SetOf
      <4>3. QED
        BY <1>1, <4>1, <4>2, Outcome, TypedParts DEF ReadFromImages, Left
    <3>5. QED
      BY <1>1, <1>5, <1>6, <3>3, <3>4, SettleStep DEF Kept
  <2>2. CASE d = "Mrecords"
    <3>1. Kept("Lrecords") /\ disk'.Mrecords \in {disk.Mrecords, c}
      BY <1>5, <2>2 DEF Directories, Wrote, Kept
    <3>2. ASSUME NEW n \in images.M, NEW k, NEW root
          PROVE  SetIn(k, root, n, c) = SetIn(k, root, n, disk.Mrecords)
      <4>1. n.active.members[op.id] = "none" /\ \A j \in Ids \ {op.id} : c[j] = disk.Mrecords[j]
        BY <1>4, <1>8, <2>2
      <4>2. QED
        BY <1>2, <4>1, UnlistedUnseen
    <3>3. Visible' = Visible
      <4>1. disk.L \in images.L /\ disk.M \in images.M
        BY <1>1, TypedParts
      <4>2. SetOf(disk.keys, disk.root, disk.L, disk.Lrecords, disk.M, c) = Visible
        BY <3>2, <4>1 DEF Visible, SetOf
      <4>3. QED
        BY <1>6, <3>1, <4>2 DEF Visible, Kept
    <3>4. ASSUME NEW k \in images'.keys, NEW root \in images'.root, NEW l \in images'.L,
                 NEW lr \in images'.Lrecords, NEW m \in images'.M, NEW mr \in images'.Mrecords
          PROVE  SetOf(k, root, l, lr, m, mr) \in Left
      <4>1. /\ k \in images.keys /\ root \in images.root /\ l \in images.L
            /\ m \in images.M /\ lr \in images.Lrecords /\ mr \in images.Mrecords \cup {c}
        BY <1>6, <1>7, <2>2, <3>1 DEF Kept
      <4>2. SetOf(k, root, l, lr, m, c) = SetOf(k, root, l, lr, m, disk.Mrecords)
        BY <3>2, <4>1 DEF SetOf
      <4>3. QED
        BY <1>1, <4>1, <4>2, Outcome, TypedParts DEF ReadFromImages, Left
    <3>5. QED
      BY <1>1, <1>5, <1>6, <3>3, <3>4, SettleStep DEF Kept
  <2>3. QED
    BY <1>2, <2>1, <2>2
<1>13. QED
  BY <1>5, <1>9, <1>10, <1>11, <1>12, SettleRefines DEF StoreInv

\* The legacy layout is read by name alone: as long as no namespace has the
\* managed name, on disk or after power loss, manifests do not count.
LEMMA LegacyFacts ==
    ASSUME StoreInv, disk.root.managed = "none"
    PROVE  /\ \A root \in images.root : root.managed = "none"
           /\ ~Named("L") /\ ~Named("M")
BY DEF StoreInv, RootInv, Named

\* publish_migration up to the rename shows nothing.
LEMMA PrepareMigrationStep ==
    ASSUME StoreInv, NEW o, PrepareMigration(o)
    PROVE  StoreInv' /\ AbstractStep
<1> DEFINE c == [disk.L EXCEPT !.active = Manifest]
<1>1. Insertion /\ op.step = "prepare" /\ Write("L", c, o) /\ Typed
  BY InsertionSteps DEF PrepareMigration, StoreInv
<1>2. Authority(disk) = "legacy" /\ disk.root.managed = "none"
  <2>1. Authority(disk) = "legacy"
    BY <1>1 DEF Insertion
  <2>2. QED
    BY <1>1, <2>1, DiskFacts, AuthorityIs
<1>3. c \in Namespaces /\ c.active = Manifest /\ c.files = disk.L.files
  <2>1. Manifest \in Manifests
    BY <1>1, TypedParts, StoreAssumption DEF Manifest, Manifests, Insertion, Memberships
  <2>2. QED
    BY <1>1, <2>1, TypedParts DEF Namespaces
<1> HIDE DEF c
<1>4. Typed' /\ Wrote("L", c, o) /\ \A e \in Directories \ {"L"} : Kept(e)
  BY <1>1, <1>3, WriteEffect DEF Directories
<1>5. Kept("keys") /\ Kept("root") /\ Kept("Lrecords") /\ Kept("M") /\ Kept("Mrecords")
  BY <1>4 DEF Directories
<1>6. RootInv' /\ MembersInv'
  BY <1>2, <1>5, LegacyFacts DEF StoreInv, RootInv, MembersInv, Named, Kept
<1>7. OpInv'
  <2>1. CASE ~FlushedStrictly(o)
    BY <2>1 DEF PrepareMigration, Return, OpInv
  <2>2. CASE FlushedStrictly(o)
    <3>1. op' = [op EXCEPT !.step = "migrate"]
      BY <2>2 DEF PrepareMigration
    <3>2. images'.L = {disk'.L} /\ disk'.L = c
      BY <1>4, <2>2 DEF FlushedStrictly, Published, Wrote
    <3>3. Authority(disk') = Authority(disk) /\ Listing(disk') = Listing(disk)
      <4>1. disk' \in Disks
        BY <1>4, DiskTypedNext
      <4>2. QED
        BY <1>1, <1>2, <1>3, <1>5, <3>2, <4>1, DiskFacts, AuthoritySame DEF Kept
    <3>4. /\ op' \in [step : {"migrate"}, id : Ids, members : Memberships]
          /\ op'.id = op.id /\ op'.members = op.members /\ op'.step = "migrate"
      BY <1>1, <3>1 DEF Insertion
    <3>5. Records(Namespace) = "Lrecords" /\ Records(Namespace)' = "Lrecords" /\ Manifest' = Manifest
      BY <1>2, <1>5, <3>4 DEF Namespace, Records, Kept, Manifest
    <3>6. Insertion'
      BY <1>1, <1>2, <1>3, <1>5, <3>2, <3>3, <3>4, <3>5 DEF Insertion, Kept
    <3>7. QED
      BY <3>6 DEF OpInv
  <2>3. QED
    BY <2>1, <2>2
<1>8. Set!Settle
  <2>1. \A k, root, lr, m, mr : root.managed = "none" =>
           SetOf(k, root, c, lr, m, mr) = SetOf(k, root, disk.L, lr, m, mr)
    BY <1>3 DEF SetOf, LegacySet
  <2>2. disk'.L \in {disk.L, c} /\ images'.L \subseteq images.L \cup {c}
    BY <1>4 DEF Wrote, Kept
  <2>3. Visible' = Visible
    BY <1>2, <1>5, <2>1, <2>2 DEF Visible, Kept
  <2>4. ASSUME NEW k \in images'.keys, NEW root \in images'.root, NEW l \in images'.L,
               NEW lr \in images'.Lrecords, NEW m \in images'.M, NEW mr \in images'.Mrecords
        PROVE  SetOf(k, root, l, lr, m, mr) \in Left
    <3>1. /\ k \in images.keys /\ root \in images.root /\ lr \in images.Lrecords
          /\ m \in images.M /\ mr \in images.Mrecords /\ l \in images.L \cup {c}
      BY <1>5, <2>2 DEF Kept
    <3>2. SetOf(k, root, c, lr, m, mr) = SetOf(k, root, disk.L, lr, m, mr)
      BY <1>2, <2>1, <3>1, LegacyFacts
    <3>3. QED
      BY <1>1, <3>1, <3>2, Outcome, TypedParts DEF ReadFromImages, Left
  <2>5. QED
    BY <1>1, <1>4, <1>5, <2>3, <2>4, SettleStep DEF Kept
<1>9. QED
  BY <1>4, <1>6, <1>7, <1>8, SettleRefines DEF StoreInv

\* The set an insertion makes of the visible one.
Inserted(i) ==
    [j \in Ids |-> IF j = i THEN 0
                   ELSE IF Account[j] = Account[i] /\ Account[i] # NoAccount THEN -1
                   ELSE Visible[j]]

\* An insertion of the abstract set, by put or by insert_or_replace_discoverable.
LEMMA InsertionRefines ==
    ASSUME Typed, NEW i \in Ids, Visible \in Set!Sets, Visible # Unavailable, Visible[i] = -1,
           Set!Becomes(Inserted(i))
    PROVE  AbstractStep
<1>1. Usable(disk) = Visible
  BY Outcome DEF ReadFromImages
<1>2. CASE Account[i] # NoAccount
  <2>1. Inserted(i) = Set!Replaced(Usable(disk), i)
    BY <1>1, <1>2 DEF Inserted, Set!Replaced, Set!Absent
  <2>2. Set!InsertOrReplace(i)
    BY <1>1, <1>2, <2>1 DEF Set!InsertOrReplace, Set!Absent
  <2>3. QED
    BY <2>2 DEF AbstractStep, Set!Next
<1>3. CASE Account[i] = NoAccount
  <2>1. Inserted(i) = [Usable(disk) EXCEPT ![i] = 0]
    BY <1>1, <1>3, Zenon DEF Inserted, Set!Sets
  <2>2. Set!Insert(i)
    BY <1>1, <1>3, <2>1 DEF Set!Insert, Set!Absent
  <2>3. QED
    BY <2>2 DEF AbstractStep, Set!Next
<1>4. QED
  BY <1>2, <1>3

\* The rename of credentials/ makes the prepared manifest count: the set becomes
\* the one with the new credential, in one step.
LEMMA PublishMigrationStep ==
    ASSUME StoreInv, NEW o, PublishMigration(o)
    PROVE  StoreInv' /\ AbstractStep
<1> DEFINE c == [disk.root EXCEPT !.credentials = FALSE, !.managed = "L"]
<1>1. Insertion /\ op.step = "migrate" /\ Write("root", c, o) /\ Typed
  BY InsertionSteps DEF PublishMigration, StoreInv
<1>2. Authority(disk) = "legacy" /\ disk.root.managed = "none" /\ disk.root.credentials
  <2>1. Authority(disk) = "legacy"
    BY <1>1 DEF Insertion
  <2>2. QED
    BY <1>1, <2>1, DiskFacts, AuthorityIs
<1>3. c \in Roots /\ c.managed = "L" /\ c.format = disk.keys
  <2>1. disk.root \in Roots /\ disk.root.format = disk.keys
    BY <1>1, TypedParts DEF Insertion
  <2>2. QED
    BY <2>1, Zenon DEF Roots
<1> HIDE DEF c
<1>4. Typed' /\ Wrote("root", c, o) /\ \A e \in Directories \ {"root"} : Kept(e)
  BY <1>1, <1>3, WriteEffect DEF Directories
<1>5. Kept("keys") /\ Kept("L") /\ Kept("Lrecords") /\ Kept("M") /\ Kept("Mrecords")
  BY <1>4 DEF Directories
<1>6. /\ images.L = {disk.L} /\ images.Lrecords = {disk.Lrecords}
      /\ disk.Lrecords[op.id] = [key |-> disk.keys, rev |-> 0]
      /\ disk.L.active.key = disk.keys /\ disk.L.active.members = op.members
  BY <1>1, <1>2, RecordsDirectory DEF Insertion, Manifest
<1>7. op.id \in Ids /\ \A j \in Ids :
         /\ op.members[j] = "Legacy" => disk.L.files[j].key = disk.keys
         /\ op.members[j] = "Managed" => j = op.id
         /\ j # op.id => op.members[j] = IF Account[j] = Account[op.id] /\ Account[op.id] # NoAccount
                                         THEN "none"
                                         ELSE IF disk.L.files[j] # NoFile THEN "Legacy" ELSE "none"
         /\ op.members[op.id] = "Managed" /\ disk.L.files[op.id] = NoFile
  <2>1. \A j \in Ids : Listing(disk)[j] = IF disk.L.files[j] # NoFile THEN "Legacy" ELSE "none"
    BY <1>1, <1>2, DiskFacts, ListingIs
  <2>2. QED
    BY <1>1, <1>2, <2>1 DEF Insertion
<1>8. CASE ~Published(o)
  <2>1. UNCHANGED <<disk, images>> /\ op' = Idle
    BY <1>1, <1>8 DEF PublishMigration, Write, Published, FlushedStrictly, Return
  <2>2. QED
    BY <2>1, EndKeeps, StutterRefines
<1>9. CASE Published(o)
  <2>1. disk'.root = c /\ images'.root \subseteq images.root \cup {c}
    BY <1>4, <1>9 DEF Wrote
  <2>2. RootInv'
    BY <1>2, <1>3, <2>1, LegacyFacts DEF RootInv
  <2>3. MembersInv'
    <3>1. ~Named("M")'
      BY <1>2, <1>3, <2>1, LegacyFacts DEF Named
    <3>2. Durable(images'.L, images'.Lrecords, images'.keys)
      BY <1>5, <1>6, <1>7 DEF Durable, Kept
    <3>3. QED
      BY <3>1, <3>2 DEF MembersInv
  <2>4. OpInv'
    <3>1. CASE ~FlushedStrictly(o)
      BY <3>1 DEF PublishMigration, Return, OpInv
    <3>2. CASE FlushedStrictly(o)
      <4>1. op' = [op EXCEPT !.step = "cleanup"] /\ images'.root = {c}
        BY <1>4, <1>9, <3>2 DEF PublishMigration, Wrote
      <4>2. /\ op' \in [step : {"cleanup", "cleanup_records"}, id : Ids, members : Memberships]
            /\ op'.members = op.members
        BY <1>1, <4>1 DEF Insertion
      <4>3. disk.L.active = Manifest
        BY <1>1 DEF Insertion
      <4>4. \A n \in images'[disk'.root.managed] : n.active = Manifest'
        <5>1. disk'.root.managed = "L" /\ images'.L = {disk.L}
          BY <1>3, <1>5, <1>6, <2>1 DEF Kept
        <5>2. Manifest' = Manifest
          BY <1>5, <4>2 DEF Kept, Manifest
        <5>3. QED
          BY <4>3, <5>1, <5>2
      <4>5. CleaningUp'
        BY <1>3, <1>5, <2>1, <4>1, <4>2, <4>4 DEF CleaningUp, Kept
      <4>6. QED
        BY <4>5 DEF OpInv
    <3>3. QED
      BY <3>1, <3>2
  <2>5. Visible = LegacySet(disk.L, disk.keys)
    BY <1>2 DEF Visible, SetOf
  <2>6. ManagedSet(disk.L, disk.Lrecords, disk.keys) = Inserted(op.id)
    <3>1. ASSUME NEW j \in Ids
          PROVE  MemberRev(disk.L, disk.Lrecords, disk.keys, j) =
                    IF j = op.id THEN 0
                    ELSE IF Account[j] = Account[op.id] /\ Account[op.id] # NoAccount THEN -1
                    ELSE Visible[j]
      <4>1. CASE j = op.id
        BY <1>6, <1>7, <4>1 DEF MemberRev, RevUnder
      <4>2. CASE j # op.id /\ Account[j] = Account[op.id] /\ Account[op.id] # NoAccount
        BY <1>6, <1>7, <4>2 DEF MemberRev
      <4>3. CASE j # op.id /\ ~(Account[j] = Account[op.id] /\ Account[op.id] # NoAccount)
        <5>1. Visible[j] = RevUnder(disk.L.files[j], disk.keys)
          BY <2>5 DEF LegacySet
        <5>2. disk.keys # 0
          BY <1>1, DiskFacts
        <5>3. QED
          BY <1>6, <1>7, <4>3, <5>1, <5>2 DEF MemberRev, RevUnder, NoFile
      <4>4. QED
        BY <4>1, <4>2, <4>3
    <3>2. QED
      BY <3>1 DEF ManagedSet, Inserted
  <2>7. \A m, mr : SetOf(disk.keys, c, disk.L, disk.Lrecords, m, mr) = Inserted(op.id)
    BY <1>3, <1>6, <2>6 DEF SetOf, SetIn
  <2>8. Visible' = Inserted(op.id)
    BY <1>5, <2>1, <2>7 DEF Visible, Kept
  <2>9. ASSUME NEW k \in images'.keys, NEW root \in images'.root, NEW l \in images'.L,
               NEW lr \in images'.Lrecords, NEW m \in images'.M, NEW mr \in images'.Mrecords
        PROVE  SetOf(k, root, l, lr, m, mr) \in Left \cup {Inserted(op.id)} \cup Lost
    <3>1. /\ k \in images.keys /\ l = disk.L /\ lr = disk.Lrecords
          /\ m \in images.M /\ mr \in images.Mrecords /\ root \in images.root \cup {c}
      BY <1>5, <1>6, <2>1 DEF Kept
    <3>2. CASE root \in images.root
      BY <1>1, <3>1, <3>2, Outcome, TypedParts DEF ReadFromImages, Left
    <3>3. CASE root = c /\ k = disk.keys
      BY <2>7, <3>1, <3>3
    <3>4. CASE root = c /\ k # disk.keys
      <4>1. SetOf(k, root, l, lr, m, mr) = Unavailable
        BY <1>3, <3>4 DEF SetOf, SetIn
      <4>2. Unavailable \in Lost
        BY <3>1, <3>4 DEF Lost
      <4>3. QED
        BY <4>1, <4>2
    <3>5. QED
      BY <3>1, <3>2, <3>3, <3>4
  <2>10. Set!Becomes(Inserted(op.id))
    <3> DEFINE new == Inserted(op.id)
    <3>1. \A k \in images'.keys, root \in images'.root, l \in images'.L, lr \in images'.Lrecords,
             m \in images'.M, mr \in images'.Mrecords :
             Set!OneOf(SetOf(k, root, l, lr, m, mr), Left \cup {new} \cup Lost)
      BY <2>9, Accounted
    <3>2. Visible' = new /\ images'.keys = images.keys /\ disk'.keys = disk.keys
      BY <1>5, <2>8 DEF Kept
    <3> HIDE DEF new
    <3>3. Set!Becomes(new)
      BY <1>1, <1>4, <3>1, <3>2, BecomesStep
    <3>4. QED
      BY <3>3 DEF new
  <2>11. Visible \in Set!Sets /\ Visible # Unavailable /\ Visible[op.id] = -1
    <3>1. disk.L \in Namespaces /\ disk.Lrecords \in [Ids -> Files] /\ disk.keys # 0
      BY <1>1, TypedParts, DiskFacts
    <3>2. Visible \in Set!Sets /\ Visible # Unavailable
      BY <2>5, <3>1, SetTyped
    <3>3. Visible[op.id] = -1
      BY <1>7, <2>5, <3>1 DEF LegacySet, RevUnder, NoFile
    <3>4. QED
      BY <3>2, <3>3
  <2>12. AbstractStep
    BY <1>1, <1>7, <2>10, <2>11, InsertionRefines
  <2>13. QED
    BY <1>4, <2>2, <2>3, <2>4, <2>12 DEF StoreInv
<1>10. QED
  BY <1>8, <1>9

-----------------------------------------------------------------------------
(* publish_manifest *)

\* A manifest whose members are durable joins durable ones.
LEMMA PublishDurable ==
    ASSUME NEW N, NEW N2, NEW R, NEW keys, NEW n \in N, NEW c,
           N2 \subseteq N \cup {c}, c.files = n.files,
           \A j \in Ids :
              /\ c.active.members[j] = "Legacy" => \A m \in N : m.files[j].key = c.active.key
              /\ c.active.members[j] = "Managed" => \A r \in R : r[j].key = c.active.key,
           Durable(N, R, keys)
    PROVE  Durable(N2, R, keys)
BY DEF Durable

\* The members of c open under k, and those in records that n does not list are
\* the same in r and r0.
SameMembers(n, c, r, r0, k) ==
    \A j \in Ids :
        /\ c.active.members[j] = "Legacy" => c.files[j].key = k
        /\ c.active.members[j] = "Managed" =>
              /\ r[j].key = k /\ r0[j].key = k
              /\ n.active.members[j] = "Managed" \/ r[j] = r0[j]

\* Under a new manifest c, whatever the records directory is, the set is the new
\* one with each record at a revision that it has there or had before.
LEMMA PublishMixes ==
    ASSUME NEW n \in Namespaces, NEW c \in Namespaces, NEW r \in [Ids -> Files],
           NEW r0 \in [Ids -> Files], NEW k, NEW sets,
           ManagedSet(c, r0, k) \in sets, ManagedSet(n, r, k) \in sets,
           SameMembers(n, c, r, r0, k)
    PROVE  Set!OneOf(ManagedSet(c, r, k), sets)
<1> DEFINE u == ManagedSet(c, r, k)
           m == ManagedSet(c, r0, k)
           o == ManagedSet(n, r, k)
<1>1. u \in Set!Sets /\ m # Unavailable /\ o # Unavailable
  BY SetTyped, Zenon
<1>2. \A j \in Ids : r[j].rev # -1 /\ r0[j].rev # -1 /\ c.files[j].rev # -1
  BY StoreAssumption DEF Namespaces, Files
<1>3. ASSUME NEW j \in Ids
      PROVE  /\ (u[j] = -1) <=> (m[j] = -1)
             /\ u[j] # -1 => u[j] = m[j] \/ u[j] = o[j]
  <2>1. u[j] = MemberRev(c, r, k, j) /\ m[j] = MemberRev(c, r0, k, j) /\ o[j] = MemberRev(n, r, k, j)
    BY DEF ManagedSet
  <2>2. CASE c.active.members[j] = "Managed"
    BY <1>2, <2>1, <2>2 DEF MemberRev, RevUnder, SameMembers
  <2>3. CASE c.active.members[j] # "Managed"
    BY <2>1, <2>3 DEF MemberRev
  <2>4. QED
    BY <2>2, <2>3
<1> HIDE DEF u, m, o
<1>4. m \in sets /\ o \in sets
  BY DEF m, o
<1>5. QED
  BY <1>1, <1>3, <1>4, AccountedMixed DEF u

\* The effect of publish_manifest and finish_commit, in namespace ns.
LEMMA ManifestWritten ==
    ASSUME StoreInv, NEW o, NEW ro, PublishManifest(o, ro),
           NEW ns \in {"L", "M"}, disk.root.managed = ns, op.members \in Memberships,
           NEW c, c = [disk[ns] EXCEPT !.active = Manifest]
    PROVE  /\ c \in Namespaces /\ c.files = disk[ns].files /\ c.active = Manifest
           /\ Typed' /\ RootInv'
           /\ \A e \in Directories \ {ns, "root"} : Kept(e)
           /\ disk'.root = disk.root /\ images'.root \subseteq images.root
           /\ ~Published(o) => UNCHANGED <<disk, images>>
           /\ Published(o) => disk'[ns] = c /\ images'[ns] \subseteq images[ns] \cup {c}
           /\ \/ op' = Idle
              \/ /\ op' = [op EXCEPT !.step = "cleanup"]
                 /\ Published(o) /\ images'[ns] = {c} /\ images'.root = {disk.root}
<1>1. Typed /\ Namespace = ns /\ ns \in Directories
  BY DEF StoreInv, Namespace, Directories
<1>2. Manifest \in Manifests /\ disk[ns] \in Namespaces
  BY <1>1, TypedParts, StoreAssumption DEF Manifest, Manifests, Memberships
<1>3. c \in Namespaces /\ c.files = disk[ns].files /\ c.active = Manifest
  BY <1>2 DEF Namespaces
<1>4. CASE FlushedStrictly(o) /\ FlushedStrictly(ro)
  <2>1. /\ disk' = [disk EXCEPT ![ns] = c]
        /\ images' = [images EXCEPT ![ns] = {c}, !.root = {disk.root}]
        /\ op' = [op EXCEPT !.step = "cleanup"]
        /\ Published(o)
    BY <1>1, <1>4 DEF PublishManifest, Confirmed, FlushedStrictly, Published
  <2>2. /\ disk \in Disks /\ images \in ImageSets
        /\ disk.root \in images.root /\ disk.root \in Roots
    BY <1>1, TypedParts DEF Typed
  <2>3. /\ disk'[ns] = c /\ images'[ns] = {c} /\ disk'.root = disk.root /\ images'.root = {disk.root}
        /\ \A e \in Directories \ {ns, "root"} : Kept(e)
    BY <2>1, <2>2 DEF Kept, Disks, ImageSets, Directories
  <2>4. Typed'
    <3>1. images' \in ImageSets
      BY <1>3, <2>1, <2>2 DEF ImageSets
    <3>2. disk' \in Snapshots'
      <4>1. CASE ns = "L"
        BY <1>1, <2>1, <2>2, <4>1, TypedParts DEF Disks, ImageSets, Snapshots
      <4>2. CASE ns = "M"
        BY <1>1, <2>1, <2>2, <4>2, TypedParts DEF Disks, ImageSets, Snapshots
      <4>3. QED
        BY <4>1, <4>2
    <3>3. QED
      BY <3>1, <3>2 DEF Typed
  <2>5. RootInv'
    BY <2>3 DEF RootInv
  <2>6. QED
    BY <1>3, <2>1, <2>2, <2>3, <2>4, <2>5
<1>5. CASE ~(FlushedStrictly(o) /\ FlushedStrictly(ro))
  <2>1. Write(ns, c, o) /\ op' = Idle
    BY <1>1, <1>5 DEF PublishManifest, Confirmed, Return
  <2>2. Typed' /\ Wrote(ns, c, o) /\ \A e \in Directories \ {ns} : Kept(e)
    BY <1>1, <1>3, <2>1, WriteEffect
  <2>3. Kept("root")
    BY <2>2 DEF Directories
  <2>4. RootInv'
    BY <2>3 DEF StoreInv, RootInv, Kept
  <2>5. ~Published(o) => UNCHANGED <<disk, images>>
    BY <2>1 DEF Write
  <2>6. QED
    BY <1>3, <2>1, <2>2, <2>3, <2>4, <2>5 DEF Wrote, Kept
<1>6. QED
  BY <1>4, <1>5

\* The members of the manifest to be published have durable files in ns, and
\* those in its records are listed there already, or settled.
\* The records the manifest to come will list are durable,
MembersDurable(ns) ==
    \A j \in Ids :
        /\ op.members[j] = "Legacy" => \A m \in images[ns] : m.files[j].key = disk.keys
        /\ op.members[j] = "Managed" => \A r \in images[Records(ns)] : r[j].key = disk.keys

\* and those it moves to the managed records are written nowhere else.
MembersSettled(ns) ==
    \A j \in Ids : op.members[j] = "Managed" =>
        \/ disk[ns].active.members[j] = "Managed"
        \/ images[Records(ns)] = {disk[Records(ns)]}

\* The operations that publish a manifest.
Publishing ==
    op \in [step : {"publish"}, id : Ids, members : Memberships]
           \cup [step : {"publish"}, members : Memberships]

\* Publishing durable members keeps the invariant.
LEMMA ManifestKeeps ==
    ASSUME StoreInv, NEW o, NEW ro, PublishManifest(o, ro),
           NEW ns \in {"L", "M"}, disk.root.managed = ns, disk.root.format = disk.keys,
           Publishing, MembersDurable(ns)
    PROVE  StoreInv'
<1> DEFINE c == [disk[ns] EXCEPT !.active = Manifest]
<1>0. op.members \in Memberships /\ Typed
  BY DEF StoreInv, Publishing
<1> HIDE DEF c
<1>1. /\ c \in Namespaces /\ c.files = disk[ns].files /\ c.active = Manifest
      /\ Typed' /\ RootInv'
      /\ \A e \in Directories \ {ns, "root"} : Kept(e)
      /\ disk'.root = disk.root /\ images'.root \subseteq images.root
      /\ ~Published(o) => UNCHANGED <<disk, images>>
      /\ Published(o) => disk'[ns] = c /\ images'[ns] \subseteq images[ns] \cup {c}
      /\ \/ op' = Idle
         \/ /\ op' = [op EXCEPT !.step = "cleanup"]
            /\ Published(o) /\ images'[ns] = {c} /\ images'.root = {disk.root}
  BY <1>0, ManifestWritten DEF c
<1>2. CASE ~Published(o)
  BY <1>1, <1>2, EndKeeps
<1>3. CASE Published(o)
  <2>1. Kept("keys") /\ Kept(Records(ns)) /\ disk[ns] \in images[ns]
    BY <1>0, <1>1, TypedParts DEF Directories, Records
  <2>2. Named(ns) /\ \A x : Named(x)' => Named(x)
    BY <1>0, <1>1, TypedParts DEF Named
  <2>3. Durable(images[ns], images[Records(ns)], images.keys)
    BY <2>2 DEF StoreInv, MembersInv, Records
  <2>4. c.active.key = disk.keys /\ c.active.members = op.members
    BY <1>1 DEF Manifest
  <2>5. Durable(images'[ns], images[Records(ns)], images.keys)
    BY <1>1, <1>3, <2>1, <2>3, <2>4, PublishDurable DEF MembersDurable
  <2>6. MembersInv'
    <3>1. CASE ns = "L"
      <4>1. Kept("M") /\ Kept("Mrecords")
        BY <1>1, <3>1 DEF Directories
      <4>2. QED
        BY <2>1, <2>2, <2>5, <3>1, <4>1 DEF StoreInv, MembersInv, Kept, Records
    <3>2. CASE ns = "M"
      <4>1. Kept("L") /\ Kept("Lrecords")
        BY <1>1, <3>2 DEF Directories
      <4>2. QED
        BY <2>1, <2>2, <2>5, <3>2, <4>1 DEF StoreInv, MembersInv, Kept, Records
    <3>3. QED
      BY <3>1, <3>2
  <2>7. OpInv'
    <3>1. CASE op' = Idle
      BY <3>1 DEF OpInv
    <3>2. CASE op' = [op EXCEPT !.step = "cleanup"] /\ images'[ns] = {c} /\ images'.root = {disk.root}
      <4>1. /\ op' \in [step : {"cleanup", "cleanup_records"}, id : Ids, members : Memberships]
                       \cup [step : {"cleanup", "cleanup_records"}, members : Memberships]
            /\ op'.members = op.members
        <5>1. CASE op \in [step : {"publish"}, id : Ids, members : Memberships]
          BY <3>2, <5>1
        <5>2. CASE op \in [step : {"publish"}, members : Memberships]
          BY <3>2, <5>2
        <5>3. QED
          BY <5>1, <5>2 DEF Publishing
      <4>2. Manifest' = Manifest
        BY <2>1, <4>1 DEF Manifest, Kept
      <4>3. CleaningUp'
        BY <1>1, <2>1, <3>2, <4>1, <4>2 DEF CleaningUp, Kept
      <4>4. QED
        BY <4>3 DEF OpInv
    <3>3. QED
      BY <1>1, <3>1, <3>2
  <2>8. QED
    BY <1>1, <2>6, <2>7 DEF StoreInv
<1>4. QED
  BY <1>2, <1>3

\* The set the visible one becomes by a manifest, and those power loss may leave,
\* if the manifest only replaces one that opens under the same key.
LEMMA ManifestBecomes ==
    ASSUME StoreInv, NEW o, NEW ro, PublishManifest(o, ro), Published(o),
           NEW ns \in {"L", "M"}, Authority(disk) = "managed", disk.root.managed = ns,
           op.members \in Memberships, MembersDurable(ns), MembersSettled(ns),
           NEW c, c = [disk[ns] EXCEPT !.active = Manifest]
    PROVE  Set!Becomes(ManagedSet(c, disk[Records(ns)], disk.keys))
<1> DEFINE rec == Records(ns)
           new == ManagedSet(c, disk[rec], disk.keys)
           sets == Left \cup {new} \cup Lost
<1>1. /\ c \in Namespaces /\ c.files = disk[ns].files /\ c.active = Manifest
      /\ Typed' /\ \A e \in Directories \ {ns, "root"} : Kept(e)
      /\ disk'.root = disk.root /\ images'.root \subseteq images.root
      /\ disk'[ns] = c /\ images'[ns] \subseteq images[ns] \cup {c}
  BY ManifestWritten
<1>2. /\ Typed /\ rec \in {"Lrecords", "Mrecords"} /\ Kept("keys") /\ Kept(rec)
      /\ disk[ns] \in images[ns] /\ disk[ns] \in Namespaces
      /\ disk[rec] \in [Ids -> Files] /\ images[rec] \subseteq [Ids -> Files] /\ disk[rec] \in images[rec]
  <2>1. Typed
    BY DEF StoreInv
  <2>2. QED
    BY <1>1, <2>1, TypedParts DEF Directories, Records
<1>3. /\ c.active.key = disk.keys /\ c.active.members = op.members
      /\ disk[ns].active.key = disk.keys /\ disk.root.format = disk.keys
  BY <1>1, <1>2, DiskFacts, AuthorityIs DEF Manifest
<1> HIDE DEF rec, new, sets
<1>4. ASSUME NEW k \in images.keys, NEW root \in images.root, NEW r \in images[rec], root.managed = ns,
             SetIn(k, root, disk[ns], r) \in Left
      PROVE  Set!OneOf(SetIn(k, root, c, r), sets)
  <2>1. CASE ~(root.format = k /\ k = disk.keys)
    <3>1. SetIn(k, root, c, r) = SetIn(k, root, disk[ns], r)
      BY <1>3, <2>1 DEF SetIn
    <3>2. QED
      BY <1>4, <3>1, Accounted DEF sets
  <2>2. CASE root.format = k /\ k = disk.keys
    <3>1. SetIn(k, root, c, r) = ManagedSet(c, r, k) /\ SetIn(k, root, disk[ns], r) = ManagedSet(disk[ns], r, k)
      BY <1>3, <2>2 DEF SetIn
    <3>2. ManagedSet(disk[ns], r, k) \in sets /\ ManagedSet(c, disk[rec], k) \in sets
      BY <1>4, <2>2, <3>1 DEF sets, new
    <3>3. SameMembers(disk[ns], c, r, disk[rec], k)
      BY <1>1, <1>2, <1>3, <1>4, <2>2 DEF rec, SameMembers, MembersDurable, MembersSettled
    <3> DEFINE n0 == disk[ns]
               r0 == disk[rec]
    <3>4. /\ n0 \in Namespaces /\ r \in [Ids -> Files] /\ r0 \in [Ids -> Files]
          /\ ManagedSet(n0, r, k) \in sets /\ ManagedSet(c, r0, k) \in sets
          /\ SameMembers(n0, c, r, r0, k)
      BY <1>2, <1>4, <3>2, <3>3
    <3> HIDE DEF n0, r0
    <3>5. Set!OneOf(ManagedSet(c, r, k), sets)
      BY <1>1, <3>4, PublishMixes
    <3>6. QED
      BY <3>1, <3>5
  <2>3. QED
    BY <2>1, <2>2
<1>5. ASSUME NEW k \in images'.keys, NEW root \in images'.root, NEW l \in images'.L,
             NEW lr \in images'.Lrecords, NEW m \in images'.M, NEW mr \in images'.Mrecords
      PROVE  Set!OneOf(SetOf(k, root, l, lr, m, mr), sets)
  <2>0. k \in images.keys /\ root \in images.root /\ root.managed \in {"none", ns}
    BY <1>1, <1>2 DEF Kept, StoreInv, RootInv
  <2>1. CASE ns = "L"
    <3>1. /\ lr \in images.Lrecords /\ m \in images.M /\ mr \in images.Mrecords
          /\ l \in images.L \cup {c} /\ rec = "Lrecords"
      BY <1>1, <2>1 DEF Kept, Directories, rec, Records
    <3>2. \A x \in images.L : SetOf(k, root, x, lr, m, mr) \in Left
      BY <1>2, <2>0, <3>1, Outcome DEF ReadFromImages, Left
    <3>3. CASE l \in images.L
      BY <3>2, <3>3, Accounted DEF sets
    <3>4. CASE l = c /\ root.managed = "none"
      <4>1. SetOf(k, root, l, lr, m, mr) = SetOf(k, root, disk.L, lr, m, mr)
        BY <1>1, <2>1, <3>4 DEF SetOf, LegacySet
      <4>2. QED
        BY <1>2, <2>1, <3>2, <4>1, Accounted DEF sets
    <3>5. CASE l = c /\ root.managed = "L"
      <4>1. SetOf(k, root, l, lr, m, mr) = SetIn(k, root, c, lr)
            /\ SetOf(k, root, disk.L, lr, m, mr) = SetIn(k, root, disk.L, lr)
        BY <3>5 DEF SetOf
      <4>2. SetIn(k, root, disk.L, lr) \in Left
        BY <1>2, <2>1, <3>2, <4>1
      <4>3. QED
        BY <1>4, <2>0, <2>1, <3>1, <3>5, <4>1, <4>2
    <3>6. QED
      BY <2>0, <2>1, <3>1, <3>3, <3>4, <3>5
  <2>2. CASE ns = "M"
    <3>1. /\ lr \in images.Lrecords /\ l \in images.L /\ mr \in images.Mrecords
          /\ m \in images.M \cup {c} /\ rec = "Mrecords"
      BY <1>1, <2>2 DEF Kept, Directories, rec, Records
    <3>2. \A x \in images.M : SetOf(k, root, l, lr, x, mr) \in Left
      BY <1>2, <2>0, <3>1, Outcome DEF ReadFromImages, Left
    <3>3. CASE m \in images.M
      BY <3>2, <3>3, Accounted DEF sets
    <3>4. CASE m = c /\ root.managed = "none"
      <4>1. SetOf(k, root, l, lr, m, mr) = SetOf(k, root, l, lr, disk.M, mr)
        BY <3>4 DEF SetOf
      <4>2. QED
        BY <1>2, <2>2, <3>2, <4>1, Accounted DEF sets
    <3>5. CASE m = c /\ root.managed = "M"
      <4>1. SetOf(k, root, l, lr, m, mr) = SetIn(k, root, c, mr)
            /\ SetOf(k, root, l, lr, disk.M, mr) = SetIn(k, root, disk.M, mr)
        BY <3>5 DEF SetOf
      <4>2. SetIn(k, root, disk.M, mr) \in Left
        BY <1>2, <2>2, <3>2, <4>1
      <4>3. QED
        BY <1>4, <2>0, <2>2, <3>1, <3>5, <4>1, <4>2
    <3>6. QED
      BY <2>0, <2>2, <3>1, <3>3, <3>4, <3>5
  <2>3. QED
    BY <2>1, <2>2
<1>6. Visible' = new
  <2>1. CASE ns = "L"
    BY <1>1, <1>2, <1>3, <2>1, Zenon DEF Visible, SetOf, SetIn, Kept, rec, Records, new
  <2>2. CASE ns = "M"
    BY <1>1, <1>2, <1>3, <2>2, Zenon DEF Visible, SetOf, SetIn, Kept, rec, Records, new
  <2>3. QED
    BY <2>1, <2>2
<1>7. images'.keys = images.keys /\ disk'.keys = disk.keys
  BY <1>2 DEF Kept
<1>8. Set!Becomes(new)
  BY <1>1, <1>2, <1>5, <1>6, <1>7, BecomesStep DEF sets
<1>9. QED
  BY <1>8 DEF new, rec

\* A managed store: its members are durable, and the visible set is what the
\* manifest lists.
LEMMA ManagedMembers ==
    ASSUME StoreInv, Authority(disk) = "managed", NEW ns \in {"L", "M"}, disk.root.managed = ns
    PROVE  /\ disk.root.format = disk.keys /\ disk[ns].active.key = disk.keys
           /\ Listing(disk) = disk[ns].active.members /\ Listing(disk) \in Memberships
           /\ disk[ns] \in Namespaces /\ disk[Records(ns)] \in [Ids -> Files]
           /\ disk[ns] \in images[ns] /\ disk[Records(ns)] \in images[Records(ns)]
           /\ Visible = ManagedSet(disk[ns], disk[Records(ns)], disk.keys)
           /\ Visible \in Set!Sets /\ Visible # Unavailable
           /\ \A j \in Ids :
                 /\ Listing(disk)[j] = "Legacy" => \A m \in images[ns] : m.files[j].key = disk.keys
                 /\ Listing(disk)[j] = "Managed" => \A r \in images[Records(ns)] : r[j].key = disk.keys
                 /\ Visible[j] = -1 <=> Listing(disk)[j] = "none"
<1>1. /\ Typed /\ disk \in Disks /\ disk.keys # 0 /\ disk.keys \in images.keys /\ disk.root \in images.root
  BY DiskFacts, TypedParts DEF StoreInv
<1>2. /\ disk.root.format = disk.keys /\ disk[ns].active.key = disk.keys
      /\ Listing(disk) = disk[ns].active.members /\ Listing(disk) \in Memberships
  BY <1>1, AuthorityIs, ListingIs
<1>3. /\ disk[ns] \in Namespaces /\ disk[Records(ns)] \in [Ids -> Files]
      /\ disk[ns] \in images[ns] /\ disk[Records(ns)] \in images[Records(ns)]
  BY <1>1, TypedParts DEF Records
<1>4. Durable(images[ns], images[Records(ns)], images.keys)
  BY <1>1 DEF StoreInv, MembersInv, Named, Records
<1>5. \A j \in Ids :
         /\ Listing(disk)[j] = "Legacy" => \A m \in images[ns] : m.files[j].key = disk.keys
         /\ Listing(disk)[j] = "Managed" => \A r \in images[Records(ns)] : r[j].key = disk.keys
  BY <1>1, <1>2, <1>3, <1>4 DEF Durable
<1>6. Visible = ManagedSet(disk[ns], disk[Records(ns)], disk.keys)
  <2>1. CASE ns = "L"
    BY <1>2, <2>1 DEF Visible, SetOf, SetIn, Records
  <2>2. CASE ns = "M"
    BY <1>2, <2>2 DEF Visible, SetOf, SetIn, Records
  <2>3. QED
    BY <2>1, <2>2
<1>7. Visible \in Set!Sets /\ Visible # Unavailable
  <2> DEFINE n0 == disk[ns]
             r0 == disk[Records(ns)]
             k0 == disk.keys
  <2>1. n0 \in Namespaces /\ r0 \in [Ids -> Files] /\ Visible = ManagedSet(n0, r0, k0)
    BY <1>3, <1>6
  <2> HIDE DEF n0, r0, k0
  <2>2. QED
    BY <2>1, SetTyped, Zenon
<1>8. ASSUME NEW j \in Ids PROVE Visible[j] = -1 <=> Listing(disk)[j] = "none"
  <2>1. Visible[j] = MemberRev(disk[ns], disk[Records(ns)], disk.keys, j)
    BY <1>6 DEF ManagedSet
  <2>2. Listing(disk)[j] \in {"Legacy", "Managed", "none"}
    BY <1>2 DEF Memberships, Locations
  <2>3. disk[ns].files[j] \in Files /\ disk[Records(ns)][j] \in Files
    BY <1>3 DEF Namespaces
  <2>4. \A f \in Files : f.rev # -1
    BY StoreAssumption DEF Files
  <2>5. CASE Listing(disk)[j] = "Legacy"
    BY <1>2, <1>3, <1>5, <2>1, <2>3, <2>4, <2>5 DEF MemberRev, RevUnder
  <2>6. CASE Listing(disk)[j] = "Managed"
    BY <1>2, <1>3, <1>5, <2>1, <2>3, <2>4, <2>6 DEF MemberRev, RevUnder
  <2>7. CASE Listing(disk)[j] = "none"
    BY <1>2, <2>1, <2>7 DEF MemberRev
  <2>8. QED
    BY <2>2, <2>5, <2>6, <2>7
<1>9. QED
  BY <1>2, <1>3, <1>5, <1>6, <1>7, <1>8

\* The manifest of an insertion.
LEMMA PublishInsertionStep ==
    ASSUME StoreInv, NEW o, NEW ro, PublishManifest(o, ro), Insertion
    PROVE  StoreInv' /\ AbstractStep
<1> DEFINE ns == disk.root.managed
           rec == Records(ns)
           c == [disk[ns] EXCEPT !.active = Manifest]
           i == op.id
<1>1. Typed /\ op.step = "publish" /\ Authority(disk) = "managed"
  BY DEF StoreInv, PublishManifest, Insertion
<1>2. /\ ns \in {"L", "M"} /\ Namespace = ns
      /\ op \in [step : {"publish"}, id : Ids, members : Memberships]
  BY <1>1, DiskFacts, AuthorityIs DEF Insertion, Namespace
<1>3. /\ images[rec] = {disk[rec]} /\ disk[rec][i] = [key |-> disk.keys, rev |-> 0]
      /\ i \in Ids /\ op.members \in Memberships /\ op.members[i] = "Managed" /\ Listing(disk)[i] = "none"
      /\ \A j \in Ids \ {i} :
            op.members[j] = IF Account[j] = Account[i] /\ Account[i] # NoAccount
                            THEN "none" ELSE Listing(disk)[j]
  BY <1>1, <1>2 DEF Insertion
<1>4. /\ disk.root.format = disk.keys
      /\ Listing(disk) = disk[ns].active.members /\ Listing(disk) \in Memberships
      /\ disk[ns] \in Namespaces /\ disk[ns] \in images[ns]
      /\ Visible = ManagedSet(disk[ns], disk[rec], disk.keys)
      /\ Visible \in Set!Sets /\ Visible # Unavailable
      /\ \A j \in Ids :
            /\ Listing(disk)[j] = "Legacy" => \A m \in images[ns] : m.files[j].key = disk.keys
            /\ Listing(disk)[j] = "Managed" => \A r \in images[rec] : r[j].key = disk.keys
            /\ Visible[j] = -1 <=> Listing(disk)[j] = "none"
  BY <1>1, <1>2, ManagedMembers
<1>5. MembersDurable(ns) /\ MembersSettled(ns)
  <2> HIDE DEF ns, rec, c, i
  <2>1. images[Records(ns)] = {disk[Records(ns)]}
    BY <1>3, Zenon DEF rec
  <2>2. MembersSettled(ns)
    BY <2>1, Zenon DEF MembersSettled
  <2>3. ASSUME NEW j \in Ids, op.members[j] = "Legacy"
        PROVE  \A m \in images[ns] : m.files[j].key = disk.keys
    <3>1. Listing(disk)[j] = "Legacy"
      BY <1>3, <2>3
    <3>2. QED
      BY <1>4, <3>1, Zenon
  <2>4. ASSUME NEW j \in Ids, op.members[j] = "Managed"
        PROVE  \A r \in images[Records(ns)] : r[j].key = disk.keys
    <3>1. CASE j = i
      BY <1>3, <2>1, <3>1 DEF rec
    <3>2. CASE j # i
      <4>1. Listing(disk)[j] = "Managed"
        BY <1>3, <2>4, <3>2
      <4>2. QED
        BY <1>4, <4>1, Zenon DEF rec
    <3>3. QED
      BY <3>1, <3>2
  <2>5. QED
    BY <2>2, <2>3, <2>4, Zenon DEF MembersDurable
<1>6. StoreInv'
  <2>1. Publishing
    BY <1>2 DEF Publishing
  <2>2. QED
    BY <1>2, <1>4, <1>5, <2>1, ManifestKeeps, Zenon
<1> HIDE DEF c
<1>7. /\ c.files = disk[ns].files /\ c.active = Manifest
      /\ ~Published(o) => UNCHANGED <<disk, images>>
  <2>1. c = [disk[ns] EXCEPT !.active = Manifest]
    BY DEF c
  <2>2. QED
    BY <1>2, <1>3, <2>1, ManifestWritten
<1>8. CASE ~Published(o)
  BY <1>6, <1>7, <1>8, StutterRefines
<1>9. CASE Published(o)
  <2>1. Set!Becomes(ManagedSet(c, disk[rec], disk.keys))
    <3>1. c = [disk[ns] EXCEPT !.active = Manifest]
      BY DEF c
    <3>2. QED
      BY <1>1, <1>2, <1>3, <1>5, <1>9, <3>1, ManifestBecomes, Zenon
  <2>2. ManagedSet(c, disk[rec], disk.keys) = Inserted(i)
    <3>1. ASSUME NEW j \in Ids
          PROVE  MemberRev(c, disk[rec], disk.keys, j) =
                    IF j = i THEN 0
                    ELSE IF Account[j] = Account[i] /\ Account[i] # NoAccount THEN -1
                    ELSE Visible[j]
      <4>0. c.active.members = op.members
        BY <1>7 DEF Manifest
      <4>1. CASE j = i
        BY <1>3, <4>0, <4>1 DEF MemberRev, RevUnder
      <4>2. CASE j # i /\ Account[j] = Account[i] /\ Account[i] # NoAccount
        BY <1>3, <4>0, <4>2 DEF MemberRev
      <4>3. CASE j # i /\ ~(Account[j] = Account[i] /\ Account[i] # NoAccount)
        <5>1. op.members[j] = disk[ns].active.members[j]
          BY <1>3, <1>4, <4>3, ZenonT(30)
        <5>2. Visible[j] = MemberRev(disk[ns], disk[rec], disk.keys, j)
          BY <1>4, Zenon DEF ManagedSet
        <5>3. QED
          BY <1>7, <4>0, <4>3, <5>1, <5>2 DEF MemberRev
      <4>4. QED
        BY <4>1, <4>2, <4>3
    <3>2. QED
      BY <3>1 DEF ManagedSet, Inserted
  <2>3. AbstractStep
    BY <1>1, <1>3, <1>4, <2>1, <2>2, InsertionRefines, Zenon
  <2>4. QED
    BY <1>6, <2>3
<1>10. QED
  BY <1>8, <1>9

\* A deletion of the abstract set.
LEMMA DeletionRefines ==
    ASSUME Typed, NEW i \in Ids, Visible # Unavailable, Visible[i] # -1,
           Set!Becomes([Visible EXCEPT ![i] = -1])
    PROVE  AbstractStep
<1>1. Usable(disk) = Visible
  BY Outcome DEF ReadFromImages
<1>2. Set!Delete(i)
  BY <1>1 DEF Set!Delete, Set!Absent
<1>3. QED
  BY <1>2 DEF AbstractStep, Set!Next

\* The manifest of a deletion.
LEMMA PublishDeletionStep ==
    ASSUME StoreInv, NEW o, NEW ro, PublishManifest(o, ro), Deletion
    PROVE  StoreInv' /\ AbstractStep
<1> DEFINE ns == disk.root.managed
           rec == Records(ns)
           c == [disk[ns] EXCEPT !.active = Manifest]
           i == op.id
<1>1. Typed /\ op.step = "publish" /\ Authority(disk) = "managed"
  BY DEF StoreInv, PublishManifest, Deletion
<1>2. /\ ns \in {"L", "M"} /\ Namespace = ns
      /\ op \in [step : {"publish"}, id : Ids, members : Memberships]
  BY <1>1, DiskFacts, AuthorityIs DEF Deletion, Namespace
<1>4. /\ disk.root.format = disk.keys
      /\ Listing(disk) = disk[ns].active.members /\ Listing(disk) \in Memberships
      /\ disk[ns] \in Namespaces /\ disk[ns] \in images[ns]
      /\ Visible = ManagedSet(disk[ns], disk[rec], disk.keys)
      /\ Visible \in Set!Sets /\ Visible # Unavailable
      /\ \A j \in Ids :
            /\ Listing(disk)[j] = "Legacy" => \A m \in images[ns] : m.files[j].key = disk.keys
            /\ Listing(disk)[j] = "Managed" => \A r \in images[rec] : r[j].key = disk.keys
            /\ Visible[j] = -1 <=> Listing(disk)[j] = "none"
  BY <1>1, <1>2, ManagedMembers
<1>3. /\ i \in Ids /\ op.members \in Memberships /\ op.members[i] = "none" /\ Listing(disk)[i] # "none"
      /\ \A j \in Ids \ {i} : op.members[j] = Listing(disk)[j]
  BY <1>1, <1>2, <1>4, ZenonT(30) DEF Deletion, Memberships
<1>5. MembersDurable(ns) /\ MembersSettled(ns)
  BY <1>3, <1>4, ZenonT(30) DEF MembersDurable, MembersSettled
<1>6. StoreInv'
  <2>1. Publishing
    BY <1>2 DEF Publishing
  <2>2. QED
    BY <1>2, <1>4, <1>5, <2>1, ManifestKeeps, Zenon
<1> HIDE DEF c
<1>7. /\ c.files = disk[ns].files /\ c.active = Manifest
      /\ ~Published(o) => UNCHANGED <<disk, images>>
  <2>1. c = [disk[ns] EXCEPT !.active = Manifest]
    BY DEF c
  <2>2. QED
    BY <1>2, <1>3, <2>1, ManifestWritten
<1>8. CASE ~Published(o)
  BY <1>6, <1>7, <1>8, StutterRefines
<1>9. CASE Published(o)
  <2>1. Set!Becomes(ManagedSet(c, disk[rec], disk.keys))
    BY <1>1, <1>2, <1>3, <1>4, <1>5, <1>9, ManifestBecomes, ZenonT(30) DEF c
  <2>2. ManagedSet(c, disk[rec], disk.keys) = [Visible EXCEPT ![i] = -1]
    <3>1. ASSUME NEW j \in Ids
          PROVE  MemberRev(c, disk[rec], disk.keys, j) = IF j = i THEN -1 ELSE Visible[j]
      <4>0. c.active.members = op.members
        BY <1>7 DEF Manifest
      <4>1. CASE j = i
        BY <1>3, <4>0, <4>1 DEF MemberRev
      <4>2. CASE j # i
        <5>1. op.members[j] = disk[ns].active.members[j]
          BY <1>3, <1>4, <4>2, ZenonT(30)
        <5>2. Visible[j] = MemberRev(disk[ns], disk[rec], disk.keys, j)
          BY <1>4 DEF ManagedSet
        <5>3. QED
          BY <1>7, <4>0, <4>2, <5>1, <5>2 DEF MemberRev
      <4>3. QED
        BY <4>1, <4>2
    <3>2. QED
      BY <1>4, <3>1 DEF ManagedSet, Set!Sets
  <2>3. AbstractStep
    BY <1>1, <1>3, <1>4, <2>1, <2>2, DeletionRefines, Zenon
  <2>4. QED
    BY <1>6, <2>3
<1>10. QED
  BY <1>8, <1>9

-----------------------------------------------------------------------------
(* clear *)

\* Under key k there is nothing to be read in namespace n.
Traceless(n, k) ==
    /\ n.active.key = k => n.active.members = NoMembers
    /\ \A i \in Ids : n.files[i].key # k

\* What is read from namespaces without a trace of the key is empty, or nothing.
LEMMA TracelessSet ==
    ASSUME NEW k, NEW root, NEW l, NEW lr, NEW m, NEW mr, Traceless(l, k), Traceless(m, k)
    PROVE  SetOf(k, root, l, lr, m, mr) \in {Set!Empty, Unavailable}
<1>1. ASSUME NEW n, Traceless(n, k) PROVE LegacySet(n, k) = Set!Empty
  BY <1>1 DEF Traceless, LegacySet, RevUnder, Set!Empty, Set!Absent
<1>2. ASSUME NEW n, NEW r, Traceless(n, k) PROVE SetIn(k, root, n, r) \in {Set!Empty, Unavailable}
  <2>1. CASE n.active.key # k
    BY <2>1 DEF SetIn
  <2>2. CASE n.active.key = k
    <3>1. \A j \in Ids : MemberRev(n, r, k, j) = -1
      BY <1>2, <2>2 DEF Traceless, NoMembers, MemberRev
    <3>2. ManagedSet(n, r, k) = Set!Empty
      BY <3>1 DEF ManagedSet, Set!Empty, Set!Absent
    <3>3. QED
      BY <3>2 DEF SetIn
  <2>3. QED
    BY <2>1, <2>2
<1>3. QED
  BY <1>1, <1>2 DEF SetOf

\* What power loss may leave after the step it may leave before, or there is no
\* trace of its key.
LeftOrTraceless ==
    \A k \in images'.keys, root \in images'.root, l \in images'.L, lr \in images'.Lrecords,
       m \in images'.M, mr \in images'.Mrecords :
       SetOf(k, root, l, lr, m, mr) \in Left \/ (Traceless(l, k) /\ Traceless(m, k))

\* A step after which the key has no trace is one of a reset.
LEMMA TracelessReset ==
    ASSUME Typed, Typed', LeftOrTraceless,
           Traceless(disk'.L, disk'.keys), Traceless(disk'.M, disk'.keys)
    PROVE  AbstractStep
<1>1. Visible' \in {Set!Empty, Unavailable}
  <2>1. SetOf(disk'.keys, disk'.root, disk'.L, disk'.Lrecords, disk'.M, disk'.Mrecords)
          \in {Set!Empty, Unavailable}
    BY TracelessSet
  <2>2. QED
    BY <2>1 DEF Visible
<1>2. \A k \in images'.keys, root \in images'.root, l \in images'.L, lr \in images'.Lrecords,
         m \in images'.M, mr \in images'.Mrecords :
         SetOf(k, root, l, lr, m, mr) \in Left \cup {Set!Empty, Unavailable}
  BY TracelessSet DEF LeftOrTraceless
<1>3. Set!Reset
  BY <1>1, <1>2, ResetStep
<1>4. QED
  BY <1>3, ResetRefines

\* The same, if no directory that power loss may leave has a trace of any key it may leave.
LEMMA AllTraceless ==
    ASSUME Typed, Typed',
           \A k \in images'.keys, n \in images'.L \cup images'.M : Traceless(n, k)
    PROVE  AbstractStep
<1>1. disk'.keys \in images'.keys /\ disk'.L \in images'.L /\ disk'.M \in images'.M
  BY DEF Typed, Snapshots
<1>2. LeftOrTraceless
  BY DEF LeftOrTraceless
<1>3. QED
  BY <1>1, <1>2, TracelessReset

\* A key without a trace opens no manifest.
LEMMA NoTraceMembers == images.keys = {disk.keys} /\ NoTrace(disk.keys) => MembersInv
BY DEF NoTrace, MembersInv, Durable

\* The same in the next state.
LEMMA NoTraceMembersNext == (images.keys = {disk.keys} /\ NoTrace(disk.keys))' => MembersInv'
BY NoTraceMembers, PTL

\* The steps that only a reset has.
LEMMA ResetSteps ==
    ASSUME StoreInv, op.step \in {"purge", "purge_legacy", "reset_marker"}
    PROVE  Resetting
<1>1. op # Idle
  <2>1. Idle.step = "idle"
    BY DEF Idle
  <2>2. QED
    BY <2>1
<1>2. ~Deletion /\ ~CleaningUp
  BY DEF Deletion, CleaningUp
<1>3. ~Insertion
  BY DEF Insertion
<1>4. QED
  BY <1>1, <1>2, <1>3 DEF StoreInv, OpInv

\* The empty manifest of a reset.
LEMMA PublishResetStep ==
    ASSUME StoreInv, NEW o, NEW ro, PublishManifest(o, ro), Resetting
    PROVE  StoreInv' /\ AbstractStep
<1> DEFINE ns == disk.root.managed
           c == [disk[ns] EXCEPT !.active = Manifest]
<1>1. Typed /\ op.step = "publish" /\ op \in [step : {"publish"}, members : {NoMembers}]
  BY DEF StoreInv, PublishManifest, Resetting
<1>2. /\ ns \in {"L", "M"} /\ disk.root.format = disk.keys
      /\ images.keys = {disk.keys} /\ NoTrace(disk.keys)
  BY <1>1, DiskFacts DEF Resetting
<1>3. op.members = NoMembers /\ op.members \in Memberships
  BY <1>1 DEF NoMembers, Memberships, Locations
<1>4. StoreInv'
  <2>1. Publishing
    BY <1>1, <1>3 DEF Publishing
  <2>2. MembersDurable(ns)
    BY <1>3 DEF MembersDurable, NoMembers
  <2>3. QED
    BY <1>2, <2>1, <2>2, ManifestKeeps
<1> HIDE DEF c
<1>5. /\ c.files = disk[ns].files /\ c.active = Manifest /\ Typed'
      /\ \A e \in Directories \ {ns, "root"} : Kept(e)
      /\ ~Published(o) => UNCHANGED <<disk, images>>
      /\ Published(o) => disk'[ns] = c /\ images'[ns] \subseteq images[ns] \cup {c}
  <2>1. c = [disk[ns] EXCEPT !.active = Manifest]
    BY DEF c
  <2>2. QED
    BY <1>2, <1>3, <2>1, ManifestWritten
<1>6. CASE ~Published(o)
  BY <1>4, <1>5, <1>6, StutterRefines
<1>7. CASE Published(o)
  <2>1. Traceless(c, disk.keys) /\ \A n \in images.L \cup images.M : Traceless(n, disk.keys)
    <3>1. disk[ns] \in images.L \cup images.M
      BY <1>1, <1>2, TypedParts
    <3>2. QED
      BY <1>2, <1>3, <1>5, <3>1 DEF NoTrace, Traceless, Manifest
  <2>2. images'.keys = {disk.keys}
    BY <1>2, <1>5 DEF Directories, Kept
  <2>3. images'.L \cup images'.M \subseteq images.L \cup images.M \cup {c}
    <3>1. CASE ns = "L"
      BY <1>5, <1>7, <3>1 DEF Directories, Kept
    <3>2. CASE ns = "M"
      BY <1>5, <1>7, <3>2 DEF Directories, Kept
    <3>3. QED
      BY <1>2, <3>1, <3>2
  <2>4. \A k \in images'.keys, n \in images'.L \cup images'.M : Traceless(n, k)
    BY <2>1, <2>2, <2>3
  <2>5. QED
    BY <1>1, <1>4, <1>5, <2>4, AllTraceless
<1>8. QED
  BY <1>6, <1>7

\* publish_manifest, for whichever operation.
LEMMA PublishManifestStep ==
    ASSUME StoreInv, NEW o, NEW ro, PublishManifest(o, ro)
    PROVE  StoreInv' /\ AbstractStep
<1>1. op.step = "publish"
  BY DEF PublishManifest
<1>2. op # Idle /\ ~CleaningUp
  <2>1. Idle.step = "idle"
    BY DEF Idle
  <2>2. QED
    BY <1>1, <2>1 DEF CleaningUp
<1>3. Insertion \/ Deletion \/ Resetting
  BY <1>2 DEF StoreInv, OpInv
<1>4. QED
  BY <1>3, PublishInsertionStep, PublishDeletionStep, PublishResetStep

\* The marker of a reset shows nothing: no manifest opens under the new key yet.
LEMMA WriteResetMarkerStep ==
    ASSUME StoreInv, NEW o, WriteResetMarker(o)
    PROVE  StoreInv' /\ AbstractStep
<1> DEFINE c == [disk.root EXCEPT !.format = disk.keys]
<1>1. Resetting /\ op.step = "reset_marker" /\ Write("root", c, o) /\ Typed
  BY ResetSteps DEF WriteResetMarker, StoreInv
<1>2. /\ images.keys = {disk.keys} /\ NoTrace(disk.keys) /\ disk.root.managed # "none"
      /\ c.format = disk.keys
  BY <1>1, TypedParts DEF Resetting, Roots
<1>3. /\ Typed' /\ RootInv' /\ MembersInv' /\ Wrote("root", c, o)
      /\ Kept("keys") /\ Kept("L") /\ Kept("Lrecords") /\ Kept("M") /\ Kept("Mrecords")
      /\ disk'.root.managed = disk.root.managed
  BY <1>1, MarkerWritten
<1> HIDE DEF c
<1>4. OpInv'
  <2>1. CASE ~Flushed(o)
    BY <2>1 DEF WriteResetMarker, Return, OpInv
  <2>2. CASE Flushed(o)
    <3>1. op' = [step |-> "publish", members |-> NoMembers] /\ disk'.root = c
      BY <1>3, <2>2 DEF WriteResetMarker, Flushed, Published, Wrote
    <3>2. NoTrace(disk.keys)' /\ images'.keys = {disk'.keys} /\ disk'.keys = disk.keys
      BY <1>2, <1>3 DEF NoTrace, Kept
    <3>3. Resetting'
      BY <1>2, <1>3, <3>1, <3>2 DEF Resetting
    <3>4. QED
      BY <3>3 DEF OpInv
  <2>3. QED
    BY <2>1, <2>2
<1>5. \A k \in images'.keys, n \in images'.L \cup images'.M : Traceless(n, k)
  BY <1>2, <1>3 DEF NoTrace, Traceless, Kept
<1>6. QED
  BY <1>1, <1>3, <1>4, <1>5, AllTraceless DEF StoreInv

\* The new key of a reset opens nothing, whether or not its flush is confirmed.
LEMMA RotateStep ==
    ASSUME StoreInv, FlushSupported, NEW k \in 1..MaxKey, NEW o, NEW zeroed, Rotate(k, o, zeroed)
    PROVE  StoreInv' /\ AbstractStep
<1>1. /\ Typed /\ disk \in Disks /\ images \in ImageSets
      /\ k \notin images.keys /\ NoTrace(k)
      /\ disk' = [disk EXCEPT !.keys = k]
      /\ images' = [images EXCEPT !.keys = IF Flushed(o) THEN {k} ELSE @ \cup {k}]
      /\ op' = IF Flushed(o) THEN [step |-> IF IsManaged THEN "purge" ELSE "purge_legacy"] ELSE Idle
  <2>1. Typed /\ disk \in Disks /\ images \in ImageSets
    BY TypedParts DEF StoreInv, Typed
  <2>2. FlushedStrictly(o) <=> Flushed(o)
    BY DEF FlushedStrictly, Flushed
  <2>3. QED
    BY <2>1, <2>2, Zenon DEF Rotate, FreshKey, NoTrace
<1>2. /\ disk'.keys = k /\ k \in images'.keys /\ images'.keys \subseteq images.keys \cup {k}
      /\ Flushed(o) => images'.keys = {k}
      /\ Kept("root") /\ Kept("L") /\ Kept("Lrecords") /\ Kept("M") /\ Kept("Mrecords")
  BY <1>1 DEF Kept, Disks, ImageSets
<1>3. Typed'
  <2>1. images' \in ImageSets
    BY <1>1 DEF ImageSets
  <2>2. disk' \in Snapshots'
    BY <1>1, <1>2, TypedParts DEF Disks, Snapshots, Kept
  <2>3. QED
    BY <2>1, <2>2 DEF Typed
<1>4. RootInv' /\ \A ns : Named(ns)' <=> Named(ns)
  BY <1>2 DEF StoreInv, RootInv, Kept, Named
<1>5. NoTrace(k)'
  BY <1>1, <1>2 DEF NoTrace, Kept
<1>6. MembersInv'
  <2>1. Durable(images.L, images.Lrecords, images.keys) => Durable(images.L, images.Lrecords, images'.keys)
    BY <1>1, <1>2 DEF Durable, NoTrace
  <2>2. Durable(images.M, images.Mrecords, images.keys) => Durable(images.M, images.Mrecords, images'.keys)
    BY <1>1, <1>2 DEF Durable, NoTrace
  <2>3. QED
    BY <1>2, <1>4, <2>1, <2>2 DEF StoreInv, MembersInv, Kept
<1>7. OpInv'
  <2>1. CASE ~Flushed(o)
    BY <1>1, <2>1 DEF OpInv
  <2>2. CASE Flushed(o)
    <3>1. op' = [step |-> IF IsManaged THEN "purge" ELSE "purge_legacy"]
      BY <1>1, <2>2
    <3>2. op'.step = "purge_legacy" => disk'.root.managed = "none"
      BY <1>2, <3>1 DEF IsManaged, Kept
    <3>3. op' \in [step : {"purge", "purge_legacy", "reset_marker"}]
      BY <3>1
    <3>4. images'.keys = {disk'.keys} /\ NoTrace(disk.keys)'
      BY <1>2, <1>5, <2>2 DEF NoTrace
    <3>5. op'.step \notin {"reset_marker", "publish"}
      BY <3>1
    <3>6. Resetting'
      BY <3>2, <3>3, <3>4, <3>5 DEF Resetting
    <3>7. QED
      BY <3>6 DEF OpInv
  <2>3. QED
    BY <2>1, <2>2
<1>8. \A n \in images'.L \cup images'.M : Traceless(n, k)
  BY <1>5 DEF NoTrace, Traceless
<1>9. LeftOrTraceless
  <2> SUFFICES ASSUME NEW k2 \in images'.keys, NEW root \in images'.root, NEW l \in images'.L,
                      NEW lr \in images'.Lrecords, NEW m \in images'.M, NEW mr \in images'.Mrecords
               PROVE  SetOf(k2, root, l, lr, m, mr) \in Left \/ (Traceless(l, k2) /\ Traceless(m, k2))
    BY DEF LeftOrTraceless
  <2>1. CASE k2 = k
    BY <1>8, <2>1
  <2>2. CASE k2 # k
    BY <1>1, <1>2, <2>2, Outcome DEF Kept, ReadFromImages, Left
  <2>3. QED
    BY <2>1, <2>2
<1>10. disk'.L \in images'.L /\ disk'.M \in images'.M
  BY <1>3 DEF Typed, Snapshots
<1>11. Traceless(disk'.L, disk'.keys) /\ Traceless(disk'.M, disk'.keys)
  BY <1>2, <1>8, <1>10
<1>12. QED
  BY <1>1, <1>3, <1>4, <1>6, <1>7, <1>9, <1>11, TracelessReset DEF StoreInv

\* The purge of the legacy layout takes away only what the new key does not open.
LEMMA PurgeLegacyStep ==
    ASSUME StoreInv, NEW left, NEW o, PurgeLegacy(left, o)
    PROVE  StoreInv' /\ AbstractStep
<1> DEFINE c == [disk.L EXCEPT !.files = [i \in Ids |-> IF i \in left THEN @[i] ELSE NoFile]]
<1>1. Resetting /\ op.step = "purge_legacy" /\ Write("L", c, o) /\ Typed /\ op' = Idle
  BY ResetSteps DEF PurgeLegacy, StoreInv, Return
<1>2. /\ images.keys = {disk.keys} /\ NoTrace(disk.keys) /\ disk.root.managed = "none"
      /\ disk.L \in Namespaces /\ disk.L \in images.L /\ disk.keys # 0
  BY <1>1, TypedParts, DiskFacts DEF Resetting
<1>3. /\ c \in Namespaces /\ c.active = disk.L.active
      /\ \A i \in Ids : c.files[i] \in {disk.L.files[i], NoFile}
  <2>1. NoFile \in Files
    BY StoreAssumption DEF NoFile, Files
  <2>2. QED
    BY <1>2, <2>1 DEF Namespaces
<1> HIDE DEF c
<1>4. Typed' /\ Wrote("L", c, o) /\ \A e \in Directories \ {"L"} : Kept(e)
  BY <1>1, <1>3, WriteEffect DEF Directories
<1>5. Kept("keys") /\ Kept("root") /\ Kept("Lrecords") /\ Kept("M") /\ Kept("Mrecords")
  BY <1>4 DEF Directories
<1>6. RootInv' /\ MembersInv'
  BY <1>2, <1>5, LegacyFacts DEF StoreInv, RootInv, MembersInv, Named, Kept
<1>7. OpInv'
  BY <1>1 DEF OpInv
<1>8. Traceless(c, disk.keys) /\ \A n \in images.L \cup images.M : Traceless(n, disk.keys)
  BY <1>2, <1>3 DEF NoTrace, Traceless, NoFile
<1>9. images'.L \subseteq images.L \cup {c}
  BY <1>4 DEF Wrote, Kept
<1>10. \A k \in images'.keys, n \in images'.L \cup images'.M : Traceless(n, k)
  BY <1>2, <1>5, <1>8, <1>9 DEF Kept
<1>11. QED
  BY <1>1, <1>4, <1>6, <1>7, <1>10, AllTraceless DEF StoreInv

\* The purge of a managed store.
LEMMA PurgeManagedStep ==
    ASSUME StoreInv, NEW left, NEW rmdir, NEW o, PurgeManaged(left, rmdir, o)
    PROVE  StoreInv' /\ AbstractStep
<1> DEFINE Purged(files) == [i \in Ids |-> IF i \in left THEN files[i] ELSE NoFile]
           Emptied(n) == [active |-> IF left = {} THEN NoManifest ELSE n.active,
                          files |-> Purged(n.files)]
           root == [disk.root EXCEPT !.credentials = @ /\ ~rmdir,
                                     !.managed = IF @ = "none" THEN "M" ELSE @]
           l == Emptied(disk.L)
           m == Emptied(disk.M)
           lr == Purged(disk.Lrecords)
           mr == Purged(disk.Mrecords)
<1>1. Resetting /\ op.step = "purge" /\ Typed
  BY ResetSteps, Zenon DEF PurgeManaged, StoreInv
<1>2. /\ images.keys = {disk.keys} /\ NoTrace(disk.keys) /\ disk.keys # 0
      /\ disk \in Disks /\ images \in ImageSets
      /\ disk.L \in Namespaces /\ disk.M \in Namespaces /\ disk.root \in Roots
      /\ disk.Lrecords \in [Ids -> Files] /\ disk.Mrecords \in [Ids -> Files]
      /\ disk.L \in images.L /\ disk.M \in images.M
      /\ disk.Lrecords \in images.Lrecords /\ disk.Mrecords \in images.Mrecords
      /\ disk.root \in images.root
  BY <1>1, TypedParts, DiskFacts DEF Resetting, Typed
<1>3. /\ disk' = [disk EXCEPT !.L = l, !.M = m, !.Lrecords = lr, !.Mrecords = mr, !.root = root]
      /\ op' = Idle \/ op' = [op EXCEPT !.step = "reset_marker"]
  <2>1. disk' = [disk EXCEPT !.L = l, !.M = m, !.Lrecords = lr, !.Mrecords = mr,
                             !.root.credentials = @ /\ ~rmdir,
                             !.root.managed = IF @ = "none" THEN "M" ELSE @]
    BY DEF PurgeManaged
  <2>2. op' = Idle \/ op' = [op EXCEPT !.step = "reset_marker"]
    BY DEF PurgeManaged, Return
  <2> HIDE DEF l, m, lr, mr
  <2>3. QED
    BY <1>2, <2>1, <2>2, ZenonT(30) DEF Disks, Roots
<1>4. /\ images'.L \subseteq images.L \cup {l} /\ l \in images'.L
      /\ images'.M \subseteq images.M \cup {m} /\ m \in images'.M
      /\ images'.Lrecords \subseteq images.Lrecords \cup {lr} /\ lr \in images'.Lrecords
      /\ images'.Mrecords \subseteq images.Mrecords \cup {mr} /\ mr \in images'.Mrecords
      /\ images'.root = images.root \cup {root}
      /\ images'.keys = images.keys
      /\ images' = [keys |-> images'.keys, root |-> images'.root, L |-> images'.L,
                    Lrecords |-> images'.Lrecords, M |-> images'.M, Mrecords |-> images'.Mrecords]
  <2> DEFINE Left2(d) == IF FlushedStrictly(o) THEN {disk'[d]} ELSE images[d] \cup {disk'[d]}
  <2>1. images' = [images EXCEPT !.L = Left2("L"), !.M = Left2("M"), !.Lrecords = Left2("Lrecords"),
                                 !.Mrecords = Left2("Mrecords"), !.root = @ \cup {disk'.root}]
    BY DEF PurgeManaged
  <2> HIDE DEF root, l, m, lr, mr, Purged, Emptied
  <2>2. disk'.L = l /\ disk'.M = m /\ disk'.Lrecords = lr /\ disk'.Mrecords = mr /\ disk'.root = root
    BY <1>2, <1>3 DEF Disks
  <2>3. \A d \in Directories : Left2(d) \subseteq images[d] \cup {disk'[d]} /\ disk'[d] \in Left2(d)
    OBVIOUS
  <2> HIDE DEF Left2
  <2>4. /\ images'.L = Left2("L") /\ images'.M = Left2("M") /\ images'.Lrecords = Left2("Lrecords")
        /\ images'.Mrecords = Left2("Mrecords") /\ images'.root = images.root \cup {disk'.root}
        /\ images'.keys = images.keys
        /\ images' = [keys |-> images'.keys, root |-> images'.root, L |-> images'.L,
                      Lrecords |-> images'.Lrecords, M |-> images'.M, Mrecords |-> images'.Mrecords]
    BY <1>2, <2>1, Zenon DEF ImageSets
  <2>5. QED
    BY <2>2, <2>3, <2>4 DEF Directories
<1>5. /\ root \in Roots /\ root.managed = IF disk.root.managed = "none" THEN "M" ELSE disk.root.managed
      /\ lr \in [Ids -> Files] /\ mr \in [Ids -> Files]
      /\ l \in Namespaces /\ m \in Namespaces
      /\ \A i \in Ids : lr[i] \in {disk.Lrecords[i], NoFile} /\ mr[i] \in {disk.Mrecords[i], NoFile}
      /\ \A i \in Ids : l.files[i] \in {disk.L.files[i], NoFile} /\ m.files[i] \in {disk.M.files[i], NoFile}
      /\ l.active \in {disk.L.active, NoManifest} /\ m.active \in {disk.M.active, NoManifest}
  <2>1. NoFile \in Files /\ NoManifest \in Manifests
    BY StoreAssumption DEF NoFile, Files, NoManifest, Manifests, NoMembers, Locations
  <2>2. root \in Roots /\ root.managed = IF disk.root.managed = "none" THEN "M" ELSE disk.root.managed
    BY <1>2, Zenon DEF Roots
  <2>3. ASSUME NEW files \in [Ids -> Files]
        PROVE  Purged(files) \in [Ids -> Files] /\ \A i \in Ids : Purged(files)[i] \in {files[i], NoFile}
    BY <2>1
  <2>4. ASSUME NEW n \in Namespaces
        PROVE  /\ Emptied(n) \in Namespaces /\ Emptied(n).active \in {n.active, NoManifest}
               /\ \A i \in Ids : Emptied(n).files[i] \in {n.files[i], NoFile}
    <3>1. n.files \in [Ids -> Files] /\ n.active \in Manifests
      BY DEF Namespaces
    <3>2. Purged(n.files) \in [Ids -> Files] /\ \A i \in Ids : Purged(n.files)[i] \in {n.files[i], NoFile}
      BY <2>3, <3>1
    <3> HIDE DEF Purged
    <3>3. QED
      BY <2>1, <3>1, <3>2 DEF Namespaces
  <2> HIDE DEF root, Purged, Emptied
  <2>5. QED
    BY <1>2, <2>2, <2>3, <2>4
<1> HIDE DEF root, l, m, lr, mr, Purged, Emptied
<1>6. /\ disk'.keys = disk.keys /\ disk'.root = root /\ disk'.L = l /\ disk'.M = m
      /\ disk'.Lrecords = lr /\ disk'.Mrecords = mr
  BY <1>2, <1>3 DEF Disks
<1>7. Typed'
  <2>1. images' \in ImageSets
    BY <1>2, <1>4, <1>5 DEF ImageSets
  <2>2. disk' \in Snapshots'
    BY <1>2, <1>3, <1>4, <1>6, Zenon DEF Disks, Snapshots
  <2>3. QED
    BY <2>1, <2>2 DEF Typed
<1>8. RootInv'
  BY <1>4, <1>5, <1>6 DEF StoreInv, RootInv
<1>9. NoTrace(disk.keys)' /\ images'.keys = {disk'.keys}
  <2>0. NoFile.key # disk.keys /\ NoManifest.key # disk.keys
    BY <1>2 DEF NoFile, NoManifest
  <2>1. \A n \in {l, m} : n.active.key # disk.keys /\ \A i \in Ids : n.files[i].key # disk.keys
    <3>1. /\ disk.L.active.key # disk.keys /\ \A i \in Ids : disk.L.files[i].key # disk.keys
          /\ disk.M.active.key # disk.keys /\ \A i \in Ids : disk.M.files[i].key # disk.keys
      BY <1>2, Zenon DEF NoTrace
    <3>2. l.active.key # disk.keys /\ m.active.key # disk.keys
      BY <1>5, <2>0, <3>1
    <3>3. \A i \in Ids : l.files[i].key # disk.keys /\ m.files[i].key # disk.keys
      BY <1>5, <2>0, <3>1
    <3>4. QED
      BY <3>2, <3>3
  <2>2. \A i \in Ids : lr[i].key # disk.keys /\ mr[i].key # disk.keys
    <3>1. \A i \in Ids : disk.Lrecords[i].key # disk.keys /\ disk.Mrecords[i].key # disk.keys
      BY <1>2, Zenon DEF NoTrace
    <3>2. QED
      BY <1>5, <2>0, <3>1
  <2>3. QED
    BY <1>2, <1>4, <1>6, <2>1, <2>2 DEF NoTrace
<1>10. MembersInv'
  BY <1>9, NoTraceMembersNext
<1>11. OpInv'
  <2>1. CASE op' = Idle
    BY <2>1 DEF OpInv
  <2>2. CASE op' = [op EXCEPT !.step = "reset_marker"]
    <3>1. op \in [step : {"purge"}]
      BY <1>1 DEF Resetting
    <3>2. op' \in [step : {"purge", "purge_legacy", "reset_marker"}] /\ op'.step = "reset_marker"
      BY <2>2, <3>1
    <3>3. disk'.root.managed # "none"
      BY <1>5, <1>6
    <3>4. Resetting'
      BY <1>9, <3>2, <3>3 DEF Resetting
    <3>5. QED
      BY <3>4 DEF OpInv
  <2>3. QED
    BY <1>3, <2>1, <2>2
<1>12. \A k \in images'.keys, n \in images'.L \cup images'.M : Traceless(n, k)
  BY <1>9 DEF NoTrace, Traceless
<1>13. QED
  BY <1>1, <1>7, <1>8, <1>10, <1>11, <1>12, AllTraceless DEF StoreInv

-----------------------------------------------------------------------------
(* Power loss *)

\* Power loss leaves one of the sets it may leave, and settles it.
LEMMA PowerLossStep ==
    ASSUME StoreInv, NEW s \in Snapshots, PowerLoss(s)
    PROVE  StoreInv' /\ AbstractStep
<1>1. /\ Typed /\ disk' = s /\ op' = Idle
      /\ images' = [d \in Directories |-> {s[d]}]
  BY DEF StoreInv, PowerLoss, Return
<1>2. /\ images'.keys = {s.keys} /\ images'.root = {s.root} /\ images'.L = {s.L} /\ images'.M = {s.M}
      /\ images'.Lrecords = {s.Lrecords} /\ images'.Mrecords = {s.Mrecords}
  BY <1>1 DEF Directories
<1>3. /\ s.keys \in images.keys /\ s.root \in images.root /\ s.L \in images.L /\ s.M \in images.M
      /\ s.Lrecords \in images.Lrecords /\ s.Mrecords \in images.Mrecords
      /\ s = [keys |-> s.keys, root |-> s.root, L |-> s.L, Lrecords |-> s.Lrecords, M |-> s.M,
              Mrecords |-> s.Mrecords]
  BY DEF Snapshots
<1>4. Snapshots' = {s}
  <2>1. s \in Snapshots'
    BY <1>2, <1>3 DEF Snapshots
  <2>2. ASSUME NEW t \in Snapshots' PROVE t = s
    <3>1. t = [keys |-> t.keys, root |-> t.root, L |-> t.L, Lrecords |-> t.Lrecords, M |-> t.M,
               Mrecords |-> t.Mrecords]
      BY DEF Snapshots
    <3>2. /\ t.keys = s.keys /\ t.root = s.root /\ t.L = s.L /\ t.M = s.M
          /\ t.Lrecords = s.Lrecords /\ t.Mrecords = s.Mrecords
      BY <1>2 DEF Snapshots
    <3>3. QED
      BY <1>3, <3>1, <3>2
  <2>3. QED
    BY <2>1, <2>2
<1>5. Typed'
  <2>1. images' \in ImageSets
    <3>1. /\ s.keys \in 1..MaxKey /\ s.root \in Roots /\ s.L \in Namespaces /\ s.M \in Namespaces
          /\ s.Lrecords \in [Ids -> Files] /\ s.Mrecords \in [Ids -> Files]
      BY <1>1, <1>3, TypedParts
    <3>2. images' = [keys |-> {s.keys}, root |-> {s.root}, L |-> {s.L}, Lrecords |-> {s.Lrecords},
                     M |-> {s.M}, Mrecords |-> {s.Mrecords}]
      BY <1>1 DEF Directories
    <3>3. QED
      BY <3>1, <3>2 DEF ImageSets
  <2>2. QED
    BY <1>1, <1>4, <2>1 DEF Typed
<1>6. RootInv'
  BY <1>1, <1>2 DEF RootInv
<1>7. MembersInv'
  <2>1. Named("L")' => Durable(images.L, images.Lrecords, images.keys)
    BY <1>2, <1>3 DEF StoreInv, MembersInv, Named
  <2>2. Named("M")' => Durable(images.M, images.Mrecords, images.keys)
    BY <1>2, <1>3 DEF StoreInv, MembersInv, Named
  <2>3. Durable(images.L, images.Lrecords, images.keys) => Durable({s.L}, {s.Lrecords}, {s.keys})
    BY <1>3 DEF Durable
  <2>4. Durable(images.M, images.Mrecords, images.keys) => Durable({s.M}, {s.Mrecords}, {s.keys})
    BY <1>3 DEF Durable
  <2>5. QED
    BY <1>2, <2>1, <2>2, <2>3, <2>4 DEF MembersInv
<1>8. Set!PowerLoss
  <2>1. Usable(disk)' = Usable(s)
    BY <1>1
  <2>2. {Usable(t) : t \in Snapshots}' = {Usable(s)}
    BY <1>4
  <2>3. (images.keys # {disk.keys})' = FALSE
    BY <1>1, <1>2
  <2>4. QED
    BY <2>1, <2>2, <2>3 DEF Set!PowerLoss
<1>9. QED
  BY <1>1, <1>5, <1>6, <1>7, <1>8 DEF StoreInv, OpInv, AbstractStep, Set!Next
=============================================================================
