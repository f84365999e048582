--------------------------- MODULE CeremonyProofs ---------------------------
(***************************************************************************)
(* Proofs about Ceremony, for any credentials, counts and keys, and with   *)
(* every fault.                                                            *)
(*                                                                         *)
(* The counts are safe because of what every combination of images agrees  *)
(* on (StoredInv, SealedInv): wherever the key of a credential is, so is a *)
(* count no smaller than the last one sent.  A reset is final because the  *)
(* key it purges under is the only image and is nobody's (RotationInv).    *)
(***************************************************************************)
EXTENDS Ceremony, TLAPS

Roots == [pin : 0..MaxKey, counter : Files]
Records == [Stored -> Files]

DiskTypeOK ==
    /\ disk \in [keys : 0..MaxKey, root : Roots, records : Records]
    /\ images = [d \in Directories |-> images[d]]
    /\ images.keys \in SUBSET (0..MaxKey) /\ disk.keys \in images.keys
    /\ images.root \in SUBSET Roots /\ disk.root \in images.root
    /\ images.records \in SUBSET Records /\ disk.records \in images.records
    /\ sealedBy \in [Creds -> 0..MaxKey]
    /\ told \in [Creds -> 0..MaxKey]
    /\ last \in [Creds -> 0..MaxCount]
    /\ erased \subseteq Creds

\* The request in progress, by its command.
Making == [step : {"prompt", "seal", "store", "answer"}, cmd : {"makeCredential"}, id : Creds,
           excluded : BOOLEAN]
Asserting == [step : {"prompt", "count", "signed"}, cmd : {"getAssertion"}, id : Creds]
Resetting == [step : {"prompt", "rotate", "purge", "counter", "defaults"}, cmd : {"reset"}]

\* A request runs in a daemon, and nothing but its own steps changes what it found:
\* the credential it makes is new, the one it asserts is there.
OpInv ==
    /\ op \in {Idle} \cup Making \cup Asserting \cup Resetting
    /\ authority = "down" => op = Idle
    /\ authority = "Read" => Key # 0
    /\ op \in Making => Key # 0 /\ told[op.id] = 0 /\ last[op.id] = 0
    /\ op \in Asserting => Found(op.id)
    /\ \A c \in erased : told[c] # 0

\* While a reset purges, its key is durable and nothing was made under it.
RotationInv ==
    op.step \in {"purge", "counter", "defaults"} =>
        /\ images.keys = {Key} /\ Key # 0
        /\ \A c \in Creds : told[c] # Key /\ sealedBy[c] # Key

\* Wherever a stored credential opens, its count is no smaller than the last sent.
StoredInv ==
    \A c \in Stored, k \in images.keys, r \in images.records :
        last[c] # 0 /\ r[c].key = k => last[c] <= r[c].count

\* Wherever a sealed credential opens, so does the counter it counts on.
SealedInv ==
    \A c \in Sealed :
        /\ last[c] # 0 => sealedBy[c] # 0
        /\ \A r \in images.root :
              last[c] # 0 /\ sealedBy[c] \in images.keys =>
                  r.counter.key = sealedBy[c] /\ last[c] <= r.counter.count

\* A count that is about to be sent is saved.
SignedInv ==
    op.step = "signed" =>
        /\ op.id \in Stored => images.records = {disk.records}
        /\ op.id \in Sealed => images.root = {disk.root} /\ disk.root.counter.key = Key
        /\ CountsGrow

CeremonyInv ==
    /\ DiskTypeOK /\ OpInv /\ RotationInv /\ StoredInv /\ SealedInv /\ SignedInv
    /\ ResetIsFinal
-----------------------------------------------------------------------------
(* What a write changes *)

\* The key file is written.
LEMMA WriteKeys ==
    ASSUME DiskTypeOK, NEW v \in 0..MaxKey, NEW o, Write("keys", v, o)
    PROVE  /\ disk' \in [keys : 0..MaxKey, root : Roots, records : Records]
           /\ images' = [d \in Directories |-> images'[d]]
           /\ images'.keys \in SUBSET (0..MaxKey) /\ disk'.keys \in images'.keys
           /\ disk'.root = disk.root /\ disk'.records = disk.records
           /\ images'.root = images.root /\ images'.records = images.records
           /\ images'.keys \subseteq images.keys \cup {v}
           /\ disk'.keys \in {disk.keys, v}
           /\ o = "Ok" => images'.keys = {v} /\ disk'.keys = v
           /\ o # "Err" => disk'.keys = v
<1>1. CASE o = "Err"
  BY <1>1 DEF Write, DiskTypeOK
<1>2. CASE o # "Err"
  <2> DEFINE i == IF o = "Ok" THEN {v} ELSE images["keys"] \cup {v}
  <2>1. disk' = [disk EXCEPT !["keys"] = v] /\ images' = [images EXCEPT !["keys"] = i]
    BY <1>2 DEF Write
  <2>2. i \in SUBSET (0..MaxKey) /\ v \in i /\ i \subseteq images.keys \cup {v} /\ (o = "Ok" => i = {v})
    BY DEF DiskTypeOK
  <2> HIDE DEF i
  <2>3. images'.keys = i /\ images'.root = images.root /\ images'.records = images.records
    BY <2>1 DEF DiskTypeOK, Directories
  <2>4. QED
    BY <1>2, <2>1, <2>2, <2>3 DEF DiskTypeOK, Directories
<1>3. QED
  BY <1>1, <1>2

\* The PIN state or the counter is written.
LEMMA WriteRoot ==
    ASSUME DiskTypeOK, NEW v \in Roots, NEW o, Write("root", v, o)
    PROVE  /\ disk' \in [keys : 0..MaxKey, root : Roots, records : Records]
           /\ images' = [d \in Directories |-> images'[d]]
           /\ images'.root \in SUBSET Roots /\ disk'.root \in images'.root
           /\ disk'.keys = disk.keys /\ disk'.records = disk.records
           /\ images'.keys = images.keys /\ images'.records = images.records
           /\ images'.root \subseteq images.root \cup {v}
           /\ disk'.root \in {disk.root, v}
           /\ o = "Ok" => images'.root = {v} /\ disk'.root = v
           /\ o # "Err" => disk'.root = v
<1>1. CASE o = "Err"
  BY <1>1 DEF Write, DiskTypeOK
<1>2. CASE o # "Err"
  <2> DEFINE i == IF o = "Ok" THEN {v} ELSE images["root"] \cup {v}
  <2>1. disk' = [disk EXCEPT !["root"] = v] /\ images' = [images EXCEPT !["root"] = i]
    BY <1>2 DEF Write
  <2>2. i \in SUBSET Roots /\ v \in i /\ i \subseteq images.root \cup {v} /\ (o = "Ok" => i = {v})
    BY DEF DiskTypeOK
  <2> HIDE DEF i
  <2>3. images'.root = i /\ images'.keys = images.keys /\ images'.records = images.records
    BY <2>1 DEF DiskTypeOK, Directories
  <2>4. QED
    BY <1>2, <2>1, <2>2, <2>3 DEF DiskTypeOK, Directories
<1>3. QED
  BY <1>1, <1>2

\* A record is written, or some are removed.
LEMMA WriteRecords ==
    ASSUME DiskTypeOK, NEW v \in Records, NEW o, Write("records", v, o)
    PROVE  /\ disk' \in [keys : 0..MaxKey, root : Roots, records : Records]
           /\ images' = [d \in Directories |-> images'[d]]
           /\ images'.records \in SUBSET Records /\ disk'.records \in images'.records
           /\ disk'.keys = disk.keys /\ disk'.root = disk.root
           /\ images'.keys = images.keys /\ images'.root = images.root
           /\ images'.records \subseteq images.records \cup {v}
           /\ disk'.records \in {disk.records, v}
           /\ o = "Ok" => images'.records = {v} /\ disk'.records = v
           /\ o # "Err" => disk'.records = v
<1>1. CASE o = "Err"
  BY <1>1 DEF Write, DiskTypeOK
<1>2. CASE o # "Err"
  <2> DEFINE i == IF o = "Ok" THEN {v} ELSE images["records"] \cup {v}
  <2>1. disk' = [disk EXCEPT !["records"] = v] /\ images' = [images EXCEPT !["records"] = i]
    BY <1>2 DEF Write
  <2>2. i \in SUBSET Records /\ v \in i /\ i \subseteq images.records \cup {v} /\ (o = "Ok" => i = {v})
    BY DEF DiskTypeOK
  <2> HIDE DEF i
  <2>3. images'.records = i /\ images'.keys = images.keys /\ images'.root = images.root
    BY <2>1 DEF DiskTypeOK, Directories
  <2>4. QED
    BY <1>2, <2>1, <2>2, <2>3 DEF DiskTypeOK, Directories
<1>3. QED
  BY <1>1, <1>2
-----------------------------------------------------------------------------
(* The invariant, one lemma for the steps of a kind *)

\* Steps that change no file and no history: what is left to show is about the request.
LEMMA QuietKeeps ==
    ASSUME CeremonyInv, UNCHANGED <<disk, images, sealedBy, history>>, OpInv',
           op'.step \notin {"purge", "counter", "defaults", "signed"}
    PROVE  CeremonyInv'
<1>1. DiskTypeOK /\ StoredInv /\ SealedInv /\ ResetIsFinal
  BY DEF CeremonyInv
<1>2. DiskTypeOK'
  BY <1>1 DEF DiskTypeOK, history
<1>3. StoredInv' /\ SealedInv' /\ ResetIsFinal'
  BY <1>1 DEF StoredInv, SealedInv, ResetIsFinal, history
<1>4. RotationInv' /\ SignedInv'
  BY DEF RotationInv, SignedInv
<1>5. QED
  BY <1>2, <1>3, <1>4 DEF CeremonyInv

\* The request ends, or the daemon does.
LEMMA IdleOp ==
    ASSUME OpInv, op' = Idle, authority' = "Read" => Key' # 0, told' = told, erased' = erased
    PROVE  OpInv' /\ op'.step = "idle"
<1>1. op'.step = "idle" /\ op' \notin Making /\ op' \notin Asserting
  BY DEF Idle, Making, Asserting
<1>2. QED
  BY <1>1 DEF OpInv

\* LoadPinState finds a key wherever it finds the state readable.
LEMMA LoadedHasKey == "Read" \in LoadPinState => Key # 0
  BY DEF LoadPinState, LoadedPinState

\* The steps up to the prompt, the prompt, and the ends that write nothing.
LEMMA QuietSteps ==
    ASSUME CeremonyInv,
           \/ Open \/ ReadUnread
           \/ \E c \in Creds, exclude_list \in SUBSET Creds : MakeCredential(c, exclude_list)
           \/ \E c \in Creds : U2fRegister(c)
           \/ \E c \in Creds, up \in BOOLEAN : GetAssertion(c, up)
           \/ \E c \in Creds, control \in {3, 8} : U2fAuthenticate(c, control)
           \/ Reset \/ Approve \/ Fail \/ CounterUnreadable \/ ProcessExit
    PROVE  CeremonyInv'
<1>1. OpInv
  BY DEF CeremonyInv
<1>2. UNCHANGED <<disk, images, sealedBy, history>>
  BY DEF Open, ReadUnread, MakeCredential, U2fRegister, GetAssertion, U2fAuthenticate, Reset, Approve,
        Fail, CounterUnreadable, ProcessExit
<1>3. /\ Key' = Key /\ told' = told /\ last' = last /\ erased' = erased
      /\ \A c \in Creds : Found(c)' = Found(c)
  BY <1>2 DEF Key, Found, history
<1>4. SUFFICES OpInv' /\ op'.step \notin {"purge", "counter", "defaults", "signed"}
  BY <1>2, QuietKeeps
<1>5. CASE Open \/ ReadUnread
  <2>1. op' = op /\ (authority' = "Read" => Key # 0) /\ op = Idle
    BY <1>1, <1>5 DEF Open, ReadUnread, LoadPinState, LoadedPinState, OpInv
  <2>2. QED
    BY <1>1, <1>3, <2>1, IdleOp
<1>6. CASE CounterUnreadable \/ ProcessExit \/ Fail
  <2>1. op' = Idle /\ (authority' = "Read" => Key # 0)
    BY <1>1, <1>6 DEF CounterUnreadable, ProcessExit, Fail, Return, OpInv
  <2>2. QED
    BY <1>1, <1>3, <2>1, IdleOp
<1>7. ASSUME NEW c \in Creds, NEW b \in BOOLEAN, authority = "Read", authority' = authority, Unused(c),
             op' = [step |-> "prompt", cmd |-> "makeCredential", id |-> c, excluded |-> b]
      PROVE  OpInv' /\ op'.step \notin {"purge", "counter", "defaults", "signed"}
  <2>1. op' \in Making /\ op' \notin Asserting /\ op'.step = "prompt" /\ op'.id = c
    BY <1>7 DEF Making, Asserting
  <2>2. QED
    BY <1>1, <1>3, <1>7, <2>1 DEF OpInv, Unused
<1>8. ASSUME NEW c \in Creds, authority # "down", authority' = authority, Found(c),
             NEW q \in {"prompt", "count"}, op' = [step |-> q, cmd |-> "getAssertion", id |-> c]
      PROVE  OpInv' /\ op'.step \notin {"purge", "counter", "defaults", "signed"}
  <2>1. op' \in Asserting /\ op' \notin Making /\ op'.step = q /\ op'.id = c
    BY <1>8 DEF Making, Asserting
  <2>2. QED
    BY <1>1, <1>3, <1>8, <2>1 DEF OpInv
<1>9. CASE Reset
  <2>1. /\ authority' = authority /\ authority # "down"
        /\ op' \in Resetting /\ op' \notin Making /\ op' \notin Asserting /\ op'.step = "prompt"
    BY <1>9 DEF Reset, Making, Asserting, Resetting
  <2>2. QED
    BY <1>1, <1>3, <2>1 DEF OpInv
<1>10. CASE \E c \in Creds, exclude_list \in SUBSET Creds : MakeCredential(c, exclude_list)
  <2>1. PICK c \in Creds, exclude_list \in SUBSET Creds : MakeCredential(c, exclude_list)
    BY <1>10
  <2> DEFINE b == \E x \in exclude_list : Found(x)
  <2>2. b \in BOOLEAN
    OBVIOUS
  <2>3. op' = [step |-> "prompt", cmd |-> "makeCredential", id |-> c, excluded |-> b]
    BY <2>1 DEF MakeCredential
  <2> HIDE DEF b
  <2>4. QED
    BY <1>7, <2>1, <2>2, <2>3 DEF MakeCredential, Authorized
<1>11. CASE \E c \in Creds : U2fRegister(c)
  BY <1>7, <1>11 DEF U2fRegister
<1>12. CASE \/ \E c \in Creds, up \in BOOLEAN : GetAssertion(c, up)
            \/ \E c \in Creds, control \in {3, 8} : U2fAuthenticate(c, control)
  BY <1>8, <1>12 DEF GetAssertion, U2fAuthenticate
<1>13. CASE Approve
  <2>1. op.step = "prompt" /\ authority' = authority /\ authority # "down"
    BY <1>1, <1>13 DEF Approve, OpInv, Idle
  <2>2. CASE op \in Making
    <3>1. op.cmd = "makeCredential" /\ op \notin Asserting
      BY <2>2 DEF Making, Asserting
    <3>2. \/ op' = Idle
          \/ op' = [op EXCEPT !.step = "seal"]
          \/ op' = [op EXCEPT !.step = "store"]
      BY <1>13, <3>1 DEF Approve, Return
    <3>3. CASE op' = Idle
      BY <1>1, <1>3, <2>1, <3>3, IdleOp DEF OpInv
    <3>4. CASE op' # Idle
      <4>1. op' \in Making /\ op' \notin Asserting /\ op'.step \in {"seal", "store"} /\ op'.id = op.id
        BY <2>2, <3>2, <3>4 DEF Making, Asserting
      <4>2. QED
        BY <1>1, <1>3, <2>1, <2>2, <4>1 DEF OpInv
    <3>5. QED
      BY <3>3, <3>4
  <2>3. CASE op \in Asserting
    <3>1. op.cmd = "getAssertion"
      BY <2>3 DEF Asserting
    <3>2. op' = [op EXCEPT !.step = "count"]
      BY <1>13, <3>1 DEF Approve
    <3>3. op' \in Asserting /\ op' \notin Making /\ op'.step = "count" /\ op'.id = op.id
      BY <2>3, <3>2 DEF Making, Asserting
    <3>4. Found(op.id)'
      BY <1>1, <1>2, <2>3, <3>3 DEF OpInv, Found, Key
    <3>5. QED
      BY <1>1, <1>3, <2>1, <3>3, <3>4 DEF OpInv
  <2>4. CASE op \in Resetting
    <3>1. op.cmd = "reset"
      BY <2>4 DEF Resetting
    <3>2. op' = [op EXCEPT !.step = "rotate"]
      BY <1>13, <3>1 DEF Approve
    <3>3. op' \in Resetting /\ op' \notin Making /\ op' \notin Asserting /\ op'.step = "rotate"
      BY <2>4, <3>2 DEF Making, Asserting, Resetting
    <3>4. QED
      BY <1>1, <1>3, <2>1, <3>3 DEF OpInv
  <2>5. QED
    BY <1>1, <2>1, <2>2, <2>3, <2>4 DEF OpInv, Idle
<1>14. QED
  BY <1>5, <1>6, <1>9, <1>10, <1>11, <1>12, <1>13

\* A new key, of a new store or of a reset: it is no credential's, so nothing opens
\* under it that was not made under it.
LEMMA KeyWritten ==
    ASSUME CeremonyInv, NEW k \in 1..MaxKey, NEW o, FreshKey(k), Write("keys", k, o),
           UNCHANGED <<sealedBy, history>>
    PROVE  /\ DiskTypeOK' /\ StoredInv' /\ SealedInv' /\ ResetIsFinal'
           /\ Key # 0 => Key' # 0
           /\ o = "Ok" => /\ images'.keys = {Key'} /\ Key' # 0
                          /\ \A c \in Creds : told'[c] # Key' /\ sealedBy'[c] # Key'
<1>1. DiskTypeOK /\ StoredInv /\ SealedInv /\ ResetIsFinal
  BY DEF CeremonyInv
<1>2. k \in 0..MaxKey /\ k # 0
  BY CeremonyAssumption
<1>3. /\ disk' \in [keys : 0..MaxKey, root : Roots, records : Records]
      /\ images' = [d \in Directories |-> images'[d]]
      /\ images'.keys \in SUBSET (0..MaxKey) /\ disk'.keys \in images'.keys
      /\ disk'.root = disk.root /\ disk'.records = disk.records
      /\ images'.root = images.root /\ images'.records = images.records
      /\ images'.keys \subseteq images.keys \cup {k}
      /\ disk'.keys \in {disk.keys, k}
      /\ o = "Ok" => images'.keys = {k} /\ disk'.keys = k
  BY <1>1, <1>2, WriteKeys
<1>4. DiskTypeOK'
  BY <1>1, <1>3 DEF DiskTypeOK, history
<1>5. StoredInv'
  BY <1>1, <1>3 DEF StoredInv, FreshKey, history
<1>6. SealedInv'
  BY <1>1, <1>3 DEF SealedInv, FreshKey, history, Creds
<1>7. ResetIsFinal'
  BY <1>1, <1>3 DEF ResetIsFinal, FreshKey, history, DiskTypeOK
<1>8. QED
  BY <1>2, <1>3, <1>4, <1>5, <1>6, <1>7 DEF Key, FreshKey, history

\* open_with_key_source of a new store, and the rotation of a reset.
LEMMA KeySteps ==
    ASSUME CeremonyInv, NEW k \in 1..MaxKey, NEW o \in Outcomes, OpenNew(k, o) \/ Rotate(k, o)
    PROVE  CeremonyInv'
<1>1. OpInv
  BY DEF CeremonyInv
<1>2. /\ DiskTypeOK' /\ StoredInv' /\ SealedInv' /\ ResetIsFinal'
      /\ Key # 0 => Key' # 0
      /\ o = "Ok" => /\ images'.keys = {Key'} /\ Key' # 0
                     /\ \A c \in Creds : told'[c] # Key' /\ sealedBy'[c] # Key'
  BY KeyWritten DEF OpenNew, Rotate
<1>3. told' = told /\ last' = last /\ erased' = erased
  BY DEF OpenNew, Rotate, history
<1>4. ASSUME op' = Idle, authority' = "Read" => Key' # 0 PROVE CeremonyInv'
  <2>1. OpInv' /\ op'.step = "idle"
    BY <1>1, <1>3, <1>4, IdleOp
  <2>2. RotationInv' /\ SignedInv'
    BY <2>1 DEF RotationInv, SignedInv
  <2>3. QED
    BY <1>2, <2>1, <2>2 DEF CeremonyInv
<1>5. CASE OpenNew(k, o)
  BY <1>1, <1>2, <1>4, <1>5 DEF OpenNew, OpInv
<1>6. CASE Rotate(k, o) /\ o = "Ok"
  <2>1. op \in Resetting
    BY <1>1, <1>6 DEF Rotate, OpInv, Idle, Making, Asserting
  <2>2. op' = [op EXCEPT !.step = "purge"] /\ authority' = authority
    BY <1>6 DEF Rotate
  <2>3. op' \in Resetting /\ op' \notin Making /\ op' \notin Asserting /\ op'.step = "purge"
    BY <2>1, <2>2 DEF Making, Asserting, Resetting
  <2>4. OpInv'
    <3>1. authority # "down"
      BY <1>1, <2>1 DEF OpInv, Resetting, Idle
    <3>2. QED
      BY <1>1, <1>2, <1>3, <2>2, <2>3, <3>1 DEF OpInv
  <2>5. RotationInv' /\ SignedInv'
    BY <1>2, <1>6, <2>3 DEF RotationInv, SignedInv
  <2>6. QED
    BY <1>2, <2>4, <2>5 DEF CeremonyInv
<1>7. CASE Rotate(k, o) /\ o # "Ok"
  <2>1. op' = Idle /\ Reconciled
    BY <1>7 DEF Rotate, Return
  <2>2. authority' = "Read" => Key' # 0
    BY <1>1, <1>2, <2>1 DEF Reconciled, OpInv
  <2>3. QED
    BY <1>4, <2>1, <2>2
<1>8. QED
  BY <1>5, <1>6, <1>7

\* A write to the root directory that keeps the counter for those that count on it.
LEMMA RootWritten ==
    ASSUME CeremonyInv, NEW v \in Roots, NEW o, Write("root", v, o),
           told' = told, last' = last, erased' \subseteq Creds,
           sealedBy' \in [Creds -> 0..MaxKey],
           \A c \in Sealed : last[c] # 0 => sealedBy'[c] = sealedBy[c],
           \A c \in Sealed : last[c] # 0 /\ sealedBy[c] \in images.keys =>
               v.counter.key = sealedBy[c] /\ last[c] <= v.counter.count
    PROVE  /\ DiskTypeOK' /\ StoredInv' /\ SealedInv'
           /\ Key' = Key /\ images'.keys = images.keys /\ disk'.records = disk.records
           /\ o = "Ok" => images'.root = {v} /\ disk'.root = v
<1>1. DiskTypeOK /\ StoredInv /\ SealedInv
  BY DEF CeremonyInv
<1>2. /\ disk' \in [keys : 0..MaxKey, root : Roots, records : Records]
      /\ images' = [d \in Directories |-> images'[d]]
      /\ images'.root \in SUBSET Roots /\ disk'.root \in images'.root
      /\ disk'.keys = disk.keys /\ disk'.records = disk.records
      /\ images'.keys = images.keys /\ images'.records = images.records
      /\ images'.root \subseteq images.root \cup {v}
      /\ o = "Ok" => images'.root = {v} /\ disk'.root = v
  BY <1>1, WriteRoot
<1>3. DiskTypeOK'
  BY <1>1, <1>2 DEF DiskTypeOK
<1>4. StoredInv'
  BY <1>1, <1>2 DEF StoredInv
<1>5. SealedInv'
  <2> SUFFICES ASSUME NEW c \in Sealed, last[c] # 0
               PROVE  /\ sealedBy'[c] # 0
                      /\ \A r \in images'.root : sealedBy'[c] \in images'.keys =>
                            r.counter.key = sealedBy'[c] /\ last[c] <= r.counter.count
    BY DEF SealedInv
  <2>1. QED
    BY <1>1, <1>2 DEF SealedInv
<1>6. QED
  BY <1>2, <1>3, <1>4, <1>5 DEF Key

\* A write of the records that keeps the counts of those that open.
LEMMA RecordsWritten ==
    ASSUME CeremonyInv, NEW v \in Records, NEW o, Write("records", v, o),
           UNCHANGED <<sealedBy, history>>,
           \A c \in Stored : last[c] # 0 /\ v[c].key \in images.keys => last[c] <= v[c].count
    PROVE  /\ DiskTypeOK' /\ StoredInv' /\ SealedInv' /\ ResetIsFinal'
           /\ Key' = Key /\ images'.keys = images.keys /\ disk'.root = disk.root
           /\ o = "Ok" => images'.records = {v} /\ disk'.records = v
<1>1. DiskTypeOK /\ StoredInv /\ SealedInv /\ ResetIsFinal
  BY DEF CeremonyInv
<1>2. /\ disk' \in [keys : 0..MaxKey, root : Roots, records : Records]
      /\ images' = [d \in Directories |-> images'[d]]
      /\ images'.records \in SUBSET Records /\ disk'.records \in images'.records
      /\ disk'.keys = disk.keys /\ disk'.root = disk.root
      /\ images'.keys = images.keys /\ images'.root = images.root
      /\ images'.records \subseteq images.records \cup {v}
      /\ o = "Ok" => images'.records = {v} /\ disk'.records = v
  BY <1>1, WriteRecords
<1>3. DiskTypeOK'
  BY <1>1, <1>2 DEF DiskTypeOK, history
<1>4. StoredInv'
  BY <1>1, <1>2 DEF StoredInv, history
<1>5. SealedInv' /\ ResetIsFinal'
  BY <1>1, <1>2 DEF SealedInv, ResetIsFinal, history
<1>6. QED
  BY <1>2, <1>3, <1>4, <1>5 DEF Key

\* What the root directory's files are now keeps the counter.
LEMMA CounterNow ==
    ASSUME CeremonyInv
    PROVE  \A c \in Sealed : last[c] # 0 /\ sealedBy[c] \in images.keys =>
               disk.root.counter.key = sealedBy[c] /\ last[c] <= disk.root.counter.count
  BY DEF CeremonyInv, SealedInv, DiskTypeOK

\* A step that ends the request, with the files in order.
LEMMA EndsInOrder ==
    ASSUME OpInv, DiskTypeOK', StoredInv', SealedInv', ResetIsFinal', op' = Idle,
           authority' = "Read" => Key' # 0, told' = told, erased' = erased
    PROVE  CeremonyInv'
<1>1. OpInv' /\ op'.step = "idle"
  BY IdleOp
<1>2. RotationInv' /\ SignedInv'
  BY <1>1 DEF RotationInv, SignedInv
<1>3. QED
  BY <1>1, <1>2 DEF CeremonyInv

\* seal_credential: the new ID is under the key, and nothing was counted for it.
LEMMA SealKeeps ==
    ASSUME CeremonyInv, NEW o \in Outcomes, SealCredential(o)
    PROVE  CeremonyInv'
<1>1. OpInv /\ DiskTypeOK /\ ResetIsFinal /\ op.step = "seal"
  BY DEF CeremonyInv, SealCredential
<1>2. op \in Making /\ op \notin Asserting /\ op.id \in Creds /\ Key \in 1..MaxKey /\ last[op.id] = 0
  BY <1>1, CeremonyAssumption DEF OpInv, Idle, Making, Asserting, Resetting, DiskTypeOK, Key
<1>3. UNCHANGED <<told, last, erased, authority>>
  BY DEF SealCredential, history
<1>4. /\ sealedBy' \in [Creds -> 0..MaxKey]
      /\ \A c \in Creds : last[c] # 0 => sealedBy'[c] = sealedBy[c]
  BY <1>1, <1>2 DEF SealCredential, DiskTypeOK
<1>5. DiskTypeOK' /\ StoredInv' /\ SealedInv' /\ Key' = Key /\ images'.keys = images.keys
  <2>1. CASE Write("root", [disk.root EXCEPT !.pin = Key], o)
    <3> DEFINE v == [disk.root EXCEPT !.pin = Key]
    <3>1. v \in Roots /\ v.counter = disk.root.counter
      BY <1>1, <1>2 DEF DiskTypeOK, Roots
    <3> HIDE DEF v
    <3>2. QED
      BY <1>1, <1>3, <1>4, <2>1, <3>1, RootWritten, CounterNow DEF v, DiskTypeOK, Creds
  <2>2. CASE UNCHANGED <<disk, images>>
    <3>1. DiskTypeOK'
      BY <1>1, <1>3, <1>4, <2>2 DEF DiskTypeOK
    <3>2. StoredInv'
      BY <1>3, <2>2 DEF CeremonyInv, StoredInv
    <3>3. SealedInv'
      BY <1>3, <1>4, <2>2 DEF CeremonyInv, SealedInv, Creds
    <3>4. QED
      BY <2>2, <3>1, <3>2, <3>3 DEF Key
  <2>3. QED
    BY <2>1, <2>2 DEF SealCredential
<1>6. ResetIsFinal'
  BY <1>1, <1>3, <1>5 DEF ResetIsFinal
<1>7. CASE op' = Idle
  BY <1>1, <1>3, <1>5, <1>6, <1>7, EndsInOrder DEF OpInv
<1>8. CASE op' = [op EXCEPT !.step = "answer"]
  <2>1. op' \in Making /\ op' \notin Asserting /\ op'.step = "answer" /\ op'.id = op.id
    BY <1>2, <1>8 DEF Making, Asserting
  <2>2. OpInv'
    BY <1>1, <1>2, <1>3, <1>5, <2>1 DEF OpInv, Idle
  <2>3. RotationInv' /\ SignedInv'
    BY <2>1 DEF RotationInv, SignedInv
  <2>4. QED
    BY <1>5, <1>6, <2>2, <2>3 DEF CeremonyInv
<1>9. QED
  BY <1>7, <1>8 DEF SealCredential, Return

\* store_new_credential: the record is new, and nothing was counted for it.
LEMMA StoreKeeps ==
    ASSUME CeremonyInv, NEW o \in Outcomes, NEW managed \in BOOLEAN, StoreNewCredential(o, managed)
    PROVE  CeremonyInv'
<1>1. OpInv /\ DiskTypeOK /\ StoredInv /\ op.step = "store"
  BY DEF CeremonyInv, StoreNewCredential
<1>2. op \in Making /\ op \notin Asserting /\ op.id \in Creds /\ Key \in 1..MaxKey /\ last[op.id] = 0
  BY <1>1, CeremonyAssumption DEF OpInv, Idle, Making, Asserting, Resetting, DiskTypeOK, Key
<1>3. UNCHANGED <<told, last, erased, sealedBy, authority>>
  BY DEF StoreNewCredential, history
<1> DEFINE f == [key |-> Key, count |-> 0]
           v == [disk.records EXCEPT ![op.id] = f]
<1>4. f \in Files
  BY <1>2, CeremonyAssumption DEF Files
<1>5. Write("records", v, o)
  BY DEF StoreNewCredential
<1> HIDE DEF f
<1>6. /\ v \in Records
      /\ \A c \in Stored : last[c] # 0 => v[c] = disk.records[c]
  BY <1>1, <1>2, <1>4 DEF DiskTypeOK, Records
<1> HIDE DEF v
<1>7. \A c \in Stored : last[c] # 0 /\ v[c].key \in images.keys => last[c] <= v[c].count
  BY <1>1, <1>6 DEF StoredInv, DiskTypeOK
<1>8. DiskTypeOK' /\ StoredInv' /\ SealedInv' /\ ResetIsFinal' /\ Key' = Key
  BY <1>3, <1>5, <1>6, <1>7, RecordsWritten DEF history
<1>9. CASE op' = Idle
  BY <1>1, <1>3, <1>8, <1>9, EndsInOrder DEF OpInv
<1>10. CASE op' = [op EXCEPT !.step = "answer"]
  <2>1. op' \in Making /\ op' \notin Asserting /\ op'.step = "answer" /\ op'.id = op.id
    BY <1>2, <1>10 DEF Making, Asserting
  <2>2. OpInv'
    BY <1>1, <1>2, <1>3, <1>8, <2>1 DEF OpInv, Idle
  <2>3. RotationInv' /\ SignedInv'
    BY <2>1 DEF RotationInv, SignedInv
  <2>4. QED
    BY <1>8, <2>2, <2>3 DEF CeremonyInv
<1>11. QED
  BY <1>9, <1>10 DEF StoreNewCredential

\* A registration is answered: the credential is of the key, and no reset has
\* reported it gone.
LEMMA AnswerRegistrationKeeps == CeremonyInv /\ AnswerRegistration => CeremonyInv'
<1> SUFFICES ASSUME CeremonyInv, AnswerRegistration PROVE CeremonyInv'
  OBVIOUS
<1>1. OpInv /\ DiskTypeOK /\ ResetIsFinal /\ op.step = "answer"
  BY DEF CeremonyInv, AnswerRegistration
<1>2. op \in Making /\ op.id \in Creds /\ Key \in 1..MaxKey /\ told[op.id] = 0
  BY <1>1, CeremonyAssumption DEF OpInv, Idle, Making, Asserting, Resetting, DiskTypeOK, Key
<1>3. /\ UNCHANGED <<disk, images, authority, sealedBy, last, erased>> /\ op' = Idle
      /\ told' = [told EXCEPT ![op.id] = Key]
  BY DEF AnswerRegistration, Return
<1>4. told' \in [Creds -> 0..MaxKey] /\ \A c \in erased : told'[c] = told[c]
  BY <1>1, <1>2, <1>3 DEF DiskTypeOK, OpInv
<1>5. DiskTypeOK'
  BY <1>1, <1>3, <1>4 DEF DiskTypeOK
<1>6. StoredInv' /\ SealedInv' /\ ResetIsFinal'
  BY <1>3, <1>4 DEF CeremonyInv, StoredInv, SealedInv, ResetIsFinal
<1>7. op'.step = "idle" /\ op' \notin Making /\ op' \notin Asserting
  BY <1>3 DEF Idle, Making, Asserting
<1>8. OpInv' /\ RotationInv' /\ SignedInv'
  BY <1>1, <1>3, <1>4, <1>7 DEF OpInv, RotationInv, SignedInv, Key
<1>9. QED
  BY <1>5, <1>6, <1>8 DEF CeremonyInv

\* saturating_add stays within the counter and grows until it cannot.
LEMMA NextCountFacts ==
    ASSUME NEW n \in 0..MaxCount
    PROVE  /\ NextCount(n) \in 0..MaxCount /\ n <= NextCount(n)
           /\ \A m \in 0..n : NextCount(n) > m \/ (m = MaxCount /\ NextCount(n) = MaxCount)
  BY CeremonyAssumption DEF NextCount

\* A credential that opens has a count no smaller than the last sent.
LEMMA FoundCount ==
    ASSUME CeremonyInv, NEW c \in Creds, Found(c)
    PROVE  Count(c) \in 0..MaxCount /\ last[c] \in 0..Count(c)
<1>1. DiskTypeOK /\ StoredInv /\ SealedInv /\ last[c] \in 0..MaxCount
  BY DEF CeremonyInv, DiskTypeOK
<1>2. CASE c \in Sealed
  <2>1. Count(c) = disk.root.counter.count /\ sealedBy[c] = Key /\ Key \in images.keys
    BY <1>1, <1>2 DEF Count, Found, DiskTypeOK, Key
  <2>2. disk.root.counter.count \in 0..MaxCount
    BY <1>1 DEF DiskTypeOK, Roots, Files
  <2>3. last[c] # 0 => last[c] <= disk.root.counter.count
    BY <1>2, <2>1, CounterNow
  <2>4. QED
    BY <1>1, <2>1, <2>2, <2>3
<1>3. CASE c \notin Sealed
  <2>1. c \in Stored /\ Count(c) = disk.records[c].count /\ disk.records[c].key = Key /\ Key \in images.keys
    BY <1>1, <1>3 DEF Count, Found, DiskTypeOK, Key, Creds
  <2>2. disk.records[c].count \in 0..MaxCount
    BY <1>1, <2>1 DEF DiskTypeOK, Records, Files
  <2>3. last[c] # 0 => last[c] <= disk.records[c].count
    BY <1>1, <2>1 DEF StoredInv, DiskTypeOK
  <2>4. QED
    BY <1>1, <2>1, <2>2, <2>3
<1>4. QED
  BY <1>2, <1>3

\* advance_signature_counter: the next count is saved before it is signed.
LEMMA AdvanceKeeps ==
    ASSUME CeremonyInv, NEW o \in Outcomes, AdvanceSignatureCounter(o)
    PROVE  CeremonyInv'
<1>1. OpInv /\ DiskTypeOK /\ StoredInv /\ SealedInv /\ ResetIsFinal /\ op.step = "count"
  BY DEF CeremonyInv, AdvanceSignatureCounter
<1>2. op \in Asserting /\ op \notin Making /\ op.id \in Creds /\ Found(op.id)
  BY <1>1 DEF OpInv, Idle, Making, Asserting, Resetting
<1>3. Key \in 1..MaxKey
  BY <1>1, <1>2, CeremonyAssumption DEF DiskTypeOK, Key, Found
<1>4. UNCHANGED <<told, last, erased, sealedBy, authority>>
  BY DEF AdvanceSignatureCounter, history
<1> DEFINE n == NextCount(Count(op.id))
           file == [key |-> Key, count |-> n]
<1>5. /\ n \in 0..MaxCount /\ Count(op.id) \in 0..MaxCount /\ Count(op.id) <= n
      /\ n > last[op.id] \/ (last[op.id] = MaxCount /\ n = MaxCount)
      /\ last[op.id] <= n
  BY <1>2, FoundCount, NextCountFacts
<1>6. file \in Files /\ file.key = Key /\ file.count = n
  BY <1>3, <1>5 DEF Files
<1>7. /\ DiskTypeOK' /\ StoredInv' /\ SealedInv' /\ ResetIsFinal' /\ Key' = Key
      /\ o = "Ok" => /\ Found(op.id)' \/ op'.id # op.id
                     /\ op.id \in Stored => images'.records = {disk'.records} /\ disk'.records[op.id] = file
                     /\ op.id \in Sealed => images'.root = {disk'.root} /\ disk'.root.counter = file
  <2>1. CASE op.id \in Sealed
    <3> DEFINE v == [disk.root EXCEPT !.counter = file]
    <3>1. Write("root", v, o) /\ disk.root.counter.key \in {0, Key}
      BY <2>1 DEF AdvanceSignatureCounter, Reads
    <3>2. Count(op.id) = disk.root.counter.count
      BY <2>1 DEF Count
    <3> HIDE DEF file, n
    <3>3. v \in Roots /\ v.counter = file
      BY <1>1, <1>6 DEF DiskTypeOK, Roots
    <3> HIDE DEF v
    <3>4. ASSUME NEW c \in Sealed, last[c] # 0, sealedBy[c] \in images.keys
          PROVE  v.counter.key = sealedBy[c] /\ last[c] <= v.counter.count
      <4>1. disk.root.counter.key = sealedBy[c] /\ last[c] <= disk.root.counter.count /\ sealedBy[c] # 0
        BY <1>1, <3>4, CounterNow DEF SealedInv
      <4>2. last[c] \in 0..MaxCount
        BY <1>1, <3>4 DEF DiskTypeOK, Creds
      <4>3. QED
        BY <1>5, <1>6, <3>1, <3>2, <3>3, <4>1, <4>2
    <3>5. erased' \subseteq Creds /\ sealedBy' \in [Creds -> 0..MaxKey]
      BY <1>1, <1>4 DEF DiskTypeOK
    <3>6. /\ DiskTypeOK' /\ StoredInv' /\ SealedInv'
          /\ Key' = Key /\ images'.keys = images.keys /\ disk'.records = disk.records
          /\ o = "Ok" => images'.root = {v} /\ disk'.root = v
      BY <1>4, <3>1, <3>3, <3>4, <3>5, RootWritten
    <3>7. ResetIsFinal'
      BY <1>1, <1>4, <3>6 DEF ResetIsFinal
    <3>8. op.id \notin Stored
      BY <2>1, CeremonyAssumption
    <3>9. op'.id = op.id => Found(op.id)'
      BY <1>2, <1>4, <2>1, <3>6 DEF Found
    <3>10. QED
      BY <3>3, <3>6, <3>7, <3>8, <3>9
  <2>2. CASE op.id \notin Sealed
    <3> DEFINE v == [disk.records EXCEPT ![op.id] = file]
    <3>1. Write("records", v, o)
      BY <2>2 DEF AdvanceSignatureCounter
    <3>2. op.id \in Stored
      BY <1>2, <2>2 DEF Creds
    <3> HIDE DEF file, n
    <3>3. /\ v \in Records /\ v[op.id] = file
          /\ \A c \in Stored \ {op.id} : v[c] = disk.records[c]
      BY <1>1, <1>6, <3>2 DEF DiskTypeOK, Records
    <3> HIDE DEF v
    <3>4. \A c \in Stored : last[c] # 0 /\ v[c].key \in images.keys => last[c] <= v[c].count
      BY <1>1, <1>5, <1>6, <3>3 DEF StoredInv, DiskTypeOK
    <3>5. /\ DiskTypeOK' /\ StoredInv' /\ SealedInv' /\ ResetIsFinal'
          /\ Key' = Key
          /\ o = "Ok" => images'.records = {v} /\ disk'.records = v
      BY <1>4, <3>1, <3>3, <3>4, RecordsWritten DEF history
    <3>6. o = "Ok" /\ op'.id = op.id => Found(op.id)'
      BY <1>3, <1>6, <2>2, <3>3, <3>5 DEF Found
    <3>7. QED
      BY <2>2, <3>3, <3>5, <3>6
  <2>3. QED
    BY <2>1, <2>2
<1> HIDE DEF file, n
<1>8. CASE o # "Ok"
  <2>1. op' = Idle
    BY <1>8 DEF AdvanceSignatureCounter
  <2>2. QED
    BY <1>1, <1>4, <1>7, <2>1, EndsInOrder DEF OpInv
<1>9. CASE o = "Ok"
  <2>1. op' = [op EXCEPT !.step = "signed"]
    BY <1>9 DEF AdvanceSignatureCounter
  <2>2. op' \in Asserting /\ op' \notin Making /\ op'.step = "signed" /\ op'.id = op.id
    BY <1>2, <2>1 DEF Making, Asserting
  <2>3. OpInv'
    BY <1>1, <1>2, <1>4, <1>7, <1>9, <2>2 DEF OpInv, Idle
  <2>4. RotationInv'
    BY <2>2 DEF RotationInv
  <2>5. Count(op.id)' = n
    BY <1>2, <1>6, <1>7, <1>9, <2>2 DEF Count, Creds
  <2>6. SignedInv'
    BY <1>4, <1>5, <1>6, <1>7, <1>9, <2>2, <2>5 DEF SignedInv, CountsGrow
  <2>7. QED
    BY <1>7, <2>3, <2>4, <2>6 DEF CeremonyInv
<1>10. QED
  BY <1>8, <1>9

\* An assertion is answered: the count sent is the one every image has.
LEMMA AnswerAssertionKeeps == CeremonyInv /\ AnswerAssertion => CeremonyInv'
<1> SUFFICES ASSUME CeremonyInv, AnswerAssertion PROVE CeremonyInv'
  OBVIOUS
<1>1. OpInv /\ DiskTypeOK /\ StoredInv /\ SealedInv /\ SignedInv /\ ResetIsFinal /\ op.step = "signed"
  BY DEF CeremonyInv, AnswerAssertion
<1>2. op \in Asserting /\ op.id \in Creds /\ Found(op.id)
  BY <1>1 DEF OpInv, Idle, Making, Asserting, Resetting
<1>3. /\ UNCHANGED <<disk, images, authority, sealedBy, told, erased>> /\ op' = Idle
      /\ last' = [last EXCEPT ![op.id] = Count(op.id)]
  BY DEF AnswerAssertion, Return
<1> DEFINE n == Count(op.id)
<1>4. n \in 0..MaxCount
  BY <1>2, FoundCount
<1>5. /\ op.id \in Stored => n = disk.records[op.id].count
      /\ op.id \in Sealed => n = disk.root.counter.count
  BY CeremonyAssumption DEF Count
<1> HIDE DEF n
<1>6. last' \in [Creds -> 0..MaxCount] /\ last'[op.id] = n /\ \A c \in Creds \ {op.id} : last'[c] = last[c]
  BY <1>1, <1>2, <1>3, <1>4 DEF DiskTypeOK, n
<1>7. DiskTypeOK'
  BY <1>1, <1>3, <1>6 DEF DiskTypeOK
<1>8. StoredInv'
  <2> SUFFICES ASSUME NEW c \in Stored, NEW k \in images.keys, NEW r \in images.records,
                      last'[c] # 0, r[c].key = k
               PROVE  last'[c] <= r[c].count
    BY <1>3 DEF StoredInv
  <2>1. CASE c = op.id
    BY <1>1, <1>4, <1>5, <1>6, <2>1 DEF SignedInv
  <2>2. CASE c # op.id
    BY <1>1, <1>6, <2>2 DEF StoredInv, Creds
  <2>3. QED
    BY <2>1, <2>2
<1>9. SealedInv'
  <2> SUFFICES ASSUME NEW c \in Sealed, last'[c] # 0
               PROVE  /\ sealedBy[c] # 0
                      /\ \A r \in images.root : sealedBy[c] \in images.keys =>
                            r.counter.key = sealedBy[c] /\ last'[c] <= r.counter.count
    BY <1>3 DEF SealedInv
  <2>1. CASE c = op.id
    <3>1. sealedBy[c] = Key /\ Key # 0
      BY <1>2, <2>1 DEF Found
    <3>2. QED
      BY <1>1, <1>4, <1>5, <1>6, <2>1, <3>1 DEF SignedInv
  <2>2. CASE c # op.id
    BY <1>1, <1>6, <2>2 DEF SealedInv, Creds
  <2>3. QED
    BY <2>1, <2>2
<1>10. ResetIsFinal'
  BY <1>1, <1>3 DEF ResetIsFinal
<1>11. authority' = "Read" => Key' # 0
  BY <1>1, <1>3 DEF OpInv, Key
<1>12. QED
  BY <1>1, <1>3, <1>7, <1>8, <1>9, <1>10, <1>11, EndsInOrder

\* The steps of clear after the rotation, in each of which the key is the reset's own.
LEMMA PurgeKeeps ==
    ASSUME CeremonyInv,
           \/ \E left \in SUBSET Stored, o \in Outcomes : PurgeRecords(left, o)
           \/ \E o \in Outcomes : RemoveCounter(o) \/ WriteDefaults(o)
    PROVE  CeremonyInv'
<1>1. OpInv /\ DiskTypeOK /\ StoredInv /\ SealedInv /\ ResetIsFinal
  BY DEF CeremonyInv
<1>2. /\ op.step \in {"purge", "counter", "defaults"} /\ images.keys = {Key} /\ Key # 0
      /\ \A c \in Creds : told[c] # Key /\ sealedBy[c] # Key
  BY DEF CeremonyInv, RotationInv, PurgeRecords, RemoveCounter, WriteDefaults
<1>3. op \in Resetting /\ op \notin Making /\ op \notin Asserting /\ authority # "down"
  BY <1>1, <1>2 DEF OpInv, Idle, Making, Asserting, Resetting
<1>4. /\ told' = told /\ last' = last /\ sealedBy' = sealedBy
      /\ erased' \in {erased, erased \cup {c \in Creds : told[c] # 0}}
  BY DEF PurgeRecords, RemoveCounter, WriteDefaults, history
<1>5. DiskTypeOK' /\ StoredInv' /\ SealedInv' /\ Key' = Key /\ images'.keys = images.keys
  <2>1. CASE \E left \in SUBSET Stored, o \in Outcomes : PurgeRecords(left, o)
    <3>1. PICK left \in SUBSET Stored, o \in Outcomes : PurgeRecords(left, o)
      BY <2>1
    <3> DEFINE v == [c \in Stored |-> IF c \in left THEN disk.records[c] ELSE NoFile]
    <3>2. PICK p : Write("records", v, p)
      BY <3>1 DEF PurgeRecords
    <3>3. NoFile \in Files /\ NoFile.key = 0
      BY CeremonyAssumption DEF NoFile, Files
    <3>4. v \in Records /\ \A c \in Stored : v[c] = disk.records[c] \/ v[c].key = 0
      BY <1>1, <3>3 DEF DiskTypeOK, Records
    <3> HIDE DEF v
    <3>5. \A c \in Stored : last[c] # 0 /\ v[c].key \in images.keys => last[c] <= v[c].count
      BY <1>1, <1>2, <3>4 DEF StoredInv, DiskTypeOK
    <3>6. UNCHANGED <<sealedBy, history>>
      BY <3>1 DEF PurgeRecords
    <3>7. QED
      BY <3>2, <3>4, <3>5, <3>6, RecordsWritten
  <2>2. CASE \E o \in Outcomes : RemoveCounter(o) \/ WriteDefaults(o)
    <3>1. PICK v, p : Write("root", v, p) /\ v \in Roots
      <4>1. PICK o \in Outcomes : RemoveCounter(o) \/ WriteDefaults(o)
        BY <2>2
      <4>2. [disk.root EXCEPT !.counter = NoFile] \in Roots
        BY <1>1, CeremonyAssumption DEF DiskTypeOK, Roots, NoFile, Files
      <4>3. [disk.root EXCEPT !.pin = Key] \in Roots
        BY <1>1 DEF DiskTypeOK, Roots, Key
      <4>4. QED
        BY <4>1, <4>2, <4>3 DEF RemoveCounter, WriteDefaults
    <3>2. \A c \in Sealed : ~(last[c] # 0 /\ sealedBy[c] \in images.keys)
      BY <1>2 DEF Creds
    <3>3. erased' \subseteq Creds /\ sealedBy' \in [Creds -> 0..MaxKey]
      BY <1>1, <1>4 DEF DiskTypeOK
    <3>4. QED
      BY <1>4, <3>1, <3>2, <3>3, RootWritten
  <2>3. QED
    BY <2>1, <2>2
<1>6. ResetIsFinal' /\ \A c \in erased' : told'[c] # 0
  BY <1>1, <1>2, <1>4, <1>5 DEF ResetIsFinal, DiskTypeOK, OpInv
<1>7. CASE op' = Idle
  <2>1. op'.step = "idle" /\ op' \notin Making /\ op' \notin Asserting
    BY <1>7 DEF Idle, Making, Asserting
  <2>2. OpInv' /\ RotationInv' /\ SignedInv'
    BY <1>2, <1>5, <1>6, <1>7, <2>1 DEF OpInv, RotationInv, SignedInv
  <2>3. QED
    BY <1>5, <1>6, <2>2 DEF CeremonyInv
<1>8. CASE op' # Idle
  <2>1. PICK q \in {"counter", "defaults"} : op' = [op EXCEPT !.step = q] /\ authority' = authority
    BY <1>8 DEF PurgeRecords, RemoveCounter, WriteDefaults, Return
  <2>2. op' \in Resetting /\ op' \notin Making /\ op' \notin Asserting /\ op'.step = q
    BY <1>3, <2>1 DEF Making, Asserting, Resetting
  <2>3. OpInv' /\ SignedInv'
    BY <1>2, <1>3, <1>5, <1>6, <2>1, <2>2 DEF OpInv, SignedInv
  <2>4. RotationInv'
    BY <1>2, <1>4, <1>5 DEF RotationInv
  <2>5. QED
    BY <1>5, <1>6, <2>3, <2>4 DEF CeremonyInv
<1>9. QED
  BY <1>7, <1>8

\* Power loss leaves one image of each directory.
LEMMA PowerLossKeeps ==
    ASSUME CeremonyInv, NEW s \in Snapshots, PowerLoss(s)
    PROVE  CeremonyInv'
<1>1. OpInv /\ DiskTypeOK /\ StoredInv /\ SealedInv /\ ResetIsFinal
  BY DEF CeremonyInv
<1>2. /\ disk' = s /\ images' = [d \in Directories |-> {s[d]}] /\ authority' = "down" /\ op' = Idle
      /\ told' = told /\ last' = last /\ erased' = erased /\ sealedBy' = sealedBy
  BY DEF PowerLoss, Return, history
<1>3. s.keys \in images.keys /\ s.root \in images.root /\ s.records \in images.records
  BY DEF Snapshots
<1>4. images'.keys = {s.keys} /\ images'.root = {s.root} /\ images'.records = {s.records}
  BY <1>2 DEF Directories
<1>5. s \in [keys : 0..MaxKey, root : Roots, records : Records]
  BY <1>1, <1>3 DEF Snapshots, DiskTypeOK
<1>6. DiskTypeOK'
  <2>1. images' = [d \in Directories |-> images'[d]]
    BY <1>2
  <2>2. QED
    BY <1>1, <1>2, <1>4, <1>5, <2>1 DEF DiskTypeOK
<1>7. StoredInv' /\ SealedInv' /\ ResetIsFinal'
  BY <1>1, <1>2, <1>3, <1>4 DEF StoredInv, SealedInv, ResetIsFinal
<1>8. QED
  BY <1>1, <1>2, <1>6, <1>7, EndsInOrder
-----------------------------------------------------------------------------
(* The theorems *)

\* Any sequence of requests, failures, restarts and power losses stays within the
\* invariant.
THEOREM Invariance == Spec => []CeremonyInv
<1>1. Init => CeremonyInv
  <2> SUFFICES ASSUME Init PROVE CeremonyInv
    OBVIOUS
  <2>1. NoFile \in Files /\ NoFile.key = 0
    BY CeremonyAssumption DEF NoFile, Files
  <2>2. /\ disk.keys = 0 /\ disk.root = [pin |-> 0, counter |-> NoFile]
        /\ disk.records = [c \in Stored |-> NoFile]
    BY DEF Init
  <2>3. images.keys = {disk.keys} /\ images.root = {disk.root} /\ images.records = {disk.records}
    BY DEF Init, Directories
  <2>4. DiskTypeOK
    <3>1. disk \in [keys : 0..MaxKey, root : Roots, records : Records]
      BY <2>1, CeremonyAssumption DEF Init, Roots, Records
    <3>2. images = [d \in Directories |-> images[d]]
      BY DEF Init
    <3>3. sealedBy \in [Creds -> 0..MaxKey] /\ told \in [Creds -> 0..MaxKey] /\ last \in [Creds -> 0..MaxCount]
      BY CeremonyAssumption DEF Init
    <3>4. QED
      BY <2>3, <3>1, <3>2, <3>3 DEF DiskTypeOK, Init
  <2>5. op.step = "idle" /\ op \notin Making /\ op \notin Asserting
    BY DEF Init, Idle, Making, Asserting
  <2>6. OpInv /\ RotationInv /\ SignedInv
    BY <2>5 DEF OpInv, RotationInv, SignedInv, Init
  <2>7. StoredInv /\ SealedInv /\ ResetIsFinal
    BY DEF StoredInv, SealedInv, ResetIsFinal, Init, Creds
  <2>8. QED
    BY <2>4, <2>6, <2>7 DEF CeremonyInv
<1>2. CeremonyInv /\ [Next]_vars => CeremonyInv'
  <2> SUFFICES ASSUME CeremonyInv, [Next]_vars PROVE CeremonyInv'
    OBVIOUS
  <2>1. CASE UNCHANGED vars
    <3>1. UNCHANGED <<disk, images, sealedBy, told, last, erased, op, authority>>
      BY <2>1 DEF vars
    <3>2. DiskTypeOK'
      BY <3>1 DEF CeremonyInv, DiskTypeOK
    <3>3. OpInv' /\ RotationInv'
      BY <3>1 DEF CeremonyInv, OpInv, RotationInv, Key, Found
    <3>4. StoredInv' /\ SealedInv' /\ ResetIsFinal'
      BY <3>1 DEF CeremonyInv, StoredInv, SealedInv, ResetIsFinal
    <3>5. SignedInv'
      BY <3>1 DEF CeremonyInv, SignedInv, CountsGrow, Count, Key
    <3>6. QED
      BY <3>2, <3>3, <3>4, <3>5 DEF CeremonyInv
  <2>2. CASE \/ \E k \in 1..MaxKey, o \in Outcomes : OpenNew(k, o)
             \/ \E k \in 1..MaxKey, o \in Outcomes : Rotate(k, o)
    BY <2>2, KeySteps
  <2>3. CASE \/ \E o \in Outcomes : SealCredential(o)
             \/ \E o \in Outcomes, managed \in BOOLEAN : StoreNewCredential(o, managed)
             \/ AnswerRegistration
    BY <2>3, SealKeeps, StoreKeeps, AnswerRegistrationKeeps
  <2>4. CASE (\E o \in Outcomes : AdvanceSignatureCounter(o)) \/ AnswerAssertion
    BY <2>4, AdvanceKeeps, AnswerAssertionKeeps
  <2>5. CASE \/ \E left \in SUBSET Stored, o \in Outcomes : PurgeRecords(left, o)
             \/ \E o \in Outcomes : RemoveCounter(o)
             \/ \E o \in Outcomes : WriteDefaults(o)
    BY <2>5, PurgeKeeps
  <2>6. CASE \E s \in Snapshots : PowerLoss(s)
    BY <2>6, PowerLossKeeps
  <2>7. CASE \/ Open \/ ReadUnread
             \/ \E c \in Creds, exclude_list \in SUBSET Creds : MakeCredential(c, exclude_list)
             \/ \E c \in Creds : U2fRegister(c)
             \/ \E c \in Creds, up \in BOOLEAN : GetAssertion(c, up)
             \/ \E c \in Creds, control \in {3, 8} : U2fAuthenticate(c, control)
             \/ Reset \/ Approve \/ Fail \/ CounterUnreadable \/ ProcessExit
    BY <2>7, QuietSteps
  <2>8. QED
    BY <2>1, <2>2, <2>3, <2>4, <2>5, <2>6, <2>7 DEF Next
<1>3. QED
  BY <1>1, <1>2, PTL DEF Spec

\* The files, the authority and the request keep their types; what power loss may
\* leave is always something the store could have written.
THEOREM TypeCorrect == Spec => []TypeOK
<1> DEFINE A == authority \in {"down", "Read", "Unread", "Unreadable"}
<1>1. Init => A
  BY DEF Init
<1>2. A /\ [Next]_vars => A'
  <2> SUFFICES ASSUME A, [Next]_vars PROVE A'
    OBVIOUS
  <2>1. /\ LoadPinState \subseteq {"Read", "Unread", "Unreadable"}
        /\ LoadPinState' \subseteq {"Read", "Unread", "Unreadable"}
        /\ LoadedPinState \subseteq {"Read", "Unreadable"}
    BY DEF LoadPinState, LoadedPinState
  <2>2. Reconciled => A'
    BY <2>1 DEF Reconciled
  <2>3. QED
    BY <2>1, <2>2 DEF vars, Next, Open, OpenNew, ReadUnread, MakeCredential, U2fRegister, GetAssertion,
          U2fAuthenticate, Reset, Approve, Fail, SealCredential, StoreNewCredential, AnswerRegistration,
          AdvanceSignatureCounter, CounterUnreadable, AnswerAssertion, Rotate, PurgeRecords,
          RemoveCounter, WriteDefaults, ProcessExit, PowerLoss
<1>3. A /\ CeremonyInv => TypeOK
  <2> SUFFICES ASSUME A, CeremonyInv PROVE TypeOK
    OBVIOUS
  <2>1. DiskTypeOK /\ OpInv
    BY DEF CeremonyInv
  <2>2. /\ disk \in Snapshots
        /\ Snapshots \subseteq [keys : 0..MaxKey, root : Roots, records : Records]
    BY <2>1 DEF DiskTypeOK, Snapshots
  <2>3. op.step \in {"idle", "prompt", "seal", "store", "answer", "count", "signed",
                     "rotate", "purge", "counter", "defaults"}
    BY <2>1 DEF OpInv, Idle, Making, Asserting, Resetting
  <2>4. QED
    BY <2>2, <2>3 DEF TypeOK, Roots, Records
<1>4. QED
  BY <1>1, <1>2, <1>3, Invariance, PTL DEF Spec

\* A signature's count is larger than every one sent before it, or the largest there
\* is (advance_signature_counter, sign_assertion).
THEOREM CountsNeverRepeat == Spec => []CountsGrow
<1>1. CeremonyInv => CountsGrow
  BY DEF CeremonyInv, SignedInv, CountsGrow
<1>2. QED
  BY <1>1, Invariance, PTL

\* A count that was sent is on the disk, wherever its credential still is, whatever
\* power loss leaves.
THEOREM CountsAreSaved == Spec => []AnsweredIsSaved
<1>1. CeremonyInv => AnsweredIsSaved
  <2> SUFFICES ASSUME CeremonyInv, NEW s \in Snapshots, NEW c \in Creds, last[c] # 0
               PROVE  IF c \in Stored
                      THEN s.records[c].key = s.keys => s.records[c].count >= last[c]
                      ELSE s.keys = sealedBy[c] =>
                              s.root.counter.key = s.keys /\ s.root.counter.count >= last[c]
    BY DEF AnsweredIsSaved
  <2>1. s.keys \in images.keys /\ s.root \in images.root /\ s.records \in images.records
    BY DEF Snapshots
  <2>2. CASE c \in Stored
    <3>1. s.records[c].key = s.keys => last[c] <= s.records[c].count
      BY <2>1, <2>2 DEF CeremonyInv, StoredInv
    <3>2. s.records[c].count \in 0..MaxCount /\ last[c] \in 0..MaxCount
      BY <2>1, <2>2 DEF CeremonyInv, DiskTypeOK, Records, Files
    <3>3. QED
      BY <2>2, <3>1, <3>2
  <2>3. CASE c \notin Stored
    <3>1. s.keys = sealedBy[c] => s.root.counter.key = s.keys /\ last[c] <= s.root.counter.count
      BY <2>1, <2>3 DEF CeremonyInv, SealedInv, Creds
    <3>2. s.root.counter.count \in 0..MaxCount /\ last[c] \in 0..MaxCount
      BY <2>1 DEF CeremonyInv, DiskTypeOK, Roots, Files
    <3>3. QED
      BY <2>3, <3>1, <3>2
  <2>4. QED
    BY <2>2, <2>3
<1>2. QED
  BY <1>1, Invariance, PTL

\* What a reset reported gone opens under no key that the disk may have from then on
\* (clear).
THEOREM ResetsAreFinal == Spec => []ResetIsFinal
<1>1. CeremonyInv => ResetIsFinal
  BY DEF CeremonyInv
<1>2. QED
  BY <1>1, Invariance, PTL
=============================================================================
