------------------------------ MODULE Ceremony ------------------------------
(***************************************************************************)
(* Registering and signing, from the request to the disk (pqkey-ctap:      *)
(* ctap/make_credential.rs, get_assertion.rs, u2f.rs, credential_id.rs,    *)
(* storage.rs and reset.rs over store/file.rs and store/keys.rs): what a   *)
(* relying party has been told (a credential, a signature count) against   *)
(* what crashes, power loss, failed writes and resets leave of it.         *)
(*                                                                         *)
(* A credential is stored (discoverable or not) with a count of its own,   *)
(* or sealed: then its key is in its ID, under the credential key, and it  *)
(* counts on the one global counter.  A request is split at the prompt and *)
(* at each write.  Directories and power loss are as in CredentialStore:   *)
(* `disk' is what a running system sees, `images' what power loss may      *)
(* leave of each directory.  The directory flush is supported.             *)
(*                                                                         *)
(* Abstracted: which request parameters are well formed is module          *)
(* Engine's, the PIN and its tokens PinAuthority's and Engine's, the       *)
(* writes inside one change of the credential set CredentialStore's.  A    *)
(* request that fails before the prompt changes nothing and is left out.   *)
(***************************************************************************)
EXTENDS Integers, FiniteSets

CONSTANTS
    Stored,             \* IDs of the stored credentials there may be
    Sealed,             \* and of the sealed ones
    Discoverable,       \* is_discoverable
    MaxCount,           \* u32::MAX
    MaxKey,             \* bound: credential keys ever generated
    Faults              \* which of "io", "write", "flush", "crash", "power" happen

Creds == Stored \cup Sealed

ASSUME CeremonyAssumption ==
    /\ Stored \cap Sealed = {}
    /\ Discoverable \subseteq Stored
    /\ MaxCount \in Nat \ {0}
    /\ MaxKey \in Nat \ {0}

VARIABLES
    disk,       \* the directories, as seen
    images,     \* the contents of each that power loss may leave
    authority,  \* stored_pin_state, or "down" while no daemon runs
    op,         \* the request in progress
    sealedBy,   \* the key each sealed ID was made with; 0: not made
    told,       \* history: the key a credential was answered under; 0: never
    last,       \* history: the last count a credential's relying party was sent
    erased      \* history: the credentials a reset reported gone

vars == <<disk, images, authority, op, sealedBy, told, last, erased>>
history == <<told, last, erased>>
-----------------------------------------------------------------------------
(* Files: each is sealed under a generation of the credential key; 0: none *)

Files == [key : 0..MaxKey, count : 0..MaxCount]
NoFile == [key |-> 0, count |-> 0]

\* keys/ holds credential.key, the root pin-state and signature-counter.
Directories == {"keys", "root", "records"}

\* What power loss may leave: each directory on its own.
Snapshots == [keys : images.keys, root : images.root, records : images.records]

Outcomes ==
    {"Ok"} \cup (IF "write" \in Faults THEN {"Err"} ELSE {})
           \cup (IF "flush" \in Faults THEN {"Unflushed"} ELSE {})

\* replace_file and create_file_exclusive: the name appears, then its directory
\* is flushed.
Write(d, contents, outcome) ==
    IF outcome = "Err" THEN UNCHANGED <<disk, images>>
    ELSE /\ disk' = [disk EXCEPT ![d] = contents]
         /\ images' = [images EXCEPT ![d] = IF outcome = "Ok" THEN {contents}
                                            ELSE @ \cup {contents}]

Key == disk.keys

\* read_object: 0 if there is no file.
Reads(file) == file.key \in {0, Key}

\* load_pin_state, and closes_authority of a record that does not open.
LoadedPinState ==
    IF Key # 0 /\ disk.root.pin \in {0, Key} THEN {"Read"} ELSE {"Unreadable"}

\* Reading may fail for a moment (StoreError::Io).
LoadPinState == LoadedPinState \cup (IF "io" \in Faults THEN {"Unread"} ELSE {})
-----------------------------------------------------------------------------
(* The daemon starts, and what opening the store does *)

Idle == [step |-> "idle"]

Return == op' = Idle

FreshKey(k) ==
    /\ k \notin images.keys
    /\ \A r \in images.root : k \notin {r.pin, r.counter.key}
    /\ \A r \in images.records : \A c \in Stored : r[c].key # k
    /\ \A c \in Creds : k \notin {told[c], sealedBy[c]}

\* has_data: something is encrypted under the credential key.
HasData ==
    \/ \E c \in Stored : disk.records[c] # NoFile
    \/ disk.root.pin # 0 \/ disk.root.counter # NoFile

\* open_with_key_source, with a key that is there, or missing while there is data.
Open ==
    /\ authority = "down"
    /\ Key # 0 \/ HasData
    /\ authority' \in LoadPinState
    /\ UNCHANGED <<disk, images, op, sealedBy, history>>

\* open_with_key_source of a new store: root_key_for_write creates the key.  A
\* failed flush fails the start, and leaves the key.
OpenNew(k, outcome) ==
    /\ authority = "down"
    /\ Key = 0 /\ ~HasData
    /\ FreshKey(k)
    /\ Write("keys", k, outcome)
    /\ authority' = IF outcome = "Ok" THEN "Read" ELSE "down"
    /\ UNCHANGED <<op, sealedBy, history>>
-----------------------------------------------------------------------------
(* Requests, up to the prompt *)

\* read_pin_state_if_unread, and the always-UV that an unreadable state requires.
Authorized == authority = "Read"

\* A transient error is over: refresh_persistent_authority, by getInfo or as the
\* first step of another request.
ReadUnread ==
    /\ authority = "Unread" /\ op = Idle
    /\ authority' \in LoadedPinState
    /\ UNCHANGED <<disk, images, op, sealedBy, history>>

\* credential_for_rp and credential_for_hash: a sealed ID opens under the key that
\* made it, a stored one has a record that opens under the key.
Found(c) ==
    /\ Key # 0
    /\ IF c \in Sealed THEN sealedBy[c] = Key ELSE disk.records[c].key = Key

\* A random ID is new.
Unused(c) ==
    /\ told[c] = 0 /\ last[c] = 0 /\ sealedBy[c] = 0
    /\ c \in Stored => \A r \in images.records : r[c] = NoFile

\* handle_make_credential up to the prompt, with the credentials of excludeList.
\* With an excluded one the user is asked too, and nothing is made.
MakeCredential(c, exclude_list) ==
    /\ op = Idle /\ Authorized
    /\ Unused(c)
    /\ op' = [step |-> "prompt", cmd |-> "makeCredential", id |-> c,
              excluded |-> \E x \in exclude_list : Found(x)]
    /\ UNCHANGED <<disk, images, authority, sealedBy, history>>

\* u2f_register: presence comes first, and U2F is off while always-UV is required.
U2fRegister(c) ==
    /\ op = Idle /\ authority = "Read"
    /\ c \in Sealed /\ Unused(c)
    /\ op' = [step |-> "prompt", cmd |-> "makeCredential", id |-> c, excluded |-> FALSE]
    /\ UNCHANGED <<disk, images, authority, sealedBy, history>>

\* handle_get_assertion up to the prompt.  A silent one (up false) has none, and
\* always-UV does not hold it back.
GetAssertion(c, up) ==
    /\ op = Idle
    /\ authority \in {"Read", "Unreadable"}
    /\ up => Authorized
    /\ Found(c)
    /\ op' = [step |-> IF up THEN "prompt" ELSE "count", cmd |-> "getAssertion", id |-> c]
    /\ UNCHANGED <<disk, images, authority, sealedBy, history>>

\* u2f_authenticate with control 3 (presence) or 8 (none); 7 only looks.
U2fAuthenticate(c, control) ==
    /\ op = Idle /\ authority = "Read"
    /\ c \notin Discoverable /\ Found(c)
    /\ control \in {3, 8}
    /\ op' = [step |-> IF control = 3 THEN "prompt" ELSE "count",
              cmd |-> "getAssertion", id |-> c]
    /\ UNCHANGED <<disk, images, authority, sealedBy, history>>

\* handle_reset up to the prompt.
Reset ==
    /\ op = Idle /\ authority # "down"
    /\ op' = [step |-> "prompt", cmd |-> "reset"]
    /\ UNCHANGED <<disk, images, authority, sealedBy, history>>

\* confirm_user_presence
Approve ==
    /\ op.step = "prompt"
    /\ CASE op.cmd = "makeCredential" ->
              IF op.excluded THEN Return
              ELSE op' = [op EXCEPT !.step = IF op.id \in Sealed THEN "seal" ELSE "store"]
         [] op.cmd = "getAssertion" -> op' = [op EXCEPT !.step = "count"]
         [] op.cmd = "reset" -> op' = [op EXCEPT !.step = "rotate"]
    /\ UNCHANGED <<disk, images, authority, sealedBy, history>>

\* The user denies, or it times out or is cancelled; or, later on, an extension
\* input, the key generator, the signature or the size of the response fails.
Fail ==
    /\ \/ op.step \in {"prompt", "seal", "store", "signed"}
       \/ op.step = "answer" /\ op.id \in Sealed
    /\ Return
    /\ UNCHANGED <<disk, images, authority, sealedBy, history>>
-----------------------------------------------------------------------------
(* The rest of makeCredential *)

\* seal_credential and seal_credential_id: a PIN state, written if there is none
\* and only if it is flushed, marks that something depends on the key.
SealCredential(outcome) ==
    /\ op.step = "seal"
    /\ IF disk.root.pin = 0
       THEN Write("root", [disk.root EXCEPT !.pin = Key], outcome)
       ELSE outcome = "Ok" /\ UNCHANGED <<disk, images>>
    /\ IF outcome = "Ok"
       THEN /\ sealedBy' = [sealedBy EXCEPT ![op.id] = Key]
            /\ op' = [op EXCEPT !.step = "answer"]
       ELSE /\ UNCHANGED sealedBy
            /\ Return
    /\ UNCHANGED <<authority, history>>

\* store_new_credential: insert_or_replace_discoverable and, in the managed
\* layout, put take publication for success; put in the legacy one does not.
StoreNewCredential(outcome, managed) ==
    /\ op.step = "store"
    /\ Write("records", [disk.records EXCEPT ![op.id] = [key |-> Key, count |-> 0]], outcome)
    /\ op' = IF \/ outcome = "Ok"
                \/ outcome = "Unflushed" /\ (managed \/ op.id \in Discoverable)
             THEN [op EXCEPT !.step = "answer"]
             ELSE Idle
    /\ UNCHANGED <<authority, sealedBy, history>>

\* The response of a registration is sent.
AnswerRegistration ==
    /\ op.step = "answer"
    /\ told' = [told EXCEPT ![op.id] = Key]
    /\ Return
    /\ UNCHANGED <<disk, images, authority, sealedBy, last, erased>>
-----------------------------------------------------------------------------
(* The rest of getAssertion and of a U2F authentication *)

\* Variant: the counter wraps (CountsGrow).
NextCountWrapping(n) == (n + 1) % (MaxCount + 1)

\* saturating_add(1)
NextCount(n) == IF n = MaxCount THEN n ELSE n + 1

\* signature_counter, or the record's sign_count.
Count(c) == IF c \in Sealed THEN disk.root.counter.count ELSE disk.records[c].count

\* Variant: a write that could not be flushed is good enough (AnsweredIsSaved).
AdvanceSignatureCounterLoosely(outcome) ==
    LET file == [key |-> Key, count |-> NextCount(Count(op.id))] IN
    /\ op.step = "count"
    /\ op.id \in Sealed => Reads(disk.root.counter)
    /\ IF op.id \in Sealed
       THEN Write("root", [disk.root EXCEPT !.counter = file], outcome)
       ELSE Write("records", [disk.records EXCEPT ![op.id] = file], outcome)
    /\ op' = IF outcome # "Err" THEN [op EXCEPT !.step = "signed"] ELSE Idle
    /\ UNCHANGED <<authority, sealedBy, history>>

\* advance_signature_counter
AdvanceSignatureCounter(outcome) ==
    LET file == [key |-> Key, count |-> NextCount(Count(op.id))] IN
    /\ op.step = "count"
    /\ op.id \in Sealed => Reads(disk.root.counter)
    /\ IF op.id \in Sealed
       THEN Write("root", [disk.root EXCEPT !.counter = file], outcome)
       ELSE Write("records", [disk.records EXCEPT ![op.id] = file], outcome)
    /\ op' = IF outcome = "Ok" THEN [op EXCEPT !.step = "signed"] ELSE Idle
    /\ UNCHANGED <<authority, sealedBy, history>>

\* The counter file does not open: the request fails.
CounterUnreadable ==
    /\ op.step = "count"
    /\ op.id \in Sealed /\ ~Reads(disk.root.counter)
    /\ Return
    /\ UNCHANGED <<disk, images, authority, sealedBy, history>>

\* sign_assertion has signed, and the response is sent.
AnswerAssertion ==
    /\ op.step = "signed"
    /\ last' = [last EXCEPT ![op.id] = Count(op.id)]
    /\ Return
    /\ UNCHANGED <<disk, images, authority, sealedBy, told, erased>>
-----------------------------------------------------------------------------
(* The rest of reset: clear *)

\* handle_reset, where clear failed: reconcile_persistent_authority looks at what
\* is stored now.
Reconciled ==
    authority' \in IF authority = "Read" THEN LoadPinState' ELSE {authority}

\* Variant: a key that may not be durable is good enough (ResetIsFinal).
RotateLoosely(k, outcome) ==
    /\ op.step = "rotate"
    /\ FreshKey(k)
    /\ Write("keys", k, outcome)
    /\ IF outcome # "Err" THEN op' = [op EXCEPT !.step = "purge"] /\ UNCHANGED authority
       ELSE Return /\ Reconciled
    /\ UNCHANGED <<sealedBy, history>>

\* FileKeySource::rotate
Rotate(k, outcome) ==
    /\ op.step = "rotate"
    /\ FreshKey(k)
    /\ Write("keys", k, outcome)
    /\ IF outcome = "Ok" THEN op' = [op EXCEPT !.step = "purge"] /\ UNCHANGED authority
       ELSE Return /\ Reconciled
    /\ UNCHANGED <<sealedBy, history>>

\* clear removes the records; an error leaves some of them.
PurgeRecords(left, outcome) ==
    /\ op.step = "purge"
    /\ left # {} => outcome = "Err"
    /\ Write("records", [c \in Stored |-> IF c \in left THEN disk.records[c] ELSE NoFile],
             IF outcome = "Err" THEN "Unflushed" ELSE outcome)
    /\ IF outcome = "Ok" THEN op' = [op EXCEPT !.step = "counter"] /\ UNCHANGED authority
       ELSE Return /\ Reconciled
    /\ UNCHANGED <<sealedBy, history>>

\* Then the global counter,
RemoveCounter(outcome) ==
    /\ op.step = "counter"
    /\ Write("root", [disk.root EXCEPT !.counter = NoFile], outcome)
    /\ IF outcome = "Ok" THEN op' = [op EXCEPT !.step = "defaults"] /\ UNCHANGED authority
       ELSE Return /\ Reconciled
    /\ UNCHANGED <<sealedBy, history>>

\* and last the default PIN state is published; then the reset has succeeded,
\* whether or not that is flushed.
WriteDefaults(outcome) ==
    /\ op.step = "defaults"
    /\ Write("root", [disk.root EXCEPT !.pin = Key], outcome)
    /\ Return
    /\ IF outcome = "Err"
       THEN Reconciled /\ UNCHANGED erased
       ELSE /\ authority' = "Read"
            /\ erased' = erased \cup {c \in Creds : told[c] # 0}
    /\ UNCHANGED <<sealedBy, told, last>>
-----------------------------------------------------------------------------
\* The daemon dies, or is stopped between two requests.
ProcessExit ==
    /\ "crash" \in Faults
    /\ authority # "down"
    /\ authority' = "down"
    /\ Return
    /\ UNCHANGED <<disk, images, sealedBy, history>>

PowerLoss(s) ==
    /\ "power" \in Faults
    /\ disk' = s
    /\ images' = [d \in Directories |-> {s[d]}]
    /\ authority' = "down"
    /\ Return
    /\ UNCHANGED <<sealedBy, history>>
-----------------------------------------------------------------------------
\* A new state directory.
Init ==
    /\ disk = [keys |-> 0, root |-> [pin |-> 0, counter |-> NoFile],
               records |-> [c \in Stored |-> NoFile]]
    /\ images = [d \in Directories |-> {disk[d]}]
    /\ authority = "down"
    /\ op = Idle
    /\ sealedBy = [c \in Creds |-> 0]
    /\ told = [c \in Creds |-> 0]
    /\ last = [c \in Creds |-> 0]
    /\ erased = {}

Next ==
    \/ Open
    \/ \E k \in 1..MaxKey, o \in Outcomes : OpenNew(k, o)
    \/ ReadUnread
    \/ \E c \in Creds, exclude_list \in SUBSET Creds : MakeCredential(c, exclude_list)
    \/ \E c \in Creds : U2fRegister(c)
    \/ \E c \in Creds, up \in BOOLEAN : GetAssertion(c, up)
    \/ \E c \in Creds, control \in {3, 8} : U2fAuthenticate(c, control)
    \/ Reset
    \/ Approve
    \/ Fail
    \/ \E o \in Outcomes : SealCredential(o)
    \/ \E o \in Outcomes, managed \in BOOLEAN : StoreNewCredential(o, managed)
    \/ AnswerRegistration
    \/ \E o \in Outcomes : AdvanceSignatureCounter(o)
    \/ CounterUnreadable
    \/ AnswerAssertion
    \/ \E k \in 1..MaxKey, o \in Outcomes : Rotate(k, o)
    \/ \E left \in SUBSET Stored, o \in Outcomes : PurgeRecords(left, o)
    \/ \E o \in Outcomes : RemoveCounter(o)
    \/ \E o \in Outcomes : WriteDefaults(o)
    \/ ProcessExit
    \/ \E s \in Snapshots : PowerLoss(s)

Spec == Init /\ [][Next]_vars
-----------------------------------------------------------------------------
(* Properties *)

\* The files hold what they may hold.
TypeOK ==
    /\ disk \in Snapshots
    /\ Snapshots \subseteq [keys : 0..MaxKey,
                            root : [pin : 0..MaxKey, counter : Files],
                            records : [Stored -> Files]]
    /\ authority \in {"down", "Read", "Unread", "Unreadable"}
    /\ op.step \in {"idle", "prompt", "seal", "store", "answer", "count", "signed",
                    "rotate", "purge", "counter", "defaults"}

\* The count a credential is about to be signed with is larger than every count
\* sent for it before, through crashes, power loss, failed writes and failed
\* resets, until it has reached the largest (advance_signature_counter: "Neither
\* wraps"; sign_assertion: "can never go backwards after a restart").
CountsGrow ==
    op.step = "signed" =>
        \/ Count(op.id) > last[op.id]
        \/ last[op.id] = MaxCount /\ Count(op.id) = MaxCount

\* A count that was sent is saved: whatever power loss leaves, a credential that
\* can still sign counts on from there ("a signature is never returned for a
\* counter that was not saved").
AnsweredIsSaved ==
    \A s \in Snapshots, c \in Creds :
        last[c] # 0 =>
            IF c \in Stored
            THEN s.records[c].key = s.keys => s.records[c].count >= last[c]
            ELSE s.keys = sealedBy[c] =>
                    s.root.counter.key = s.keys /\ s.root.counter.count >= last[c]

\* A credential that was there when a reset succeeded never works again: no
\* image that power loss may leave has its key (clear: "Only a successful,
\* durable rotation permits purging").
ResetIsFinal == \A c \in erased, k \in images.keys : told[c] # k
=============================================================================
