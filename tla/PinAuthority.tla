----------------------------- MODULE PinAuthority -----------------------------
(***************************************************************************)
(* The PIN and user-verification authority of the CTAP engine:             *)
(* authenticatorClientPIN, authenticatorConfig, the PIN half of            *)
(* authenticatorReset, and the record they keep in the file store          *)
(* (pqkey-ctap: ctap/pin, ctap/storage.rs, ctap/authenticator_config.rs,   *)
(* ctap/reset.rs, store/file.rs, store/fsio.rs).                           *)
(*                                                                         *)
(* The engine runs one request at a time.  A request is one step up to     *)
(* each write of the record: between two writes the process may die, and   *)
(* power may be lost, so `phase' says how far a request has come.  The     *)
(* record is one file, published by a rename; a rename whose directory     *)
(* flush failed may be undone by power loss, so next to the file a running *)
(* system sees (`file') the model keeps every content power loss could     *)
(* leave behind (`images'), and likewise for the credential root key that  *)
(* encrypts the record.                                                    *)
(*                                                                         *)
(* Abstracted: a PIN stands for its hash; pin_code_point_length is the     *)
(* length of the PIN that is set, the only value ever stored with it; a    *)
(* request that is malformed, or whose shared secret or MAC does not       *)
(* verify, is refused before it changes anything and is not a step.  The   *)
(* reset window and the token timers are left to nondeterminism.           *)
(***************************************************************************)
EXTENDS Integers

CONSTANTS
    Pins,                            \* the PINs a platform may send
    PinLength,                       \* their length in code points
    ComplexPins,                     \* those with a letter and a digit
    NoPin,                           \* pin_hash is None
    UnknownPin,                      \* the random hash of a closed authority
    MAX_PIN_RETRIES,
    MAX_CONSECUTIVE_PIN_MISMATCHES,
    DEFAULT_MIN_PIN_LENGTH,
    MinLengths,                      \* the minimum lengths a platform may ask for
    Protocols,                       \* PIN/UV auth protocols
    PermissionSets,                  \* transient token permissions asked for together
    MaxKey,                          \* bound: credential keys ever generated
    Faults                           \* which of "io", "write", "flush", "crash", "power" happen

ASSUME PinsAssumption ==
    /\ NoPin \notin Pins
    /\ UnknownPin \notin Pins
    /\ NoPin # UnknownPin
    /\ PinLength \in [Pins -> Nat]
    /\ ComplexPins \subseteq Pins
    /\ {"none", "revoked"} \cap Pins = {}

ASSUME LimitsAssumption ==
    /\ MAX_PIN_RETRIES \in Nat \ {0}
    /\ MAX_CONSECUTIVE_PIN_MISMATCHES \in Nat \ {0}
    /\ DEFAULT_MIN_PIN_LENGTH \in Nat
    /\ MinLengths \subseteq Nat
    /\ MaxKey \in Nat \ {0}
    /\ Protocols # {}

VARIABLES
    pin_state,              \* the live PersistentPinState
    stored_pin_state,       \* what the engine has read of the stored one
    consecutive_mismatches, \* volatile lockout counter
    token,                  \* the transient pinUvAuthToken in use
    phase,                  \* how far the request in progress has come
    req,                    \* the request in progress
    key,                    \* generation of the credential root key, as seen
    keyImages,              \* the generations power loss may leave
    file,                   \* the pin-state file, as seen
    images,                 \* the contents of it power loss may leave
    flush_supported,        \* the filesystem supports directory flushes
    wrong,                  \* history: wrong PINs compared since the last right one
    pinned                  \* history: keys under which a PIN was durably stored

engine == <<pin_state, stored_pin_state, consecutive_mismatches, token>>
disk == <<key, keyImages, file, images, flush_supported>>
history == <<wrong, pinned>>
vars == <<engine, phase, req, disk, history>>
-----------------------------------------------------------------------------
(* The record and the requests *)

\* A persistent token slot: no secret, a secret nobody was granted, or one
\* granted on proof of a PIN, which stands for it.
Slots == {"none", "revoked"} \cup Pins

PersistentPinState ==
    [pin_hash : Pins \cup {NoPin, UnknownPin},
     pin_retries : 0..MAX_PIN_RETRIES,
     min_pin_length : Nat,
     force_pin_change : BOOLEAN,
     always_uv : BOOLEAN,
     pin_complexity_policy : BOOLEAN,
     persistent_tokens : [Protocols -> Slots]]

DefaultPinState ==
    [pin_hash |-> NoPin,
     pin_retries |-> MAX_PIN_RETRIES,
     min_pin_length |-> DEFAULT_MIN_PIN_LENGTH,
     force_pin_change |-> FALSE,
     always_uv |-> FALSE,
     pin_complexity_policy |-> FALSE,
     persistent_tokens |-> [p \in Protocols |-> "none"]]

\* unreadable_pin_state: set and blocked, with a hash nobody knows.
UnreadablePinState ==
    [DefaultPinState EXCEPT !.pin_hash = UnknownPin,
                            !.pin_retries = 0,
                            !.always_uv = TRUE]

\* The file: absent (key 0), or a record sealed under one generation of the
\* key.  The key itself is 0 when it holds the zeros a rotation leaves behind.
Missing == [key |-> 0, record |-> DefaultPinState]
Files == [key : 0..MaxKey, record : PersistentPinState]

NoToken == [pin |-> NoPin, permissions |-> {}]
Permissions == UNION PermissionSets
Tokens == [pin : Pins \cup {NoPin, UnknownPin}, permissions : SUBSET Permissions]

NoRequest == [op |-> "none"]

\* The PIN checks a platform can ask for.  A pinHashEnc that does not decrypt
\* counts as a mismatch, so any wrong PIN stands for it.
PinRequests ==
    [op : {"changePin"}, pin : Pins, new : Pins]
    \cup [op : {"getToken"}, pin : Pins, permissions : PermissionSets]
    \cup [op : {"getPcmrToken"}, pin : Pins, protocol : Protocols]

Requests == PinRequests \cup {NoRequest}
-----------------------------------------------------------------------------
(* Reading the record *)

IsSet(p) == p.pin_hash # NoPin

\* closes_authority: the key is unusable, or does not open the record.
Corrupt(f, k) == k = 0 \/ f.key \notin {0, k}

\* What load_pin_state makes of a record it can read: an absent one is the default.
Loaded(f) == IF f.key = 0 THEN DefaultPinState ELSE f.record

\* The engine's view, as one record, so that refreshes can be composed.
View == [live |-> pin_state, stored |-> stored_pin_state, token |-> token, ok |-> TRUE]

Failed(v) == [v EXCEPT !.ok = FALSE]

\* The fields refresh_persistent_authority compares: all but the retries.
SamePolicy(a, b) == [a EXCEPT !.pin_retries = 0] = [b EXCEPT !.pin_retries = 0]
SamePin(a, b) ==
    [a EXCEPT !.pin_retries = 0, !.persistent_tokens = b.persistent_tokens]
        = [b EXCEPT !.pin_retries = 0]

\* The live authority after the stored one turned out missing or corrupt.
Closed(p) == [p EXCEPT !.persistent_tokens = [q \in Protocols |-> "none"],
                       !.pin_retries = 0,
                       !.always_uv = TRUE]

ReadUnread(v, io) ==
    IF io THEN Failed(v)
    ELSE IF Corrupt(file, key)
    THEN Failed([v EXCEPT !.stored = "Unreadable"])
    ELSE [v EXCEPT !.live = Loaded(file), !.stored = "Read", !.token = NoToken]

RefreshRead(v, io) ==
    IF io THEN Failed(v)
    ELSE IF file.key = key /\ key # 0
    THEN IF SamePolicy(v.live, file.record) THEN v
         ELSE [v EXCEPT !.live = file.record,
                        !.token = IF SamePin(v.live, file.record) THEN v.token ELSE NoToken]
    ELSE IF /\ file.key = 0 /\ key # 0
            /\ ~IsSet(v.live)
            /\ \A p \in Protocols : v.live.persistent_tokens[p] = "none"
    THEN v
    ELSE Failed([v EXCEPT !.live = Closed(v.live), !.stored = "Unreadable", !.token = NoToken])

\* refresh_persistent_authority; io is a read that fails with an I/O error.
Refresh(v, io) ==
    CASE v.stored = "Read" -> RefreshRead(v, io)
      [] v.stored = "Unread" -> ReadUnread(v, io)
      [] OTHER -> v

ReadIfUnread(v, io) == IF v.stored = "Unread" THEN ReadUnread(v, io) ELSE v

\* Variant: a failed reset leaves the live authority as it is (LiveMatchesStored).
NotReconciled(v) == v

\* reconcile_persistent_authority, against the key and file a failed reset left.
\* An I/O error closes what it cannot compare.
Reconciled(v) ==
    IF ~v.ok /\ v.stored = "Read"
    THEN [v EXCEPT !.live = UnreadablePinState, !.stored = "Unread", !.token = NoToken]
    ELSE v

IoErrors == IF "io" \in Faults THEN BOOLEAN ELSE {FALSE}
-----------------------------------------------------------------------------
(* Writing the record *)

\* validate_pin_state: no grant without a PIN or while a PIN change is due.
ValidPinState(p) ==
    \A q \in Protocols :
        p.persistent_tokens[q] \in Pins => IsSet(p) /\ ~p.force_pin_change

\* save_pin_state and replace_pin_state: refused unless the stored state was
\* read; an error publishes nothing; a failed directory flush publishes
\* without making sure of it.
Save(p, stored, outcome) ==
    LET f == [key |-> key, record |-> p]
        accepted == stored = "Read" /\ key # 0 /\ ValidPinState(p)
    IN
    \/ /\ outcome = "Err"
       /\ "write" \in Faults \/ ~accepted
       /\ UNCHANGED disk
    \/ /\ outcome = "Flushed"
       /\ accepted
       /\ flush_supported
       /\ file' = f
       /\ images' = {f}
       /\ UNCHANGED <<key, keyImages, flush_supported>>
    \/ /\ outcome = "Unconfirmed"
       /\ accepted
       /\ "flush" \in Faults \/ ~flush_supported
       /\ file' = f
       /\ images' = images \cup {f}
       /\ UNCHANGED <<key, keyImages, flush_supported>>

Outcomes == {"Err", "Unconfirmed", "Flushed"}

Published(outcome) == outcome # "Err"

\* The request is over.
Reply == phase' = "idle" /\ req' = NoRequest

\* The engine takes over a refreshed view, and nothing else.
Adopt(v) ==
    /\ pin_state' = v.live
    /\ stored_pin_state' = v.stored
    /\ token' = v.token

\* A request refused after the authority was read.
Refuse(v) ==
    /\ Adopt(v)
    /\ Reply
    /\ UNCHANGED <<consecutive_mismatches, disk, history>>
-----------------------------------------------------------------------------
(* The PIN check shared by changePIN and the two getPinToken subcommands *)

CheckAttemptAllowed(p) ==
    /\ IsSet(p)
    /\ p.pin_retries > 0
    /\ consecutive_mismatches < MAX_CONSECUTIVE_PIN_MISMATCHES

Debited(p) == [p EXCEPT !.pin_retries = @ - 1]

\* Variant: a published write is good enough (GuessesBounded).
ConfirmedOnceSeen(outcome) == outcome # "Err"

\* require_confirmed_retry: the write of a retry counter survives power loss.
Confirmed(outcome) == outcome = "Flushed"

\* A PIN check up to the write of the spent retry: the subcommand reads the
\* authority if it is unread, checks the lockouts, and verify_pin_hash_enc
\* reads it again.  The comparison goes ahead only if the write is confirmed.
BeginAttempt(r, io1, io2, outcome) ==
    LET u == ReadIfUnread(View, io1)
        v == IF u.ok /\ CheckAttemptAllowed(u.live) THEN Refresh(u, io2) ELSE Failed(u)
    IN
    /\ phase = "idle"
    /\ IF ~v.ok \/ ~CheckAttemptAllowed(v.live) \/ ~flush_supported
       THEN outcome = "Err" /\ Refuse(v)
       ELSE /\ Save(Debited(v.live), v.stored, outcome)
            /\ Adopt(IF Published(outcome) THEN [v EXCEPT !.live = Debited(v.live)] ELSE v)
            /\ IF Confirmed(outcome) THEN phase' = "compare" /\ req' = r ELSE Reply
            /\ UNCHANGED <<consecutive_mismatches, history>>

\* finish_attempt on a mismatch: the history stays even if the write fails.
Mismatch(outcome) ==
    /\ phase = "compare"
    /\ req.pin # pin_state.pin_hash
    /\ consecutive_mismatches' = consecutive_mismatches + 1
    /\ wrong' = wrong + 1
    /\ Save(pin_state, stored_pin_state, outcome)
    /\ Reply
    /\ UNCHANGED <<pin_state, stored_pin_state, token, pinned>>

\* finish_attempt on a match: the budget is restored once that is published,
\* and the command goes on once it is confirmed.
Match(outcome) ==
    LET restored == [pin_state EXCEPT !.pin_retries = MAX_PIN_RETRIES] IN
    /\ phase = "compare"
    /\ req.pin = pin_state.pin_hash
    /\ wrong' = 0
    /\ Save(restored, stored_pin_state, outcome)
    /\ IF Published(outcome)
       THEN pin_state' = restored /\ consecutive_mismatches' = 0
       ELSE UNCHANGED <<pin_state, consecutive_mismatches>>
    /\ IF Confirmed(outcome) THEN phase' = "verified" /\ UNCHANGED req ELSE Reply
    /\ UNCHANGED <<stored_pin_state, token, pinned>>
-----------------------------------------------------------------------------
(* clientPIN subcommands *)

\* decode_new_pin, for a well-formed PIN of at most 63 bytes.
MeetsPolicy(n, p) ==
    /\ PinLength[n] >= p.min_pin_length
    /\ p.pin_complexity_policy => n \in ComplexPins

RotatedTokens == [q \in Protocols |-> "revoked"]

\* Variant: persistent grants outlive the PIN (TokensBoundToPin).
WithNewPinOnly(p, n) ==
    [p EXCEPT !.pin_hash = n,
              !.pin_retries = MAX_PIN_RETRIES,
              !.force_pin_change = FALSE]

WithNewPin(p, n) ==
    [p EXCEPT !.pin_hash = n,
              !.pin_retries = MAX_PIN_RETRIES,
              !.force_pin_change = FALSE,
              !.persistent_tokens = IF IsSet(p) THEN RotatedTokens ELSE @]

\* store_new_pin: publication commits, confirmed or not.
StoreNewPin(v, n, outcome) ==
    LET new == WithNewPin(v.live, n) IN
    /\ Save(new, v.stored, outcome)
    /\ IF Published(outcome)
       THEN /\ Adopt([v EXCEPT !.live = new, !.token = NoToken])
            /\ consecutive_mismatches' = 0
            /\ wrong' = 0
            /\ pinned' = IF outcome = "Flushed" THEN pinned \cup {key} ELSE pinned
       ELSE Adopt(v) /\ UNCHANGED <<consecutive_mismatches, history>>
    /\ Reply

\* Variant: setPIN replaces a PIN that is set (ChangeNeedsProof).
SetPinAlways(n, io, outcome) ==
    LET v == ReadIfUnread(View, io) IN
    /\ phase = "idle"
    /\ IF ~v.ok \/ ~MeetsPolicy(n, v.live) \/ ~flush_supported
       THEN outcome = "Err" /\ Refuse(v)
       ELSE StoreNewPin(v, n, outcome)

SetPin(n, io, outcome) ==
    LET v == ReadIfUnread(View, io) IN
    /\ phase = "idle"
    /\ IF ~v.ok \/ IsSet(v.live) \/ ~MeetsPolicy(n, v.live) \/ ~flush_supported
       THEN outcome = "Err" /\ Refuse(v)
       ELSE StoreNewPin(v, n, outcome)

ChangePin(outcome) ==
    /\ phase = "verified"
    /\ req.op = "changePin"
    /\ IF \/ ~MeetsPolicy(req.new, pin_state)
          \/ pin_state.force_pin_change /\ req.new = pin_state.pin_hash
       THEN outcome = "Err" /\ Refuse(View)
       ELSE StoreNewPin(View, req.new, outcome)

\* The tail of client_pin_get_token_common for a transient token.
IssueToken ==
    /\ phase = "verified"
    /\ req.op = "getToken"
    /\ token' = IF pin_state.force_pin_change THEN token
                ELSE [pin |-> pin_state.pin_hash, permissions |-> req.permissions]
    /\ Reply
    /\ UNCHANGED <<pin_state, stored_pin_state, consecutive_mismatches, disk, history>>

\* The tail of client_pin_get_token_common for the persistent token.
GrantPersistentToken(outcome) ==
    LET granted == [pin_state EXCEPT !.persistent_tokens[req.protocol] = pin_state.pin_hash] IN
    /\ phase = "verified"
    /\ req.op = "getPcmrToken"
    /\ IF pin_state.force_pin_change
       THEN outcome = "Err" /\ Refuse(View)
       ELSE /\ Save(granted, stored_pin_state, outcome)
            /\ pin_state' = IF Published(outcome) THEN granted ELSE pin_state
            /\ Reply
            /\ UNCHANGED <<stored_pin_state, consecutive_mismatches, token, history>>

\* The usage timer ends the token.
TokenExpires ==
    /\ phase = "idle"
    /\ token # NoToken
    /\ token' = NoToken
    /\ UNCHANGED <<pin_state, stored_pin_state, consecutive_mismatches, phase, req, disk, history>>

\* makeCredential and getAssertion clear its permissions once the user is present.
ConsumeToken ==
    /\ phase = "idle"
    /\ token.permissions \cap {"mc", "ga"} # {}
    /\ token' = [token EXCEPT !.permissions = @ \cap {"lbw"}]
    /\ UNCHANGED <<pin_state, stored_pin_state, consecutive_mismatches, phase, req, disk, history>>
-----------------------------------------------------------------------------
(* Every other command that depends on the authority rereads it; the       *)
(* clientPIN subcommands and the two credential commands do so only while  *)
(* it is unread, which is the same to this state.                          *)

RefreshAuthority(io) ==
    /\ phase = "idle"
    /\ Refuse(Refresh(View, io))
-----------------------------------------------------------------------------
(* authenticatorConfig *)

ConfigAuthorized(v) ==
    IsSet(v.live) \/ v.live.always_uv => "acfg" \in v.token.permissions

ToggleAlwaysUv(io, outcome) ==
    LET v == Refresh(View, io)
        toggle_exception == ~IsSet(v.live) /\ v.live.always_uv
        new == [v.live EXCEPT !.always_uv = ~@]
    IN
    /\ phase = "idle"
    /\ IF ~v.ok \/ ~(toggle_exception \/ ConfigAuthorized(v))
       THEN outcome = "Err" /\ Refuse(v)
       ELSE /\ Save(new, v.stored, outcome)
            /\ Adopt(IF Published(outcome) THEN [v EXCEPT !.live = new] ELSE v)
            /\ Reply
            /\ UNCHANGED <<consecutive_mismatches, history>>

\* Variant: a PIN that became too short stays good (PolicyHonoured).
WithMinPinLengthLater(p, minimum, force, complexity) ==
    LET forced == p.force_pin_change \/ force \/ (complexity /\ IsSet(p))
    IN  [p EXCEPT !.min_pin_length = minimum,
                  !.pin_complexity_policy = @ \/ complexity,
                  !.force_pin_change = forced,
                  !.persistent_tokens = IF forced THEN RotatedTokens ELSE @]

\* The state set_min_pin_length writes for the parameters newMinPINLength,
\* forceChangePin and pinComplexityPolicy.
WithMinPinLength(p, minimum, force, complexity) ==
    LET forced == \/ p.force_pin_change
                  \/ force
                  \/ complexity /\ ~p.pin_complexity_policy /\ IsSet(p)
                  \/ p.pin_hash \in Pins /\ PinLength[p.pin_hash] < minimum
    IN  [p EXCEPT !.min_pin_length = minimum,
                  !.pin_complexity_policy = @ \/ complexity,
                  !.force_pin_change = forced,
                  !.persistent_tokens = IF forced THEN RotatedTokens ELSE @]

SetMinPinLength(minimum, force, complexity, io, outcome) ==
    LET v == Refresh(View, io)
        new == WithMinPinLength(v.live, minimum, force, complexity)
    IN
    /\ phase = "idle"
    /\ IF \/ ~v.ok
          \/ ~ConfigAuthorized(v)
          \/ minimum < v.live.min_pin_length
          \/ force /\ ~IsSet(v.live)
       THEN outcome = "Err" /\ Refuse(v)
       ELSE /\ Save(new, v.stored, outcome)
            /\ Adopt(IF Published(outcome)
                     THEN [v EXCEPT !.live = new,
                                    !.token = IF new.force_pin_change THEN NoToken ELSE @]
                     ELSE v)
            /\ Reply
            /\ UNCHANGED <<consecutive_mismatches, history>>
-----------------------------------------------------------------------------
(* Sealing a credential ID marks that data depends on the key: the default *)
(* record is written if there is none, below the engine's view of it.      *)

SealCredentialId(io, outcome) ==
    LET v == ReadIfUnread(View, io) IN
    /\ phase = "idle"
    /\ file = Missing
    /\ IF ~v.ok \/ v.live.always_uv \/ key = 0
       THEN outcome = "Err" /\ Refuse(v)
       ELSE /\ Save(DefaultPinState, "Read", outcome)
            /\ Adopt(v)
            /\ Reply
            /\ UNCHANGED <<consecutive_mismatches, history>>
-----------------------------------------------------------------------------
(* authenticatorReset: FileStore::clear in its three stages *)

\* A failed reset re-reads the authority in the new state of the disk.
FailReset(io) ==
    /\ Adopt(Reconciled(Refresh(View, io)))
    /\ Reply
    /\ UNCHANGED <<consecutive_mismatches, history>>

\* rotate fails before the new key is published.
RotateFails(io) ==
    /\ phase = "idle"
    /\ "write" \in Faults
    /\ FailReset(io)
    /\ UNCHANGED disk

\* A generated key is new: no file or power-loss image knows it.
FreshKey(k) == k \notin pinned \cup keyImages \cup {f.key : f \in images}

\* Variant: a reset keeps the key (ProtectionPersists).
RotateNothing(k, flushed, zeroed) ==
    /\ phase = "idle"
    /\ FreshKey(k)
    /\ flushed \/ "flush" \in Faults
    /\ zeroed \/ "write" \in Faults
    /\ phase' = IF flushed THEN "purge" ELSE "reconcile"
    /\ UNCHANGED <<engine, req, disk, history>>

\* rotate publishes the new key; a failed flush is an error all the same, and
\* a filesystem that cannot flush counts as flushed.  On success the old key's
\* contents are overwritten with zeros, as far as that works.
Rotate(k, flushed, zeroed) ==
    /\ phase = "idle"
    /\ FreshKey(k)
    /\ flushed \/ "flush" \in Faults
    /\ zeroed \/ "write" \in Faults
    /\ key' = k
    /\ keyImages' =
          CASE flushed /\ flush_supported -> {k}
            [] flushed /\ ~flush_supported /\ zeroed -> (keyImages \ {key}) \cup {0, k}
            [] OTHER -> keyImages \cup {k}
    /\ phase' = IF flushed THEN "purge" ELSE "reconcile"
    /\ UNCHANGED <<engine, req, file, images, flush_supported, history>>

\* The end of a reset that failed once the new key was published.
ReconcileAfterRotate(io) ==
    /\ phase = "reconcile"
    /\ FailReset(io)
    /\ UNCHANGED disk

\* Credentials, counter, blobs and membership are purged and rebuilt.
Purge(ok) ==
    /\ phase = "purge"
    /\ ok \/ "write" \in Faults
    /\ phase' = IF ok THEN "defaults" ELSE "reconcile"
    /\ UNCHANGED <<engine, req, disk, history>>

\* The default record is written last; publication completes the reset.
PublishDefaults(outcome) ==
    /\ phase = "defaults"
    /\ Save(DefaultPinState, "Read", outcome)
    /\ IF Published(outcome)
       THEN /\ pin_state' = DefaultPinState
            /\ stored_pin_state' = "Read"
            /\ consecutive_mismatches' = 0
            /\ token' = NoToken
            /\ wrong' = 0
            /\ Reply
       ELSE phase' = "reconcile" /\ UNCHANGED <<engine, req, wrong>>
    /\ UNCHANGED pinned
-----------------------------------------------------------------------------
(* Restart: a new engine on the files the old one left, or on those power  *)
(* loss left.                                                              *)

Boot(k, f, io) ==
    /\ pin_state' = IF io \/ Corrupt(f, k) THEN UnreadablePinState ELSE Loaded(f)
    /\ stored_pin_state' =
          IF io THEN "Unread" ELSE IF Corrupt(f, k) THEN "Unreadable" ELSE "Read"
    /\ consecutive_mismatches' = 0
    /\ token' = NoToken
    /\ Reply

ProcessRestart(io) ==
    /\ "crash" \in Faults
    /\ Boot(key, file, io)
    /\ UNCHANGED <<disk, history>>

PowerLoss(k, f, io) ==
    /\ "power" \in Faults
    /\ Boot(k, f, io)
    /\ key' = k
    /\ keyImages' = {k}
    /\ file' = f
    /\ images' = {f}
    /\ UNCHANGED <<flush_supported, history>>
-----------------------------------------------------------------------------
\* A new state directory, or one copied here with a PIN in it.
InitialFiles ==
    {Missing} \cup
    {[key |-> 1, record |-> [DefaultPinState EXCEPT !.pin_hash = p]] :
        p \in {q \in Pins : PinLength[q] >= DEFAULT_MIN_PIN_LENGTH}}

Init ==
    /\ file \in InitialFiles
    /\ images = {file}
    /\ key = 1
    /\ keyImages = {1}
    /\ flush_supported \in BOOLEAN
    /\ pin_state = Loaded(file)
    /\ stored_pin_state = "Read"
    /\ consecutive_mismatches = 0
    /\ token = NoToken
    /\ phase = "idle"
    /\ req = NoRequest
    /\ wrong = 0
    /\ pinned = IF IsSet(file.record) THEN {1} ELSE {}

Next ==
    \/ \E r \in PinRequests, io1 \in IoErrors, io2 \in IoErrors, o \in Outcomes :
          BeginAttempt(r, io1, io2, o)
    \/ \E o \in Outcomes : Mismatch(o)
    \/ \E o \in Outcomes : Match(o)
    \/ \E n \in Pins, io \in IoErrors, o \in Outcomes : SetPin(n, io, o)
    \/ \E o \in Outcomes : ChangePin(o)
    \/ IssueToken
    \/ \E o \in Outcomes : GrantPersistentToken(o)
    \/ TokenExpires
    \/ ConsumeToken
    \/ \E io \in IoErrors : RefreshAuthority(io)
    \/ \E io \in IoErrors, o \in Outcomes : ToggleAlwaysUv(io, o)
    \/ \E m \in MinLengths, force \in BOOLEAN, complexity \in BOOLEAN,
          io \in IoErrors, o \in Outcomes : SetMinPinLength(m, force, complexity, io, o)
    \/ \E io \in IoErrors, o \in Outcomes : SealCredentialId(io, o)
    \/ \E io \in IoErrors : RotateFails(io)
    \/ \E k \in 1..MaxKey, flushed \in BOOLEAN, zeroed \in BOOLEAN : Rotate(k, flushed, zeroed)
    \/ \E io \in IoErrors : ReconcileAfterRotate(io)
    \/ \E ok \in BOOLEAN : Purge(ok)
    \/ \E o \in Outcomes : PublishDefaults(o)
    \/ \E io \in IoErrors : ProcessRestart(io)
    \/ \E k \in keyImages, f \in images, io \in IoErrors : PowerLoss(k, f, io)

Spec == Init /\ [][Next]_vars
-----------------------------------------------------------------------------
(* Properties *)

Phases == {"idle", "compare", "verified", "purge", "defaults", "reconcile"}

\* Every variable holds a value of its type (PersistentPinState, StoredPinState,
\* the token and the two files), and the visible files are among those power
\* loss may leave.
TypeOK ==
    /\ pin_state \in PersistentPinState
    /\ stored_pin_state \in {"Read", "Unread", "Unreadable"}
    /\ consecutive_mismatches \in 0..MAX_CONSECUTIVE_PIN_MISMATCHES
    /\ token \in Tokens
    /\ phase \in Phases
    /\ req \in Requests
    /\ key \in 0..MaxKey
    /\ keyImages \subseteq 0..MaxKey
    /\ key \in keyImages
    /\ file \in Files
    /\ images \subseteq Files
    /\ file \in images
    /\ flush_supported \in BOOLEAN
    /\ wrong \in Nat
    /\ pinned \subseteq 1..MaxKey

\* verify_pin_hash_enc spends a retry durably before it compares: however the
\* process dies or power is lost, no more than MAX_PIN_RETRIES wrong PINs are
\* ever compared without the right one or a new one in between.
GuessesBounded == wrong <= MAX_PIN_RETRIES

\* A live authority marked Read is the stored one, at every point where the
\* engine answers a request from it (StoredPinState::Read: "the live persistent
\* state is the stored one").
LiveMatchesStored ==
    stored_pin_state = "Read" /\ phase \in {"idle", "compare", "verified"}
        => ~Corrupt(file, key) /\ pin_state = Loaded(file)

\* Once a PIN has been stored durably under a credential key, power loss at any
\* point (of a reset in particular) never leaves that key together with an
\* authority that asks for no PIN: CredentialStore::clear must "preserve the
\* counters and PIN/UV protections of every credential that remains usable".
ProtectionPersists ==
    \A k \in keyImages \cap pinned, f \in images :
        f # Missing /\ (f.key = k => IsSet(f.record))

TokenBound(t, stored, p) ==
    t # NoToken => stored = "Read" /\ t.pin = p.pin_hash /\ ~p.force_pin_change

GrantsBound(p) ==
    \A q \in Protocols :
        p.persistent_tokens[q] \in Pins =>
            p.persistent_tokens[q] = p.pin_hash /\ ~p.force_pin_change

\* A transient token is worth nothing once the PIN that earned it was changed,
\* reset or closed, and a persistent grant is never found, even after power
\* loss, next to a PIN it was not made with or one that must be changed.
TokensBoundToPin ==
    /\ TokenBound(token, stored_pin_state, pin_state)
    /\ \A f \in images : GrantsBound(f.record)

HonoursPolicy(p) ==
    p.pin_hash \in Pins /\ ~p.force_pin_change => MeetsPolicy(p.pin_hash, p)

\* The stored PIN meets the stored policy, or its change is due.
PolicyHonoured == \A f \in images : HonoursPolicy(f.record)

\* The right PIN is what changes a PIN: a PIN that is set is replaced, in the
\* store, only by a changePIN that proved it or by a reset's new key.
ChangeNeedsProof ==
    [][IsSet(file.record) /\ file.key = file'.key /\ images = {file}
           /\ file'.record.pin_hash # file.record.pin_hash
       => phase = "verified" /\ req.op = "changePin" /\ req.pin = file.record.pin_hash]_vars
-----------------------------------------------------------------------------
(* The inductive invariant behind them *)

\* A record fit to be stored while w wrong PINs have been compared.
FitRecord(p, w) ==
    /\ p \in PersistentPinState
    /\ p.pin_hash # UnknownPin
    /\ GrantsBound(p)
    /\ HonoursPolicy(p)
    /\ w + p.pin_retries <= MAX_PIN_RETRIES

FitFile(f, w) == FitRecord(f.record, w) /\ (f.key = 0 => f = Missing)

\* Live and stored agree, or the live authority is closed; while a reset is
\* under way the key is already new.
Agreement(live, stored, ph, f, k) ==
    /\ IF stored = "Read" THEN live = Loaded(f) ELSE live.always_uv
    /\ stored = "Read" /\ ph \in {"idle", "compare", "verified"} => ~Corrupt(f, k)
    /\ ph \in {"purge", "defaults", "reconcile"} => k # 0 /\ f.key # k /\ k \notin pinned

\* A comparison is paid for, durably; what follows it has a PIN to go by.
Attempt ==
    /\ phase = "compare" =>
          /\ images = {file}
          /\ wrong + pin_state.pin_retries < MAX_PIN_RETRIES
          /\ consecutive_mismatches < MAX_CONSECUTIVE_PIN_MISMATCHES
    /\ phase \in {"compare", "verified"} =>
          /\ stored_pin_state = "Read"
          /\ IsSet(pin_state)
          /\ req \in PinRequests
    /\ phase = "verified" => req.pin = pin_state.pin_hash

IInv ==
    /\ TypeOK
    /\ \A f \in images : FitFile(f, wrong)
    /\ Agreement(pin_state, stored_pin_state, phase, file, key)
    /\ ProtectionPersists
    /\ TokenBound(token, stored_pin_state, pin_state)
    /\ Attempt
=============================================================================
