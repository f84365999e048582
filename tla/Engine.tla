------------------------------- MODULE Engine -------------------------------
(***************************************************************************)
(* The engine as a whole, one command at a time: every command, its        *)
(* dispatch, and U2F messages (ctap.rs, ctap/authenticator_config.rs,      *)
(* reset.rs, get_info.rs, make_credential.rs, get_assertion.rs,            *)
(* credential_management.rs, large_blobs.rs, u2f.rs).  Runs are those of   *)
(* EngineAuthority.                                                        *)
(*                                                                         *)
(* Parameters arrive with the types the handlers expect.  A pinUvAuthParam *)
(* is [kind, protocol, secret], kind being "none", "empty" (zero length)   *)
(* or "mac".  The bytes of a large-blob array are given as its length and  *)
(* whether the whole hashes: a fragment is [of, from, length], `of` being  *)
(* the array it was cut from.                                              *)
(***************************************************************************)
EXTENDS EngineAuthority, SequencesExt

CONSTANT RpOrder            \* the RP IDs in the order of their bytes

ES256 == -7

RESET_WINDOW_AFTER_POWER_UP == 1
GET_NEXT_ASSERTION_TIMEOUT == 3
WRITE_TIMEOUT == 3
MAX_FRAGMENT_LENGTH == 57 + 29 * 59 - 64

Hash(rp) == [sha256 |-> rp]

---------------------------------------------------------------------------
(* Tokens and the user.                                                    *)

verify_pin_uv_auth_param(x, auth) ==
    IF ~Going(x) THEN x
    ELSE IF /\ x.e.token # None
            /\ x.e.token[1].protocol = auth.protocol
            /\ x.e.token[1].secret = auth.secret
    THEN [x EXCEPT !.e.token[1].used = TRUE]
    ELSE Fail(x, "PIN_AUTH_INVALID")

has_permission(e, permission) == e.token # None /\ permission \in e.token[1].permissions

user_verified_flag(e) == e.token # None /\ e.token[1].verified

permissions_rp_id(e) == IF e.token = None THEN None ELSE e.token[1].rp

authorize_rp_operation(x, permission, rp) ==
    IF ~Going(x) THEN x
    ELSE IF /\ has_permission(x.e, permission)
            /\ permissions_rp_id(x.e) \in {None, Some(rp)}
            /\ user_verified_flag(x.e)
    THEN [x EXCEPT !.e.token[1].rp = Some(rp)]
    ELSE Fail(x, "PIN_AUTH_INVALID")

consume_after_user_presence(x) ==
    IF ~Going(x) \/ x.e.token = None THEN x
    ELSE [x EXCEPT !.e.token[1].origin = None, !.e.token[1].verified = FALSE,
                   !.e.token[1].permissions = @ \cap {"lbw"}]

presence_status(outcome) ==
    CASE outcome = "Approved" -> "OK"
      [] outcome = "Denied" -> "OPERATION_DENIED"
      [] outcome = "TimedOut" -> "USER_ACTION_TIMEOUT"
      [] outcome = "Cancelled" -> "KEEPALIVE_CANCEL"

confirm_user_presence(x) ==
    Check(x, x.e.presence = "Approved", presence_status(x.e.presence))

select_for_pin_uv_auth(x) ==
    Fail(x, CASE x.e.presence = "Approved" ->
                    IF x.e.pin.pin_hash # None THEN "PIN_INVALID" ELSE "PIN_NOT_SET"
              [] x.e.presence = "Cancelled" -> "KEEPALIVE_CANCEL"
              [] OTHER -> "OPERATION_DENIED")

---------------------------------------------------------------------------
(* authenticatorConfig.                                                    *)

ConfigAuthorized(x, req) ==
    IF ~Going(x) THEN x
    ELSE IF \/ req.sub = "toggleAlwaysUv" /\ x.e.pin.pin_hash = None /\ x.e.pin.always_uv
            \/ x.e.pin.pin_hash = None /\ ~x.e.pin.always_uv
    THEN x
    ELSE IF req.auth.kind = "none" THEN Fail(x, "PUAT_REQUIRED")
    ELSE Check(verify_pin_uv_auth_param(x, req.auth), has_permission(x.e, "acfg"),
               "PIN_AUTH_INVALID")

toggle_status(x, pin) ==
    IF Going(x) THEN [x EXCEPT !.e = adopt_persistent(@, pin)] ELSE x

ToggleAlwaysUv(x, pin) == toggle_status(save_pin_state(x, pin), pin)

min_pin_status(pin, req, minimum) ==
    CASE minimum < pin.min_pin_length -> "PIN_POLICY_VIOLATION"
      [] minimum > MAX_PIN_LENGTH -> "INVALID_PARAMETER"
      [] req.force_change /\ pin.pin_hash = None -> "PIN_NOT_SET"
      [] Len(req.rp_ids) > MAX_MIN_PIN_LENGTH_RP_IDS -> "KEY_STORE_FULL"
      [] OTHER -> "OK"

(* Variant: a PIN of another kind may stay (StoreAsPublished).             *)
ForcedByLength(pin, req, minimum) ==
    \/ pin.force_pin_change
    \/ req.force_change
    \/ pin.pin_hash # None /\ pin.pin_code_point_length < minimum

Forced(pin, req, minimum) ==
    \/ pin.force_pin_change
    \/ req.force_change
    \/ req.complexity /\ ~pin.pin_complexity_policy /\ pin.pin_hash # None
    \/ pin.pin_hash # None /\ pin.pin_code_point_length < minimum

RpIdBytes(rp) == [len |-> 1, b |-> rp]

WithMinPinLength(e, req, minimum, force) ==
    [e.pin EXCEPT !.min_pin_length = minimum,
                  !.force_pin_change = force,
                  !.pin_complexity_policy = @ \/ req.complexity,
                  !.min_pin_length_rp_ids =
                      IF req.rp_ids = << >> THEN @
                      ELSE [i \in DOMAIN req.rp_ids |-> RpIdBytes(req.rp_ids[i])],
                  !.persistent_tokens = IF force THEN RotatedTokens(e.random) ELSE @]

PolicySaved(x, pin) ==
    IF ~Going(x) THEN x
    ELSE [x EXCEPT !.e = adopt_persistent(
              IF pin.force_pin_change THEN ClearCm(StopToken(@)) ELSE @, pin)]

SavePolicy(x, pin) == PolicySaved(save_pin_state(Draw(x, 2), pin), pin)

MinPinLengthTo(x, req, minimum) ==
    IF min_pin_status(x.e.pin, req, minimum) # "OK"
    THEN Fail(x, min_pin_status(x.e.pin, req, minimum))
    ELSE SavePolicy(x, WithMinPinLength(x.e, req, minimum, Forced(x.e.pin, req, minimum)))

set_min_pin_length(x, req) ==
    MinPinLengthTo(x, req, IF req.minimum = None THEN x.e.pin.min_pin_length
                           ELSE req.minimum[1])

ConfigSubcommand(x, req) ==
    CASE ~Going(x) -> x
      [] req.sub = "toggleAlwaysUv" ->
            ToggleAlwaysUv(x, [x.e.pin EXCEPT !.always_uv = ~@])
      [] req.sub = "setMinPinLength" -> set_min_pin_length(x, req)

handle_authenticator_config(x, req) ==
    ConfigSubcommand(ConfigAuthorized(refresh_persistent_authority(x), req), req)

---------------------------------------------------------------------------
(* reset and getInfo.                                                      *)

ResetAuthority(e) ==
    [StopToken(e) EXCEPT !.pin = DefaultPinState, !.mismatches = 0,
                         !.generation = @ + 1, !.stored = "Read"]

(* The command has failed; the refresh is made all the same.               *)
ResetFailed(x) == Fail(reconcile_persistent_authority([x EXCEPT !.status = "OK"]),
                       "PROCESSING")

Cleared(x) ==
    IF Going(x) THEN [x EXCEPT !.e = ResetAuthority(@)] ELSE ResetFailed(x)

ResetConfirmed(x) ==
    IF ~Going(x) THEN x
    ELSE Cleared(Called([x EXCEPT !.e = ClearCm(@)], clear(x.s)))

handle_reset(x) ==
    ResetConfirmed(confirm_user_presence(
        Check(x, x.e.now <= RESET_WINDOW_AFTER_POWER_UP, "NOT_ALLOWED")))

Info(x) ==
    [x EXCEPT !.status = "OK", !.reply =
        [u2f |-> ~x.e.pin.always_uv, always_uv |-> x.e.pin.always_uv,
         client_pin |-> x.e.pin.pin_hash # None,
         make_cred_uv_not_rqd |-> ~x.e.pin.always_uv,
         force |-> x.e.pin.force_pin_change, minimum |-> x.e.pin.min_pin_length,
         complexity |-> x.e.pin.pin_complexity_policy,
         remaining |-> IF Going(x) THEN Some(MaxCredentials - x.out) ELSE None]]

CountCredentials(x) == Called([x EXCEPT !.status = "OK"], count(x.s))

handle_get_info(x) == Info(CountCredentials(refresh_persistent_authority(x)))

---------------------------------------------------------------------------
(* Finding credentials.                                                    *)

(* A corrupt record is skipped, as a listing skips it.                     *)
Tolerant(x, answer) ==
    IF answer.error = "Corrupt" THEN [x EXCEPT !.s = answer.s, !.out = None]
    ELSE Called(x, answer)

stored_credential(x, id) == IF Going(x) THEN Tolerant(x, get(x.s, id)) ELSE x

sealed_associated_data(hash) == [context |-> "sealed-credential-id", rp |-> hash]

Record(alg, random) ==
    [credential_id |-> CredentialId("empty", [random |-> random]), rp_id |-> "",
     user_id |-> "", user_name |-> None, alg |-> alg,
     private_key |-> KeyMaterial(key_kind(alg), random),
     cred_blob |-> None, large_blob_key |-> None, third_party_payment |-> FALSE,
     cred_protect |-> 1, sign_count |-> 0, created_at |-> 0]

sealed_credential(id, rp, plaintext) ==
    [Record(plaintext.alg, plaintext.key) EXCEPT
        !.credential_id = id, !.rp_id = rp, !.cred_protect = plaintext.cred_protect]

Opened(x, id) ==
    IF ~Going(x) \/ x.out = None THEN x
    ELSE [x EXCEPT !.out = Some(sealed_credential(id, "", x.out[1]))]

OfHash(x, hash) ==
    IF Going(x) /\ x.out # None /\ Hash(x.out[1].rp_id) # hash THEN [x EXCEPT !.out = None]
    ELSE x

credential_for_hash(x, id, hash) ==
    IF ~Going(x) THEN x
    ELSE IF ~is_sealed(id) THEN OfHash(stored_credential(x, id), hash)
    ELSE Opened(Called(x, open_credential_id(x.s, id.n, sealed_associated_data(hash))), id)

OfRp(x, id, rp) ==
    CASE ~Going(x) \/ x.out = None -> x
      [] is_sealed(id) -> [x EXCEPT !.out[1].rp_id = rp]
      [] x.out[1].rp_id # rp -> [x EXCEPT !.out = None]
      [] OTHER -> x

credential_for_rp(x, id, rp) == OfRp(credential_for_hash(x, id, Hash(rp)), id, rp)

(* advance_signature_counter; the credential with its new count is left in *)
(* x.out.                                                                  *)
CounterSaved(x, r) == IF Going(x) THEN [x EXCEPT !.out = r] ELSE x

CounterRead(x, r) ==
    IF ~Going(x) THEN x
    ELSE CounterSaved(Called(x, set_signature_counter(x.s, x.out + 1)),
                      [r EXCEPT !.sign_count = x.out + 1])

(* Variant: the signature is made whether or not its count was saved       *)
(* (FaultsContained).                                                      *)
advance_signature_counter_anyway(x, r) ==
    IF ~Going(x) THEN x
    ELSE IF is_sealed(r.credential_id)
    THEN CounterRead(Called(x, signature_counter(x.s)), r)
    ELSE [x EXCEPT !.s = put(x.s, [r EXCEPT !.sign_count = @ + 1]).s,
                   !.out = [r EXCEPT !.sign_count = @ + 1]]

advance_signature_counter(x, r) ==
    IF ~Going(x) THEN x
    ELSE IF is_sealed(r.credential_id)
    THEN CounterRead(Called(x, signature_counter(x.s)), r)
    ELSE CounterSaved(Called(x, put(x.s, [r EXCEPT !.sign_count = @ + 1])),
                      [r EXCEPT !.sign_count = @ + 1])

---------------------------------------------------------------------------
(* makeCredential.                                                         *)

make_credential_status(pin, req) ==
    CASE req.auth.kind = "none" /\ req.uv -> "INVALID_OPTION"
      [] ~req.up -> "INVALID_OPTION"
      [] req.rk /\ req.user = "" -> "INVALID_LENGTH"
      [] pin.always_uv /\ (pin.pin_hash = None \/ req.auth.kind = "none") -> "PUAT_REQUIRED"
      [] pin.pin_hash # None /\ req.auth.kind = "none" /\ req.rk -> "PUAT_REQUIRED"
      [] OTHER -> "OK"

(* Whether the request is authorized by a token, as it is when there is a  *)
(* PIN and a pinUvAuthParam.                                               *)
Verifies(x, req) == x.e.pin.pin_hash # None /\ req.auth.kind = "mac"

Authorize(x, req, permission) ==
    IF Going(x) /\ Verifies(x, req)
    THEN authorize_rp_operation(verify_pin_uv_auth_param(x, req.auth), permission, req.rp)
    ELSE x

Excluded(x, uv) ==
    IF Going(x) /\ x.out # None /\ (x.out[1].cred_protect = 3 => uv)
    THEN Fail(x, IF x.e.presence = "Cancelled" THEN "KEEPALIVE_CANCEL"
                 ELSE "CREDENTIAL_EXCLUDED")
    ELSE x

ExcludeList(x, req) ==
    FoldLeft(LAMBDA y, id : Excluded(credential_for_rp(y, id, req.rp), Verifies(y, req)),
             x, req.exclude)

IsStored(req) == req.rk \/ req.third_party_payment \/ ~is_sealable(req.alg)

NewRecord(req, random) ==
    [Record(req.alg, random) EXCEPT
        !.credential_id =
            CredentialId(IF req.rk THEN "discoverable" ELSE "stored", [random |-> random]),
        !.rp_id = req.rp,
        !.user_id = IF req.rk THEN req.user ELSE "",
        !.large_blob_key = IF req.large_blob_key = None THEN None
                           ELSE Some(Random(random)),
        !.third_party_payment = req.third_party_payment,
        !.cred_protect = req.protect,
        !.cred_blob = IF /\ IsStored(req) /\ req.cred_blob # None
                         /\ req.cred_blob[1].len <= MAX_CRED_BLOB_LENGTH
                      THEN req.cred_blob ELSE None]

Committed(x) == IF Going(x) THEN [x EXCEPT !.e = ClearCm(@)] ELSE x

PutNew(x, r) ==
    IF Going(x) /\ x.out = None THEN Called(x, put(x.s, r))
    ELSE Check(x, FALSE, "PROCESSING")

store_new_credential(x, r) ==
    IF is_discoverable(r.credential_id)
    THEN Committed(Called(x, insert_or_replace_discoverable(x.s, r)))
    ELSE PutNew(stored_credential(x, r.credential_id), r)

(* The minPinLength and pinComplexityPolicy extensions answer the RPs the  *)
(* policy names.                                                           *)
Discloses(pin, rp) == \E i \in DOMAIN pin.min_pin_length_rp_ids :
                          pin.min_pin_length_rp_ids[i] = RpIdBytes(rp)

attested_auth_data(r, uv) == [id |-> r.credential_id, alg |-> r.alg, up |-> TRUE, uv |-> uv]

MadeReply(x, r, req) ==
    Reply(x, attested_auth_data(r, Verifies(x, req)) @@
             [large_blob_key |-> r.large_blob_key,
              cred_blob |-> IF req.cred_blob = None THEN None
                            ELSE Some(r.cred_blob # None),
              min_pin_length |-> IF req.policy /\ Discloses(x.e.pin, req.rp)
                                 THEN Some(x.e.pin.min_pin_length) ELSE None,
              complexity |-> IF req.policy /\ Discloses(x.e.pin, req.rp)
                             THEN Some(x.e.pin.pin_complexity_policy) ELSE None])

Sealed(x, r) ==
    [x EXCEPT !.out = [r EXCEPT !.credential_id = CredentialId("sealed", x.out)]]

seal_credential(x, r, hash) ==
    Sealed(Called(x, seal_credential_id(x.s,
                        [alg |-> r.alg, cred_protect |-> r.cred_protect,
                         key |-> r.private_key.bytes],
                        sealed_associated_data(hash))), r)

SealedReply(x, req) == MadeReply(x, x.out, req)

Create(x, r, req) ==
    IF IsStored(req) THEN MadeReply(store_new_credential(x, r), r, req)
    ELSE SealedReply(seal_credential(x, r, Hash(req.rp)), req)

NewCredential(x, req) ==
    IF ~Going(x) THEN x
    ELSE IF req.large_blob_key # None /\ ~(req.rk /\ req.large_blob_key[1])
    THEN Fail(x, "INVALID_OPTION")
    ELSE Create(Draw(x, 1), NewRecord(req, x.e.random + 1), req)

MakeCredential(x, req) ==
    CASE ~Going(x) -> x
      [] req.auth.kind = "empty" -> select_for_pin_uv_auth(x)
      [] OTHER ->
            NewCredential(
                consume_after_user_presence(confirm_user_presence(
                    ExcludeList(
                        Authorize(
                            Check(x, make_credential_status(x.e.pin, req) = "OK",
                                  make_credential_status(x.e.pin, req)),
                            req, "mc"),
                        req))),
                req)

handle_make_credential(x, req) == MakeCredential(read_pin_state_if_unread(x), req)

---------------------------------------------------------------------------
(* getAssertion and getNextAssertion.                                      *)

credential_allows(r, user_verified, allow_list_provided) ==
    CASE r.cred_protect = 3 -> user_verified
      [] r.cred_protect = 2 -> user_verified \/ allow_list_provided
      [] OTHER -> TRUE

get_assertion_status(pin, req) ==
    CASE req.auth.kind = "none" /\ req.uv -> "INVALID_OPTION"
      [] req.rk -> "UNSUPPORTED_OPTION"
      [] pin.always_uv /\ req.up /\ (pin.pin_hash = None \/ req.auth.kind = "none") ->
            "PUAT_REQUIRED"
      [] OTHER -> "OK"

(* Newest first.  Only sealed credentials have the same order, and their   *)
(* random IDs decide; here it is the order of the list.                    *)
NewestFirst(found) ==
    LET Before(i) == {j \in DOMAIN found :
                        \/ found[j].created_at > found[i].created_at
                        \/ found[j].created_at = found[i].created_at /\ j < i}
    IN  [n \in DOMAIN found |->
            found[CHOOSE i \in DOMAIN found : Cardinality(Before(i)) = n - 1]]

(* One entry of the allowList; the credentials found so far are x.reply.   *)
Collect(x, uv) ==
    IF Going(x) /\ x.out # None /\ credential_allows(x.out[1], uv, TRUE)
    THEN [x EXCEPT !.reply = Append(@, x.out[1])]
    ELSE x

AllowListed(x, req, uv) ==
    FoldLeft(LAMBDA y, id :
                IF \E i \in DOMAIN y.reply : y.reply[i].credential_id = id THEN y
                ELSE Collect(credential_for_rp(y, id, req.rp), uv),
             x, req.allow[1])

Listed(x, req, uv) ==
    IF ~Going(x) THEN x
    ELSE [x EXCEPT !.reply =
             SelectSeq(x.out, LAMBDA r : /\ r.rp_id = req.rp
                                         /\ is_discoverable(r.credential_id)
                                         /\ credential_allows(r, uv, FALSE))]

Sorted(x) == IF Going(x) THEN [x EXCEPT !.reply = NewestFirst(@)] ELSE x

Applicable(x, req, uv) ==
    IF ~Going(x) THEN x
    ELSE IF req.allow # None
    THEN Sorted(AllowListed([x EXCEPT !.reply = << >>], req, uv))
    ELSE Listed(Called(x, list(x.s)), req, uv)

AssertionPresence(x, req) ==
    IF req.up THEN consume_after_user_presence(confirm_user_presence(x)) ELSE x

assertion_auth_data(r, terms) == [count |-> r.sign_count, up |-> terms.up, uv |-> terms.uv]

assertion_response(x, terms, number) ==
    Reply(x, assertion_auth_data(x.out, terms) @@
             [id |-> x.out.credential_id, number |-> number,
              user |-> IF is_discoverable(x.out.credential_id) THEN Some(x.out.user_id)
                       ELSE None,
              large_blob_key |-> IF /\ terms.large_blob_key
                                    /\ is_discoverable(x.out.credential_id)
                                 THEN x.out.large_blob_key ELSE None,
              cred_blob |-> IF terms.get_cred_blob THEN Some(x.out.cred_blob) ELSE None,
              third_party_payment |-> IF terms.third_party_payment
                                      THEN Some(x.out.third_party_payment) ELSE None])

(* What the further assertions repeat.                                     *)
Terms(req, uv) ==
    [rp |-> req.rp, up |-> req.up, uv |-> uv,
     large_blob_key |-> req.large_blob_key # None,
     get_cred_blob |-> req.get_cred_blob,
     third_party_payment |-> req.third_party_payment]

Pend(x, terms, ids, token) ==
    IF Going(x) /\ ids # << >>
    THEN [x EXCEPT !.e.pending = Some([terms |-> terms, ids |-> ids,
                                       started |-> x.e.now, token |-> token])]
    ELSE x

First(x, applicable, terms, token, ids) ==
    assertion_response(
        Pend(advance_signature_counter(x, applicable[1]), terms, ids, token),
        terms, IF ids = << >> THEN None ELSE Some(1 + Len(ids)))

TokenId(e) == IF e.token = None THEN None ELSE Some(e.token[1].secret)

AssertFirst(x, req, uv) ==
    IF ~Going(x) THEN x
    ELSE IF req.large_blob_key = Some(FALSE) THEN Fail(x, "INVALID_OPTION")
    ELSE First(x, x.reply, Terms(req, uv),
               IF uv THEN TokenId(x.e) ELSE None,
               IF req.allow # None THEN << >>
               ELSE [i \in 1 .. Len(x.reply) - 1 |-> x.reply[i + 1].credential_id])

SomeApplicable(x) == Check(x, x.reply # << >>, "NO_CREDENTIALS")

GetAssertion(x, req) ==
    CASE ~Going(x) -> x
      [] req.auth.kind = "empty" -> select_for_pin_uv_auth(x)
      [] OTHER ->
            AssertFirst(
                AssertionPresence(
                    SomeApplicable(Applicable(
                        Authorize(
                            Check(x, get_assertion_status(x.e.pin, req) = "OK",
                                  get_assertion_status(x.e.pin, req)),
                            req, "ga"),
                        req, Verifies(x, req))),
                    req),
                req, Verifies(x, req))

handle_get_assertion(x, req) == GetAssertion(read_pin_state_if_unread(x), req)

(* The first of the remaining credentials that is still there; x.reply     *)
(* becomes those after it.                                                 *)
NextStored(x, pending) ==
    FoldLeft(LAMBDA y, id :
                IF ~Going(y) \/ y.out # None THEN y
                ELSE OfRp(stored_credential([y EXCEPT !.reply = Tail(@)], id), id,
                          pending.terms.rp),
             [x EXCEPT !.out = None, !.reply = pending.ids], pending.ids)

SignNext(x, pending) ==
    IF ~Going(x) THEN x
    ELSE IF x.out = None THEN Fail(x, "NOT_ALLOWED")
    ELSE assertion_response(
            Pend(advance_signature_counter(x, x.out[1]), pending.terms, x.reply,
                 pending.token),
            pending.terms, None)

Continue(x, pending) ==
    IF \/ x.e.now - pending.started > GET_NEXT_ASSERTION_TIMEOUT
       \/ pending.token # None /\ pending.token # TokenId(x.e)
    THEN Fail(x, "NOT_ALLOWED")
    ELSE SignNext(NextStored(x, pending), pending)

handle_get_next_assertion(x) ==
    IF x.e.pending = None THEN Fail(x, "NOT_ALLOWED")
    ELSE Continue([x EXCEPT !.e.pending = None], x.e.pending[1])

---------------------------------------------------------------------------
(* credentialManagement.  An authorization is [family, protocol, token,    *)
(* mode], `token` the token's or the number of the persistent generation.  *)

reset_rps(cm) == [cm EXCEPT !.rp_list = << >>, !.rp_index = 0, !.rp_auth = None]

reset_credentials(cm) ==
    [cm EXCEPT !.credential_list = << >>, !.credential_index = 0,
               !.credential_auth = None, !.credential_rp_hash = None]

ResetCursors(x) == [x EXCEPT !.e.cm = reset_rps(reset_credentials(@))]

discoverable(records) == SelectSeq(records, LAMBDA r : is_discoverable(r.credential_id))

managed_credential(x, id) ==
    IF is_discoverable(id) THEN stored_credential(x, id)
    ELSE [x EXCEPT !.out = None]

Generation(e) == ToString(e.generation)

PersistentToken(e, protocol) == e.pin.persistent_tokens[Index(protocol)]

(* Variant: a continuation answers to whatever token there is              *)
(* (ManagementGranted).                                                    *)
cm_continuation_by_family(e, auth, family, rp_hash) == auth.family = family

cm_continuation_authorized(e, auth, family, rp_hash) ==
    CASE auth.mode = "PersistentReadOnly" ->
            /\ family = "Standard" /\ auth.family = family
            /\ Generation(e) = auth.token
            /\ PersistentToken(e, auth.protocol) # None
            /\ PersistentToken(e, auth.protocol)[1].granted
      [] auth.family # family \/ TokenId(e) # Some(auth.token) \/ ~user_verified_flag(e) ->
            FALSE
      [] auth.mode = "LegacyPreview" ->
            /\ family = "Preview"
            /\ e.token[1].origin = Some("LegacyGetPinToken")
            /\ permissions_rp_id(e) = None
      [] auth.mode = "CmPermission" ->
            /\ has_permission(e, "cm")
            /\ \/ permissions_rp_id(e) = None
               \/ rp_hash # None /\ rp_hash[1] = Hash(permissions_rp_id(e)[1])

Authorized(e, auth, family, rp_hash) ==
    auth # None /\ cm_continuation_authorized(e, auth[1], family, rp_hash)

BoundTo(x, binding) ==
    IF ~Going(x) THEN x
    ELSE IF x.out = None THEN Fail(x, "NO_CREDENTIALS")
    ELSE Check(x, x.out[1].rp_id = binding, "PIN_AUTH_INVALID")

(* ensure_pin_token_permission_for_cm.                                     *)
EnsureCm(x, req) ==
    CASE ~Going(x) -> x
      [] ~has_permission(x.e, "cm") -> Fail(x, "PIN_AUTH_INVALID")
      [] permissions_rp_id(x.e) = None -> x
      [] req.sub \in {1, 2} -> Fail(x, "PIN_AUTH_INVALID")
      [] req.sub = 4 -> Check(x, req.rp_hash[1] = Hash(permissions_rp_id(x.e)[1]),
                              "PIN_AUTH_INVALID")
      [] OTHER -> BoundTo(managed_credential(x, req.id[1]), permissions_rp_id(x.e)[1])

Grant(x, req, mode) ==
    IF ~Going(x) THEN x
    ELSE [x EXCEPT !.out = [family |-> req.family, protocol |-> req.auth.protocol,
                            token |-> TokenId(x.e)[1], mode |-> mode]]

cm_authorize(x, req) ==
    CASE ~Going(x) -> x
      [] req.family = "Standard" -> Grant(EnsureCm(x, req), req, "CmPermission")
      [] ~user_verified_flag(x.e) -> Fail(x, "PIN_AUTH_INVALID")
      [] /\ x.e.token[1].origin = Some("LegacyGetPinToken")
         /\ permissions_rp_id(x.e) = None -> Grant(x, req, "LegacyPreview")
      [] x.e.token[1].origin = Some("PermissionBearing") ->
            Grant(EnsureCm(x, req), req, "CmPermission")
      [] OTHER -> Fail(x, "PIN_AUTH_INVALID")

PersistentMatch(e, req) ==
    /\ req.family = "Standard" /\ req.sub \in {1, 2, 4}
    /\ PersistentToken(e, req.auth.protocol) # None
    /\ PersistentToken(e, req.auth.protocol)[1].secret = req.auth.secret

CmAuthorization(x, req) ==
    CASE ~Going(x) -> x
      [] PersistentMatch(x.e, req) /\ ~PersistentToken(x.e, req.auth.protocol)[1].granted ->
            Fail(x, "PIN_AUTH_INVALID")
      [] PersistentMatch(x.e, req) ->
            [x EXCEPT !.out = [family |-> req.family, protocol |-> req.auth.protocol,
                               token |-> Generation(x.e), mode |-> "PersistentReadOnly"]]
      [] OTHER -> cm_authorize(verify_pin_uv_auth_param(x, req.auth), req)

InContext(x) ==
    IF ~Going(x) \/ x.e.cm.context = Some(x.out) THEN x
    ELSE [ResetCursors(x) EXCEPT !.e.cm.context = Some(x.out)]

cm_get_metadata(x) ==
    Reply(x, [existing |-> Len(discoverable(x.out)),
              remaining |-> MaxCredentials - Len(x.out)])

RpsBegun(x, rps, auth) ==
    IF rps = << >> THEN Fail(x, "NO_CREDENTIALS")
    ELSE Reply([x EXCEPT !.e.cm.rp_list = rps, !.e.cm.rp_index = 1,
                         !.e.cm.rp_auth = Some(auth)],
               [rp |-> rps[1], total |-> Len(rps)])

cm_enumerate_rps_begin(x, auth) ==
    IF ~Going(x) THEN x
    ELSE RpsBegun(x, SelectSeq(RpOrder, LAMBDA rp :
                        \E i \in DOMAIN x.out : /\ is_discoverable(x.out[i].credential_id)
                                                /\ x.out[i].rp_id = rp), auth)

RpsEnded(x) == Fail([x EXCEPT !.e.cm = reset_rps(@)], "NOT_ALLOWED")

cm_enumerate_rps_next(x, cm, family) ==
    CASE ~Going(x) -> Fail(x, "NOT_ALLOWED")
      [] ~Authorized(x.e, cm.rp_auth, family, None) -> RpsEnded(x)
      [] cm.rp_index + 1 > Len(cm.rp_list) -> RpsEnded(x)
      [] OTHER -> Reply([x EXCEPT !.e.cm.rp_index = @ + 1],
                        [rp |-> cm.rp_list[cm.rp_index + 1], total |-> 0])

cm_credential_response(r, total) ==
    [id |-> r.credential_id, user |-> r.user_id, protect |-> r.cred_protect,
     total |-> total, large_blob_key |-> r.large_blob_key,
     third_party_payment |-> r.third_party_payment]

CredentialsBegun(x, found, auth, rp_hash) ==
    IF found = << >> THEN Fail(x, "NO_CREDENTIALS")
    ELSE Reply([x EXCEPT
                  !.e.cm.credential_list = [i \in DOMAIN found |-> found[i].credential_id],
                  !.e.cm.credential_index = 1, !.e.cm.credential_auth = Some(auth),
                  !.e.cm.credential_rp_hash = Some(rp_hash)],
               cm_credential_response(found[1], Len(found)))

cm_enumerate_credentials_begin(x, auth, rp_hash) ==
    IF ~Going(x) THEN x
    ELSE CredentialsBegun(x, SelectSeq(discoverable(x.out),
                                       LAMBDA r : Hash(r.rp_id) = rp_hash), auth, rp_hash)

(* The loop over the credentials not returned yet.                         *)
Advance(x, ids) ==
    FoldLeft(LAMBDA y, id :
                IF ~Going(y) \/ y.out # None THEN y
                ELSE stored_credential([y EXCEPT !.e.cm.credential_index = @ + 1], id),
             [x EXCEPT !.out = None], ids)

CredentialsEnded(x) == Fail([x EXCEPT !.e.cm = reset_credentials(@)], "NOT_ALLOWED")

Advanced(x) ==
    CASE ~Going(x) -> x
      [] x.out = None -> CredentialsEnded(x)
      [] OTHER -> Reply(x, cm_credential_response(x.out[1], 0))

cm_enumerate_credentials_next(x, cm, family) ==
    CASE ~Going(x) -> Fail(x, "NOT_ALLOWED")
      [] ~Authorized(x.e, cm.credential_auth, family, cm.credential_rp_hash) ->
            CredentialsEnded(x)
      [] OTHER -> Advanced(Advance(x, SubSeq(cm.credential_list, cm.credential_index + 1,
                                             Len(cm.credential_list))))

Deleted(x) ==
    IF ~Going(x) THEN x
    ELSE IF ~x.out THEN Fail(x, "NO_CREDENTIALS")
    ELSE ResetCursors(x)

cm_delete_credential(x, id) ==
    IF ~is_discoverable(id) THEN Fail(x, "NO_CREDENTIALS")
    ELSE Deleted(Called(ResetCursors(x), delete(x.s, id)))

Updated(x, req) ==
    CASE ~Going(x) -> x
      [] x.out = None -> Fail(x, "NO_CREDENTIALS")
      [] x.out[1].user_id # req.user[1] -> Fail(x, "INVALID_PARAMETER")
      [] OTHER -> Called(ResetCursors(x), put(x.s, [x.out[1] EXCEPT !.user_name = req.name]))

cm_update_user_information(x, req) == Updated(managed_credential(x, req.id[1]), req)

CmSubcommand(x, req) ==
    CASE ~Going(x) -> x
      [] req.sub = 1 -> cm_get_metadata(Called(x, list(x.s)))
      [] req.sub = 2 -> cm_enumerate_rps_begin(Called(x, list(x.s)), x.out)
      [] req.sub = 4 -> cm_enumerate_credentials_begin(Called(x, list(x.s)), x.out,
                                                       req.rp_hash[1])
      [] req.sub = 6 -> cm_delete_credential(x, req.id[1])
      [] req.sub = 7 -> cm_update_user_information(x, req)

cm_mandatory_missing(req) ==
    \/ req.sub = 4 /\ req.rp_hash = None
    \/ req.sub = 6 /\ req.id = None
    \/ req.sub = 7 /\ (req.id = None \/ req.user = None)

CmNext(x, req) ==
    IF req.sub = 3 THEN cm_enumerate_rps_next(x, x.e.cm, req.family)
    ELSE cm_enumerate_credentials_next(x, x.e.cm, req.family)

CmHandle(x, req) ==
    CASE req.sub \in {3, 5} -> CmNext(refresh_persistent_authority(x), req)
      [] req.auth.kind = "none" -> Fail(x, "PUAT_REQUIRED")
      [] cm_mandatory_missing(req) -> Fail(x, "MISSING_PARAMETER")
      [] OTHER -> CmSubcommand(InContext(CmAuthorization(refresh_persistent_authority(x),
                                                         req)), req)

InFamily(x, family) ==
    IF x.e.cm.family = Some(family) THEN x
    ELSE [ResetCursors(x) EXCEPT !.e.cm.family = Some(family)]

handle_credential_management_family(x, req) == CmHandle(InFamily(x, req.family), req)

---------------------------------------------------------------------------
(* largeBlobs.                                                             *)

observe_large_blob_state(e, command) ==
    IF \/ command # "largeBlobs"
       \/ /\ e.large_blob.last_fragment # None
          /\ e.now - e.large_blob.last_fragment[1] >= WRITE_TIMEOUT
       \/ e.large_blob.token # None /\ e.large_blob.token # TokenId(e)
    THEN [e EXCEPT !.large_blob = NewLargeBlobState]
    ELSE e

(* The bytes of the fragments in a buffer: those of the array they were    *)
(* cut from if they are all of it, else bytes that do not hash.            *)
BufferLength(buffer) == FoldLeft(LAMBDA n, f : n + f.length, 0, buffer)

Joined(buffer) ==
    LET array == buffer[1].of
        whole == /\ BufferLength(buffer) = array.len
                 /\ \A i \in DOMAIN buffer :
                       /\ buffer[i].of = array
                       /\ buffer[i].from = BufferLength(SubSeq(buffer, 1, i - 1))
    IN  IF whole THEN array
        ELSE [len |-> BufferLength(buffer), b |-> "mixed", hash |-> FALSE]

NoStaging(x, status) == Fail([x EXCEPT !.e.large_blob = NewLargeBlobState], status)

(* An array that cannot be read is served as the initial one.              *)
ArrayRead(x, answer) ==
    [x EXCEPT !.s = answer.s,
              !.out = IF answer.error = "none" THEN answer.value
                      ELSE INITIAL_LARGE_BLOB_ARRAY]

ArrayPart(x, req) ==
    IF req.offset > x.out.len THEN Fail(x, "INVALID_PARAMETER")
    ELSE Reply(x, [of |-> x.out, from |-> req.offset,
                   length |-> IF req.offset + req.get[1] > x.out.len
                              THEN x.out.len - req.offset ELSE req.get[1]])

GetArray(x, req) ==
    CASE req.length # None \/ req.auth.kind # "none" -> Fail(x, "INVALID_PARAMETER")
      [] req.get[1] > MAX_FRAGMENT_LENGTH -> Fail(x, "INVALID_LENGTH")
      [] OTHER -> ArrayPart(ArrayRead(x, large_blob_array(x.s)), req)

BeginWrite(x, req) ==
    CASE req.offset # 0 -> Check(x, req.length = None, "INVALID_PARAMETER")
      [] req.length = None -> Fail(x, "INVALID_PARAMETER")
      [] req.length[1] > MAX_SERIALIZED_LARGE_BLOB_ARRAY ->
            Fail(x, "LARGE_BLOB_STORAGE_FULL")
      [] req.length[1] < 17 -> Fail(x, "INVALID_PARAMETER")
      [] OTHER -> [x EXCEPT !.e.large_blob.expected_length = req.length[1],
                            !.e.large_blob.expected_next_offset = 0]

InSequence(x, req) ==
    IF Going(x) /\ req.offset # x.e.large_blob.expected_next_offset
    THEN NoStaging(x, "INVALID_SEQ")
    ELSE x

Protected(e) == e.pin.pin_hash # None \/ e.pin.always_uv

WriteAuthorized(x, req) ==
    IF ~Going(x) \/ ~Protected(x.e) THEN x
    ELSE IF req.auth.kind = "none" THEN Fail(x, "PUAT_REQUIRED")
    ELSE Check(verify_pin_uv_auth_param(x, req.auth), has_permission(x.e, "lbw"),
               "PIN_AUTH_INVALID")

Stage(x, req) ==
    IF ~Going(x) THEN x
    ELSE IF req.offset + req.set[1].length > x.e.large_blob.expected_length
    THEN Fail(x, "INVALID_PARAMETER")
    ELSE [x EXCEPT
            !.e.large_blob.token =
                IF req.offset # 0 THEN @ ELSE IF Protected(x.e) THEN TokenId(x.e) ELSE None,
            !.e.large_blob.buffer =
                (IF req.offset = 0 THEN << >> ELSE @)
                \o (IF req.set[1].length = 0 THEN << >> ELSE req.set),
            !.e.large_blob.expected_next_offset = req.offset + req.set[1].length,
            !.e.large_blob.last_fragment = Some(x.e.now)]

Commit(x) ==
    CASE ~Going(x) -> x
      [] x.e.large_blob.expected_next_offset # x.e.large_blob.expected_length -> x
      [] ~validate_large_blob_array(Joined(x.e.large_blob.buffer)) ->
            NoStaging(x, "INTEGRITY_FAILURE")
      [] OTHER -> Called(x, set_large_blob_array(x.s, Joined(x.e.large_blob.buffer)))

SetArray(x, req) ==
    IF req.set[1].length > MAX_FRAGMENT_LENGTH THEN Fail(x, "INVALID_LENGTH")
    ELSE Commit(Stage(WriteAuthorized(InSequence(BeginWrite(x, req), req), req), req))

handle_large_blobs(x, req) ==
    IF req.get # None
    THEN GetArray([x EXCEPT !.e.large_blob = NewLargeBlobState], req)
    ELSE SetArray(x, req)

---------------------------------------------------------------------------
(* U2F messages.                                                           *)

u2f_presence(x) ==
    Check(x, x.e.presence = "Approved", "SW_CONDITIONS_NOT_SATISFIED")

Internal(x) == IF Going(x) THEN x ELSE Fail(x, "SW_INTERNAL_ERROR")

U2fRegistered(x) == Reply(x, [id |-> x.out.credential_id])

u2f_register(x, rp) ==
    IF ~Going(x) THEN x
    ELSE U2fRegistered(Internal(seal_credential(Draw(x, 1),
                                    Record(ES256, x.e.random + 1), Hash(rp))))

U2fSigned(x, control) ==
    Reply(x, [count |-> x.out.sign_count, up |-> control = 3])

U2fSign(x, r, control) ==
    U2fSigned(Internal(advance_signature_counter(x, r)), control)

U2fPresent(x, r, control) ==
    IF Going(x) THEN U2fSign(x, r, control) ELSE x

U2fFound(x, control) ==
    CASE ~Going(x) -> x
      [] \/ x.out = None
         \/ x.out[1].alg # ES256
         \/ is_discoverable(x.out[1].credential_id)
         \/ x.out[1].cred_protect = 3 -> Fail(x, "SW_WRONG_DATA")
      [] control = 7 -> Fail(x, "SW_CONDITIONS_NOT_SATISFIED")
      [] OTHER -> U2fPresent(IF control = 3 THEN u2f_presence(x) ELSE x, x.out[1], control)

u2f_authenticate(x, req) ==
    U2fFound(Internal(credential_for_hash(x, req.id, Hash(req.rp))), req.control)

(* decode's refusals, then the request.                                    *)
CallU2f(x, req) ==
    CASE x.e.pin.always_uv /\ req.ins # 3 -> Fail(x, "SW_COMMAND_NOT_ALLOWED")
      [] req.ins = 2 /\ req.control \notin {3, 7, 8} -> Fail(x, "SW_WRONG_PARAMETERS")
      [] req.ins = 1 -> u2f_register(u2f_presence(x), req.rp)
      [] req.ins = 2 -> u2f_authenticate(x, req)
      [] OTHER -> x

---------------------------------------------------------------------------
(* CtapApp::call and call_u2f: what every message does, then its handler.  *)

(* Variant: the parameters of getAssertion outlive other commands          *)
(* (AnswersKnown).                                                         *)
BeforeAnyKeeping(e, command) == observe_large_blob_state(ObserveToken(e), command)

BeforeAny(e, command) ==
    observe_large_blob_state(
        ObserveToken([e EXCEPT !.pending =
                         IF command = "getNextAssertion" THEN @ ELSE None]),
        command)

call_inner(x, req) ==
    CASE req.cmd = "getInfo" -> handle_get_info(x)
      [] req.cmd = "makeCredential" -> handle_make_credential(x, req)
      [] req.cmd = "getAssertion" -> handle_get_assertion(x, req)
      [] req.cmd = "getNextAssertion" -> handle_get_next_assertion(x)
      [] req.cmd = "clientPIN" -> handle_client_pin(x, req)
      [] req.cmd = "reset" -> handle_reset(x)
      [] req.cmd = "credentialManagement" -> handle_credential_management_family(x, req)
      [] req.cmd = "selection" -> confirm_user_presence(x)
      [] req.cmd = "authenticatorConfig" -> handle_authenticator_config(x, req)
      [] req.cmd = "largeBlobs" -> handle_large_blobs(x, req)
      [] req.cmd = "u2f" -> CallU2f(x, req)
      [] OTHER -> Fail(x, "INVALID_COMMAND")

Call(e, s, req) == call_inner(Begin(BeforeAny(e, req.cmd), s), req)
=============================================================================
