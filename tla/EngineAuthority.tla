-------------------------- MODULE EngineAuthority --------------------------
(***************************************************************************)
(* The engine as a whole, one command at a time: the part that holds the   *)
(* PIN state and the tokens (ctap/storage.rs, ctap/pin/, and the commands  *)
(* clientPIN, authenticatorConfig, reset and getInfo).                     *)
(*                                                                         *)
(* A command is a run x: the engine x.e and the store x.s as they change,  *)
(* the status so far (a step of a run that has failed does nothing), what  *)
(* the last store call returned, and the response's contents.              *)
(*                                                                         *)
(* A PIN is a name, which is also its hash; a pinUvAuthParam names the     *)
(* secret it was made with; random values are numbered as they are drawn.  *)
(* A token's age is judged as a command begins: what a later look in the   *)
(* same command finds is the same.  Key agreement is left out: the         *)
(* platform runs it anew for each exchange.                                *)
(***************************************************************************)
EXTENDS HarnessStore, TLC

CONSTANTS PINS              \* the PINs: name -> [length, mixed]

MAX_CONSECUTIVE_PIN_MISMATCHES == 3

(* Times, in units of ten seconds.                                         *)
INITIAL_USAGE_TIME_LIMIT == 3
MAX_USAGE_TIME_PERIOD == 60

---------------------------------------------------------------------------
Begin(e, s) == [e |-> e, s |-> Taken(s), status |-> "OK", out |-> None, reply |-> None]

Going(x) == x.status = "OK"

Fail(x, status) == [x EXCEPT !.status = status]

Check(x, holds, status) == IF Going(x) /\ ~holds THEN Fail(x, status) ELSE x

Reply(x, reply) == IF Going(x) THEN [x EXCEPT !.reply = reply] ELSE x

(* What the engine makes of a failed store call.                           *)
store_status(err) == IF err = "Full" THEN "KEY_STORE_FULL" ELSE "PROCESSING"

Called(x, answer) ==
    [x EXCEPT !.s = answer.s, !.out = answer.value,
              !.status = IF answer.error = "none" THEN @ ELSE store_status(answer.error)]

---------------------------------------------------------------------------
(* The engine's state.                                                     *)

NewCm ==
    [family |-> None, context |-> None,
     rp_list |-> << >>, rp_index |-> 0, rp_auth |-> None,
     credential_list |-> << >>, credential_index |-> 0, credential_auth |-> None,
     credential_rp_hash |-> None]

NewLargeBlobState ==
    [expected_next_offset |-> 0, expected_length |-> 0, buffer |-> << >>,
     last_fragment |-> None, token |-> None]

UnreadablePinState ==
    [DefaultPinState EXCEPT !.pin_hash = Some("nobody's"), !.pin_retries = 0,
                            !.always_uv = TRUE]

PowerUp(record) ==
    [record EXCEPT !.pin_retries = IF @ > MAX_PIN_RETRIES THEN MAX_PIN_RETRIES ELSE @]

closes_authority(err) == err # "Io"

load_pin_state(answer) ==
    CASE answer.error = "none" ->
            [pin |-> IF answer.value = None THEN DefaultPinState
                     ELSE PowerUp(answer.value[1]),
             stored |-> "Read"]
      [] closes_authority(answer.error) ->
            [pin |-> UnreadablePinState, stored |-> "Unreadable"]
      [] OTHER -> [pin |-> UnreadablePinState, stored |-> "Unread"]

(* CtapApp::new.  `random` counts the values drawn so far.                 *)
NewEngine(loaded, random) ==
    [pin |-> loaded.pin, stored |-> loaded.stored, mismatches |-> 0,
     generation |-> 0, token |-> None, cm |-> NewCm, pending |-> None,
     large_blob |-> NewLargeBlobState, random |-> random, now |-> 0,
     presence |-> "Approved"]

Restarted(answer, random) ==
    [e |-> NewEngine(load_pin_state(answer), random), s |-> answer.s]

adopt_persistent(e, pin) ==
    [e EXCEPT !.generation = IF e.pin.persistent_tokens # pin.persistent_tokens
                             THEN @ + 1 ELSE @,
              !.pin = pin]

StopToken(e) == [e EXCEPT !.token = None]

ClearCm(e) == [e EXCEPT !.cm = NewCm]

ObserveToken(e) ==
    IF /\ e.token # None
       /\ \/ e.now - e.token[1].started >= MAX_USAGE_TIME_PERIOD
          \/ ~e.token[1].used /\ e.now - e.token[1].started >= INITIAL_USAGE_TIME_LIMIT
    THEN StopToken(e)
    ELSE e

---------------------------------------------------------------------------
(* Reading the stored PIN state again.                                     *)

Loaded(x, loaded) ==
    IF loaded.stored = "Read"
    THEN [x EXCEPT !.e = ClearCm(StopToken(adopt_persistent(
                             [@ EXCEPT !.stored = "Read"], loaded.pin)))]
    ELSE Fail([x EXCEPT !.e.stored = loaded.stored], "PROCESSING")

ReadUnread(x, answer) == Loaded([x EXCEPT !.s = answer.s], load_pin_state(answer))

read_unread_pin_state(x) == ReadUnread(x, pin_state(x.s))

(* The PIN and the policies: everything but the retries and the tokens.    *)
PinAndPolicy(pin) == [pin EXCEPT !.pin_retries = 0, !.persistent_tokens = <<None, None>>]

Close(e) ==
    ClearCm(StopToken(adopt_persistent(
        [e EXCEPT !.stored = "Unreadable"],
        [e.pin EXCEPT !.persistent_tokens = <<None, None>>, !.pin_retries = 0,
                      !.always_uv = TRUE])))

Reread(e, record) ==
    CASE PinAndPolicy(e.pin) # PinAndPolicy(record) ->
            ClearCm(adopt_persistent(StopToken(e), record))
      [] e.pin.persistent_tokens # record.persistent_tokens ->
            ClearCm(adopt_persistent(e, record))
      [] OTHER -> e

Refreshed(x, answer) ==
    CASE answer.error = "none" /\ answer.value # None ->
            [x EXCEPT !.s = answer.s, !.e = Reread(@, answer.value[1])]
      [] answer.error = "none" /\ x.e.pin.pin_hash = None
            /\ x.e.pin.persistent_tokens = <<None, None>> ->
            [x EXCEPT !.s = answer.s]
      [] answer.error # "none" /\ ~closes_authority(answer.error) ->
            Fail([x EXCEPT !.s = answer.s], "PROCESSING")
      [] OTHER -> Fail([x EXCEPT !.s = answer.s, !.e = Close(@)], "PROCESSING")

refresh_persistent_authority(x) ==
    IF ~Going(x) THEN x
    ELSE CASE x.e.stored = "Unread" -> read_unread_pin_state(x)
           [] x.e.stored = "Unreadable" -> x
           [] OTHER -> Refreshed(x, pin_state(x.s))

read_pin_state_if_unread(x) ==
    IF x.e.stored = "Unread" THEN refresh_persistent_authority(x) ELSE x

(* After a failed reset: what a later read finds is not known.             *)
Unknown(e) ==
    ClearCm(StopToken(adopt_persistent([e EXCEPT !.stored = "Unread"], UnreadablePinState)))

Reconciled(x) ==
    IF ~Going(x) /\ x.e.stored = "Read" THEN [x EXCEPT !.e = Unknown(@)] ELSE x

reconcile_persistent_authority(x) == Reconciled(refresh_persistent_authority(x))

---------------------------------------------------------------------------
(* Writing it.                                                             *)

save_pin_state(x, pin) ==
    IF ~Going(x) THEN x
    ELSE IF x.e.stored # "Read" THEN Fail(x, "PROCESSING")
    ELSE Called(x, set_pin_state(x.s, pin))

require_confirmed_retry(x) == Check(x, x.out # "Unconfirmed", "PROCESSING")

AdoptRetries(x, pin, mismatches) ==
    IF Going(x) THEN [x EXCEPT !.e.pin = pin, !.e.mismatches = mismatches] ELSE x

attempt_status(e) ==
    CASE e.pin.pin_hash = None -> "PIN_NOT_SET"
      [] e.pin.pin_retries = 0 -> "PIN_BLOCKED"
      [] e.mismatches >= MAX_CONSECUTIVE_PIN_MISMATCHES -> "PIN_AUTH_BLOCKED"
      [] OTHER -> "OK"

check_pin_attempt_allowed(x) ==
    Check(x, attempt_status(x.e) = "OK", attempt_status(x.e))

Debited(pin) == [pin EXCEPT !.pin_retries = @ - 1]
Credited(pin) == [pin EXCEPT !.pin_retries = MAX_PIN_RETRIES]

(* Variant: the debit is kept in memory alone (PinAudited).                *)
DebitInMemory(x) == AdoptRetries(x, Debited(x.e.pin), x.e.mismatches)

(* The retry is spent on disk before the PIN is looked at.                 *)
Debit(x) ==
    IF ~Going(x) THEN x
    ELSE require_confirmed_retry(
            AdoptRetries(save_pin_state(x, Debited(x.e.pin)), Debited(x.e.pin),
                         x.e.mismatches))

Mismatch(x) ==
    IF ~Going(x) THEN x
    ELSE Fail(x, CASE x.e.pin.pin_retries = 0 -> "PIN_BLOCKED"
                   [] x.e.mismatches >= MAX_CONSECUTIVE_PIN_MISMATCHES -> "PIN_AUTH_BLOCKED"
                   [] OTHER -> "PIN_INVALID")

FinishAttempt(x, candidate) ==
    IF ~Going(x) THEN x
    ELSE IF x.e.pin.pin_hash = Some(candidate)
    THEN require_confirmed_retry(
            AdoptRetries(save_pin_state(x, Credited(x.e.pin)), Credited(x.e.pin), 0))
    ELSE Mismatch(require_confirmed_retry(
            save_pin_state([x EXCEPT !.e.mismatches = @ + 1], x.e.pin)))

verify_pin_hash_enc(x, candidate) ==
    FinishAttempt(Debit(check_pin_attempt_allowed(refresh_persistent_authority(x))),
                  candidate)

(* A value drawn from the random number generator.                         *)
Random(n) == ToString(n)

Draw(x, n) == [x EXCEPT !.e.random = @ + n]

RotatedTokens(random) ==
    <<Some([secret |-> Random(random + 1), granted |-> FALSE]),
      Some([secret |-> Random(random + 2), granted |-> FALSE])>>

---------------------------------------------------------------------------
(* clientPIN.                                                              *)

decode_new_pin(req, policy) ==
    CASE ~req.padded -> "INVALID_PARAMETER"
      [] \/ PINS[req.new_pin].length > MAX_PIN_LENGTH
         \/ PINS[req.new_pin].length < policy.min_pin_length
         \/ policy.pin_complexity_policy /\ ~PINS[req.new_pin].mixed ->
            "PIN_POLICY_VIOLATION"
      [] OTHER -> "OK"

new_pin_hash(x, req) ==
    Check(x, decode_new_pin(req, x.e.pin) = "OK", decode_new_pin(req, x.e.pin))

WithNewPin(e, pin) ==
    [e.pin EXCEPT !.pin_hash = Some(pin), !.pin_retries = MAX_PIN_RETRIES,
                  !.pin_code_point_length = PINS[pin].length,
                  !.force_pin_change = FALSE,
                  !.persistent_tokens =
                      IF e.pin.pin_hash # None THEN RotatedTokens(e.random) ELSE @]

NewPinStored(x, record) ==
    IF ~Going(x) THEN x
    ELSE [x EXCEPT !.e = adopt_persistent(
                             StopToken(ClearCm([@ EXCEPT !.mismatches = 0])), record)]

SaveNewPin(x, record) == NewPinStored(save_pin_state(Draw(x, 2), record), record)

store_new_pin(x, pin) == IF Going(x) THEN SaveNewPin(x, WithNewPin(x.e, pin)) ELSE x

client_pin_set_pin(x, req) ==
    store_new_pin(
        new_pin_hash(
            Check(Check(x, x.e.pin.pin_hash = None, "PIN_AUTH_INVALID"),
                  ~req.bad_auth, "PIN_AUTH_INVALID"),
            req),
        req.new_pin)

NotTheForcedOne(x, req) ==
    Check(x, ~(x.e.pin.force_pin_change /\ x.e.pin.pin_hash = Some(req.new_pin)),
          "PIN_POLICY_VIOLATION")

client_pin_change_pin(x, req) ==
    store_new_pin(
        NotTheForcedOne(
            new_pin_hash(verify_pin_hash_enc(check_pin_attempt_allowed(x), req.pin), req),
            req),
        req.new_pin)

Index(protocol) == protocol

(* A persistent token: the secret of the protocol's slot is made once.     *)
WithPersistentToken(e, protocol) ==
    [e.pin EXCEPT !.persistent_tokens[Index(protocol)] =
        Some([secret |-> IF @ = None THEN Random(e.random + 1) ELSE @[1].secret,
              granted |-> TRUE])]

PersistentGranted(x, record, protocol) ==
    IF ~Going(x) THEN x
    ELSE Reply(require_confirmed_retry(
                  [x EXCEPT !.e = ClearCm(adopt_persistent(@, record))]),
               [token |-> record.persistent_tokens[Index(protocol)][1].secret])

GrantPersistent(x, record, protocol) ==
    PersistentGranted(save_pin_state(Draw(x, 1), record), record, protocol)

begin_using(x, grant, protocol) ==
    Reply([x EXCEPT !.e = ClearCm([@ EXCEPT
              !.random = @ + 1,
              !.token = Some([secret |-> Random(x.e.random + 1), protocol |-> protocol,
                              origin |-> Some(grant.origin),
                              permissions |-> grant.permissions, rp |-> grant.rp,
                              started |-> x.e.now, used |-> FALSE, verified |-> TRUE])])],
          [token |-> Random(x.e.random + 1)])

Issue(x, grant, protocol) ==
    IF ~Going(x) THEN x
    ELSE IF grant.permissions = {"pcmr"}
    THEN GrantPersistent(x, WithPersistentToken(x.e, protocol), protocol)
    ELSE begin_using(x, grant, protocol)

NotForced(x, force_change_error) == Check(x, ~x.e.pin.force_pin_change, force_change_error)

client_pin_get_token_common(x, req, grant, force_change_error) ==
    Issue(NotForced(
             verify_pin_hash_enc(refresh_persistent_authority(check_pin_attempt_allowed(x)),
                                 req.pin),
             force_change_error),
          grant, req.protocol)

client_pin_get_token_legacy(x, req) ==
    client_pin_get_token_common(
        Check(x, req.permissions = None /\ req.rp = None, "INVALID_PARAMETER"), req,
        [origin |-> "LegacyGetPinToken", permissions |-> {"mc", "ga"}, rp |-> None],
        "PIN_INVALID")

SUPPORTED_PIN_PERMISSIONS == {"mc", "ga", "cm", "lbw", "acfg", "pcmr"}

permission_status(permissions, rp) ==
    CASE "pcmr" \notin permissions /\ permissions \cap {"mc", "ga"} # {} /\ rp = None ->
            "MISSING_PARAMETER"
      [] permissions = {} -> "INVALID_PARAMETER"
      [] \/ "pcmr" \in permissions /\ permissions # {"pcmr"}
         \/ ~(permissions \subseteq SUPPORTED_PIN_PERMISSIONS) ->
            "UNAUTHORIZED_PERMISSION"
      [] OTHER -> "OK"

WithPermissions(x, req, permissions) ==
    client_pin_get_token_common(
        Check(x, permission_status(permissions, req.rp) = "OK",
              permission_status(permissions, req.rp)), req,
        [origin |-> "PermissionBearing", permissions |-> permissions,
         rp |-> IF "pcmr" \in permissions THEN None ELSE req.rp],
        "PIN_POLICY_VIOLATION")

client_pin_get_token_with_permissions(x, req) ==
    IF req.permissions = None THEN Fail(x, "MISSING_PARAMETER")
    ELSE WithPermissions(x, req, req.permissions[1])

client_pin_get_retries(x) ==
    Reply(x, [retries |-> x.e.pin.pin_retries,
              power_cycle |-> x.e.mismatches >= MAX_CONSECUTIVE_PIN_MISMATCHES])

ClientPinSubcommand(x, req) ==
    CASE ~Going(x) -> x
      [] req.sub = "getPinRetries" -> client_pin_get_retries(x)
      [] req.sub = "setPin" -> client_pin_set_pin(x, req)
      [] req.sub = "changePin" -> client_pin_change_pin(x, req)
      [] req.sub = "getPinToken" -> client_pin_get_token_legacy(x, req)
      [] req.sub = "getPinUvAuthToken" -> client_pin_get_token_with_permissions(x, req)

handle_client_pin(x, req) ==
    IF req.sub = "getKeyAgreement" THEN x
    ELSE ClientPinSubcommand(read_pin_state_if_unread(x), req)
=============================================================================
