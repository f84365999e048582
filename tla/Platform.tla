------------------------------ MODULE Platform ------------------------------
(***************************************************************************)
(* The fuzz targets' platform (fuzz/src/sequence.rs): it makes requests of *)
(* an engine over a HarnessStore, and checks every response, and the calls *)
(* the engine made of its store, against what it knows.                    *)
(*                                                                         *)
(* An operation is a few items, each of which sends one request.  Its PINs *)
(* are acceptable ones and others; padding, the exchange of keys, hmac-    *)
(* secret and malformed messages are left out.                             *)
(***************************************************************************)
EXTENDS ManagementOracle

CONSTANTS PlainPin, MixedPin    \* what enrolment sets, by the policy

NewPending ==
    [next |-> 0, length |-> 0, bytes |-> << >>, last_fragment |-> None, token_id |-> None]

NewPlatform ==
    [global_counter |-> 0, retries |-> MAX_PIN_RETRIES, mismatches |-> 0,
     saved_retries |-> MAX_PIN_RETRIES, pin |-> None, token |-> None,
     persistent_tokens |-> <<None, None>>, credentials |-> << >>, retired |-> << >>,
     assertion |-> None, minimum |-> DEFAULT_MIN_PIN_LENGTH, always_uv |-> FALSE,
     force_change |-> FALSE, complexity |-> FALSE, pin_qualified |-> FALSE,
     rp_ids |-> << >>, committed |-> INITIAL_LARGE_BLOB_ARRAY, pending |-> NewPending,
     proposed |-> INITIAL_LARGE_BLOB_ARRAY, token_issued_at |-> 0, token_id |-> 0,
     token_permissions |-> {}, authority |-> "Read", m |-> NewOracle, broken |-> {}]

clear_client_token(p) == [p EXCEPT !.token = None]

tokens_dropped(p) == [clear_client_token(p) EXCEPT !.m = restart(@)]

(* The PIN state the engine answers from.  The authority is "Kept" when    *)
(* the engine closed the state it had read.                                *)
live(p) ==
    CASE p.authority = "Read" ->
            [pin_set |-> p.pin # None, retries |-> p.retries, always_uv |-> p.always_uv,
             minimum |-> p.minimum, force_change |-> p.force_change,
             complexity |-> p.complexity]
      [] p.authority = "Kept" ->
            [pin_set |-> p.pin # None, retries |-> 0, always_uv |-> TRUE,
             minimum |-> p.minimum, force_change |-> p.force_change,
             complexity |-> p.complexity]
      [] OTHER ->
            [pin_set |-> TRUE, retries |-> 0, always_uv |-> TRUE,
             minimum |-> DEFAULT_MIN_PIN_LENGTH, force_change |-> FALSE,
             complexity |-> FALSE]

acceptable_pin(pin, minimum, complexity) ==
    /\ complexity => PINS[pin].mixed
    /\ PINS[pin].length <= 63
    /\ PINS[pin].length >= minimum

known_ids(p) ==
    [i \in DOMAIN p.credentials |-> p.credentials[i].id]
    \o [i \in DOMAIN p.retired |-> p.retired[i].id]

---------------------------------------------------------------------------
(* Requests.                                                               *)

(* Auth: what the platform sends as pinUvAuthParam.                        *)
pin_uv_auth(p, auth) ==
    CASE auth = "None" -> [kind |-> "none", protocol |-> 2, secret |-> ""]
      [] auth = "Empty" -> [kind |-> "empty", protocol |-> 2, secret |-> ""]
      [] auth = "Token" /\ p.token # None ->
            [kind |-> "mac", protocol |-> p.token[1].protocol, secret |-> p.token[1].secret]
      [] OTHER ->
            [kind |-> "mac", secret |-> "",
             protocol |-> IF p.token = None THEN 2 ELSE p.token[1].protocol]

CurrentPin(p, right) == IF right /\ p.pin # None THEN p.pin[1] ELSE "not the PIN"

ClientPin(p, item) ==
    CASE item.op = "Session" -> [cmd |-> "clientPIN", sub |-> "getKeyAgreement"]
      [] item.op = "GetPinRetries" -> [cmd |-> "clientPIN", sub |-> "getPinRetries"]
      [] item.op = "SetPin" ->
            [cmd |-> "clientPIN", sub |-> "setPin", new_pin |-> item.pin,
             padded |-> item.padded, bad_auth |-> item.bad_auth]
      [] item.op = "ChangePin" ->
            [cmd |-> "clientPIN", sub |-> "changePin", pin |-> CurrentPin(p, item.right_pin),
             new_pin |-> item.pin, padded |-> TRUE]
      [] item.op = "GetToken" ->
            [cmd |-> "clientPIN",
             sub |-> IF item.legacy THEN "getPinToken" ELSE "getPinUvAuthToken",
             protocol |-> item.protocol, pin |-> CurrentPin(p, item.right_pin),
             permissions |-> IF item.legacy THEN None ELSE Some(item.permissions),
             rp |-> IF item.legacy THEN None ELSE item.for_rp]

(* The generators of fuzz/src/requests.rs, with the parts `step` fills in.  *)
make_credential(item, exclude, auth) ==
    [cmd |-> "makeCredential", rp |-> item.rp, user |-> item.user, alg |-> item.alg,
     rk |-> item.rk, uv |-> FALSE, up |-> TRUE, protect |-> item.protect,
     third_party_payment |-> item.third_party_payment,
     large_blob_key |-> item.large_blob_key, cred_blob |-> item.cred_blob,
     policy |-> item.policy, exclude |-> exclude, auth |-> auth]

get_assertion(item, rp, allow, auth) ==
    [cmd |-> "getAssertion", rp |-> rp, allow |-> allow, auth |-> auth,
     uv |-> FALSE, rk |-> FALSE, up |-> item.up,
     large_blob_key |-> item.large_blob_key, get_cred_blob |-> item.get_cred_blob,
     third_party_payment |-> item.third_party_payment]

MakeCredentialRequest(p, item) ==
    make_credential(item, IF item.exclude THEN known_ids(p) ELSE << >>,
                    pin_uv_auth(p, item.auth))

GetAssertionRequest(p, item, rp, allow) ==
    get_assertion(item, rp, allow, pin_uv_auth(p, item.auth))

(* The known credential an operation picks.                                *)
Picked(p, credential) == p.credentials[1 + (credential % Len(p.credentials))]

(* ManageKnown picks one, or an ID nobody has.                             *)
KnownId(p, item) ==
    IF p.credentials = << >> THEN CredentialId("discoverable", [random |-> 0])
    ELSE Picked(p, item.credential).id

KnownUser(p, item) ==
    IF item.valid_user /\ p.credentials # << >> THEN Picked(p, item.credential).user
    ELSE "nobody"

ManagementRequest(p, item) ==
    [cmd |-> "credentialManagement", family |-> item.family, sub |-> item.sub,
     rp_hash |-> IF item.sub = 4 /\ item.complete THEN Some(Hash(item.rp)) ELSE None,
     id |-> IF item.sub \in {6, 7} /\ item.complete THEN Some(KnownId(p, item)) ELSE None,
     user |-> IF item.sub = 7 THEN Some(KnownUser(p, item)) ELSE None,
     name |-> Some("Updated"), auth |-> pin_uv_auth(p, item.auth)]

ConfigRequest(p, item) ==
    [cmd |-> "authenticatorConfig", sub |-> item.sub_config, minimum |-> item.minimum,
     force_change |-> item.force_change, complexity |-> item.complexity,
     rp_ids |-> item.rp_ids, auth |-> pin_uv_auth(p, item.auth)]

Least(a, b) == IF a < b THEN a ELSE b

Fragment(array, from, length) ==
    [of |-> array, from |-> Least(from, array.len),
     length |-> Least(length, array.len - Least(from, array.len))]

write_fragment(p, item, offset, length, fragment) ==
    [cmd |-> "largeBlobs", get |-> None, set |-> Some(fragment), offset |-> offset,
     length |-> length, auth |-> pin_uv_auth(p, item.auth)]

GetArrayRequest(item) ==
    [cmd |-> "largeBlobs", get |-> Some(item.fragment), set |-> None,
     offset |-> item.offset[1], length |-> item.extra,
     auth |-> [kind |-> "none", protocol |-> 2, secret |-> ""]]

ContinueRequest(p, item, offset) ==
    write_fragment(p, item, offset, item.extra, Fragment(p.proposed, offset, item.fragment))

ArrayRequest(p, item) ==
    CASE item.op = "LargeBlobBegin" ->
            write_fragment(p, item, 0, Some(item.array.len),
                           Fragment(item.array, 0, item.fragment))
      [] item.op = "LargeBlobContinue" ->
            ContinueRequest(p, item, IF item.offset = None THEN p.pending.next
                                     ELSE item.offset[1])
      [] item.op = "LargeBlobPart" ->
            write_fragment(p, item, item.offset[1],
                           IF item.offset[1] = 0 THEN Some(item.array.len) ELSE None,
                           Fragment(item.array, item.offset[1], item.fragment))
      [] item.op = "LargeBlobGet" -> GetArrayRequest(item)

Corrupted(id) ==
    [id EXCEPT !.form = CASE @ = "discoverable" -> "stored"
                          [] @ = "stored" -> "discoverable"
                          [] OTHER -> "unknown"]

ForeignHandle ==
    CredentialId("sealed", SealedId(0, [alg |-> ES256, cred_protect |-> 1, key |-> 0],
                                    sealed_associated_data(Hash(""))))

Handle(p, item) ==
    IF p.credentials = << >> THEN ForeignHandle
    ELSE IF item.corrupt THEN Corrupted(Picked(p, item.credential).id)
    ELSE Picked(p, item.credential).id

U2fRequest(p, item) ==
    [cmd |-> "u2f", ins |-> item.ins, rp |-> item.rp, control |-> item.control,
     id |-> Handle(p, item)]

Request(p, item) ==
    CASE item.op \in {"Session", "GetPinRetries", "SetPin", "ChangePin", "GetToken"} ->
            ClientPin(p, item)
      [] item.op = "MakeCredential" -> MakeCredentialRequest(p, item)
      [] item.op = "GetAssertion" ->
            GetAssertionRequest(p, item, item.rp,
                                IF item.discoverable THEN None ELSE Some(known_ids(p)))
      [] item.op = "AssertRetired" ->
            GetAssertionRequest(p, item, p.retired[item.index].rp,
                                Some(<<p.retired[item.index].id>>))
      [] item.op = "ManageKnown" -> ManagementRequest(p, item)
      [] item.op = "AuthenticatorConfig" -> ConfigRequest(p, item)
      [] item.op \in {"LargeBlobBegin", "LargeBlobContinue", "LargeBlobPart",
                      "LargeBlobGet"} ->
            ArrayRequest(p, item)
      [] item.op = "U2f" -> U2fRequest(p, item)
      [] item.op = "Simple" -> [cmd |-> item.cmd]

---------------------------------------------------------------------------
(* A failed store call fails the command, and ends it.                     *)

Fails(cmd, event) ==
    CASE event.fault = None \/ event.call = "PinWrite" -> FALSE
      [] event.call = "PinRead" -> cmd # "getInfo"
      [] event.call \in {"Count", "BlobRead"} -> FALSE
      [] OTHER -> ~(event.call = "Get" /\ event.fault = Some("Corrupt"))

failed_call(cmd, events) ==
    LET failing == {i \in DOMAIN events : Fails(cmd, events[i])}
    IN  IF failing = {} THEN None
        ELSE Some(CHOOSE i \in failing : \A j \in failing : i <= j)

FailureStatus(req, call) ==
    CASE req.cmd = "u2f" -> "SW_INTERNAL_ERROR"
      [] req.cmd = "credentialManagement" /\ req.sub \in {3, 5} /\ call = "PinRead" ->
            "NOT_ALLOWED"
      [] OTHER -> "PROCESSING"

CheckFailure(p, req, x, failed) ==
    IF failed = None THEN p
    ELSE Expect(p, /\ x.status = FailureStatus(req, x.s.events[failed[1]].call)
                   /\ Len(x.s.events) = failed[1], "failed call")

---------------------------------------------------------------------------
(* What the engine has read of the PIN state, call by call.                *)

AfterRead(p, fault, reconciling) ==
    CASE p.authority \in {"Unreadable", "Kept"} -> Expect(p, FALSE, "authority")
      [] p.authority = "Read" /\ fault = None -> p
      [] p.authority = "Read" /\ fault = Some("Io") /\ ~reconciling -> p
      [] p.authority = "Read" /\ fault = Some("Io") ->
            [tokens_dropped(p) EXCEPT !.authority = "Unread"]
      [] p.authority = "Read" -> [tokens_dropped(p) EXCEPT !.authority = "Kept"]
      [] fault = None -> [tokens_dropped(p) EXCEPT !.authority = "Read"]
      [] fault = Some("Io") -> p
      [] OTHER -> [p EXCEPT !.authority = "Unreadable"]

(* A failed clear of a reset was the last write of the PIN state.          *)
Reconciling(req, events, i) ==
    req.cmd = "reset" /\ \E j \in 1 .. i - 1 :
                            events[j].call = "PinWrite" /\ events[j].fault # None

audit_authority(p, req, events) ==
    FoldLeftDomain(
        LAMBDA q, i :
            CASE events[i].call = "PinWrite" ->
                    Expect(q, req.cmd = "reset" \/ q.authority = "Read", "authority")
              [] events[i].call = "PinRead" ->
                    AfterRead(q, events[i].fault, Reconciling(req, events, i))
              [] OTHER -> q,
        p, events)

---------------------------------------------------------------------------
(* The retries, write by write.                                            *)

verifying(req) ==
    req.cmd = "clientPIN" /\ req.sub \in {"changePin", "getPinToken", "getPinUvAuthToken"}

confirmed(write) == write.outcome \in {Some("Flushed"), Some("Volatile")}

RetriesAfter(p, req, write, i, matched) ==
    CASE verifying(req) /\ i = 1 ->
            Expect([p EXCEPT !.retries = IF write.outcome # None THEN @ - 1 ELSE @],
                   p.retries > 0 /\ write.state.pin_retries = p.retries - 1, "retries")
      [] verifying(req) /\ i = 2 ->
            Expect([p EXCEPT !.retries = IF matched /\ write.outcome # None
                                         THEN MAX_PIN_RETRIES ELSE @,
                             !.mismatches = CASE ~matched -> @ + 1
                                              [] write.outcome # None -> 0
                                              [] OTHER -> @],
                   write.state.pin_retries = IF matched THEN MAX_PIN_RETRIES
                                             ELSE p.retries, "retries")
      [] write.outcome # None ->
            Expect([p EXCEPT !.retries = write.state.pin_retries,
                             !.mismatches = IF req.cmd = "authenticatorConfig" THEN @
                                            ELSE 0],
                   write.state.pin_retries = IF req.cmd = "authenticatorConfig"
                                             THEN p.retries ELSE MAX_PIN_RETRIES,
                   "retries")
      [] OTHER -> p

AuditWrite(p, req, x, i, matched) ==
    Expect([RetriesAfter(p, req, x.s.writes[i], i, matched) EXCEPT
               !.saved_retries = IF x.s.writes[i].outcome # None
                                 THEN x.s.writes[i].state.pin_retries ELSE @],
           verifying(req) /\ i <= 2 /\ ~confirmed(x.s.writes[i]) =>
               x.status = "PROCESSING" /\ Len(x.s.writes) = i,
           "retries")

(* A verdict follows a confirmed debit and the write that settles it, and  *)
(* the retries the engine reports are those that are left.                 *)
AuditVerdict(p, req, x) ==
    Expect(p, /\ verifying(req) /\ x.status \in {"OK", "PIN_INVALID"} =>
                    Len(x.s.writes) >= 2 /\ confirmed(x.s.writes[1])
              /\ (req.cmd = "clientPIN" /\ req.sub = "getPinRetries" /\ x.status = "OK") =>
                    /\ x.reply.retries = live(p).retries
                    /\ x.reply.power_cycle = (p.mismatches >= 3),
           "retries")

audit_pin_writes(p, req, x, matched) ==
    AuditVerdict(FoldLeftDomain(LAMBDA q, i : AuditWrite(q, req, x, i, matched),
                                p, x.s.writes),
                 req, x)

---------------------------------------------------------------------------
(* The large-blob array.                                                   *)

PendingEnds(p, req, now) ==
    \/ req.cmd # "largeBlobs"
    \/ p.pending.last_fragment # None /\ now - p.pending.last_fragment[1] >= 3
    \/ p.pending.token_id # None
       /\ (p.pending.token_id[1] # p.token_id \/ p.token = None
           \/ now - p.token_issued_at >= 60)

served(p, events) ==
    IF \E i \in DOMAIN events : events[i].call = "BlobRead" /\ events[i].fault # None
    THEN INITIAL_LARGE_BLOB_ARRAY ELSE p.committed

ObserveGet(p, req, x, array) ==
    Expect(p, x.status = "OK" =>
                 /\ req.length = None /\ req.get[1] <= 1704 /\ req.offset <= array.len
                 /\ x.reply = [of |-> array, from |-> req.offset,
                               length |-> Least(req.get[1], array.len - req.offset)],
           "array")

CommitFailed(x) ==
    \E i \in DOMAIN x.s.events :
        x.s.events[i].call = "BlobWrite" /\ x.s.events[i].fault # None

Finished(p, x, array) ==
    CASE CommitFailed(x) -> Expect(p, validate_large_blob_array(array), "array")
      [] validate_large_blob_array(array) ->
            Expect([p EXCEPT !.committed = array], x.status = "OK", "array")
      [] OTHER -> Expect([p EXCEPT !.pending = NewPending],
                         x.status = "INTEGRITY_FAILURE", "array")

Extended(p, x) ==
    IF p.pending.next = p.pending.length THEN Finished(p, x, Joined(p.pending.bytes))
    ELSE Expect(p, x.status = "OK", "array")

(* The write was authorized by the token the platform holds.               *)
WriteAllowed(p, req, now) ==
    p.pin # None \/ p.always_uv =>
        /\ req.auth.kind # "none" /\ p.token # None
        /\ now - p.token_issued_at < 60 /\ "lbw" \in p.token_permissions
        /\ req.auth.protocol = p.token[1].protocol
        /\ req.auth.secret = p.token[1].secret

Accepted(p, req, x, now) ==
    IF x.status \notin {"OK", "INTEGRITY_FAILURE"} /\ ~CommitFailed(x) THEN p
    ELSE Extended(
        Expect([p EXCEPT
                  !.pending.token_id =
                      IF req.offset # 0 THEN @
                      ELSE IF p.pin # None \/ p.always_uv THEN Some(p.token_id) ELSE None,
                  !.pending.bytes =
                      (IF req.offset = 0 THEN << >> ELSE @)
                      \o (IF req.set[1].length = 0 THEN << >> ELSE req.set),
                  !.pending.next = req.offset + req.set[1].length,
                  !.pending.last_fragment = Some(now)],
               /\ req.offset + req.set[1].length <= p.pending.length
               /\ WriteAllowed(p, req, now), "array"), x)

InOrder(p, req, x, now) ==
    IF req.offset # p.pending.next
    THEN Expect([p EXCEPT !.pending = NewPending], x.status = "INVALID_SEQ", "array")
    ELSE Accepted(p, req, x, now)

ObserveSet(p, req, x, now) ==
    CASE \/ req.set[1].length > 1704
         \/ req.offset = 0 /\ (req.length = None \/ req.length[1] \notin 17 .. 16384)
         \/ req.offset # 0 /\ req.length # None ->
            Expect(p, x.status # "OK", "array")
      [] req.offset = 0 ->
            InOrder([p EXCEPT !.pending.next = 0, !.pending.length = req.length[1]],
                    req, x, now)
      [] OTHER -> InOrder(p, req, x, now)

ObserveArray(p, req, x, now) ==
    CASE req.cmd # "largeBlobs" -> p
      [] req.get # None ->
            ObserveGet([p EXCEPT !.pending = NewPending], req, x, served(p, x.s.events))
      [] OTHER -> ObserveSet(p, req, x, now)

observe_array(p, req, x, now) ==
    ObserveArray(IF PendingEnds(p, req, now) THEN [p EXCEPT !.pending = NewPending] ELSE p,
                 req, x, now)

---------------------------------------------------------------------------
(* What the platform learns from a success, and expects of it.             *)

Known(p, id) == KnownAs(p, id) # << >>

ExpectedForm(req) ==
    CASE req.rk -> "discoverable"
      [] req.third_party_payment \/ ~is_sealable(req.alg) -> "stored"
      [] OTHER -> "sealed"

Authorized_rp(p, rp) == \E i \in DOMAIN p.rp_ids : p.rp_ids[i] = rp

CreationAnswers(p, req, reply) ==
    /\ live(p).always_uv => req.auth.kind # "none"
    /\ reply.id.form = ExpectedForm(req)
    /\ req.large_blob_key \in {None, Some(TRUE)}
    /\ req.large_blob_key # None => req.rk
    /\ (reply.large_blob_key # None) = (req.large_blob_key # None)
    /\ reply.min_pin_length =
          IF req.policy /\ Authorized_rp(p, req.rp) THEN Some(p.minimum) ELSE None
    /\ reply.complexity =
          IF req.policy /\ Authorized_rp(p, req.rp) THEN Some(p.complexity) ELSE None

Replaced(req, c) == req.rk /\ c.discoverable /\ c.rp = req.rp /\ c.user = req.user

Retired(credentials, Gone(_)) ==
    LET gone == SelectSeq(credentials, Gone)
    IN  [i \in DOMAIN gone |-> [id |-> gone[i].id, rp |-> gone[i].rp]]

Retire(p, Gone(_)) ==
    [p EXCEPT !.retired = @ \o Retired(p.credentials, Gone),
              !.credentials = SelectSeq(@, LAMBDA c : ~Gone(c))]

NewCredentialOf(req, reply) ==
    [user |-> req.user, rp |-> req.rp, alg |-> reply.alg, protect |-> req.protect,
     counter |-> 0, large_blob_key |-> reply.large_blob_key,
     cred_blob |-> IF reply.cred_blob = Some(TRUE) THEN req.cred_blob ELSE None,
     third_party_payment |-> req.third_party_payment, discoverable |-> req.rk,
     id |-> reply.id]

ObserveMakeCredential(p, req, reply) ==
    Expect([Retire(p, LAMBDA c : Replaced(req, c)) EXCEPT
               !.credentials = Append(@, NewCredentialOf(req, reply))],
           CreationAnswers(p, req, reply), "answer")

(* observe_counter: a count never falls, and was saved before it was       *)
(* returned.  Store::persisted_counter reads past the faults.              *)
persisted_counter(s, id) ==
    IF is_sealed(id) THEN s.inner.signature_counter
    ELSE MemoryGet(s.inner, id).value[1].sign_count

IsStoredId(s, id) == is_sealed(id) \/ MemoryGet(s.inner, id).value # None

Counts(p, s, id, n, before) ==
    /\ n >= before
    /\ IsStoredId(s, id) /\ persisted_counter(s, id) >= n
    /\ is_sealed(id) => n >= p.global_counter

Counted(p, id, n) ==
    [p EXCEPT !.credentials = [i \in DOMAIN @ |-> IF @[i].id = id
                                                  THEN [@[i] EXCEPT !.counter = n]
                                                  ELSE @[i]],
              !.global_counter = IF is_sealed(id) THEN n ELSE @]

observe_counter(p, s, id, n) ==
    Expect(Counted(p, id, n), Counts(p, s, id, n, KnownAs(p, id)[1].counter),
           "count")

AssertionAnswers(p, reply, terms, c) ==
    /\ c.rp = terms.rp
    /\ reply.large_blob_key = IF terms.large_blob_key THEN c.large_blob_key ELSE None
    /\ reply.large_blob_key # None => c.discoverable
    /\ reply.third_party_payment =
          IF terms.third_party_payment THEN Some(c.third_party_payment) ELSE None
    /\ reply.cred_blob \in {None, Some(c.cred_blob)}

ObserveAssertion(p, x, terms) ==
    IF ~Known(p, x.reply.id) THEN Expect(p, FALSE, "answer")
    ELSE observe_counter(
            Expect(p, AssertionAnswers(p, x.reply, terms, KnownAs(p, x.reply.id)[1]),
                   "answer"),
            x.s, x.reply.id, x.reply.count)

TermsOf(req) ==
    [rp |-> req.rp, large_blob_key |-> req.large_blob_key = Some(TRUE),
     third_party_payment |-> req.third_party_payment]

ObserveGetAssertion(p, req, x) ==
    Expect([ObserveAssertion(p, x, TermsOf(req)) EXCEPT
               !.assertion = IF x.reply.number = None THEN @ ELSE Some(TermsOf(req))],
           /\ live(p).always_uv /\ req.up => req.auth.kind # "none"
           /\ req.large_blob_key \in {None, Some(TRUE)}, "answer")

ObserveNextAssertion(p, x) ==
    IF p.assertion = None THEN Expect(p, FALSE, "answer")
    ELSE ObserveAssertion(p, x, p.assertion[1])

ObserveManagement(p, req, reply) ==
    CASE req.sub \in {4, 5} ->
            Expect(p, /\ Known(p, reply.id)
                      /\ LET c == KnownAs(p, reply.id)[1]
                         IN  /\ c.discoverable
                             /\ reply.third_party_payment = c.third_party_payment
                             /\ reply.large_blob_key = c.large_blob_key, "answer")
      [] req.sub = 6 -> Retire(p, LAMBDA c : c.id = req.id[1])
      [] OTHER -> p

ObserveReset(p) ==
    [clear_client_token(Retire(p, LAMBDA c : TRUE)) EXCEPT
        !.authority = "Read", !.pin = None, !.global_counter = 0,
        !.minimum = DEFAULT_MIN_PIN_LENGTH, !.always_uv = FALSE, !.force_change = FALSE,
        !.complexity = FALSE, !.pin_qualified = FALSE, !.rp_ids = << >>,
        !.committed = INITIAL_LARGE_BLOB_ARRAY, !.pending = NewPending]

ConfigForces(p, req, minimum) ==
    \/ req.force_change
    \/ p.pin # None /\ PINS[p.pin[1]].length < minimum
    \/ req.complexity /\ ~p.complexity /\ p.pin # None

ClearIfForced(p) == IF p.force_change THEN clear_client_token(p) ELSE p

MinimumSet(p, req, minimum) ==
    ClearIfForced(
        Expect([p EXCEPT !.minimum = minimum,
                         !.force_change = @ \/ ConfigForces(p, req, minimum),
                         !.rp_ids = IF req.rp_ids = << >> THEN @ ELSE req.rp_ids,
                         !.complexity = @ \/ req.complexity,
                         !.pin_qualified = @ /\ (req.complexity => p.complexity)],
               /\ minimum >= p.minimum /\ minimum <= 63
               /\ req.force_change => p.pin # None
               /\ Len(req.rp_ids) <= 8, "answer"))

ObserveConfig(p, req) ==
    IF req.sub = "toggleAlwaysUv" THEN [p EXCEPT !.always_uv = ~@]
    ELSE MinimumSet(p, req, IF req.minimum = None THEN p.minimum ELSE req.minimum[1])

ObserveInfo(p, info) ==
    Expect(p, /\ info.complexity = live(p).complexity
              /\ info.u2f = ~live(p).always_uv
              /\ info.minimum = live(p).minimum
              /\ info.force = live(p).force_change
              /\ info.client_pin = live(p).pin_set
              /\ info.always_uv = live(p).always_uv
              /\ info.make_cred_uv_not_rqd = ~live(p).always_uv, "answer")

U2fCredential(req, id) ==
    [user |-> "", rp |-> req.rp, alg |-> ES256, protect |-> 1, counter |-> 0,
     large_blob_key |-> None, cred_blob |-> None, third_party_payment |-> FALSE,
     discoverable |-> FALSE, id |-> id]

U2fAnswers(req, reply, c) ==
    /\ c.rp = req.rp /\ c.alg = ES256 /\ ~c.discoverable /\ c.protect <= 2
    /\ req.control \in {3, 8} /\ reply.up = (req.control = 3)

ObserveU2fSuccess(p, req, x) ==
    CASE req.ins = 1 -> [p EXCEPT !.credentials = Append(@, U2fCredential(req, x.reply.id))]
      [] req.ins = 3 -> p
      [] ~Known(p, req.id) -> Expect(p, FALSE, "answer")
      [] OTHER -> observe_counter(
                     Expect(p, U2fAnswers(req, x.reply, KnownAs(p, req.id)[1]), "answer"),
                     x.s, req.id, x.reply.count)

observe_u2f(p, req, x) ==
    Expect(IF x.status = "OK" THEN ObserveU2fSuccess(p, req, x) ELSE p,
           live(p).always_uv /\ req.ins \in {1, 2} => x.status = "SW_COMMAND_NOT_ALLOWED",
           "answer")

ObserveSuccess(p, req, x) ==
    CASE req.cmd = "makeCredential" -> ObserveMakeCredential(p, req, x.reply)
      [] req.cmd = "getAssertion" -> ObserveGetAssertion(p, req, x)
      [] req.cmd = "getNextAssertion" -> ObserveNextAssertion(p, x)
      [] req.cmd = "credentialManagement" -> ObserveManagement(p, req, x.reply)
      [] req.cmd = "reset" -> ObserveReset(p)
      [] req.cmd = "authenticatorConfig" -> ObserveConfig(p, req)
      [] req.cmd = "getInfo" -> ObserveInfo(p, x.reply)
      [] OTHER -> p

Observe(p, req, x) ==
    IF x.status = "OK"
    THEN ObserveSuccess(IF req.cmd = "getNextAssertion" THEN p
                        ELSE [p EXCEPT !.assertion = None], req, x)
    ELSE [p EXCEPT !.assertion = None]

observe(p, req, x, now) == Observe(observe_array(p, req, x, now), req, x)

(* Platform::call: the checks of one response, in the order they are made. *)
Forgotten(p) == IF p.force_change THEN [p EXCEPT !.m = invalidate(@)] ELSE p

Checked(p, req, x, matched, now) ==
    Forgotten(observe(audit_pin_writes(check(audit_authority(p, req, x.s.events),
                                             req, x, now), req, x, matched),
                      req, x, now))

call(p, req, x, matched, now) ==
    Checked(CheckFailure(p, req, x, failed_call(req.cmd, x.s.events)), req, x, matched, now)

(* Platform::call_u2f.                                                     *)
call_u2f(p, req, x) ==
    observe_u2f(
        CheckFailure(
            Expect([p EXCEPT !.pending = NewPending, !.assertion = None],
                   \A i \in DOMAIN x.s.events :
                       x.s.events[i].call \notin {"PinRead", "PinWrite"}, "authority"),
            req, x, failed_call(req.cmd, x.s.events)),
        req, x)

---------------------------------------------------------------------------
(* What the operation that sent the request expects, and learns.           *)

KnowsPin(p, item) == item.right_pin /\ p.pin # None

check_not_blocked(p, x) == live(p).retries > 0 => x.status # "PIN_BLOCKED"

PinLearnt(p, pin) ==
    [clear_client_token(p) EXCEPT !.pin = Some(pin), !.pin_qualified = p.complexity,
                                  !.force_change = FALSE]

AfterSetPin(p, item, x) ==
    IF x.status # "OK" THEN p
    ELSE Expect(PinLearnt(p, item.pin),
                /\ p.pin = None /\ ~item.bad_auth /\ item.padded
                /\ acceptable_pin(item.pin, p.minimum, p.complexity), "pin")

AfterChangePin(p, item, x) ==
    IF x.status # "OK"
    THEN Expect(p, KnowsPin(p, item) => /\ x.status # "PIN_INVALID"
                                        /\ check_not_blocked(p, x), "pin")
    ELSE Expect(PinLearnt(p, item.pin),
                /\ KnowsPin(p, item)
                /\ acceptable_pin(item.pin, p.minimum, p.complexity)
                /\ p.force_change => p.pin # Some(item.pin), "pin")

Granted(item) == IF item.legacy THEN {"mc", "ga"} ELSE item.permissions

TokenLearnt(p, item, secret, now) ==
    issue([p EXCEPT !.token = Some([protocol |-> item.protocol, secret |-> secret]),
                    !.persistent_tokens[item.protocol] =
                        IF ~item.legacy /\ Granted(item) = {"pcmr"} THEN Some(secret) ELSE @,
                    !.token_issued_at = now, !.token_id = @ + 1,
                    !.token_permissions = Granted(item)],
          item.protocol, secret, Granted(item),
          IF item.legacy \/ Granted(item) = {"pcmr"} THEN None ELSE item.for_rp,
          item.legacy, now)

AfterGetToken(p, item, x, now) ==
    IF x.status # "OK"
    THEN Expect(p, KnowsPin(p, item) =>
                      /\ ~(item.legacy /\ p.force_change) => x.status # "PIN_INVALID"
                      /\ check_not_blocked(p, x), "pin")
    ELSE TokenLearnt(Expect(p, KnowsPin(p, item) /\ ~p.force_change, "pin"),
                     item, x.reply.token, now)

Learnt(p, item, x, now) ==
    CASE item.op = "SetPin" -> AfterSetPin(p, item, x)
      [] item.op = "ChangePin" -> AfterChangePin(p, item, x)
      [] item.op = "GetToken" -> AfterGetToken(p, item, x, now)
      [] item.op = "AssertRetired" -> Expect(p, x.status # "OK", "answer")
      [] OTHER -> p

(* The platform before a request and after its response.                   *)
Proposed(p, item) ==
    IF item.op = "LargeBlobBegin" THEN [p EXCEPT !.proposed = item.array] ELSE p

Matched(p, item) ==
    IF item.op \in {"ChangePin", "GetToken"} THEN KnowsPin(p, item) ELSE FALSE

Answered(p, item, req, x, now) ==
    Learnt(IF req.cmd = "u2f" THEN call_u2f(p, req, x)
           ELSE call(Proposed(p, item), req, x, Matched(p, item), now),
           item, x, now)

---------------------------------------------------------------------------
(* The requests an operation sends.                                        *)

Session == [op |-> "Session"]

InSession(item) == <<Session, item>>

Enrol(p, op) ==
    (IF p.pin # None THEN << >>
     ELSE InSession([op |-> "SetPin", padded |-> TRUE, bad_auth |-> FALSE,
                     pin |-> IF p.complexity THEN MixedPin ELSE PlainPin]))
    \o InSession([op |-> "GetToken", legacy |-> FALSE, protocol |-> op.protocol,
                  right_pin |-> TRUE, permissions |-> op.permissions, for_rp |-> op.for_rp])

AssertingOf(op) ==
    [rp |-> RpOrder[1], up |-> FALSE, auth |-> "None", get_cred_blob |-> FALSE,
     large_blob_key |-> op.large_blob_key, third_party_payment |-> op.third_party_payment,
     discoverable |-> op.discoverable, op |-> "GetAssertion"]

RetiredProbe(i) ==
    [op |-> "AssertRetired", index |-> i, up |-> FALSE, auth |-> "None",
     get_cred_blob |-> FALSE, large_blob_key |-> None, third_party_payment |-> FALSE]

(* An array in twelve parts at most.                                       *)
Chunk(op) ==
    CHOOSE n \in {op.fragment, (op.array.len + 11) \div 12, 1} :
        \A m \in {op.fragment, (op.array.len + 11) \div 12, 1} : m <= n

Parts(op) ==
    [i \in 1 .. (op.array.len + Chunk(op) - 1) \div Chunk(op) |->
        [op |-> "LargeBlobPart", array |-> op.array, offset |-> Some((i - 1) * Chunk(op)),
         fragment |-> Chunk(op), auth |-> op.auth]]

Items(op, p) ==
    CASE op.op \in {"SetPin", "ChangePin", "GetToken"} -> InSession(op)
      [] op.op = "Enroll" -> Enrol(p, op)
      [] op.op = "AssertCredentials" ->
            <<AssertingOf(op)>> \o [i \in DOMAIN p.retired |-> RetiredProbe(i)]
      [] op.op = "LargeBlobWrite" -> Parts(op)
      [] OTHER -> <<op>>

(* LargeBlobWrite stops at the first part refused.                         *)
Remaining(items, x) ==
    IF Head(items).op = "LargeBlobPart" /\ x.status # "OK" THEN << >> ELSE Tail(items)

---------------------------------------------------------------------------
(* Operations that send no request.                                        *)

RestartedPlatform(p, fault) ==
    [clear_client_token(p) EXCEPT
        !.authority = CASE fault = None -> "Read"
                        [] fault = Some("Io") -> "Unread"
                        [] OTHER -> "Unreadable",
        !.m = restart(@), !.retries = p.saved_retries, !.mismatches = 0,
        !.pending = NewPending, !.assertion = None]

(* The engine reads the PIN state as it starts, and nothing else.          *)
AfterRestart(p, events) ==
    Expect(RestartedPlatform(p, events[1].fault),
           Len(events) = 1 /\ events[1].call = "PinRead", "authority")

WithPersistent(p, protocol) ==
    [p EXCEPT !.token = IF p.persistent_tokens[protocol] = None THEN None
                        ELSE Some([protocol |-> protocol,
                                   secret |-> p.persistent_tokens[protocol][1]]),
              !.token_permissions = {"pcmr"}]

---------------------------------------------------------------------------
(* What the store must hold.                                               *)

(* Exactly the stored credentials that were published and not deleted, no  *)
(* count below one that was returned, and the last array committed.        *)
check_store(p, store) ==
    /\ {r.credential_id : r \in store.credentials} =
          {p.credentials[i].id : i \in {j \in DOMAIN p.credentials :
                                           ~is_sealed(p.credentials[j].id)}}
    /\ \A r \in store.credentials :
          \A i \in DOMAIN p.credentials :
              p.credentials[i].id = r.credential_id =>
                  r.sign_count >= p.credentials[i].counter
    /\ store.signature_counter >= p.global_counter
    /\ store.large_blob_array = p.committed

(* The PIN and the policies the platform saw accepted.                     *)
check_published_state(p, store) ==
    store.pin_state # None =>
        LET record == store.pin_state[1]
        IN  /\ record.pin_retries = p.saved_retries
            /\ record.pin_hash = p.pin
            /\ record.min_pin_length = p.minimum
            /\ record.always_uv = p.always_uv
            /\ record.force_pin_change = p.force_change
            /\ record.pin_complexity_policy = p.complexity
            /\ p.complexity /\ ~p.force_change /\ p.pin # None =>
                  p.pin_qualified /\ acceptable_pin(p.pin[1], p.minimum, TRUE)
            /\ record.min_pin_length_rp_ids =
                  [i \in DOMAIN p.rp_ids |-> RpIdBytes(p.rp_ids[i])]
=============================================================================
