----------------------------- MODULE SeedCorpus -----------------------------
(***************************************************************************)
(* The operations of the fuzz targets' platform, and the sequences of them *)
(* that seed the search (fuzz/src/sequence.rs, seed_corpus, fault_cases).  *)
(*                                                                         *)
(* Times are in units of ten seconds.  Indices that the code reduces to a  *)
(* PIN, an RP, a set of permissions or a length are written as what they   *)
(* select.  The seeds of key agreement and of a malformed message are left *)
(* out, with what they send.                                               *)
(***************************************************************************)
EXTENDS Platform

(* Operations.                                                             *)

SetPin(pin, padded, bad_auth) ==
    [op |-> "SetPin", pin |-> pin, padded |-> padded, bad_auth |-> bad_auth]

ChangePin(right, pin) == [op |-> "ChangePin", right_pin |-> right, pin |-> pin]

GetToken(right, legacy, protocol, permissions, rp) ==
    [op |-> "GetToken", legacy |-> legacy, protocol |-> protocol, right_pin |-> right,
     permissions |-> permissions, for_rp |-> rp]

Enroll(protocol, permissions, rp) ==
    [op |-> "Enroll", protocol |-> protocol, permissions |-> permissions, for_rp |-> rp]

MakeWith(rp, user, alg, rk, auth) ==
    [op |-> "MakeCredential", rp |-> rp, user |-> user, alg |-> alg, rk |-> rk,
     protect |-> 1, third_party_payment |-> FALSE, large_blob_key |-> None,
     cred_blob |-> None, policy |-> TRUE, exclude |-> FALSE, auth |-> auth]

CreateCredential(alg, rp, large_blob_key, third_party_payment, rk, user) ==
    [MakeWith(rp, user, alg, rk, "None") EXCEPT
        !.large_blob_key = large_blob_key, !.third_party_payment = third_party_payment]

AssertCredentials(large_blob_key, third_party_payment, any) ==
    [op |-> "AssertCredentials", discoverable |-> any,
     large_blob_key |-> large_blob_key, third_party_payment |-> third_party_payment]

(* `credential` counts the credentials the platform knows, from zero.      *)
ManageKnown(family, sub, rp, credential) ==
    [op |-> "ManageKnown", family |-> family, sub |-> sub, rp |-> rp, complete |-> TRUE,
     credential |-> credential, valid_user |-> TRUE, auth |-> "Token"]

EnumerateCredentials(auth, next) ==
    [ManageKnown("Standard", IF next THEN 5 ELSE 4, RpOrder[1], 0) EXCEPT !.auth = auth]

AuthenticatorConfig(sub, minimum, force, complexity, rp_ids, auth) ==
    [op |-> "AuthenticatorConfig", sub_config |-> sub, minimum |-> minimum,
     force_change |-> force, complexity |-> complexity, rp_ids |-> rp_ids, auth |-> auth]

U2f(ins, rp, control, corrupt, credential) ==
    [op |-> "U2f", ins |-> ins, rp |-> rp, control |-> control, corrupt |-> corrupt,
     credential |-> credential]

Array(len, b, hash) == [len |-> len, b |-> b, hash |-> hash]

LargeBlobBegin(auth, array, fragment) ==
    [op |-> "LargeBlobBegin", array |-> array, fragment |-> fragment, auth |-> auth]

LargeBlobContinue(auth, offset, fragment) ==
    [op |-> "LargeBlobContinue", offset |-> offset, extra |-> None,
     fragment |-> fragment, auth |-> auth]

LargeBlobWrite(auth, array, fragment) ==
    [op |-> "LargeBlobWrite", array |-> array, fragment |-> fragment, auth |-> auth]

LargeBlobGet(offset, length) ==
    [op |-> "LargeBlobGet", offset |-> Some(offset), extra |-> None, fragment |-> length]

Simple(cmd) == [op |-> "Simple", cmd |-> cmd]
GetInfo == Simple("getInfo")
GetNextAssertion == Simple("getNextAssertion")
Reset == Simple("reset")
GetPinRetries == [op |-> "GetPinRetries"]

(* Operations that send no request.                                        *)
PinWriteFault(mode, after) == [op |-> "PinWriteFault", mode |-> mode, after |-> after]
StoreFault(sl, kind, after) ==
    [op |-> "StoreFault", slot |-> sl, kind |-> kind, after |-> after]
Restart == [op |-> "Restart"]
UsePersistent(protocol) == [op |-> "UsePersistent", protocol |-> protocol]
Presence(outcome) == [op |-> "Presence", outcome |-> outcome]
Elapse(time) == [op |-> "Advance", time |-> time]

---------------------------------------------------------------------------
(* Whole, cut short and interrupted transfers of a large-blob array.       *)

MaxFragment == 1704

read == LargeBlobGet(0, MaxFragment)
begin(auth, hash) == LargeBlobBegin(auth, Array(MaxFragment + 1, "a", hash), MaxFragment)
continuation(auth) == LargeBlobContinue(auth, Some(MaxFragment), MaxFragment)
write(auth, len) == LargeBlobWrite(auth, Array(len, "w", TRUE), MaxFragment)

TransferSeeds ==
    << <<write("None", 17), read>>, <<write("None", MaxFragment), read>>,
       <<write("None", MaxFragment + 1), read>>, <<write("None", 16384), read>>,
       <<begin("None", FALSE), continuation("None"), read>> >>
    \o [i \in 1 .. 3 |-> <<begin("None", TRUE), <<GetInfo, read, Elapse(3)>>[i],
                           continuation("None"), read>>]

TokenTransferSeeds(protocol) ==
    LET enroll == Enroll(protocol, {"lbw"}, None)
    IN  << <<enroll, begin("Token", TRUE), continuation("Wrong"), continuation("Token"), read>>,
           <<enroll, begin("Token", TRUE), enroll, continuation("Token"), read>>,
           <<enroll, write("Token", 17), Elapse(59), begin("Token", TRUE), Elapse(2),
             continuation("Token"), read>>,
           <<enroll, CreateCredential(ES256, RpOrder[1], None, FALSE, FALSE, "u9"),
             write("Token", MaxFragment + 1), read>> >>

(* Credentials of one RP with and without a large-blob key.                *)
LargeBlobKeySeed(protocol) ==
    LET create(key, rk, user) == CreateCredential(ES256, RpOrder[1], key, FALSE, rk, user)
        assert(key, any) == AssertCredentials(key, FALSE, any)
    IN  <<create(Some(TRUE), TRUE, "u1"), create(None, TRUE, "u2"),
          create(Some(TRUE), TRUE, "u3"), create(None, FALSE, "u4"),
          create(Some(TRUE), FALSE, "u5"), create(Some(FALSE), TRUE, "u6"),
          assert(Some(TRUE), TRUE), GetNextAssertion, GetNextAssertion,
          assert(None, TRUE), GetNextAssertion, assert(Some(FALSE), TRUE),
          assert(Some(TRUE), FALSE), Enroll(protocol, {"cm", "lbw"}, None),
          EnumerateCredentials("Token", FALSE), EnumerateCredentials("None", TRUE),
          EnumerateCredentials("None", TRUE), Reset, read>>

(* A credential of each protocol used by the other, and U2F under alwaysUv. *)
U2fSeeds ==
    LET register == U2f(1, RpOrder[1], 0, FALSE, 0)
        authenticate(credential, control) ==
            U2f(2, RpOrder[1], control, FALSE, credential)
        version == U2f(3, RpOrder[1], 0, FALSE, 0)
        toggle == AuthenticatorConfig("toggleAlwaysUv", None, FALSE, FALSE, << >>, "None")
        uses == <<authenticate(0, 3), authenticate(0, 7), authenticate(0, 8)>>
    IN  << <<CreateCredential(ES256, RpOrder[1], None, FALSE, FALSE, "u1")>> \o uses
           \o <<register, version, AssertCredentials(None, FALSE, FALSE),
                authenticate(1, 3), authenticate(1, 3), U2f(2, RpOrder[1], 3, TRUE, 1),
                Reset, authenticate(1, 3)>>,
           <<register, toggle, register>> \o uses
           \o <<GetInfo, version, toggle, authenticate(0, 3)>> >>

---------------------------------------------------------------------------
(* Writes of the PIN state that are rejected (2) or left unconfirmed (3).  *)

set == SetPin(PlainPin, TRUE, FALSE)
token(protocol) == GetToken(TRUE, FALSE, protocol, {"acfg"}, None)

PinWriteSeeds(protocol, mode) ==
    LET t == token(protocol)
    IN  << <<PinWriteFault(mode, 0), set, GetInfo, Restart, GetPinRetries>>,
           <<set, PinWriteFault(mode, 0), t, GetPinRetries, Restart, t, GetInfo>>,
           <<set, PinWriteFault(mode, 1), t, GetPinRetries, Restart, t, GetInfo>>,
           <<set, t, PinWriteFault(mode, 2), ChangePin(TRUE, MixedPin), GetInfo, Restart, t>>,
           <<set, t, PinWriteFault(mode, 0),
             AuthenticatorConfig("toggleAlwaysUv", None, FALSE, FALSE, << >>, "Token"),
             GetInfo, Restart, GetInfo>>,
           <<set, PinWriteFault(mode, 0), Reset, GetInfo, Restart, GetPinRetries>> >>

FlushedWriteSeed(protocol) ==
    <<set, PinWriteFault(1, 0), token(protocol), GetPinRetries, Restart>>

(* The complexity policy set, with a PIN and before there is one.          *)
enable(complexity) ==
    AuthenticatorConfig("setMinPinLength", None, FALSE, complexity, << >>, "Token")

ComplexityWriteSeeds(protocol, mode) ==
    LET t == token(protocol)
    IN  << <<set, t, PinWriteFault(mode, 0), enable(TRUE), Restart, GetInfo,
             ChangePin(TRUE, MixedPin), t, PinWriteFault(mode, 0), Reset, GetInfo,
             Restart, GetInfo>>,
           <<set, t, enable(TRUE), PinWriteFault(mode, 2), ChangePin(TRUE, MixedPin),
             Restart, GetInfo, t>> >>

ComplexitySeeds(protocol) ==
    LET t == token(protocol)
    IN  << <<set, t, enable(TRUE), GetInfo, t, ChangePin(TRUE, PlainPin),
             ChangePin(TRUE, MixedPin), t, enable(TRUE), enable(FALSE), Restart, GetInfo,
             Reset, GetInfo>> >>
        \o ComplexityWriteSeeds(protocol, 2) \o ComplexityWriteSeeds(protocol, 3)
        \o << <<enable(TRUE), set, SetPin(MixedPin, TRUE, FALSE), Restart, GetInfo, Reset,
                set, GetInfo>> >>

DisclosureSeed(enabled) ==
    <<AuthenticatorConfig("setMinPinLength", None, FALSE, enabled, <<RpOrder[1]>>, "None"),
      CreateCredential(ES256, RpOrder[1], Some(TRUE), FALSE, TRUE, "u1"),
      AssertCredentials(Some(TRUE), FALSE, TRUE), Restart, GetInfo, Reset, GetInfo>>

---------------------------------------------------------------------------
(* Credentials for payments by third parties.                              *)

Payment(third_party_payment, rk, user) ==
    CreateCredential(ES256, RpOrder[1], None, third_party_payment, rk, user)

PaymentSeed(requested) ==
    <<Payment(TRUE, TRUE, "u1"), Payment(FALSE, TRUE, "u2"),
      AssertCredentials(None, requested, TRUE), GetNextAssertion, Restart,
      Enroll(2, {"lbw"}, None), EnumerateCredentials("Token", FALSE),
      EnumerateCredentials("Token", TRUE)>>

ReplacedPaymentSeed(enabled) ==
    <<Payment(enabled, TRUE, "u1"), Payment(~enabled, TRUE, "u1"), Restart,
      AssertCredentials(None, TRUE, TRUE), Reset, AssertCredentials(None, TRUE, FALSE)>>

KeptPaymentSeed(rk) ==
    <<[Payment(TRUE, rk, "u1") EXCEPT !.large_blob_key = IF rk THEN Some(TRUE) ELSE None],
      AssertCredentials(None, TRUE, FALSE), Presence("Approved"),
      U2f(2, RpOrder[1], 0, FALSE, 0), Restart, AssertCredentials(None, TRUE, FALSE)>>

(* One credential more than fit.                                           *)
CapacitySeed ==
    [i \in 1 .. MaxCredentials + 1 |-> Payment(TRUE, FALSE, ToString(i))] \o <<GetInfo>>

---------------------------------------------------------------------------
(* Credential management of both families.                                 *)

Managed(preview, sub, rp) ==
    ManageKnown(IF preview THEN "Preview" ELSE "Standard", sub, RpOrder[rp], 0)

Provisioned ==
    LET create(rp, user) ==
            CreateCredential(ES256, RpOrder[rp], Some(TRUE), user = "u1", TRUE, user)
    IN  <<create(1, "u1"), create(1, "u2"), create(2, "u3"), set>>

PreviewSeed(protocol, legacy) ==
    Provisioned \o <<GetToken(TRUE, legacy, protocol, {"cm"}, None)>>
    \o [i \in 1 .. 8 |-> Managed(TRUE, <<1, 2, 4, 3, 5, 7, 6, 1>>[i], 1)]
    \o <<Managed(FALSE, 1, 1)>>

(* Enumerations whose grant ends in the middle.                            *)
InterruptedSeed(protocol, legacy, end) ==
    Provisioned
    \o <<GetToken(TRUE, legacy, protocol, {"cm"}, None), Managed(TRUE, 2, 1),
         Managed(TRUE, 4, 1), end, Managed(TRUE, 3, 1), Managed(TRUE, 5, 1)>>

ScopedSeed(protocol, permissions) ==
    <<Provisioned[1], Provisioned[2], set,
      GetToken(TRUE, FALSE, protocol, permissions, Some(RpOrder[1])), Managed(TRUE, 1, 1),
      Managed(TRUE, 4, 1), Managed(TRUE, 4, 2), Managed(TRUE, 7, 1), Managed(TRUE, 6, 1)>>

ManagementSeeds(protocol) ==
    LET ends == <<Elapse(60), Restart, Reset, token(protocol)>>
        granted == <<{"mc"}, {"ga"}, {"mc", "ga"}, {"acfg"}, {"lbw"}>>
    IN  <<PreviewSeed(protocol, FALSE), PreviewSeed(protocol, TRUE)>>
        \o [i \in 1 .. 8 |-> InterruptedSeed(protocol, i > 4, ends[1 + (i % 4)])]
        \o [i \in 1 .. 5 |-> ScopedSeed(protocol, granted[i])]

PersistentSeed(protocol) ==
    <<CreateCredential(ES256, RpOrder[1], None, FALSE, TRUE, "u1"),
      Enroll(protocol, {"pcmr"}, None), Managed(FALSE, 1, 1), Elapse(59), Restart,
      UsePersistent(protocol), Managed(FALSE, 2, 1), Managed(FALSE, 4, 1),
      Managed(TRUE, 1, 1), Managed(FALSE, 6, 1)>>

(* Keys of the Brainpool curves, whose identifiers no sealed ID can hold.  *)
BrainpoolSeed(alg, rk) ==
    LET key == IF rk THEN Some(TRUE) ELSE None
    IN  <<CreateCredential(alg, RpOrder[1], key, FALSE, rk, "u1"),
          AssertCredentials(key, TRUE, FALSE), Restart, AssertCredentials(None, TRUE, FALSE),
          Enroll(2, {"cm", "lbw"}, None), EnumerateCredentials("Token", FALSE), Reset,
          AssertCredentials(None, FALSE, FALSE)>>

---------------------------------------------------------------------------
(* Store faults of every slot and kind, each followed by what shows that   *)
(* the engine failed only that command.                                    *)

Fault(sl, kind) == StoreFault(sl, kind, 0)

PinReadSeeds(protocol) ==
    LET t == token(protocol)
        io == Fault("pin read", "Io")
    IN  << <<set, io, t, GetPinRetries, t, GetInfo>>,
           <<set, io, Restart, io, GetInfo, GetPinRetries, t>>,
           <<set, t, Fault("pin read", "Corrupt"), GetInfo, GetPinRetries, t, Reset, GetInfo,
             set>>,
           <<set, PinWriteFault(2, 0), io, Reset, io, GetInfo, t>> >>

CounterSeeds ==
    LET assert == AssertCredentials(None, FALSE, FALSE)
        authenticate == U2f(2, RpOrder[1], 3, FALSE, 0)
    IN  << <<Payment(FALSE, FALSE, "u1"), Fault("counter write", "Io"), assert,
             Fault("counter read", "Io"), assert, assert, Restart, assert>>,
           <<U2f(1, RpOrder[1], 0, FALSE, 0), Fault("counter read", "Corrupt"), authenticate,
             Fault("counter write", "Io"), authenticate, authenticate>> >>

CredentialSeeds ==
    LET assert(any) == AssertCredentials(None, FALSE, any)
        first == Payment(FALSE, TRUE, "u1")
        stored == Payment(TRUE, FALSE, "u2")
    IN  << <<first, Fault("credential write", "Io"), assert(TRUE),
             Fault("credential read", "Io"), assert(FALSE), assert(FALSE)>>,
           <<Fault("credential write", "Corrupt"), first, Fault("credential read", "Io"),
             stored, Fault("credential write", "Io"), stored, first, stored, assert(FALSE)>>,
           <<first, Fault("set read", "Io"), assert(TRUE), Fault("set read", "Corrupt"),
             GetInfo, assert(TRUE)>> >>

EnumerationSeed ==
    LET begins == EnumerateCredentials("Token", FALSE)
        next == EnumerateCredentials("None", TRUE)
    IN  <<Payment(FALSE, TRUE, "u1"), Payment(FALSE, TRUE, "u2"), Payment(FALSE, TRUE, "u3"),
          Enroll(2, {"cm", "lbw"}, None), begins, Fault("credential read", "Corrupt"), next,
          begins, Fault("credential read", "Io"), next, next,
          Fault("credential write", "Io"), Managed(FALSE, 6, 1), Fault("set read", "Io"),
          Managed(FALSE, 1, 1), Managed(FALSE, 6, 1), Managed(FALSE, 1, 1)>>

ArraySeeds ==
    << <<Fault("array write", "Io"), write("None", 17), LargeBlobContinue("None", None, 0),
         read>>,
       <<write("None", 17), Fault("array read", "Corrupt"), read, Fault("array read", "Io"),
         read, read>> >>

fault_cases ==
    PinReadSeeds(1) \o PinReadSeeds(2) \o CounterSeeds \o CredentialSeeds
    \o <<EnumerationSeed>> \o ArraySeeds

ByProtocol(protocol) ==
    TokenTransferSeeds(protocol) \o <<LargeBlobKeySeed(protocol)>>
    \o PinWriteSeeds(protocol, 2) \o PinWriteSeeds(protocol, 3)
    \o <<FlushedWriteSeed(protocol)>> \o ComplexitySeeds(protocol)
    \o ManagementSeeds(protocol) \o <<PersistentSeed(protocol)>>

seed_corpus ==
    TransferSeeds \o U2fSeeds \o ByProtocol(1) \o ByProtocol(2)
    \o <<DisclosureSeed(FALSE), DisclosureSeed(TRUE), PaymentSeed(FALSE), PaymentSeed(TRUE),
         ReplacedPaymentSeed(FALSE), ReplacedPaymentSeed(TRUE), KeptPaymentSeed(FALSE),
         KeptPaymentSeed(TRUE), CapacitySeed, BrainpoolSeed(-265, FALSE),
         BrainpoolSeed(-265, TRUE), BrainpoolSeed(-267, FALSE), BrainpoolSeed(-267, TRUE)>>
    \o fault_cases
=============================================================================
