------------------------------ MODULE MCEngine ------------------------------
(* Plans for EngineSequence: one for each group of commands, and the seeds.  *)
EXTENDS EngineSequence

MCPINS == [x \in {"1234", "abc123", "12", "not the PIN"} |->
             CASE x = "1234" -> [length |-> 4, mixed |-> FALSE]
               [] x = "abc123" -> [length |-> 6, mixed |-> TRUE]
               [] x = "12" -> [length |-> 2, mixed |-> FALSE]
               [] OTHER -> [length |-> 11, mixed |-> FALSE]]

MCRpOrder == <<"example.com", "example.org">>

(* The latest of up to three credentials.                                  *)
Latest == 5

Make(rp, user, alg, rk, auth) == MakeWith(rp, user, alg, rk, auth)

Get(rp, listed, up, auth) ==
    [op |-> "GetAssertion", rp |-> rp, discoverable |-> ~listed, up |-> up,
     auth |-> auth, large_blob_key |-> None, get_cred_blob |-> TRUE,
     third_party_payment |-> FALSE]

Token(right, legacy, permissions, rp) == GetToken(right, legacy, 2, permissions, rp)

Enrolled(permissions, rp) == Enroll(2, permissions, rp)

Manage(family, sub) == ManageKnown(family, sub, "example.com", Latest)

Config(sub, minimum, force, complexity, rp_ids) ==
    AuthenticatorConfig(sub, minimum, force, complexity, rp_ids, "Token")

Key(ins, control, corrupt) == U2f(ins, "example.com", control, corrupt, Latest)

PinPlan ==
    [start |-> <<Enrolled({"acfg"}, None)>>, steps |-> 5,
     ops |-> {SetPin("1234", TRUE, FALSE), ChangePin(TRUE, "abc123"), ChangePin(TRUE, "1234"),
              ChangePin(FALSE, "abc123"),
              Token(TRUE, TRUE, {}, None), Token(TRUE, FALSE, {"acfg"}, None),
              Token(FALSE, FALSE, {"acfg"}, None),
              Config("toggleAlwaysUv", None, FALSE, FALSE, << >>),
              Config("setMinPinLength", Some(6), FALSE, FALSE, <<"example.com">>),
              Config("setMinPinLength", None, FALSE, TRUE, << >>),
              GetPinRetries, GetInfo, Reset, Restart, Elapse(3)}
             \cup {PinWriteFault(m, a) : m \in {2, 3}, a \in {0, 1}}
             \cup {StoreFault("pin read", k, a) : k \in {"Io", "Corrupt"}, a \in {0, 1}}]

(* Every kind of credential, by CTAP and U2F, without a PIN.               *)
CredentialPlan ==
    [start |-> <<Make("example.com", "u1", ES256, TRUE, "None")>>, steps |-> 4,
     ops |-> {Make("example.com", "u1", ES256, TRUE, "None"),
              [Make("example.com", "u2", ES256, TRUE, "None") EXCEPT
                  !.large_blob_key = Some(TRUE), !.cred_blob = Some([len |-> 3, b |-> "blob"])],
              [Make("example.org", "u1", ES256, FALSE, "None") EXCEPT
                  !.exclude = TRUE, !.large_blob_key = Some(TRUE)],
              Make("example.com", "u1", ES256, FALSE, "None"),
              [Make("example.com", "u1", -257, FALSE, "None") EXCEPT
                  !.cred_blob = Some([len |-> 40, b |-> "long"])],
              [Make("example.com", "u3", ES256, FALSE, "None") EXCEPT
                  !.third_party_payment = TRUE, !.protect = 3, !.exclude = TRUE],
              [Get("example.com", FALSE, TRUE, "None") EXCEPT !.large_blob_key = Some(TRUE)],
              Get("example.com", TRUE, FALSE, "None"),
              AssertCredentials(None, TRUE, TRUE),
              GetNextAssertion, Simple("selection"), Reset, Restart, Elapse(4),
              PinWriteFault(2, 0), Presence("Approved"), Presence("Denied"),
              Presence("Cancelled"),
              Key(1, 0, FALSE), Key(2, 3, FALSE),
              Key(2, 8, TRUE), Key(2, 7, FALSE)}
             \cup {StoreFault(sl, k, a) : sl \in {"credential read", "credential write"},
                                          k \in {"Io", "Corrupt"}, a \in {0, 1}}
             \cup {StoreFault(sl, "Io", 0) : sl \in {"set read", "counter read",
                                                     "counter write"}}]

ManagementPlan ==
    [start |-> <<Make("example.com", "u1", ES256, TRUE, "None"),
                 Make("example.com", "u2", ES256, TRUE, "None"),
                 Make("example.org", "u1", ES256, TRUE, "None"),
                 Enrolled({"cm", "mc"}, Some("example.com"))>>, steps |-> 5,
     ops |-> {Manage(f, sub) : f \in {"Standard", "Preview"}, sub \in 1 .. 7}
             \cup {Token(TRUE, TRUE, {}, None), Token(TRUE, FALSE, {"pcmr"}, None),
                   Token(TRUE, FALSE, {"cm"}, None),
                   Token(TRUE, FALSE, {"cm", "mc"}, Some("example.com")),
                   Make("example.com", "u1", ES256, TRUE, "Token"),
                   Make("example.com", "u3", ES256, FALSE, "Token"),
                   ChangePin(TRUE, "abc123"), Restart, UsePersistent(1), UsePersistent(2),
                   Elapse(60)}
             \cup {StoreFault(sl, k, 0) : sl \in {"pin read", "credential read"},
                                          k \in {"Io", "Corrupt"}}]

BlobPlan ==
    [start |-> <<>>, steps |-> 6,
     ops |-> {LargeBlobBegin("Token", Array(20, "a", TRUE), 10),
              LargeBlobBegin("None", Array(20, "b", FALSE), 10),
              LargeBlobContinue("Token", None, 10), LargeBlobContinue("None", None, 0),
              LargeBlobContinue("Token", Some(5), 10),
              LargeBlobWrite("Token", Array(24, "c", TRUE), 12), LargeBlobGet(4, 20),
              Enrolled({"lbw"}, None), GetInfo, Reset, Restart, Elapse(2), Elapse(57),
              StoreFault("array read", "Io", 0), StoreFault("array write", "Io", 0)}]

PolicyPlan ==
    [start |-> <<Make("example.com", "u1", ES256, TRUE, "None"),
                 Key(1, 0, FALSE), Enrolled({"acfg"}, None)>>, steps |-> 5,
     ops |-> {Config("toggleAlwaysUv", None, FALSE, FALSE, << >>),
              Config("setMinPinLength", Some(5), FALSE, FALSE, <<"example.com">>),
              Config("setMinPinLength", None, TRUE, FALSE, << >>),
              Enrolled({"acfg"}, None), Enrolled({"mc", "ga", "lbw"}, Some("example.com")),
              Make("example.com", "u1", ES256, TRUE, "Token"),
              Make("example.com", "u2", ES256, FALSE, "None"),
              Make("example.org", "u2", ES256, FALSE, "Empty"),
              Get("example.com", FALSE, TRUE, "Token"), Get("example.com", TRUE, TRUE, "None"),
              Key(1, 0, FALSE), Key(2, 3, FALSE),
              GetNextAssertion, GetInfo, ChangePin(TRUE, "abc123"), ChangePin(TRUE, "1234"),
              Restart, Elapse(3), PinWriteFault(3, 0), StoreFault("pin read", "Io", 0),
              StoreFault("pin read", "Corrupt", 0)}]

(* Each seed, and nothing after it.                                        *)
SeedPlans ==
    [i \in DOMAIN seed_corpus |-> [start |-> seed_corpus[i], steps |-> 0, ops |-> {}]]

MCPlans == <<PinPlan, CredentialPlan, ManagementPlan, BlobPlan, PolicyPlan>> \o SeedPlans
=============================================================================
