------------------------------ MODULE MCStores ------------------------------
EXTENDS Stores, CodecCheck, KeySource

Credential(form, n, user, alg, payment) ==
    [credential_id |-> CredentialId(form, [random |-> n]), rp_id |-> "a",
     user_id |-> user, user_name |-> None, user_display_name |-> None,
     alg |-> alg, private_key |-> KeyMaterial(key_kind(alg), n),
     cred_random_with_uv |-> <<n>>, cred_random_without_uv |-> << >>,
     cred_blob |-> Some([len |-> n, b |-> "blob"]), large_blob_key |-> None,
     third_party_payment |-> payment, cred_protect |-> 2, sign_count |-> 3,
     created_at |-> 0]

MCCredentials ==
    {Credential("discoverable", 1, "u", -7, FALSE),
     Credential("unmarked", 2, "u", -257, TRUE),
     Credential("discoverable", 3, "v", -48, FALSE),
     Credential("stored", 4, "", -265, FALSE),
     Credential("sealed", 5, "", -265, FALSE)}

MCFewCredentials == {r \in MCCredentials : r.private_key.bytes \in {1, 3}}

MCPinStates ==
    {[DefaultPinState EXCEPT !.pin_hash = Some("hash"), !.pin_retries = 7,
         !.persistent_tokens = <<None, Some([secret |-> "s", granted |-> TRUE])>>],
     [DefaultPinState EXCEPT !.min_pin_length = 64]}
MCCounters == {300}
MCArrays == {[len |-> 30, b |-> "x", hash |-> TRUE], [len |-> 16, b |-> "y", hash |-> TRUE]}
MCAttestations == {[private_key |-> "k", certificate_chain |-> <<[len |-> 4, b |-> "c"]>>],
                   [private_key |-> "k", certificate_chain |-> << >>]}
MCAlgs == {-7, -50, -257, -265}
vars == <<storeVars, input, keyVars>>

Init == StoresInit /\ KeySourceInit /\ IF case = "codec" THEN CodecInit
                                     ELSE input = Seed("SignatureCounter",
                                                       encode_signature_counter(1))

Next ==
    \/ case \notin {"codec", "race"} /\ StoresNext /\ UNCHANGED <<input, keyVars>>
    \/ case = "codec" /\ CodecNext /\ UNCHANGED <<storeVars, keyVars>>
    \/ case = "race" /\ KeySourceNext /\ UNCHANGED <<storeVars, input>>

Spec == Init /\ [][Next]_vars
=============================================================================
