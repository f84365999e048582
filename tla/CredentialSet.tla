---------------------------- MODULE CredentialSet ----------------------------
(***************************************************************************)
(* What a credential store promises of the credentials it holds            *)
(* (CredentialStore in pqkey-ctap: store/mod.rs): the usable set changes   *)
(* by whole operations only, and power loss may take it back to a set that *)
(* was usable before, never to a mixture of two.                           *)
(***************************************************************************)
EXTENDS Integers

CONSTANTS
    Ids,          \* credential IDs
    Account,      \* the account (RP ID and user handle) of a discoverable ID
    NoAccount,    \* the account of a non-discoverable one
    MaxRev,       \* bound: updates of one record
    Unavailable   \* the set cannot be read (CredentialSetUnavailable)

VARIABLES
    current,      \* the usable set, as a running store sees it
    outcomes,     \* the sets power loss may leave
    unsettled     \* power loss may take back the key a failed reset published

Absent == -1

\* A usable set: the revision of each credential, or Absent.
Sets == [Ids -> {Absent} \cup 0..MaxRev]

Empty == [i \in Ids |-> Absent]

Present(s) == {i \in Ids : s[i] # Absent}

\* No account has two discoverable credentials.
OnePerAccount(s) ==
    \A i, j \in Present(s) : Account[i] = Account[j] /\ Account[i] # NoAccount => i = j

\* A set that is one of `sets', with each record at the revision it has in
\* that set or another: membership is all or nothing, updates are per record.
OneOf(s, sets) ==
    \/ s \in sets
    \/ \E m \in sets \ {Unavailable} :
          /\ s \in Sets
          /\ Present(s) = Present(m)
          /\ \A i \in Present(s) : \E o \in sets \ {Unavailable} : s[i] = o[i]

\* A change is visible at once.  It may or may not be durable yet: what power
\* loss may leave shrinks when something is flushed, and grows by the new set
\* only, unless what is written may still lose its key.
Becomes(new) ==
    /\ current' = new
    /\ current' \in outcomes'
    /\ LET lost == IF unsettled THEN {Empty, Unavailable} ELSE {}
       IN  \A s \in outcomes' : OneOf(s, outcomes \cup {new} \cup lost)
    /\ UNCHANGED unsettled

\* insert_or_replace_discoverable retires every credential of the account.
Replaced(s, i) ==
    [j \in Ids |-> IF j = i THEN 0
                   ELSE IF Account[j] = Account[i] THEN Absent ELSE s[j]]

InsertOrReplace(i) ==
    /\ current # Unavailable
    /\ current[i] = Absent
    /\ Account[i] # NoAccount
    /\ Becomes(Replaced(current, i))

Insert(i) ==
    /\ current # Unavailable
    /\ current[i] = Absent
    /\ Account[i] = NoAccount
    /\ Becomes([current EXCEPT ![i] = 0])

Update(i) ==
    /\ current # Unavailable
    /\ current[i] \in 0..(MaxRev - 1)
    /\ Becomes([current EXCEPT ![i] = @ + 1])

Delete(i) ==
    /\ current # Unavailable
    /\ current[i] # Absent
    /\ Becomes([current EXCEPT ![i] = Absent])

\* A reset takes everything away; it may be interrupted before the empty set
\* is readable again, and it is how an unreadable set is recovered.
Reset ==
    /\ current' \in {Empty, Unavailable}
    /\ current' \in outcomes'
    /\ \A s \in outcomes' : OneOf(s, outcomes \cup {Empty, Unavailable})
    /\ unsettled' \in BOOLEAN

\* Something became durable.
Settle ==
    /\ UNCHANGED <<current, unsettled>>
    /\ current \in outcomes'
    /\ \A s \in outcomes' : OneOf(s, outcomes)

PowerLoss ==
    /\ current' \in outcomes
    /\ outcomes' = {current'}
    /\ unsettled' = FALSE

Init ==
    /\ current \in {s \in Sets : OnePerAccount(s)}
    /\ outcomes = {current}
    /\ unsettled = FALSE

Next ==
    \/ \E i \in Ids : InsertOrReplace(i) \/ Insert(i) \/ Update(i) \/ Delete(i)
    \/ Reset
    \/ Settle
    \/ PowerLoss

Spec == Init /\ [][Next]_<<current, outcomes, unsettled>>

\* No account has two discoverable credentials, now or after power loss.
UniqueAccounts ==
    \A s \in outcomes \cup {current} : s # Unavailable => OnePerAccount(s)
=============================================================================
