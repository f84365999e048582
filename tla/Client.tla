------------------------------- MODULE Client -------------------------------
(***************************************************************************)
(* The commands that manage the running key (pqkey: cli/key.rs, over       *)
(* client/ctap2.rs): pin, config, passkeys, passkeys delete and reset, as  *)
(* one process that sends the key one request after another, with other    *)
(* clients of the same key, its restarts and the user in between.          *)
(*                                                                         *)
(* The key is abstracted to what its answers tell this client: the PIN,    *)
(* its retries and policy, the passkeys, the enumeration cursors and the   *)
(* tokens that authorize them, and how long it has been running.  PIN      *)
(* encryption and CBOR are left out.                                       *)
(***************************************************************************)
EXTENDS PinInput

CONSTANTS
    ComplexPins,       \* the Lines with an ASCII letter and an ASCII digit
    Passkeys,          \* the passkeys there may be
    RpOf,              \* [Passkeys -> Nat], the relying parties in their order
    MAX_PIN_RETRIES, LOCK_AFTER,     \* 8 and 3 in the engine
    PIN_ATTEMPTS,      \* 3 in the client
    MaxStarts          \* bound: starts of the key

MIN_PIN_CODE_POINTS == 4
LongerMinimum == 6

VARIABLES
    key,      \* external to the command: the key, as its answers show it
    cmd,      \* the command: its name, and whether it has --yes
    pc,       \* where it is
    my,       \* its local variables, and what was observed of it
    others,   \* bound: how many steps other clients may still take
    report    \* how it ended

clientVars == <<key, cmd, pc, my, others, report>>

NoPin == "no PIN"
NoToken == [owner |-> "nobody", permission |-> "none", generation |-> 0]
NoCursor == [list |-> <<>>, auth |-> NoToken]
Interrupt == CAUGHT_SIGNALS[1]
-----------------------------------------------------------------------------
(* The key, as its clients see it *)

\* A key as it starts: it holds no token and no cursor, and no longer refuses PIN
\* checks for wrong PINs in a row.  It may fail to read its PIN record.
Started(k, inst, readable) ==
    [k EXCEPT !.inst = inst, !.starts = inst, !.readable = readable, !.wrong = 0, !.window = TRUE,
              !.token = NoToken, !.rps = NoCursor, !.creds = NoCursor]

PinSet(k) == k.pin # NoPin
Retries(k) == IF k.readable THEN k.retries ELSE 0
Locked(k) == k.wrong >= LOCK_AFTER

\* cred_mgmt_state.clear, which every change of the passkeys or settings makes.
Forget(k) == [k EXCEPT !.rps = NoCursor, !.creds = NoCursor]

Answer(k, st) == [key |-> k, st |-> st]

\* The PIN check of clientPIN: right tells whether the PIN, as the key decrypts it,
\* is its own.
CheckedPin(k, right, Then(_)) ==
    IF Retries(k) = 0 THEN Answer(k, "PIN_BLOCKED")
    ELSE IF Locked(k) THEN Answer(k, "PIN_AUTH_BLOCKED")
    ELSE IF right THEN Then([k EXCEPT !.retries = MAX_PIN_RETRIES, !.wrong = 0])
    ELSE LET after == [k EXCEPT !.retries = @ - 1, !.wrong = @ + 1] IN
         Answer(after, IF after.retries = 0 THEN "PIN_BLOCKED"
                       ELSE IF Locked(after) THEN "PIN_AUTH_BLOCKED" ELSE "PIN_INVALID")

Acceptable(k, pin) ==
    /\ PinLength[pin] >= k.minimum
    /\ pin \notin TooLong
    /\ k.complexity => pin \in ComplexPins
    /\ k.force => pin # k.pin

WithPin(k, pin) ==
    [k EXCEPT !.pin = pin, !.force = FALSE, !.retries = MAX_PIN_RETRIES, !.wrong = 0,
              !.generation = @ + 1, !.token = NoToken]

SetPin(k, pin, agreed) ==
    IF PinSet(k) \/ ~agreed THEN Answer(k, "PIN_AUTH_INVALID")
    ELSE IF Acceptable(k, pin) THEN Answer(WithPin(k, pin), "Ok")
    ELSE Answer(k, "PIN_POLICY_VIOLATION")

ChangePin(k, current, pin, agreed) ==
    IF ~PinSet(k) THEN Answer(k, "PIN_NOT_SET")
    ELSE IF ~agreed THEN Answer(k, "PIN_AUTH_INVALID")
    ELSE CheckedPin(k, current = k.pin, LAMBDA ok :
         IF Acceptable(ok, pin) THEN Answer(WithPin(ok, pin), "Ok")
                                ELSE Answer(ok, "PIN_POLICY_VIOLATION"))

\* Nothing authenticates a token request but the PIN itself: with a key agreement that
\* was replaced meanwhile the right PIN is a wrong one.
GetToken(k, pin, agreed, token) ==
    IF ~PinSet(k) THEN Answer(k, "PIN_NOT_SET")
    ELSE CheckedPin(k, agreed /\ pin = k.pin, LAMBDA ok :
         IF ok.force THEN Answer(ok, "PIN_POLICY_VIOLATION")
         ELSE IF token.permission = "pcmr" THEN Answer(ok, "Ok")
         ELSE Answer([ok EXCEPT !.token = token], "Ok"))

\* Whether a token is good: the last one given, or the persistent one, which is every
\* client's until the PIN changes.
Holds(k, token) ==
    IF token.permission = "pcmr" THEN PinSet(k) /\ token.generation = k.generation
    ELSE token # NoToken /\ k.token = token

\* The numbers of a set in their order.
InOrder(S) == [i \in 1..Cardinality(S) |-> CHOOSE n \in S : Cardinality({m \in S : m < n}) = i - 1]

RpList(k) == InOrder({RpOf[c] : c \in k.stored})
CredentialList(k, rp) == InOrder({c \in k.stored : RpOf[c] = rp})

\* enumerateRPsBegin and enumerateCredentialsBegin with another grant than the last
\* drop what that enumerated.
InContext(k, token) == IF token \in {k.rps.auth, k.creds.auth} THEN k ELSE Forget(k)

BeginRps(k, token) ==
    IF ~Holds(k, token) THEN Answer(k, "PIN_AUTH_INVALID")
    ELSE IF k.stored = {} THEN Answer(InContext(k, token), "NO_CREDENTIALS")
    ELSE Answer([InContext(k, token) EXCEPT !.rps = [list |-> Tail(RpList(k)), auth |-> token]],
                "Ok")

\* The continuations carry no token: they go on with the enumeration there is.
NextRp(k) ==
    IF ~Holds(k, k.rps.auth) \/ k.rps.list = <<>>
    THEN Answer([k EXCEPT !.rps = NoCursor], "NOT_ALLOWED")
    ELSE Answer([k EXCEPT !.rps.list = Tail(@)], "Ok")

BeginCredentials(k, token, rp) ==
    IF ~Holds(k, token) THEN Answer(k, "PIN_AUTH_INVALID")
    ELSE IF CredentialList(k, rp) = <<>> THEN Answer(InContext(k, token), "NO_CREDENTIALS")
    ELSE Answer([InContext(k, token) EXCEPT
                     !.creds = [list |-> Tail(CredentialList(k, rp)), auth |-> token]], "Ok")

NextCredential(k) ==
    LET left == SelectSeq(k.creds.list, LAMBDA c : c \in k.stored) IN
    IF ~Holds(k, k.creds.auth) \/ left = <<>>
    THEN Answer([k EXCEPT !.creds = NoCursor], "NOT_ALLOWED")
    ELSE Answer([k EXCEPT !.creds.list = Tail(left)], "Ok")

Delete(k, token, c) ==
    IF ~Holds(k, token) THEN Answer(k, "PIN_AUTH_INVALID")
    ELSE Answer([Forget(k) EXCEPT !.stored = @ \ {c}], IF c \in k.stored THEN "Ok" ELSE "NO_CREDENTIALS")

\* A change of the policy that demands another PIN takes every token back.
WithPolicy(k, minimum, complexity, force) ==
    LET demands == k.force \/ force \/ (PinSet(k) /\ PinLength[k.pin] < minimum)
        changed == [k EXCEPT !.minimum = minimum, !.complexity = complexity, !.force = demands]
    IN  IF demands THEN [Forget(changed) EXCEPT !.generation = @ + 1, !.token = NoToken]
        ELSE changed

\* authenticatorConfig.  Without a PIN it asks for no token, except for a policy while
\* always-UV is on.
Configured(k, name, token) ==
    LET toggle == name \in {"uv_on", "uv_off"} IN
    IF ~(toggle /\ ~PinSet(k)) /\ (PinSet(k) \/ k.always_uv) /\ ~Holds(k, token)
    THEN Answer(k, IF token = NoToken THEN "PUAT_REQUIRED" ELSE "PIN_AUTH_INVALID")
    ELSE IF toggle THEN Answer([k EXCEPT !.always_uv = ~@], "Ok")
    ELSE IF name = "min" THEN Answer(WithPolicy(k, LongerMinimum, k.complexity, FALSE), "Ok")
    ELSE IF name = "complexity"
    THEN Answer(WithPolicy(k, k.minimum, TRUE, ~k.complexity /\ PinSet(k)), "Ok")
    ELSE IF PinSet(k) THEN Answer(WithPolicy(k, k.minimum, k.complexity, TRUE), "Ok")
    ELSE Answer(k, "PIN_NOT_SET")

Erased(k) ==
    [Forget(k) EXCEPT !.pin = NoPin, !.retries = MAX_PIN_RETRIES, !.wrong = 0, !.readable = TRUE,
                      !.force = FALSE, !.minimum = MIN_PIN_CODE_POINTS, !.complexity = FALSE,
                      !.always_uv = FALSE, !.stored = {}, !.token = NoToken,
                      !.generation = @ + 1]
-----------------------------------------------------------------------------
(* The command: starting, ending and asking *)

NoInfo == [pin |-> FALSE, force |-> FALSE, minimum |-> 0, complexity |-> FALSE, always_uv |-> FALSE]

Fresh ==
    [conn |-> 0, info |-> NoInfo, asking |-> "nothing", attempt |-> 1, current |-> NoPin,
     new |-> NoPin, agreed |-> FALSE, token |-> NoToken, rps |-> <<>>, total |-> 0, at |-> 1,
     count |-> 0, listed |-> {}, target |-> 0, was |-> 0, blocked |-> FALSE, restarted |-> FALSE,
     first |-> FALSE, again |-> FALSE, result |-> "none",
     \* what was observed of the command, and of others, for the properties
     helped |-> FALSE, wiped |-> FALSE]

NoReport == [code |-> 0, said |-> "nothing yet"]

\* A key with the policy it has after a reset, which may have just stopped.
KeyWith(pin, stored) ==
    [inst |-> 1, starts |-> 1, pin |-> pin, retries |-> MAX_PIN_RETRIES, wrong |-> 0,
     readable |-> TRUE, window |-> FALSE, force |-> FALSE, minimum |-> MIN_PIN_CODE_POINTS,
     complexity |-> FALSE, always_uv |-> FALSE, stored |-> stored, token |-> NoToken,
     generation |-> 0, rps |-> NoCursor, creds |-> NoCursor]

\* A PIN the key holds met its policy; only one that is set is unreadable or forced.
Sane(k) ==
    IF PinSet(k) THEN PinLength[k.pin] >= k.minimum /\ k.pin \notin NotText \union TooLong
    ELSE k.readable /\ ~k.force /\ k.retries = MAX_PIN_RETRIES

InitFor(c) ==
    /\ InputInit
    /\ Sane(c.key) /\ key = c.key /\ cmd = c.cmd
    /\ pc = "start"
    /\ my = Fresh
    /\ others = c.others
    /\ report = NoReport

Here(p) == alive /\ pc = p
Ends(code, said) == pc' = "exit" /\ report' = [code |-> code, said |-> said]
Goes(p) == pc' = p /\ UNCHANGED report
outside == <<inputVars, cmd, others>>

\* What a request may come back with: the key's answer, or none when the key is gone or
\* busy, or could not save what it was to change, or went away before it answered.
Outcomes(answer) ==
    IF my.conn = 0 \/ my.conn # key.inst THEN {Answer(key, "Lost")}
    ELSE {answer, Answer(key, "Lost"), Answer(answer.key, "Lost")}

\* daemon::running, and connect.  reset looks at the key for itself.
Start ==
    /\ Here("start") /\ cmd.name \notin {"setup", "uninstall"}
    /\ IF cmd.name = "reset"
       THEN /\ my' = [my EXCEPT !.was = key.inst]
            /\ Goes(IF cmd.yes THEN "replug" ELSE "confirm")
       ELSE \/ key.inst # 0 /\ my' = [my EXCEPT !.conn = key.inst] /\ Goes("info")
            \/ Ends(1, "not running or not answering") /\ UNCHANGED my
    /\ UNCHANGED <<key, outside>>

\* What follows getInfo: the branches of set_or_change_pin, configure, list_passkeys and
\* management_token.
Settings == {"uv_on", "uv_off", "min", "complexity", "force"}
Listing == {"passkeys", "delete"}

AfterInfo(info) ==
    LET token == IF info.pin THEN "usable" ELSE "configure" IN
    CASE cmd.name \in {"pin", "setup"} -> IF info.pin THEN "usable" ELSE "prompt"
      [] cmd.name = "config" -> "done"
      [] cmd.name \in {"uv_on", "uv_off"} ->
             IF info.always_uv = (cmd.name = "uv_on") THEN "updated" ELSE token
      [] cmd.name = "min" -> IF cmd.yes THEN token ELSE "confirm"
      [] cmd.name = "complexity" ->
             IF info.complexity THEN "updated" ELSE IF cmd.yes THEN token ELSE "confirm"
      [] OTHER -> IF info.pin THEN "usable" ELSE "refused"

InfoOf(k) ==
    [pin |-> PinSet(k), force |-> k.force, minimum |-> k.minimum, complexity |-> k.complexity,
     always_uv |-> k.always_uv]

Info ==
    /\ Here("info")
    /\ \E r \in Outcomes(Answer(key, "Ok")) :
          IF r.st # "Ok" THEN Ends(1, "error") /\ UNCHANGED my
          ELSE /\ my' = [my EXCEPT !.info = InfoOf(key),
                                   !.asking = IF PinSet(key) THEN "current" ELSE "new"]
               /\ LET next == AfterInfo(InfoOf(key)) IN
                  CASE next = "done" -> Ends(0, "shown")
                    [] next = "refused" -> Ends(1, "no PIN")
                    [] OTHER -> Goes(next)
    /\ UNCHANGED <<key, outside>>

\* ask: a question on the terminal, answered yes, or no, or with an error.
Confirm(yes) ==
    /\ Here("confirm")
    /\ IF ~yes THEN Ends(0, "nothing changed")
       ELSE Goes(CASE cmd.name = "reset" -> "look"
                   [] cmd.name = "delete" -> "delete"
                   [] OTHER -> IF my.info.pin THEN "usable" ELSE "configure")
    /\ UNCHANGED <<key, my, outside>>

\* check_pin_usable.
Usable ==
    /\ Here("usable")
    /\ \E r \in Outcomes(Answer(key, "Ok")) :
          IF r.st # "Ok" \/ Retries(key) = 0 \/ Locked(key) THEN Ends(1, "error")
          ELSE Goes("prompt")
    /\ UNCHANGED <<key, my, outside>>
-----------------------------------------------------------------------------
(* PINs and tokens *)

\* An error of set_or_change_pin or acquire_pin_token.  setup asks again for a first
\* PIN that was mistyped (set_first_pin).
Refused(kind) ==
    IF kind = "InvalidInput" /\ my.first /\ my.attempt < PIN_ATTEMPTS
    THEN /\ my' = [my EXCEPT !.attempt = @ + 1, !.current = NoPin, !.new = NoPin, !.agreed = FALSE]
         /\ Goes("info")
    ELSE Ends(1, "error") /\ UNCHANGED my

Prompt ==
    /\ Here("prompt")
    /\ BeginRead
    /\ Goes("reading")
    /\ UNCHANGED <<key, cmd, my, others>>

\* validate_new_pin.
Valid(pin, minimum) == PinLength[pin] >= minimum /\ pin \notin TooLong

\* What the command does with the line read: plausible_pin and read_new_pin.
Typed ==
    /\ Here("reading") /\ reader.pc = "done"
    /\ reader' = Idle
    /\ LET pin == reader.result.text
           with(field) == my' = [my EXCEPT ![field] = pin, !.asking =
               IF my.asking = "current" /\ cmd.name \in {"pin", "setup"} THEN "new" ELSE "again"]
       IN
       IF reader.result = Failed THEN Refused("Other")
       ELSE CASE my.asking = "current" ->
                 IF ~Valid(pin, MIN_PIN_CODE_POINTS) THEN Refused("InvalidInput")
                 ELSE /\ with("current")
                      /\ Goes(IF cmd.name \in {"pin", "setup"} THEN "prompt" ELSE "agree")
              [] my.asking = "new" ->
                 IF ~Valid(pin, my.info.minimum) THEN Refused("InvalidInput")
                 ELSE with("new") /\ Goes(IF interactive THEN "prompt" ELSE "agree")
              [] OTHER ->
                 IF pin # my.new THEN Refused("InvalidInput")
                 ELSE Goes("agree") /\ UNCHANGED my
    /\ UNCHANGED <<key, cmd, others, terminal, process>>

\* shared_secret: getKeyAgreement.  listing_token asks for getInfo before it.
Agree ==
    /\ Here("agree")
    /\ \E r \in Outcomes(Answer(key, "Ok")) :
          IF r.st # "Ok" THEN Refused("Other")
          ELSE /\ my' = [my EXCEPT !.agreed = TRUE]
               /\ Goes(IF cmd.name \in {"pin", "setup"} THEN "store_pin" ELSE "token")
    /\ UNCHANGED <<key, outside>>

\* The kind of error a status becomes.  The retries and settings that the messages tell
\* are asked of the key, and change nothing there.
pin_error(st) ==
    IF st \in {"PIN_POLICY_VIOLATION", "PIN_NOT_SET"} THEN "InvalidInput" ELSE "Other"

new_pin_error(st) == IF st = "PIN_POLICY_VIOLATION" THEN "InvalidInput" ELSE pin_error(st)

\* set_pin and change_pin.
StorePin ==
    /\ Here("store_pin")
    /\ \E r \in Outcomes(IF my.current = NoPin THEN SetPin(key, my.new, my.agreed)
                         ELSE ChangePin(key, my.current, my.new, my.agreed)) :
          /\ key' = r.key
          /\ IF r.st = "Ok"
             THEN /\ UNCHANGED my
                  /\ IF cmd.name = "setup" THEN Goes("ensured") ELSE Ends(0, "PIN set or changed")
             ELSE Refused(new_pin_error(r.st))
    /\ UNCHANGED outside

\* The persistent token is one, whoever asks for it.
TokenOf(client, permission) ==
    [owner |-> IF permission = "pcmr" THEN "anyone" ELSE client, permission |-> permission,
     generation |-> key.generation]

\* permission_token, with the permission of the command.
Token ==
    LET token == TokenOf("me", CASE cmd.name = "passkeys" -> "pcmr"
                                 [] cmd.name = "delete" -> "cm"
                                 [] OTHER -> "acfg") IN
    /\ Here("token")
    /\ \E r \in Outcomes(GetToken(key, my.current, my.agreed, token)) :
          /\ key' = r.key
          /\ IF r.st # "Ok" THEN Refused("Other")
             ELSE /\ my' = [my EXCEPT !.token = token]
                  /\ Goes(IF cmd.name \in Listing THEN "list" ELSE "configure")
    /\ UNCHANGED outside
-----------------------------------------------------------------------------
(* config *)

Configure ==
    /\ Here("configure")
    /\ \E r \in Outcomes(Configured(key, cmd.name, my.token)) :
          /\ key' = r.key
          /\ IF r.st # "Ok" THEN Ends(1, "error")
             ELSE IF cmd.name = "force" THEN Ends(0, "changed") ELSE Goes("updated")
    /\ UNCHANGED <<my, outside>>

\* The settings as the key has them afterwards, which the command reports.
Updated ==
    /\ Here("updated")
    /\ \E r \in Outcomes(Answer(key, "Ok")) :
          IF r.st = "Ok" THEN Ends(0, "changed") ELSE Ends(1, "error")
    /\ UNCHANGED <<key, my, outside>>
-----------------------------------------------------------------------------
(* passkeys *)

\* enumerateRPsBegin.
List ==
    /\ Here("list")
    /\ \E r \in Outcomes(BeginRps(key, my.token)) :
          /\ key' = r.key
          /\ CASE r.st = "Ok" ->
                  /\ my' = [my EXCEPT !.rps = <<Head(RpList(key))>>, !.total = Len(RpList(key))]
                  /\ Goes(IF Len(RpList(key)) > 1 THEN "next_rp" ELSE "begin_credentials")
               [] r.st = "NO_CREDENTIALS" ->
                  IF cmd.name = "passkeys" THEN Ends(0, "listed") /\ UNCHANGED my
                  ELSE Ends(1, "no match") /\ UNCHANGED my
               [] OTHER -> Ends(1, "error") /\ UNCHANGED my
    /\ UNCHANGED outside

\* enumerateRPsGetNextRP, as often as enumerateRPsBegin said.
NextRps ==
    /\ Here("next_rp")
    /\ \E r \in Outcomes(NextRp(key)) :
          /\ key' = r.key
          /\ IF r.st # "Ok" THEN Ends(1, "error") /\ UNCHANGED my
             ELSE /\ my' = [my EXCEPT !.rps = Append(@, Head(key.rps.list))]
                  /\ Goes(IF Len(my.rps) + 1 < my.total THEN "next_rp" ELSE "begin_credentials")
    /\ UNCHANGED outside

\* What follows a passkey of the list: the next one of its relying party, the next
\* relying party, or the end.
Found(c, count) ==
    /\ my' = [my EXCEPT !.listed = @ \union {c}, !.count = count,
                        !.at = IF count = 0 THEN @ + 1 ELSE @]
    /\ IF count > 0 THEN Goes("next_credential")
       ELSE IF my.at < Len(my.rps) THEN Goes("begin_credentials")
       ELSE IF cmd.name = "passkeys" THEN Ends(0, "listed") ELSE Goes("match")

\* enumerateCredentialsBegin.
BeginListed ==
    LET rp == my.rps[my.at] IN
    /\ Here("begin_credentials")
    /\ \E r \in Outcomes(BeginCredentials(key, my.token, rp)) :
          /\ key' = r.key
          /\ IF r.st = "Ok"
             THEN Found(Head(CredentialList(key, rp)), Len(CredentialList(key, rp)) - 1)
             ELSE Ends(1, "error") /\ UNCHANGED my
    /\ UNCHANGED outside

\* enumerateCredentialsGetNextCredential.
NextListed ==
    /\ Here("next_credential")
    /\ \E r \in Outcomes(NextCredential(key)) :
          /\ key' = r.key
          /\ IF r.st = "Ok"
             THEN Found(Head(SelectSeq(key.creds.list, LAMBDA c : c \in key.stored)), my.count - 1)
             ELSE Ends(1, "error") /\ UNCHANGED my
    /\ UNCHANGED outside

\* matching_passkey: the query names one of the passkeys listed, or none or several.
Match ==
    /\ Here("match")
    /\ \/ \E c \in my.listed : /\ my' = [my EXCEPT !.target = c]
                               /\ Goes(IF cmd.yes THEN "delete" ELSE "confirm")
       \/ Ends(1, "no match") /\ UNCHANGED my
    /\ UNCHANGED <<key, outside>>

DeletePasskey ==
    /\ Here("delete")
    /\ \E r \in Outcomes(Delete(key, my.token, my.target)) :
          /\ key' = r.key
          /\ IF r.st = "Ok" THEN Ends(0, "deleted") ELSE Ends(1, "error")
    /\ UNCHANGED <<my, outside>>
-----------------------------------------------------------------------------
(* reset *)

\* A key that starts may fail to read its PIN record, if it has a PIN.
Starts(k) ==
    {Started(k, k.starts + 1, readable) : readable \in IF PinSet(k) THEN BOOLEAN ELSE {TRUE}}

\* The result of the reset itself; the key is put back before it is reported.
Results(result) == my' = [my EXCEPT !.result = result] /\ Goes("restore")

\* before(): the key as it runs, if it can be reached, and pin_blocked's getInfo.
Look ==
    /\ Here("look")
    /\ \/ /\ my.was # 0 /\ my.was = key.inst
          /\ my' = [my EXCEPT !.conn = my.was]
          /\ Goes(IF PinSet(key) THEN "look_retries" ELSE "replug")
       \/ Goes("replug") /\ UNCHANGED my
    /\ UNCHANGED <<key, outside>>

LookRetries ==
    /\ Here("look_retries")
    /\ \E r \in Outcomes(Answer(key, "Ok")) :
          my' = [my EXCEPT !.blocked = r.st = "Ok" /\ Retries(key) = 0]
    /\ Goes("replug")
    /\ UNCHANGED <<key, outside>>

\* replug(): daemon::replug, which may fail and leave the key running or not, and
\* connect_to, which may fail too.
Replug ==
    /\ Here("replug")
    /\ \/ /\ key.starts < MaxStarts
          /\ key' \in Starts(key)
          /\ \/ /\ my' = [my EXCEPT !.restarted = TRUE, !.conn = key'.inst]
                /\ Goes(IF my.blocked /\ ~my.again THEN "after" ELSE "register")
             \/ /\ my' = [my EXCEPT !.restarted = TRUE, !.result = "error"]
                /\ Goes("restore")
       \/ /\ key' \in {key, [key EXCEPT !.inst = 0]}
          /\ my' = [my EXCEPT !.result = "error", !.helped = TRUE]
          /\ Goes("restore")
    /\ UNCHANGED outside

\* pin_blocked, of the key that has restarted: an error counts as a change.
After ==
    /\ Here("after")
    /\ \E r \in Outcomes(Answer(key, "Ok")) :
          Goes(IF r.st = "Ok" /\ PinSet(key) THEN "after_retries" ELSE "again")
    /\ UNCHANGED <<key, my, outside>>

AfterRetries ==
    /\ Here("after_retries")
    /\ \E r \in Outcomes(Answer(key, "Ok")) :
          Goes(IF r.st = "Ok" /\ Retries(key) = 0 THEN "register" ELSE "again")
    /\ UNCHANGED <<key, my, outside>>

\* The second question: on a yes the key restarts once more, for its window.
Again(yes) ==
    /\ Here("again")
    /\ my' = IF yes THEN [my EXCEPT !.again = TRUE] ELSE [my EXCEPT !.result = "kept"]
    /\ Goes(IF yes THEN "replug" ELSE "restore")
    /\ UNCHANGED <<key, outside>>

\* reset_key: the first Ctrl-C sets the cancel flag, the second ends the process.
Register ==
    /\ Here("register")
    /\ action' = [action EXCEPT ![Interrupt] = "cancel"]
    /\ caught' = "none"
    /\ Goes("request")
    /\ UNCHANGED <<key, my, cmd, others, terminal, alive, reader>>

\* authenticatorReset: the key refuses it after its window, or asks its user.
Request ==
    /\ Here("request")
    /\ \E r \in Outcomes(Answer(key, IF key.window THEN "Ok" ELSE "NOT_ALLOWED")) :
          CASE r.st = "Ok" -> Goes("wait") /\ UNCHANGED my
            [] r.st = "NOT_ALLOWED" -> Results("nothing erased")
            [] OTHER -> Results("error")
    /\ UNCHANGED <<key, outside>>

\* The user approves, and the client may miss the answer; or the user denies or does
\* not answer in time, or the key hears the CANCEL first; or the key is gone.
Wait ==
    /\ Here("wait")
    /\ IF my.conn # key.inst THEN Results("error") /\ UNCHANGED key
       ELSE \/ key' = Erased(key) /\ (Results("reset") \/ Results("error"))
            \/ UNCHANGED key /\ Results("nothing erased")
    /\ UNCHANGED outside

\* Variant: the key is put back only after a reset (LeftAsFound).
RestoreAfterReset ==
    /\ Here("restore")
    /\ LET unplug == my.was = 0 /\ my.restarted /\ my.result = "reset"
           how == CASE my.result = "reset" -> [code |-> 0, said |-> "reset"]
                    [] my.result = "kept" -> [code |-> 0, said |-> "nothing changed"]
                    [] OTHER -> [code |-> 1, said |-> my.result] IN
       IF ~unplug THEN Ends(how.code, how.said) /\ UNCHANGED <<key, my>>
       ELSE \/ Ends(how.code, how.said) /\ key' = [key EXCEPT !.inst = 0] /\ UNCHANGED my
            \/ /\ Ends(1, IF how.code = 0 THEN "error" ELSE how.said)
               /\ my' = [my EXCEPT !.helped = TRUE] /\ UNCHANGED key
    /\ UNCHANGED outside

\* The key is left as it was found, whatever came of the reset.
Restore ==
    /\ Here("restore")
    /\ LET unplug == my.was = 0 /\ my.restarted
           how == CASE my.result = "reset" -> [code |-> 0, said |-> "reset"]
                    [] my.result = "kept" -> [code |-> 0, said |-> "nothing changed"]
                    [] OTHER -> [code |-> 1, said |-> my.result] IN
       IF ~unplug THEN Ends(how.code, how.said) /\ UNCHANGED <<key, my>>
       ELSE \/ Ends(how.code, how.said) /\ key' = [key EXCEPT !.inst = 0] /\ UNCHANGED my
            \/ /\ Ends(1, IF how.code = 0 THEN "error" ELSE how.said)
               /\ my' = [my EXCEPT !.helped = TRUE] /\ UNCHANGED key
    /\ UNCHANGED outside
-----------------------------------------------------------------------------
(* Other clients, the key's starts and stops, and the user *)

\* What the command does for itself and what others do to the key touch nothing in
\* common: it is enough that others act before its next request.
Quiet ==
    /\ alive
    /\ pc \notin {"start", "confirm", "prompt", "reading", "match", "register", "steps", "apply",
                 "blockers", "install", "reload", "enable", "session", "exit"}

\* The key takes no other request while the user is asked about this one.
Free == key.inst # 0 /\ (pc = "wait" => my.conn # key.inst)

\* What one request of another client makes of the key.
ByOthers ==
    (IF PinSet(key) THEN {CheckedPin(key, FALSE, LAMBDA ok : Answer(ok, "Ok")).key} ELSE {})
      \union {GetToken(key, key.pin, TRUE, TokenOf("other", permission)).key : permission \in {"cm", "acfg"}}
      \union {SetPin(key, pin, TRUE).key : pin \in Lines \ NotText}
      \union {ChangePin(key, key.pin, pin, TRUE).key : pin \in Lines \ NotText}
      \union {Configured(key, name, TokenOf("other", "acfg")).key : name \in Settings}
      \union {[Forget(key) EXCEPT !.stored = @ \union {c}] : c \in Passkeys}
      \union {Delete(key, TokenOf("other", "cm"), c).key : c \in key.stored}
      \union (IF key.window THEN {Erased(key)} ELSE {})

Other ==
    /\ Quiet /\ others > 0 /\ Free
    /\ key' \in ByOthers \ {key}
    /\ others' = others - 1
    /\ my' = [my EXCEPT !.agreed = @ /\ key'.wrong <= key.wrong,
                        !.wiped = @ \/ (PinSet(key) /\ ~PinSet(key'))]
    /\ UNCHANGED <<inputVars, cmd, pc, report>>

\* Another client lists too, or goes on listing: the continuations are not its own.
OtherLists ==
    /\ Quiet /\ others > 0 /\ Free
    /\ \/ \E t \in {TokenOf("other", "cm"), TokenOf("other", "pcmr")} :
             \/ key' = BeginRps(key, t).key
             \/ \E rp \in {RpOf[c] : c \in key.stored} : key' = BeginCredentials(key, t, rp).key
       \/ key' = NextRp(key).key
       \/ key' = NextCredential(key).key
    /\ others' = others - 1
    /\ UNCHANGED <<inputVars, cmd, pc, my, report>>

\* The key is stopped, or started, by someone else, or crashes.
KeyStops ==
    /\ Quiet /\ key.inst # 0
    /\ key' = [key EXCEPT !.inst = 0]
    /\ my' = [my EXCEPT !.helped = TRUE]
    /\ UNCHANGED <<inputVars, cmd, pc, others, report>>

KeyStarts ==
    /\ Quiet /\ key.inst = 0 /\ key.starts < MaxStarts
    /\ key' \in Starts(key)
    /\ my' = [my EXCEPT !.helped = TRUE]
    /\ UNCHANGED <<inputVars, cmd, pc, others, report>>

\* Ten seconds after its start.
WindowCloses ==
    /\ Quiet /\ key.window
    /\ key' = [key EXCEPT !.window = FALSE]
    /\ UNCHANGED <<inputVars, cmd, pc, my, others, report>>

\* Lines are typed for a PIN, or ahead of it.
UserTypes ==
    /\ pc = "prompt" \/ reader.pc \in {"check", "call", "read", "read_line"}
    /\ \E line \in Lines : Type(line)
    /\ UNCHANGED clientVars

\* Elsewhere a signal ends the command and nothing follows.
SignalArrives ==
    /\ reader.pc # "idle" \/ pc \in {"request", "wait"}
    /\ \E s \in Signals : Signal(s)
    /\ UNCHANGED clientVars

Reading == ReaderStep /\ UNCHANGED clientVars

CommandStep ==
    \/ Start \/ Info \/ Usable \/ Prompt \/ Typed \/ Agree \/ StorePin \/ Token
    \/ (\E yes \in BOOLEAN : Confirm(yes) \/ Again(yes))
    \/ Configure \/ Updated
    \/ List \/ NextRps \/ BeginListed \/ NextListed \/ Match \/ DeletePasskey
    \/ Look \/ LookRetries \/ Replug \/ After \/ AfterRetries \/ Register \/ Request \/ Wait
    \/ Restore

Around == Other \/ OtherLists \/ WindowCloses \/ UserTypes \/ SignalArrives
-----------------------------------------------------------------------------
(* Properties *)

\* A reset leaves the key running if it ran before and stopped if it did not, however the
\* reset itself ended, unless a restart failed or somebody else started or stopped it
\* (reset).
LeftAsFound ==
    pc = "exit" /\ cmd.name = "reset" /\ ~my.helped => ((key.inst # 0) = (my.was # 0))
=============================================================================
