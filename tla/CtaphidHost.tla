----------------------------- MODULE CtaphidHost -----------------------------
(***************************************************************************)
(* The CTAPHID framing state machine (pqkey: transport/ctaphid_host.rs).   *)
(* It has no I/O, threads or clocks of its own, so it is a set of          *)
(* functions on a record, the fields of CtaphidHost; module Transport      *)
(* drives it.                                                              *)
(*                                                                         *)
(* Abstracted: a message is its body and its number of packets, and a      *)
(* continuation packet has the expected sequence number or not.  A time    *)
(* stamp is left out: what is due is an input (`due', `late', `expired'),  *)
(* free while the timer is armed.  Report tokens and requests get numbers  *)
(* that none in use has; Pruned keeps the numbers small.                   *)
(***************************************************************************)
EXTENDS Integers, Sequences, FiniteSets, SequencesExt

CONSTANTS
    Cids,             \* channels clients use
    Broadcast,        \* BROADCAST_CID
    NoChannel,        \* channel 0, and `none'
    NoBody,           \* the empty message buffer
    PresenceBodies,   \* the MSG bodies requests_presence holds of
    MAX_CHANNELS,
    MaxPackets        \* bound: packets of a message

ASSUME HostAssumption ==
    /\ Broadcast \notin Cids
    /\ NoChannel \notin Cids \cup {Broadcast}
    /\ NoBody \notin PresenceBodies
    /\ MAX_CHANNELS \in Nat \ {0}
    /\ MaxPackets \in Nat \ {0}

Commands == {"Ping", "Msg", "Lock", "Init", "Wink", "Cbor", "Cancel", "Undefined"}

\* A request the app is to answer; id 0: none.
NoRequest == [id |-> 0]

NoPoll == [channel |-> NoChannel]

Idle == [name |-> "Idle"]

\* CtaphidHost::with_rng.  `app' is app_command, with the request it is the
\* command of.  `selected' is the token of the report the transport holds, and
\* `identifying' are those the identification worker holds.  The rest is
\* history: `cancelled' are the requests whose channel, or whose silence, asked
\* for their end, and `aborted' those an INIT took back.
NewHost ==
    [state |-> Idle, lease |-> NoChannel, message |-> NoBody, pending |-> <<>>,
     channels |-> <<>>, app_busy |-> FALSE, interrupt_app |-> FALSE, app |-> NoRequest,
     u2f |-> NoPoll, denied_polls |-> {}, selected |-> 0, identifying |-> {},
     cancelled |-> {}, aborted |-> {}]
-----------------------------------------------------------------------------
(* Output *)

\* queue_frame's token: one that neither a queued report has nor the selected one.
NextToken(h) == Max({f.token : f \in ToSet(h.pending)} \cup {h.selected}) + 1

\* queue_message: n packets; `re' is the request they answer.
QueueMessage(h, c, command, re, n) ==
    [h EXCEPT !.pending = @ \o [k \in 1..n |->
        [channel |-> c, command |-> command, re |-> re, token |-> NextToken(h) + k - 1]]]

EnqueueMessage(h, c, command, re, n) ==
    LET q == QueueMessage(h, c, command, re, n)
    IN  [q EXCEPT !.state = [name |-> "Transmitting", channel |-> c,
                             final_frame |-> q.pending[Len(q.pending)].token]]

EnqueueError(h, c) == QueueMessage(h, c, "Error", NoRequest, 1)
FinishError(h, c) == EnqueueMessage(h, c, "Error", NoRequest, 1)

\* The answer while a U2F prompt is open: SW_CONDITIONS_NOT_SATISFIED.
AskAgain(h, c) == EnqueueMessage([h EXCEPT !.state = Idle], c, "Msg", NoRequest, 1)

\* The app's answer, in as many packets as it takes, or ERR_OTHER if it is
\* longer than a message can be (n = 0).
EnqueueAnswer(h, c, command, re, n) ==
    IF n = 0 THEN FinishError(h, c) ELSE EnqueueMessage(h, c, command, re, n)

IsOutgoingCurrent(h) == h.pending # <<>> /\ Head(h.pending).token = h.selected

OutgoingFrameWritten(h) ==
    [h EXCEPT !.pending = Tail(@),
              !.state = IF @.name = "Transmitting" /\ @.final_frame = h.selected
                        THEN Idle ELSE @]
-----------------------------------------------------------------------------
(* Ownership *)

Unanswered(h) == h.u2f # NoPoll /\ ~h.u2f.answered

BusyChannel(h) ==
    IF h.state.name # "Idle" THEN h.state.channel
    ELSE IF Unanswered(h) THEN h.u2f.channel ELSE NoChannel

\* Variant: the lease is not looked at (LeaseExcludesOthers).
NoLeaseConflicts(h, c) == FALSE

LeaseConflicts(h, c) == h.lease \notin {NoChannel, c}

\* Variant: a request still waiting for the app counts as well (AnswersOwnRequest).
DirectOrHeld(h) == h.state.name = "Processing"

\* The app works on the transaction's own request.
Direct(h) == h.state.name = "Processing" /\ h.state.taken

\* It is a MSG, and the user has been asked.
Prompting(h) ==
    Direct(h) /\ h.state.command = "Msg" /\ h.u2f # NoPoll /\ h.u2f.presence_started

\* Channels::touch and Channels::insert: least recently used first.
Others(channels, c) == SelectSeq(channels, LAMBDA d : d # c)
Touch(channels, c) == IF c \in ToSet(channels) THEN Append(Others(channels, c), c) ELSE channels
Inserted(channels, c) ==
    Append(IF Len(channels) = MAX_CHANNELS THEN Tail(channels) ELSE channels, c)

\* The requests that are somewhere, and the next free number.
Live(h) ==
    {h.app.id} \cup {f.re.id : f \in ToSet(h.pending)}
    \cup (IF h.u2f = NoPoll THEN {} ELSE {h.u2f.request.id})
    \cup (IF h.state.name = "Processing" THEN {h.state.request.id} ELSE {})
NewId(h) == CHOOSE i \in 1..(Cardinality(Live(h)) + 1) :
                i \notin Live(h) /\ 1..(i - 1) \subseteq Live(h)

NewIdentification(h) ==
    CHOOSE i \in 0..Cardinality(h.identifying) :
        i \notin h.identifying /\ 0..(i - 1) \subseteq h.identifying
-----------------------------------------------------------------------------
(* Timers *)

\* The deadlines that may be due.  A denied poll expires on its own clock.
Armed(h) ==
    (IF h.lease # NoChannel THEN {<<"lease">>} ELSE {})
    \cup (IF h.state.name = "Identifying" THEN {<<"identification">>} ELSE {})
    \cup {<<"denied", poll>> : poll \in h.denied_polls}
    \cup (IF h.u2f # NoPoll THEN {<<"u2f">>} ELSE {})
    \cup (IF Prompting(h) THEN {<<"wait">>} ELSE {})
    \cup (IF h.state.name = "Receiving" THEN {<<"continuation">>} ELSE {})

ExpireLease(h, due) == IF <<"lease">> \in due THEN [h EXCEPT !.lease = NoChannel] ELSE h

\* Variant: an answer is kept until it is collected (WindsDown).
ExpirePollUnanswered(h, due) ==
    IF <<"u2f">> \notin due \/ h.u2f.answered THEN h
    ELSE [h EXCEPT !.u2f = NoPoll, !.interrupt_app = TRUE,
                   !.cancelled = @ \cup {h.u2f.request.id}]

\* The prompt's client has stopped asking, or has not collected the answer.
ExpirePoll(h, due) ==
    IF <<"u2f">> \notin due THEN h
    ELSE IF h.u2f.answered THEN [h EXCEPT !.u2f = NoPoll]
    ELSE [h EXCEPT !.u2f = NoPoll, !.interrupt_app = TRUE,
                   !.cancelled = @ \cup {h.u2f.request.id}]

\* handle_timeout
HandleTimeout(h, due) ==
    LET a == ExpireLease(h, due)
        b == IF <<"identification">> \in due THEN FinishError(a, a.state.channel) ELSE a
        c == [b EXCEPT !.denied_polls = {poll \in @ : <<"denied", poll>> \notin due}]
        d == ExpirePoll(c, due)
        e == IF <<"wait">> \in due /\ Prompting(d) THEN AskAgain(d, d.state.channel) ELSE d
    IN  IF <<"continuation">> \in due THEN FinishError(e, e.state.channel) ELSE e

\* send_keepalive: at its interval, or when the status changes.
SendKeepalive(h, waiting, due) ==
    LET up == waiting /\ Direct(h) IN
    IF h.state.name # "Processing" \/ (up = h.state.up_needed /\ ~due) THEN h
    ELSE QueueMessage([h EXCEPT !.state.up_needed = up], h.state.channel, "KeepAlive", NoRequest, 1)
-----------------------------------------------------------------------------
(* Messages *)

Process(h, c, command) ==
    LET r == [id |-> NewId(h), channel |-> c, command |-> command, body |-> h.message] IN
    [h EXCEPT !.u2f = NoPoll,
              !.state = [name |-> "Processing", channel |-> c, command |-> command,
                         request |-> r, taken |-> FALSE, up_needed |-> FALSE],
              !.cancelled = @ \ {r.id}, !.aborted = @ \ {r.id}]

\* self.u2f.take()
TakePoll(h) == [h EXCEPT !.u2f = NoPoll]

PollsFull(h) == Cardinality(h.denied_polls) >= MAX_CHANNELS

\* complete_message for MSG: a repeat of the open prompt's request collects its
\* answer, once, or is told to ask again, and so is one of a denied prompt.
CompleteMsg(h, c) ==
    LET repeat == h.u2f # NoPoll /\ h.u2f.channel = c /\ h.u2f.request.body = h.message IN
    IF repeat /\ h.u2f.answered
    THEN EnqueueAnswer(TakePoll(h), c, "Msg", h.u2f.request, h.u2f.size)
    ELSE IF repeat THEN AskAgain(h, c)
    ELSE IF Unanswered(h) THEN FinishError(h, c)
    ELSE IF [channel |-> c, body |-> h.message] \in h.denied_polls THEN AskAgain(h, c)
    ELSE IF h.message \in PresenceBodies /\ PollsFull(h) THEN FinishError(h, c)
    ELSE Process(h, c, "Msg")

\* complete_message.  LOCK's body is the seconds it asks for.
CompleteMessage(h, c, command, packets) ==
    CASE command = "Wink" ->
            [h EXCEPT !.state = [name |-> "Identifying", channel |-> c,
                                 token |-> NewIdentification(h), submitted |-> FALSE]]
      [] command = "Lock" /\ h.message = "too long" -> FinishError(h, c)
      [] command = "Lock" /\ h.message # "too long" ->
            EnqueueMessage([h EXCEPT !.lease = IF h.message = "release" THEN NoChannel ELSE c],
                           c, "Lock", NoRequest, 1)
      [] command = "Msg" -> CompleteMsg(h, c)
      [] command = "Ping" -> EnqueueMessage(h, c, "Ping", NoRequest, packets)
      [] OTHER -> Process(h, c, command)

\* handle_continuation: `expected' says that the sequence number is the next one.
HandleContinuation(h, c, expected) ==
    LET s == h.state IN
    IF s.name # "Receiving" THEN h
    ELSE IF s.channel # c THEN h
    ELSE IF ~expected THEN FinishError(h, c)
    ELSE IF s.missing = 1 THEN CompleteMessage(h, c, s.command, s.packets)
    ELSE [h EXCEPT !.state.missing = @ - 1]

HandleCancel(h, c) ==
    LET s == h.state IN
    IF s.name # "Processing" THEN h
    ELSE IF s.channel # c \/ s.command # "Cbor" THEN h
    ELSE IF s.taken
    THEN [h EXCEPT !.interrupt_app = TRUE, !.cancelled = @ \cup {s.request.id}]
    ELSE EnqueueMessage(h, c, "Cbor", s.request, 1)

\* The effect of an INIT that is accepted.
Resynchronised(h, c) ==
    LET mine == {r.id : r \in {q \in {h.app} \cup (IF h.u2f = NoPoll THEN {} ELSE {h.u2f.request})
                                      \cup (IF h.state.name = "Processing" THEN {h.state.request} ELSE {}) :
                               q # NoRequest /\ q.channel = c}}
    IN  [h EXCEPT !.pending = SelectSeq(@, LAMBDA f : f.channel # c),
                  !.message = NoBody,
                  !.u2f = IF @.channel = c THEN NoPoll ELSE @,
                  !.denied_polls = {p \in @ : p.channel # c},
                  !.interrupt_app = @ \/ (Unanswered(h) /\ h.u2f.channel = c) \/ Direct(h),
                  !.state = Idle,
                  !.cancelled = @ \cup mine, !.aborted = @ \cup mine]

\* handle_init; `assigned' is the channel allocated on the broadcast channel.
HandleInit(h, c, valid, assigned) ==
    LET refuse == IF h.state.name # "Idle" THEN EnqueueError(h, c) ELSE FinishError(h, c)
        synced == Resynchronised(h, c)
        known == c # NoChannel /\ (h.state.name # "Idle" \/ c \in ToSet(h.channels))
    IN
    IF LeaseConflicts(h, c) \/ BusyChannel(h) \notin {NoChannel, c} THEN EnqueueError(h, c)
    ELSE IF ~valid
    THEN IF BusyChannel(h) # NoChannel THEN EnqueueError(h, c) ELSE FinishError(h, c)
    ELSE IF c = Broadcast /\ assigned # NoChannel
    THEN EnqueueMessage([synced EXCEPT !.channels = Inserted(@, assigned)], c, "Init", NoRequest, 1)
    ELSE IF c # Broadcast /\ known THEN EnqueueMessage(synced, c, "Init", NoRequest, 1)
    ELSE refuse

\* handle_request
HandleRequest(h, p) ==
    LET c == p.channel
        received == [h EXCEPT !.message = p.body]
    IN
    IF \/ LeaseConflicts(h, c)
       \/ BusyChannel(h) \notin {NoChannel, c}
       \/ h.state.name \in {"Processing", "Identifying", "Transmitting"}
       \/ h.state.name = "Idle" /\ BusyChannel(h) = c /\ p.command # "Msg"
    THEN EnqueueError(h, c)
    ELSE IF \/ h.state.name = "Receiving"
            \/ c \in {NoChannel, Broadcast}
            \/ p.command = "Undefined"
            \/ ~p.valid
    THEN FinishError(h, c)
    ELSE IF p.packets = 1 THEN CompleteMessage(received, c, p.command, 1)
    ELSE [received EXCEPT !.state = [name |-> "Receiving", channel |-> c, command |-> p.command,
                                     packets |-> p.packets, missing |-> p.packets - 1]]

\* handle_frame, once handle_timeout has run at the same time.
HandleFrame(h, p, assigned) ==
    LET t == [h EXCEPT !.channels = Touch(@, p.channel)] IN
    CASE p.command = "Continuation" -> HandleContinuation(h, p.channel, p.valid)
      [] p.command = "Cancel" -> HandleCancel(t, p.channel)
      [] p.command = "Init" -> HandleInit(t, p.channel, p.valid, assigned)
      [] OTHER -> HandleRequest(t, p)
-----------------------------------------------------------------------------
(* The app *)

\* app_presence and app_presence_finished
AppPresence(h, started) ==
    IF started /\ h.app # NoRequest /\ h.app.command = "Msg" /\ h.u2f # NoPoll
    THEN [h EXCEPT !.u2f.presence_started = TRUE] ELSE h

ResetU2f(h) == [h EXCEPT !.u2f = NoPoll, !.denied_polls = {}]

CanTake(h) == ~h.app_busy /\ h.state.name = "Processing" /\ ~h.state.taken

\* take_app_request, if there is one to take.
TakeAppRequest(h) ==
    LET r == h.state.request IN
    [h EXCEPT !.state.taken = TRUE, !.app_busy = TRUE, !.app = r,
              !.u2f = IF r.command = "Msg" /\ r.body \in PresenceBodies
                      THEN [channel |-> r.channel, request |-> r, presence_started |-> FALSE,
                            answered |-> FALSE, size |-> 0]
                      ELSE @]

\* What app_response makes of an answer to the open prompt's request.  A late
\* one is kept for the next repeat, and so is one that comes between polls.
AnswerPrompt(h, a, late, expired) ==
    LET poll == h.u2f
        closed == TakePoll(h)
        kept == [h EXCEPT !.u2f.answered = TRUE, !.u2f.size = a.size]
        isLate == Direct(h) /\ a.presence /\ late
    IN
    CASE a.refused ->
            [next |-> [closed EXCEPT !.denied_polls =
                            @ \cup {[channel |-> poll.channel, body |-> poll.request.body]}],
             done |-> FALSE]
      [] ~a.refused /\ (~Direct(h) \/ isLate) ->
            LET n == IF a.presence /\ ~expired THEN kept ELSE closed
            IN  [next |-> IF isLate THEN AskAgain(n, poll.channel) ELSE n, done |-> TRUE]
      [] OTHER -> [next |-> closed, done |-> FALSE]

Free(h) == [h EXCEPT !.app_busy = FALSE, !.app = NoRequest]

\* app_response: the answer goes to the transaction whose request it answers;
\* the answer to an aborted one is discarded.
AppResponse(h, a, late, expired) ==
    LET free == Free(h)
        prompt == IF h.app.command = "Msg" /\ h.u2f # NoPoll
                  THEN AnswerPrompt(free, a, late, expired)
                  ELSE [next |-> free, done |-> FALSE]
        n == prompt.next
    IN  IF prompt.done \/ ~Direct(n) THEN n
        ELSE EnqueueAnswer(n, n.state.channel, n.state.command, h.app, a.size)
-----------------------------------------------------------------------------
(* Identification *)

\* take_identification_request
TakeIdentification(h) ==
    [h EXCEPT !.state.submitted = TRUE, !.identifying = @ \cup {h.state.token}]

\* identification_response
IdentificationResponse(h, token, delivered, expired) ==
    IF h.state.name # "Identifying" THEN h
    ELSE IF h.state.token # token THEN h
    ELSE IF delivered /\ ~expired THEN EnqueueMessage(h, h.state.channel, "Wink", NoRequest, 1)
    ELSE FinishError(h, h.state.channel)
-----------------------------------------------------------------------------
(* What no later step can tell apart is made equal: a buffer that will be    *)
(* cleared before it is read, the history of requests that are nowhere any   *)
(* more, and the numbers of reports, which are only compared.                *)
Pruned(h) ==
    LET live == Live(h) \ {0}
        position(t) == IF \E i \in DOMAIN h.pending : h.pending[i].token = t
                       THEN CHOOSE i \in DOMAIN h.pending : h.pending[i].token = t
                       ELSE IF t = 0 THEN 0 ELSE Len(h.pending) + 1
    IN  [h EXCEPT
            !.message = IF h.state.name = "Idle" THEN NoBody ELSE @,
            !.pending = [i \in DOMAIN @ |-> [@[i] EXCEPT !.token = i]],
            !.selected = position(@),
            !.state = IF @.name = "Transmitting"
                      THEN [@ EXCEPT !.final_frame = position(@)] ELSE @,
            !.cancelled = @ \cap live, !.aborted = @ \cap live]
=============================================================================
