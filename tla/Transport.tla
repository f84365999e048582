------------------------------ MODULE Transport ------------------------------
(***************************************************************************)
(* The daemon's transport loop and its two workers (pqkey: transport/      *)
(* mod.rs, transport/identification.rs; the interrupt flag of pqkey-ctap:  *)
(* ctap/presence.rs).  The transport thread polls: it reads the packets    *)
(* that have arrived, passes an interrupt on, exchanges requests and       *)
(* answers with the workers and runs the timers, and writes what is        *)
(* queued, reading between reports.  The app works on its own thread, and  *)
(* may ask the user; the identification worker on another.                 *)
(*                                                                         *)
(* A step of the transport thread is the code between two points where     *)
(* another thread, or the device, can make a difference to it.  Clients    *)
(* may send any packet at any time.  The app's answer is its size in       *)
(* packets (0: longer than a message can be) and what the host looks at.   *)
(***************************************************************************)
EXTENDS CtaphidHost

CONSTANTS
    UsedCommands,     \* the commands clients send
    CborBodies, MsgBodies,
    MaxPending,       \* bound: reports queued when a packet is read
    Stops, Quiets     \* whether shutdown or a device failure, and whether
                      \* the clients' falling silent, is considered

ASSUME TransportAssumption ==
    /\ UsedCommands \subseteq Commands \cup {"Continuation"}
    /\ PresenceBodies \subseteq MsgBodies
    /\ NoBody \notin CborBodies \cup MsgBodies
    /\ Stops \in BOOLEAN /\ Quiets \in BOOLEAN

VARIABLES
    host,             \* CtaphidHost
    pc, wrote,        \* where the transport thread is
    worker,           \* the app's thread: [phase, request, answer]
    flag,             \* InterruptFlag
    presence,         \* the prompt of the request the app has
    identification,   \* the identification worker: [queue, running, done]
    silence           \* how long the clients have sent nothing

vars == <<host, pc, wrote, worker, flag, presence, identification, silence>>
-----------------------------------------------------------------------------
(* Packets *)

Packet(channels, command, bodies, packets, valid) ==
    [channel : channels, command : {command}, body : bodies, packets : packets, valid : valid]

\* Requests take several packets if continuation packets are considered.
RequestSizes == IF "Continuation" \in UsedCommands THEN 1..MaxPackets ELSE {1}

Packets ==
    {p \in Packet(Cids, "Continuation", {NoBody}, {1}, BOOLEAN)
           \cup Packet(Cids \cup {Broadcast}, "Init", {NoBody}, {1}, BOOLEAN)
           \cup Packet(Cids, "Cancel", {NoBody}, {1}, {TRUE})
           \cup Packet(Cids \cup {Broadcast, NoChannel}, "Undefined", {NoBody}, {1}, {TRUE})
           \cup Packet(Cids, "Ping", {NoBody}, RequestSizes, {TRUE})
           \cup Packet(Cids, "Lock", {"release", "some", "too long"}, {1}, {TRUE})
           \cup Packet(Cids, "Wink", {NoBody}, {1}, BOOLEAN)
           \cup Packet(Cids, "Cbor", CborBodies, RequestSizes, {TRUE})
           \cup Packet(Cids, "Msg", MsgBodies, RequestSizes, {TRUE}) :
        p.command \in UsedCommands}

\* allocate_channel: a channel not in use, or none if every draw is in use.
Assignable(h, p) ==
    IF p.command = "Init" /\ p.channel = Broadcast
    THEN (Cids \ ToSet(h.channels)) \cup {NoChannel} ELSE {NoChannel}
-----------------------------------------------------------------------------
(* The transport thread *)

\* What the host looks at in an answer: its packets, a U2F refusal, whether the
\* user was asked, and that credentials were reset or U2F is off by policy.
NoAnswer == [size |-> 0, refused |-> FALSE, presence |-> FALSE, forget |-> FALSE]

\* The worker and its prompt once its answer is collected.
NoWork == [phase |-> "idle", request |-> NoRequest, answer |-> NoAnswer]
Freed == IF worker.phase = "sent" THEN NoWork ELSE worker
FreedPrompt == IF worker.phase = "sent" THEN "none" ELSE presence

\* collect_responses: the app's answer, and every identification result.
Collected(l) ==
    LET a == worker.answer
        b == IF a.forget THEN ResetU2f(host) ELSE host
        c == IF worker.phase = "sent" THEN AppResponse(b, a, l.late, l.expired) ELSE host
        result(h, d) == [IdentificationResponse(h, d.token, d.delivered, l.expired)
                            EXCEPT !.identifying = @ \ {d.token}]
    IN  FoldLeft(result, c, identification.done)

\* observe_presence
Observed(h, prompt) == AppPresence(h, prompt # "none")

\* How late the collected answers are; it matters to answers to MSG and WINK only.
Lateness ==
    LET matters == worker.phase = "sent" /\ worker.request.command = "Msg"
    IN  [late : IF matters THEN BOOLEAN ELSE {FALSE},
         expired : IF matters \/ identification.done # <<>> THEN BOOLEAN ELSE {FALSE}]

\* One packet of read_frames.
ReadFrame(p) ==
    /\ pc \in {"read", "flush read"}
    /\ silence = "none"
    /\ Len(host.pending) < MaxPending
    /\ \E l \in Lateness : LET h == Observed(Collected(l), presence) IN
       \E due \in SUBSET Armed(h), assigned \in Assignable(h, p) :
          host' = Pruned(HandleFrame(HandleTimeout(h, due), p, assigned))
    /\ worker' = Freed
    /\ presence' = FreedPrompt
    /\ identification' = [identification EXCEPT !.done = <<>>]
    /\ UNCHANGED <<pc, wrote, flag, silence>>

\* Variant: the flag is stored whatever it was (InterruptsReachTheirRequest).
EndReadStoring ==
    /\ pc \in {"read", "flush read"}
    /\ pc' = IF pc = "read" THEN "exchange" ELSE "write"
    /\ flag' = IF host.interrupt_app THEN "INTERRUPTED" ELSE flag
    /\ host' = [host EXCEPT !.interrupt_app = FALSE]
    /\ UNCHANGED <<wrote, worker, presence, identification, silence>>

\* No packet is left: an interrupt is passed on (take_interrupt, InterruptFlag::interrupt).
EndRead ==
    /\ pc \in {"read", "flush read"}
    /\ pc' = IF pc = "read" THEN "exchange" ELSE "write"
    /\ flag' = IF host.interrupt_app /\ flag = "WORKING" THEN "INTERRUPTED" ELSE flag
    /\ host' = [host EXCEPT !.interrupt_app = FALSE]
    /\ UNCHANGED <<wrote, worker, presence, identification, silence>>

\* The middle of poll: answers are collected, a request is submitted to each
\* worker that can take one, and the timers and keepalives run.
Submitted(h) ==
    LET b == IF CanTake(h) THEN TakeAppRequest(h) ELSE h
        identify == b.state.name = "Identifying" /\ ~b.state.submitted
    IN  CASE identify /\ identification.queue = <<>> -> TakeIdentification(b)
          [] identify /\ identification.queue # <<>> ->
                IdentificationResponse(b, b.state.token, FALSE, FALSE)
          [] OTHER -> b

\* What the timers of this step find, and the step with the deadlines in `due'.
BeforeTimers(l) ==
    LET a == Collected(l) IN Observed(Submitted(a), IF CanTake(a) THEN "none" ELSE presence)

Exchange(l, due, keepalive) ==
    LET a == Collected(l)
        h == BeforeTimers(l)
        submits == CanTake(a)
        waiting == ~submits /\ presence = "waiting"
    IN
    /\ pc = "exchange"
    /\ host' = Pruned(SendKeepalive(HandleTimeout(h, due), waiting, keepalive))
    /\ worker' = IF submits THEN [phase |-> "queued", request |-> h.app, answer |-> NoAnswer]
                 ELSE Freed
    /\ flag' = IF submits THEN "WORKING" ELSE flag
    /\ presence' = IF submits THEN "none" ELSE FreedPrompt
    /\ identification' = [identification EXCEPT
                             !.queue = IF h.identifying = a.identifying THEN @
                                       ELSE <<h.state.token>>,
                             !.done = <<>>]
    /\ pc' = "select"
    /\ wrote' = FALSE
    /\ UNCHANGED silence

\* The head of flush_pending's loop.
Select ==
    /\ pc = "select"
    /\ IF host.pending = <<>>
       THEN /\ host' = [host EXCEPT !.selected = 0]
            /\ pc' = "read"
       ELSE /\ host' = [host EXCEPT !.selected = Head(host.pending).token]
            /\ pc' = IF wrote THEN "flush read" ELSE "write"
    /\ UNCHANGED <<wrote, worker, flag, presence, identification, silence>>

\* The report is written if it is still the one to write.
WriteFrame ==
    /\ pc = "write"
    /\ \E due \in SUBSET Armed(host) : LET h == HandleTimeout(host, due) IN
          IF IsOutgoingCurrent(h)
          THEN host' = Pruned([OutgoingFrameWritten(h) EXCEPT !.selected = 0]) /\ wrote' = TRUE
          ELSE host' = Pruned([h EXCEPT !.selected = 0]) /\ UNCHANGED wrote
    /\ pc' = "select"
    /\ UNCHANGED <<worker, flag, presence, identification, silence>>

\* Variant: the app is not interrupted (ShutdownReturns).
StopQuietly ==
    /\ Stops
    /\ pc \notin {"stopped", "returned"}
    /\ pc' = "stopped"
    /\ UNCHANGED <<host, wrote, worker, flag, presence, identification, silence>>

\* serve returns an error: the app is interrupted, both workers' requests are
\* closed and the device is dropped (exec_with_identifier).
Stop ==
    /\ Stops
    /\ pc \notin {"stopped", "returned"}
    /\ pc' = "stopped"
    /\ flag' = IF flag = "WORKING" THEN "INTERRUPTED" ELSE flag
    /\ UNCHANGED <<host, wrote, worker, presence, identification, silence>>

\* Both threads are joined.
Join ==
    /\ pc = "stopped"
    /\ worker.phase = "ended"
    /\ identification.running = -1 /\ identification.queue = <<>>
    /\ pc' = "returned"
    /\ UNCHANGED <<host, wrote, worker, flag, presence, identification, silence>>
-----------------------------------------------------------------------------
(* The app's thread *)

\* run_app takes the request.
Receive ==
    /\ worker.phase = "queued"
    /\ worker' = [worker EXCEPT !.phase = "working"]
    /\ UNCHANGED <<host, pc, wrote, flag, presence, identification, silence>>

MayAsk == worker.request.command = "Cbor" \/ worker.request.body \in PresenceBodies

\* ask_user: a request that was cancelled before is not shown.
AskUser ==
    /\ worker.phase = "working"
    /\ presence = "none"
    /\ MayAsk
    /\ flag # "INTERRUPTED"
    /\ presence' = "waiting"
    /\ UNCHANGED <<host, pc, wrote, worker, flag, identification, silence>>

\* The user approves, or refuses or lets the prompt time out.
UserAnswers(outcome) ==
    /\ presence = "waiting"
    /\ outcome \in {"approved", "refused"}
    /\ presence' = outcome
    /\ UNCHANGED <<host, pc, wrote, worker, flag, identification, silence>>

\* The prompt notices the cancellation.
PromptCancelled ==
    /\ presence = "waiting"
    /\ flag = "INTERRUPTED"
    /\ presence' = "refused"
    /\ UNCHANGED <<host, pc, wrote, worker, flag, identification, silence>>

\* The call returns.  A refused U2F prompt, and one not shown because of a
\* cancellation, is refused with SW_CONDITIONS_NOT_SATISFIED; with U2F off by
\* policy no prompt is shown.
Answer(a) ==
    LET r == worker.request IN
    /\ worker.phase = "working"
    /\ presence # "waiting"
    /\ a.presence = (presence # "none")
    /\ r.command = "Msg" /\ presence = "refused" => a.refused
    /\ a.refused => /\ r.command = "Msg" /\ MayAsk
                    /\ \/ presence = "refused"
                       \/ presence = "none" /\ flag = "INTERRUPTED"
    /\ a.forget => r.command = "Cbor" \/ (presence = "none" /\ ~a.refused)
    /\ a.refused => a.size = 1
    /\ worker' = [worker EXCEPT !.phase = "answered", !.answer = a]
    /\ UNCHANGED <<host, pc, wrote, flag, presence, identification, silence>>

SetIdle ==
    /\ worker.phase = "answered"
    /\ worker' = [worker EXCEPT !.phase = "idled"]
    /\ flag' = "IDLE"
    /\ UNCHANGED <<host, pc, wrote, presence, identification, silence>>

\* The answer is sent; with the transport gone the thread ends instead.
Send ==
    /\ worker.phase = "idled"
    /\ worker' = [worker EXCEPT !.phase = IF pc = "stopped" THEN "ended" ELSE "sent"]
    /\ UNCHANGED <<host, pc, wrote, flag, presence, identification, silence>>

\* There are no more requests.
WorkerEnds ==
    /\ pc = "stopped"
    /\ worker.phase \in {"idle", "sent"}
    /\ worker' = [worker EXCEPT !.phase = "ended"]
    /\ UNCHANGED <<host, pc, wrote, flag, presence, identification, silence>>
-----------------------------------------------------------------------------
(* The identification worker *)

Identify ==
    /\ identification.running = -1
    /\ identification.queue # <<>>
    /\ identification' = [identification EXCEPT !.running = Head(identification.queue), !.queue = <<>>]
    /\ UNCHANGED <<host, pc, wrote, worker, flag, presence, silence>>

Identified(delivered) ==
    /\ identification.running # -1
    /\ identification' = [identification EXCEPT
          !.running = -1,
          !.queue = IF pc = "stopped" THEN <<>> ELSE @,
          !.done = IF pc = "stopped" THEN @
                   ELSE Append(@, [token |-> identification.running, delivered |-> delivered])]
    /\ UNCHANGED <<host, pc, wrote, worker, flag, presence, silence>>

\* The clients send nothing more; and then that has lasted longer than any
\* deadline, all of which count from a packet or from the end of a prompt.
FallSilent ==
    /\ Quiets
    /\ silence = "none"
    /\ silence' = "some"
    /\ UNCHANGED <<host, pc, wrote, worker, flag, presence, identification>>

TimePasses ==
    /\ silence = "some"
    /\ silence' = "long"
    /\ UNCHANGED <<host, pc, wrote, worker, flag, presence, identification>>
-----------------------------------------------------------------------------
Init ==
    /\ host = NewHost
    /\ pc = "read"
    /\ wrote = FALSE
    /\ worker = NoWork
    /\ flag = "IDLE"
    /\ presence = "none"
    /\ silence = "none"
    /\ identification = [queue |-> <<>>, running |-> -1, done |-> <<>>]

Answers == [size : 0..MaxPackets, refused : BOOLEAN, presence : BOOLEAN, forget : BOOLEAN]

\* What each thread does by itself.
TransportStep ==
    \/ EndRead
    \/ /\ pc = "exchange"
       /\ \E l \in Lateness, keepalive \in BOOLEAN :
             LET armed == Armed(BeforeTimers(l)) IN
             \E due \in IF silence = "long" THEN {armed} ELSE SUBSET armed :
                Exchange(l, due, keepalive)
    \/ Select
    \/ WriteFrame
    \/ Join

AppStep ==
    \/ Receive
    \/ \E a \in Answers : Answer(a)
    \/ PromptCancelled
    \/ SetIdle
    \/ Send
    \/ WorkerEnds

IdentificationStep ==
    \/ Identify
    \/ \E delivered \in BOOLEAN : Identified(delivered)

Next ==
    \/ \E p \in Packets : ReadFrame(p)
    \/ TransportStep
    \/ AppStep
    \/ AskUser
    \/ \E outcome \in {"approved", "refused"} : UserAnswers(outcome)
    \/ IdentificationStep
    \/ Stop
    \/ FallSilent
    \/ TimePasses

Spec == Init /\ [][Next]_vars

\* The threads run: the transport thread, whose steps are those that change pc,
\* for as long as it is not stopped.  Packets do not arrive faster than they are
\* read, and an identification ends by its deadline (Identifier::identify).
\* Time passes, and the prompt times out; the latter is asked for only when
\* nothing else could end the prompt.
Fairness ==
    /\ []<><<pc' # pc>>_vars \/ <>[](pc \in {"stopped", "returned"})
    /\ WF_vars(Join)
    /\ WF_vars(AppStep)
    /\ WF_vars(IdentificationStep)
    /\ WF_vars(TimePasses)
    /\ WF_vars(silence = "long" /\ UserAnswers("refused"))

FairSpec == Spec /\ Fairness
-----------------------------------------------------------------------------
(* Properties *)

Requests == {NoRequest} \cup [id : 1..9, channel : Cids, command : {"Cbor", "Msg"},
                              body : CborBodies \cup MsgBodies]

\* The shape of the state, and that no two queued reports share a token, so
\* that "still the one to write" is decided rightly.
TypeOK ==
    /\ pc \in {"read", "exchange", "select", "flush read", "write", "stopped", "returned"}
    /\ wrote \in BOOLEAN /\ silence \in {"none", "some", "long"}
    /\ worker.phase \in {"idle", "queued", "working", "answered", "idled", "sent", "ended"}
    /\ worker.request \in Requests /\ worker.answer \in Answers
    /\ flag \in {"IDLE", "WORKING", "INTERRUPTED"}
    /\ presence \in {"none", "waiting", "approved", "refused"}
    /\ host.app \in Requests
    /\ host.lease \in Cids \cup {NoChannel}
    /\ host.state.name \in {"Idle", "Receiving", "Processing", "Identifying", "Transmitting"}
    /\ Len(host.channels) <= MAX_CHANNELS /\ ToSet(host.channels) \subseteq Cids
    /\ Cardinality(host.denied_polls) <= MAX_CHANNELS
    /\ \A i, j \in DOMAIN host.pending :
          host.pending[i].token = host.pending[j].token => i = j

\* A queued answer of the app goes to the channel that sent the request, answers
\* the very message that channel sent last, and is not one an INIT took back.
AnswersOwnRequest ==
    \A f \in ToSet(host.pending) : f.re # NoRequest =>
        /\ f.channel = f.re.channel
        /\ f.re.body = host.message
        /\ f.re.id \notin host.aborted
        /\ host.state.name = "Transmitting" /\ host.state.channel = f.channel

\* An interrupt reaches the request it was asked for and no other.  A CANCEL, INIT
\* or silence meant for one request never interrupts the next (poll, submit); and
\* an interrupt that was asked for is not lost before the app is done with the
\* request, even if the worker had not picked the request up.
InterruptsReachTheirRequest ==
    /\ flag = "INTERRUPTED" =>
          worker.request.id \in host.cancelled \/ pc \in {"stopped", "returned"}
    /\ worker.phase \in {"queued", "working"} /\ worker.request.id \in host.cancelled =>
          host.interrupt_app \/ flag = "INTERRUPTED"

\* While a channel holds the LOCK lease no other channel has a transaction or
\* an open prompt: the others are told that the device is busy.
LeaseExcludesOthers ==
    host.lease # NoChannel => BusyChannel(host) \in {NoChannel, host.lease}

\* Once the clients are silent every transaction, prompt, lease and remembered
\* refusal ends, all output is written, and both workers are free.
WindsDown ==
    silence = "some" ~>
             \/ pc = "returned"
             \/ /\ host.state.name = "Idle" /\ host.pending = <<>>
                /\ host.lease = NoChannel /\ host.u2f = NoPoll /\ host.denied_polls = {}
                /\ worker.phase = "idle"
                /\ identification.running = -1 /\ identification.queue = <<>>

\* On shutdown or a device failure the prompt is cancelled, both workers finish
\* and exec returns, without the user.
ShutdownReturns == pc = "stopped" ~> pc = "returned"
=============================================================================
