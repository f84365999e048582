------------------------------- MODULE Prompt -------------------------------
(***************************************************************************)
(* The notification that asks the user (pqkey: presence/notification.rs    *)
(* over platform/linux/dbus.rs), and the record that lets a daemon         *)
(* withdraw the prompt a killed one left on the screen.                    *)
(*                                                                         *)
(* The notification server is external.  It shows the notifications of     *)
(* every program, numbers them from 1, and begins again with 1 when it is  *)
(* replaced by another instance.  A call reaches the instance of the       *)
(* moment; signals come only from the one found when connecting.           *)
(***************************************************************************)
EXTENDS Integers, FiniteSets

CONSTANTS MaxInstance, MaxId    \* bounds

VARIABLES
    server,       \* [inst, next, shown], the notifications shown: [id, by, excused]
    record,       \* the prompt file: [inst, id]
    asking,       \* the request that asks: [pc, inst, id]
    strayed       \* history: a notification of another program was withdrawn by a
                  \* prompt's number, from the instance connected to

promptVars == <<server, record, asking, strayed>>

NoRecord == [inst |-> 0, id |-> 0]
NotAsking == [pc |-> "idle", inst |-> 0, id |-> 0]
Note(id, by) == [id |-> id, by |-> by, excused |-> FALSE]
Prompt(inst, id) == [inst |-> inst, id |-> id]

Without(shown, id) == {n \in shown : n.id # id}

\* A prompt that the record will not name, or that could not be withdrawn.
Excused(shown, id) == {IF n.id = id /\ n.by = "pqkey" THEN [n EXCEPT !.excused = TRUE] ELSE n : n \in shown}

To(pc) == asking' = [asking EXCEPT !.pc = pc]
-----------------------------------------------------------------------------
(* SessionBus *)

\* notify: the server shows a notification under the next number.
Shown(s, by) == [s EXCEPT !.next = @ + 1, !.shown = @ \cup {Note(s.next, by)}]

\* close: CloseNotification goes to the owner of the well-known name, and may fail.
Close(id) ==
    \/ /\ server' = [server EXCEPT !.shown = Without(@, id)]
       /\ strayed' = (strayed \/ (/\ asking.inst = server.inst
                                  /\ \E n \in server.shown : n.id = id /\ n.by = "other"))
    \/ server' = [server EXCEPT !.shown = Excused(@, id)] /\ UNCHANGED strayed
-----------------------------------------------------------------------------
(* NotificationPresence *)

\* withdraw_stale_prompt, up to the connection, when the daemon starts.  Without
\* one the record is left to the next request.
WithdrawStale ==
    /\ asking.pc = "idle"
    /\ asking' \in {NotAsking} \cup
                   IF record = NoRecord THEN {}
                   ELSE {[pc |-> "stale", inst |-> server.inst, id |-> 0]}
    /\ UNCHANGED <<server, record, strayed>>

\* ask: connect, which may fail.
Connect ==
    /\ asking.pc = "idle"
    /\ asking' \in {[pc |-> "connected", inst |-> server.inst, id |-> 0],
                    [pc |-> "forget", inst |-> 0, id |-> 0]}
    /\ UNCHANGED <<server, record, strayed>>

\* Variant: the record's number is withdrawn from any instance (OwnServerOnly).
MatchesAny == record # NoRecord

\* close_stale_prompt: the record is of the instance connected to.
Matches == record # NoRecord /\ record.inst = asking.inst

\* close_stale_prompt: a prompt recorded for the instance connected to is
\* withdrawn; then the record goes.
CloseStale ==
    /\ asking.pc \in {"stale", "connected"}
    /\ IF Matches THEN Close(record.id) ELSE UNCHANGED <<server, strayed>>
    /\ To(IF asking.pc = "stale" THEN "forget" ELSE "forget_stale")
    /\ UNCHANGED record

ForgetStale ==
    /\ asking.pc = "forget_stale"
    /\ record' = NoRecord
    /\ To("ask")
    /\ UNCHANGED <<server, strayed>>

\* ask up to notify: a server that shows no buttons or no text, a cancelled
\* request and a failing call end it without a prompt.
Notify ==
    /\ asking.pc = "ask"
    /\ \/ /\ server.next <= MaxId
          /\ LET after == Shown(server, "pqkey")
             IN  server' = IF asking.inst = server.inst THEN after
                           ELSE [after EXCEPT !.shown = Excused(@, server.next)]
          /\ asking' = [asking EXCEPT !.pc = "record", !.id = server.next]
       \/ To("forget") /\ UNCHANGED server
    /\ UNCHANGED <<record, strayed>>

\* record_prompt, which may fail.
RecordPrompt ==
    /\ asking.pc = "record"
    /\ \/ record' = Prompt(asking.inst, asking.id) /\ UNCHANGED server
       \/ record' = record /\ server' = [server EXCEPT !.shown = Excused(@, asking.id)]
    /\ To("wait")
    /\ UNCHANGED strayed

\* Variant: the record is removed before the prompt is withdrawn (OrphanRecorded).
AnswerForgetting ==
    /\ asking.pc = "wait"
    /\ \/ To("close") /\ UNCHANGED server
       \/ /\ asking.inst = server.inst
          /\ server' = [server EXCEPT !.shown = Without(@, asking.id)]
          /\ To("forget")
    /\ record' = NoRecord
    /\ UNCHANGED strayed

\* The loop, up to its end: an answer, a cancellation, the deadline or a failing
\* server has the prompt withdrawn, unless the server says that it is gone.  A nudge,
\* which posts and withdraws another notification at once, changes nothing.
Answer ==
    /\ asking.pc = "wait"
    /\ \/ To("close") /\ UNCHANGED server
       \/ /\ asking.inst = server.inst
          /\ server' = [server EXCEPT !.shown = Without(@, asking.id)]
          /\ To("forget")
    /\ UNCHANGED <<record, strayed>>

ClosePrompt ==
    /\ asking.pc = "close"
    /\ Close(asking.id)
    /\ To("forget")
    /\ UNCHANGED record

\* confirm's end: forget_prompt, disconnect.  A request that could not connect
\* forgets what an earlier daemon recorded.
Forget ==
    /\ asking.pc = "forget"
    /\ record' = NoRecord
    /\ server' = IF asking.inst = 0 /\ record.inst = server.inst
                 THEN [server EXCEPT !.shown = Excused(@, record.id)] ELSE server
    /\ asking' = NotAsking
    /\ UNCHANGED strayed

Asking ==
    \/ CloseStale \/ ForgetStale \/ Notify \/ RecordPrompt \/ Answer
    \/ ClosePrompt \/ Forget

\* The daemon is killed while it asks.
AskerKilled ==
    /\ asking' = NotAsking
    /\ server' = IF asking.pc = "record"
                 THEN [server EXCEPT !.shown = Excused(@, asking.id)] ELSE server
    /\ UNCHANGED <<record, strayed>>
-----------------------------------------------------------------------------
(* The notification server *)

\* Another program shows a notification.
OtherNotifies ==
    /\ server.next <= MaxId
    /\ server' = Shown(server, "other")
    /\ UNCHANGED <<record, asking, strayed>>

\* The user closes a notification no daemon waits for.
Dismissed ==
    /\ \E n \in server.shown :
          /\ ~(asking.id = n.id /\ asking.inst = server.inst)
          /\ server' = [server EXCEPT !.shown = Without(@, n.id)]
    /\ UNCHANGED <<record, asking, strayed>>

Replaced ==
    /\ server.inst < MaxInstance
    /\ server' = [inst |-> server.inst + 1, next |-> 1, shown |-> {}]
    /\ UNCHANGED <<record, asking, strayed>>

ServerSteps == OtherNotifies \/ Dismissed \/ Replaced

PromptInit ==
    /\ server = [inst |-> 1, next |-> 1, shown |-> {}]
    /\ record = NoRecord
    /\ asking = NotAsking
    /\ strayed = FALSE
-----------------------------------------------------------------------------
\* A prompt of the key's on the screen is one that a daemon waits on, or one that
\* the record names, so that the next daemon can withdraw it; except one left by
\* a daemon killed between showing and recording it, one that could not be
\* recorded, one that the server refused to withdraw, one shown by a server that
\* replaced the one connected to, and one that a request forgot without reaching
\* the server (record_prompt, confirm).
OrphanRecorded ==
    \A n \in server.shown :
        n.by = "pqkey" /\ ~n.excused =>
            \/ asking.inst = server.inst /\ asking.id = n.id
            \/ record = Prompt(server.inst, n.id)

\* A number is only withdrawn from the instance that gave it, so no notification
\* of another program goes in its place, as long as that instance is still there
\* when the call is made (close_stale_prompt).
OwnServerOnly == ~strayed

=============================================================================
