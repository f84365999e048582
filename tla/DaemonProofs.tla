---------------------------- MODULE DaemonProofs ----------------------------
(***************************************************************************)
(* Proofs about Daemon and the Prompt it shows, for any numbers of         *)
(* processes, commands, options, kills, runs, server instances and         *)
(* notifications.                                                          *)
(*                                                                         *)
(* The prompt's invariant does not depend on who takes its steps, so it is *)
(* proved for its own steps first (PromptSteps); the daemon's is about the *)
(* lock: the process that is past acquiring it is its holder.              *)
(***************************************************************************)
EXTENDS Daemon, TLAPS

(* The prompt *)

Notes == [id : Nat \ {0}, by : {"pqkey", "other"}, excused : BOOLEAN]
AskingPcs == {"idle", "stale", "connected", "forget_stale", "ask", "record", "wait", "close", "forget"}

PromptTypeOK ==
    /\ server \in [inst : Nat \ {0}, next : Nat \ {0}, shown : SUBSET Notes]
    /\ record \in [inst : Nat, id : Nat]
    /\ asking \in [pc : AskingPcs, inst : Nat, id : Nat]

\* The server gives each number once, and nobody knows of a later instance.
NumberInv ==
    /\ \A n \in server.shown : n.id < server.next
    /\ record.inst <= server.inst /\ asking.inst <= server.inst

\* Number id, as the key knows it for instance inst, is not another program's.
OwnNumber(inst, id) ==
    inst = server.inst =>
        /\ id < server.next
        /\ \A n \in server.shown : n.id = id => n.by = "pqkey"

OwnInv ==
    /\ OwnNumber(record.inst, record.id)
    /\ OwnNumber(asking.inst, asking.id)
    /\ strayed = FALSE

\* What the request that asks knows at each of its steps.
AskingInv ==
    /\ asking.pc = "idle" => asking = NotAsking
    /\ asking.pc \notin {"idle", "forget"} => asking.inst # 0
    /\ asking.pc \in {"stale", "connected"} => record.inst <= asking.inst
    /\ asking.pc \in {"ask", "record"} => record = NoRecord
    /\ asking.pc \in {"wait", "close"} => record \in {NoRecord, Prompt(asking.inst, asking.id)}

\* A prompt the record has to name, or the request that asks to wait on.
Loose(n) == n \in server.shown /\ n.by = "pqkey" /\ ~n.excused

LooseInv ==
    \A n \in server.shown : Loose(n) =>
        /\ asking.pc \notin {"forget_stale", "ask"}
        /\ asking.pc = "forget" => asking.inst = 0
        /\ asking.pc = "record" => asking.inst = server.inst /\ asking.id = n.id
        /\ asking.pc # "record" => record = Prompt(server.inst, n.id)

PromptInv == PromptTypeOK /\ NumberInv /\ OwnInv /\ AskingInv /\ LooseInv

(* The daemon *)

DaemonPcs == {"-", "acquire", "clean", "clean_info", "handlers", "withdraw", "publish", "serve",
              "unpid", "uninfo", "exit"}
Procs == [what : {"none", "other", "daemon", "zombie"}, pc : DaemonPcs, args : Args,
          term : BOOLEAN, parent : Commands \cup {NoPid}]

ProcTypeOK ==
    /\ proc \in [Pids -> Procs]
    /\ holder \in Pids \cup {NoPid}
    /\ pidFile \in Pids \cup {NoPid}
    /\ info \in [pid : Pids \cup {NoPid}, args : Args]

\* The daemon that is past acquiring the lock is its holder.
HolderInv ==
    /\ holder # NoPid => proc[holder].what = "daemon" /\ proc[holder].pc # "acquire"
    /\ \A p \in Pids : proc[p].what = "daemon" /\ proc[p].pc # "acquire" => holder = p

LockInv == ProcTypeOK /\ HolderInv /\ PidFileOfHolder

CommandPcs == {"state", "free", "pid", "info", "read_info", "signal", "service", "restart", "wait",
               "stopped", "plug", "spawn", "child", "service_start", "service_pid", "service_lock", "done"}
Cmds == [op : {"none", "start", "stop", "replug", "unplug"}, pc : CommandPcs,
         pid : Pids \cup {NoPid}, args : Args]

\* A command that signals or waits for a child has the child's number.
CommandInv ==
    /\ cmd \in [Commands -> Cmds]
    /\ \A c \in Commands : cmd[c].pc \in {"signal", "child"} => cmd[c].pid \in Pids

DaemonInv == LockInv /\ CommandInv
-----------------------------------------------------------------------------
(* What a step of the prompt may leave on the screen *)

\* T shows no more than S does, and nothing of it that was excused is not.
Fewer(T, S) ==
    \A n \in T : \E m \in S : m.id = n.id /\ m.by = n.by /\ (~n.excused => m = n)

\* None of the key's prompts in S with the number id is to be withdrawn yet.
NoneLoose(S, id) == \A n \in S : n.id = id /\ n.by = "pqkey" => n.excused

\* Withdrawing a number takes it off the screen (Without).
LEMMA WithoutFacts ==
    ASSUME NEW S \in SUBSET Notes, NEW id
    PROVE  Without(S, id) \in SUBSET Notes /\ Fewer(Without(S, id), S) /\ NoneLoose(Without(S, id), id)
  BY DEF Without, Fewer, NoneLoose

\* Excusing a number changes nothing else (Excused).
LEMMA ExcusedFacts ==
    ASSUME NEW S \in SUBSET Notes, NEW id
    PROVE  Excused(S, id) \in SUBSET Notes /\ Fewer(Excused(S, id), S) /\ NoneLoose(Excused(S, id), id)
<1> DEFINE E(m) == IF m.id = id /\ m.by = "pqkey" THEN [m EXCEPT !.excused = TRUE] ELSE m
<1>1. ASSUME NEW m \in S
      PROVE  /\ E(m) \in Notes /\ E(m).id = m.id /\ E(m).by = m.by
             /\ ~E(m).excused => E(m) = m
             /\ m.id = id /\ m.by = "pqkey" => E(m).excused
  <2>1. m \in Notes
    OBVIOUS
  <2>2. CASE m.id = id /\ m.by = "pqkey"
    BY <2>1, <2>2 DEF Notes
  <2>3. CASE ~(m.id = id /\ m.by = "pqkey")
    BY <2>1, <2>3 DEF Notes
  <2>4. QED
    BY <2>2, <2>3
<1>2. Excused(S, id) = {E(m) : m \in S}
  BY DEF Excused
<1> HIDE DEF E
<1>3. QED
  BY <1>1, <1>2 DEF Fewer, NoneLoose

\* A server that shows fewer keeps what is known of its numbers.
LEMMA FewerKeeps ==
    ASSUME PromptTypeOK, NumberInv,
           NEW T \in SUBSET Notes, Fewer(T, server.shown), server' = [server EXCEPT !.shown = T]
    PROVE  /\ server' \in [inst : Nat \ {0}, next : Nat \ {0}, shown : SUBSET Notes]
           /\ server'.inst = server.inst /\ server'.next = server.next /\ server'.shown = T
           /\ \A n \in server'.shown : n.id < server'.next
           /\ \A inst, id : OwnNumber(inst, id) => OwnNumber(inst, id)'
           /\ \A n : Loose(n)' => Loose(n)
<1>1. /\ server' \in [inst : Nat \ {0}, next : Nat \ {0}, shown : SUBSET Notes]
      /\ server'.inst = server.inst /\ server'.next = server.next /\ server'.shown = T
  BY DEF PromptTypeOK
<1>2. \A n \in T : n.id < server.next
  BY DEF Fewer, NumberInv
<1>3. ASSUME NEW inst, NEW id, OwnNumber(inst, id) PROVE OwnNumber(inst, id)'
  BY <1>1, <1>3 DEF OwnNumber, Fewer
<1>4. ASSUME NEW n, Loose(n)' PROVE Loose(n)
  BY <1>1, <1>4 DEF Loose, Fewer
<1>5. QED
  BY <1>1, <1>2, <1>3, <1>4

\* A withdrawal, which the server may refuse, leaves nothing of the number to be
\* withdrawn, and nothing of another program's goes with it.
LEMMA CloseFacts ==
    ASSUME PromptInv, NEW id, Close(id),
           asking.inst = server.inst => OwnNumber(asking.inst, id)
    PROVE  /\ \E T \in SUBSET Notes :
                 server' = [server EXCEPT !.shown = T] /\ Fewer(T, server.shown) /\ NoneLoose(T, id)
           /\ strayed' = FALSE
<1>1. server.shown \in SUBSET Notes /\ strayed = FALSE
  BY DEF PromptInv, PromptTypeOK, OwnInv
<1>2. CASE /\ server' = [server EXCEPT !.shown = Without(@, id)]
           /\ strayed' = (strayed \/ (/\ asking.inst = server.inst
                                      /\ \E n \in server.shown : n.id = id /\ n.by = "other"))
  <2>1. ~(/\ asking.inst = server.inst
          /\ \E n \in server.shown : n.id = id /\ n.by = "other")
    BY DEF OwnNumber
  <2>2. strayed' = FALSE
    BY <1>1, <1>2, <2>1
  <2>3. server' = [server EXCEPT !.shown = Without(server.shown, id)]
    BY <1>2
  <2>4. QED
    BY <1>1, <2>2, <2>3, WithoutFacts
<1>3. CASE server' = [server EXCEPT !.shown = Excused(@, id)] /\ UNCHANGED strayed
  <2>1. server' = [server EXCEPT !.shown = Excused(server.shown, id)] /\ strayed' = FALSE
    BY <1>1, <1>3
  <2>2. QED
    BY <1>1, <2>1, ExcusedFacts
<1>4. QED
  BY <1>2, <1>3 DEF Close
-----------------------------------------------------------------------------
(* The prompt's invariant, one lemma for each step *)

\* The prompt begins in it (PromptInit).
LEMMA PromptBegins == PromptInit => PromptInv
<1> SUFFICES ASSUME PromptInit PROVE PromptInv
  OBVIOUS
<1>1. PromptTypeOK
  BY DEF PromptInit, PromptTypeOK, NoRecord, NotAsking, AskingPcs
<1>2. NumberInv /\ OwnInv /\ AskingInv /\ LooseInv
  BY DEF PromptInit, NumberInv, OwnInv, OwnNumber, AskingInv, LooseInv, NoRecord, NotAsking
<1>3. QED
  BY <1>1, <1>2 DEF PromptInv

\* Connecting: what is known is of the instance of the moment or an earlier one.
LEMMA ConnectingKeeps == PromptInv /\ (WithdrawStale \/ Connect) => PromptInv'
<1> SUFFICES ASSUME PromptInv, WithdrawStale \/ Connect PROVE PromptInv'
  OBVIOUS
<1>1. /\ asking.pc = "idle" /\ UNCHANGED <<server, record, strayed>>
      /\ \/ asking' = NotAsking
         \/ asking' = [pc |-> "stale", inst |-> server.inst, id |-> 0]
         \/ asking' = [pc |-> "connected", inst |-> server.inst, id |-> 0]
         \/ asking' = [pc |-> "forget", inst |-> 0, id |-> 0]
  BY DEF WithdrawStale, Connect
<1>2. /\ asking'.pc \in {"idle", "stale", "connected", "forget"} /\ asking'.id = 0
      /\ asking'.inst \in {0, server.inst}
      /\ asking'.pc \in {"stale", "connected"} => asking'.inst = server.inst
      /\ asking'.pc = "idle" => asking' = NotAsking
      /\ asking'.pc = "forget" => asking'.inst = 0
  BY <1>1 DEF NotAsking
<1>3. PromptTypeOK'
  BY <1>1 DEF PromptInv, PromptTypeOK, NotAsking, AskingPcs
<1>4. NumberInv'
  BY <1>1, <1>2 DEF PromptInv, NumberInv, PromptTypeOK
<1>5. OwnInv'
  <2>1. OwnNumber(asking'.inst, 0)
    BY DEF PromptInv, PromptTypeOK, OwnNumber, Notes
  <2>2. QED
    BY <1>1, <1>2, <2>1 DEF PromptInv, OwnInv, OwnNumber
<1>6. AskingInv'
  BY <1>1, <1>2 DEF PromptInv, PromptTypeOK, AskingInv, NumberInv
<1>7. LooseInv'
  BY <1>1, <1>2 DEF PromptInv, LooseInv, Loose
<1>8. QED
  BY <1>3, <1>4, <1>5, <1>6, <1>7 DEF PromptInv

\* A step that withdraws or excuses, and leaves nothing loose or the record as it
\* was, keeps what does not depend on where the request is.
LEMMA FewerStep ==
    ASSUME PromptInv, NEW T \in SUBSET Notes, Fewer(T, server.shown),
           server' = [server EXCEPT !.shown = T], strayed' = FALSE,
           asking' \in [pc : AskingPcs, inst : Nat, id : Nat],
           asking'.inst \in {0, asking.inst}, asking'.id \in {0, asking.id},
           record' \in {record, NoRecord}
    PROVE  PromptTypeOK' /\ NumberInv' /\ OwnInv'
<1>1. PromptTypeOK /\ NumberInv /\ OwnInv
  BY DEF PromptInv
<1>2. /\ server' \in [inst : Nat \ {0}, next : Nat \ {0}, shown : SUBSET Notes]
      /\ server'.inst = server.inst /\ server'.next = server.next /\ server'.shown = T
      /\ \A n \in server'.shown : n.id < server'.next
      /\ \A inst, id : OwnNumber(inst, id) => OwnNumber(inst, id)'
  BY <1>1, FewerKeeps
<1>3. PromptTypeOK'
  BY <1>1, <1>2 DEF PromptTypeOK, NoRecord
<1>4. NumberInv'
  BY <1>1, <1>2 DEF PromptTypeOK, NumberInv, NoRecord
<1>5. OwnInv'
  <2>1. \A inst : OwnNumber(inst, 0)
    BY <1>1 DEF PromptTypeOK, OwnNumber, Notes
  <2>2. OwnNumber(0, asking.id)
    BY <1>1 DEF PromptTypeOK, OwnNumber
  <2>3. OwnNumber(record'.inst, record'.id)
    BY <1>1, <2>1 DEF OwnInv, NoRecord
  <2>4. OwnNumber(asking'.inst, asking'.id)
    BY <1>1, <2>1, <2>2 DEF OwnInv
  <2>5. \A n \in T : \E m \in server.shown : m.id = n.id /\ m.by = n.by
    BY DEF Fewer
  <2>6. QED
    BY <1>2, <2>3, <2>4, <2>5 DEF OwnInv, OwnNumber
<1>6. QED
  BY <1>3, <1>4, <1>5

\* close_stale_prompt: what is left loose is not on the instance connected to,
\* and so is not there at all.
LEMMA CloseStaleKeeps == PromptInv /\ CloseStale => PromptInv'
<1> SUFFICES ASSUME PromptInv, CloseStale PROVE PromptInv'
  OBVIOUS
<1>1. PromptTypeOK /\ NumberInv /\ OwnInv /\ AskingInv /\ LooseInv
  BY DEF PromptInv
<1>2. /\ asking.pc \in {"stale", "connected"} /\ record' = record
      /\ asking'.pc \in {"forget", "forget_stale"}
      /\ asking'.inst = asking.inst /\ asking'.id = asking.id
      /\ asking' \in [pc : AskingPcs, inst : Nat, id : Nat]
  BY <1>1 DEF CloseStale, To, PromptTypeOK, AskingPcs
<1>3. PICK T \in SUBSET Notes :
         /\ server' = [server EXCEPT !.shown = T] /\ Fewer(T, server.shown) /\ strayed' = FALSE
         /\ Matches => NoneLoose(T, record.id)
  <2>1. CASE Matches
    <3>1. asking.inst = server.inst => OwnNumber(asking.inst, record.id)
      BY <1>1, <2>1 DEF Matches, OwnInv
    <3>2. Close(record.id)
      BY <2>1 DEF CloseStale
    <3>3. QED
      BY <3>1, <3>2, CloseFacts
  <2>2. CASE ~Matches
    <3>1. server' = [server EXCEPT !.shown = server.shown] /\ strayed' = FALSE
      BY <1>1, <2>2 DEF CloseStale, PromptTypeOK, OwnInv
    <3>2. Fewer(server.shown, server.shown) /\ server.shown \in SUBSET Notes
      BY <1>1 DEF Fewer, PromptTypeOK
    <3>3. QED
      BY <2>2, <3>1, <3>2
  <2>3. QED
    BY <2>1, <2>2
<1>4. PromptTypeOK' /\ NumberInv' /\ OwnInv'
  BY <1>2, <1>3, FewerStep
<1>5. AskingInv'
  BY <1>1, <1>2 DEF AskingInv
<1>6. ASSUME NEW n \in server'.shown, Loose(n)' PROVE FALSE
  <2>1. Loose(n) /\ server'.shown = T /\ server'.inst = server.inst
    BY <1>1, <1>3, <1>6, FewerKeeps
  <2>2. record = Prompt(server.inst, n.id)
    BY <1>1, <1>2, <2>1 DEF LooseInv, Loose
  <2>3. record.inst = server.inst /\ record.id = n.id
    BY <2>2 DEF Prompt
  <2>4. Matches
    BY <1>1, <1>2, <2>3 DEF Matches, AskingInv, NumberInv, PromptTypeOK, NoRecord
  <2>5. QED
    BY <1>3, <1>6, <2>1, <2>3, <2>4 DEF NoneLoose, Loose
<1>7. LooseInv'
  BY <1>6 DEF LooseInv
<1>8. QED
  BY <1>4, <1>5, <1>7 DEF PromptInv

\* The record goes once nothing is left that it names.
LEMMA ForgetStaleKeeps == PromptInv /\ ForgetStale => PromptInv'
<1> SUFFICES ASSUME PromptInv, ForgetStale PROVE PromptInv'
  OBVIOUS
<1>1. PromptTypeOK /\ NumberInv /\ OwnInv /\ AskingInv /\ LooseInv
  BY DEF PromptInv
<1>2. /\ asking.pc = "forget_stale" /\ record' = NoRecord /\ UNCHANGED <<server, strayed>>
      /\ asking'.pc = "ask" /\ asking'.inst = asking.inst /\ asking'.id = asking.id
      /\ asking' \in [pc : AskingPcs, inst : Nat, id : Nat]
  BY <1>1 DEF ForgetStale, To, PromptTypeOK, AskingPcs
<1>3. PromptTypeOK' /\ NumberInv' /\ OwnInv'
  <2>1. server' = [server EXCEPT !.shown = server.shown] /\ strayed' = FALSE
    BY <1>1, <1>2 DEF PromptTypeOK, OwnInv
  <2>2. Fewer(server.shown, server.shown) /\ server.shown \in SUBSET Notes
    BY <1>1 DEF Fewer, PromptTypeOK
  <2>3. QED
    BY <1>2, <2>1, <2>2, FewerStep
<1>4. AskingInv'
  BY <1>1, <1>2 DEF AskingInv
<1>5. LooseInv'
  BY <1>1, <1>2 DEF LooseInv, Loose
<1>6. QED
  BY <1>3, <1>4, <1>5 DEF PromptInv

\* A server that shows one more keeps what is known of the numbers it gave before.
LEMMA ShownFacts ==
    ASSUME PromptTypeOK, NumberInv, NEW by \in {"pqkey", "other"}
    PROVE  /\ Shown(server, by) \in [inst : Nat \ {0}, next : Nat \ {0}, shown : SUBSET Notes]
           /\ Shown(server, by).inst = server.inst /\ Shown(server, by).next = server.next + 1
           /\ Shown(server, by).shown = server.shown \cup {Note(server.next, by)}
<1> DEFINE new == Note(server.next, by)
<1>1. new \in Notes
  BY DEF Note, Notes, PromptTypeOK
<1>2. Shown(server, by) = [server EXCEPT !.next = server.next + 1, !.shown = server.shown \cup {new}]
  BY DEF Shown, PromptTypeOK
<1> HIDE DEF new
<1>3. /\ Shown(server, by) \in [inst : Nat \ {0}, next : Nat \ {0}, shown : SUBSET Notes]
      /\ Shown(server, by).inst = server.inst /\ Shown(server, by).next = server.next + 1
      /\ Shown(server, by).shown = server.shown \cup {new}
  <2>1. server.next + 1 \in Nat \ {0} /\ server.shown \cup {new} \in SUBSET Notes
    BY <1>1 DEF PromptTypeOK
  <2>2. QED
    BY <1>2, <2>1 DEF PromptTypeOK
<1>4. QED
  BY <1>3 DEF new

\* notify: the number is new, and the key's own if the server is the one
\* connected to; the new prompt is the only one that is loose.
LEMMA NotifyKeeps == PromptInv /\ Notify => PromptInv'
<1> SUFFICES ASSUME PromptInv, Notify PROVE PromptInv'
  OBVIOUS
<1>1. PromptTypeOK /\ NumberInv /\ OwnInv /\ AskingInv /\ LooseInv
  BY DEF PromptInv
<1>2. asking.pc = "ask" /\ record' = record /\ strayed' = strayed
  BY DEF Notify
<1>3. CASE To("forget") /\ UNCHANGED server
  <2>1. /\ asking'.pc = "forget" /\ asking'.inst = asking.inst /\ asking'.id = asking.id
        /\ asking' \in [pc : AskingPcs, inst : Nat, id : Nat]
    BY <1>1, <1>3 DEF To, PromptTypeOK, AskingPcs
  <2>2. PromptTypeOK' /\ NumberInv' /\ OwnInv'
    BY <1>1, <1>2, <1>3, <2>1 DEF PromptTypeOK, NumberInv, OwnInv, OwnNumber
  <2>3. AskingInv' /\ LooseInv'
    BY <1>1, <1>2, <1>3, <2>1 DEF AskingInv, LooseInv, Loose
  <2>4. QED
    BY <2>2, <2>3 DEF PromptInv
<1>4. CASE /\ LET after == Shown(server, "pqkey")
              IN  server' = IF asking.inst = server.inst THEN after
                            ELSE [after EXCEPT !.shown = Excused(@, server.next)]
           /\ asking' = [asking EXCEPT !.pc = "record", !.id = server.next]
  <2> DEFINE after == Shown(server, "pqkey")
             new == Note(server.next, "pqkey")
  <2>1. /\ after \in [inst : Nat \ {0}, next : Nat \ {0}, shown : SUBSET Notes]
        /\ after.inst = server.inst /\ after.next = server.next + 1
        /\ after.shown = server.shown \cup {new}
    BY <1>1, ShownFacts
  <2>2. /\ asking'.pc = "record" /\ asking'.inst = asking.inst /\ asking'.id = server.next
        /\ asking' \in [pc : AskingPcs, inst : Nat, id : Nat]
    BY <1>1, <1>4 DEF PromptTypeOK, AskingPcs
  <2>3. new.id = server.next /\ new.by = "pqkey"
    BY DEF Note
  <2>4. IF asking.inst = server.inst THEN server' = after
        ELSE server' = [after EXCEPT !.shown = Excused(after.shown, server.next)]
    BY <1>4
  <2> HIDE DEF after, new
  <2>5. /\ server' \in [inst : Nat \ {0}, next : Nat \ {0}, shown : SUBSET Notes]
        /\ server'.inst = server.inst /\ server'.next = server.next + 1
        /\ Fewer(server'.shown, server.shown \cup {new})
        /\ asking.inst # server.inst => NoneLoose(server'.shown, server.next)
    <3>1. CASE asking.inst = server.inst
      BY <2>1, <2>4, <3>1 DEF Fewer
    <3>2. CASE asking.inst # server.inst
      <4>1. server' = [after EXCEPT !.shown = Excused(after.shown, server.next)]
        BY <2>4, <3>2
      <4>2. /\ Excused(after.shown, server.next) \in SUBSET Notes
            /\ Fewer(Excused(after.shown, server.next), after.shown)
            /\ NoneLoose(Excused(after.shown, server.next), server.next)
        BY <2>1, ExcusedFacts
      <4>3. QED
        BY <2>1, <4>1, <4>2
    <3>3. QED
      BY <3>1, <3>2
  <2>6. PromptTypeOK'
    BY <1>1, <1>2, <2>2, <2>5 DEF PromptTypeOK
  <2>7. NumberInv'
    <3>1. \A n \in server.shown \cup {new} : n.id < server.next + 1
      BY <1>1, <2>3 DEF PromptTypeOK, NumberInv, Notes
    <3>2. QED
      BY <1>1, <1>2, <2>2, <2>5, <3>1 DEF PromptTypeOK, NumberInv, Fewer
  <2>8. OwnNumber(record.inst, record.id)'
    BY <1>1, <1>2, <2>3, <2>5 DEF PromptTypeOK, OwnInv, OwnNumber, Fewer
  <2>9. OwnNumber(asking.inst, asking.id)'
    BY <1>1, <2>2, <2>3, <2>5 DEF PromptTypeOK, NumberInv, OwnNumber, Fewer
  <2>10. AskingInv'
    BY <1>1, <1>2, <2>2 DEF AskingInv
  <2>11. ASSUME NEW n \in server'.shown, Loose(n)' PROVE asking'.inst = server'.inst /\ asking'.id = n.id
    <3>1. n \in server.shown \cup {new} /\ n.by = "pqkey" /\ ~n.excused
      BY <2>5, <2>11 DEF Loose, Fewer
    <3>2. n \notin server.shown
      BY <1>1, <1>2, <3>1 DEF LooseInv, Loose
    <3>3. n.id = server.next
      BY <2>3, <3>1, <3>2
    <3>4. QED
      BY <2>2, <2>5, <3>1, <3>3 DEF NoneLoose
  <2>12. LooseInv'
    BY <2>2, <2>11 DEF LooseInv
  <2>13. QED
    <3>1. OwnInv'
      BY <1>1, <1>2, <2>8, <2>9 DEF OwnInv
    <3>2. QED
      BY <2>6, <2>7, <2>10, <2>12, <3>1 DEF PromptInv
<1>5. QED
  BY <1>3, <1>4 DEF Notify

\* record_prompt: the prompt that is waited on is the one recorded, if any is.
LEMMA RecordPromptKeeps == PromptInv /\ RecordPrompt => PromptInv'
<1> SUFFICES ASSUME PromptInv, RecordPrompt PROVE PromptInv'
  OBVIOUS
<1>1. PromptTypeOK /\ NumberInv /\ OwnInv /\ AskingInv /\ LooseInv
  BY DEF PromptInv
<1>2. /\ asking.pc = "record" /\ strayed' = strayed
      /\ asking'.pc = "wait" /\ asking'.inst = asking.inst /\ asking'.id = asking.id
      /\ asking' \in [pc : AskingPcs, inst : Nat, id : Nat]
  BY <1>1 DEF RecordPrompt, To, PromptTypeOK, AskingPcs
<1>3. CASE record' = Prompt(asking.inst, asking.id) /\ UNCHANGED server
  <2>1. record'.inst = asking.inst /\ record'.id = asking.id /\ record' \in [inst : Nat, id : Nat]
    BY <1>1, <1>3 DEF Prompt, PromptTypeOK
  <2>2. PromptTypeOK' /\ NumberInv' /\ OwnInv'
    BY <1>1, <1>2, <1>3, <2>1 DEF PromptTypeOK, NumberInv, OwnInv, OwnNumber
  <2>3. AskingInv'
    BY <1>1, <1>2, <1>3 DEF AskingInv
  <2>4. LooseInv'
    BY <1>1, <1>2, <1>3 DEF LooseInv, Loose
  <2>5. QED
    BY <2>2, <2>3, <2>4 DEF PromptInv
<1>4. CASE record' = record /\ server' = [server EXCEPT !.shown = Excused(@, asking.id)]
  <2> DEFINE T == Excused(server.shown, asking.id)
  <2>1. T \in SUBSET Notes /\ Fewer(T, server.shown) /\ NoneLoose(T, asking.id)
    BY <1>1, ExcusedFacts DEF PromptTypeOK
  <2>2. server' = [server EXCEPT !.shown = T] /\ strayed' = FALSE
    BY <1>1, <1>2, <1>4 DEF OwnInv
  <2> HIDE DEF T
  <2>3. PromptTypeOK' /\ NumberInv' /\ OwnInv'
    BY <1>2, <1>4, <2>1, <2>2, FewerStep
  <2>4. AskingInv'
    BY <1>1, <1>2, <1>4 DEF AskingInv
  <2>5. ASSUME NEW n \in server'.shown, Loose(n)' PROVE FALSE
    <3>1. Loose(n) /\ server'.shown = T
      BY <1>1, <2>1, <2>2, <2>5, FewerKeeps
    <3>2. n.id = asking.id
      BY <1>1, <1>2, <3>1 DEF LooseInv, Loose
    <3>3. QED
      BY <2>1, <3>1, <3>2 DEF NoneLoose, Loose
  <2>6. LooseInv'
    BY <2>5 DEF LooseInv
  <2>7. QED
    BY <2>3, <2>4, <2>6 DEF PromptInv
<1>5. QED
  BY <1>3, <1>4 DEF RecordPrompt

\* A prompt that was waited on and is withdrawn, or gone, leaves nothing loose.
LEMMA PromptEnds ==
    ASSUME PromptInv, asking.pc \in {"wait", "close"}, record' = record, strayed' = FALSE, To("forget"),
           NEW T \in SUBSET Notes, server' = [server EXCEPT !.shown = T],
           Fewer(T, server.shown), NoneLoose(T, asking.id)
    PROVE  PromptInv'
<1>1. PromptTypeOK /\ NumberInv /\ OwnInv /\ AskingInv /\ LooseInv
  BY DEF PromptInv
<1>2. /\ asking'.pc = "forget" /\ asking'.inst = asking.inst /\ asking'.id = asking.id
      /\ asking' \in [pc : AskingPcs, inst : Nat, id : Nat]
  BY <1>1 DEF To, PromptTypeOK, AskingPcs
<1>3. PromptTypeOK' /\ NumberInv' /\ OwnInv'
  BY <1>2, FewerStep
<1>4. AskingInv'
  BY <1>1, <1>2 DEF AskingInv
<1>5. ASSUME NEW n \in server'.shown, Loose(n)' PROVE FALSE
  <2>1. Loose(n) /\ server'.shown = T
    BY <1>1, <1>5, FewerKeeps
  <2>2. record = Prompt(server.inst, n.id)
    BY <1>1, <2>1 DEF LooseInv, Loose
  <2>3. record # NoRecord
    BY <1>1, <2>2 DEF Prompt, NoRecord, PromptTypeOK
  <2>4. record = Prompt(asking.inst, asking.id)
    BY <1>1, <2>3 DEF AskingInv
  <2>5. n.id = asking.id
    BY <2>2, <2>4 DEF Prompt
  <2>6. QED
    BY <2>1, <2>5 DEF NoneLoose, Loose
<1>6. LooseInv'
  BY <1>5 DEF LooseInv
<1>7. QED
  BY <1>3, <1>4, <1>6 DEF PromptInv

\* The prompt is answered, withdrawn or gone.
LEMMA AnswerKeeps == PromptInv /\ (Answer \/ ClosePrompt) => PromptInv'
<1> SUFFICES ASSUME PromptInv, Answer \/ ClosePrompt PROVE PromptInv'
  OBVIOUS
<1>1. PromptTypeOK /\ NumberInv /\ OwnInv /\ AskingInv /\ LooseInv
  BY DEF PromptInv
<1>2. record' = record
  BY DEF Answer, ClosePrompt
<1>3. CASE asking.pc = "wait" /\ To("close") /\ UNCHANGED <<server, strayed>>
  <2>1. /\ asking'.pc = "close" /\ asking'.inst = asking.inst /\ asking'.id = asking.id
        /\ asking' \in [pc : AskingPcs, inst : Nat, id : Nat]
    BY <1>1, <1>3 DEF To, PromptTypeOK, AskingPcs
  <2>2. PromptTypeOK' /\ NumberInv' /\ OwnInv'
    BY <1>1, <1>2, <1>3, <2>1 DEF PromptTypeOK, NumberInv, OwnInv, OwnNumber
  <2>3. AskingInv' /\ LooseInv'
    BY <1>1, <1>2, <1>3, <2>1 DEF AskingInv, LooseInv, Loose
  <2>4. QED
    BY <2>2, <2>3 DEF PromptInv
<1>4. CASE /\ asking.pc = "wait" /\ To("forget") /\ UNCHANGED strayed
           /\ server' = [server EXCEPT !.shown = Without(@, asking.id)]
  <2> DEFINE T == Without(server.shown, asking.id)
  <2>1. T \in SUBSET Notes /\ Fewer(T, server.shown) /\ NoneLoose(T, asking.id)
    BY <1>1, WithoutFacts DEF PromptTypeOK
  <2>2. server' = [server EXCEPT !.shown = T] /\ strayed' = FALSE
    BY <1>1, <1>4 DEF OwnInv
  <2> HIDE DEF T
  <2>3. QED
    BY <1>2, <1>4, <2>1, <2>2, PromptEnds
<1>5. CASE ClosePrompt
  <2>1. asking.pc = "close" /\ To("forget") /\ Close(asking.id)
    BY <1>5 DEF ClosePrompt
  <2>2. asking.inst = server.inst => OwnNumber(asking.inst, asking.id)
    BY <1>1 DEF OwnInv
  <2>3. QED
    BY <1>2, <2>1, <2>2, CloseFacts, PromptEnds
<1>6. QED
  BY <1>3, <1>4, <1>5 DEF Answer

\* The end of a request leaves nothing loose: what it asked about is gone, and what
\* it did not reach is excused.
LEMMA ForgetKeeps == PromptInv /\ Forget => PromptInv'
<1> SUFFICES ASSUME PromptInv, Forget PROVE PromptInv'
  OBVIOUS
<1>1. PromptTypeOK /\ NumberInv /\ OwnInv /\ AskingInv /\ LooseInv
  BY DEF PromptInv
<1>2. /\ asking.pc = "forget" /\ record' = NoRecord /\ strayed' = FALSE
      /\ asking' = NotAsking /\ asking'.pc = "idle" /\ asking'.inst = 0 /\ asking'.id = 0
      /\ asking' \in [pc : AskingPcs, inst : Nat, id : Nat]
  BY <1>1 DEF Forget, NotAsking, AskingPcs, OwnInv
<1>3. PICK T \in SUBSET Notes :
         /\ server' = [server EXCEPT !.shown = T] /\ Fewer(T, server.shown)
         /\ asking.inst = 0 /\ record.inst = server.inst => NoneLoose(T, record.id)
  <2>1. CASE asking.inst = 0 /\ record.inst = server.inst
    <3>1. server' = [server EXCEPT !.shown = Excused(server.shown, record.id)]
      BY <2>1 DEF Forget
    <3>2. QED
      BY <1>1, <3>1, ExcusedFacts DEF PromptTypeOK
  <2>2. CASE ~(asking.inst = 0 /\ record.inst = server.inst)
    <3>1. server' = [server EXCEPT !.shown = server.shown]
      BY <1>1, <2>2 DEF Forget, PromptTypeOK
    <3>2. Fewer(server.shown, server.shown) /\ server.shown \in SUBSET Notes
      BY <1>1 DEF Fewer, PromptTypeOK
    <3>3. QED
      BY <2>2, <3>1, <3>2
  <2>3. QED
    BY <2>1, <2>2
<1>4. PromptTypeOK' /\ NumberInv' /\ OwnInv'
  BY <1>2, <1>3, FewerStep
<1>5. AskingInv'
  BY <1>2 DEF AskingInv
<1>6. ASSUME NEW n \in server'.shown, Loose(n)' PROVE FALSE
  <2>1. Loose(n) /\ server'.shown = T
    BY <1>1, <1>3, <1>6, FewerKeeps
  <2>2. asking.inst = 0 /\ record = Prompt(server.inst, n.id)
    BY <1>1, <1>2, <2>1 DEF LooseInv, Loose
  <2>3. record.inst = server.inst /\ record.id = n.id
    BY <2>2 DEF Prompt
  <2>4. QED
    BY <1>3, <2>1, <2>2, <2>3 DEF NoneLoose, Loose
<1>7. LooseInv'
  BY <1>6 DEF LooseInv
<1>8. QED
  BY <1>4, <1>5, <1>7 DEF PromptInv

\* A daemon that is killed while it asks leaves a prompt that is recorded or excused.
LEMMA KilledKeeps == PromptInv /\ AskerKilled => PromptInv'
<1> SUFFICES ASSUME PromptInv, AskerKilled PROVE PromptInv'
  OBVIOUS
<1>1. PromptTypeOK /\ NumberInv /\ OwnInv /\ AskingInv /\ LooseInv
  BY DEF PromptInv
<1>2. /\ record' = record /\ strayed' = FALSE
      /\ asking' = NotAsking /\ asking'.pc = "idle" /\ asking'.inst = 0 /\ asking'.id = 0
      /\ asking' \in [pc : AskingPcs, inst : Nat, id : Nat]
  BY <1>1 DEF AskerKilled, NotAsking, AskingPcs, OwnInv
<1>3. PICK T \in SUBSET Notes :
         /\ server' = [server EXCEPT !.shown = T] /\ Fewer(T, server.shown)
         /\ asking.pc = "record" => NoneLoose(T, asking.id)
  <2>1. CASE asking.pc = "record"
    <3>1. server' = [server EXCEPT !.shown = Excused(server.shown, asking.id)]
      BY <2>1 DEF AskerKilled
    <3>2. QED
      BY <1>1, <3>1, ExcusedFacts DEF PromptTypeOK
  <2>2. CASE asking.pc # "record"
    <3>1. server' = [server EXCEPT !.shown = server.shown]
      BY <1>1, <2>2 DEF AskerKilled, PromptTypeOK
    <3>2. Fewer(server.shown, server.shown) /\ server.shown \in SUBSET Notes
      BY <1>1 DEF Fewer, PromptTypeOK
    <3>3. QED
      BY <2>2, <3>1, <3>2
  <2>3. QED
    BY <2>1, <2>2
<1>4. PromptTypeOK' /\ NumberInv' /\ OwnInv'
  BY <1>2, <1>3, FewerStep
<1>5. AskingInv'
  BY <1>2 DEF AskingInv
<1>6. ASSUME NEW n \in server'.shown, Loose(n)' PROVE record' = Prompt(server'.inst, n.id)
  <2>1. Loose(n) /\ server'.shown = T /\ server'.inst = server.inst
    BY <1>1, <1>3, <1>6, FewerKeeps
  <2>2. asking.pc # "record"
    BY <1>1, <1>3, <1>6, <2>1 DEF LooseInv, Loose, NoneLoose
  <2>3. QED
    BY <1>1, <1>2, <2>1, <2>2 DEF LooseInv, Loose
<1>7. LooseInv'
  BY <1>2, <1>6 DEF LooseInv
<1>8. QED
  BY <1>4, <1>5, <1>7 DEF PromptInv

\* Other programs, the user and a server that is replaced.
LEMMA ServerKeeps == PromptInv /\ ServerSteps => PromptInv'
<1> SUFFICES ASSUME PromptInv, ServerSteps PROVE PromptInv'
  OBVIOUS
<1>1. PromptTypeOK /\ NumberInv /\ OwnInv /\ AskingInv /\ LooseInv
  BY DEF PromptInv
<1>2. record' = record /\ asking' = asking /\ strayed' = strayed
  BY DEF ServerSteps, OtherNotifies, Dismissed, Replaced
<1>3. AskingInv'
  BY <1>1, <1>2 DEF AskingInv
<1>4. CASE OtherNotifies
  <2> DEFINE new == Note(server.next, "other")
  <2>1. /\ server' \in [inst : Nat \ {0}, next : Nat \ {0}, shown : SUBSET Notes]
        /\ server'.inst = server.inst /\ server'.next = server.next + 1
        /\ server'.shown = server.shown \cup {new}
    BY <1>1, <1>4, ShownFacts DEF OtherNotifies
  <2>2. new.id = server.next /\ new.by = "other"
    BY DEF Note
  <2> HIDE DEF new
  <2>3. PromptTypeOK'
    BY <1>1, <1>2, <2>1 DEF PromptTypeOK
  <2>4. NumberInv'
    <3>1. \A n \in server.shown \cup {new} : n.id < server.next + 1
      BY <1>1, <2>2 DEF PromptTypeOK, NumberInv, Notes
    <3>2. QED
      BY <1>1, <1>2, <2>1, <3>1 DEF PromptTypeOK, NumberInv
  <2>5. OwnInv'
    <3>1. OwnNumber(record.inst, record.id)'
      BY <1>1, <1>2, <2>1, <2>2 DEF OwnInv, OwnNumber, PromptTypeOK
    <3>2. OwnNumber(asking.inst, asking.id)'
      BY <1>1, <1>2, <2>1, <2>2 DEF OwnInv, OwnNumber, PromptTypeOK
    <3>3. QED
      BY <1>1, <1>2, <3>1, <3>2 DEF OwnInv
  <2>6. LooseInv'
    BY <1>1, <1>2, <2>1, <2>2 DEF LooseInv, Loose
  <2>7. QED
    BY <1>3, <2>3, <2>4, <2>5, <2>6 DEF PromptInv
<1>5. CASE Dismissed
  <2>1. PICK m \in server.shown : server' = [server EXCEPT !.shown = Without(server.shown, m.id)]
    BY <1>5 DEF Dismissed
  <2> DEFINE T == Without(server.shown, m.id)
  <2>2. T \in SUBSET Notes /\ Fewer(T, server.shown)
    BY <1>1, WithoutFacts DEF PromptTypeOK
  <2>3. server' = [server EXCEPT !.shown = T] /\ strayed' = FALSE
    BY <1>1, <1>2, <2>1 DEF OwnInv
  <2> HIDE DEF T
  <2>4. PromptTypeOK' /\ NumberInv' /\ OwnInv'
    BY <1>1, <1>2, <2>2, <2>3, FewerStep DEF PromptTypeOK
  <2>5. server'.inst = server.inst /\ \A n : Loose(n)' => Loose(n)
    BY <1>1, <2>2, <2>3, FewerKeeps
  <2>6. LooseInv'
    BY <1>1, <1>2, <2>5 DEF LooseInv, Loose
  <2>7. QED
    BY <1>3, <2>4, <2>6 DEF PromptInv
<1>6. CASE Replaced
  <2>1. server' = [inst |-> server.inst + 1, next |-> 1, shown |-> {}]
    BY <1>6 DEF Replaced
  <2>2. PromptTypeOK' /\ NumberInv'
    BY <1>1, <1>2, <2>1 DEF PromptTypeOK, NumberInv
  <2>3. record'.inst # server'.inst /\ asking'.inst # server'.inst
    BY <1>1, <1>2, <2>1 DEF PromptTypeOK, NumberInv
  <2>4. OwnInv'
    BY <1>1, <1>2, <2>3 DEF OwnInv, OwnNumber
  <2>5. LooseInv'
    BY <2>1 DEF LooseInv
  <2>6. QED
    BY <1>3, <2>2, <2>4, <2>5 DEF PromptInv
<1>7. QED
  BY <1>4, <1>5, <1>6 DEF ServerSteps

\* The steps of the request that asks.
LEMMA AskingKeeps == PromptInv /\ Asking => PromptInv'
  BY CloseStaleKeeps, ForgetStaleKeeps, NotifyKeeps, RecordPromptKeeps, AnswerKeeps, ForgetKeeps DEF Asking

\* Nothing of the prompt's changes.
LEMMA PromptStutters == PromptInv /\ UNCHANGED promptVars => PromptInv'
  BY DEF promptVars, PromptInv, PromptTypeOK, NumberInv, OwnInv, OwnNumber, AskingInv, LooseInv, Loose
-----------------------------------------------------------------------------
(* What the steps do to the lock and the files *)

\* The daemon that holds the lock goes on, and publishes or removes its own files.
LEMMA HolderGoes ==
    ASSUME LockInv, NEW p \in Pids, proc[p].what = "daemon", proc[p].pc # "acquire",
           NEW q \in DaemonPcs, q \notin {"acquire", "clean"}, Goes(p, q), holder' = holder,
           pidFile' \in {NoPid, p} \/ (pidFile' = pidFile /\ proc[p].pc # "clean"),
           \/ info' \in {NoInfo, [pid |-> p, args |-> proc[p].args]}
           \/ info' = info /\ (proc[p].pc \in {"clean", "clean_info"} => q = "clean_info")
    PROVE  LockInv'
<1>1. ProcTypeOK /\ HolderInv /\ PidFileOfHolder /\ holder = p
  BY DEF LockInv, HolderInv
<1>2. /\ proc' \in [Pids -> Procs] /\ proc'[p].pc = q /\ proc'[p].what = "daemon"
      /\ proc'[p].args = proc[p].args /\ \A r \in Pids \ {p} : proc'[r] = proc[r]
  BY <1>1 DEF ProcTypeOK, Procs, Goes
<1>3. p # NoPid
  BY DaemonAssumption
<1>4. ProcTypeOK'
  <2>1. NoInfo \in [pid : Pids \cup {NoPid}, args : Args]
    BY DaemonAssumption DEF NoInfo
  <2>2. [pid |-> p, args |-> proc[p].args] \in [pid : Pids \cup {NoPid}, args : Args]
    BY <1>1 DEF ProcTypeOK, Procs
  <2>3. QED
    BY <1>1, <1>2, <2>1, <2>2 DEF ProcTypeOK
<1>5. HolderInv'
  BY <1>1, <1>2 DEF HolderInv
<1>6. PidFileOfHolder'
  BY <1>1, <1>2, <1>3 DEF PidFileOfHolder
<1>7. QED
  BY <1>4, <1>5, <1>6 DEF LockInv

\* A daemon that is not there, or that has not acquired the lock, has no part in
\* it: another process may take its number.
LEMMA OthersReplaced ==
    ASSUME LockInv, NEW p \in Pids, proc[p].what # "daemon", NEW r \in Procs,
           r.what = "daemon" => r.pc = "acquire",
           proc' = [proc EXCEPT ![p] = r], UNCHANGED <<holder, files>>
    PROVE  LockInv'
<1>1. ProcTypeOK /\ HolderInv /\ PidFileOfHolder
  BY DEF LockInv
<1>2. holder # p
  BY <1>1, DaemonAssumption DEF HolderInv
<1>3. proc' \in [Pids -> Procs] /\ proc'[p] = r /\ \A t \in Pids \ {p} : proc'[t] = proc[t]
  BY <1>1 DEF ProcTypeOK
<1>4. ProcTypeOK'
  BY <1>1, <1>3 DEF ProcTypeOK, files
<1>5. HolderInv' /\ PidFileOfHolder'
  BY <1>1, <1>2, <1>3 DEF HolderInv, PidFileOfHolder, ProcTypeOK, files
<1>6. QED
  BY <1>4, <1>5 DEF LockInv

\* A process that ends gives up the lock (Ended).
LEMMA EndedKeeps ==
    ASSUME LockInv, NEW p \in Pids, NEW failed, Ended(p, failed), UNCHANGED files
    PROVE  LockInv'
<1>1. ProcTypeOK /\ HolderInv /\ PidFileOfHolder
  BY DEF LockInv
<1> DEFINE r == Remains(p)
<1>2. r \in Procs /\ r.what # "daemon"
  <2>1. Gone \in Procs /\ Gone.what = "none"
    BY DaemonAssumption DEF Gone, Procs, DaemonPcs
  <2>2. ASSUME NEW c \in Commands
        PROVE  /\ [Gone EXCEPT !.what = "zombie", !.parent = c] \in Procs
               /\ [Gone EXCEPT !.what = "zombie", !.parent = c].what = "zombie"
    BY <2>1 DEF Procs
  <2>3. QED
    BY <2>1, <2>2 DEF Remains
<1> HIDE DEF r
<1>3. proc' \in [Pids -> Procs] /\ proc'[p] = r /\ \A t \in Pids \ {p} : proc'[t] = proc[t]
  BY <1>1, <1>2 DEF ProcTypeOK, Ended, r
<1>4. holder' = IF holder = p THEN NoPid ELSE holder
  BY DEF Ended
<1>5. ProcTypeOK'
  BY <1>1, <1>3, <1>4 DEF ProcTypeOK, files
<1>6. HolderInv'
  BY <1>1, <1>2, <1>3, <1>4, DaemonAssumption DEF HolderInv, ProcTypeOK
<1>7. PidFileOfHolder'
  BY <1>1, <1>3, <1>4 DEF PidFileOfHolder, ProcTypeOK, files
<1>8. QED
  BY <1>5, <1>6, <1>7 DEF LockInv

\* A process that is killed, too, with what it was asking (Dies).
LEMMA DiesKeeps ==
    ASSUME LockInv, PromptInv, NEW p \in Pids, Dies(p), UNCHANGED files
    PROVE  LockInv' /\ PromptInv'
  BY EndedKeeps, KilledKeeps, PromptStutters DEF Dies

\* SIGTERM (Terminated).
LEMMA TerminatedKeeps ==
    ASSUME LockInv, PromptInv, NEW p \in Pids, Terminated(p), UNCHANGED files
    PROVE  LockInv' /\ PromptInv'
<1>1. ProcTypeOK /\ HolderInv /\ PidFileOfHolder
  BY DEF LockInv
<1>2. CASE proc' = [proc EXCEPT ![p].term = TRUE] /\ UNCHANGED <<lock, main, promptVars>>
  <2>1. /\ proc' \in [Pids -> Procs] /\ proc'[p].what = proc[p].what /\ proc'[p].pc = proc[p].pc
        /\ proc'[p].args = proc[p].args /\ \A t \in Pids \ {p} : proc'[t] = proc[t]
    BY <1>1, <1>2 DEF ProcTypeOK, Procs
  <2>2. ProcTypeOK'
    BY <1>1, <1>2, <2>1 DEF ProcTypeOK, files, lock
  <2>3. HolderInv' /\ PidFileOfHolder'
    BY <1>1, <1>2, <2>1 DEF HolderInv, PidFileOfHolder, ProcTypeOK, files, lock
  <2>4. QED
    BY <1>2, <2>2, <2>3, PromptStutters DEF LockInv
<1>3. CASE Dies(p)
  BY <1>3, DiesKeeps
<1>4. CASE UNCHANGED <<proc, lock, main, promptVars>>
  BY <1>1, <1>4, PromptStutters DEF LockInv, ProcTypeOK, HolderInv, PidFileOfHolder, files, lock
<1>5. QED
  BY <1>2, <1>3, <1>4 DEF Terminated
-----------------------------------------------------------------------------
(* The invariant, one lemma for the steps of each actor *)

\* A step that leaves the commands alone.
LEMMA CommandStutters == CommandInv /\ UNCHANGED cmd => CommandInv'
  BY DEF CommandInv

\* The steps of a daemon.
LEMMA RunsKeep ==
    ASSUME DaemonInv, PromptInv, NEW p \in Pids, Runs(p) \/ Fails(p) \/ Ask(p)
    PROVE  DaemonInv' /\ PromptInv'
<1>1. LockInv /\ CommandInv
  BY DEF DaemonInv
<1>2. CommandInv'
  BY <1>1, CommandStutters DEF Runs, Acquire, Clean, CleanInfo, Open, Publish, PublishPid, Answering,
        StopsServing, UnPid, UnInfo, Exit, Fails, Ask
<1>3. ASSUME LockInv', PromptInv' PROVE DaemonInv' /\ PromptInv'
  BY <1>2, <1>3 DEF DaemonInv
<1>4. CASE Acquire(p)
  <2>1. PromptInv'
    BY <1>4, PromptStutters DEF Acquire
  <2>2. CASE holder # NoPid /\ Ended(p, FALSE)
    BY <1>1, <1>3, <1>4, <2>1, <2>2, EndedKeeps DEF Acquire
  <2>3. CASE holder = NoPid /\ holder' = p /\ Goes(p, "clean")
    <3>1. ProcTypeOK /\ HolderInv
      BY <1>1 DEF LockInv
    <3>2. /\ proc' \in [Pids -> Procs] /\ proc'[p].pc = "clean" /\ proc'[p].what = "daemon"
          /\ \A r \in Pids \ {p} : proc'[r] = proc[r]
      BY <1>4, <2>3, <3>1 DEF ProcTypeOK, Procs, DaemonPcs, Goes, Acquire, At
    <3>3. ProcTypeOK' /\ PidFileOfHolder'
      BY <1>4, <2>3, <3>1, <3>2 DEF ProcTypeOK, PidFileOfHolder, Acquire, files
    <3>4. HolderInv'
      BY <2>3, <3>1, <3>2, DaemonAssumption DEF HolderInv
    <3>5. QED
      BY <1>3, <2>1, <3>3, <3>4 DEF LockInv
  <2>4. QED
    BY <1>4, <2>2, <2>3 DEF Acquire
<1>5. CASE Clean(p) \/ CleanInfo(p) \/ Publish(p) \/ PublishPid(p) \/ StopsServing(p) \/ UnPid(p) \/ UnInfo(p)
  <2>1. PromptInv'
    BY <1>5, PromptStutters DEF Clean, CleanInfo, Publish, PublishPid, StopsServing, UnPid, UnInfo
  <2>2. proc[p].what = "daemon" /\ holder' = holder
    BY <1>5 DEF Clean, CleanInfo, Publish, PublishPid, StopsServing, UnPid, UnInfo, At, lock
  <2>3. CASE Clean(p)
    BY <1>1, <1>3, <2>1, <2>2, <2>3, HolderGoes DEF Clean, At, DaemonPcs
  <2>4. CASE CleanInfo(p)
    BY <1>1, <1>3, <2>1, <2>2, <2>4, HolderGoes DEF CleanInfo, At, DaemonPcs
  <2>5. CASE Publish(p)
    BY <1>1, <1>3, <2>1, <2>2, <2>5, HolderGoes DEF Publish, At, DaemonPcs
  <2>6. CASE PublishPid(p)
    BY <1>1, <1>3, <2>1, <2>2, <2>6, HolderGoes DEF PublishPid, At, DaemonPcs
  <2>7. CASE StopsServing(p)
    BY <1>1, <1>3, <2>1, <2>2, <2>7, HolderGoes DEF StopsServing, At, DaemonPcs, files
  <2>8. CASE UnPid(p)
    BY <1>1, <1>3, <2>1, <2>2, <2>8, HolderGoes DEF UnPid, At, DaemonPcs
  <2>9. CASE UnInfo(p)
    BY <1>1, <1>3, <2>1, <2>2, <2>9, HolderGoes DEF UnInfo, At, DaemonPcs
  <2>10. QED
    BY <1>5, <2>3, <2>4, <2>5, <2>6, <2>7, <2>8, <2>9
<1>6. CASE Open(p)
  <2>1. PromptInv'
    BY <1>6, ConnectingKeeps, PromptStutters DEF Open
  <2>2. QED
    BY <1>1, <1>3, <1>6, <2>1, HolderGoes DEF Open, At, DaemonPcs, files, lock
<1>7. CASE Answering(p) \/ Ask(p)
  <2>1. PromptInv'
    BY <1>7, AskingKeeps, ConnectingKeeps DEF Answering, Ask
  <2>2. LockInv'
    BY <1>1, <1>7 DEF Answering, Ask, LockInv, ProcTypeOK, HolderInv, PidFileOfHolder, files, lock
  <2>3. QED
    BY <1>3, <2>1, <2>2
<1>8. CASE Exit(p) \/ Fails(p)
  <2>1. PromptInv'
    BY <1>8, PromptStutters DEF Exit, Fails
  <2>2. LockInv'
    BY <1>1, <1>8, EndedKeeps DEF Exit, Fails
  <2>3. QED
    BY <1>3, <2>1, <2>2
<1>9. QED
  BY <1>4, <1>5, <1>6, <1>7, <1>8 DEF Runs

\* A command goes on (Do), or is replaced by another record.
LEMMA CommandReplaced ==
    ASSUME CommandInv, NEW c \in Commands, NEW r \in Cmds, cmd' = [cmd EXCEPT ![c] = r],
           r.pc \in {"signal", "child"} => r.pid \in Pids
    PROVE  CommandInv'
  BY DEF CommandInv

\* Do, for the steps that need no number.
LEMMA DoKeeps ==
    ASSUME CommandInv, NEW c \in Commands, NEW pc \in CommandPcs \ {"signal", "child"}, Do(c, pc)
    PROVE  CommandInv'
<1> DEFINE r == IF pc = "done" THEN Done ELSE [cmd[c] EXCEPT !.pc = pc]
<1>1. r \in Cmds /\ r.pc \notin {"signal", "child"}
  <2>1. CASE pc = "done"
    BY <2>1, DaemonAssumption DEF Done, Cmds, CommandPcs
  <2>2. CASE pc # "done"
    <3>1. cmd[c] \in Cmds
      BY DEF CommandInv
    <3>2. QED
      BY <2>2, <3>1 DEF Cmds
  <2>3. QED
    BY <2>1, <2>2
<1>2. cmd' = [cmd EXCEPT ![c] = r]
  BY DEF Do, CommandInv
<1> HIDE DEF r
<1>3. QED
  BY <1>1, <1>2, CommandReplaced

\* Nothing of the processes, the lock and the files changes.
LEMMA LockStutters == LockInv /\ UNCHANGED <<proc, holder, files>> => LockInv'
  BY DEF LockInv, ProcTypeOK, HolderInv, PidFileOfHolder, files

\* What is spawned has not acquired the lock yet.
LEMMA SpawnedFacts ==
    ASSUME NEW args \in Args, NEW parent \in Commands \cup {NoPid}
    PROVE  Spawned(args, parent) \in Procs /\ Spawned(args, parent).pc = "acquire"
  BY DEF Spawned, Procs, DaemonPcs

\* What is left of a process, and other programs, are no daemons.
LEMMA GoneFacts == Gone \in Procs /\ Gone.what = "none" /\ Other \in Procs /\ Other.what = "other"
<1>1. Gone \in Procs /\ Gone.what = "none"
  BY DaemonAssumption DEF Gone, Procs, DaemonPcs
<1>2. QED
  BY <1>1 DEF Other, Procs

\* The steps of a command that look at the lock and the files, and at nothing else.
LEMMA LooksKeep ==
    ASSUME DaemonInv, PromptInv, NEW c \in Commands,
           \/ State(c) \/ Unlocked(c) \/ Pid(c) \/ InfoState(c) \/ Info(c) \/ Wait(c) \/ Stopped(c)
           \/ PlugIn(c) \/ WaitForPid(c) \/ WaitForLock(c)
    PROVE  DaemonInv' /\ PromptInv'
<1>1. LockInv /\ CommandInv /\ ProcTypeOK
  BY DEF DaemonInv, LockInv
<1>2. PromptInv'
  BY PromptStutters DEF State, Unlocked, Pid, InfoState, Info, Wait, Stopped, PlugIn, WaitForPid, WaitForLock
<1>3. LockInv'
  BY <1>1, LockStutters DEF State, Unlocked, Pid, InfoState, Info, Wait, Stopped, PlugIn, WaitForPid,
        WaitForLock, lock
<1>4. cmd[c] \in Cmds
  BY <1>1 DEF CommandInv
<1> SUFFICES CommandInv'
  BY <1>2, <1>3 DEF DaemonInv
<1>5. CASE State(c) \/ Unlocked(c) \/ InfoState(c) \/ Wait(c) \/ Stopped(c) \/ PlugIn(c) \/ WaitForLock(c)
  BY <1>1, <1>5, DoKeeps DEF State, Unlocked, InfoState, Wait, Stopped, PlugIn, WaitForLock, CommandPcs
<1>6. CASE Pid(c)
  <2>1. CASE Do(c, "done")
    BY <1>1, <2>1, DoKeeps DEF CommandPcs
  <2>2. CASE pidFile # NoPid /\ \E q \in {"restart", "info", "service", "signal"} :
                cmd' = [cmd EXCEPT ![c].pid = pidFile, ![c].pc = q]
    <3>1. PICK q \in {"restart", "info", "service", "signal"} :
             cmd' = [cmd EXCEPT ![c].pid = pidFile, ![c].pc = q]
      BY <2>2
    <3> DEFINE r == [cmd[c] EXCEPT !.pid = pidFile, !.pc = q]
    <3>2. r \in Cmds /\ r.pid \in Pids
      BY <1>1, <1>4, <2>2 DEF Cmds, CommandPcs, ProcTypeOK
    <3>3. cmd' = [cmd EXCEPT ![c] = r]
      BY <1>1, <3>1 DEF CommandInv
    <3> HIDE DEF r
    <3>4. QED
      BY <1>1, <3>2, <3>3, CommandReplaced
  <2>3. QED
    BY <1>6, <2>1, <2>2 DEF Pid
<1>7. CASE Info(c)
  <2>1. CASE Do(c, "done")
    BY <1>1, <2>1, DoKeeps DEF CommandPcs
  <2>2. CASE cmd' = [cmd EXCEPT ![c] = [op |-> "unplug", pc |-> "state", pid |-> NoPid, args |-> info.args]]
    <3> DEFINE r == [op |-> "unplug", pc |-> "state", pid |-> NoPid, args |-> info.args]
    <3>1. r \in Cmds /\ r.pc = "state"
      BY <1>1 DEF Cmds, CommandPcs, ProcTypeOK
    <3> HIDE DEF r
    <3>2. QED
      BY <1>1, <2>2, <3>1, CommandReplaced DEF r
  <2>3. QED
    BY <1>7, <2>1, <2>2 DEF Info
<1>8. CASE WaitForPid(c)
  <2>1. CASE Do(c, "done")
    BY <1>1, <2>1, DoKeeps DEF CommandPcs
  <2>2. CASE cmd' = [cmd EXCEPT ![c].pc = "service_lock", ![c].pid = pidFile]
    <3> DEFINE r == [cmd[c] EXCEPT !.pc = "service_lock", !.pid = pidFile]
    <3>1. r \in Cmds /\ r.pc = "service_lock"
      BY <1>1, <1>4 DEF Cmds, CommandPcs, ProcTypeOK
    <3>2. cmd' = [cmd EXCEPT ![c] = r]
      BY <1>1, <2>2 DEF CommandInv
    <3> HIDE DEF r
    <3>3. QED
      BY <1>1, <3>1, <3>2, CommandReplaced
  <2>3. QED
    BY <1>8, <2>1, <2>2 DEF WaitForPid
<1>9. QED
  BY <1>5, <1>6, <1>7, <1>8

\* The steps of a command that signal, spawn or reap a process.
LEMMA ActsKeep ==
    ASSUME DaemonInv, PromptInv, NEW c \in Commands,
           Kill(c) \/ ServiceStop(c) \/ Spawn(c) \/ Child(c) \/ ServiceStart(c)
    PROVE  DaemonInv' /\ PromptInv'
<1>1. LockInv /\ CommandInv /\ ProcTypeOK /\ cmd[c] \in Cmds
  BY DEF DaemonInv, LockInv, CommandInv
<1>2. ASSUME LockInv', PromptInv', CommandInv' PROVE DaemonInv' /\ PromptInv'
  BY <1>2 DEF DaemonInv
<1>3. CASE Kill(c)
  <2>1. cmd[c].pid \in Pids
    BY <1>1, <1>3 DEF Kill, CommandInv
  <2>2. LockInv' /\ PromptInv'
    BY <1>1, <1>3, <2>1, TerminatedKeeps DEF Kill
  <2>3. CommandInv'
    BY <1>1, <1>3, DoKeeps DEF Kill, CommandPcs
  <2>4. QED
    BY <1>2, <2>2, <2>3
<1>4. CASE ServiceStop(c)
  <2>1. CASE main \in Pids /\ Terminated(main) /\ UNCHANGED cmd
    <3>1. LockInv' /\ PromptInv'
      BY <1>1, <1>4, <2>1, TerminatedKeeps DEF ServiceStop
    <3>2. CommandInv'
      BY <1>1, <2>1, CommandStutters
    <3>3. QED
      BY <1>2, <3>1, <3>2
  <2>2. CASE /\ Do(c, IF cmd[c].pc = "service" THEN "wait" ELSE "service_start")
             /\ UNCHANGED <<proc, lock, promptVars>>
    <3>1. LockInv'
      BY <1>1, <1>4, <2>2, LockStutters DEF ServiceStop, lock
    <3>2. PromptInv'
      BY <2>2, PromptStutters
    <3>3. CommandInv'
      BY <1>1, <2>2, DoKeeps DEF CommandPcs
    <3>4. QED
      BY <1>2, <3>1, <3>2, <3>3
  <2>3. QED
    BY <1>4, <2>1, <2>2 DEF ServiceStop
<1>5. CASE Spawn(c)
  <2>1. PICK p \in Free : /\ proc' = [proc EXCEPT ![p] = Spawned(cmd[c].args, c)]
                          /\ cmd' = [cmd EXCEPT ![c].pc = "child", ![c].pid = p]
    BY <1>5 DEF Spawn
  <2>2. p \in Pids /\ proc[p].what = "none"
    BY DEF Free
  <2>3. Spawned(cmd[c].args, c) \in Procs /\ Spawned(cmd[c].args, c).pc = "acquire"
    BY <1>1, SpawnedFacts DEF Cmds
  <2>4. LockInv'
    BY <1>1, <1>5, <2>1, <2>2, <2>3, OthersReplaced DEF Spawn, lock
  <2>5. PromptInv'
    BY <1>5, PromptStutters DEF Spawn
  <2> DEFINE r == [cmd[c] EXCEPT !.pc = "child", !.pid = p]
  <2>6. r \in Cmds /\ r.pid \in Pids
    BY <1>1, <2>2 DEF Cmds, CommandPcs
  <2>7. cmd' = [cmd EXCEPT ![c] = r]
    BY <1>1, <2>1 DEF CommandInv
  <2> HIDE DEF r
  <2>8. CommandInv'
    BY <1>1, <2>6, <2>7, CommandReplaced
  <2>9. QED
    BY <1>2, <2>4, <2>5, <2>8
<1>6. CASE Child(c)
  <2>1. cmd[c].pid \in Pids
    BY <1>1, <1>6 DEF Child, CommandInv
  <2>2. Do(c, "done") /\ UNCHANGED <<lock, files, promptVars>>
    BY <1>6 DEF Child
  <2>3. \/ proc[cmd[c].pid].what = "zombie" /\ proc' = [proc EXCEPT ![cmd[c].pid] = Gone]
        \/ proc' = proc
    BY <1>6 DEF Child
  <2>4. LockInv'
    BY <1>1, <2>1, <2>2, <2>3, LockStutters, OthersReplaced, GoneFacts DEF lock
  <2>5. PromptInv'
    BY <2>2, PromptStutters
  <2>6. CommandInv'
    BY <1>1, <2>2, DoKeeps DEF CommandPcs
  <2>7. QED
    BY <1>2, <2>4, <2>5, <2>6
<1>7. CASE ServiceStart(c)
  <2>1. Do(c, "service_pid") /\ UNCHANGED <<lock, files, promptVars>>
    BY <1>7 DEF ServiceStart
  <2>2. proc' = proc \/ \E p \in Free : proc' = [proc EXCEPT ![p] = Spawned(DefaultArgs, NoPid)]
    BY <1>7 DEF ServiceStart
  <2>3. Spawned(DefaultArgs, NoPid) \in Procs /\ Spawned(DefaultArgs, NoPid).pc = "acquire"
    BY SpawnedFacts, DaemonAssumption
  <2>4. LockInv'
    BY <1>1, <2>1, <2>2, <2>3, LockStutters, OthersReplaced DEF lock, Free
  <2>5. PromptInv'
    BY <2>1, PromptStutters
  <2>6. CommandInv'
    BY <1>1, <2>1, DoKeeps DEF CommandPcs
  <2>7. QED
    BY <1>2, <2>4, <2>5, <2>6
<1>8. QED
  BY <1>3, <1>4, <1>5, <1>6, <1>7

\* Daemons run by hand or by systemd, kills, other programs and the server.
LEMMA OthersKeep ==
    ASSUME DaemonInv, PromptInv, RunByHand \/ Killed \/ OtherRuns \/ Server
    PROVE  DaemonInv' /\ PromptInv'
<1>1. LockInv /\ CommandInv
  BY DEF DaemonInv
<1>2. CommandInv'
  BY <1>1, CommandStutters DEF RunByHand, Killed, OtherRuns, Server
<1>3. CASE RunByHand
  <2>1. PICK p \in Free, args \in Args : proc' = [proc EXCEPT ![p] = Spawned(args, NoPid)]
    BY <1>3, DaemonAssumption DEF RunByHand
  <2>2. Spawned(args, NoPid) \in Procs /\ Spawned(args, NoPid).pc = "acquire"
    BY SpawnedFacts
  <2>3. LockInv'
    BY <1>1, <1>3, <2>1, <2>2, OthersReplaced DEF RunByHand, lock, Free
  <2>4. PromptInv'
    BY <1>3, PromptStutters DEF RunByHand
  <2>5. QED
    BY <1>2, <2>3, <2>4 DEF DaemonInv
<1>4. CASE Killed
  BY <1>1, <1>2, <1>4, DiesKeeps DEF Killed, DaemonInv
<1>5. CASE OtherRuns
  <2>1. PICK p \in Pids : /\ proc[p].what \in {"none", "zombie"}
                          /\ \/ proc' = [proc EXCEPT ![p] = Other]
                             \/ proc' = [proc EXCEPT ![p] = Gone]
    BY <1>5 DEF OtherRuns
  <2>2. LockInv'
    BY <1>1, <1>5, <2>1, OthersReplaced, GoneFacts DEF OtherRuns, lock
  <2>3. PromptInv'
    BY <1>5, PromptStutters DEF OtherRuns
  <2>4. QED
    BY <1>2, <2>2, <2>3 DEF DaemonInv
<1>6. CASE Server
  BY <1>1, <1>2, <1>6, ServerKeeps, LockStutters DEF Server, DaemonInv, lock
<1>7. QED
  BY <1>3, <1>4, <1>5, <1>6
-----------------------------------------------------------------------------
(* The theorems *)

\* Any number of daemons, commands and notification servers, with kills at any
\* point, stay within the invariant.
THEOREM Invariance == Spec => [](DaemonInv /\ PromptInv)
<1>1. Init => DaemonInv /\ PromptInv
  <2> SUFFICES ASSUME Init PROVE DaemonInv /\ PromptInv
    OBVIOUS
  <2>1. LockInv
    <3>1. ProcTypeOK
      BY GoneFacts, DaemonAssumption DEF Init, ProcTypeOK, NoInfo
    <3>2. HolderInv /\ PidFileOfHolder
      BY GoneFacts DEF Init, HolderInv, PidFileOfHolder
    <3>3. QED
      BY <3>1, <3>2 DEF LockInv
  <2>2. CommandInv
    BY DEF Init, CommandInv, Cmds, CommandPcs
  <2>3. QED
    BY <2>1, <2>2, PromptBegins DEF Init, DaemonInv
<1>2. DaemonInv /\ PromptInv /\ [Next]_vars => (DaemonInv /\ PromptInv)'
  <2> SUFFICES ASSUME DaemonInv, PromptInv, [Next]_vars PROVE DaemonInv' /\ PromptInv'
    OBVIOUS
  <2>1. ASSUME NEW p \in Pids, Runs(p) \/ Fails(p) \/ Ask(p) PROVE DaemonInv' /\ PromptInv'
    BY <2>1, RunsKeep
  <2>2. ASSUME NEW c \in Commands, Command(c) PROVE DaemonInv' /\ PromptInv'
    BY <2>2, LooksKeep, ActsKeep DEF Command
  <2>3. CASE RunByHand \/ Killed \/ OtherRuns \/ Server
    BY <2>3, OthersKeep
  <2>4. CASE UNCHANGED vars
    BY <2>4, LockStutters, CommandStutters, PromptStutters DEF vars, lock, DaemonInv
  <2>5. QED
    BY <2>1, <2>2, <2>3, <2>4 DEF Next
<1>3. QED
  BY <1>1, <1>2, PTL DEF Spec

\* The pid and info files a command reads while the lock is held are the holder's
\* own, however the daemons before it ended (run, state_lock.rs).
THEOREM FilesAreTheHolders == Spec => []PidFileOfHolder
<1>1. DaemonInv /\ PromptInv => PidFileOfHolder
  BY DEF DaemonInv, LockInv
<1>2. QED
  BY <1>1, Invariance, PTL

\* A prompt left on the screen is recorded for the next daemon, or one of the cases
\* record_prompt and confirm accept.
THEOREM PromptsAreRecorded == Spec => []OrphanRecorded
<1>1. DaemonInv /\ PromptInv => OrphanRecorded
  BY DEF PromptInv, LooseInv, Loose, OrphanRecorded
<1>2. QED
  BY <1>1, Invariance, PTL

\* close_stale_prompt never takes another program's notification off the screen of
\* the instance the daemon is connected to.
THEOREM OwnPromptsOnly == Spec => []OwnServerOnly
<1>1. DaemonInv /\ PromptInv => OwnServerOnly
  BY DEF PromptInv, OwnInv, OwnServerOnly
<1>2. QED
  BY <1>1, Invariance, PTL
=============================================================================
