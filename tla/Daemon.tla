------------------------------- MODULE Daemon -------------------------------
(***************************************************************************)
(* The daemon's life on its state directory (pqkey: cli/daemon.rs,         *)
(* state_lock.rs, cli/daemon_info.rs, shutdown.rs, service.rs), the        *)
(* commands start, stop and the restart of replug, and the prompt (Prompt) *)
(* the daemon shows while it serves.                                       *)
(*                                                                         *)
(* A process has a number that another gets once it is gone, except that   *)
(* a child keeps its number until its parent has seen it exit.  The kernel *)
(* releases the lock of a process however it ends.  systemd is external:   *)
(* it runs the user service, and again after a failure.                    *)
(***************************************************************************)
EXTENDS Prompt

CONSTANTS
    Pids, NoPid,
    Commands,         \* the commands run at the shell, one operation each
    Args, DefaultArgs,
    UsesService,      \* whether the user service is installed for the directory
    MaxKills,         \* bound: processes that are killed
    MaxRuns           \* bound: daemons run by hand or by systemd

ASSUME DaemonAssumption ==
    /\ NoPid \notin Pids /\ DefaultArgs \in Args
    /\ UsesService \in BOOLEAN

VARIABLES
    proc,         \* [Pids -> [what, pc, args, term, parent]]
    holder,       \* the daemon with the exclusive lock
    probing,      \* the commands with a shared one (is_locked)
    pidFile,      \* authenticator.pid: a number
    info,         \* authenticator.info: [pid, args]
    main,         \* external: the service's process
    cmd,          \* [Commands -> [op, pc, pid, args]]
    kills, runs

files == <<pidFile, info>>
lock == <<holder, probing>>
vars == <<proc, lock, files, main, cmd, kills, runs, promptVars>>

NoInfo == [pid |-> NoPid, args |-> DefaultArgs]
Gone == [what |-> "none", pc |-> "-", args |-> DefaultArgs, term |-> FALSE, parent |-> NoPid]
Other == [Gone EXCEPT !.what = "other"]
Spawned(args, parent) ==
    [what |-> "daemon", pc |-> "acquire", args |-> args, term |-> FALSE, parent |-> parent]

Free == {p \in Pids : proc[p].what = "none"}
At(p, pc) == proc[p].what = "daemon" /\ proc[p].pc = pc
Goes(p, pc) == proc' = [proc EXCEPT ![p].pc = pc]
-----------------------------------------------------------------------------
(* Processes *)

\* What is left of process p when it ends: its parent, if that waits, sees it.
Remains(p) ==
    IF proc[p].parent \in Commands /\ cmd[proc[p].parent].pc # "done"
    THEN [Gone EXCEPT !.what = "zombie", !.parent = proc[p].parent]
    ELSE Gone

\* systemd runs the service again when it fails, but not after a requested stop
\* nor when the directory is in use.
After(p, failed) == IF main # p THEN main ELSE IF failed THEN "again" ELSE NoPid

Ended(p, failed) ==
    /\ proc' = [proc EXCEPT ![p] = Remains(p)]
    /\ holder' = IF holder = p THEN NoPid ELSE holder
    /\ main' = After(p, failed)
    /\ UNCHANGED probing

\* Process p dies where it is, with the request it may be asking about.
Dies(p) ==
    /\ Ended(p, TRUE)
    /\ IF holder = p THEN AskerKilled ELSE UNCHANGED promptVars

\* install_signal_handlers: the first signal sets the flag, the second has its
\* default effect, as any has before.
Handles(p) == proc[p].pc \notin {"acquire", "clean", "clean_info", "handlers"}

\* SIGTERM to whatever process has the number p.
Terminated(p) ==
    IF proc[p].what = "daemon" /\ Handles(p) /\ ~proc[p].term
    THEN /\ proc' = [proc EXCEPT ![p].term = TRUE]
         /\ UNCHANGED <<lock, main, promptVars>>
    ELSE IF proc[p].what \in {"daemon", "other"} THEN Dies(p)
    ELSE UNCHANGED <<proc, lock, main, promptVars>>
-----------------------------------------------------------------------------
(* run *)

\* StateLock::try_acquire.  A shared lock lasts an instant, so only an exclusive
\* one outlasts the patience.
Acquire(p) ==
    /\ At(p, "acquire")
    /\ \/ /\ holder = NoPid /\ probing = {}
          /\ holder' = p
          /\ Goes(p, "clean")
          /\ UNCHANGED <<probing, main>>
       \/ holder # NoPid /\ Ended(p, FALSE)
    /\ UNCHANGED <<files, cmd, kills, runs, promptVars>>

\* Variant: the file a killed daemon left is not removed (PidFileOfHolder).
CleanLeaving(p) ==
    /\ At(p, "clean")
    /\ Goes(p, "clean_info")
    /\ UNCHANGED <<lock, files, main, cmd, kills, runs, promptVars>>

\* remove_pid_file
Clean(p) ==
    /\ At(p, "clean")
    /\ pidFile' = NoPid
    /\ Goes(p, "clean_info")
    /\ UNCHANGED <<lock, info, main, cmd, kills, runs, promptVars>>

\* remove_info_file
CleanInfo(p) ==
    /\ At(p, "clean_info")
    /\ info' = NoInfo
    /\ Goes(p, "handlers")
    /\ UNCHANGED <<lock, pidFile, main, cmd, kills, runs, promptVars>>

\* A step before service::run fails, and the daemon exits as it is.
Fails(p) ==
    /\ proc[p].what = "daemon" /\ proc[p].pc \in {"clean", "clean_info", "handlers"}
    /\ Ended(p, TRUE)
    /\ UNCHANGED <<files, cmd, kills, runs, promptVars>>

\* The handlers are installed, and the store opened, which may fail; a prompt
\* that was left is withdrawn.
Open(p) ==
    /\ At(p, "handlers")
    /\ \/ Goes(p, "withdraw") /\ WithdrawStale
       \/ Goes(p, "unpid") /\ UNCHANGED promptVars
    /\ UNCHANGED <<lock, files, main, cmd, kills, runs>>

\* The device is there, or the key first waits for its seat (on_ready): the
\* information is published, then the number.  Either may fail.
Publish(p) ==
    /\ At(p, "withdraw") /\ asking.pc = "idle"
    /\ \/ info' = [pid |-> p, args |-> proc[p].args] /\ Goes(p, "publish")
       \/ UNCHANGED info /\ Goes(p, "unpid")
    /\ UNCHANGED <<lock, pidFile, main, cmd, kills, runs, promptVars>>

PublishPid(p) ==
    /\ At(p, "publish")
    /\ \/ pidFile' = p /\ Goes(p, "serve")
       \/ UNCHANGED pidFile /\ Goes(p, "unpid")
    /\ UNCHANGED <<lock, info, main, cmd, kills, runs, promptVars>>

\* A request asks the user.
Ask(p) ==
    /\ At(p, "serve") /\ ~proc[p].term
    /\ Connect
    /\ UNCHANGED <<proc, lock, files, main, cmd, kills, runs>>

Answering(p) ==
    /\ proc[p].what = "daemon" /\ proc[p].pc \in {"withdraw", "serve"} /\ holder = p
    /\ Asking
    /\ UNCHANGED <<proc, lock, files, main, cmd, kills, runs>>

\* Variant: a request that asks the user is not told of the shutdown (TermEnds).
StopsServingWaiting(p) ==
    /\ At(p, "serve") /\ ~proc[p].term
    /\ asking.pc = "idle"
    /\ Goes(p, "unpid")
    /\ UNCHANGED <<lock, files, main, cmd, kills, runs, promptVars>>

\* Shutdown, or a device that fails, ends serving once the request the app has is
\* cancelled and done.
StopsServing(p) ==
    /\ At(p, "serve")
    /\ asking.pc = "idle"
    /\ Goes(p, "unpid")
    /\ UNCHANGED <<lock, files, main, cmd, kills, runs, promptVars>>

\* The files are removed on the way out; that may fail.
UnPid(p) ==
    /\ At(p, "unpid")
    /\ pidFile' \in {NoPid, pidFile}
    /\ Goes(p, "uninfo")
    /\ UNCHANGED <<lock, info, main, cmd, kills, runs, promptVars>>

UnInfo(p) ==
    /\ At(p, "uninfo")
    /\ info' \in {NoInfo, info}
    /\ Goes(p, "exit")
    /\ UNCHANGED <<lock, pidFile, main, cmd, kills, runs, promptVars>>

Exit(p) ==
    /\ At(p, "exit")
    /\ Ended(p, ~proc[p].term)
    /\ UNCHANGED <<files, cmd, kills, runs, promptVars>>

Runs(p) ==
    \/ Acquire(p) \/ Clean(p) \/ CleanInfo(p) \/ Open(p) \/ Publish(p) \/ PublishPid(p)
    \/ Answering(p) \/ StopsServing(p) \/ UnPid(p) \/ UnInfo(p) \/ Exit(p)
-----------------------------------------------------------------------------
(* start, stop, replug *)

Done == [op |-> "none", pc |-> "done", pid |-> NoPid, args |-> DefaultArgs]
Do(c, pc) == cmd' = [cmd EXCEPT ![c] = IF pc = "done" THEN Done ELSE [@ EXCEPT !.pc = pc]]
env == <<kills, runs>>

\* daemon_state up to is_locked: the shared lock, if it is granted, is released
\* in a step of its own.
State(c) ==
    /\ cmd[c].pc = "state"
    /\ IF holder # NoPid THEN Do(c, "pid") /\ UNCHANGED probing
       ELSE Do(c, "free") /\ probing' = probing \cup {c}
    /\ UNCHANGED <<proc, holder, files, main, env, promptVars>>

\* Nothing holds the lock: stop has nothing to do, start and replug plug the key in.
Unlocked(c) ==
    /\ cmd[c].pc = "free"
    /\ probing' = probing \ {c}
    /\ Do(c, IF cmd[c].op = "stop" THEN "done" ELSE "plug")
    /\ UNCHANGED <<proc, holder, files, main, env, promptVars>>

\* read_pid: start ends; the others end too without a number (Busy).  running asks
\* systemd whether it is the service's.
Pid(c) ==
    /\ cmd[c].pc = "pid"
    /\ LET service == UsesService /\ main = pidFile IN
       IF cmd[c].op = "start" \/ pidFile = NoPid THEN Do(c, "done")
       ELSE cmd' = [cmd EXCEPT ![c].pid = pidFile,
                               ![c].pc = CASE cmd[c].op = "replug" -> IF service THEN "restart" ELSE "info"
                                           [] OTHER -> IF service THEN "service" ELSE "signal"]
    /\ UNCHANGED <<proc, lock, files, main, env, promptVars>>

\* DaemonInfo::read: the daemon still runs under the number, and the information
\* is its own.  The two files are read one after the other.
InfoState(c) ==
    /\ cmd[c].pc = "info"
    /\ Do(c, IF holder # NoPid /\ pidFile = cmd[c].pid THEN "read_info" ELSE "done")
    /\ UNCHANGED <<proc, lock, files, main, env, promptVars>>

\* replug then unplugs the key as stop does, to plug it in with these options.
Info(c) ==
    /\ cmd[c].pc = "read_info"
    /\ IF info.pid = cmd[c].pid
       THEN cmd' = [cmd EXCEPT ![c] = [op |-> "unplug", pc |-> "state", pid |-> NoPid, args |-> info.args]]
       ELSE Do(c, "done")
    /\ UNCHANGED <<proc, lock, files, main, env, promptVars>>

\* unplug: SIGTERM to the number read.
Kill(c) ==
    /\ cmd[c].pc = "signal"
    /\ Terminated(cmd[c].pid)
    /\ Do(c, "wait")
    /\ UNCHANGED <<files, env>>

\* systemctl stop and restart: systemd stops the service's process and waits for
\* its end; restart then runs it again.
ServiceStop(c) ==
    /\ cmd[c].pc \in {"service", "restart"}
    /\ IF main \in Pids /\ ~proc[main].term
       THEN Terminated(main) /\ UNCHANGED cmd
       ELSE /\ main \notin Pids
            /\ main' = NoPid
            /\ Do(c, IF cmd[c].pc = "service" THEN "wait" ELSE "service_start")
            /\ UNCHANGED <<proc, lock, promptVars>>
    /\ UNCHANGED <<files, env>>

\* The end of unplug: is_locked until nothing holds the lock, or too long.
Wait(c) ==
    /\ cmd[c].pc = "wait"
    /\ IF holder # NoPid THEN Do(c, "done") /\ UNCHANGED probing
       ELSE Do(c, "stopped") /\ probing' = probing \cup {c}
    /\ UNCHANGED <<proc, holder, files, main, env, promptVars>>

Stopped(c) ==
    /\ cmd[c].pc = "stopped"
    /\ probing' = probing \ {c}
    /\ Do(c, IF cmd[c].op = "unplug" THEN "spawn" ELSE "done")
    /\ UNCHANGED <<proc, holder, files, main, env, promptVars>>

\* plug_in: through the service for the default options, if it is installed.
PlugIn(c) ==
    /\ cmd[c].pc = "plug"
    /\ Do(c, IF cmd[c].args = DefaultArgs /\ UsesService THEN "service_start" ELSE "spawn")
    /\ UNCHANGED <<proc, lock, files, main, env, promptVars>>

\* spawn_daemon
Spawn(c) ==
    /\ cmd[c].pc = "spawn"
    /\ \E p \in Free :
          /\ proc' = [proc EXCEPT ![p] = Spawned(cmd[c].args, c)]
          /\ cmd' = [cmd EXCEPT ![c].pc = "child", ![c].pid = p]
    /\ UNCHANGED <<lock, files, main, env, promptVars>>

\* The end of spawn_daemon: the child has exited, or published its number, or too
\* long has passed.
Child(c) ==
    /\ cmd[c].pc = "child"
    /\ LET p == cmd[c].pid IN
       IF proc[p].what = "zombie"
       THEN proc' = [proc EXCEPT ![p] = Gone] /\ Do(c, "done")
       ELSE proc' = proc /\ Do(c, "done")
    /\ UNCHANGED <<lock, files, main, env, promptVars>>

\* systemctl start
ServiceStart(c) ==
    /\ cmd[c].pc = "service_start"
    /\ IF main \in Pids THEN UNCHANGED <<proc, main>>
       ELSE \E p \in Free : proc' = [proc EXCEPT ![p] = Spawned(DefaultArgs, NoPid)] /\ main' = p
    /\ Do(c, "service_pid")
    /\ UNCHANGED <<lock, files, env, promptVars>>

\* wait_for_pid: replug accepts any number but the one it found (pid).
WaitForPid(c) ==
    /\ cmd[c].pc = "service_pid"
    /\ \/ /\ pidFile # NoPid /\ (cmd[c].op = "start" \/ pidFile # cmd[c].pid)
          /\ cmd' = [cmd EXCEPT ![c].pc = "service_lock", ![c].pid = pidFile]
       \/ Do(c, "done")
    /\ UNCHANGED <<proc, lock, files, main, env, promptVars>>

WaitForLock(c) ==
    /\ cmd[c].pc = "service_lock"
    /\ \/ holder # NoPid /\ Do(c, "done")
       \/ holder = NoPid /\ Do(c, "service_pid")
    /\ UNCHANGED <<proc, lock, files, main, env, promptVars>>

Command(c) ==
    \/ State(c) \/ Unlocked(c) \/ Pid(c) \/ InfoState(c) \/ Info(c) \/ Kill(c) \/ ServiceStop(c)
    \/ Wait(c) \/ Stopped(c) \/ PlugIn(c) \/ Spawn(c) \/ Child(c) \/ ServiceStart(c)
    \/ WaitForPid(c) \/ WaitForLock(c)
-----------------------------------------------------------------------------
(* The system *)

\* A daemon is run by hand, or by systemd: at login, by hand or after a failure.
RunByHand ==
    /\ runs < MaxRuns /\ runs' = runs + 1
    /\ \E p \in Free :
          \/ \E args \in Args : proc' = [proc EXCEPT ![p] = Spawned(args, NoPid)] /\ main' = main
          \/ UsesService /\ main \notin Pids /\ proc' = [proc EXCEPT ![p] = Spawned(DefaultArgs, NoPid)] /\ main' = p
    /\ UNCHANGED <<lock, files, cmd, kills, promptVars>>

Killed ==
    /\ kills < MaxKills /\ kills' = kills + 1
    /\ \E p \in Pids : proc[p].what = "daemon" /\ Dies(p)
    /\ UNCHANGED <<files, cmd, runs>>

\* Another program gets a free number; a zombie without a parent is reaped.
OtherRuns ==
    /\ \E p \in Pids :
          \/ proc[p].what = "none" /\ pidFile = p /\ proc' = [proc EXCEPT ![p] = Other]
          \/ /\ proc[p].what = "zombie" /\ cmd[proc[p].parent].pc = "done"
             /\ proc' = [proc EXCEPT ![p] = Gone]
    /\ UNCHANGED <<lock, files, main, cmd, env, promptVars>>

Server == ServerSteps /\ UNCHANGED <<proc, lock, files, main, cmd, env>>

Init ==
    /\ proc = [p \in Pids |-> Gone]
    /\ holder = NoPid /\ probing = {}
    /\ pidFile = NoPid /\ info = NoInfo
    /\ main = NoPid
    /\ cmd \in [Commands -> [op : {"start", "stop", "replug"}, pc : {"state"}, pid : {NoPid}, args : Args]]
    /\ \A c \in Commands : cmd[c].op # "start" => cmd[c].args = DefaultArgs
    /\ kills = 0 /\ runs = 0
    /\ PromptInit

Next ==
    \/ \E p \in Pids : Runs(p) \/ Fails(p) \/ Ask(p)
    \/ \E c \in Commands : Command(c)
    \/ RunByHand \/ Killed \/ OtherRuns \/ Server

\* Every process runs; the time a command waits, and a prompt's, runs out.
Fairness == \A p \in Pids : WF_vars(Runs(p))

Spec == Init /\ [][Next]_vars
FairSpec == Spec /\ Fairness
-----------------------------------------------------------------------------
\* Once the daemon that holds the lock has removed what a killed one left, the
\* number and the information on the disk are its own: what makes the pid file
\* trustworthy to stop, and the options to replug (state_lock.rs, run).
PidFileOfHolder ==
    holder # NoPid =>
        /\ proc[holder].pc # "clean" => pidFile \in {NoPid, holder}
        /\ proc[holder].pc \notin {"clean", "clean_info"} =>
              info \in {NoInfo, [pid |-> holder, args |-> proc[holder].args]}

\* A daemon that was told to stop is gone eventually, whatever it was doing: the
\* request that asks the user is cancelled (ShutdownSignal).
TermEnds == \A p \in Pids : (proc[p].what = "daemon" /\ proc[p].term) ~> proc[p].what # "daemon"
=============================================================================
