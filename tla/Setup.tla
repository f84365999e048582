------------------------------- MODULE Setup --------------------------------
(***************************************************************************)
(* pqkey setup and setup --uninstall (pqkey: cli/setup.rs, over            *)
(* platform/linux/setup.rs, checks.rs and daemon.rs), among the other      *)
(* commands of Client: what keeps the key from starting, the script for    *)
(* root, the user service and its unit, and the PIN.                       *)
(*                                                                         *)
(* Every program setup runs may fail, the script for root at any of its    *)
(* steps; a setup that failed may be run again.  The key may be stopped    *)
(* and started by others whenever setup looks at it.                       *)
(***************************************************************************)
EXTENDS Client

CONSTANT Cases      \* the commands run, each with the key and host it finds and its bounds

ASSUME CasesAssumption ==
    \A c \in Cases : /\ DOMAIN c.key = DOMAIN KeyWith(NoPin, {})
                     /\ c.key.inst \in Nat /\ c.key.starts \in Nat

VARIABLES
    host,   \* external: the udev rules, the uhid module, the group and /dev/uhid
    svc,    \* external: the unit's file, what systemd has loaded, its environment
    proc,   \* external: what the key that runs was started from
    run     \* setup's local variables; reruns is a bound: how often it may be run again

hostVars == <<host, svc, proc>>
vars == <<inputVars, clientVars, hostVars, run>>

NotRun == [script |-> <<>>, applied |-> FALSE, changed |-> FALSE, problems |-> FALSE, reruns |-> 0]

Init ==
    \E c \in Cases : /\ InitFor(c)
                     /\ host = c.host /\ svc = c.svc /\ proc = c.proc
                     /\ run = [NotRun EXCEPT !.reruns = c.reruns]
-----------------------------------------------------------------------------
(* What keeps the key from starting *)

\* open_uhid: through the group, which the rules give the node to, or an ACL.
CanOpen(h) == h.loaded /\ (h.acl \/ (h.node /\ h.in_session))

\* What the host lacks, as System looks at it: rules, uhid_at_boot and uhid_loaded.
Missing(h) ==
    {p \in {"rules", "at_boot", "loaded"} :
        CASE p = "rules" -> h.rules # "Current"
          [] p = "at_boot" -> ~h.at_boot
          [] p = "loaded" -> ~h.loaded}

start_problems(h) == Missing(h) \union (IF h.loaded /\ ~CanOpen(h) THEN {"open"} ELSE {})

\* The steps that need root.
root_script(h) ==
    LET wanted == <<[step |-> "rules", if |-> "rules" \in Missing(h)],
                    [step |-> "at_boot", if |-> "at_boot" \in Missing(h)],
                    [step |-> "modprobe", if |-> "loaded" \in Missing(h)],
                    [step |-> "groupadd", if |-> ~h.member /\ ~h.group_exists],
                    [step |-> "usermod", if |-> ~h.member]>>
        steps == SelectSeq(wanted, LAMBDA w : w.if)
        acl == (~h.in_session /\ steps # <<>>) \/ ~CanOpen(h)
    IN  IF steps = <<>> /\ ~acl THEN <<>>
        ELSE [i \in DOMAIN steps |-> steps[i].step] \o <<"trigger">> \o (IF acl THEN <<"acl">> ELSE <<>>)

\* External: what a step of the script may make of the host; nothing if it must fail.
\* The rules applied again may or may not keep an ACL.
Taken(h, step) ==
    CASE step = "rules" -> {[h EXCEPT !.rules = "Current"]}
      [] step = "at_boot" -> {[h EXCEPT !.at_boot = TRUE]}
      [] step = "modprobe" -> {[h EXCEPT !.loaded = TRUE, !.node = h.rules = "Current" /\ h.group_exists]}
      [] step = "groupadd" -> {[h EXCEPT !.group_exists = TRUE]}
      [] step = "usermod" -> {[h EXCEPT !.member = TRUE]}
      [] step = "trigger" ->
             {[h EXCEPT !.node = @ \/ (h.rules = "Current" /\ h.group_exists), !.acl = kept] :
                  kept \in {FALSE, h.acl}}
      [] step = "acl" -> IF h.setfacl THEN {[h EXCEPT !.acl = TRUE]} ELSE {}
-----------------------------------------------------------------------------
(* The service *)

Running == key.inst # 0

\* External: a process of the unit systemd has loaded, or one started by hand.
Serving ==
    [kind |-> "service", unit |-> svc.loaded, session |-> svc.session, custom |-> FALSE,
     binary |-> IF svc.loaded = "new" THEN "current" ELSE svc.runs]
ByHand == [kind |-> "daemon", unit |-> "none", session |-> "ours", custom |-> FALSE,
           binary |-> "current"]

plug_in == IF svc.loaded = "none" THEN ByHand ELSE Serving

\* Starting it, or starting it again, may fail and leave it running or not.
BroughtUp(then) ==
    \/ /\ key.starts < MaxStarts
       /\ key' \in Starts(key)
       /\ proc' = plug_in
       /\ my' = [my EXCEPT !.conn = key'.inst]
       /\ Goes(then)
    \/ /\ key' \in {key, [key EXCEPT !.inst = 0]}
       /\ Ends(1, "error") /\ UNCHANGED <<my, proc>>

Fails == Ends(1, "error")
sameInput == <<inputVars, cmd, others>>
-----------------------------------------------------------------------------
(* setup *)

\* check_caller and the build directory.
CheckCaller ==
    /\ Here("start") /\ cmd.name = "setup"
    /\ Goes("steps") \/ Fails
    /\ UNCHANGED <<key, my, sameInput, hostVars, run>>

\* The script, if it is approved: with --yes, or by the user.
Steps ==
    /\ Here("steps")
    /\ LET script == root_script(host) IN
       IF script = <<>> THEN Goes("blockers") /\ UNCHANGED run
       ELSE \/ /\ cmd.yes \/ interactive
               /\ run' = [run EXCEPT !.script = script]
               /\ Goes("apply")
            \/ ~cmd.yes /\ interactive /\ Ends(0, "cancelled") /\ UNCHANGED run
            \/ ~cmd.yes /\ ~interactive /\ Fails /\ UNCHANGED run
    /\ UNCHANGED <<key, my, sameInput, hostVars>>

\* run_as_root: sh stops at the first step that fails (set -e), or is never run.
Apply ==
    /\ Here("apply")
    /\ IF run.script = <<>>
       THEN Goes("blockers") /\ run' = [run EXCEPT !.applied = TRUE] /\ UNCHANGED host
       ELSE \/ /\ host' \in Taken(host, Head(run.script))
               /\ run' = [run EXCEPT !.script = Tail(@)]
               /\ UNCHANGED <<pc, report>>
            \/ Fails /\ UNCHANGED <<host, run>>
    /\ UNCHANGED <<key, my, sameInput, svc, proc>>

Blockers ==
    /\ Here("blockers")
    /\ IF start_problems(host) = {} THEN Goes("before") ELSE Fails
    /\ UNCHANGED <<key, my, sameInput, hostVars, run>>

\* start_service: a key started by hand with options of its own is left alone.
Before ==
    /\ Here("before")
    /\ \/ ~(Running /\ proc.kind = "daemon" /\ proc.custom) /\ Goes("install")
       \/ Fails
    /\ UNCHANGED <<key, my, sameInput, hostVars, run>>

\* install_unit's file: only a unit pqkey wrote is replaced.
Install_unit ==
    /\ Here("install")
    /\ \/ /\ svc' = [svc EXCEPT !.unit = IF @ = "custom" THEN @ ELSE "new"]
          /\ run' = [run EXCEPT !.changed = svc' # svc]
          /\ Goes("reload")
       \/ Fails /\ UNCHANGED <<svc, run>>
    /\ UNCHANGED <<key, my, sameInput, host, proc>>

\* systemctl link and daemon-reload.
Reload ==
    /\ Here("reload")
    /\ \/ svc' = [svc EXCEPT !.loaded = svc.unit] /\ Goes("enable")
       \/ Fails /\ UNCHANGED svc
    /\ UNCHANGED <<key, my, sameInput, host, proc, run>>

\* Enable and ResetFailed.
Enable ==
    /\ Here("enable")
    /\ \/ svc' = [svc EXCEPT !.enabled = TRUE] /\ Goes("session")
       \/ Fails /\ svc' \in {svc, [svc EXCEPT !.enabled = TRUE]}
    /\ UNCHANGED <<key, my, sameInput, host, proc, run>>

prepare_session ==
    /\ Here("session")
    /\ \/ /\ svc' = [svc EXCEPT !.session = "ours"]
          /\ run' = [run EXCEPT !.changed = @ \/ svc' # svc]
          /\ Goes("running")
       \/ Fails /\ UNCHANGED <<svc, run>>
    /\ UNCHANGED <<key, my, sameInput, host, proc>>

\* The key started by hand is stopped; a service is restarted if its unit or session
\* changed or it runs another binary, or one that cannot be told; one that does not
\* run is started.
BringUp ==
    /\ Here("running")
    /\ \/ /\ Running /\ proc.kind = "daemon"
          /\ key' = [key EXCEPT !.inst = 0]
          /\ Goes("plug_in") /\ UNCHANGED <<my, proc>>
       \/ /\ Running /\ proc.kind = "service" /\ proc.binary = "current" /\ ~run.changed
          /\ my' = [my EXCEPT !.conn = key.inst]
          /\ Goes("verify") /\ UNCHANGED <<key, proc>>
       \/ (Running => proc.kind = "service") /\ BroughtUp("verify")
       \/ Fails /\ UNCHANGED <<key, my, proc>>
    /\ UNCHANGED <<sameInput, host, svc, run>>

PlugIn ==
    /\ Here("plug_in")
    /\ IF Running THEN Fails /\ UNCHANGED <<key, my, proc>> ELSE BroughtUp("verify")
    /\ UNCHANGED <<sameInput, host, svc, run>>

\* verify.
Verified ==
    /\ key.inst = my.conn
    /\ proc.kind = "service"
    /\ proc.binary = "current"
    /\ proc.session = "ours"

Verify ==
    /\ Here("verify")
    /\ IF Verified THEN Goes("problems") ELSE Fails
    /\ UNCHANGED <<key, my, sameInput, hostVars, run>>

\* problems: what keeps browsers from using the key, which is reported in the end.
Problems ==
    /\ Here("problems")
    /\ \/ run' \in {[run EXCEPT !.problems = found] : found \in BOOLEAN} /\ Goes("ensure")
       \/ Fails /\ UNCHANGED run
    /\ UNCHANGED <<key, my, sameInput, hostVars>>
-----------------------------------------------------------------------------
(* setup: the PIN *)

\* ensure_pin_on, up to set_or_change_pin or set_first_pin.
EnsurePin ==
    /\ Here("ensure")
    /\ \E r \in Outcomes(Answer(key, "Ok")) :
          IF r.st # "Ok" THEN Fails /\ UNCHANGED my
          ELSE IF PinSet(key) /\ ~key.force THEN Goes("settled") /\ UNCHANGED my
          ELSE IF ~interactive THEN Fails /\ UNCHANGED my
          ELSE my' = [my EXCEPT !.first = ~PinSet(key)] /\ Goes("info")
    /\ UNCHANGED <<key, sameInput, hostVars, run>>

\* ... and after them.
Ensured ==
    /\ Here("ensured")
    /\ \E r \in Outcomes(Answer(key, "Ok")) :
          IF r.st = "Ok" /\ PinSet(key) /\ ~key.force THEN Goes("settled") ELSE Fails
    /\ UNCHANGED <<key, my, sameInput, hostVars, run>>

Settled ==
    /\ Here("settled")
    /\ \E r \in Outcomes(Answer(key, "Ok")) :
          IF r.st = "Ok" /\ Retries(key) > 0 /\ ~Locked(key) THEN Goes("finish") ELSE Fails
    /\ UNCHANGED <<key, my, sameInput, hostVars, run>>

\* Variant: the service is not verified again (SetupReady).
FinishUnverified ==
    /\ Here("finish")
    /\ IF run.problems THEN Fails ELSE Ends(0, "ready")
    /\ UNCHANGED <<key, my, sameInput, hostVars, run>>

\* The problems found are an error; the service is verified again.
Finish ==
    /\ Here("finish")
    /\ IF run.problems \/ ~Verified THEN Fails ELSE Ends(0, "ready")
    /\ UNCHANGED <<key, my, sameInput, hostVars, run>>

\* A setup that failed is run again.
Rerun ==
    /\ Here("exit") /\ cmd.name = "setup" /\ report.code = 1 /\ run.reruns > 0
    /\ run' = [NotRun EXCEPT !.reruns = run.reruns - 1]
    /\ my' = Fresh
    /\ pc' = "start" /\ report' = NoReport
    /\ UNCHANGED <<key, sameInput, hostVars>>
-----------------------------------------------------------------------------
(* setup --uninstall *)

Unplug ==
    /\ Here("start") /\ cmd.name = "uninstall"
    /\ \/ key' = [key EXCEPT !.inst = 0] /\ Goes("remove")
       \/ Fails /\ UNCHANGED key
    /\ UNCHANGED <<my, sameInput, hostVars, run>>

\* UserService::remove.
RemoveUnit ==
    /\ Here("remove")
    /\ \/ /\ svc' = [svc EXCEPT !.unit = "none", !.loaded = "none", !.enabled = FALSE]
          /\ Ends(0, "uninstalled")
       \/ /\ svc' \in {svc, [svc EXCEPT !.unit = "none", !.enabled = FALSE]}
          /\ Fails
    /\ UNCHANGED <<key, my, sameInput, host, proc, run>>
-----------------------------------------------------------------------------
SetupStep ==
    \/ CheckCaller \/ Steps \/ Apply \/ Blockers \/ Before \/ Install_unit \/ Reload \/ Enable
    \/ prepare_session \/ BringUp \/ PlugIn \/ Verify \/ Problems \/ EnsurePin \/ Ensured
    \/ Settled \/ Finish \/ Rerun \/ Unplug \/ RemoveUnit

\* Others start the key as pqkey start does; a reset starts it as it ran.
Next ==
    \/ SetupStep
    \/ (CommandStep \/ Reading \/ Around \/ KeyStops) /\ UNCHANGED <<hostVars, run>>
    \/ KeyStarts /\ proc' = plug_in /\ UNCHANGED <<host, svc, run>>

Spec == Init /\ [][Next]_vars
-----------------------------------------------------------------------------
(* Properties *)

\* setup says the key is ready only of the process whose PIN it made sure of, run by the
\* service from the installed binary on this session's bus, with a PIN (run_setup).
SetupReady ==
    report.said = "ready" =>
        /\ key.inst = my.conn
        /\ proc.kind = "service" /\ proc.binary = "current" /\ proc.session = "ours"
        /\ PinSet(key) \/ my.wiped

=============================================================================
