------------------------------ MODULE MCClient ------------------------------
(* Instance of Setup, and so of Client and PinInput, for TLC. *)
EXTENDS Setup, TLC

MCLines == {"p4", "q6", "x2"}
MCPinLength == "p4" :> 4 @@ "q6" :> 6 @@ "x2" :> 2
MCRpOf == 1 :> 1 @@ 2 :> 1 @@ 3 :> 2
MCSignals == <<"SIGINT", "SIGTERM">>

NoPinYet == KeyWith(NoPin, {})
Used == KeyWith("p4", {1, 2, 3})
Unreadable == [Used EXCEPT !.readable = FALSE]
Stopped(k) == [k EXCEPT !.inst = 0]

Hosts ==
    {h \in [rules : {"Missing", "Outdated", "Current"}, at_boot : BOOLEAN, loaded : BOOLEAN,
            group_exists : BOOLEAN, member : BOOLEAN, in_session : BOOLEAN, node : BOOLEAN,
            acl : BOOLEAN, setfacl : BOOLEAN] :
        /\ h.member \/ h.in_session => h.group_exists
        /\ h.node => h.loaded /\ h.rules # "Missing" /\ h.group_exists
        /\ h.acl => h.loaded /\ h.setfacl}
Ready == [rules |-> "Current", at_boot |-> TRUE, loaded |-> TRUE, group_exists |-> TRUE,
          member |-> TRUE, in_session |-> TRUE, node |-> TRUE, acl |-> FALSE, setfacl |-> TRUE]

\* No unit, an earlier version's, the one setup installs, and a user's own.
Service(unit, session, runs) ==
    [unit |-> unit, loaded |-> unit, enabled |-> FALSE, session |-> session, runs |-> runs]
Services ==
    {Service("none", "ours", "current"), Service("old", "other", "other"), Service("old", "ours", "current"),
     Service("new", "other", "current"), Service("custom", "ours", "current"),
     Service("custom", "ours", "other")}
Installed == [unit |-> "new", loaded |-> "new", enabled |-> TRUE, session |-> "ours", runs |-> "other"]
Processes(s) ==
    {[kind |-> "service", unit |-> s.loaded, session |-> s.session, custom |-> FALSE, binary |-> binary] :
         binary \in IF s.loaded = "none" THEN {} ELSE {"current", "other"}}
      \union {[kind |-> "daemon", unit |-> "none", session |-> "ours", custom |-> custom,
               binary |-> "current"] : custom \in BOOLEAN}

\* steps: of other clients.  Only a reset and a setup need more than one more start.
Of(names, yes, keys, steps) ==
    [cmd : [name : names, yes : yes], key : keys, others : {steps}, reruns : {0}, host : {Ready}, svc : {Installed},
     proc : {[kind |-> "service", unit |-> "new", session |-> "ours", custom |-> FALSE,
              binary |-> "current"]}]

\* setup on any host, with no service yet; and on any service, with the host ready.
SetupCases ==
    [cmd : [name : {"setup"}, yes : {TRUE}], others : {0}, reruns : {1}, key : {Stopped(Used)}, host : Hosts,
     svc : {[Installed EXCEPT !.unit = "none", !.loaded = "none", !.enabled = FALSE]},
     proc : {[kind |-> "daemon", unit |-> "none", session |-> "ours", custom |-> FALSE,
              binary |-> "current"]}]
      \union [cmd : [name : {"setup"}, yes : {FALSE}], others : {0}, reruns : {1}, key : {Used}, host : {[Ready EXCEPT !.at_boot = FALSE]},
              svc : {Installed}, proc : Processes(Installed)]
      \union UNION {[cmd : [name : {"setup", "uninstall"}, yes : {FALSE}], others : {0}, reruns : {1}, key : {Used},
                     host : {Ready}, svc : {s}, proc : Processes(s)] :
                        s \in Services}

Once(keys) == {[k EXCEPT !.starts = MaxStarts - 1] : k \in keys}

MCCases ==
    Of({"pin"}, {FALSE},
       Once({NoPinYet, Used, [Used EXCEPT !.force = TRUE], [Used EXCEPT !.retries = 1]}), 1)
      \union Of({"uv_on", "min", "complexity", "force"}, {FALSE},
                Once({NoPinYet, [NoPinYet EXCEPT !.always_uv = TRUE], Used}), 1)
      \union Of({"min", "complexity"}, {TRUE}, Once({NoPinYet}), 1)
      \union Of({"config"}, {FALSE}, Once({Stopped(Used), Used}), 1)
      \union Of({"passkeys"}, {FALSE}, Once({KeyWith("p4", {}), Used}), 2)
      \union Of({"delete"}, BOOLEAN, Once({KeyWith("p4", {}), Used}), 1)
      \union Of({"reset"}, BOOLEAN, {Unreadable, Stopped(Used), NoPinYet}, 1)
      \union Of({"setup"}, {FALSE}, Once({NoPinYet, [Used EXCEPT !.force = TRUE]}), 1)
      \union SetupCases
=============================================================================
