-------------------------- MODULE ManagementOracle --------------------------
(***************************************************************************)
(* The fuzz targets' independent model of who may manage credentials and   *)
(* where an enumeration stands (fuzz/src/sequence/management.rs).          *)
(*                                                                         *)
(* The platform p carries it as p.m, the credentials it knows of as        *)
(* p.credentials, and the assertions that failed as p.broken.  An index is *)
(* the number of entries an enumeration has gone past.                     *)
(***************************************************************************)
EXTENDS Engine

Expect(p, holds, what) == IF holds THEN p ELSE [p EXCEPT !.broken = @ \cup {what}]

NewOracle ==
    [grant |-> None, persistent |-> <<None, None>>, issued |-> 0, family |-> None,
     context |-> None, rps |-> None, credentials |-> None, rp_hash |-> None]

DropCursors(m) == [m EXCEPT !.rps = None, !.credentials = None]

---------------------------------------------------------------------------
Kept(before, g) == before = None \/ before[1].value = g.value

Issued(p, g) ==
    IF g.persistent
    THEN Expect([p EXCEPT !.m.persistent[g.protocol] = Some(g)],
                Kept(p.m.persistent[g.protocol], g), "management")
    ELSE [p EXCEPT !.m.grant = Some(g)]

issue(p, protocol, value, permissions, rp, legacy, now) ==
    Issued([p EXCEPT !.m = DropCursors([@ EXCEPT !.issued = @ + 1])],
           [protocol |-> protocol, persistent |-> permissions = {"pcmr"},
            value |-> value, permissions |-> permissions, rp |-> rp,
            legacy |-> legacy, verified |-> TRUE, used |-> FALSE,
            issued_at |-> now, id |-> p.m.issued + 1])

invalidate(m) == DropCursors([m EXCEPT !.grant = None, !.persistent = <<None, None>>])

restart(m) ==
    DropCursors([m EXCEPT !.grant = None, !.family = None, !.context = None,
                          !.rp_hash = None])

Lapsed(g, now) == \/ now - g.issued_at >= 60
                  \/ ~g.used /\ now - g.issued_at >= 3

observe_time(m, now) ==
    IF m.grant # None /\ Lapsed(m.grant[1], now) THEN [m EXCEPT !.grant = None] ELSE m

---------------------------------------------------------------------------
Made(g, auth) ==
    auth.kind = "mac" /\ auth.protocol = g.protocol /\ auth.secret = g.value

Macs(m, auth) == m.grant # None /\ Made(m.grant[1], auth)

mac(m, auth) == IF Macs(m, auth) THEN [m EXCEPT !.grant[1].used = TRUE] ELSE m

(* `rp_hash` is the RP an operation is about, if it is about one.          *)
authorized(m, family, rp_hash) ==
    /\ m.grant # None
    /\ m.grant[1].verified
    /\ IF m.grant[1].legacy THEN family = "Preview" /\ m.grant[1].rp = None
       ELSE /\ "cm" \in m.grant[1].permissions
            /\ \/ m.grant[1].rp = None
               \/ rp_hash # None /\ rp_hash[1] = Hash(m.grant[1].rp[1])

cursor_valid(m, cursor, family, rp_hash) ==
    /\ cursor # None
    /\ IF cursor[1].persistent
       THEN /\ family = "Standard"
            /\ m.persistent[cursor[1].protocol] # None
            /\ m.persistent[cursor[1].protocol][1].id = cursor[1].token
       ELSE /\ m.grant # None
            /\ cursor[1].token = m.grant[1].id
            /\ cursor[1].legacy = m.grant[1].legacy
            /\ authorized(m, family, rp_hash)

---------------------------------------------------------------------------
(* The credentials a continuation goes past: those deleted since, and      *)
(* those whose read in this command found them corrupt.                    *)
CorruptRead(events, id) ==
    \E i \in DOMAIN events :
        events[i].call = "Get" /\ events[i].fault = Some("Corrupt") /\ events[i].id = Some(id)

Absent(p, events, id) ==
    \/ \A i \in DOMAIN p.credentials : p.credentials[i].id # id
    \/ CorruptRead(events, id)

skip_absent(cursor, p, events) ==
    [cursor EXCEPT !.index =
        CHOOSE j \in cursor.index .. Len(cursor.entries) :
            /\ j = Len(cursor.entries) \/ ~Absent(p, events, cursor.entries[j + 1])
            /\ \A i \in cursor.index .. j - 1 : Absent(p, events, cursor.entries[i + 1])]

NextIs(cursor, entry) ==
    cursor.index < Len(cursor.entries) /\ cursor.entries[cursor.index + 1] = entry

Step(cursor) == [cursor EXCEPT !.index = @ + 1]

(* A continuation whose read failed has gone past the credential all the   *)
(* same.                                                                   *)
FailedGets(events) ==
    SelectSeq(events, LAMBDA ev : ev.call = "Get" /\ ev.fault = Some("Io"))

PastFailed(p, cursor, failed) ==
    Expect([p EXCEPT !.m.credentials = Some(Step(cursor))], NextIs(cursor, failed.id[1]),
           "management")

FailedRead(p, req, x) ==
    IF req.sub = 5 /\ FailedGets(x.s.events) # << >> /\ p.m.credentials # None
    THEN PastFailed(p, skip_absent(p.m.credentials[1], p, x.s.events),
                    FailedGets(x.s.events)[1])
    ELSE p

ContinuedAt(p, cursor, x) ==
    Expect([p EXCEPT !.m.credentials = Some(Step(cursor))], NextIs(cursor, x.reply.id),
           "management")

Continued(p, req, x) ==
    IF req.sub = 3
    THEN Expect([p EXCEPT !.m.rps[1].index = @ + 1], NextIs(p.m.rps[1], x.reply.rp),
                "management")
    ELSE ContinuedAt(p, skip_absent(p.m.credentials[1], p, x.s.events), x)

CursorOf(m, req) ==
    IF req.sub = 3 THEN cursor_valid(m, m.rps, req.family, None)
    ELSE cursor_valid(m, m.credentials, req.family, m.rp_hash)

Continuation(p, req, x) ==
    CASE ~CursorOf(p.m, req) ->
            Expect(IF req.sub = 3 THEN [p EXCEPT !.m.rps = None]
                   ELSE [p EXCEPT !.m.credentials = None],
                   x.status # "OK", "management")
      [] x.status # "OK" -> FailedRead(p, req, x)
      [] OTHER -> Continued(p, req, x)

---------------------------------------------------------------------------
Selected(m, req) ==
    IF /\ req.family = "Standard" /\ req.sub \in {1, 2, 4}
       /\ m.persistent[req.auth.protocol] # None
       /\ Made(m.persistent[req.auth.protocol][1], req.auth)
    THEN m.persistent[req.auth.protocol]
    ELSE None

KnownAs(p, id) == SelectSeq(p.credentials, LAMBDA c : c.id = id)

Target(p, req) ==
    CASE req.sub \notin {6, 7} -> req.rp_hash
      [] KnownAs(p, req.id[1]) = << >> -> None
      [] OTHER -> Some(Hash(KnownAs(p, req.id[1])[1].rp))

InGrantContext(m, g) ==
    LET context == Some([persistent |-> g.persistent, protocol |-> g.protocol, id |-> g.id])
    IN  IF m.context = context THEN m ELSE [DropCursors(m) EXCEPT !.context = context]

NewCursor(g, entries) ==
    Some([token |-> g.id, persistent |-> g.persistent, protocol |-> g.protocol,
          legacy |-> g.legacy, entries |-> entries, index |-> 1])

Discoverable(p) == SelectSeq(p.credentials, LAMBDA c : c.discoverable)

RpEntries(p) ==
    SelectSeq(RpOrder, LAMBDA rp : \E i \in DOMAIN p.credentials :
                            p.credentials[i].discoverable /\ p.credentials[i].rp = rp)

CredentialEntries(p, rp_hash) ==
    LET of == SelectSeq(Reverse(p.credentials),
                        LAMBDA c : c.discoverable /\ Hash(c.rp) = rp_hash)
    IN  [i \in DOMAIN of |-> of[i].id]

Starts(entries, first, total) ==
    entries # << >> /\ entries[1] = first /\ Len(entries) = total

Begun(p, req, x, g) ==
    CASE req.sub = 1 ->
            Expect(p, x.reply.existing = Len(Discoverable(p)), "management")
      [] req.sub = 2 ->
            Expect([p EXCEPT !.m.rps = NewCursor(g, RpEntries(p))],
                   Starts(RpEntries(p), x.reply.rp, x.reply.total), "management")
      [] req.sub = 4 ->
            Expect([p EXCEPT !.m.rp_hash = req.rp_hash,
                             !.m.credentials =
                                 NewCursor(g, CredentialEntries(p, req.rp_hash[1]))],
                   Starts(CredentialEntries(p, req.rp_hash[1]), x.reply.id, x.reply.total),
                   "management")
      [] req.sub = 6 -> [p EXCEPT !.m = DropCursors(@)]
      [] OTHER -> p

WithGrant(p, req, x, grant) ==
    IF x.status # "OK" \/ grant = None THEN p
    ELSE Begun([p EXCEPT !.m = InGrantContext(@, grant[1])], req, x, grant[1])

Beginning(p, req, x, selected) ==
    WithGrant(
        Expect([p EXCEPT !.m = IF cm_mandatory_missing(req) \/ selected # None THEN @
                               ELSE mac(@, req.auth)],
               x.status = "OK" =>
                  /\ ~cm_mandatory_missing(req)
                  /\ \/ selected # None
                     \/ Macs(p.m, req.auth) /\ authorized(p.m, req.family, Target(p, req)),
               "management"),
        req, x, IF selected # None THEN selected ELSE p.m.grant)

CheckManagement(p, req, x) ==
    IF req.sub \in {3, 5} THEN Continuation(p, req, x)
    ELSE Beginning(p, req, x, Selected(p.m, req))

SwitchFamily(m, family) ==
    IF m.family = Some(family) THEN m ELSE [DropCursors(m) EXCEPT !.family = Some(family)]

---------------------------------------------------------------------------
(* makeCredential and getAssertion bind a token to an RP, and use it up.   *)
Bound(m, permission, rp) ==
    IF /\ permission \in m.grant[1].permissions
       /\ m.grant[1].verified
       /\ m.grant[1].rp \in {None, Some(rp)}
    THEN [m EXCEPT !.grant[1].rp = Some(rp)]
    ELSE m

Spent(m, x) ==
    IF x.status = "OK" /\ x.reply.up /\ m.grant # None
    THEN [m EXCEPT !.grant[1].verified = FALSE, !.grant[1].legacy = FALSE,
                   !.grant[1].permissions = @ \cap {"lbw"}]
    ELSE m

CheckCeremony(m, req, x, permission) ==
    Spent(IF Macs(m, req.auth) THEN Bound(mac(m, req.auth), permission, req.rp) ELSE m, x)

CheckClientPin(m, req) ==
    CASE req.sub \in {"setPin", "changePin"} -> invalidate(m)
      [] req.sub \in {"getPinToken", "getPinUvAuthToken"} ->
            DropCursors([m EXCEPT !.grant =
                IF req.permissions = Some({"pcmr"}) THEN @ ELSE None])
      [] OTHER -> m

(* Oracle::check.                                                          *)
CheckOracle(p, req, x) ==
    CASE req.cmd = "credentialManagement" ->
            CheckManagement([p EXCEPT !.m = SwitchFamily(@, req.family)], req, x)
      [] req.cmd = "makeCredential" -> [p EXCEPT !.m = CheckCeremony(@, req, x, "mc")]
      [] req.cmd = "getAssertion" -> [p EXCEPT !.m = CheckCeremony(@, req, x, "ga")]
      [] req.cmd = "authenticatorConfig" -> [p EXCEPT !.m = mac(@, req.auth)]
      [] req.cmd = "largeBlobs" /\ req.set # None -> [p EXCEPT !.m = mac(@, req.auth)]
      [] req.cmd = "clientPIN" /\ x.status = "OK" -> [p EXCEPT !.m = CheckClientPin(@, req)]
      [] req.cmd = "reset" /\ x.status = "OK" -> [p EXCEPT !.m = restart(invalidate(@))]
      [] OTHER -> p

check(p, req, x, now) == CheckOracle([p EXCEPT !.m = observe_time(@, now)], req, x)
=============================================================================
