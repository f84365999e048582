--------------------------- MODULE EngineSequence ---------------------------
(***************************************************************************)
(* Sequences of operations of the fuzz targets' platform on an engine and  *)
(* its store (fuzz/src/sequence.rs, run_traced): every operation of a      *)
(* plan, in every order, where the fuzzer draws them at random.            *)
(*                                                                         *)
(* A plan is a record: `start`, the operations that come first, in order;  *)
(* `ops`, those that may follow; and `steps`, how many may follow.         *)
(***************************************************************************)
EXTENDS SeedCorpus

CONSTANT Plans              \* a sequence of plans

VARIABLES plan, engine, store, platform, script, steps

vars == <<plan, engine, store, platform, script, steps>>

Plan == Plans[plan]

Init ==
    /\ plan \in DOMAIN Plans
    /\ engine = NewEngine(load_pin_state(Done(None)), 0)
    /\ store = NewHarnessStore
    /\ platform = NewPlatform
    /\ script = << >>
    /\ steps = 0

NextOps ==
    CASE steps < Len(Plan.start) -> {Plan.start[steps + 1]}
      [] steps < Len(Plan.start) + Plan.steps -> Plan.ops
      [] OTHER -> {}

Of(kind) == {op \in NextOps : op.op = kind}

Silent == {"PinWriteFault", "StoreFault", "Restart", "UsePersistent", "Presence", "Advance"}

(* Another operation begins.                                               *)
Chooses == script = << >> /\ steps' = steps + 1

(* The response to the first of the items still to be sent.                *)
Respond(items, req, x) ==
    /\ engine' = x.e
    /\ store' = Taken(x.s)
    /\ platform' = Answered(platform, Head(items), req, x, engine.now)
    /\ script' = Remaining(items, x)
    /\ UNCHANGED plan

Pending ==
    IF script # << >> THEN {script}
    ELSE {Items(op, platform) : op \in {o \in NextOps : o.op \notin Silent}}

Send ==
    /\ steps' = IF script # << >> THEN steps ELSE steps + 1
    /\ \E items \in Pending :
          \E req \in {Request(platform, Head(items))} :
              \E x \in {Call(engine, store, req)} : Respond(items, req, x)

Unanswered == UNCHANGED <<plan, engine, platform, script>>

FailPinWrite ==
    /\ Chooses
    /\ \E op \in Of("PinWriteFault") : store' = schedule(store, op.mode, op.after)
    /\ Unanswered

FailStore ==
    /\ Chooses
    /\ \E op \in Of("StoreFault") :
          store' = schedule_fault(store, op.slot, op.kind, op.after)
    /\ Unanswered

RestartEngine ==
    /\ Chooses
    /\ Of("Restart") # {}
    /\ \E answer \in {pin_state(store)} :
          /\ engine' = Restarted(answer, engine.random).e
          /\ store' = Taken(answer.s)
          /\ platform' = AfterRestart(platform, answer.s.events)
    /\ UNCHANGED <<plan, script>>

PickPersistent ==
    /\ Chooses
    /\ \E op \in Of("UsePersistent") : platform' = WithPersistent(platform, op.protocol)
    /\ UNCHANGED <<plan, engine, store, script>>

SelectPresence ==
    /\ Chooses
    /\ \E op \in Of("Presence") : engine' = [engine EXCEPT !.presence = op.outcome]
    /\ UNCHANGED <<plan, store, platform, script>>

AdvanceClock ==
    /\ Chooses
    /\ \E op \in Of("Advance") : engine' = [engine EXCEPT !.now = @ + op.time]
    /\ UNCHANGED <<plan, store, platform, script>>

Next ==
    \/ Send \/ FailPinWrite \/ FailStore \/ RestartEngine \/ PickPersistent
    \/ SelectPresence \/ AdvanceClock

Spec == Init /\ [][Next]_vars

---------------------------------------------------------------------------
(* A store call that fails makes the command fail with the status that     *)
(* says so, and is the last call the command makes: nothing is read,       *)
(* written or signed on the strength of it.  Corrupt credentials, counts   *)
(* for getInfo and unreadable arrays are the exceptions the code names.    *)
FaultsContained == "failed call" \notin platform.broken

(* Every PIN attempt is paid for in the store before the PIN is looked at, *)
(* no verdict is given unless that write and the one that settles it were  *)
(* confirmed, only a match or a new PIN gives retries back, and the        *)
(* retries the engine reports are those that are left - whatever writes    *)
(* fail or stay unconfirmed, and across restarts.  The PIN state is        *)
(* written only while the engine knows the stored one, and not read again  *)
(* once it was found unreadable.  And the verdicts are right: the right    *)
(* PIN is never refused as wrong, or as blocked with retries left; the     *)
(* wrong one never changes the PIN or yields a token; a new PIN meets the  *)
(* policies in force, and differs from one that must be changed.           *)
PinAudited == platform.broken \cap {"retries", "authority", "pin"} = {}

(* Credentials answer for their own RP, with the outputs that were asked   *)
(* for and the values they were made with; no count falls or is returned   *)
(* before it is saved; retired credentials never sign again; getInfo and   *)
(* the alwaysUv policy agree with the policies that were accepted; and the *)
(* large-blob array is the last one written whole, in order, in time,      *)
(* under one token that may write it, and with its hash, also when it is   *)
(* read in the middle of a write.                                          *)
AnswersKnown == platform.broken \cap {"answer", "count", "array"} = {}

(* Management succeeds only under a grant that covers it, an enumeration   *)
(* goes on only under the grant it began with and in its family, and it    *)
(* returns every credential there is, newest first, once each, whatever    *)
(* was deleted, replaced, unreadable or corrupt in between.                *)
ManagementGranted == "management" \notin platform.broken

(* The store holds what the platform saw published, and nothing else: the  *)
(* stored credentials and counts, the array, the PIN and the policies.     *)
StoreAsPublished ==
    check_store(platform, store.inner) /\ check_published_state(platform, store.inner)
=============================================================================
