---------------------------- MODULE ClientProofs ----------------------------
(***************************************************************************)
(* Proofs about the commands of pqkey (Setup, and so Client and PinInput): *)
(* how a PIN is read, that a reset leaves the key running or stopped as it *)
(* found it, and what setup says of the key.  They hold for any commands,  *)
(* keys and hosts, any PINs and signals, and any number of other clients.  *)
(***************************************************************************)
EXTENDS Setup, TLAPS

-----------------------------------------------------------------------------
(* Reading a PIN: the inductive invariant *)

Texts == Lines \union {"none", "failed"}
TypedLines == [text : Texts, shown : BOOLEAN]
Replaced == [signal : Signals, was : Actions]

\* Where the reader is with the terminal's echo off, and where its catcher is in place.
Hidden == {"check", "call", "read", "restore"}
Catching == {"install", "quiet", "reinstate"} \union Hidden
Ended == {"idle", "read_line", "raise", "done"}

InputTypeOK ==
    /\ interactive \in BOOLEAN /\ echo \in BOOLEAN /\ alive \in BOOLEAN
    /\ typed \in TypedLines
    /\ action \in [Signals -> Actions]
    /\ caught \in Signals \union {"none"}
    /\ reader \in [pc : Catching \union Ended, previous : Seq(Replaced), result : TypedLines,
                   saw : BOOLEAN]

\* A PIN is read in the order of read_hidden_line, of a terminal, or of read_line, of a pipe.
ReaderOrder ==
    /\ reader.pc \in {"idle", "read_line"} => ~reader.saw
    /\ interactive => reader.pc # "read_line"
    /\ ~interactive => reader.pc \in {"idle", "read_line", "done"}

\* Echo is off exactly where the reader turned it off, of a process that lives, and
\* what is typed there is not shown.
EchoInv ==
    /\ ~echo <=> reader.pc \in Hidden
    /\ ~echo => ~typed.shown /\ alive
    /\ interactive => ~reader.result.shown

\* The actions the catcher replaced: all of them while echo is off; and none is left in
\* place once the catcher is gone.
CatcherInv ==
    /\ reader.pc \in Ended => \A s \in Signals : action[s] # "record"
    /\ reader.pc = "install" =>
          /\ Len(reader.previous) <= Len(CAUGHT_SIGNALS)
          /\ \A i \in DOMAIN CAUGHT_SIGNALS :
                action[CAUGHT_SIGNALS[i]] = "record" <=> i <= Len(reader.previous)
    /\ reader.pc \in Hidden \union {"quiet"} => \A s \in Signals : action[s] = "record"
    /\ \A s \in Signals : action[s] = "record" =>
          \E i \in DOMAIN reader.previous : reader.previous[i].signal = s
    /\ \A i \in DOMAIN reader.previous : reader.previous[i].was # "record"

\* A signal that was recorded is still to be raised, or has made the read fail.
SawInv ==
    /\ reader.saw /\ reader.pc # "done" => caught # "none"
    /\ reader.saw /\ reader.pc = "done" /\ alive => reader.result = Failed

InputInv == InputTypeOK /\ ReaderOrder /\ EchoInv /\ CatcherInv /\ SawInv
-----------------------------------------------------------------------------
(* Reading a PIN: steps *)

LEMMA SignalsInjective ==
    \A i, j \in DOMAIN CAUGHT_SIGNALS : CAUGHT_SIGNALS[i] = CAUGHT_SIGNALS[j] => i = j
BY InputAssumption DEF InputAssumption

LEMMA SignalsAre ==
    /\ CAUGHT_SIGNALS \in Seq(Signals)
    /\ \A s \in Signals : \E i \in DOMAIN CAUGHT_SIGNALS : s = CAUGHT_SIGNALS[i]
    /\ "none" \notin Signals
BY InputAssumption DEF InputAssumption, Signals

LEMMA InputInitially == InputInit => InputInv
BY SignalsAre DEF InputInit, InputInv, InputTypeOK, ReaderOrder, EchoInv, CatcherInv, SawInv,
      Idle, NoLine, TypedLines, Texts, Catching, Hidden, Ended, Actions, Replaced

\* One system call of the reader.
LEMMA InstallKeeps == InputInv /\ Install => InputInv'
<1> SUFFICES ASSUME InputInv, Install PROVE InputInv'
  OBVIOUS
<1> USE DEF InputInv
<1> DEFINE k == Len(reader.previous) + 1
           s == CAUGHT_SIGNALS[k]
<1>0. reader.previous \in Seq(Replaced) /\ Len(reader.previous) \in Nat /\ k \in Nat
  BY DEF InputTypeOK
<1>a. CASE k > Len(CAUGHT_SIGNALS)
  <2>1. reader' = [reader EXCEPT !.pc = "quiet"] /\ UNCHANGED <<interactive, echo, typed, action, caught, alive>>
    BY <1>a DEF Install, Go, terminal
  <2>2. /\ reader'.pc = "quiet" /\ reader.pc = "install"
        /\ reader'.previous = reader.previous /\ reader'.result = reader.result /\ reader'.saw = reader.saw
    BY <2>1 DEF Install, At, InputTypeOK
  <2>3. InputTypeOK'
    BY <2>1 DEF InputTypeOK, Catching
  <2>4. ReaderOrder' /\ EchoInv' /\ SawInv'
    BY <2>1, <2>2 DEF ReaderOrder, EchoInv, SawInv, Hidden
  <2>5. CatcherInv'
    BY <2>1, <2>2, <1>0, <1>a, SignalsAre DEF CatcherInv, Hidden, Ended
  <2> QED BY <2>3, <2>4, <2>5
<1>b. CASE ~(k > Len(CAUGHT_SIGNALS))
  <2>1. /\ reader' = [reader EXCEPT !.previous = Append(@, [signal |-> s, was |-> action[s]])]
        /\ action' = [action EXCEPT ![s] = "record"]
        /\ UNCHANGED <<terminal, caught, alive>>
    BY <1>b DEF Install
  <2>2. k \in DOMAIN CAUGHT_SIGNALS /\ s \in Signals
    BY <1>0, <1>b, SignalsAre
  <2>3. [signal |-> s, was |-> action[s]] \in Replaced
    BY <2>2 DEF InputTypeOK, Replaced
  <2>4. /\ reader'.previous \in Seq(Replaced) /\ Len(reader'.previous) = k
        /\ DOMAIN reader'.previous = 1..k
        /\ \A i \in 1..k : reader'.previous[i] = IF i = k THEN [signal |-> s, was |-> action[s]]
                                                ELSE reader.previous[i]
    <3>1. reader'.previous = Append(reader.previous, [signal |-> s, was |-> action[s]])
      BY <2>1 DEF InputTypeOK
    <3> QED BY <3>1, <2>3, <1>0
  <2>5. InputTypeOK'
    BY <2>1, <2>2, <2>4, Zenon DEF InputTypeOK, Actions, terminal
  <2>6. ReaderOrder' /\ EchoInv' /\ SawInv'
    BY <2>1, <2>4 DEF InputTypeOK, Install, At, ReaderOrder, EchoInv, SawInv, Hidden, terminal
  <2>7. reader.pc = "install" /\ reader'.pc = "install"
    BY <2>1 DEF Install, At, InputTypeOK
  <2>8. \A i \in DOMAIN CAUGHT_SIGNALS : action'[CAUGHT_SIGNALS[i]] = "record" <=> i <= k
    BY <2>1, <2>2, <2>7, <1>0, SignalsAre, SignalsInjective DEF InputTypeOK, CatcherInv
  <2>9. action[s] # "record"
    BY <2>2, <2>7, <1>0 DEF CatcherInv
  <2>10. \A t \in Signals : action'[t] = "record" =>
            \E i \in DOMAIN reader'.previous : reader'.previous[i].signal = t
    <3> SUFFICES ASSUME NEW t \in Signals, action'[t] = "record"
                 PROVE \E i \in 1..k : reader'.previous[i].signal = t
      BY <2>4
    <3>1. CASE t = s
      BY <3>1, <2>4, <1>0
    <3>2. CASE t # s
      <4>1. PICK i \in DOMAIN reader.previous : reader.previous[i].signal = t
        BY <3>2, <2>1, <2>2 DEF InputTypeOK, CatcherInv
      <4> QED BY <4>1, <2>4, <1>0
    <3> QED BY <3>1, <3>2
  <2>11. \A i \in DOMAIN reader'.previous : reader'.previous[i].was # "record"
    BY <2>4, <2>9, <1>0 DEF CatcherInv
  <2>12. CatcherInv'
    BY <2>4, <2>7, <2>8, <2>10, <2>11, <2>2, <1>0, <1>b, SignalsAre DEF CatcherInv, Hidden, Ended
  <2> QED BY <2>5, <2>6, <2>12
<1> QED BY <1>a, <1>b

\* The steps between the installation of the catcher and its removal.
LEMMA HiddenKeeps ==
    ASSUME InputInv, InputTypeOK', alive,
           reader.pc \in Hidden \union {"quiet"}, reader'.pc \in Hidden \union {"reinstate"},
           reader'.previous = reader.previous, reader'.saw = reader.saw, ~reader'.result.shown,
           echo' <=> reader'.pc \notin Hidden, ~echo' => ~typed'.shown,
           UNCHANGED <<interactive, action, caught, alive>>
    PROVE  InputInv'
<1> USE DEF InputInv
<1>1. ReaderOrder' /\ EchoInv' /\ SawInv'
  BY DEF ReaderOrder, EchoInv, SawInv, Hidden
<1>2. CatcherInv'
  BY DEF CatcherInv, Hidden, Ended
<1> QED BY <1>1, <1>2

LEMMA LineTypes == NoLine \in TypedLines /\ Failed \in TypedLines /\ ~NoLine.shown /\ ~Failed.shown
BY DEF NoLine, Failed, TypedLines, Texts

\* What Go and Give make of the reader.
LEMMA Gone ==
    ASSUME InputTypeOK, NEW p \in Catching \union Ended, Go(p)
    PROVE  /\ reader' \in [pc : Catching \union Ended, previous : Seq(Replaced), result : TypedLines, saw : BOOLEAN]
           /\ reader'.pc = p /\ reader'.result = reader.result
           /\ reader'.previous = reader.previous /\ reader'.saw = reader.saw
BY DEF InputTypeOK, Go

LEMMA Given ==
    ASSUME InputTypeOK, NEW p \in Catching \union Ended, NEW r \in TypedLines, Give(p, r)
    PROVE  /\ reader' \in [pc : Catching \union Ended, previous : Seq(Replaced), result : TypedLines, saw : BOOLEAN]
           /\ reader'.pc = p /\ reader'.result = r
           /\ reader'.previous = reader.previous /\ reader'.saw = reader.saw
BY Zenon DEF InputTypeOK, Give

LEMMA EchoDisabledKeeps == InputInv /\ EchoDisabled => InputInv'
<1> SUFFICES ASSUME InputInv, EchoDisabled PROVE InputInv'
  OBVIOUS
<1> USE DEF InputInv
<1>1. /\ alive /\ reader.pc = "quiet" /\ interactive /\ echo /\ ~reader.result.shown
      /\ UNCHANGED <<interactive, action, caught, alive>>
  BY DEF EchoDisabled, At, process, ReaderOrder, EchoInv, Hidden
<1>2. CASE echo' = FALSE /\ typed' = NoLine /\ Go("check")
  <2>2. "check" \in Catching \union Ended
    BY DEF Catching, Hidden
  <2>1. InputTypeOK'
    BY <1>1, <1>2, <2>2, Gone, LineTypes, Zenon DEF InputTypeOK
  <2> QED BY <1>1, <1>2, <2>1, <2>2, Gone, LineTypes, HiddenKeeps DEF Hidden
<1>3. CASE echo' = FALSE /\ typed' = NoLine /\ Give("restore", Failed)
  <2>2. "restore" \in Catching \union Ended
    BY DEF Catching, Hidden
  <2>1. InputTypeOK'
    BY <1>1, <1>3, <2>2, Given, LineTypes, Zenon DEF InputTypeOK
  <2> QED BY <1>1, <1>3, <2>1, <2>2, Given, LineTypes, HiddenKeeps DEF Hidden
<1>4. CASE Give("reinstate", Failed) /\ UNCHANGED <<echo, typed>>
  <2>2. "reinstate" \in Catching \union Ended
    BY DEF Catching
  <2>1. InputTypeOK'
    BY <1>1, <1>4, <2>2, Given, LineTypes DEF InputTypeOK
  <2> QED BY <1>1, <1>4, <2>1, <2>2, Given, LineTypes, HiddenKeeps DEF Hidden
<1> QED BY <1>2, <1>3, <1>4 DEF EchoDisabled

LEMMA CheckCallKeeps == InputInv /\ (Check \/ Call) => InputInv'
<1> SUFFICES ASSUME InputInv, Check \/ Call PROVE InputInv'
  OBVIOUS
<1> USE DEF InputInv
<1>1. /\ alive /\ reader.pc \in Hidden /\ UNCHANGED <<interactive, echo, typed, action, caught, alive>>
      /\ Give("restore", Failed) \/ Go("call") \/ Go("read")
  BY DEF Check, Call, At, process, terminal, Hidden
<1>2. interactive /\ ~echo /\ ~typed.shown /\ ~reader.result.shown
  BY <1>1 DEF ReaderOrder, EchoInv, Hidden
<1>3. /\ reader' \in [pc : Catching \union Ended, previous : Seq(Replaced), result : TypedLines, saw : BOOLEAN]
      /\ reader'.pc \in Hidden /\ ~reader'.result.shown
      /\ reader'.previous = reader.previous /\ reader'.saw = reader.saw
  <2>1. {"restore", "call", "read"} \subseteq Catching \union Ended /\ {"restore", "call", "read"} \subseteq Hidden
    BY DEF Catching, Hidden
  <2>2. CASE Give("restore", Failed)
    BY <2>1, <2>2, Given, LineTypes
  <2>3. CASE Go("call")
    BY <2>1, <2>3, <1>2, Gone
  <2>4. CASE Go("read")
    BY <2>1, <2>4, <1>2, Gone
  <2> QED BY <1>1, <2>2, <2>3, <2>4
<1>4. InputTypeOK'
  BY <1>1, <1>3 DEF InputTypeOK
<1> QED BY <1>1, <1>2, <1>3, <1>4, HiddenKeeps DEF InputTypeOK

LEMMA FinishLineType == \A l \in TypedLines : FinishLine(l) \in {l, Failed}
BY DEF FinishLine

LEMMA ReadKeeps == InputInv /\ Read => InputInv'
<1> SUFFICES ASSUME InputInv, Read PROVE InputInv'
  OBVIOUS
<1> USE DEF InputInv
<1>1. /\ alive /\ reader.pc = "read" /\ UNCHANGED <<interactive, echo, action, caught, alive>>
      /\ Give("restore", FinishLine(typed)) \/ Give("restore", Failed)
      /\ typed' \in {typed, NoLine}
  BY DEF Read, At, process
<1>2. ~echo /\ ~typed.shown
  BY <1>1 DEF EchoInv, Hidden
<1>3. /\ FinishLine(typed) \in TypedLines /\ ~FinishLine(typed).shown /\ typed' \in TypedLines /\ ~typed'.shown
  BY <1>1, <1>2, LineTypes, FinishLineType DEF InputTypeOK
<1>4. /\ reader' \in [pc : Catching \union Ended, previous : Seq(Replaced), result : TypedLines, saw : BOOLEAN]
      /\ reader'.pc = "restore" /\ ~reader'.result.shown
      /\ reader'.previous = reader.previous /\ reader'.saw = reader.saw
  <2>1. "restore" \in Catching \union Ended
    BY DEF Catching, Hidden
  <2> QED BY <2>1, <1>1, <1>3, Given, LineTypes
<1>5. InputTypeOK'
  BY <1>1, <1>3, <1>4 DEF InputTypeOK
<1> QED BY <1>1, <1>2, <1>3, <1>4, <1>5, HiddenKeeps DEF Hidden

LEMMA RestoreEchoKeeps == InputInv /\ RestoreEcho => InputInv'
<1> SUFFICES ASSUME InputInv, RestoreEcho PROVE InputInv'
  OBVIOUS
<1> USE DEF InputInv
<1>1. /\ alive /\ reader.pc = "restore" /\ echo' = TRUE /\ typed' = NoLine /\ Go("reinstate")
      /\ UNCHANGED <<interactive, action, caught, alive>>
  BY DEF RestoreEcho, At, process
<1>2. ~reader.result.shown
  BY <1>1 DEF EchoInv, ReaderOrder
<1>3. "reinstate" \in Catching \union Ended
  BY DEF Catching
<1>4. InputTypeOK'
  BY <1>1, <1>3, Gone, LineTypes DEF InputTypeOK
<1> QED BY <1>1, <1>2, <1>3, <1>4, Gone, HiddenKeeps DEF Hidden

LEMMA ReinstateKeeps == InputInv /\ Reinstate => InputInv'
<1> SUFFICES ASSUME InputInv, Reinstate PROVE InputInv'
  OBVIOUS
<1> USE DEF InputInv
<1>0. /\ reader.pc = "reinstate" /\ UNCHANGED <<interactive, echo, typed, caught, alive>>
      /\ reader.previous \in Seq(Replaced)
  BY DEF Reinstate, At, terminal, InputTypeOK
<1>a. CASE reader.previous = <<>>
  <2>1. reader' = [reader EXCEPT !.pc = "raise"] /\ action' = action
    BY <1>a DEF Reinstate, Go
  <2>2. /\ reader'.pc = "raise" /\ reader'.previous = reader.previous
        /\ reader'.result = reader.result /\ reader'.saw = reader.saw
    BY <2>1 DEF InputTypeOK
  <2>3. InputTypeOK'
    BY <2>1, <1>0 DEF InputTypeOK, Ended
  <2>4. ReaderOrder' /\ EchoInv' /\ SawInv'
    BY <2>1, <2>2, <1>0 DEF ReaderOrder, EchoInv, SawInv, Hidden
  <2>5. CatcherInv'
    BY <2>1, <2>2, <1>0, <1>a DEF CatcherInv, Hidden, Ended
  <2> QED BY <2>3, <2>4, <2>5
<1>b. CASE reader.previous # <<>>
  <2> DEFINE h == Head(reader.previous)
             n == Len(reader.previous)
  <2>1. /\ reader' = [reader EXCEPT !.previous = Tail(@)]
        /\ action' = [action EXCEPT ![h.signal] = h.was]
    BY <1>b DEF Reinstate
  <2>2. /\ h = reader.previous[1] /\ n \in Nat \ {0} /\ h \in Replaced
        /\ Tail(reader.previous) \in Seq(Replaced) /\ Len(Tail(reader.previous)) = n - 1
        /\ \A i \in 1..(n - 1) : Tail(reader.previous)[i] = reader.previous[i + 1]
        /\ 1 \in DOMAIN reader.previous
    BY <1>b, <1>0
  <2>3. /\ reader'.pc = "reinstate" /\ reader'.previous = Tail(reader.previous)
        /\ reader'.result = reader.result /\ reader'.saw = reader.saw
    BY <2>1, <1>0 DEF InputTypeOK
  <2>3a. DOMAIN reader'.previous = 1..(n - 1)
    BY <2>2, <2>3
  <2>4. h.was # "record" /\ h.was \in Actions /\ h.signal \in Signals
    BY <2>2 DEF CatcherInv, Replaced
  <2>5. action' \in [Signals -> Actions] /\ \A s \in Signals : action'[s] = IF s = h.signal THEN h.was ELSE action[s]
    BY <2>1, <2>4 DEF InputTypeOK
  <2>6. InputTypeOK'
    BY <2>1, <2>2, <2>5, <1>0, Zenon DEF InputTypeOK
  <2>7. ReaderOrder' /\ EchoInv' /\ SawInv'
    BY <2>3, <1>0 DEF ReaderOrder, EchoInv, SawInv, Hidden
  <2>8. \A s \in Signals : action'[s] = "record" =>
            \E i \in DOMAIN reader'.previous : reader'.previous[i].signal = s
    <3> SUFFICES ASSUME NEW s \in Signals, action'[s] = "record"
                 PROVE  \E i \in 1..(n - 1) : reader'.previous[i].signal = s
      BY <2>3a
    <3>1. s # h.signal /\ action[s] = "record"
      BY <2>4, <2>5
    <3>2. PICK i \in DOMAIN reader.previous : reader.previous[i].signal = s
      BY <3>1 DEF CatcherInv
    <3>3. i \in 1..n /\ i # 1
      BY <3>1, <3>2, <2>2, <1>0
    <3>4. i - 1 \in 1..(n - 1) /\ (i - 1) + 1 = i
      BY <3>3, <2>2
    <3>5. Tail(reader.previous)[i - 1] = reader.previous[i]
      BY <3>4, <2>2
    <3> QED BY <3>2, <3>4, <3>5, <2>3
  <2>9. \A i \in DOMAIN reader'.previous : reader'.previous[i].was # "record"
    <3> SUFFICES ASSUME NEW i \in 1..(n - 1) PROVE reader'.previous[i].was # "record"
      BY <2>3a
    <3>1. i + 1 \in DOMAIN reader.previous
      BY <2>2, <1>0
    <3> QED BY <3>1, <2>2, <2>3 DEF CatcherInv
  <2>10. CatcherInv'
    BY <2>3, <2>8, <2>9 DEF CatcherInv, Hidden, Ended
  <2> QED BY <2>6, <2>7, <2>10
<1> QED BY <1>a, <1>b

\* A reader at its end, or about to raise the signal that was caught.
LEMMA EndKeeps ==
    ASSUME InputInv, InputTypeOK', reader.pc \in {"raise", "read_line"}, reader'.pc = "done",
           reader'.previous = reader.previous, reader'.saw = reader.saw,
           interactive => ~reader'.result.shown,
           reader.saw /\ alive' => reader'.result = Failed,
           UNCHANGED <<interactive, echo, action>>
    PROVE  InputInv'
<1> USE DEF InputInv
<1>0. echo
  BY DEF EchoInv, Hidden
<1>1. ReaderOrder' /\ EchoInv' /\ SawInv'
  BY <1>0 DEF ReaderOrder, EchoInv, SawInv, Hidden
<1>2. CatcherInv'
  BY DEF CatcherInv, Hidden, Ended
<1> QED BY <1>1, <1>2

LEMMA RaiseKeeps == InputInv /\ Raise => InputInv'
<1> SUFFICES ASSUME InputInv, Raise PROVE InputInv'
  OBVIOUS
<1> USE DEF InputInv
<1>1. /\ reader.pc = "raise" /\ caught' = "none" /\ UNCHANGED <<interactive, echo, typed, action>>
      /\ IF caught = "none" THEN Go("done") /\ alive' = alive
         ELSE Give("done", Failed) /\ alive' = (action[caught] # "default")
  BY Zenon DEF Raise, At, terminal
<1>2. "done" \in Catching \union Ended
  BY DEF Ended
<1>3. interactive /\ ~reader.result.shown
  BY <1>1 DEF ReaderOrder, EchoInv
<1>4. reader.saw => caught # "none"
  BY <1>1 DEF SawInv
<1>5. CASE caught = "none"
  <2>1. InputTypeOK'
    BY <1>1, <1>2, <1>5, Gone DEF InputTypeOK
  <2> QED BY <1>1, <1>2, <1>3, <1>4, <1>5, <2>1, Gone, EndKeeps
<1>6. CASE caught # "none"
  <2>1. InputTypeOK'
    BY <1>1, <1>2, <1>6, Given, LineTypes DEF InputTypeOK
  <2> QED BY <1>1, <1>2, <1>3, <1>6, <2>1, Given, LineTypes, EndKeeps
<1> QED BY <1>5, <1>6

LEMMA ReadLineKeeps == InputInv /\ ReadLine => InputInv'
<1> SUFFICES ASSUME InputInv, ReadLine PROVE InputInv'
  OBVIOUS
<1> USE DEF InputInv
<1>1. /\ reader.pc = "read_line" /\ UNCHANGED <<interactive, echo, action, caught, alive>>
      /\ Give("done", FinishLine(typed)) \/ Give("done", Failed)
      /\ typed' \in {typed, NoLine}
  BY DEF ReadLine, At, process
<1>2. ~interactive /\ ~reader.saw
  BY <1>1 DEF ReaderOrder
<1>3. FinishLine(typed) \in TypedLines /\ typed' \in TypedLines
  BY <1>1, LineTypes, FinishLineType DEF InputTypeOK
<1>4. /\ reader' \in [pc : Catching \union Ended, previous : Seq(Replaced), result : TypedLines, saw : BOOLEAN]
      /\ reader'.pc = "done"
      /\ reader'.previous = reader.previous /\ reader'.saw = reader.saw
  <2>1. "done" \in Catching \union Ended
    BY DEF Ended
  <2> QED BY <2>1, <1>1, <1>3, Given, LineTypes
<1>5. InputTypeOK'
  BY <1>1, <1>3, <1>4 DEF InputTypeOK
<1> QED BY <1>1, <1>2, <1>4, <1>5, EndKeeps

LEMMA ReadingKeeps == InputInv /\ ReaderStep => InputInv'
BY InstallKeeps, EchoDisabledKeeps, CheckCallKeeps, ReadKeeps, RestoreEchoKeeps, ReinstateKeeps,
   RaiseKeeps, ReadLineKeeps DEF ReaderStep

LEMMA TypeKeeps == ASSUME InputInv, NEW line \in Lines, Type(line) PROVE InputInv'
<1> USE DEF InputInv
<1>1. /\ typed' = [text |-> line, shown |-> echo]
      /\ UNCHANGED <<interactive, echo, action, caught, alive, reader>>
  BY DEF Type, process
<1>2. InputTypeOK'
  BY <1>1 DEF InputTypeOK, TypedLines, Texts
<1>3. ReaderOrder' /\ EchoInv' /\ SawInv'
  BY <1>1 DEF ReaderOrder, EchoInv, SawInv
<1>4. CatcherInv'
  BY <1>1 DEF CatcherInv
<1> QED BY <1>2, <1>3, <1>4

LEMMA SignalKeeps == ASSUME InputInv, NEW s \in Signals, Signal(s) PROVE InputInv'
<1> USE DEF InputInv
<1>0. UNCHANGED <<interactive, echo, typed>> /\ alive' \in BOOLEAN /\ alive /\ "none" \notin Signals
  BY SignalsAre DEF Signal, terminal
<1>a. CASE action[s] = "record"
  <2>1. /\ caught' = s /\ action' = action
        /\ reader' = [reader EXCEPT !.saw = TRUE, !.pc = IF @ = "read" THEN "check" ELSE @]
    BY <1>a DEF Signal
  <2>2. /\ reader'.pc = (IF reader.pc = "read" THEN "check" ELSE reader.pc)
        /\ reader'.previous = reader.previous /\ reader'.result = reader.result /\ reader'.saw = TRUE
    BY <2>1 DEF InputTypeOK
  <2>3. reader.pc \notin Ended
    BY <1>a DEF CatcherInv
  <2>4. InputTypeOK'
    BY <2>1, <1>0, Zenon DEF InputTypeOK, Catching, Hidden
  <2>5. alive' = TRUE
    BY <1>a, Zenon DEF Signal
  <2>7. ReaderOrder' /\ EchoInv' /\ SawInv'
    BY <2>1, <2>2, <2>3, <2>5, <1>0 DEF ReaderOrder, EchoInv, SawInv, Hidden, Ended
  <2>6. CatcherInv'
    BY <2>1, <2>2, <2>3 DEF CatcherInv, Hidden, Ended
  <2> QED BY <2>4, <2>6, <2>7
<1>b. CASE action[s] # "record"
  <2>1. /\ caught' \in {s, caught} /\ reader' = reader
        /\ action' = IF action[s] = "cancel" THEN [action EXCEPT ![s] = "default"] ELSE action
    BY <1>b DEF Signal
  <2>2. /\ action' \in [Signals -> Actions]
        /\ \A t \in Signals : (action'[t] = "record") <=> (action[t] = "record")
    BY <2>1, <1>b DEF InputTypeOK, Actions
  <2>3. InputTypeOK'
    BY <2>1, <2>2, <1>0 DEF InputTypeOK
  <2>6. reader.pc \notin Hidden
    BY <1>b DEF CatcherInv
  <2>4. ReaderOrder' /\ EchoInv' /\ SawInv'
    BY <2>1, <2>6, <1>0 DEF ReaderOrder, EchoInv, SawInv
  <2>5. CatcherInv'
    <3>1. \A i \in DOMAIN CAUGHT_SIGNALS :
             (action'[CAUGHT_SIGNALS[i]] = "record") <=> (action[CAUGHT_SIGNALS[i]] = "record")
      BY <2>2, SignalsAre
    <3> QED BY <2>1, <2>2, <3>1 DEF CatcherInv
  <2> QED BY <2>3, <2>4, <2>5
<1> QED BY <1>a, <1>b

LEMMA BeginReadKeeps == InputInv /\ BeginRead => InputInv'
<1> SUFFICES ASSUME InputInv, BeginRead PROVE InputInv'
  OBVIOUS
<1> USE DEF InputInv
<1>1. /\ reader' = [Idle EXCEPT !.pc = IF interactive THEN "install" ELSE "read_line"]
      /\ caught' = IF interactive THEN "none" ELSE caught
      /\ reader.pc = "idle"
      /\ UNCHANGED <<interactive, echo, typed, action, alive>>
  BY DEF BeginRead, At, terminal
<1>2. /\ reader'.pc = (IF interactive THEN "install" ELSE "read_line")
      /\ reader'.previous = <<>> /\ reader'.result = NoLine /\ reader'.saw = FALSE
      /\ reader' \in [pc : Catching \union Ended, previous : Seq(Replaced), result : TypedLines, saw : BOOLEAN]
  <2>1. <<>> \in Seq(Replaced) /\ {"install", "read_line"} \subseteq Catching \union Ended
    BY DEF Catching, Ended
  <2> QED BY <1>1, <2>1, LineTypes, Zenon DEF Idle, InputTypeOK
<1>3. InputTypeOK'
  BY <1>1, <1>2 DEF InputTypeOK
<1>4. echo /\ \A s \in Signals : action[s] # "record"
  BY <1>1 DEF EchoInv, CatcherInv, Hidden, Ended
<1>5. ReaderOrder' /\ EchoInv' /\ SawInv'
  BY <1>1, <1>2, <1>4, LineTypes DEF ReaderOrder, EchoInv, SawInv, Hidden, InputTypeOK
<1>6. CatcherInv'
  <2>1. Len(reader'.previous) = 0 /\ DOMAIN reader'.previous = {}
    BY <1>2
  <2>2. \A i \in DOMAIN CAUGHT_SIGNALS : action'[CAUGHT_SIGNALS[i]] # "record" /\ ~(i <= 0) /\ 0 <= Len(CAUGHT_SIGNALS)
    BY <1>1, <1>4, SignalsAre
  <2>3. 0 <= Len(CAUGHT_SIGNALS)
    BY SignalsAre
  <2> QED BY <1>1, <1>2, <1>4, <2>1, <2>2, <2>3 DEF CatcherInv, Hidden, Ended
<1> QED BY <1>3, <1>5, <1>6

\* The command takes the line and leaves the reader.
LEMMA TakenKeeps ==
    InputInv /\ reader.pc = "done" /\ reader' = Idle /\ UNCHANGED <<terminal, process>> => InputInv'
<1> SUFFICES ASSUME InputInv, reader.pc = "done", reader' = Idle, UNCHANGED <<terminal, process>> PROVE InputInv'
  OBVIOUS
<1> USE DEF InputInv
<1>1. UNCHANGED <<interactive, echo, typed, action, caught, alive>>
  BY DEF terminal, process
<1>2. /\ reader'.pc = "idle" /\ reader'.previous = <<>> /\ reader'.result = NoLine /\ reader'.saw = FALSE
      /\ reader' \in [pc : Catching \union Ended, previous : Seq(Replaced), result : TypedLines, saw : BOOLEAN]
  BY LineTypes DEF Idle, Ended
<1>3. InputTypeOK'
  BY <1>1, <1>2 DEF InputTypeOK
<1>4. ReaderOrder' /\ EchoInv' /\ SawInv'
  BY <1>1, <1>2, LineTypes DEF ReaderOrder, EchoInv, SawInv, Hidden
<1>5. CatcherInv'
  <2>1. DOMAIN reader'.previous = {}
    BY <1>2
  <2> QED BY <1>1, <1>2, <2>1 DEF CatcherInv, Hidden, Ended
<1> QED BY <1>3, <1>4, <1>5

\* A reset takes a signal over, while no PIN is read.
LEMMA CancelKeeps ==
    ASSUME InputInv, reader.pc = "idle", NEW s, action' = [action EXCEPT ![s] = "cancel"], caught' = "none",
           UNCHANGED <<interactive, echo, typed, alive, reader>>
    PROVE  InputInv'
<1> USE DEF InputInv
<1>1. /\ action' \in [Signals -> Actions]
      /\ \A t \in Signals : action'[t] # "record"
  BY Zenon DEF InputTypeOK, Actions, CatcherInv, Ended
<1>2. InputTypeOK'
  BY <1>1 DEF InputTypeOK
<1>3. ReaderOrder' /\ EchoInv' /\ SawInv'
  BY DEF ReaderOrder, EchoInv, SawInv, Hidden
<1>4. CatcherInv'
  BY <1>1 DEF CatcherInv, Hidden, Ended
<1> QED BY <1>2, <1>3, <1>4

\* A step of another part of the program.
LEMMA ElsewhereKeeps == InputInv /\ UNCHANGED inputVars => InputInv'
<1> SUFFICES ASSUME InputInv, UNCHANGED inputVars PROVE InputInv'
  OBVIOUS
<1> USE DEF InputInv
<1>1. UNCHANGED <<interactive, echo, typed, action, caught, alive, reader>>
  BY DEF inputVars, terminal, process
<1>2. InputTypeOK' /\ ReaderOrder' /\ EchoInv' /\ SawInv'
  BY <1>1 DEF InputTypeOK, ReaderOrder, EchoInv, SawInv
<1>3. CatcherInv'
  BY <1>1 DEF CatcherInv
<1> QED BY <1>2, <1>3


LEMMA InputSafe == InputInv => TerminalRestored /\ PinHidden /\ SignalsKept
<1> SUFFICES ASSUME InputInv PROVE TerminalRestored /\ PinHidden /\ SignalsKept
  OBVIOUS
<1>1. PinHidden /\ SignalsKept
  BY DEF InputInv, EchoInv, SawInv, PinHidden, SignalsKept
<1>2. TerminalRestored
  BY DEF InputInv, EchoInv, Hidden, TerminalRestored
<1> QED BY <1>1, <1>2

-----------------------------------------------------------------------------
(* Reading a PIN, within the commands *)

\* A PIN is read only while the command waits for it.
InputIInv == InputInv /\ (pc # "reading" => reader.pc = "idle")

\* The steps that neither read a PIN nor change a signal's action.
LEMMA CommandLeavesInput ==
    \/ Start \/ Info \/ Usable \/ Agree \/ StorePin \/ Token
    \/ (\E yes \in BOOLEAN : Confirm(yes) \/ Again(yes))
    \/ Configure \/ Updated
    \/ List \/ NextRps \/ BeginListed \/ NextListed \/ Match \/ DeletePasskey
    \/ Look \/ LookRetries \/ Replug \/ After \/ AfterRetries \/ Request \/ Wait \/ Restore
    => UNCHANGED inputVars /\ pc # "reading"
BY ZenonT(30) DEF Start, Info, Usable, Agree, StorePin, Token, Confirm, Again, Configure, Updated, List, NextRps,
       BeginListed, NextListed, Match, DeletePasskey, Look, LookRetries, Replug, After, AfterRetries,
       Request, Wait, Restore, Here, outside

LEMMA SetupLeavesInput == SetupStep => UNCHANGED inputVars /\ pc # "reading"
BY Zenon DEF SetupStep, CheckCaller, Steps, Apply, Blockers, Before, Install_unit, Reload, Enable,
       prepare_session, BringUp, PlugIn, Verify, Problems, EnsurePin, Ensured, Settled, Finish, Rerun,
       Unplug, RemoveUnit, Here, sameInput

LEMMA OthersLeaveInput ==
    Other \/ OtherLists \/ WindowCloses \/ KeyStops \/ KeyStarts => UNCHANGED <<inputVars, pc>>
BY DEF Other, OtherLists, WindowCloses, KeyStops, KeyStarts

LEMMA InputStep == InputIInv /\ [Next]_vars => InputIInv'
<1> SUFFICES ASSUME InputIInv, [Next]_vars PROVE InputIInv'
  OBVIOUS
<1> USE DEF InputIInv
<1>1. CASE UNCHANGED inputVars /\ (pc' = pc \/ pc # "reading")
  BY <1>1, ElsewhereKeeps DEF inputVars
<1>2. CASE Prompt
  <2>1. BeginRead /\ pc' = "reading"
    BY <1>2 DEF Prompt, Goes
  <2> QED BY <2>1, BeginReadKeeps
<1>3. CASE Typed
  <2>1. reader.pc = "done" /\ reader' = Idle /\ UNCHANGED <<terminal, process>>
    BY <1>3 DEF Typed
  <2>2. reader'.pc = "idle"
    BY <2>1 DEF Idle
  <2> QED BY <2>1, <2>2, TakenKeeps
<1>4. CASE Register
  <2>1. /\ pc = "register" /\ action' = [action EXCEPT ![Interrupt] = "cancel"] /\ caught' = "none"
        /\ UNCHANGED <<interactive, echo, typed, alive, reader>>
    BY <1>4 DEF Register, Here, terminal
  <2> QED BY <2>1, CancelKeeps, Zenon
<1>5. CASE Reading
  <2>1. ReaderStep /\ UNCHANGED pc
    BY <1>5 DEF Reading, clientVars
  <2>2. reader.pc # "idle"
    BY <2>1 DEF ReaderStep, Install, EchoDisabled, Check, Call, Read, RestoreEcho, Reinstate, Raise,
                ReadLine, At
  <2> QED BY <2>1, <2>2, ReadingKeeps
<1>6. CASE UserTypes
  <2>1. PICK line \in Lines : Type(line)
    BY <1>6 DEF UserTypes
  <2>2. UNCHANGED <<pc, reader>>
    BY <1>6, <2>1 DEF UserTypes, clientVars, Type
  <2> QED BY <2>1, <2>2, TypeKeeps
<1>7. CASE SignalArrives
  <2>1. PICK s \in Signals : Signal(s)
    BY <1>7 DEF SignalArrives
  <2>2. UNCHANGED pc
    BY <1>7 DEF SignalArrives, clientVars
  <2>3. reader.pc = "idle" => reader' = reader
    BY <2>1 DEF Signal, InputInv, CatcherInv, Ended
  <2> QED BY <2>1, <2>2, <2>3, SignalKeeps
<1> QED
  BY <1>1, <1>2, <1>3, <1>4, <1>5, <1>6, <1>7, CommandLeavesInput, SetupLeavesInput, OthersLeaveInput
  DEF Next, CommandStep, Around, vars, clientVars

\* The invariant of the reading of a PIN holds of every command.
THEOREM InputInvariance == Spec => []InputIInv
<1>1. Init => InputIInv
  BY InputInitially DEF Init, InitFor, InputIInv, InputInit, Idle
<1> QED BY <1>1, InputStep, PTL DEF Spec

\* Whatever signal arrives between two system calls of read_hidden_line, a process that it
\* ends, or that is done reading, leaves the terminal with its echo on.
THEOREM EchoIsRestored == Spec => []TerminalRestored
<1>1. InputIInv => TerminalRestored
  BY InputSafe DEF InputIInv
<1> QED BY <1>1, InputInvariance, PTL

\* A PIN that read_hidden_line returns was not shown on the terminal, also when it was typed
\* before the prompt.
THEOREM PinIsHidden == Spec => []PinHidden
<1>1. InputIInv => PinHidden
  BY InputSafe DEF InputIInv
<1> QED BY <1>1, InputInvariance, PTL

\* A signal that record_signal caught during a read makes the read fail, if it does not end
\* the process.
THEOREM SignalIsKept == Spec => []SignalsKept
<1>1. InputIInv => SignalsKept
  BY InputSafe DEF InputIInv
<1> QED BY <1>1, InputInvariance, PTL
-----------------------------------------------------------------------------
(* The key a command leaves, and what setup says of it: the inductive invariant *)

KeyShape(k) == {"inst", "starts", "pin"} \subseteq DOMAIN k /\ k.inst \in Nat /\ k.starts \in Nat
MyNames == {"was", "restarted", "helped", "result", "conn", "wiped"}
MyShape == MyNames \subseteq DOMAIN my

\* Where a reset may be.
ResetPcs ==
    {"start", "confirm", "look", "look_retries", "replug", "after", "after_retries", "again",
     "register", "request", "wait", "restore", "exit"}

\* Until a reset has started the key itself, the key is as it was found; from then on it runs,
\* up to the end of the reset.
ResetInv ==
    cmd.name = "reset" =>
        /\ pc \in ResetPcs
        /\ pc \in {"start", "confirm"} => ~my.restarted
        /\ pc # "start" /\ ~my.helped =>
              IF pc = "exit" \/ ~my.restarted THEN (key.inst # 0) <=> (my.was # 0) ELSE key.inst # 0

\* What a reset says, it says with the words of its result.
ResultInv == my.result \in {"none", "error", "kept", "reset", "nothing erased"}

\* setup has seen a PIN before it finishes, and others only take it away; it says last
\* that the key is ready, of the key and the process it has just verified.
ReadyInv ==
    /\ pc \in {"settled", "finish"} => PinSet(key) \/ my.wiped
    /\ report.said = "ready" => pc = "exit" /\ SetupReady

CommandInv == KeyShape(key) /\ MyShape /\ ResetInv /\ ResultInv /\ ReadyInv
-----------------------------------------------------------------------------
(* What requests leave of the key *)

\* A request changes neither whether the key runs nor how often it has been started.
Same(j, k) == KeyShape(j) /\ j.inst = k.inst

LEMMA ForgetSame == ASSUME NEW k, KeyShape(k) PROVE Same(Forget(k), k) /\ Forget(k).pin = k.pin
BY DEF KeyShape, Same, Forget

LEMMA ErasedSame == ASSUME NEW k, KeyShape(k) PROVE Same(Erased(k), k)
BY ForgetSame DEF KeyShape, Same, Erased

LEMMA WithPinSame == ASSUME NEW k, KeyShape(k), NEW p PROVE Same(WithPin(k, p), k)
BY DEF KeyShape, Same, WithPin

LEMMA SetPinSame == ASSUME NEW k, KeyShape(k), NEW p, NEW agreed PROVE Same(SetPin(k, p, agreed).key, k)
BY WithPinSame DEF KeyShape, Same, SetPin, Answer

LEMMA CheckedSame ==
    ASSUME NEW k, KeyShape(k) PROVE
        /\ Same([k EXCEPT !.retries = MAX_PIN_RETRIES, !.wrong = 0], k)
        /\ Same([k EXCEPT !.retries = @ - 1, !.wrong = @ + 1], k)
BY DEF KeyShape, Same

LEMMA ChangePinSame ==
    ASSUME NEW k, KeyShape(k), NEW c, NEW p, NEW agreed PROVE Same(ChangePin(k, c, p, agreed).key, k)
BY CheckedSame, WithPinSame, ZenonT(30) DEF Same, ChangePin, CheckedPin, Answer

LEMMA WrongPinSame ==
    ASSUME NEW k, KeyShape(k) PROVE Same(CheckedPin(k, FALSE, LAMBDA ok : Answer(ok, "Ok")).key, k)
BY CheckedSame, Zenon DEF Same, CheckedPin, Answer

LEMMA GetTokenSame ==
    ASSUME NEW k, KeyShape(k), NEW p, NEW agreed, NEW t PROVE Same(GetToken(k, p, agreed, t).key, k)
<1> DEFINE ok == [k EXCEPT !.retries = MAX_PIN_RETRIES, !.wrong = 0]
<1>1. Same(ok, k) /\ Same([ok EXCEPT !.token = t], k)
  BY CheckedSame DEF KeyShape, Same
<1> QED BY <1>1, CheckedSame, Zenon DEF Same, GetToken, CheckedPin, Answer

LEMMA InContextSame ==
    ASSUME NEW k, KeyShape(k), NEW t PROVE Same(InContext(k, t), k) /\ InContext(k, t).pin = k.pin
BY ForgetSame DEF Same, InContext

\* Listing passkeys leaves the PIN as well.
LEMMA BeginRpsSame ==
    ASSUME NEW k, KeyShape(k), NEW t PROVE Same(BeginRps(k, t).key, k) /\ BeginRps(k, t).key.pin = k.pin
<1> DEFINE j == InContext(k, t)
<1>1. Same(j, k) /\ j.pin = k.pin
  BY InContextSame
<1>2. ASSUME NEW c PROVE Same([j EXCEPT !.rps = c], k) /\ [j EXCEPT !.rps = c].pin = k.pin
  BY <1>1 DEF KeyShape, Same
<1> HIDE DEF j
<1> QED BY <1>1, <1>2, Zenon DEF Same, BeginRps, Answer, j

LEMMA BeginCredentialsSame ==
    ASSUME NEW k, KeyShape(k), NEW t, NEW rp
    PROVE  Same(BeginCredentials(k, t, rp).key, k) /\ BeginCredentials(k, t, rp).key.pin = k.pin
<1> DEFINE j == InContext(k, t)
<1>1. Same(j, k) /\ j.pin = k.pin
  BY InContextSame
<1>2. ASSUME NEW c PROVE Same([j EXCEPT !.creds = c], k) /\ [j EXCEPT !.creds = c].pin = k.pin
  BY <1>1 DEF KeyShape, Same
<1> HIDE DEF j
<1> QED BY <1>1, <1>2, Zenon DEF Same, BeginCredentials, Answer, j

LEMMA NextRpSame ==
    ASSUME NEW k, KeyShape(k) PROVE Same(NextRp(k).key, k) /\ NextRp(k).key.pin = k.pin
<1>1. ASSUME NEW c PROVE Same([k EXCEPT !.rps = c], k) /\ [k EXCEPT !.rps = c].pin = k.pin
  BY DEF KeyShape, Same
<1> QED BY <1>1, Zenon DEF Same, NextRp, Answer

LEMMA NextCredentialSame ==
    ASSUME NEW k, KeyShape(k) PROVE Same(NextCredential(k).key, k) /\ NextCredential(k).key.pin = k.pin
<1>1. ASSUME NEW c PROVE Same([k EXCEPT !.creds = c], k) /\ [k EXCEPT !.creds = c].pin = k.pin
  BY DEF KeyShape, Same
<1> QED BY <1>1, Zenon DEF Same, NextCredential, Answer

LEMMA OtherListsSame ==
    KeyShape(key) /\ OtherLists => my' = my /\ Same(key', key) /\ key'.pin = key.pin
<1> SUFFICES ASSUME KeyShape(key), OtherLists
             PROVE  my' = my /\ Same(key', key) /\ key'.pin = key.pin
  OBVIOUS
<1>1. /\ my' = my
      /\ \/ \E t : key' = BeginRps(key, t).key
         \/ \E t, rp : key' = BeginCredentials(key, t, rp).key
         \/ key' = NextRp(key).key
         \/ key' = NextCredential(key).key
  BY Zenon DEF OtherLists
<1>2. CASE \E t : key' = BeginRps(key, t).key
  BY <1>1, <1>2, BeginRpsSame
<1>3. CASE \E t, rp : key' = BeginCredentials(key, t, rp).key
  BY <1>1, <1>3, BeginCredentialsSame
<1>4. CASE key' = NextRp(key).key \/ key' = NextCredential(key).key
  BY <1>1, <1>4, NextRpSame, NextCredentialSame
<1> QED BY <1>1, <1>2, <1>3, <1>4

LEMMA StoredSame == ASSUME NEW k, KeyShape(k), NEW set PROVE Same([Forget(k) EXCEPT !.stored = set], k)
BY ForgetSame DEF KeyShape, Same

LEMMA DeleteSame == ASSUME NEW k, KeyShape(k), NEW t, NEW c PROVE Same(Delete(k, t, c).key, k)
BY StoredSame DEF Same, Delete, Answer

LEMMA WithPolicySame ==
    ASSUME NEW k, KeyShape(k), NEW minimum, NEW complexity, NEW force
    PROVE  Same(WithPolicy(k, minimum, complexity, force), k)
<1> DEFINE demands == k.force \/ force \/ (PinSet(k) /\ PinLength[k.pin] < minimum)
           changed == [k EXCEPT !.minimum = minimum, !.complexity = complexity, !.force = demands]
<1>1. Same(changed, k)
  BY DEF KeyShape, Same
<1>2. Same(Forget(changed), k)
  BY <1>1, ForgetSame, Zenon DEF Same
<1> HIDE DEF changed, demands
<1>3. Same([Forget(changed) EXCEPT !.generation = @ + 1, !.token = NoToken], k)
  BY <1>2 DEF KeyShape, Same
<1> QED BY <1>1, <1>3 DEF WithPolicy, changed, demands

LEMMA ConfiguredSame ==
    ASSUME NEW k, KeyShape(k), NEW name, NEW t PROVE Same(Configured(k, name, t).key, k)
<1>1. ASSUME NEW b PROVE Same([k EXCEPT !.always_uv = b], k)
  BY DEF KeyShape, Same
<1>2. Configured(k, name, t).key \in
        {k, [k EXCEPT !.always_uv = ~k.always_uv], WithPolicy(k, LongerMinimum, k.complexity, FALSE),
         WithPolicy(k, k.minimum, TRUE, ~k.complexity /\ PinSet(k)), WithPolicy(k, k.minimum, k.complexity, TRUE)}
  BY DEF Configured, Answer
<1>3. Same(k, k)
  BY DEF Same
<1>4. /\ Same(WithPolicy(k, LongerMinimum, k.complexity, FALSE), k)
      /\ Same(WithPolicy(k, k.minimum, TRUE, ~k.complexity /\ PinSet(k)), k)
      /\ Same(WithPolicy(k, k.minimum, k.complexity, TRUE), k)
      /\ Same([k EXCEPT !.always_uv = ~k.always_uv], k)
  BY <1>1, WithPolicySame, Zenon
<1> QED BY <1>2, <1>3, <1>4, Zenon

\* A start numbers the key anew, with a number that says that it runs.
LEMMA StartsRunning ==
    ASSUME NEW k, KeyShape(k), NEW j \in Starts(k) PROVE KeyShape(j) /\ j.inst # 0 /\ j.pin = k.pin
<1>1. PICK readable : j = Started(k, k.starts + 1, readable)
  BY Zenon DEF Starts
<1>2. k.starts + 1 \in Nat /\ k.starts + 1 # 0
  BY DEF KeyShape
<1>3. ASSUME NEW n \in Nat PROVE /\ KeyShape(Started(k, n, readable)) /\ Started(k, n, readable).inst = n
                                 /\ Started(k, n, readable).pin = k.pin
  BY DEF KeyShape, Started
<1> QED BY <1>1, <1>2, <1>3

LEMMA StoppedShape ==
    ASSUME NEW k, KeyShape(k) PROVE KeyShape([k EXCEPT !.inst = 0]) /\ [k EXCEPT !.inst = 0].inst = 0 /\ [k EXCEPT !.inst = 0].pin = k.pin
BY DEF KeyShape

LEMMA ByOthersSame == KeyShape(key) => \A k \in ByOthers : Same(k, key)
<1> SUFFICES ASSUME KeyShape(key), NEW k \in ByOthers PROVE Same(k, key)
  OBVIOUS
<1> DEFINE wrong == IF PinSet(key) THEN {CheckedPin(key, FALSE, LAMBDA ok : Answer(ok, "Ok")).key} ELSE {}
           tokens == {GetToken(key, key.pin, TRUE, TokenOf("other", permission)).key : permission \in {"cm", "acfg"}}
           pins == {SetPin(key, pin, TRUE).key : pin \in Lines \ NotText}
           changes == {ChangePin(key, key.pin, pin, TRUE).key : pin \in Lines \ NotText}
           settings == {Configured(key, name, TokenOf("other", "acfg")).key : name \in Settings}
           adds == {[Forget(key) EXCEPT !.stored = @ \union {c}] : c \in Passkeys}
           deletes == {Delete(key, TokenOf("other", "cm"), c).key : c \in key.stored}
           erased == IF key.window THEN {Erased(key)} ELSE {}
<1>1. ByOthers = wrong \union tokens \union pins \union changes \union settings \union adds \union deletes \union erased
  BY DEF ByOthers
<1>2. \A j \in wrong : Same(j, key)
  BY WrongPinSame, Zenon
<1>3. \A j \in tokens : Same(j, key)
  BY GetTokenSame, Zenon
<1>6. \A j \in pins : Same(j, key)
  BY SetPinSame, Zenon
<1>7. \A j \in changes : Same(j, key)
  BY ChangePinSame, Zenon
<1>8. \A j \in erased : Same(j, key)
  BY ErasedSame
<1>4. \A j \in settings \union deletes : Same(j, key)
  BY ConfiguredSame, DeleteSame
<1>5. \A j \in adds : Same(j, key)
  BY StoredSame
<1> HIDE DEF wrong, tokens, pins, changes, settings, adds, deletes, erased
<1> QED BY <1>1, <1>2, <1>3, <1>4, <1>5, <1>6, <1>7, <1>8

\* Whatever comes of a request, the key is one it leaves.
LEMMA OutcomesSame ==
    ASSUME NEW a, KeyShape(key), Same(a.key, key), NEW r \in Outcomes(a) PROVE Same(r.key, key)
BY DEF Outcomes, Answer, Same
-----------------------------------------------------------------------------
(* The key a command leaves, and what setup says of it: steps *)

\* A step of another command than reset that does not yet say that the key is ready.
Mine(m) == MyNames \subseteq DOMAIN m /\ m.result = my.result
MySame == Mine(my')
NotReady == report' = report \/ report'.said # "ready"
NoPinNeeded == pc' \notin {"settled", "finish"}
Plain ==
    /\ cmd' = cmd /\ KeyShape(key') /\ MySame /\ NotReady
    /\ pc' \in {"settled", "finish"} => PinSet(key') \/ my'.wiped

LEMMA PlainKeeps == CommandInv /\ Plain /\ pc \notin ResetPcs => CommandInv'
<1> SUFFICES ASSUME CommandInv, Plain, pc \notin ResetPcs PROVE CommandInv'
  OBVIOUS
<1>1. cmd'.name # "reset" /\ report.said # "ready"
  BY DEF CommandInv, ResetInv, ReadyInv, Plain, ResetPcs
<1>2. KeyShape(key)' /\ MyShape' /\ ResetInv' /\ ResultInv'
  BY <1>1 DEF CommandInv, ResetInv, ResultInv, Plain, MySame, Mine, MyShape
<1>3. ReadyInv'
  BY <1>1 DEF ReadyInv, Plain, NotReady
<1> QED BY <1>2, <1>3 DEF CommandInv

LEMMA EndsPlain ==
    ASSUME NEW code, NEW said, said # "ready", Ends(code, said) PROVE NotReady /\ NoPinNeeded
BY DEF Ends, NotReady, NoPinNeeded

LEMMA GoesPlain ==
    ASSUME NEW p, p \notin {"settled", "finish"}, Goes(p) PROVE NotReady /\ NoPinNeeded
BY DEF Goes, NotReady, NoPinNeeded

LEMMA MineExcept ==
    ASSUME NEW m, Mine(m), NEW f, f # "result", NEW v PROVE Mine([m EXCEPT ![f] = v])
BY DEF Mine, MyNames

LEMMA MineItself == MyShape => Mine(my)
BY DEF Mine, MyShape

LEMMA RefusedPlain == ASSUME MyShape, NEW kind, Refused(kind) PROVE MySame /\ NotReady /\ NoPinNeeded
<1>1. ASSUME NEW v PROVE Mine([my EXCEPT !.attempt = v, !.current = NoPin, !.new = NoPin, !.agreed = FALSE])
  BY MineItself, MineExcept, Zenon
<1>2. CASE /\ my' = [my EXCEPT !.attempt = @ + 1, !.current = NoPin, !.new = NoPin, !.agreed = FALSE]
           /\ Goes("info")
  BY <1>1, <1>2, Zenon DEF Goes, MySame, NotReady, NoPinNeeded
<1>3. CASE Ends(1, "error") /\ UNCHANGED my
  BY <1>3, MineItself, EndsPlain DEF MySame
<1> QED BY <1>2, <1>3 DEF Refused

LEMMA FoundPlain == ASSUME MyShape, NEW c, NEW n, Found(c, n) PROVE MySame /\ NotReady /\ NoPinNeeded
<1>1. ASSUME NEW v, NEW w, NEW x PROVE Mine([my EXCEPT !.listed = v, !.count = w, !.at = x])
  BY MineItself, MineExcept, Zenon
<1>2. MySame
  BY <1>1, Zenon DEF Found, MySame
<1>3. NotReady /\ NoPinNeeded
  BY DEF Found, Ends, Goes, NotReady, NoPinNeeded
<1> QED BY <1>2, <1>3

LEMMA InfoPlain == CommandInv /\ Info => Plain /\ pc \notin ResetPcs
<1> SUFFICES ASSUME CommandInv, Info PROVE Plain /\ pc \notin ResetPcs
  OBVIOUS
<1>1. ASSUME NEW v, NEW w PROVE Mine([my EXCEPT !.info = v, !.asking = w])
  BY MineItself, MineExcept, Zenon DEF CommandInv
<1> DEFINE m == [my EXCEPT !.info = InfoOf(key), !.asking = IF PinSet(key) THEN "current" ELSE "new"]
           next == AfterInfo(InfoOf(key))
<1>5. Mine(m)
  BY <1>1, Zenon
<1>0. \/ Ends(1, "error") /\ UNCHANGED my
      \/ my' = m /\ (Ends(0, "shown") \/ Ends(1, "no PIN") \/ Goes(next))
  BY DEF Info
<1> HIDE DEF m
<1>2. MySame
  BY <1>0, <1>5, MineItself DEF CommandInv, MySame
<1>3. AfterInfo(InfoOf(key)) \in {"usable", "prompt", "done", "updated", "configure", "confirm", "refused"}
  BY DEF AfterInfo
<1>4. NotReady /\ NoPinNeeded
  <2> HIDE DEF next
  <2>1. next \notin {"settled", "finish"}
    BY <1>3 DEF next
  <2> QED BY <1>0, <2>1, EndsPlain, GoesPlain
<1> QED BY <1>2, <1>4 DEF CommandInv, Info, Here, outside, Plain, NoPinNeeded, ResetPcs

LEMMA QuestionsPlain == CommandInv /\ (Usable \/ Updated \/ Match \/ Prompt) => Plain /\ pc \notin ResetPcs
<1> SUFFICES ASSUME CommandInv, Usable \/ Updated \/ Match \/ Prompt PROVE Plain /\ pc \notin ResetPcs
  OBVIOUS
<1>1. ASSUME NEW v PROVE Mine([my EXCEPT !.target = v])
  BY MineItself, MineExcept DEF CommandInv
<1>2. MySame
  BY <1>1, MineItself DEF CommandInv, Usable, Updated, Match, Prompt, MySame
<1>4. \/ Ends(1, "error") \/ Ends(0, "changed") \/ Ends(1, "no match")
      \/ Goes("prompt") \/ Goes("delete") \/ Goes("confirm") \/ Goes("reading")
  BY DEF Usable, Updated, Match, Prompt
<1>3. NotReady /\ NoPinNeeded
  BY <1>4, EndsPlain, GoesPlain
<1> QED BY <1>2, <1>3 DEF CommandInv, Usable, Updated, Match, Prompt, Here, outside, Plain, NoPinNeeded, ResetPcs

LEMMA TypedPlain == CommandInv /\ Typed => Plain /\ pc \notin ResetPcs
<1> SUFFICES ASSUME CommandInv, Typed PROVE Plain /\ pc \notin ResetPcs
  OBVIOUS
<1> DEFINE asks == IF my.asking = "current" /\ cmd.name \in {"pin", "setup"} THEN "new" ELSE "again"
           m(f) == [my EXCEPT ![f] = reader.result.text, !.asking = asks]
<1>1. Mine(m("current")) /\ Mine(m("new"))
  BY MineItself, MineExcept DEF CommandInv
<1>2. \/ Refused("Other") \/ Refused("InvalidInput")
      \/ my' \in {m("current"), m("new"), my} /\ (Goes("prompt") \/ Goes("agree"))
  BY DEF Typed
<1> HIDE DEF m
<1>3. CASE my' \in {m("current"), m("new"), my} /\ (Goes("prompt") \/ Goes("agree"))
  <2>1. MySame /\ NotReady /\ NoPinNeeded
    BY <1>1, <1>3, MineItself, GoesPlain DEF CommandInv, MySame
  <2> QED BY <2>1 DEF CommandInv, Typed, Here, Plain, NoPinNeeded, ResetPcs
<1>4. CASE Refused("Other") \/ Refused("InvalidInput")
  BY <1>4, RefusedPlain DEF CommandInv, Typed, Here, Plain, NoPinNeeded, ResetPcs
<1> QED BY <1>2, <1>3, <1>4

LEMMA AgreePlain == CommandInv /\ Agree => Plain /\ pc \notin ResetPcs
<1> SUFFICES ASSUME CommandInv, Agree PROVE Plain /\ pc \notin ResetPcs
  OBVIOUS
<1>1. Mine([my EXCEPT !.agreed = TRUE])
  BY MineItself, MineExcept DEF CommandInv
<1>2. \/ Refused("Other")
      \/ my' = [my EXCEPT !.agreed = TRUE] /\ (Goes("store_pin") \/ Goes("token"))
  BY DEF Agree
<1>3. MySame /\ NotReady /\ NoPinNeeded
  BY <1>1, <1>2, RefusedPlain, Zenon DEF CommandInv, Goes, MySame, NotReady, NoPinNeeded
<1> QED BY <1>3 DEF CommandInv, Agree, Here, outside, Plain, NoPinNeeded, ResetPcs

LEMMA StorePinPlain == CommandInv /\ StorePin => Plain /\ pc \notin ResetPcs
<1> SUFFICES ASSUME CommandInv, StorePin PROVE Plain /\ pc \notin ResetPcs
  OBVIOUS
<1> DEFINE a == IF my.current = NoPin THEN SetPin(key, my.new, my.agreed)
                ELSE ChangePin(key, my.current, my.new, my.agreed)
<1>1. Same(a.key, key)
  BY SetPinSame, ChangePinSame DEF CommandInv
<1>2. PICK r \in Outcomes(a) :
        /\ key' = r.key
        /\ \/ UNCHANGED my /\ (Goes("ensured") \/ Ends(0, "PIN set or changed"))
           \/ Refused(new_pin_error(r.st))
  BY DEF StorePin
<1> HIDE DEF a
<1>3. KeyShape(key')
  BY <1>1, <1>2, OutcomesSame DEF CommandInv, Same
<1>4. MySame /\ NotReady /\ NoPinNeeded
  BY <1>2, RefusedPlain, EndsPlain, MineItself DEF CommandInv, MySame, NotReady, NoPinNeeded, Goes
<1> QED BY <1>3, <1>4 DEF StorePin, Here, outside, Plain, NoPinNeeded, ResetPcs

LEMMA TokenPlain == CommandInv /\ Token => Plain /\ pc \notin ResetPcs
<1> SUFFICES ASSUME CommandInv, Token PROVE Plain /\ pc \notin ResetPcs
  OBVIOUS
<1>1. PICK t : \E r \in Outcomes(GetToken(key, my.current, my.agreed, t)) :
        /\ key' = r.key
        /\ \/ Refused("Other")
           \/ /\ my' = [my EXCEPT !.token = t]
              /\ Goes("list") \/ Goes("configure")
  BY DEF Token
<1>2. KeyShape(key')
  BY <1>1, GetTokenSame, OutcomesSame DEF CommandInv, Same
<1>3. MySame /\ NotReady /\ NoPinNeeded
  BY <1>1, RefusedPlain, MineItself, MineExcept DEF CommandInv, MySame, NotReady, NoPinNeeded, Goes
<1> QED BY <1>2, <1>3 DEF Token, Here, outside, Plain, NoPinNeeded, ResetPcs

LEMMA ConfigurePlain == CommandInv /\ (Configure \/ DeletePasskey) => Plain /\ pc \notin ResetPcs
<1> SUFFICES ASSUME CommandInv, Configure \/ DeletePasskey PROVE Plain /\ pc \notin ResetPcs
  OBVIOUS
<1>1. \/ \E r \in Outcomes(Configured(key, cmd.name, my.token)) : key' = r.key
      \/ \E r \in Outcomes(Delete(key, my.token, my.target)) : key' = r.key
  BY DEF Configure, DeletePasskey
<1>2. KeyShape(key')
  BY <1>1, ConfiguredSame, DeleteSame, OutcomesSame DEF CommandInv, Same
<1>3. MySame /\ NotReady /\ NoPinNeeded /\ cmd' = cmd
  BY MineItself DEF CommandInv, Configure, DeletePasskey, outside, MySame, NotReady, NoPinNeeded, Goes, Ends
<1> QED BY <1>2, <1>3 DEF Configure, DeletePasskey, Here, Plain, NoPinNeeded, ResetPcs

LEMMA ListPlain == CommandInv /\ (List \/ NextRps \/ BeginListed \/ NextListed) => Plain /\ pc \notin ResetPcs
<1> SUFFICES ASSUME CommandInv, List \/ NextRps \/ BeginListed \/ NextListed PROVE Plain /\ pc \notin ResetPcs
  OBVIOUS
<1>1. \/ \E r \in Outcomes(BeginRps(key, my.token)) : key' = r.key
      \/ \E r \in Outcomes(NextRp(key)) : key' = r.key
      \/ \E rp : \E r \in Outcomes(BeginCredentials(key, my.token, rp)) : key' = r.key
      \/ \E r \in Outcomes(NextCredential(key)) : key' = r.key
  BY DEF List, NextRps, BeginListed, NextListed
<1>0. /\ Same(BeginRps(key, my.token).key, key) /\ Same(NextRp(key).key, key) /\ Same(NextCredential(key).key, key)
      /\ \A rp : Same(BeginCredentials(key, my.token, rp).key, key)
  BY BeginRpsSame, NextRpSame, BeginCredentialsSame, NextCredentialSame, Zenon DEF CommandInv
<1>2. KeyShape(key')
  BY <1>0, <1>1, OutcomesSame DEF CommandInv, Same
<1>7. ASSUME NEW v, NEW w PROVE Mine([my EXCEPT !.rps = v, !.total = w]) /\ Mine([my EXCEPT !.rps = v])
  BY MineItself, MineExcept, Zenon DEF CommandInv
<1>3. CASE List
  <2> DEFINE m == [my EXCEPT !.rps = <<Head(RpList(key))>>, !.total = Len(RpList(key))]
  <2>4. Mine(m)
    BY <1>7, Zenon
  <2>3. \/ /\ my' = m
           /\ Goes("next_rp") \/ Goes("begin_credentials")
        \/ UNCHANGED my /\ (Ends(0, "listed") \/ Ends(1, "no match") \/ Ends(1, "error"))
    BY <1>3 DEF List
  <2> HIDE DEF m
  <2>1. MySame
    BY <2>3, <2>4, MineItself DEF CommandInv, MySame
  <2>2. NotReady /\ NoPinNeeded
    BY <2>3, EndsPlain, GoesPlain
  <2> QED BY <1>2, <1>3, <2>1, <2>2 DEF List, Here, outside, Plain, NoPinNeeded, ResetPcs
<1>4. CASE NextRps
  <2>1. MySame
    BY <1>4, <1>7, MineItself, Zenon DEF CommandInv, NextRps, MySame
  <2>2. NotReady /\ NoPinNeeded
    <3>1. Ends(1, "error") \/ Goes("next_rp") \/ Goes("begin_credentials")
      BY <1>4, Zenon DEF NextRps
    <3> QED BY <3>1, EndsPlain, GoesPlain
  <2> QED BY <1>2, <1>4, <2>1, <2>2 DEF NextRps, Here, outside, Plain, NoPinNeeded, ResetPcs
<1>5. CASE BeginListed
  <2>1. MySame /\ NotReady /\ NoPinNeeded
    BY <1>5, FoundPlain, EndsPlain, MineItself DEF CommandInv, BeginListed, MySame
  <2> QED BY <1>2, <1>5, <2>1, Zenon DEF BeginListed, Here, outside, Plain, NoPinNeeded, ResetPcs
<1>6. CASE NextListed
  <2>1. MySame /\ NotReady /\ NoPinNeeded
    BY <1>6, FoundPlain, EndsPlain, MineItself DEF CommandInv, NextListed, MySame
  <2> QED BY <1>2, <1>6, <2>1 DEF NextListed, Here, outside, Plain, NoPinNeeded, ResetPcs
<1> QED BY <1>3, <1>4, <1>5, <1>6

\* The steps of setup up to the service.
LEMMA SetupPlain ==
    CommandInv /\ (\/ Steps \/ Apply \/ Blockers \/ Before \/ Install_unit \/ Reload \/ Enable
                   \/ prepare_session \/ Verify \/ Problems \/ RemoveUnit)
    => Plain /\ pc \notin ResetPcs
<1> SUFFICES ASSUME CommandInv,
                    \/ Steps \/ Apply \/ Blockers \/ Before \/ Install_unit \/ Reload \/ Enable
                    \/ prepare_session \/ Verify \/ Problems \/ RemoveUnit
             PROVE  Plain /\ pc \notin ResetPcs
  OBVIOUS
<1> USE DEF Steps, Apply, Blockers, Before, Install_unit, Reload, Enable, prepare_session, Verify, Problems,
            RemoveUnit
<1>1. /\ pc \in {"steps", "apply", "blockers", "before", "install", "reload", "enable", "session", "verify",
                 "problems", "remove"}
      /\ UNCHANGED <<key, my, cmd>>
  BY DEF Here, sameInput
<1>2. \/ UNCHANGED <<pc, report>> \/ Fails \/ Ends(0, "cancelled") \/ Ends(0, "uninstalled")
      \/ Goes("blockers") \/ Goes("apply") \/ Goes("before") \/ Goes("install") \/ Goes("reload") \/ Goes("enable")
      \/ Goes("session") \/ Goes("running") \/ Goes("problems") \/ Goes("ensure")
  OBVIOUS
<1>3. NotReady /\ NoPinNeeded
  BY <1>1, <1>2, EndsPlain, GoesPlain DEF Fails, NotReady, NoPinNeeded
<1> QED BY <1>1, <1>3, MineItself DEF CommandInv, Plain, NoPinNeeded, MySame, ResetPcs

LEMMA BringUpPlain == CommandInv /\ (BringUp \/ PlugIn) => Plain /\ pc \notin ResetPcs
<1> SUFFICES ASSUME CommandInv, BringUp \/ PlugIn PROVE Plain /\ pc \notin ResetPcs
  OBVIOUS
<1>1. pc \in {"running", "plug_in"} /\ cmd' = cmd
  BY DEF BringUp, PlugIn, Here, sameInput
<1>2. \/ BroughtUp("verify")
      \/ key' \in {key, [key EXCEPT !.inst = 0]} /\ UNCHANGED my /\ (Goes("plug_in") \/ Fails)
      \/ key' = key /\ my' = [my EXCEPT !.conn = key.inst] /\ Goes("verify")
  BY DEF BringUp, PlugIn
<1>3. \/ key' \in Starts(key)
      \/ key' \in {key, [key EXCEPT !.inst = 0]}
  BY <1>2 DEF BroughtUp
<1>4. KeyShape(key')
  BY <1>3, StartsRunning, StoppedShape DEF CommandInv
<1>5. ASSUME NEW v PROVE Mine([my EXCEPT !.conn = v])
  BY MineItself, MineExcept DEF CommandInv
<1>6. MySame
  BY <1>2, <1>5, MineItself DEF CommandInv, BroughtUp, MySame
<1>7. Goes("plug_in") \/ Goes("verify") \/ Ends(1, "error")
  BY <1>2 DEF BroughtUp, Fails
<1> QED BY <1>1, <1>4, <1>6, <1>7, GoesPlain, EndsPlain DEF Plain, NoPinNeeded, ResetPcs

\* setup settles only on a PIN it sees.
LEMMA EnsurePlain == CommandInv /\ (EnsurePin \/ Ensured \/ Settled) => Plain /\ pc \notin ResetPcs
<1> SUFFICES ASSUME CommandInv, EnsurePin \/ Ensured \/ Settled PROVE Plain /\ pc \notin ResetPcs
  OBVIOUS
<1>1. pc \in {"ensure", "ensured", "settled"} /\ UNCHANGED <<key, cmd>>
  BY DEF EnsurePin, Ensured, Settled, Here, sameInput
<1> DEFINE m == [my EXCEPT !.first = ~PinSet(key)]
<1>2. Mine(m)
  BY MineItself, MineExcept DEF CommandInv
<1>3. \/ Fails /\ UNCHANGED my
      \/ PinSet(key) /\ Goes("settled") /\ UNCHANGED my
      \/ my' = m /\ Goes("info")
      \/ pc = "settled" /\ Goes("finish") /\ UNCHANGED my
  BY DEF EnsurePin, Ensured, Settled, Here
<1> HIDE DEF m
<1>4. MySame
  BY <1>2, <1>3, MineItself DEF CommandInv, MySame
<1>5. NotReady
  BY <1>3 DEF Fails, Ends, Goes, NotReady
<1>6. pc' \in {"settled", "finish"} => PinSet(key') \/ my'.wiped
  BY <1>1, <1>3 DEF Fails, Ends, Goes, CommandInv, ReadyInv
<1> QED BY <1>1, <1>4, <1>5, <1>6 DEF CommandInv, Plain, ResetPcs

\* setup says that the key is ready only of what it has verified.
LEMMA FinishKeeps == CommandInv /\ Finish => CommandInv'
<1> SUFFICES ASSUME CommandInv, Finish PROVE CommandInv'
  OBVIOUS
<1>1. pc = "finish" /\ UNCHANGED <<key, my, cmd, proc>>
  BY DEF Finish, Here, sameInput, hostVars
<1>2. CASE Fails
  <2>1. NotReady /\ NoPinNeeded
    BY <1>2, EndsPlain DEF Fails
  <2>2. Plain /\ pc \notin ResetPcs
    BY <1>1, <2>1, MineItself DEF CommandInv, Plain, MySame, NoPinNeeded, ResetPcs
  <2> QED BY <2>2, PlainKeeps
<1>3. CASE Verified /\ Ends(0, "ready")
  <2>1. PinSet(key) \/ my.wiped
    BY <1>1 DEF CommandInv, ReadyInv
  <2>2. pc' = "exit"
    BY <1>3 DEF Ends
  <2>3. SetupReady'
    BY <1>1, <1>3, <2>1 DEF SetupReady, Verified
  <2>4. cmd.name # "reset"
    BY <1>1 DEF CommandInv, ResetInv, ResetPcs
  <2>5. ReadyInv'
    BY <2>2, <2>3 DEF ReadyInv
  <2> QED BY <1>1, <2>2, <2>4, <2>5 DEF CommandInv, KeyShape, MyShape, ResetInv, ResultInv
<1> QED BY <1>2, <1>3 DEF Finish

\* A step of a reset between its start and its end that does not touch what runs.
Within ==
    /\ pc \notin {"start", "exit"} /\ pc' \in ResetPcs \ {"start", "confirm", "exit"}
    /\ cmd' = cmd /\ UNCHANGED report /\ KeyShape(key') /\ key'.inst = key.inst
    /\ MyShape' /\ my'.was = my.was /\ my'.restarted = my.restarted /\ my'.helped = my.helped
    /\ ResultInv'

LEMMA WithinKeeps == CommandInv /\ Within => CommandInv'
<1> SUFFICES ASSUME CommandInv, Within PROVE CommandInv'
  OBVIOUS
<1>1. ResetInv'
  BY DEF CommandInv, Within, ResetInv
<1>2. ReadyInv'
  BY DEF CommandInv, Within, ReadyInv, ResetPcs
<1> QED BY <1>1, <1>2 DEF CommandInv, Within

\* An assignment to another of the reset's variables, or to its result.
Kept(m) == MyNames \subseteq DOMAIN m /\ m.was = my.was /\ m.restarted = my.restarted /\ m.helped = my.helped

LEMMA KeptOther ==
    ASSUME MyShape, NEW f \in {"conn", "blocked", "again"}, NEW v
    PROVE  Kept([my EXCEPT ![f] = v]) /\ [my EXCEPT ![f] = v].result = my.result
BY DEF MyShape, MyNames, Kept

LEMMA KeptResult ==
    ASSUME MyShape, NEW v PROVE Kept([my EXCEPT !.result = v]) /\ [my EXCEPT !.result = v].result = v
BY DEF MyShape, MyNames, Kept

LEMMA KeptItself == MyShape => Kept(my)
BY DEF MyShape, Kept

LEMMA LookKeeps == CommandInv /\ (Look \/ LookRetries) => CommandInv'
<1> SUFFICES ASSUME CommandInv, Look \/ LookRetries PROVE CommandInv'
  OBVIOUS
<1>1. /\ pc \in {"look", "look_retries"} /\ pc' \in {"look_retries", "replug"}
      /\ UNCHANGED <<key, cmd, report>>
  BY DEF Look, LookRetries, Here, Goes, outside
<1>3. Kept(my') /\ my'.result = my.result
  <2>1. CASE Look
    <3>1. my' = my \/ my' = [my EXCEPT !.conn = my.was]
      BY <2>1 DEF Look
    <3> QED BY <3>1, KeptOther, KeptItself, Zenon DEF CommandInv
  <2>2. CASE LookRetries
    <3>1. PICK r : my' = [my EXCEPT !.blocked = r.st = "Ok" /\ Retries(key) = 0]
      BY <2>2, Zenon DEF LookRetries
    <3> QED BY <3>1, KeptOther DEF CommandInv
  <2> QED BY <2>1, <2>2
<1>4. Within
  BY <1>1, <1>3 DEF CommandInv, Within, Kept, MyShape, ResetPcs, ResultInv
<1> QED BY <1>4, WithinKeeps

LEMMA AfterKeeps == CommandInv /\ (After \/ AfterRetries \/ Register) => CommandInv'
<1> SUFFICES ASSUME CommandInv, After \/ AfterRetries \/ Register PROVE CommandInv'
  OBVIOUS
<1>1. /\ pc \in {"after", "after_retries", "register"}
      /\ pc' \in {"after_retries", "again", "register", "request"}
      /\ UNCHANGED <<key, my, cmd, report>>
  BY DEF After, AfterRetries, Register, Here, Goes, outside
<1>2. Within
  BY <1>1 DEF CommandInv, Within, MyShape, ResetPcs, ResultInv
<1> QED BY <1>2, WithinKeeps

LEMMA AgainKeeps == ASSUME CommandInv, NEW yes \in BOOLEAN, Again(yes) PROVE CommandInv'
<1>1. /\ pc = "again" /\ pc' \in {"replug", "restore"} /\ UNCHANGED <<key, cmd, report>>
      /\ my' = [my EXCEPT !.again = TRUE] \/ my' = [my EXCEPT !.result = "kept"]
  BY DEF Again, Here, Goes, outside
<1>2. Kept(my') /\ my'.result \in {my.result, "kept"}
  BY <1>1, KeptOther, KeptResult, Zenon DEF CommandInv
<1>3. Within
  BY <1>1, <1>2 DEF CommandInv, Within, Kept, MyShape, ResetPcs, ResultInv
<1> QED BY <1>3, WithinKeeps

LEMMA RequestKeeps == CommandInv /\ (Request \/ Wait) => CommandInv'
<1> SUFFICES ASSUME CommandInv, Request \/ Wait PROVE CommandInv'
  OBVIOUS
<1>1. /\ pc \in {"request", "wait"} /\ cmd' = cmd
      /\ key' = key \/ key' = Erased(key)
      /\ \/ Goes("wait") /\ UNCHANGED my
         \/ Results("nothing erased") \/ Results("error") \/ Results("reset")
  BY DEF Request, Wait, Here, outside
<1>2. Same(key', key)
  BY <1>1, ErasedSame DEF CommandInv, Same
<1>3. Kept(my') /\ my'.result \in {my.result, "nothing erased", "error", "reset"}
  BY <1>1, KeptResult, KeptItself DEF CommandInv, Results
<1>4. pc' \in {"wait", "restore"} /\ UNCHANGED report
  BY <1>1 DEF Goes, Results
<1>5. Within
  BY <1>1, <1>2, <1>3, <1>4 DEF CommandInv, Within, Kept, MyShape, Same, ResetPcs, ResultInv
<1> QED BY <1>5, WithinKeeps

LEMMA ReplugKeeps == CommandInv /\ Replug => CommandInv'
<1> SUFFICES ASSUME CommandInv, Replug PROVE CommandInv'
  OBVIOUS
<1>1. pc = "replug" /\ cmd' = cmd /\ pc' \in {"after", "register", "restore"} /\ UNCHANGED report
  BY DEF Replug, Here, Goes, outside
<1>2. \/ /\ key' \in Starts(key)
         /\ \/ my' = [my EXCEPT !.restarted = TRUE, !.conn = key'.inst]
            \/ my' = [my EXCEPT !.restarted = TRUE, !.result = "error"]
      \/ /\ key' \in {key, [key EXCEPT !.inst = 0]}
         /\ my' = [my EXCEPT !.result = "error", !.helped = TRUE]
  BY DEF Replug
<1>3. /\ KeyShape(key')
      /\ \/ key'.inst # 0 /\ my'.restarted = TRUE
         \/ my'.helped = TRUE
  BY <1>2, StartsRunning, StoppedShape, ZenonT(30) DEF CommandInv, MyShape, MyNames
<1>4. MyShape' /\ my'.result \in {my.result, "error"}
  BY <1>2, Zenon DEF CommandInv, MyShape, MyNames
<1>5. ResetInv'
  BY <1>1, <1>3 DEF ResetInv, ResetPcs
<1>6. ReadyInv'
  BY <1>1 DEF CommandInv, ReadyInv
<1> QED BY <1>3, <1>4, <1>5, <1>6 DEF CommandInv, ResultInv

LEMMA RestoreKeeps == CommandInv /\ Restore => CommandInv'
<1> SUFFICES ASSUME CommandInv, Restore PROVE CommandInv'
  OBVIOUS
<1>1. pc = "restore" /\ cmd' = cmd
  BY DEF Restore, Here, outside
<1> DEFINE how == CASE my.result = "reset" -> [code |-> 0, said |-> "reset"]
                    [] my.result = "kept" -> [code |-> 0, said |-> "nothing changed"]
                    [] OTHER -> [code |-> 1, said |-> my.result]
<1>8. how.said # "ready"
  BY DEF CommandInv, ResultInv
<1>9. Ends(how.code, how.said) \/ Ends(1, "error") \/ Ends(1, how.said)
  BY DEF Restore
<1>2. NotReady /\ pc' = "exit"
  <2> HIDE DEF how
  <2> QED BY <1>8, <1>9, EndsPlain DEF Ends
<1>3. ReadyInv'
  BY <1>1, <1>2 DEF CommandInv, ReadyInv, NotReady
<1> DEFINE stopped == [key EXCEPT !.inst = 0]
           m == [my EXCEPT !.helped = TRUE]
<1>4. \/ ~(my.was = 0 /\ my.restarted) /\ key' = key /\ my' = my
      \/ my.was = 0 /\ my.restarted /\ key' = stopped /\ my' = my
      \/ key' = key /\ my' = m
  BY DEF Restore
<1>5. /\ KeyShape(stopped) /\ stopped.inst = 0
      /\ MyNames \subseteq DOMAIN m /\ m.helped = TRUE /\ m.result = my.result
  BY StoppedShape DEF CommandInv, MyShape, MyNames
<1> HIDE DEF stopped, m
<1>6. KeyShape(key)' /\ MyShape' /\ ResultInv'
  BY <1>4, <1>5 DEF CommandInv, MyShape, ResultInv
<1>7. ResetInv'
  BY <1>1, <1>2, <1>4, <1>5 DEF CommandInv, ResetInv, ResetPcs
<1> QED BY <1>3, <1>6, <1>7 DEF CommandInv

\* The first steps of a command.
LEMMA StartKeeps == CommandInv /\ Start => CommandInv'
<1> SUFFICES ASSUME CommandInv, Start PROVE CommandInv'
  OBVIOUS
<1>1. pc = "start" /\ UNCHANGED <<key, cmd>>
  BY DEF Start, Here, outside
<1>2. CASE cmd.name = "reset"
  <2>1. my' = [my EXCEPT !.was = key.inst] /\ pc' \in {"replug", "confirm"} /\ UNCHANGED report
    BY <1>2 DEF Start, Goes
  <2>2. /\ MyShape' /\ my'.was = key.inst /\ my'.restarted = my.restarted /\ my'.result = my.result
    BY <2>1 DEF CommandInv, MyShape, MyNames
  <2>3. ResetInv'
    BY <1>1, <2>1, <2>2, <1>2 DEF CommandInv, ResetInv, ResetPcs
  <2>4. ReadyInv'
    BY <1>1, <2>1 DEF CommandInv, ReadyInv
  <2> QED BY <1>1, <2>2, <2>3, <2>4 DEF CommandInv, KeyShape, ResultInv
<1>3. CASE cmd.name # "reset"
  <2> DEFINE m == [my EXCEPT !.conn = key.inst]
  <2>1. \/ my' = m /\ Goes("info")
        \/ my' = my /\ Ends(1, "not running or not answering")
    BY <1>3, Zenon DEF Start
  <2>2. Mine(m)
    BY MineItself, MineExcept DEF CommandInv
  <2> HIDE DEF m
  <2>3. Mine(my') /\ NotReady /\ NoPinNeeded
    BY <2>1, <2>2, MineItself, GoesPlain, EndsPlain DEF CommandInv
  <2>4. report.said # "ready"
    BY <1>1 DEF CommandInv, ReadyInv
  <2> QED BY <1>1, <1>3, <2>3, <2>4 DEF CommandInv, KeyShape, MyShape, Mine, ResetInv, ResultInv, ReadyInv, NotReady, NoPinNeeded
<1> QED BY <1>2, <1>3

LEMMA ConfirmKeeps == ASSUME CommandInv, NEW yes \in BOOLEAN, Confirm(yes) PROVE CommandInv'
<1>1. pc = "confirm" /\ UNCHANGED <<key, my, cmd>>
  BY DEF Confirm, Here, outside
<1>2. /\ \/ Ends(0, "nothing changed") \/ Goes("look") \/ Goes("delete") \/ Goes("usable") \/ Goes("configure")
      /\ cmd.name = "reset" => Ends(0, "nothing changed") \/ Goes("look")
  BY DEF Confirm
<1>3. NotReady /\ NoPinNeeded /\ report.said # "ready"
  BY <1>1, <1>2, GoesPlain, EndsPlain DEF CommandInv, ReadyInv
<1>4. ReadyInv'
  BY <1>3 DEF ReadyInv, NotReady, NoPinNeeded
<1>5. ResetInv'
  BY <1>1, <1>2 DEF CommandInv, ResetInv, ResetPcs, Ends, Goes
<1> QED BY <1>1, <1>4, <1>5 DEF CommandInv, KeyShape, MyShape, ResultInv

LEMMA SetupStartKeeps == CommandInv /\ (CheckCaller \/ Unplug \/ Rerun) => CommandInv'
<1> SUFFICES ASSUME CommandInv, CheckCaller \/ Unplug \/ Rerun PROVE CommandInv'
  OBVIOUS
<1>1. /\ cmd' = cmd /\ cmd.name # "reset"
      /\ key' = key \/ key' = [key EXCEPT !.inst = 0]
      /\ my' = my \/ my' = Fresh
  BY DEF CheckCaller, Unplug, Rerun, sameInput
<1>6. \/ pc = "start" /\ (Goes("steps") \/ Goes("remove") \/ Ends(1, "error"))
      \/ pc' = "start" /\ report' = NoReport
  BY DEF CheckCaller, Unplug, Rerun, Here, Fails
<1>8. NoReport.said # "ready"
  BY DEF NoReport
<1>2. /\ pc' \in {"steps", "remove", "exit", "start"}
      /\ \/ pc = "start" /\ NotReady
         \/ report'.said # "ready"
  BY <1>6, <1>8, EndsPlain, GoesPlain DEF Goes, Ends
<1>3. ReadyInv'
  BY <1>2 DEF CommandInv, ReadyInv, NotReady
<1>4. KeyShape(key')
  BY <1>1, StoppedShape, Zenon DEF CommandInv
<1>7. MyNames \subseteq DOMAIN Fresh /\ Fresh.result = "none"
  BY Zenon DEF MyNames, Fresh
<1>5. MyShape' /\ ResultInv'
  BY <1>1, <1>7 DEF CommandInv, MyShape, ResultInv
<1> QED BY <1>1, <1>3, <1>4, <1>5 DEF CommandInv, ResetInv

\* Other clients, and whoever stops and starts the key.
LEMMA OthersKeep == CommandInv /\ (Other \/ OtherLists \/ WindowCloses \/ KeyStops \/ KeyStarts) => CommandInv'
<1> SUFFICES ASSUME CommandInv, Other \/ OtherLists \/ WindowCloses \/ KeyStops \/ KeyStarts PROVE CommandInv'
  OBVIOUS
<1>1. /\ pc \notin {"start", "confirm", "exit"} /\ UNCHANGED <<cmd, pc, report>>
  BY DEF Other, OtherLists, WindowCloses, KeyStops, KeyStarts, Quiet
<1>2. /\ KeyShape(key') /\ MyShape' /\ my'.result = my.result /\ my'.was = my.was
      /\ my'.restarted = my.restarted
      /\ (key'.inst = key.inst /\ my'.helped = my.helped) \/ my'.helped = TRUE
      /\ PinSet(key) \/ my.wiped => PinSet(key') \/ my'.wiped
  <2>1. CASE Other
    <3> DEFINE m(a, w) == [my EXCEPT !.agreed = a, !.wiped = w]
    <3>1. key' \in ByOthers
          /\ my' = m(my.agreed /\ key'.wrong <= key.wrong, my.wiped \/ (PinSet(key) /\ ~PinSet(key')))
      BY <2>1 DEF Other
    <3>2. ASSUME NEW a, NEW w
          PROVE  /\ MyNames \subseteq DOMAIN m(a, w) /\ m(a, w).result = my.result /\ m(a, w).was = my.was
                 /\ m(a, w).restarted = my.restarted /\ m(a, w).helped = my.helped /\ m(a, w).wiped = w
      BY DEF CommandInv, MyShape, MyNames
    <3> HIDE DEF m
    <3>3. Same(key', key)
      BY <3>1, ByOthersSame DEF CommandInv
    <3>4. my'.wiped = (my.wiped \/ (PinSet(key) /\ ~PinSet(key')))
      BY <3>1, <3>2
    <3>5. /\ MyShape' /\ my'.result = my.result /\ my'.was = my.was
          /\ my'.restarted = my.restarted /\ my'.helped = my.helped
      BY <3>1, <3>2 DEF MyShape
    <3> QED BY <3>3, <3>4, <3>5, Zenon DEF Same
  <2>2. CASE OtherLists
    <3>1. my' = my /\ Same(key', key) /\ key'.pin = key.pin
      BY <2>2, OtherListsSame, Zenon DEF CommandInv
    <3> QED BY <3>1 DEF CommandInv, Same, MyShape, PinSet
  <2>3. CASE WindowCloses
    <3>1. my' = my /\ key' = [key EXCEPT !.window = FALSE]
      BY <2>3 DEF WindowCloses
    <3>2. Same(key', key) /\ key'.pin = key.pin
      BY <3>1 DEF CommandInv, KeyShape, Same
    <3> QED BY <3>1, <3>2 DEF CommandInv, Same, MyShape, PinSet
  <2>4. CASE KeyStops \/ KeyStarts
    <3>1. /\ my' = [my EXCEPT !.helped = TRUE]
          /\ key' = [key EXCEPT !.inst = 0] \/ key' \in Starts(key)
      BY <2>4 DEF KeyStops, KeyStarts
    <3>2. KeyShape(key') /\ key'.pin = key.pin
      BY <3>1, StoppedShape, StartsRunning, Zenon DEF CommandInv
    <3>3. /\ MyShape' /\ my'.result = my.result /\ my'.was = my.was /\ my'.wiped = my.wiped
          /\ my'.restarted = my.restarted /\ my'.helped = TRUE
      BY <3>1 DEF CommandInv, MyShape, MyNames
    <3> QED BY <3>2, <3>3 DEF PinSet
  <2> QED BY <2>1, <2>2, <2>3, <2>4, Zenon
<1>3. ResetInv'
  BY <1>1, <1>2 DEF CommandInv, ResetInv
<1>4. ReadyInv'
  BY <1>1, <1>2 DEF CommandInv, ReadyInv
<1> QED BY <1>2, <1>3, <1>4 DEF CommandInv, ResultInv

\* Neither the reader nor the terminal touches the command.
LEMMA CommandStill == CommandInv /\ UNCHANGED <<clientVars, proc>> => CommandInv'
<1> SUFFICES ASSUME CommandInv, UNCHANGED <<clientVars, proc>> PROVE CommandInv'
  OBVIOUS
<1>1. UNCHANGED <<key, cmd, pc, my, report, proc>>
  BY DEF clientVars
<1> QED BY <1>1 DEF CommandInv, KeyShape, MyShape, ResetInv, ResultInv, ReadyInv, SetupReady, PinSet

LEMMA CommandKeeps == CommandInv /\ [Next]_vars => CommandInv'
<1> SUFFICES ASSUME CommandInv, [Next]_vars PROVE CommandInv'
  OBVIOUS
<1>1. CASE SetupStep
  BY <1>1, SetupPlain, BringUpPlain, EnsurePlain, FinishKeeps, SetupStartKeeps, PlainKeeps DEF SetupStep
<1>2. CASE CommandStep
  BY <1>2, InfoPlain, QuestionsPlain, TypedPlain, AgreePlain, StorePinPlain, TokenPlain, ConfigurePlain,
     ListPlain, PlainKeeps, StartKeeps, ConfirmKeeps, LookKeeps, ReplugKeeps, AfterKeeps, AgainKeeps,
     RequestKeeps, RestoreKeeps DEF CommandStep
<1>3. CASE (Reading \/ UserTypes \/ SignalArrives) /\ UNCHANGED hostVars
  BY <1>3, CommandStill DEF Reading, UserTypes, SignalArrives, hostVars
<1>4. CASE UNCHANGED vars
  BY <1>4, CommandStill DEF vars, hostVars
<1> QED BY <1>1, <1>2, <1>3, <1>4, OthersKeep DEF Next, Around

\* The invariant of reset and setup holds of every command.
THEOREM CommandInvariance == Spec => []CommandInv
<1>1. Init => CommandInv
  <2> SUFFICES ASSUME Init PROVE CommandInv
    OBVIOUS
  <2>1. PICK c \in Cases : InitFor(c)
    BY DEF Init
  <2>2. key = c.key /\ pc = "start" /\ my = Fresh /\ report = NoReport
    BY <2>1, Zenon DEF InitFor
  <2>3. {"inst", "starts", "pin"} \subseteq DOMAIN KeyWith(NoPin, {})
    BY Zenon DEF KeyWith
  <2>4. KeyShape(key)
    BY <2>2, <2>3, CasesAssumption DEF CasesAssumption, KeyShape
  <2>5. MyNames \subseteq DOMAIN Fresh /\ Fresh.result = "none" /\ Fresh.restarted = FALSE
    BY Zenon DEF MyNames, Fresh
  <2>6. NoReport.said # "ready"
    BY DEF NoReport
  <2> QED BY <2>2, <2>4, <2>5, <2>6 DEF CommandInv, MyShape, ResetInv, ResetPcs, ResultInv, ReadyInv
<1> QED BY <1>1, CommandKeeps, PTL DEF Spec

\* A reset leaves the key running exactly if it ran before, however it ends, unless a restart
\* failed or somebody else stopped or started the key.
THEOREM KeyIsLeftAsFound == Spec => []LeftAsFound
<1>1. CommandInv => LeftAsFound
  BY DEF CommandInv, ResetInv, LeftAsFound
<1> QED BY <1>1, CommandInvariance, PTL

\* setup says that the key is ready only of a key with a PIN that the service runs from the
\* installed binary, and that is the one it connected to.
THEOREM ReadyMeansReady == Spec => []SetupReady
<1>1. CommandInv => SetupReady
  BY DEF CommandInv, ReadyInv, SetupReady
<1> QED BY <1>1, CommandInvariance, PTL
=============================================================================
