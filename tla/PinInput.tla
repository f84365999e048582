------------------------------ MODULE PinInput ------------------------------
(***************************************************************************)
(* How a command reads a PIN (pqkey: pin_input.rs): from a terminal with   *)
(* echo turned off while the signals that would end the process are        *)
(* caught, or a line of a pipe.                                            *)
(*                                                                         *)
(* The process takes its steps one system call at a time; the user types   *)
(* lines and signals arrive in between.  A PIN's text is abstracted to a   *)
(* member of Lines; what it is worth is PinLength's.  Reads and terminal   *)
(* settings may fail.                                                      *)
(***************************************************************************)
EXTENDS Integers, Sequences, FiniteSets

CONSTANTS
    Lines,             \* what the user may type
    PinLength,         \* [Lines -> Nat], in code points
    NotText, TooLong,  \* those of Lines that are not UTF-8, and that exceed a limit
    CAUGHT_SIGNALS     \* a sequence of signals

Signals == {CAUGHT_SIGNALS[i] : i \in DOMAIN CAUGHT_SIGNALS}

ASSUME InputAssumption ==
    /\ PinLength \in [Lines -> Nat]
    /\ NotText \subseteq Lines /\ TooLong \subseteq Lines
    /\ CAUGHT_SIGNALS \in Seq(STRING) /\ "none" \notin Signals
    /\ \A i, j \in DOMAIN CAUGHT_SIGNALS : CAUGHT_SIGNALS[i] = CAUGHT_SIGNALS[j] => i = j

VARIABLES
    interactive,    \* PinReader::interactive: standard input is a terminal
    echo,           \* external: the terminal's ECHO flag
    typed,          \* external: the line waiting in the terminal or pipe, or NoLine
    action,         \* external: [Signals -> what the signal does]
    caught,         \* CAUGHT_SIGNAL, or "none"
    alive,          \* the process has not been ended by a signal
    reader          \* the read in progress

terminal == <<interactive, echo, typed>>
process == <<action, caught, alive>>
inputVars == <<terminal, process, reader>>

\* What a signal does: "default" ends the process, "record" is record_signal,
\* "cancel" is the flag of a reset, "ignore" nothing.
Actions == {"default", "record", "cancel", "ignore"}

NoLine == [text |-> "none", shown |-> FALSE]
Failed == [text |-> "failed", shown |-> FALSE]

\* previous: the actions the catcher replaced.  result: the line, or why there is
\* none.  saw (history): a signal was recorded during this read.
Idle == [pc |-> "idle", previous |-> <<>>, result |-> NoLine, saw |-> FALSE]

InputInit ==
    /\ interactive \in BOOLEAN
    /\ echo = TRUE
    /\ typed = NoLine
    /\ action = [s \in Signals |-> "default"]
    /\ caught = "none"
    /\ alive = TRUE
    /\ reader = Idle
-----------------------------------------------------------------------------
(* The reader: read_hidden_line and read_line *)

At(pc) == alive /\ reader.pc = pc
Go(pc) == reader' = [reader EXCEPT !.pc = pc]
Give(pc, result) == reader' = [reader EXCEPT !.pc = pc, !.result = result]

\* PinReader::read, called by a command.  install clears CAUGHT_SIGNAL first.
BeginRead ==
    /\ At("idle")
    /\ reader' = [Idle EXCEPT !.pc = IF interactive THEN "install" ELSE "read_line"]
    /\ caught' = IF interactive THEN "none" ELSE caught
    /\ UNCHANGED <<terminal, action, alive>>

\* Variant: the last signal is forgotten (TerminalRestored).
InstallButLast ==
    /\ At("install")
    /\ LET n == Len(reader.previous) + 1 IN
       IF n > Len(CAUGHT_SIGNALS) - 1
       THEN Go("quiet") /\ UNCHANGED action
       ELSE LET s == CAUGHT_SIGNALS[n] IN
            /\ reader' = [reader EXCEPT !.previous = Append(@, [signal |-> s, was |-> action[s]])]
            /\ action' = [action EXCEPT ![s] = "record"]
    /\ UNCHANGED <<terminal, caught, alive>>

\* SignalCatcher::install, one sigaction at a time.
Install ==
    /\ At("install")
    /\ LET n == Len(reader.previous) + 1 IN
       IF n > Len(CAUGHT_SIGNALS)
       THEN Go("quiet") /\ UNCHANGED action
       ELSE LET s == CAUGHT_SIGNALS[n] IN
            /\ reader' = [reader EXCEPT !.previous = Append(@, [signal |-> s, was |-> action[s]])]
            /\ action' = [action EXCEPT ![s] = "record"]
    /\ UNCHANGED <<terminal, caught, alive>>

\* Variant: what was typed ahead stays (PinHidden).
EchoDisabledKeeping ==
    /\ At("quiet")
    /\ echo' = FALSE
    /\ Go("check")
    /\ UNCHANGED <<interactive, typed, process>>

\* EchoDisabled::new, whose TCSAFLUSH discards what was typed ahead, and the prompt.
\* Either may fail; the prompt's failure finds echo off.
EchoDisabled ==
    /\ At("quiet")
    /\ \/ echo' = FALSE /\ typed' = NoLine /\ (Go("check") \/ Give("restore", Failed))
       \/ Give("reinstate", Failed) /\ UNCHANGED <<echo, typed>>
    /\ UNCHANGED <<interactive, process>>

\* The head of read_tty_line's loop.
Check ==
    /\ At("check")
    /\ IF caught # "none" THEN Give("restore", Failed) ELSE Go("call")
    /\ UNCHANGED <<terminal, process>>

\* The system call begins to wait: from here on a signal interrupts it.
Call ==
    /\ At("call")
    /\ Go("read")
    /\ UNCHANGED <<terminal, process>>

\* finish_line.
FinishLine(line) ==
    IF line.text \in NotText THEN Failed ELSE line

\* read returns a line, or the end of the input or an error.
Read ==
    /\ At("read")
    /\ \/ typed # NoLine /\ Give("restore", FinishLine(typed)) /\ typed' = NoLine
       \/ Give("restore", Failed) /\ UNCHANGED typed
    /\ UNCHANGED <<interactive, echo, process>>

\* Drop of EchoDisabled.
RestoreEcho ==
    /\ At("restore")
    /\ echo' = TRUE
    /\ typed' = NoLine
    /\ Go("reinstate")
    /\ UNCHANGED <<interactive, process>>

\* reinstate, one sigaction at a time.
Reinstate ==
    /\ At("reinstate")
    /\ IF reader.previous = <<>>
       THEN Go("raise") /\ UNCHANGED action
       ELSE /\ action' = [action EXCEPT ![Head(reader.previous).signal] = Head(reader.previous).was]
            /\ reader' = [reader EXCEPT !.previous = Tail(@)]
    /\ UNCHANGED <<terminal, caught, alive>>

\* Variant: a signal counts only where no line was read (SignalsKept).
RaiseUnlessRead ==
    /\ At("raise")
    /\ caught' = "none"
    /\ IF caught = "none" \/ reader.result # Failed
       THEN Go("done") /\ UNCHANGED alive
       ELSE Give("done", Failed) /\ alive' = (action[caught] # "default")
    /\ UNCHANGED <<terminal, action>>

\* The end of read_hidden_line: the signal that was caught is raised again.
Raise ==
    /\ At("raise")
    /\ caught' = "none"
    /\ IF caught = "none"
       THEN Go("done") /\ UNCHANGED alive
       ELSE Give("done", Failed) /\ alive' = (action[caught] # "default")
    /\ UNCHANGED <<terminal, action>>

\* read_line, of a pipe: a line, its end or an error.
ReadLine ==
    /\ At("read_line")
    /\ \/ typed # NoLine /\ Give("done", FinishLine(typed)) /\ typed' = NoLine
       \/ Give("done", Failed) /\ UNCHANGED typed
    /\ UNCHANGED <<interactive, echo, process>>

ReaderStep ==
    \/ Install \/ EchoDisabled \/ Check \/ Call \/ Read \/ RestoreEcho \/ Reinstate \/ Raise
    \/ ReadLine
-----------------------------------------------------------------------------
(* What happens around the process *)

\* A line typed: the terminal shows it while echo is on.
Type(line) ==
    /\ alive /\ typed = NoLine
    /\ typed' = [text |-> line, shown |-> echo]
    /\ UNCHANGED <<interactive, echo, process, reader>>

\* A signal arrives: record_signal notes it, and interrupts a read that waits.  The
\* first one that a reset asked for cancels it, the next ends the process.
Signal(s) ==
    /\ alive
    /\ alive' = (action[s] # "default")
    /\ caught' = IF action[s] = "record" \/ action[s] = "cancel" THEN s ELSE caught
    /\ action' = IF action[s] = "cancel" THEN [action EXCEPT ![s] = "default"] ELSE action
    /\ reader' = IF action[s] # "record" THEN reader
                 ELSE [reader EXCEPT !.saw = TRUE,
                                     !.pc = IF @ = "read" THEN "check" ELSE @]
    /\ UNCHANGED terminal
-----------------------------------------------------------------------------
(* Properties *)

\* A process that a signal has ended, or that is done with a read, leaves the
\* terminal echoing what is typed (read_hidden_line's order of restoring).
TerminalRestored ==
    ~alive \/ reader.pc \in {"idle", "done"} => echo

\* A PIN taken from a terminal was never on its screen: it was typed after echo was
\* turned off, not ahead of the prompt (TCSAFLUSH in EchoDisabled::new).
PinHidden ==
    interactive /\ reader.result # Failed /\ reader.result # NoLine => ~reader.result.shown

\* A signal caught during a read is not lost: the process is ended by it or the read
\* fails, even when the signal arrives after the line was read (SignalCatcher::restore).
SignalsKept ==
    alive /\ reader.pc = "done" /\ reader.saw => reader.result = Failed
=============================================================================
