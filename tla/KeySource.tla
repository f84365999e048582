----------------------------- MODULE KeySource -----------------------------
(***************************************************************************)
(* FileKeySource (store/keys.rs): processes that load, create and rotate   *)
(* the key file of one domain at the same time.  A file that was opened    *)
(* stays readable under its handle after another is renamed over its name; *)
(* rotation then fills the old one with zeros.  Keys are numbered as they  *)
(* are generated, and 0 is all zeros.                                      *)
(***************************************************************************)
EXTENDS Integers, Sequences

CONSTANTS Callers, MaxInodes    \* bound: key files ever made

VARIABLES inodes,   \* the contents of every key file ever made
          linked,   \* the one the key's name refers to, 0 if none
          rotated,  \* how often a key was renamed over the name
          op, pc,   \* per caller: what it called, and how far it is
          attempts, \* how often a creation may still start over
          handle,   \* the file it opened
          era,      \* the rotations there had been when it did
          key       \* the key it made or got

fileVars == <<inodes, linked, rotated>>
keyVars == <<inodes, linked, rotated, op, pc, attempts, handle, era, key>>

CREATE_ATTEMPTS == 4

KeySourceInit ==
    /\ inodes = << >>
    /\ linked = 0
    /\ rotated = 0
    /\ op = [p \in Callers |-> "none"]
    /\ pc = [p \in Callers |-> "idle"]
    /\ attempts = [p \in Callers |-> 0]
    /\ handle = [p \in Callers |-> 0]
    /\ era = [p \in Callers |-> 0]
    /\ key = [p \in Callers |-> 0]

Goto(p, l) == pc' = [pc EXCEPT ![p] = l]

Begin(p, called) ==
    /\ pc[p] = "idle"
    /\ op' = [op EXCEPT ![p] = called]
    /\ Goto(p, IF called = "rotate" THEN "previous" ELSE "open")
    /\ attempts' = [attempts EXCEPT ![p] = CREATE_ATTEMPTS]
    /\ UNCHANGED <<inodes, linked, rotated, handle, era, key>>

Returns(p, k, e) ==
    /\ Goto(p, "key")
    /\ key' = [key EXCEPT ![p] = k]
    /\ era' = [era EXCEPT ![p] = e]

(* fsio::read_file opens the name; a missing file ends a load, and makes a *)
(* creation generate a key.                                                *)
Open(p) ==
    /\ pc[p] = "open"
    /\ IF linked # 0
       THEN /\ Goto(p, "read")
            /\ handle' = [handle EXCEPT ![p] = linked]
            /\ era' = [era EXCEPT ![p] = rotated]
       ELSE /\ Goto(p, IF op[p] = "load" THEN "missing" ELSE "link")
            /\ UNCHANGED <<handle, era>>
    /\ UNCHANGED <<inodes, linked, rotated, op, attempts, key>>

\* Variant: zeros are a key like any other (KeyOfItsEra).
UsableAny(contents) == TRUE

Usable(contents) == contents # 0

Read(p) ==
    /\ pc[p] = "read"
    /\ IF Usable(inodes[handle[p]])
       THEN Returns(p, inodes[handle[p]], era[p])
       ELSE Goto(p, "unavailable") /\ UNCHANGED <<era, key>>
    /\ UNCHANGED <<inodes, linked, rotated, op, attempts, handle>>

(* A complete new file takes the name.                                     *)
Publish ==
    /\ Len(inodes) < MaxInodes
    /\ inodes' = Append(inodes, Len(inodes) + 1)
    /\ linked' = Len(inodes) + 1

(* create_file_exclusive: the new file takes the name unless the name is   *)
(* taken; then the creation starts over and reads that key.                *)
Link(p) ==
    /\ pc[p] = "link"
    /\ IF linked = 0
       THEN /\ Publish
            /\ Returns(p, Len(inodes) + 1, rotated)
            /\ UNCHANGED attempts
       ELSE /\ Goto(p, IF attempts[p] > 1 THEN "open" ELSE "unavailable")
            /\ attempts' = [attempts EXCEPT ![p] = @ - 1]
            /\ UNCHANGED <<inodes, linked, era, key>>
    /\ UNCHANGED <<rotated, op, handle>>

(* rotate: open the old file, rename a new one over it, zero the old one.  *)
OpenPrevious(p) ==
    /\ pc[p] = "previous"
    /\ Goto(p, "rename")
    /\ handle' = [handle EXCEPT ![p] = linked]
    /\ UNCHANGED <<inodes, linked, rotated, op, attempts, era, key>>

Rename(p) ==
    /\ pc[p] = "rename"
    /\ Publish
    /\ rotated' = rotated + 1
    /\ Goto(p, "overwrite")
    /\ key' = [key EXCEPT ![p] = Len(inodes) + 1]
    /\ era' = [era EXCEPT ![p] = rotated + 1]
    /\ UNCHANGED <<op, attempts, handle>>

(* The old contents go, if there are any and they can be overwritten.      *)
Overwrite(p) ==
    /\ pc[p] = "overwrite"
    /\ \/ handle[p] # 0 /\ inodes' = [inodes EXCEPT ![handle[p]] = 0]
       \/ UNCHANGED inodes
    /\ Goto(p, "key")
    /\ UNCHANGED <<linked, rotated, op, attempts, handle, era, key>>

(* The caller takes the result and may call again.                         *)
Taken(p) ==
    /\ pc[p] \in {"key", "missing", "unavailable"}
    /\ Goto(p, "idle")
    /\ op' = [op EXCEPT ![p] = "none"]
    /\ attempts' = [attempts EXCEPT ![p] = 0]
    /\ handle' = [handle EXCEPT ![p] = 0]
    /\ era' = [era EXCEPT ![p] = 0]
    /\ key' = [key EXCEPT ![p] = 0]
    /\ UNCHANGED fileVars

KeySourceNext == \E p \in Callers :
    \/ \E called \in {"load", "create", "rotate"} : Begin(p, called)
    \/ Open(p) \/ Read(p) \/ Link(p)
    \/ OpenPrevious(p) \/ Rename(p) \/ Overwrite(p)
    \/ Taken(p)

(* However loads, creations and rotations interleave, a key a caller gets  *)
(* is never the zeros a rotation leaves, a rotation's own file is never    *)
(* zeroed under its name, and unless there was a rotation since the caller *)
(* opened or published it, the key is the one in the key file: two callers *)
(* that find no key agree on one (keys.rs, "Implementations must never     *)
(* replace an existing key except in rotate").                             *)
KeyOfItsEra ==
    /\ linked # 0 => inodes[linked] # 0
    /\ \A p \in Callers : pc[p] = "key" =>
          /\ key[p] # 0
          /\ era[p] = rotated => linked # 0 /\ key[p] = inodes[linked]
=============================================================================
