-------------------------- MODULE KeySourceProofs --------------------------
(***************************************************************************)
(* For any set of callers, however many keys they make: a key a caller     *)
(* gets from FileKeySource is the one of its era, and never zeros.         *)
(***************************************************************************)
EXTENDS KeySource, TLAPS

Spec == KeySourceInit /\ [][KeySourceNext]_keyVars

pcs == {"idle", "open", "read", "link", "previous", "rename", "overwrite", "key",
        "missing", "unavailable"}

TypeOK ==
    /\ inodes \in Seq(Nat)
    /\ linked \in 0 .. Len(inodes)
    /\ rotated \in Nat
    /\ pc \in [Callers -> pcs]
    /\ handle \in [Callers -> 0 .. Len(inodes)]
    /\ era \in [Callers -> Nat]
    /\ key \in [Callers -> Nat]

(* A file holds the key it was made with or zeros; the file under the name *)
(* is the newest one made and is never zeroed.                             *)
FilesOK ==
    /\ linked = Len(inodes)
    /\ linked # 0 => inodes[linked] = linked
    /\ \A i \in 1 .. Len(inodes) : inodes[i] \in {0, i}

(* What a caller holds: a handle opened in this era is the file under the  *)
(* name, and a rotation zeroes a file older than its own.                  *)
CallerOK(p) ==
    /\ era[p] <= rotated
    /\ pc[p] = "read" => handle[p] # 0 /\ (era[p] = rotated => handle[p] = linked)
    /\ pc[p] = "overwrite" => handle[p] < linked
    /\ pc[p] \in {"overwrite", "key"} =>
          key[p] # 0 /\ (era[p] = rotated => key[p] = linked)

IInv == TypeOK /\ FilesOK /\ \A p \in Callers : CallerOK(p)

LEMMA InitIInv == KeySourceInit => IInv
  <1> SUFFICES ASSUME KeySourceInit PROVE IInv
    OBVIOUS
  <1>1. inodes \in Seq(Nat) /\ Len(inodes) = 0
    BY DEF KeySourceInit
  <1>2. TypeOK
    BY <1>1 DEF KeySourceInit, TypeOK, pcs
  <1>3. FilesOK
    BY <1>1 DEF KeySourceInit, FilesOK
  <1>4. ASSUME NEW p \in Callers PROVE CallerOK(p)
    <2>1. pc[p] = "idle" /\ era[p] = 0 /\ rotated = 0
      BY DEF KeySourceInit
    <2> QED
      BY <2>1 DEF CallerOK
  <1> QED
    BY <1>2, <1>3, <1>4 DEF IInv

(* Publishing: the new file is the newest, and every handle is to an older *)
(* one.                                                                    *)
LEMMA NewFile ==
    ASSUME IInv, Publish
    PROVE  /\ inodes' \in Seq(Nat) /\ Len(inodes') = Len(inodes) + 1
           /\ linked' = Len(inodes) + 1 /\ linked' \in 0 .. Len(inodes')
           /\ FilesOK'
  <1>1. inodes \in Seq(Nat) /\ Len(inodes) \in Nat
    BY DEF IInv, TypeOK
  <1>2. inodes' \in Seq(Nat) /\ Len(inodes') = Len(inodes) + 1
    BY <1>1 DEF Publish
  <1>3. inodes'[Len(inodes) + 1] = Len(inodes) + 1
    BY <1>1 DEF Publish
  <1>4. \A i \in 1 .. Len(inodes) : inodes'[i] = inodes[i]
    BY <1>1 DEF Publish
  <1>5. \A i \in 1 .. Len(inodes') : inodes'[i] \in {0, i}
    BY <1>1, <1>2, <1>3, <1>4 DEF IInv, FilesOK
  <1> QED
    BY <1>1, <1>2, <1>3, <1>5 DEF FilesOK, Publish

LEMMA StepIInv == IInv /\ [KeySourceNext]_keyVars => IInv'
  <1> SUFFICES ASSUME IInv, [KeySourceNext]_keyVars PROVE IInv'
    OBVIOUS
  <1> USE DEF IInv
  <1>1. CASE UNCHANGED keyVars
    BY <1>1 DEF TypeOK, FilesOK, CallerOK, keyVars
  <1>2. ASSUME NEW p \in Callers, NEW called \in {"load", "create", "rotate"},
               Begin(p, called)
        PROVE  IInv'
    BY <1>2 DEF Begin, Goto, TypeOK, pcs, FilesOK, CallerOK
  <1>3. ASSUME NEW p \in Callers, Open(p) PROVE IInv'
    <2>1. CASE linked # 0
      <3>1. TypeOK'
        BY <1>3, <2>1 DEF Open, Goto, TypeOK, pcs
      <3>2. FilesOK'
        BY <1>3, <2>1 DEF Open, FilesOK
      <3>3. ASSUME NEW q \in Callers PROVE CallerOK(q)'
        BY <1>3, <2>1 DEF Open, Goto, TypeOK, CallerOK
      <3> QED
        BY <3>1, <3>2, <3>3
    <2>2. CASE linked = 0
      BY <1>3, <2>2 DEF Open, Goto, TypeOK, pcs, FilesOK, CallerOK
    <2> QED
      BY <2>1, <2>2
  <1>4. ASSUME NEW p \in Callers, Read(p) PROVE IInv'
    <2>1. handle[p] \in 1 .. Len(inodes)
      BY <1>4 DEF Read, TypeOK, CallerOK
    <2>2. inodes[handle[p]] \in {0, handle[p]}
      BY <2>1 DEF FilesOK
    <2>3. TypeOK'
      <3>1. inodes[handle[p]] \in Nat
        BY <2>1, <2>2
      <3>2. CASE Usable(inodes[handle[p]])
        BY <1>4, <3>1, <3>2 DEF Read, Returns, Goto, TypeOK, pcs
      <3>3. CASE ~Usable(inodes[handle[p]])
        BY <1>4, <3>3 DEF Read, Goto, TypeOK, pcs
      <3> QED
        BY <3>2, <3>3
    <2>4. FilesOK'
      BY <1>4 DEF Read, FilesOK
    <2>5. ASSUME NEW q \in Callers PROVE CallerOK(q)'
      BY <1>4, <2>1, <2>2 DEF Read, Returns, Goto, Usable, TypeOK, CallerOK
    <2> QED
      BY <2>3, <2>4, <2>5
  <1>5. ASSUME NEW p \in Callers, Link(p) PROVE IInv'
    <2>1. CASE linked = 0
      <3>1. Publish /\ Returns(p, Len(inodes) + 1, rotated)
        BY <1>5, <2>1 DEF Link
      <3>2. TypeOK'
        <4>1. /\ inodes' \in Seq(Nat) /\ Len(inodes') = Len(inodes) + 1
              /\ linked' \in 0 .. Len(inodes')
          BY <3>1, NewFile
        <4>2. Len(inodes) \in Nat
          BY DEF TypeOK
        <4>3. rotated' \in Nat /\ pc' \in [Callers -> pcs]
          BY <1>5, <3>1 DEF Link, Returns, Goto, TypeOK, pcs
        <4>4. handle' \in [Callers -> 0 .. Len(inodes')]
          BY <1>5, <4>1, <4>2 DEF Link, TypeOK
        <4>5. era' \in [Callers -> Nat] /\ key' \in [Callers -> Nat]
          BY <3>1, <4>2 DEF Returns, TypeOK
        <4> QED
          BY <4>1, <4>3, <4>4, <4>5 DEF TypeOK
      <3>3. ASSUME NEW q \in Callers PROVE CallerOK(q)'
        BY <1>5, <2>1, <3>1, NewFile DEF Link, Returns, Goto, TypeOK, pcs, FilesOK, CallerOK
      <3> QED
        BY <3>1, <3>2, <3>3, NewFile
    <2>2. CASE linked # 0
      BY <1>5, <2>2 DEF Link, Goto, TypeOK, pcs, FilesOK, CallerOK
    <2> QED
      BY <2>1, <2>2
  <1>6. ASSUME NEW p \in Callers, OpenPrevious(p) PROVE IInv'
    BY <1>6 DEF OpenPrevious, Goto, TypeOK, pcs, FilesOK, CallerOK
  <1>7. ASSUME NEW p \in Callers, Rename(p) PROVE IInv'
    <2>1. Publish
      BY <1>7 DEF Rename
    <2>2. TypeOK'
      <3>1. /\ inodes' \in Seq(Nat) /\ Len(inodes') = Len(inodes) + 1
            /\ linked' \in 0 .. Len(inodes')
        BY <2>1, NewFile
      <3>2. Len(inodes) \in Nat
        BY DEF TypeOK
      <3>3. rotated' \in Nat /\ pc' \in [Callers -> pcs]
        BY <1>7 DEF Rename, Goto, TypeOK, pcs
      <3>4. handle' \in [Callers -> 0 .. Len(inodes')]
        BY <1>7, <3>1, <3>2 DEF Rename, TypeOK
      <3>5. era' \in [Callers -> Nat] /\ key' \in [Callers -> Nat]
        BY <1>7, <3>2 DEF Rename, TypeOK
      <3> QED
        BY <3>1, <3>3, <3>4, <3>5 DEF TypeOK
    <2>3. ASSUME NEW q \in Callers PROVE CallerOK(q)'
      <3>1. /\ linked' = Len(inodes) + 1 /\ rotated' = rotated + 1
            /\ handle' = handle /\ handle[q] \in 0 .. Len(inodes)
            /\ Len(inodes) \in Nat /\ rotated \in Nat /\ era[q] \in Nat
        BY <1>7, <2>1, NewFile DEF Rename, TypeOK
      <3>2. CASE q = p
        <4>1. /\ pc'[q] = "overwrite" /\ era'[q] = rotated + 1
              /\ key'[q] = Len(inodes) + 1
          BY <1>7, <3>2 DEF Rename, Goto, TypeOK
        <4> QED
          BY <3>1, <4>1 DEF CallerOK
      <3>3. CASE q # p
        <4>1. pc'[q] = pc[q] /\ era'[q] = era[q] /\ key'[q] = key[q]
          BY <1>7, <3>3 DEF Rename, Goto, TypeOK
        <4>2. era[q] <= rotated /\ (pc[q] = "read" => handle[q] # 0)
              /\ (pc[q] \in {"overwrite", "key"} => key[q] # 0)
          BY DEF CallerOK
        <4> QED
          BY <3>1, <4>1, <4>2 DEF CallerOK
      <3> QED
        BY <3>2, <3>3
    <2> QED
      BY <2>1, <2>2, <2>3, NewFile
  <1>8. ASSUME NEW p \in Callers, Overwrite(p) PROVE IInv'
    <2>1. handle[p] \in 0 .. Len(inodes) /\ handle[p] < linked
      BY <1>8 DEF Overwrite, TypeOK, CallerOK
    <2>2. CASE handle[p] # 0 /\ inodes' = [inodes EXCEPT ![handle[p]] = 0]
      <3>1. inodes' \in Seq(Nat) /\ Len(inodes') = Len(inodes)
        BY <2>1, <2>2 DEF TypeOK
      <3>2. \A i \in 1 .. Len(inodes) :
               inodes'[i] = IF i = handle[p] THEN 0 ELSE inodes[i]
        BY <2>1, <2>2 DEF TypeOK
      <3>3. TypeOK'
        BY <1>8, <3>1 DEF Overwrite, Goto, TypeOK, pcs
      <3>4. FilesOK'
        <4>1. linked' = linked /\ linked = Len(inodes) /\ linked \in Nat
          BY <1>8 DEF Overwrite, FilesOK, TypeOK
        <4>2. linked # 0 => linked \in 1 .. Len(inodes) /\ linked # handle[p]
          BY <2>1, <4>1
        <4>3. linked # 0 => inodes'[linked] = linked
          BY <3>2, <4>2 DEF FilesOK
        <4>4. \A i \in 1 .. Len(inodes) : inodes'[i] \in {0, i}
          BY <3>2 DEF FilesOK
        <4> QED
          BY <3>1, <4>1, <4>3, <4>4 DEF FilesOK
      <3>5. ASSUME NEW q \in Callers PROVE CallerOK(q)'
        BY <1>8 DEF Overwrite, Goto, TypeOK, pcs, CallerOK
      <3> QED
        BY <3>3, <3>4, <3>5
    <2>3. CASE UNCHANGED inodes
      BY <1>8, <2>3 DEF Overwrite, Goto, TypeOK, pcs, FilesOK, CallerOK
    <2> QED
      BY <1>8, <2>2, <2>3 DEF Overwrite
  <1>9. ASSUME NEW p \in Callers, Taken(p) PROVE IInv'
    BY <1>9 DEF Taken, Goto, fileVars, TypeOK, pcs, FilesOK, CallerOK
  <1> QED
    BY <1>1, <1>2, <1>3, <1>4, <1>5, <1>6, <1>7, <1>8, <1>9 DEF KeySourceNext

(* A key returned in this era is a file's number, and the file under the   *)
(* name still holds the key of that number.                                *)
LEMMA IInvImpliesEra == IInv => KeyOfItsEra
  <1> SUFFICES ASSUME IInv PROVE KeyOfItsEra
    OBVIOUS
  <1>1. linked # 0 => inodes[linked] # 0
    BY DEF IInv, FilesOK
  <1>2. ASSUME NEW p \in Callers, pc[p] = "key"
        PROVE  /\ key[p] # 0
               /\ era[p] = rotated => linked # 0 /\ key[p] = inodes[linked]
    BY <1>2 DEF IInv, CallerOK, FilesOK
  <1> QED
    BY <1>1, <1>2 DEF KeyOfItsEra

(* Whatever the callers do and however many they are, a key FileKeySource  *)
(* hands out is not zeros and, unless there was a rotation since, is the   *)
(* key in the key file.                                                    *)
THEOREM KeysAreOfTheirEra == Spec => []KeyOfItsEra
  BY InitIInv, StepIInv, IInvImpliesEra, PTL DEF Spec
=============================================================================
