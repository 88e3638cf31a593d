------------------------------ MODULE FormIds -------------------------------
(* TES4 FormIDs: a 32-bit number whose high byte is a slot of the master     *)
(* list of the file it is written in and whose low 24 bits name a record of  *)
(* that master.  The same number means different records in files with       *)
(* different master lists; plugin.rs and tes4.rs translate between them.     *)
(* A FormID is <<slot, local>>; slots count from 0, sequences from 1.        *)
EXTENDS Integers, Sequences, FiniteSets

Slot(f) == f[1]
Local(f) == f[2]

(* The slot after the last master is the file's own.                         *)
Mappable(ms, f) == Slot(f) <= Len(ms)
Origin(owner, ms, f) == IF Slot(f) < Len(ms) THEN ms[Slot(f) + 1] ELSE owner
Canonical(owner, ms, f) == [origin |-> Origin(owner, ms, f), id |-> Local(f)]

Distinct(ms) == \A i, j \in DOMAIN ms : ms[i] = ms[j] => i = j
Position(ms, name) == CHOOSE i \in DOMAIN ms : ms[i] = name  \* in a distinct list

(* An installed master whose list is exactly the plugin's masters before it. *)
ExactPrefix(pms, ms, at) == pms = SubSeq(ms, 1, at - 1)

(* From the space of a master, which is the plugin's master number at, to    *)
(* the plugin's.                                                             *)
SlotMap(pms, ms, at) ==
  [s \in 0 .. Len(pms) |->
     IF s = Len(pms) THEN at - 1 ELSE Position(ms, pms[s + 1]) - 1]
Remapped(pms, ms, at, f) == <<SlotMap(pms, ms, at)[Slot(f)], Local(f)>>

(* Which slot holds a plugin's own records, if its author left them in one   *)
(* beyond the masters it still declares; -1 if that cannot be told.          *)
Ambiguous == -1
SelfSlot(n, slots) ==
  LET beyond == {s \in slots : s >= n}
  IN  IF beyond = {} \/ n \in beyond THEN n
      ELSE IF Cardinality(beyond) = 1 THEN CHOOSE s \in beyond : TRUE
      ELSE Ambiguous
=============================================================================
