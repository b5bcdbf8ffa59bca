---------------------------- MODULE VarDatabase ----------------------------
(***************************************************************************)
(* The variables of the parsed protocols and the values the packet builder *)
(* may choose for them.                                                    *)
(***************************************************************************)
EXTENDS Bits, Sequences

CONSTANTS
  Refs,       \* fully qualified variable references
  Names,      \* short names
  ShortName,  \* the last component of a reference
  VarDb       \* Database<Var>: the references that resolve, with their Var

Var == [size : Nat, expected : SUBSET Word, range : Seq(Word), mask : Word]

ASSUME RefsAssumption ==
  /\ ShortName \in [Refs -> Names]
  /\ DOMAIN VarDb \subseteq Refs /\ VarDb \in [DOMAIN VarDb -> Var]
  /\ \A r \in DOMAIN VarDb : Len(VarDb[r].range) \in {0, 2}

(***************************************************************************)
(* range is <<>> or <<min, max>>; a variable without a mask, or with a     *)
(* mask of 0, has the mask of all ones.  A reference that does not         *)
(* resolve, or has size 0, makes no field.                                 *)
(***************************************************************************)
Size(ref) == IF ref \in DOMAIN VarDb THEN VarDb[ref].size ELSE 0

Live(ref) == Size(ref) # 0

\* The positions of an interface, up to n, that make a field.
LivePos(iface, n) == {j \in 1 .. n : Live(iface[j])}

\* pickValue: every value the random choice may return.
PickValue(var) ==
  IF var.expected # {} THEN var.expected
  ELSE IF var.range # <<>> THEN
    {w \in Word : \/ WordLeq(var.range[1], w) /\ WordLeq(w, var.range[2])
                  \/ WordLeq(var.range[2], w) /\ WordLeq(w, var.range[1])}
  ELSE {w \cap var.mask : w \in SUBSET {i \in 0 .. WordBits - 1 : i < var.size}}
=============================================================================
