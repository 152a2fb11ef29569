-------------------------------- MODULE Money ---------------------------------
(***************************************************************************)
(* The amounts of money/money.go of the checkout service and the frontend: *)
(* units and a fraction of NanosMod nanos, which has the sign of the       *)
(* units.  All amounts are of one currency.                                *)
(***************************************************************************)
EXTENDS Integers

CONSTANT NanosMod       \* nanosMod, 10^9 in the code

ASSUME MoneyAssumption == NanosMod \in Nat \ {0, 1}

Amounts == [units : Int, nanos : Int]
Amount(units, nanos) == [units |-> units, nanos |-> nanos]
Zero == Amount(0, 0)

(* Stands for ErrInvalidValue, with which Must panics: an amount that is   *)
(* not valid and that no sum has.                                          *)
Panic == Amount(0, NanosMod)

(* What an amount is worth, in nanos. *)
Worth(m) == m.units * NanosMod + m.nanos

SignMatches(m) == m.nanos = 0 \/ m.units = 0 \/ (m.nanos < 0) = (m.units < 0)

IsValid(m) == SignMatches(m) /\ -NanosMod < m.nanos /\ m.nanos < NanosMod

SameSign(units, nanos) ==
  \/ units = 0 /\ nanos = 0
  \/ units > 0 /\ nanos >= 0
  \/ units < 0 /\ nanos <= 0

(* Mutant of Carried: a whole unit exactly is not carried.                 *)
CarriedLate(units, nanos) ==
  IF nanos > NanosMod THEN Amount(units + 1, nanos - NanosMod)
  ELSE IF nanos < -NanosMod THEN Amount(units - 1, nanos + NanosMod)
  ELSE Amount(units, nanos)

(* nanos / nanosMod and nanos % nanosMod round to zero, and the nanos of   *)
(* two valid amounts are less than two units.                              *)
Carried(units, nanos) ==
  IF nanos >= NanosMod THEN Amount(units + 1, nanos - NanosMod)
  ELSE IF nanos <= -NanosMod THEN Amount(units - 1, nanos + NanosMod)
  ELSE Amount(units, nanos)

Borrowed(units, nanos) ==
  IF units > 0 THEN Amount(units - 1, nanos + NanosMod)
  ELSE Amount(units + 1, nanos - NanosMod)

(* Sum of valid amounts. *)
Added(l, r) ==
  LET units == l.units + r.units
      nanos == l.nanos + r.nanos
  IN  IF SameSign(units, nanos) THEN Carried(units, nanos) ELSE Borrowed(units, nanos)

Sum(l, r) == IF IsValid(l) /\ IsValid(r) THEN Added(l, r) ELSE Panic

MultiplySlow(m, n) ==
  LET out[k \in 1..n] == IF k = 1 THEN m ELSE Sum(out[k - 1], m)
  IN  IF n <= 1 THEN m ELSE out[n]
=============================================================================
