---------------------------- MODULE ValueGadget ----------------------------
(***************************************************************************)
(* How the circuits hold an amount and add: three limbs, each checked to   *)
(* its width, and carries between them, in a prime field.                  *)
(*                                                                         *)
(* In the code Radix is 2^24, TopLimb is 2^16 and Prime is 2^31 - 2^27 + 1. *)
(***************************************************************************)
EXTENDS Integers

CONSTANTS
    Radix,      \* values of each of the two lower limbs
    TopLimb,    \* values of the top limb
    Prime       \* order of the field

\* Prime is above the largest difference of limbs plus a carry.
ASSUME GadgetAssumption ==
    /\ Radix \in Nat \ {0, 1}
    /\ TopLimb \in 1..Radix
    /\ Prime \in Nat /\ Prime > 5 * Radix

MaxValue == Radix * Radix * TopLimb - 1     \* u64::MAX

Limbs == (0..(Radix - 1)) \X (0..(Radix - 1)) \X (0..(TopLimb - 1))

\* The number that three limbs stand for.
ValueOf(l) == l[1] + Radix * l[2] + Radix * Radix * l[3]

\* The limbs of a number.
U64ToFelts(v) == <<v % Radix, (v \div Radix) % Radix, v \div (Radix * Radix)>>

RangeCheck(l) == l \in Limbs

Carries == {-1, 0, 1}

\* Equality in the field.
FieldEq(a, b) == (a - b) % Prime = 0

\* The difference of the two sides in limb i.
Difference(lhs, rhs, i) == lhs[1][i] + lhs[2][i] - rhs[1][i] - rhs[2][i]

\* Two amounts on each side.  Each limb leaves a carry or a borrow for the
\* next one, and the top limb leaves none.
EnforceSumEq(lhs, rhs) ==
    \E low, mid \in Carries :
        /\ FieldEq(Difference(lhs, rhs, 1), Radix * low)
        /\ FieldEq(Difference(lhs, rhs, 2) + low, Radix * mid)
        /\ FieldEq(Difference(lhs, rhs, 3) + mid, 0)

----------------------------------------------------------------------------

\* Amounts balance in the circuit exactly when they balance as integers: no
\* wrap in the field and no pair of carries fakes a sum, and no honest sum is
\* refused, one above the largest amount included.
SumEqExact ==
    \A a, b, c, d \in Limbs :
        EnforceSumEq(<<a, b>>, <<c, d>>) <=> ValueOf(a) + ValueOf(b) = ValueOf(c) + ValueOf(d)
=============================================================================
