------------------------------- MODULE SeqNum -------------------------------
(***************************************************************************)
(* Sequence numbers of the XRCE streams (utils/SeqNum.hpp): unsigned       *)
(* numbers of a fixed width with a circular order.  A number is before     *)
(* another when less than Half steps lead from it to the other one.  In    *)
(* the code the width is 16 bits, so Half is 32768 and Modulus 65536.      *)
(***************************************************************************)
EXTENDS Integers

CONSTANT Half     \* ADD_RANGE[1] + 1

ASSUME HalfAssumption == Half \in Nat /\ Half > 1

Modulus == 2 * Half                        \* MAX

Residues == 0 .. Modulus - 1

\* operator<: false for equal numbers, and false both ways for numbers that
\* are exactly Half apart.
Lt(lhs, rhs) ==
    \/ lhs < rhs /\ rhs - lhs < Half
    \/ lhs > rhs /\ lhs - rhs > Half

Gt(lhs, rhs) == Lt(rhs, lhs)
Le(lhs, rhs) == ~Gt(lhs, rhs)

\* operator+: an addend outside ADD_RANGE leaves the number as it is.
Plus(lhs, rhs) ==
    IF rhs \in 0 .. Half - 1 THEN (lhs + rhs) % Modulus ELSE lhs

\* operator-.
Minus(lhs, rhs) == IF rhs > lhs THEN lhs - rhs + Modulus ELSE lhs - rhs
=============================================================================
