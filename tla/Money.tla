------------------------------- MODULE Money --------------------------------
(***************************************************************************)
(* Amounts of money and their rounding.  An amount is a whole number of    *)
(* tenths of a cent: users and chains deal in finer amounts than cents,    *)
(* while fees, net amounts and recorded deposits are rounded to them.      *)
(***************************************************************************)
EXTENDS Integers

Cent == 10

\* round(x / s, 2): the nearest whole cents.  Between two of them the float
\* x / s lies on either side, so that both are possible.
Nearest(x, s) ==
  LET below == Cent * (x \div (s * Cent))
  IN  {c \in {below, below + Cent} : 2 * (s * c - x) \in (-s * Cent)..(s * Cent)}
=============================================================================
