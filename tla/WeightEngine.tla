---------------------------- MODULE WeightEngine ----------------------------
(***************************************************************************)
(* The arithmetic of the contribution ledger                               *)
(* (services/contribution-ledger/contribution_ledger/weight_engine.py):    *)
(* points of a period become a coefficient kv, capped, and the capped      *)
(* coefficients become payout shares that add up to one.                   *)
(*                                                                         *)
(* The code rounds decimal fractions at fixed places; here a fraction is   *)
(* an integer in units of its last place: points and averages in           *)
(* hundredths, kv_raw and caps in 1/RawScale, kv_capped in 1/KvScale,      *)
(* shares in 1/ShareScale.  A fraction exactly half way goes up; the code, *)
(* on binary floating point, may take either neighbour.                    *)
(***************************************************************************)
EXTENDS Naturals, Integers, FiniteSetsExt, Functions

CONSTANTS RawScale, KvScale, ShareScale

ASSUME ScaleAssumption == {RawScale, KvScale, ShareScale} \subseteq Nat \ {0}

Rounded(n, d) == (2 * n + d) \div (2 * d)

Smaller(a, b) == IF a < b THEN a ELSE b

Total(values) == FoldFunction(+, 0, values)

KvRaw(points, average, cap) ==
    IF 0 \in {points, average, cap} THEN 0 ELSE Rounded(points * RawScale, average)

KvCapped(points, average, cap) ==
    Rounded(Smaller(KvRaw(points, average, cap), cap) * KvScale, RawScale)

\* Coefficients are a function of member ids, which are compared as the code
\* sorts them.
Positive(kvs) == {m \in DOMAIN kvs : kvs[m] > 0}

ShareOf(kvs, m) ==
    IF kvs[m] = 0 THEN 0 ELSE Rounded(kvs[m] * ShareScale, Total(kvs))

\* Mutant: the rounding error of the shares is not given to anybody.
PayoutShares_Plain(kvs) == [m \in DOMAIN kvs |-> ShareOf(kvs, m)]

\* Every positive coefficient gets its rounded part of the whole, and the
\* last of them what the rounding leaves over, or took too much.
PayoutShares(kvs) ==
    LET rounded  == [m \in DOMAIN kvs |-> ShareOf(kvs, m)]
        residual == ShareScale - Total(rounded)
    IN  IF Positive(kvs) = {} THEN rounded
        ELSE [rounded EXCEPT ![Max(Positive(kvs))] = @ + residual]
=============================================================================
