----------------------------- MODULE TieredPlan -----------------------------
(***************************************************************************)
(* PlanTiered and PlanTieredFromPool of service/distribution.go: how a     *)
(* pool is divided among the active shareholders.  One part is shared      *)
(* equally; the other in proportion to the rate of each one's band, by     *)
(* largest remainders; what is then left over rolls over to all, or is     *)
(* retained.                                                               *)
(*                                                                         *)
(* Amounts are whole dong.  Rates are integers with a common unit.  The    *)
(* code computes with float64: a quotient that is a whole number may come  *)
(* out just below it, with a fractional part just below one.               *)
(***************************************************************************)
EXTENDS Integers, FiniteSets, Functions, Sums

CONSTANTS Bands,
          RateTables,   \* band rates that may be configured
          EqualRate,    \* dist_equal_rate, in units
          BonusRate,    \* dist_bonus_rate
          Unit,         \* 100 %
          MaxAccounts, MaxPool, MaxRevenue

ASSUME TieredAssumption ==
    /\ RateTables \subseteq [Bands -> Nat]
    /\ {EqualRate, BonusRate, MaxAccounts, MaxPool, MaxRevenue} \subseteq Nat
    /\ Unit \in Nat \ {0}

VARIABLES pc,
          band,         \* the band of each active account, in query order
          rate,         \* cfg.Bands[_].Rate
          mode,         \* cfg.ResidualMode
          equalPool, bonusPool,
          bonus,
          rem,          \* fractional parts, over SumRates
          served,       \* accounts that got one of the loose dong
          payable,      \* Amount
          residual

input    == <<band, rate, mode>>
pools    == <<equalPool, bonusPool>>
planVars == <<pc, input, pools, bonus, rem, served, payable, residual>>

Accounts == DOMAIN band
Count    == Cardinality(Accounts)

SumRates == Sum([i \in Accounts |-> rate[band[i]]])
Quota(i) == bonusPool * rate[band[i]]   \* over SumRates

Floor(a, b) == {a \div b} \cup IF a > 0 /\ a % b = 0 THEN {a \div b - 1} ELSE {}
-----------------------------------------------------------------------------
PlanInit ==
    /\ pc = "pools"
    /\ band \in UNION {[1..k -> Bands] : k \in 0..MaxAccounts}
    /\ rate \in RateTables
    /\ mode \in {"rollover", "retain"}
    /\ equalPool = 0 /\ bonusPool = 0
    /\ bonus = [i \in Accounts |-> 0] /\ rem = [i \in Accounts |-> 0]
    /\ served = {}
    /\ payable = [i \in Accounts |-> 0]
    /\ residual = 0

(***************************************************************************)
(* PlanTiered takes both parts out of the revenue; PlanTieredFromPool      *)
(* splits the pool of the swept orders.                                    *)
(***************************************************************************)
FromRevenue(revenue) ==
    /\ pc = "pools"
    /\ equalPool' \in Floor(revenue * EqualRate, Unit)
    /\ bonusPool' \in Floor(revenue * BonusRate, Unit)
    /\ pc' = "quotas"
    /\ UNCHANGED <<input, bonus, rem, served, payable, residual>>

FromPool(pool) ==
    /\ pc = "pools"
    /\ equalPool' \in IF EqualRate + BonusRate > 0
                      THEN Floor(pool * EqualRate, EqualRate + BonusRate) ELSE {0}
    /\ bonusPool' = pool - equalPool'
    /\ pc' = "quotas"
    /\ UNCHANGED <<input, bonus, rem, served, payable, residual>>

NoAccounts ==
    /\ pc = "quotas" /\ Accounts = {}
    /\ residual' = equalPool + bonusPool
    /\ pc' = "done"
    /\ UNCHANGED <<input, pools, bonus, rem, served, payable>>

(***************************************************************************)
(* Everybody's quota, rounded down.  Accounts with one rate go through the *)
(* same arithmetic and come out the same.                                  *)
(***************************************************************************)
Quotas ==
    /\ pc = "quotas" /\ Accounts # {} /\ SumRates > 0
    /\ \E low \in SUBSET Range(rate) :
          LET at(i)    == Quota(i) \div SumRates
              below(i) == rate[band[i]] \in low /\ Quota(i) > 0 /\ Quota(i) % SumRates = 0
          IN  /\ bonus' = [i \in Accounts |-> IF below(i) THEN at(i) - 1 ELSE at(i)]
              /\ rem' = [i \in Accounts |-> IF below(i) THEN SumRates ELSE Quota(i) % SumRates]
    /\ pc' = "loose"
    /\ UNCHANGED <<input, pools, served, payable, residual>>

NoRates ==
    /\ pc = "quotas" /\ Accounts # {} /\ SumRates = 0
    /\ pc' = "pay"
    /\ UNCHANGED <<input, pools, bonus, rem, served, payable, residual>>

(***************************************************************************)
(* The loose dong go one each to the largest remainders.  sort.SliceStable *)
(* keeps accounts with one rate in query order; equal remainders of        *)
(* different rates may compare either way.                                 *)
(***************************************************************************)
AllButOne == bonusPool - Sum(bonus) - 1   \* mutant: the loop stops one early
Loose     == bonusPool - Sum(bonus)

Before(i, j) == rate[band[i]] = rate[band[j]] => i <= j

Smallest ==                                 \* mutant: < for > in the comparison
    {i \in Accounts \ served : \A j \in Accounts \ served :
        rem[i] < rem[j] \/ (rem[i] = rem[j] /\ Before(i, j))}

Largest ==
    {i \in Accounts \ served : \A j \in Accounts \ served :
        rem[i] > rem[j] \/ (rem[i] = rem[j] /\ Before(i, j))}

HandOutToAll ==                             \* mutant: no k < bonusPool-assigned
    /\ pc = "loose"
    /\ \E i \in Largest : /\ bonus' = [bonus EXCEPT ![i] = @ + 1]
                          /\ served' = served \cup {i}
    /\ UNCHANGED <<pc, input, pools, rem, payable, residual>>

HandOutAgain ==                             \* mutant: order[0] for order[k]
    /\ pc = "loose" /\ Loose > 0
    /\ bonus' = [bonus EXCEPT ![1] = @ + 1]
    /\ UNCHANGED <<pc, input, pools, rem, served, payable, residual>>

HandOut ==
    /\ pc = "loose" /\ Loose > 0
    /\ \E i \in Largest : /\ bonus' = [bonus EXCEPT ![i] = @ + 1]
                          /\ served' = served \cup {i}
    /\ UNCHANGED <<pc, input, pools, rem, payable, residual>>

HandedOut ==
    /\ pc = "loose" /\ (Loose <= 0 \/ served = Accounts)
    /\ pc' = "pay"
    /\ UNCHANGED <<input, pools, bonus, rem, served, payable, residual>>
-----------------------------------------------------------------------------
Pay ==
    /\ pc = "pay"
    /\ payable' = [i \in Accounts |-> equalPool \div Count + bonus[i]]
    /\ pc' = "rest"
    /\ UNCHANGED <<input, pools, bonus, rem, served, residual>>

Rest == equalPool + bonusPool - Sum(payable)

BaseOnly(i) == Rest \div Count              \* mutant: the extra dong are forgotten
Added(i)    == Rest \div Count + IF i <= Rest % Count THEN 1 ELSE 0

RollOver ==
    /\ pc = "rest" /\ mode # "retain" /\ Rest > 0
    /\ payable' = [i \in Accounts |-> payable[i] + Added(i)]
    /\ pc' = "done"
    /\ UNCHANGED <<input, pools, bonus, rem, served, residual>>

Retain ==
    /\ pc = "rest" /\ (mode = "retain" \/ Rest <= 0)
    /\ residual' = Rest
    /\ pc' = "done"
    /\ UNCHANGED <<input, pools, bonus, rem, served, payable>>

PlanNext ==
    \/ \E revenue \in 1..MaxRevenue : FromRevenue(revenue)
    \/ \E pool \in 1..MaxPool : FromPool(pool)
    \/ NoAccounts \/ Quotas \/ NoRates \/ HandOut \/ HandedOut
    \/ Pay \/ RollOver \/ Retain

PlanSpec == PlanInit /\ [][PlanNext]_planVars
-----------------------------------------------------------------------------
(***************************************************************************)
(* All amounts are natural numbers, at every point of the computation.     *)
(***************************************************************************)
PlanTypeOK ==
    /\ pc \in {"pools", "quotas", "loose", "pay", "rest", "done"}
    /\ {equalPool, bonusPool, residual} \subseteq Nat
    /\ {bonus, rem, payable} \subseteq [Accounts -> Nat]
    /\ served \subseteq Accounts

(***************************************************************************)
(* The bonus pool is shared to the last dong, however the quotas were      *)
(* rounded, unless all rates are zero ("the sum of the bonuses is exactly  *)
(* bonusPool", planTieredPools).                                           *)
(***************************************************************************)
BonusSharedOut ==
    pc \in {"pay", "rest", "done"} /\ Accounts # {} /\ SumRates > 0 => Sum(bonus) = bonusPool

(***************************************************************************)
(* The pool is paid out or retained, nothing more and nothing less; under  *)
(* rollover it is all paid out, and under retain less than one dong per    *)
(* account remains (all rates zero apart).                                 *)
(***************************************************************************)
PoolSharedOut ==
    pc = "done" =>
        /\ Sum(payable) + residual = equalPool + bonusPool
        /\ Accounts # {} /\ mode = "rollover" => residual = 0
        /\ Accounts # {} /\ SumRates > 0 => residual < Count

(***************************************************************************)
(* Nobody's bonus is a whole dong away from the exact quota.               *)
(***************************************************************************)
QuotaRule ==
    pc \in {"pay", "rest", "done"} /\ SumRates > 0 =>
        \A i \in Accounts : /\ bonus[i] * SumRates < Quota(i) + SumRates
                            /\ Quota(i) < bonus[i] * SumRates + SumRates

(***************************************************************************)
(* A better band never gets a smaller bonus, and the extra dong of the     *)
(* rollover costs it one dong at most; two accounts of one rate differ by  *)
(* one dong in the bonus and by two in all.                                *)
(***************************************************************************)
BetterBandNotLess ==
    pc \in {"pay", "rest", "done"} =>
        \A i, j \in Accounts :
            /\ rate[band[i]] > rate[band[j]] => bonus[i] >= bonus[j] /\ payable[i] >= payable[j] - 1
            /\ rate[band[i]] = rate[band[j]] => /\ bonus[i] <= bonus[j] + 1
                                                /\ payable[i] <= payable[j] + 2
=============================================================================
