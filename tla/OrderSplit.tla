----------------------------- MODULE OrderSplit -----------------------------
(***************************************************************************)
(* The amounts of a payment: PayOrder of service/sales_orders.go reads its *)
(* rates one setting at a time, each with a query of its own, and splits   *)
(* the order's subtotal into six parts.  An administrator may save other   *)
(* settings meanwhile (SettingsService.Update, one transaction), and a     *)
(* failed query silently gives the default.  What a payment does to the    *)
(* tables is in OrderDividends.                                            *)
(*                                                                         *)
(* Amounts are whole dong, rates per cent.  The code multiplies in float64 *)
(* and rounds halves up; for the amounts and rates of the run the products *)
(* come out as here.  The least amount of the equal share is 1000 instead  *)
(* of 1,000,000.                                                           *)
(***************************************************************************)
EXTENDS Integers, Sequences

CONSTANTS Configs,     \* the settings administrators save
          Default,     \* the defaults in the code
          Subtotals

Parts == {"seller", "affiliate", "equal", "pool", "cost"}

\* sales_operations_rate is read as well, but no amount depends on it.
Keys == <<"seller", "affiliate", "equal", "pool", "cost", "min", "pit">>

Names == Parts \cup {"min", "pit"}

PartsSum(f) == f["seller"] + f["affiliate"] + f["equal"] + f["pool"] + f["cost"]

ASSUME SplitAssumption ==
    /\ Subtotals \subseteq Nat \ {0}
    /\ Configs \cup {Default} \subseteq [Names -> Nat]
    /\ \A c \in Configs : c["pit"] = Default["pit"]    \* pit_rate is not among allowedKeys
    /\ Default["pit"] <= 100

VARIABLES setting,      \* site_settings
          rates,        \* what the payment has read so far
          fetched,      \* how many of its keys
          mixed,        \* history: one of the five rates could not be read, or was saved
                        \* after the first of them was read
          subtotal, hasAffiliate,
          part,         \* the sales_distributions row, empty before the split
          commission    \* amount, tax and net of the sales_commissions rows

sale      == <<subtotal, hasAffiliate>>
splitVars == <<setting, rates, fetched, mixed, sale, part, commission>>

NoParts == [k \in {} |-> 0]
Done == part # NoParts

SplitInit ==
    /\ setting \in Configs
    /\ rates = Default /\ fetched = 0 /\ mixed = FALSE
    /\ subtotal \in Subtotals /\ hasAffiliate \in BOOLEAN
    /\ part = NoParts /\ commission = NoParts

Reading == 0 < fetched /\ fetched < Len(Keys) /\ Keys[fetched + 1] \in Parts  \* between two rates

Update ==
    /\ ~Done
    /\ setting' \in Configs \ {setting}
    /\ mixed' = (mixed \/ Reading)
    /\ UNCHANGED <<rates, fetched, sale, part, commission>>

Float(k, v) == rates' = [rates EXCEPT ![k] = v]

ReadRate ==
    /\ fetched < Len(Keys)
    /\ fetched' = fetched + 1
    /\ \/ Float(Keys[fetched'], setting[Keys[fetched']]) /\ UNCHANGED mixed
       \/ Float(Keys[fetched'], Default[Keys[fetched']])
          /\ mixed' = (mixed \/ Keys[fetched'] \in Parts)
    /\ UNCHANGED <<setting, sale, part, commission>>

-----------------------------------------------------------------------------
Round(x, r) == (2 * x * r + 100) \div 200

(***************************************************************************)
(* splitOrder: the parts that do not apply, and the loose dong, go to      *)
(* operations.                                                             *)
(***************************************************************************)
Applies(k) == CASE k = "affiliate" -> hasAffiliate
                [] k = "equal"     -> subtotal >= rates["min"]
                [] OTHER           -> TRUE

Portion(k) == IF Applies(k) THEN Round(subtotal, rates[k]) ELSE 0

\* mutant: operations has its own share, of what the other rates leave
OperationsByRate ==
    Round(subtotal, 100 - PartsSum(rates))

Operations == subtotal - PartsSum([k \in Parts |-> Portion(k)])

(***************************************************************************)
(* createSalesCommission for the seller, and the affiliate if there is     *)
(* one: nothing for an amount of zero, and the tax is held back.           *)
(***************************************************************************)
Earners == {k \in {"seller", "affiliate"} : Portion(k) > 0}

CreateSalesCommission(amount) ==
    LET tax == Round(amount, rates["pit"]) IN [amount |-> amount, tax |-> tax, net |-> amount - tax]

Split ==
    /\ fetched = Len(Keys) /\ ~Done
    /\ part' = [k \in Parts \cup {"operations"} |->
                   IF k = "operations" THEN Operations ELSE Portion(k)]
    /\ commission' = [k \in Earners |-> CreateSalesCommission(Portion(k))]
    /\ UNCHANGED <<setting, rates, fetched, mixed, sale>>

SplitNext == Update \/ ReadRate \/ Split
SplitSpec == SplitInit /\ [][SplitNext]_splitVars

-----------------------------------------------------------------------------
SplitTypeOK ==
    /\ setting \in Configs /\ rates \in [Names -> Nat]
    /\ fetched \in 0..Len(Keys) /\ mixed \in BOOLEAN
    /\ subtotal \in Subtotals /\ hasAffiliate \in BOOLEAN
    /\ Done => /\ part["operations"] \in Int /\ \A k \in Parts : part[k] \in Nat
               /\ \A k \in DOMAIN commission : {commission[k].tax, commission[k].net} \subseteq Nat

RatesAddUp == \A c \in Configs : PartsSum(c) <= 100

NetAndTax(k) == IF k \in DOMAIN commission THEN commission[k].net + commission[k].tax ELSE 0

(***************************************************************************)
(* The six parts are the order's subtotal to the dong ("tong 6 khoan LUON  *)
(* = subtotal"), what seller and affiliate are paid and taxed is their     *)
(* parts, and as long as every table that is saved adds up to 100 % at     *)
(* most, rounding costs operations no more than two dong, unless settings  *)
(* of two times were mixed.                                                *)
(***************************************************************************)
SplitWithinOrder ==
    Done =>
      /\ PartsSum(part) + part["operations"] = subtotal
      /\ \A k \in {"seller", "affiliate"} : part[k] = NetAndTax(k)
      /\ RatesAddUp => mixed \/ part["operations"] >= -2

-----------------------------------------------------------------------------
(***************************************************************************)
(* What the comments say and the code does not keep: TLC finds a           *)
(* counterexample when this is named in the configuration.                 *)
(***************************************************************************)
(***************************************************************************)
(* "don hap thu phan con lai": operations absorbs what is left, which is   *)
(* never less than nothing when the rates add up to 100 % at most.         *)
(***************************************************************************)
OperationsNotNegative == Done => part["operations"] >= 0
=============================================================================
