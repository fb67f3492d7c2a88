-------------------------------- MODULE Fees --------------------------------
(***************************************************************************)
(* The fee schedule of the market (dex/src/fees.rs): a taker pays a        *)
(* percentage of the pc quantity it trades, the maker of the trade gets a  *)
(* rebate out of that fee, and the referrer of the taker a fifth of it.    *)
(*                                                                         *)
(* Rates are fixed-point numbers U64F64.  ONE is the number that stands    *)
(* for 1: 2^64 in the code, a smaller power of two in the model checker,   *)
(* whose integers have 32 bits.  The formulas are those of the code for    *)
(* any ONE.                                                                *)
(***************************************************************************)
EXTENDS Integers

CONSTANT ONE

\* A basis point is at least one unit in the last place; 2^64 in the code.
ASSUME OneAssumption == ONE \in Nat /\ ONE >= 10000

FeeTier == {"Base", "SRM2", "SRM3", "SRM4", "SRM5", "SRM6", "MSRM"}

\* SRM has six decimals; MSRM, of which one is enough, has none.
from_srm_and_msrm_balances(srm_held, msrm_held) ==
  LET one_srm == 1000000
  IN  IF msrm_held >= 1 THEN "MSRM"
      ELSE IF srm_held >= 1000000 * one_srm THEN "SRM6"
      ELSE IF srm_held >= 100000 * one_srm THEN "SRM5"
      ELSE IF srm_held >= 10000 * one_srm THEN "SRM4"
      ELSE IF srm_held >= 1000 * one_srm THEN "SRM3"
      ELSE IF srm_held >= 100 * one_srm THEN "SRM2"
      ELSE "Base"

fee_bps(bps) == (bps * ONE) \div 10000

rebate_bps(bps) == fee_bps(bps) + 1

taker_bps(tier) ==
  CASE tier = "Base" -> 22
    [] tier = "SRM2" -> 20
    [] tier = "SRM3" -> 18
    [] tier = "SRM4" -> 16
    [] tier = "SRM5" -> 14
    [] tier = "SRM6" -> 12
    [] OTHER -> 10

taker_rate(tier) == fee_bps(taker_bps(tier))

maker_rate(tier) == rebate_bps(IF tier = "MSRM" THEN 5 ELSE 3)

\* Rounded down: what the maker of a trade of pc_qty gets back.
maker_rebate(tier, pc_qty) == (maker_rate(tier) * pc_qty) \div ONE

\* Mutant: the fee is rounded down.
taker_fee_Floor(tier, pc_qty) == (taker_rate(tier) * pc_qty) \div ONE

\* Rounded up: what the taker of a trade of pc_qty pays on top of it.
taker_fee(tier, pc_qty) ==
  LET exact_fee == taker_rate(tier) * pc_qty
  IN  exact_fee \div ONE + (IF exact_fee % ONE # 0 THEN 1 ELSE 0)

\* Mutant: nothing is set aside for the fee.
remove_taker_fee_Nothing(tier, pc_qty_incl_fee) == pc_qty_incl_fee

\* The part of pc_qty_incl_fee that can be traded once the fee is set aside.
remove_taker_fee(tier, pc_qty_incl_fee) ==
  (pc_qty_incl_fee * ONE) \div (ONE + taker_rate(tier))

\* Mutant: the referrer gets half of the fee.
referrer_rebate_Half(amount) == amount \div 2

referrer_rebate(amount) == amount \div 5
=============================================================================
