--------------------------- MODULE VestingSchedule ---------------------------
(***************************************************************************)
(* What a vesting account owes at a slot (impl Vesting in                  *)
(* lockup/src/accounts/vesting.rs), as operators on the account v.  The    *)
(* subtractions are those of u64: module Lockup states as properties that  *)
(* none of them falls below zero.                                          *)
(***************************************************************************)
EXTENDS Integers

Least(a, b) == IF a <= b THEN a ELSE b

Window(v) == v.end_slot - v.start_slot

\* By how much linear_unlock moves the start of the window back.  The moved
\* start may wrap below zero, the differences taken from it wrap back.
Overflow(v) == Window(v) % v.period_count

PushedWindow(v) == Window(v) + Overflow(v)

Period(v) == PushedWindow(v) \div v.period_count

VestedPeriods(v, slot) ==
  Least((slot - v.start_slot + Overflow(v)) \div Period(v), v.period_count)

linear_unlock(v, slot) ==
  VestedPeriods(v, slot) * (v.start_balance \div v.period_count)

\* Mutant: everything vests a slot early.
total_vested_SlotEarly(v, slot) ==
  IF slot + 1 >= v.end_slot THEN v.start_balance ELSE linear_unlock(v, slot)

total_vested(v, slot) ==
  IF slot >= v.end_slot THEN v.start_balance ELSE linear_unlock(v, slot)

\* Before the end of the schedule, a period of no slots is a division by zero.
Computable(v, slot) == slot >= v.start_slot /\ (slot >= v.end_slot \/ Period(v) > 0)

withdrawn_amount(v) == v.start_balance - v.balance

balance_vested(v, slot) == total_vested(v, slot) - withdrawn_amount(v)

available_for_whitelist(v) == v.balance - v.whitelist_owned

\* Mutant: what was withdrawn before is not taken off.
available_for_withdrawal_Again(v, slot) ==
  Least(total_vested(v, slot), available_for_whitelist(v))

available_for_withdrawal(v, slot) ==
  Least(balance_vested(v, slot), available_for_whitelist(v))
=============================================================================
