------------------------------ MODULE Whitelist ------------------------------
(***************************************************************************)
(* The whitelist of a safe (lockup/src/accounts/whitelist.rs): an array of *)
(* LEN items of ITEM_SIZE bytes in an account, read and written at byte    *)
(* offsets.  An entry stands for its program, instance and nonce together, *)
(* that is, for the address derived from the three.                        *)
(***************************************************************************)
EXTENDS Integers, FiniteSetsExt

CONSTANTS
  Entries,     \* the entries that may be listed
  Zero,        \* WhitelistEntry::zero(), an item that is free
  LEN,         \* items of a whitelist: 50
  ITEM_SIZE    \* bytes of an item: 65

ASSUME WhitelistAssumption ==
  /\ IsFiniteSet(Entries) /\ Zero \notin Entries
  /\ LEN \in Nat \ {0} /\ ITEM_SIZE \in Nat \ {0}

SIZE == ITEM_SIZE * LEN

NotFound == -1

Lists == [0 .. LEN - 1 -> Entries \union {Zero}]

Empty == [i \in 0 .. LEN - 1 |-> Zero]

\* array_mut_ref panics on a slice beyond the account.
InRange(index) == (index + 1) * ITEM_SIZE <= SIZE

add_at(list, index, e) == [list EXCEPT ![index] = e]

\* The value is the offset k of the item, which add_at takes for an index.
index_of(list, e) ==
  LET found == {i \in DOMAIN list : list[i] = e}
  IN  IF found = {} THEN NotFound ELSE Min(found) * ITEM_SIZE

\* push succeeds: the entry is new, there is room, and add_at does not panic.
CanPush(list, e) ==
  /\ index_of(list, e) = NotFound
  /\ index_of(list, Zero) # NotFound
  /\ InRange(index_of(list, Zero))

push(list, e) == add_at(list, index_of(list, Zero), e)

CanDelete(list, e) == index_of(list, e) # NotFound /\ InRange(index_of(list, e))

delete(list, e) == add_at(list, index_of(list, e), Zero)

\* get_derived finds the listed entry with this derived address; when there is
\* none it answers None or fails to derive the address of a zeroed item, and
\* the instruction fails in either case.
contains_derived(list, e) == \E i \in DOMAIN list : list[i] = e
=============================================================================
