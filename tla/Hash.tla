-------------------------------- MODULE Hash --------------------------------
(***************************************************************************)
(* The hash table with integer keys and pointers of src/src/luaio_hash.c,  *)
(* as operators on a table: a list of items in every slot, and their       *)
(* count.  Entries have no age.  luaio_hash_rehash is left out: a table    *)
(* has as many slots as it may have items before it is called, and the     *)
(* library keeps fewer in it.                                              *)
(***************************************************************************)
EXTENDS Naturals, Sequences

CONSTANTS
  Keys,
  Slots,
  Slot    \* luaio_hash_slot: the slot of each key

ASSUME HashAssumption == Slot \in [Keys -> Slots]

\* luaio_hash__create
EmptyTable == [slots |-> [i \in Slots |-> <<>>], items |-> 0]
Tables == [slots : [Slots -> Seq(Keys)], items : Nat]

\* luaio_hash_int_get finds an item, whose pointer is not NULL.
Has(t, k) == \E i \in DOMAIN t.slots[Slot[k]] : t.slots[Slot[k]][i] = k

\* luaio_hash_int_set: an item that is there gets the pointer, else one is put at the head.
Set(t, k) ==
  IF Has(t, k) THEN t
  ELSE [slots |-> [t.slots EXCEPT ![Slot[k]] = <<k>> \o @], items |-> t.items + 1]

\* Mutant: the item that is removed is the first one in the slot.
FirstInSlot(s, k) == Tail(s)

\* The list without the item of k, the first one with that key.
Without(s, k) ==
  LET i == CHOOSE i \in DOMAIN s : s[i] = k
  IN SubSeq(s, 1, i - 1) \o SubSeq(s, i + 1, Len(s))

\* luaio_hash_int_remove
Remove(t, k) ==
  IF ~Has(t, k) THEN t
  ELSE [slots |-> [t.slots EXCEPT ![Slot[k]] = Without(@, k)], items |-> t.items - 1]

=============================================================================
