---------------------------- MODULE RoutingTable ----------------------------
(***************************************************************************)
(* The table of a router (models/interco/router_impl.cpp).  Mappings are   *)
(* inserted one by one in a list sorted by base; at the first request the  *)
(* list is merged two by two into a binary tree, in which each access is   *)
(* looked up.                                                              *)
(*                                                                         *)
(* A mapping is a record [base, size, remove_offset, add_offset, target].  *)
(* The mapping named "error" has no interface: its target is "none".  The  *)
(* one of size 0 is the default.                                           *)
(***************************************************************************)
EXTENDS Integers, Sequences

NoEntry == [base |-> 0, size |-> 0, remove_offset |-> 0, add_offset |-> 0, target |-> "none"]

Inside(e, a) == e.base <= a /\ a < e.base + e.size

\* Mutant: a mapping is put at the end of the list.
insert_Unsorted(list, e) == Append(list, e)

\* The mapping goes before the first one whose base is not lower.
insert(list, e) ==
  LET k == CHOOSE k \in 0..Len(list) :
             /\ \A i \in 1..k : list[i].base < e.base
             /\ k < Len(list) => list[k + 1].base >= e.base
  IN  SubSeq(list, 1, k) \o <<e>> \o SubSeq(list, k + 1, Len(list))

Listed(e) == e.size # 0 /\ e.target # "none"
firstMapEntry(table) ==
  LET list[n \in 0..Len(table)] ==
        IF n = 0 THEN <<>>
        ELSE IF Listed(table[n]) THEN insert(list[n - 1], table[n]) ELSE list[n - 1]
  IN  list[Len(table)]

\* The mapping of the table with the last of the numbers in I.
LastOf(table, I) == IF I = {} THEN NoEntry ELSE table[CHOOSE i \in I : \A j \in I : j <= i]

errorMapEntry(table) ==
  LastOf(table, {i \in 1..Len(table) : table[i].size # 0 /\ table[i].target = "none"})
defaultMapEntry(table) == LastOf(table, {i \in 1..Len(table) : table[i].size = 0})

-----------------------------------------------------------------------------
(* The tree: a node compares with the lowest base of its right child.      *)

Leaf(e) == [base |-> e.base, lowestBase |-> e.base, kids |-> <<>>, entry |-> e]
Node(l, r) ==
  [base |-> r.lowestBase, lowestBase |-> l.lowestBase, kids |-> <<l, r>>, entry |-> r.entry]

\* One level is merged two by two; an entry that is alone moves up as it is.
MergeLevel(level) ==
  [i \in 1..((Len(level) + 1) \div 2) |->
     IF 2 * i <= Len(level) THEN Node(level[2 * i - 1], level[2 * i]) ELSE level[Len(level)]]

\* The levels up to the one that holds the top of the tree alone.
Levels(list) ==
  LET level[n \in Nat] ==
        IF n = 0 THEN [i \in 1..Len(list) |-> Leaf(list[i])] ELSE MergeLevel(level[n - 1])
  IN  level

init_entries(list) == Levels(list)[Len(list)][1]

\* One step of the walk to the leaf.
Below(node, offset) ==
  IF node.kids = <<>> THEN node ELSE node.kids[IF offset >= node.base THEN 2 ELSE 1]

\* The nodes on the way from top for offset, and the mapping it ends in.
Path(top, offset) ==
  LET at[n \in Nat] == IF n = 0 THEN top ELSE Below(at[n - 1], offset)
  IN  at

Walk(list, offset) == Path(init_entries(list), offset)[Len(list)].entry

\* The mapping that an access of size bytes at offset is sent to, or NoEntry.
Lookup(table, offset, size) ==
  LET list  == firstMapEntry(table)
      error == errorMapEntry(table)
      found == list # <<>> /\ Inside(Walk(list, offset), offset)
  IN  IF found THEN Walk(list, offset)
      ELSE IF Inside(error, offset) /\ offset + size <= error.base + error.size THEN NoEntry
      ELSE defaultMapEntry(table)

\* The number of bytes of the access that go there.  The code keeps it in an int.
iter_size(e, offset, size) ==
  IF e.size = 0 \/ e.base + e.size - offset > size THEN size ELSE e.base + e.size - offset

\* The address the target sees.
Translate(e, offset) ==
  IF e.add_offset # 0 THEN offset + e.add_offset ELSE offset - e.remove_offset

-----------------------------------------------------------------------------
(* What a table means: an address is in one mapping at most, and belongs   *)
(* to the mapping it is in.                                                *)

Targets == {"memory", "interleaver", "converter", "none"}
Mappings ==
  [base : Nat, size : Nat, remove_offset : Nat, add_offset : Nat, target : Targets]

\* Beyond the greatest int, iter_size would not be what is left of the mapping.
MaxInt == 2147483647

WellFormed(table) ==
  /\ table \in Seq(Mappings)
  /\ \A i \in 1..Len(table) : table[i].size <= MaxInt
  /\ \A i \in 1..Len(table) : table[i].size = 0 => table[i].target # "none"
  /\ \A i, j \in 1..Len(table) :
       i # j /\ Listed(table[i]) /\ Listed(table[j]) =>
         \/ table[i].base + table[i].size <= table[j].base
         \/ table[j].base + table[j].size <= table[i].base

Owner(table, a) ==
  LET mine == {i \in 1..Len(table) : Listed(table[i]) /\ Inside(table[i], a)}
  IN  IF mine # {} THEN table[CHOOSE i \in mine : TRUE]
      ELSE IF Inside(errorMapEntry(table), a) THEN NoEntry ELSE defaultMapEntry(table)
=============================================================================
