---------------------------- MODULE MCInterconnect ----------------------------
(***************************************************************************)
(* A memory of 4 bytes followed by an interleaver over two banks of lines  *)
(* of 2 bytes, a converter of 2 bytes, a hole declared as an error, and    *)
(* another hole.  The mappings are inserted in different orders; one table *)
(* has a default entry and maps addresses beyond the end of the memory.    *)
(***************************************************************************)
EXTENDS Interconnect
CONSTANTS m1, m2, m3

Map(base, size, add, target) ==
  [base |-> base, size |-> size, remove_offset |-> IF add = 0 THEN base ELSE 0,
   add_offset |-> add, target |-> target]

mem == Map(4, 4, 0, "memory")
ilv == Map(8, 8, 0, "interleaver")
conv == Map(20, 8, 3, "converter")
err == Map(28, 4, 0, "none")
default == [Map(0, 0, 0, "interleaver") EXCEPT !.remove_offset = 32]

beyond == [mem EXCEPT !.remove_offset = 3]

MCTables == {<<mem, ilv, conv, err>>, <<conv, ilv, mem>>, <<ilv, conv, err, mem>>,
             <<default, beyond, conv, ilv>>}

Access(addr, size) == [addr |-> addr, size |-> size]

(* Inside the memory, over memory and interleaver, odd lines of the        *)
(* interleaver, the converter split in three and forwarded, and the hole.  *)
MCAccesses == {Access(6, 5), Access(11, 4), Access(20, 4), Access(24, 1), Access(36, 2)}
=============================================================================
