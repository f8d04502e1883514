------------------------------- MODULE MCCore -------------------------------
(* One core in each configuration that the properties tell apart.          *)
EXTENDS Core

Config(memory, debugger, fast, controlled, insns) ==
  [memory |-> memory, debugger |-> debugger, fast |-> fast, insns |-> insns, controlled |-> controlled, fetch_enable |-> TRUE]

Common == {"plain", "load", "wfi", "irq_on"}

MCConfigs ==
  {Config("sync", "none", FALSE, TRUE, Common \cup {"misaligned", "irq_off", "elw"}),
   Config("cache", "none", FALSE, TRUE, Common \cup {"elw", "invalid"}),
   Config("cache", "gdb", FALSE, TRUE, Common \cup {"sbreak", "elw"}),
   Config("sync", "dbg_unit", FALSE, TRUE, Common \cup {"sbreak", "fence_i", "elw"}),
   Config("sync", "riscv_dbg", FALSE, TRUE, Common \cup {"sbreak", "dcsr", "dret"}),
   Config("cache", "none", TRUE, FALSE, Common \cup {"elw", "irq_off"})}

MCFast == {Config("sync", "gdb", TRUE, FALSE, {"plain", "load"})}
=============================================================================
