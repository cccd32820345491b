----------------------------- MODULE MCMachine -----------------------------
(***************************************************************************)
(* Below the file system, for TLC: the buffer cache with the disk driver,  *)
(* or the start of the processors, one of which is chosen at the start.    *)
(***************************************************************************)
EXTENDS BufCache, Boot
CONSTANTS p1, p2, b1, b2, b3, v1, v2
TwoProcs == {p1, p2}
ThreeBlocks == {b1, b2, b3}
TwoVals == {v1, v2}

\* Tables with other entries, with the boot processor first, last or beyond NCPU,
\* and with an entry of an unknown type.
MCTables == {<<1, 0, 2, 3>>, <<3, 2, 1>>, <<1>>, <<2, 3, 4, 1>>, <<1, -1, 2>>}

VARIABLE part
allVars == <<vars, bootVars, part>>
MachineInit == part \in {"cache", "boot"} /\ Init /\ BootInit /\ (part # "boot" => mptable = <<1>>)
MachineNext ==
  /\ \/ part = "cache" /\ Next
     \/ part # "cache" /\ UNCHANGED vars
  /\ \/ part = "boot" /\ BootNext
     \/ part # "boot" /\ UNCHANGED bootVars
  /\ UNCHANGED part

\* A processor that has been started executes its instructions, and a CPU in
\* kalloc() gets to its end.
BootFairness ==
  /\ WF_allVars(part = "boot" /\ MainStep /\ UNCHANGED <<vars, part>>)
  /\ \A x \in Apic : WF_allVars(part = "boot" /\ OtherStep(x) /\ UNCHANGED <<vars, part>>)
MachineSpec == MachineInit /\ [][MachineNext]_allVars /\ Fairness /\ BootFairness

\* main() ends with every processor of the table running the scheduler, whatever
\* those already started do meanwhile; and on the way no frame of memory has two
\* uses and no processor the stack of another.
BootsUp == [][BootSafe']_allVars /\ (part = "boot" /\ Suitable ~> AllUp)
=============================================================================
