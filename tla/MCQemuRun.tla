----------------------------- MODULE MCQemuRun -----------------------------
(***************************************************************************)
(* The profiles of run_e2e.sh: gpio; edu; clk, ahci and generic.           *)
(***************************************************************************)
EXTENDS QemuRun

Gpio      == [exerciser |-> TRUE,  value |-> FALSE, registered |-> TRUE]
Edu       == [exerciser |-> TRUE,  value |-> TRUE,  registered |-> FALSE]
ProbeOnly == [exerciser |-> FALSE, value |-> FALSE, registered |-> TRUE]

AllProfiles   == {Gpio, Edu, ProbeOnly}
=============================================================================
