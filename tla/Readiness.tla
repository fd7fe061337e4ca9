------------------------------ MODULE Readiness ------------------------------
(***************************************************************************)
(* The readiness of a driver (extractor/metrics.py): what is counted in    *)
(* the RIS of the driver, the blockers this raises, and which of the three *)
(* generated backends is called ready, given the evidence collected about  *)
(* each of them.  A driver f is                                            *)
(*                                                                         *)
(*   ops          its leaf operations: [addr, top, supported, summary]     *)
(*   loops        the kinds of its loops: "exact", "conservative", "w1c"   *)
(*   access       the counters of access accounting that are not zero      *)
(*   paths        "unknown", "infeasible", "overlapping": what path        *)
(*                validation found                                         *)
(*   control      some transfer of control is not supported                *)
(*   unmodeled    some library callback has no summary                     *)
(*   synthesized  callbacks were made from a subsystem summary             *)
(*   summaries    the summaries that need an oracle: "gpio", "virtio"      *)
(*   diagnostics  the number of clang errors                               *)
(*   functions    its functions: [role, entry, bound]                      *)
(*                                                                         *)
(* The evidence about a backend is a set of flags, those that are true in  *)
(* gen_results[backend].  Blockers are named by the category the matrix    *)
(* gives them; the four "..._oracle" blockers have none there.             *)
(***************************************************************************)
EXTENDS Integers, FiniteSets, Sequences

Backends == {"harness", "baremetal", "linux"}

Oracles == {"gpio", "sdhci", "virtio", "w1c"}

AddressKinds == {"symbolic", "fixed", "computed", "unsafe"}

Hardware(f) == {i \in DOMAIN f.ops : f.ops[i].addr \in AddressKinds}

At(f, kinds) == Cardinality({i \in Hardware(f) : f.ops[i].addr \in kinds})

Unsafe(f) == At(f, {"unsafe"})

UnknownValues(f) == Cardinality({i \in Hardware(f) : f.ops[i].top})

UnsupportedOps(f) == {i \in Hardware(f) : ~f.ops[i].supported}

ConservativeLoop(f) == "conservative" \in f.loops

\* A driver that only changes the state of a virtio device has no register
\* access and is not rejected for it.
HasRegisterAccess(f) ==
  Hardware(f) # {} \/ \E i \in DOMAIN f.ops : f.ops[i].summary = "virtio"

\* At least six functions in ten have a role, the share rounded to three places.
RolesKnown(f) ==
  LET known == {i \in DOMAIN f.functions : f.functions[i].role \notin {"unknown", "helper"}}
  IN  f.functions # <<>> /\ 2000 * Cardinality(known) >= 1199 * Len(f.functions)

Unbound(f) == \E i \in DOMAIN f.functions : f.functions[i].entry /\ ~f.functions[i].bound

Required(f) ==
  f.summaries \cup {o \in {"sdhci"} : \E i \in Hardware(f) : f.ops[i].summary = "sdhci"}
              \cup {o \in {"w1c"} : "w1c" \in f.loops}

Raised(checks) == {b \in DOMAIN checks : checks[b]}

\* What the RIS itself raises, whatever was generated from it.
StaticBlockers(f) == Raised([
  source_access_unaccounted |-> "unaccounted" \in f.access,
  ris_evidence_missing      |-> "ris_ops_without_evidence" \in f.access,
  source_access_filtered    |-> "filtered" \in f.access,
  unsupported_access        |-> "unsupported" \in f.access \/ UnsupportedOps(f) # {},
  path_unvalidated          |-> "unknown" \in f.paths,
  path_infeasible           |-> "infeasible" \in f.paths,
  switch_exclusivity        |-> "overlapping" \in f.paths,
  unsupported_control_flow  |-> f.control,
  subsystem_summary         |-> f.unmodeled,
  unsafe_dynamic_address    |-> Unsafe(f) > 0,
  unknown_value             |-> UnknownValues(f) > 0,
  clang_diagnostics         |-> f.diagnostics > 0,
  conservative_loop         |-> ConservativeLoop(f),
  missing_role              |-> \E i \in DOMAIN f.functions : f.functions[i].role = "unknown",
  callback_binding          |-> Unbound(f),
  no_register_access        |-> ~HasRegisterAccess(f)])

-----------------------------------------------------------------------------
AccountingReady(f) == f.access = {}

PathReady(f) == f.paths = {}

\* What all three gates ask of the RIS.
RisReady(f) ==
  /\ AccountingReady(f)
  /\ PathReady(f)
  /\ HasRegisterAccess(f)
  /\ ~f.unmodeled
  /\ Unsafe(f) = 0
  /\ UnknownValues(f) = 0
  /\ UnsupportedOps(f) = {}
  /\ ~f.control

SourceReady(f, e) == Required(f) \subseteq e

SubsystemReady(f, e) ==
  /\ ~f.unmodeled
  /\ ~f.synthesized \/ "callbacks" \in e
  /\ SourceReady(f, e)
  /\ "w1c" \in Required(f) => "drain" \in e

Clean(e) == "compiled" \in e /\ e \cap {"todo", "unsupported"} = {}

\* The gate of the harness and the bare-metal backend as the Linux one: a
\* conservative loop is left to the compiler.
LoopsForgottenMutant(f, e) == RisReady(f) /\ SubsystemReady(f, e) /\ Clean(e)

BaremetalReady(f, e) ==
  RisReady(f) /\ SubsystemReady(f, e) /\ ~ConservativeLoop(f) /\ Clean(e)

HarnessReady(f, e) == BaremetalReady(f, e) /\ "trace" \in e

\* The gate of the Linux backend does not ask for proved loops.
LinuxReady(f, e) ==
  RisReady(f) /\ SourceReady(f, e) /\ RolesKnown(f) /\ ~Unbound(f) /\ Clean(e)

\* The backends called ready, g[b] being the evidence about backend b.
Ready(f, g) ==
  {b \in Backends : CASE b = "harness"   -> HarnessReady(f, g[b])
                      [] b = "baremetal" -> BaremetalReady(f, g[b])
                      [] b = "linux"     -> LinuxReady(f, g[b])}

Lacking(f, g, oracle) ==
  oracle \in Required(f) /\ \E b \in Backends : oracle \notin g[b]

EvidenceBlockers(f, g) == Raised([
  linux_semantic_binding |-> "unsupported" \in g["linux"],
  gpio_oracle            |-> Lacking(f, g, "gpio"),
  sdhci_oracle           |-> Lacking(f, g, "sdhci"),
  virtio_oracle          |-> Lacking(f, g, "virtio"),
  w1c_oracle             |-> "w1c" \in Required(f)
                               /\ ~("drain" \in g["harness"] /\ "drain" \in g["baremetal"]
                                      /\ "w1c" \in g["linux"]),
  subsystem_validation   |-> f.synthesized
                               /\ ~(/\ SubsystemReady(f, g["harness"])
                                    /\ SubsystemReady(f, g["baremetal"]))])

Blockers(f, g) == StaticBlockers(f) \cup EvidenceBlockers(f, g)
=============================================================================
