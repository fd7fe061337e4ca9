--------------------------- MODULE PipelineProofs ---------------------------
(***************************************************************************)
(* Theorems about run_e2e.sh (module E2EPipeline) for every bound on its   *)
(* loops and on the number of runs; and about qemu_run.sh, which its loops *)
(* call (module QemuRun), for every set of profiles, of a script that has  *)
(* the rootfs, the initramfs and the log to itself.                        *)
(*                                                                         *)
(* The inductive invariant of run_e2e.sh (BudgetInv, KeptInv, DriverInv)   *)
(* says stage by stage what each stage may assume of the files and         *)
(* variables the earlier ones left; that of qemu_run.sh, ScriptInv, says   *)
(* that what the log shows so far is so.                                   *)
(***************************************************************************)
EXTENDS E2EPipeline, QemuRun, FiniteSetTheorems, TLAPS

USE IterationAssumption

\* How often a run has asked the model when it is about to execute a stage.
BudgetInv ==
    LET upToQemu == MaxCompile + MaxQemu - 1
        Asked(rounds) == 1 + 2 * rounds IN
    /\ pc \in {"preflight", "extract", "synth"} => drafts = 0 /\ iter = 1
    /\ pc = "compile"        => drafts <= Asked(iter - 1) /\ 1 <= iter /\ iter <= MaxCompile + 1
    /\ pc = "compileRepair"  => drafts <= Asked(iter - 1) /\ iter <= MaxCompile
    /\ pc = "qemu"           => drafts <= Asked(MaxCompile + iter - 2) /\ 1 <= iter /\ iter <= MaxQemu + 1
    /\ pc = "qemuRepair"     => drafts <= Asked(MaxCompile + iter - 2) /\ iter <= MaxQemu
    /\ pc = "qemuRebuild"    => drafts <= Asked(MaxCompile + iter - 1) /\ iter <= MaxQemu
    /\ pc = "trace"          => drafts <= Asked(upToQemu + iter - 2) /\ 1 <= iter /\ iter <= MaxTrace + 1
    /\ pc = "traceRepair"    => drafts <= Asked(upToQemu + iter - 2) /\ 1 <= iter /\ iter <= MaxTrace
    /\ pc \in {"traceRebuild", "traceRerun"} => drafts <= Asked(upToQemu + iter - 1) /\ 1 <= iter
                                                           /\ iter <= MaxTrace
    /\ RepairBudget

\* When a stage is judged and the verdict is given, once.
VerdictInv == verdict = "open" <=> pc # "end"

\* No boot is kept before the QEMU loop ends; in the trace loop one is.
SavedInv ==
    /\ pc \in {"preflight", "extract", "synth", "compile", "compileRepair",
               "qemu", "qemuRepair", "qemuRebuild"} => saved = NoLog
    /\ pc \in {"trace", "traceRepair", "traceRebuild", "traceRerun"} =>
           saved.ok /\ saved.drv.q = "runs"

\* What the trace loop knows from its second judgement on: the kept boot, which
\* it will judge again, does not follow the bundle.
Mismatched == ~TraceSkipped /\ ~TraceMatches(saved)
MismatchInv ==
    /\ pc = "trace" /\ iter > 1 => Mismatched
    /\ pc \in {"traceRepair", "traceRebuild", "traceRerun"} => Mismatched

\* The module the QEMU loop boots, and the boot the first judgement is about.
ModuleInv ==
    /\ pc = "trace" /\ iter = 1 => saved = [drv |-> ko, ok |-> TRUE]

\* A run with status 0 leaves the module whose accepted boot it kept.
AcceptedModule == verdict = "ok" => saved = [drv |-> ko, ok |-> TRUE]

\* Where `make clean` works, the module is of the driver's text or missing.
DriverInv ==
    opts.clean =>
        /\ pc = "qemu" => ko \in {src, NoDraft}
        /\ pc = "trace" /\ iter = 1 => ko = src

KeptInv == /\ VerdictInv /\ SavedInv /\ MismatchInv /\ ModuleInv
           /\ AcceptedModule /\ UntracedMeansMismatch
-----------------------------------------------------------------------------
\* The texts and the logs keep their types through every helper.
LEMMA DraftTypes == NoDraft \in Draft /\ NoLog \in BootLog
BY DEF NoDraft, NoLog, Draft, BootLog

LEMMA AnswersType == ASSUME TypeOK PROVE Answers \subseteq Draft
BY DEF Answers, TypeOK, Draft

LEMMA MakeType == ASSUME TypeOK PROVE KoAfterMake \subseteq Draft
BY DraftTypes DEF KoAfterMake, TypeOK

LEMMA QemuRunType ==
    ASSUME TypeOK, QemuAccepts \/ QemuRejects PROVE out' \in BootLog
<1>1. \A d \in Draft, ok \in BOOLEAN : [drv |-> d, ok |-> ok] \in BootLog
  BY Zenon DEF BootLog
<1>2. CASE out' = out
  BY <1>2 DEF TypeOK
<1>3. CASE out' = [drv |-> ko, ok |-> TRUE]
  BY <1>1, <1>3, Zenon DEF TypeOK
<1>4. CASE out' = [drv |-> ko, ok |-> FALSE]
  BY <1>1, <1>4, Zenon DEF TypeOK
<1> QED
  BY <1>2, <1>3, <1>4, Zenon DEF QemuAccepts, QemuRejects

\* Every state has the type TypeOK says.
THEOREM TypeCorrect == Spec => []TypeOK
<1>1. Init => TypeOK
  BY DraftTypes DEF Init, TypeOK, Stages
<1>2. TypeOK /\ [Next]_vars => TypeOK'
  <2> SUFFICES ASSUME TypeOK, [Next]_vars PROVE TypeOK'
    OBVIOUS
  <2> USE DEF TypeOK, Stages, Exit, files
  <2>1. CASE Preflight BY <2>1 DEF Preflight
  <2>2. CASE Extract BY <2>2 DEF Extract
  <2>3. CASE Synth BY <2>3, AnswersType DEF Synth
  <2>4. CASE Compile BY <2>4, MakeType DEF Compile, CompileOnce
  <2>5. CASE CompileRepair BY <2>5, AnswersType DEF CompileRepair, LlmWriteC
  <2>6. CASE CompileGiveUp BY <2>6 DEF CompileGiveUp
  <2>7. CASE Qemu
    <3>1. out' \in BootLog BY <2>7, QemuRunType DEF Qemu
    <3> QED BY <2>7, <3>1 DEF Qemu
  <2>8. CASE QemuRepair BY <2>8, AnswersType DEF QemuRepair, LlmWriteC
  <2>9. CASE QemuRebuild BY <2>9, MakeType DEF QemuRebuild, CompileOnce
  <2>10. CASE QemuGiveUp BY <2>10 DEF QemuGiveUp
  <2>11. CASE TraceJudge BY <2>11 DEF TraceJudge
  <2>12. CASE TraceRepair BY <2>12, AnswersType DEF TraceRepair, LlmWriteC
  <2>13. CASE TraceRebuild BY <2>13, MakeType DEF TraceRebuild, CompileOnce
  <2>14. CASE TraceRerun
    <3>1. out' \in BootLog BY <2>14, QemuRunType DEF TraceRerun
    <3> QED BY <2>14, <3>1 DEF TraceRerun
  <2>15. CASE TraceGiveUp BY <2>15 DEF TraceGiveUp
  <2>16. CASE Interrupt BY <2>16 DEF Interrupt
  <2>17. CASE Rerun BY <2>17, DraftTypes DEF Rerun
  <2>18. CASE UNCHANGED vars BY <2>18 DEF vars
  <2> QED BY <2>1, <2>2, <2>3, <2>4, <2>5, <2>6, <2>7, <2>8, <2>9, <2>10, <2>11,
             <2>12, <2>13, <2>14, <2>15, <2>16, <2>17, <2>18 DEF Next, Step
<1> QED BY <1>1, <1>2, PTL DEF Spec
-----------------------------------------------------------------------------
\* How many texts the three loops ask for, and what each loop has left.
LEMMA BudgetInvariant == Spec => []BudgetInv
<1>1. Init => BudgetInv
  BY DEF Init, BudgetInv, RepairBudget, MaxRetries
<1>2. TypeOK /\ BudgetInv /\ [Next]_vars => BudgetInv'
  <2> SUFFICES ASSUME TypeOK, BudgetInv, [Next]_vars PROVE BudgetInv'
    OBVIOUS
  <2> USE DEF BudgetInv, RepairBudget, MaxRetries, Exit
  <2>a. drafts \in Nat /\ iter \in Nat
    BY DEF TypeOK
  <2>1. CASE Preflight BY <2>1, <2>a DEF Preflight
  <2>2. CASE Extract BY <2>2, <2>a DEF Extract
  <2>3. CASE Synth BY <2>3, <2>a DEF Synth
  <2>4. CASE Compile BY <2>4, <2>a DEF Compile
  <2>5. CASE CompileRepair BY <2>5, <2>a DEF CompileRepair, LlmWriteC
  <2>6. CASE CompileGiveUp BY <2>6, <2>a DEF CompileGiveUp
  <2>7. CASE Qemu BY <2>7, <2>a DEF Qemu
  <2>8. CASE QemuRepair BY <2>8, <2>a DEF QemuRepair, LlmWriteC
  <2>9. CASE QemuRebuild BY <2>9, <2>a DEF QemuRebuild
  <2>10. CASE QemuGiveUp BY <2>10, <2>a DEF QemuGiveUp
  <2>11. CASE TraceJudge BY <2>11, <2>a DEF TraceJudge
  <2>12. CASE TraceRepair BY <2>12, <2>a DEF TraceRepair, LlmWriteC
  <2>13. CASE TraceRebuild BY <2>13, <2>a DEF TraceRebuild
  <2>14. CASE TraceRerun BY <2>14, <2>a DEF TraceRerun
  <2>15. CASE TraceGiveUp BY <2>15, <2>a DEF TraceGiveUp
  <2>16. CASE Interrupt BY <2>16, <2>a DEF Interrupt
  <2>17. CASE Rerun BY <2>17, <2>a DEF Rerun
  <2>18. CASE UNCHANGED vars BY <2>18 DEF vars
  <2> QED BY <2>1, <2>2, <2>3, <2>4, <2>5, <2>6, <2>7, <2>8, <2>9, <2>10, <2>11,
             <2>12, <2>13, <2>14, <2>15, <2>16, <2>17, <2>18 DEF Next, Step
<1> QED BY <1>1, <1>2, TypeCorrect, PTL DEF Spec

\* The script asks the model once for a driver and at most twice in each round of
\* its loops but the two in which the first two loops succeed (run_e2e.sh, and the
\* retry of llm_write_c).
THEOREM BudgetKept == Spec => []RepairBudget
<1>1. BudgetInv => RepairBudget
  BY DEF BudgetInv
<1> QED BY <1>1, BudgetInvariant, PTL
-----------------------------------------------------------------------------
\* What is known of the boot that is kept, of the module on disk, and of the
\* two verdicts that speak of them, whatever `make clean` does.
LEMMA KeptInvariant == Spec => []KeptInv
<1>1. Init => KeptInv
  BY DEF Init, KeptInv, VerdictInv, SavedInv, MismatchInv, ModuleInv,
         AcceptedModule, UntracedMeansMismatch
<1>2. TypeOK /\ BudgetInv /\ KeptInv /\ [Next]_vars => KeptInv'
  <2> SUFFICES ASSUME TypeOK, BudgetInv, KeptInv, [Next]_vars PROVE KeptInv'
    OBVIOUS
  <2>a. /\ iter \in Nat
        /\ pc \in {"trace", "traceRebuild", "traceRerun"} => 1 <= iter
    BY DEF TypeOK, BudgetInv
  <2> USE DEF KeptInv, VerdictInv, SavedInv, MismatchInv, Mismatched, ModuleInv,
              AcceptedModule, UntracedMeansMismatch, TraceSkipped, TraceMatches,
              Exit, files
  <2>1. CASE Preflight BY <2>1 DEF Preflight
  <2>2. CASE Extract BY <2>2 DEF Extract
  <2>3. CASE Synth BY <2>3 DEF Synth
  <2>4. CASE Compile BY <2>4 DEF Compile
  <2>5. CASE CompileRepair BY <2>5 DEF CompileRepair
  <2>6. CASE CompileGiveUp BY <2>6 DEF CompileGiveUp
  <2>7. CASE Qemu BY <2>7 DEF Qemu, QemuAccepts
  <2>8. CASE QemuRepair BY <2>8 DEF QemuRepair
  <2>9. CASE QemuRebuild BY <2>9 DEF QemuRebuild
  <2>10. CASE QemuGiveUp BY <2>10 DEF QemuGiveUp
  <2>11. CASE TraceJudge BY <2>11, <2>a DEF TraceJudge
  <2>12. CASE TraceRepair BY <2>12 DEF TraceRepair
  <2>13. CASE TraceRebuild BY <2>13, <2>a DEF TraceRebuild
  <2>14. CASE TraceRerun BY <2>14, <2>a DEF TraceRerun
  <2>15. CASE TraceGiveUp BY <2>15, IterationAssumption DEF TraceGiveUp, TypeOK, Options
  <2>16. CASE Interrupt BY <2>16 DEF Interrupt
  <2>17. CASE Rerun BY <2>17 DEF Rerun
  <2>18. CASE UNCHANGED vars BY <2>18 DEF vars
  <2> QED BY <2>1, <2>2, <2>3, <2>4, <2>5, <2>6, <2>7, <2>8, <2>9, <2>10, <2>11,
             <2>12, <2>13, <2>14, <2>15, <2>16, <2>17, <2>18 DEF Next, Step
<1> QED BY <1>1, <1>2, TypeCorrect, BudgetInvariant, PTL DEF Spec
\* Exit status 4 is always a judgement on an accepted boot.
THEOREM UntracedKept == Spec => []UntracedMeansMismatch
<1>1. KeptInv => UntracedMeansMismatch
  BY DEF KeptInv
<1> QED BY <1>1, KeptInvariant, PTL
-----------------------------------------------------------------------------
\* In a run whose `make clean` works, the module is of the driver's text when
\* it is booted for the first judgement.
LEMMA DriverStep ==
    ASSUME TypeOK, BudgetInv, KeptInv,
           DriverInv /\ AcceptedDriver, [Next]_vars
    PROVE  (DriverInv /\ AcceptedDriver)'
<1> USE DEF DriverInv, AcceptedDriver, Exit, files
<1>a. /\ iter \in Nat
      /\ pc \in {"trace", "traceRebuild", "traceRerun"} => 1 <= iter
  BY DEF TypeOK, BudgetInv
<1>b. CompileOnce /\ opts.clean => ko' \in {src, NoDraft}
  BY DEF CompileOnce, KoAfterMake
<1>1. CASE Preflight BY <1>1 DEF Preflight
<1>2. CASE Extract BY <1>2 DEF Extract, KeptInv, VerdictInv
<1>3. CASE Synth BY <1>3 DEF Synth, KeptInv, VerdictInv
<1>4. CASE Compile BY <1>4, <1>b DEF Compile, KeptInv, VerdictInv
<1>5. CASE CompileRepair BY <1>5 DEF CompileRepair, KeptInv, VerdictInv
<1>6. CASE CompileGiveUp BY <1>6 DEF CompileGiveUp
<1>7. CASE Qemu
  <2>1. CASE QemuAccepts /\ pc' = "trace"
    <3>1. opts.clean => ko = src
      BY <1>7, <2>1 DEF Qemu, QemuAccepts, NoDraft
    <3> QED BY <1>7, <2>1, <3>1 DEF Qemu, KeptInv, VerdictInv
  <2>2. CASE pc' = "qemuRepair"
    BY <1>7, <2>2 DEF Qemu, KeptInv, VerdictInv
  <2> QED BY <1>7, <2>1, <2>2 DEF Qemu
<1>8. CASE QemuRepair BY <1>8 DEF QemuRepair, KeptInv, VerdictInv
<1>9. CASE QemuRebuild BY <1>9, <1>b DEF QemuRebuild, KeptInv, VerdictInv
<1>10. CASE QemuGiveUp BY <1>10 DEF QemuGiveUp
<1>11. CASE TraceJudge
  <2>1. CASE Exit("ok")
    <3>1. iter = 1
      BY <1>11, <2>1, <1>a DEF TraceJudge, KeptInv, MismatchInv, Mismatched
    <3>2. (opts.clean => ko = src) /\ saved = [drv |-> ko, ok |-> TRUE] /\ ko.q = "runs"
      BY <1>11, <3>1 DEF TraceJudge, KeptInv, ModuleInv, SavedInv
    <3> QED BY <1>11, <2>1, <3>2 DEF TraceJudge, TraceSkipped, TraceMatches
  <2>2. CASE pc' = "traceRepair"
    BY <1>11, <2>2 DEF TraceJudge, KeptInv, VerdictInv
  <2> QED BY <1>11, <2>1, <2>2 DEF TraceJudge
<1>12. CASE TraceRepair BY <1>12 DEF TraceRepair, KeptInv, VerdictInv
<1>13. CASE TraceRebuild BY <1>13, <1>a DEF TraceRebuild, KeptInv, VerdictInv
<1>14. CASE TraceRerun BY <1>14, <1>a DEF TraceRerun, KeptInv, VerdictInv
<1>15. CASE TraceGiveUp BY <1>15 DEF TraceGiveUp
<1>16. CASE Interrupt BY <1>16 DEF Interrupt
<1>17. CASE Rerun BY <1>17 DEF Rerun
<1>18. CASE UNCHANGED vars BY <1>18 DEF vars
<1> QED BY <1>1, <1>2, <1>3, <1>4, <1>5, <1>6, <1>7, <1>8, <1>9, <1>10, <1>11,
           <1>12, <1>13, <1>14, <1>15, <1>16, <1>17, <1>18 DEF Next, Step

\* Exit status 0 means that the module on disk is the one whose accepted boot
\* was kept, that an offset trace follows the bundle it was compared with, and,
\* where `make clean` works, that the module was built from the text on disk.
THEOREM AcceptedDriverKept == Spec => []AcceptedDriver
<1>1. Init => DriverInv /\ AcceptedDriver
  BY DEF Init, DriverInv, AcceptedDriver
<1>2. TypeOK /\ BudgetInv /\ KeptInv /\ (DriverInv /\ AcceptedDriver) /\ [Next]_vars
      => (DriverInv /\ AcceptedDriver)'
  BY DriverStep
<1> QED BY <1>1, <1>2, TypeCorrect, BudgetInvariant, KeptInvariant, PTL DEF Spec
-----------------------------------------------------------------------------
\* A step of the pipeline is a step of the abstract specification, or leaves
\* the candidate, the evidence and the verdict alone.
LEMMA CertificationStep ==
    ASSUME TypeOK, TypeOK', KeptInv, AcceptedDriver', [Next]_vars
    PROVE  [Cert!Next]_(Cert!vars)
<1> USE DEF Cert!vars, Exit, files
<1>a. verdict = "open" <=> pc # "end"
  BY DEF KeptInv, VerdictInv
<1>b. ko' \in Draft
  BY DEF TypeOK
<1>c. pc # "end" /\ pc' = "end" /\ verdict' \in {"failed", "interrupted"}
      /\ UNCHANGED <<ko, saved>> => Cert!Reject
  BY <1>a DEF Cert!Reject
<1>d. pc # "end" /\ UNCHANGED <<saved, verdict>> => Cert!Revise
  BY <1>a, <1>b DEF Cert!Revise
<1> USE DEF Cert!Next
<1>1. CASE Preflight BY <1>1, <1>c DEF Preflight
<1>2. CASE Extract BY <1>2 DEF Extract
<1>3. CASE Synth BY <1>3, <1>c DEF Synth
<1>4. CASE Compile BY <1>4, <1>d DEF Compile
<1>5. CASE CompileRepair BY <1>5 DEF CompileRepair
<1>6. CASE CompileGiveUp BY <1>6, <1>c DEF CompileGiveUp
<1>7. CASE Qemu
  <2>1. CASE QemuAccepts /\ saved' = out'
    <3>1. saved = NoLog
      BY <1>7 DEF Qemu, KeptInv, SavedInv
    <3> QED BY <1>7, <1>a, <2>1, <3>1
            DEF Qemu, QemuAccepts, Cert!Observe, Cert!Boot
  <2>2. CASE saved' = saved
    BY <1>7, <2>2 DEF Qemu
  <2> QED BY <1>7, <2>1, <2>2 DEF Qemu
<1>8. CASE QemuRepair BY <1>8 DEF QemuRepair
<1>9. CASE QemuRebuild BY <1>9, <1>d DEF QemuRebuild
<1>10. CASE QemuGiveUp BY <1>10, <1>c DEF QemuGiveUp
<1>11. CASE TraceJudge
  <2>1. CASE Exit("ok")
    BY <1>11, <2>1, <1>a DEF TraceJudge, AcceptedDriver, Cert!Certify, Cert!Boot
  <2>2. CASE UNCHANGED verdict
    BY <1>11, <2>2 DEF TraceJudge
  <2> QED BY <1>11, <2>1, <2>2 DEF TraceJudge
<1>12. CASE TraceRepair BY <1>12 DEF TraceRepair
<1>13. CASE TraceRebuild BY <1>13, <1>d DEF TraceRebuild
<1>14. CASE TraceRerun BY <1>14 DEF TraceRerun
<1>15. CASE TraceGiveUp
  <2>1. saved # NoLog
    BY <1>15 DEF TraceGiveUp, KeptInv, SavedInv, NoLog
  <2> QED BY <1>15, <1>a, <2>1 DEF TraceGiveUp, Cert!Reject
<1>16. CASE Interrupt BY <1>16, <1>c DEF Interrupt
<1>17. CASE Rerun BY <1>17, <1>a DEF Rerun, Cert!Restart
<1>18. CASE UNCHANGED vars BY <1>18 DEF vars
<1> QED BY <1>1, <1>2, <1>3, <1>4, <1>5, <1>6, <1>7, <1>8, <1>9, <1>10, <1>11,
           <1>12, <1>13, <1>14, <1>15, <1>16, <1>17, <1>18 DEF Next, Step

\* The pipeline implements Certification, whatever `make clean` does.
THEOREM PipelineCertifies == Spec => Certifies
<1>1. Init => Cert!Init
  BY DraftTypes DEF Init, Cert!Init
<1>2. TypeOK /\ TypeOK' /\ KeptInv /\ AcceptedDriver' /\ [Next]_vars
      => [Cert!Next]_(Cert!vars)
  BY CertificationStep
<1> QED BY <1>1, <1>2, TypeCorrect, KeptInvariant, AcceptedDriverKept, PTL
        DEF Spec, Certifies, Cert!Spec
-----------------------------------------------------------------------------
(* qemu_run.sh: what its log shows, and what it exits with.                *)

ScriptSteps == {"mkdir", "copy", "init", "pack", "remove", "boot", "running", "judge", "end"}
Early == {"mkdir", "copy", "init", "pack", "remove", "boot"}

\* What caller d's guest has printed, while there is only one log.
Shown(d, t) == [by |-> d, text |-> t] \in content[1]

ScriptTypes(d) ==
    /\ stand \in [{d} -> ScriptSteps] /\ profile \in [{d} -> Profile]
    /\ rootfs \in Image /\ initramfs \in Image /\ file \in {0, 1}
    /\ content \in [{1} -> SUBSET Line]
    /\ guest \in [{d} -> [at : {"off", "insmod", "exerciser", "rmmod", "done", "hung"},
                          image : Image, bound : BOOLEAN]]
    /\ fd \in [{d} -> {0, 1}] /\ status \in [{d} -> {-1, 0, 1, 2, 3}]

\* Before it boots a guest, the script has printed nothing and packs its own init.
Prepared(d) ==
    stand[d] \in Early =>
        /\ content[1] = {} /\ fd[d] = 0
        /\ stand[d] = "copy" => rootfs = Empty
        /\ stand[d] = "init" => rootfs.modules = {d}
        /\ stand[d] = "pack" => rootfs = [modules |-> {d}, init |-> d]
        /\ stand[d] \in {"remove", "boot"} => initramfs = [modules |-> {d}, init |-> d]

\* What the guest prints is so, and it ends its init only when it says so.
Truthful(d) ==
    stand[d] \notin Early =>
        /\ file = 1 /\ fd[d] = 1 /\ guest[d].image = [modules |-> {d}, init |-> d]
        /\ Shown(d, "probed") \/ Shown(d, "exerciser ok") => guest[d].bound
        /\ Shown(d, "done") => guest[d].at = "done"

Judged(d) ==
    /\ stand[d] # "end" => status[d] = -1
    /\ stand[d] = "end" =>
          /\ Shown(d, "oops") => status[d] = 2
          /\ status[d] = 0 =>
                /\ Shown(d, "done")
                /\ profile[d].exerciser => Shown(d, "exerciser ok")
                /\ ~profile[d].registered => Shown(d, "probed")

ScriptInv(d) == ScriptTypes(d) /\ Prepared(d) /\ Truthful(d) /\ Judged(d)

LEMMA OneFile ==
  ASSUME NEW d, Caller = {d}
  PROVE  Files = {1} /\ \A p \in Profile : p \in [exerciser: BOOLEAN, value: BOOLEAN, registered: BOOLEAN]
<1>1. Cardinality(Caller) = 1
  BY FS_Singleton
<1> QED BY <1>1, ProfileAssumption DEF Files

LEMMA ScriptStarts ==
  ASSUME NEW d, Caller = {d}, VmInit
  PROVE  ScriptInv(d)
BY OneFile DEF VmInit, ScriptInv, ScriptTypes, Prepared, Truthful, Judged, ScriptSteps, Early,
    Image, Empty, Off, Line, Shown

\* The log is what the guest printed.
LEMMA LogIsShown ==
  ASSUME NEW d, Caller = {d}, ScriptTypes(d), file = 1, NEW t
  PROVE  t \in Log(d) <=> Shown(d, t)
<1>1. content[1] \subseteq [by : {d}, text : Text]
  BY DEF ScriptTypes, Line
<1> QED BY <1>1 DEF Log, Shown

LEMMA Packing ==
  ASSUME NEW d, Caller = {d}, ScriptInv(d),
         MakeRootfs(d) \/ CopyModule(d) \/ WriteInit(d) \/ Pack(d) \/ RemoveLog(d)
  PROVE  ScriptInv(d)'
<1> USE DEF ScriptInv
<1>1. /\ UNCHANGED <<profile, content, guest, fd, status>> /\ stand' \in [{d} -> Early]
      /\ stand[d] \in Early
  BY DEF MakeRootfs, CopyModule, WriteInit, Pack, RemoveLog, Goto, host,
      images, Early, ScriptTypes
<1>2. ScriptTypes(d)'
  BY <1>1 DEF ScriptTypes, ScriptSteps, Early, MakeRootfs, CopyModule, WriteInit,
      Pack, RemoveLog, host, images, Image, Empty, Nobody
<1>3. Prepared(d)'
  BY <1>1 DEF Prepared, ScriptTypes, Early, MakeRootfs, CopyModule, WriteInit, Pack,
      RemoveLog, Goto, host, images, Image, Empty
<1> QED BY <1>1, <1>2, <1>3 DEF Truthful, Judged, Early

LEMMA Booting ==
  ASSUME NEW d, Caller = {d}, ScriptInv(d), d # Nobody, Boot(d)
  PROVE  ScriptInv(d)'
<1> USE DEF ScriptInv
<1>1. /\ stand[d] = "boot" /\ stand' = [stand EXCEPT ![d] = "running"] /\ UNCHANGED <<profile, status, rootfs, initramfs>>
      /\ initramfs = [modules |-> {d}, init |-> d] /\ fd[d] = 0
  BY DEF Boot, Goto, images, Prepared, Early
<1>2. Cardinality({c \in Caller : fd[c] # 0}) = 0
  <2>1. {c \in Caller : fd[c] # 0} = {}
    BY <1>1
  <2> QED BY <2>1, FS_EmptySet
<1>3. /\ file' = 1 /\ fd' = [fd EXCEPT ![d] = 1]
      /\ content' = [content EXCEPT ![1] = {[by |-> d, text |-> "kernel"]}]
      /\ guest' = [guest EXCEPT ![d] = [at |-> "insmod", image |-> initramfs, bound |-> FALSE]]
  <2>1. (IF file = 0 THEN 1 + Cardinality({c \in Caller : fd[c] # 0}) ELSE file) = 1
    BY <1>2 DEF ScriptTypes
  <2>2. initramfs.init # Nobody
    BY <1>1
  <2> QED BY <2>1, <2>2 DEF Boot
<1>4. ScriptTypes(d)'
  <2>1. {[by |-> d, text |-> "kernel"]} \in SUBSET Line
    BY DEF Line, Text
  <2>2. [at |-> "insmod", image |-> initramfs, bound |-> FALSE]
          \in [at : {"off", "insmod", "exerciser", "rmmod", "done", "hung"}, image : Image, bound : BOOLEAN]
    BY DEF ScriptTypes
  <2> QED BY <1>1, <1>3, <2>1, <2>2 DEF ScriptTypes, ScriptSteps
<1>5. ~Shown(d, "probed")' /\ ~Shown(d, "exerciser ok")' /\ ~Shown(d, "done")'
  BY <1>3 DEF Shown, ScriptTypes
<1> QED BY <1>1, <1>3, <1>4, <1>5 DEF Prepared, Truthful, Judged, Early, ScriptTypes

Guests == [at : {"insmod", "exerciser", "rmmod", "done", "hung"}, image : Image, bound : BOOLEAN]

\* A step of the guest: it prints some texts and goes on.
LEMMA GuestStep ==
  ASSUME NEW d, Caller = {d}, ScriptInv(d), stand[d] = "running",
         UNCHANGED <<stand, profile, file, fd, status, images>>,
         NEW texts \in SUBSET Text, Prints(d, texts),
         guest' \in [{d} -> Guests],
         guest'[d].image = guest[d].image, guest[d].bound => guest'[d].bound,
         "probed" \in texts \/ "exerciser ok" \in texts => guest'[d].bound,
         guest[d].at # "done", "done" \in texts => guest'[d].at = "done"
  PROVE  ScriptInv(d)'
<1> DEFINE new == {[by |-> d, text |-> t] : t \in texts}
<1>1. fd[d] = 1
  BY DEF ScriptInv, Truthful, Early
<1>2. content' = [content EXCEPT ![1] = @ \cup new]
  BY <1>1 DEF Prints
<1>3. new \in SUBSET Line /\ \A t : [by |-> d, text |-> t] \in new => t \in texts
  <2>1. \A t \in texts : [by |-> d, text |-> t] \in Line
    BY DEF Line
  <2>2. ASSUME NEW t, [by |-> d, text |-> t] \in new PROVE t \in texts
    <3>1. PICK u \in texts : [by |-> d, text |-> t] = [by |-> d, text |-> u]
      BY <2>2
    <3>2. [by |-> d, text |-> t].text = [by |-> d, text |-> u].text
      BY <3>1
    <3> QED BY <3>2
  <2> QED BY <2>1, <2>2
<1> HIDE DEF new
<1>4. content' \in [{1} -> SUBSET Line] /\ content'[1] = content[1] \cup new
  BY <1>2, <1>3 DEF ScriptInv, ScriptTypes
<1>5. \A t : Shown(d, t)' => Shown(d, t) \/ t \in texts
  BY <1>3, <1>4 DEF Shown
<1>6. guest' \in [{d} -> [at : {"off", "insmod", "exerciser", "rmmod", "done", "hung"},
                          image : Image, bound : BOOLEAN]]
  BY DEF Guests
<1>7. ScriptTypes(d)'
  BY <1>4, <1>6 DEF ScriptInv, ScriptTypes, images
<1> QED BY <1>5, <1>7 DEF ScriptInv, Prepared, Truthful, Judged, Early

\* The same, where the driver stays bound or unbound.
LEMMA GuestMove ==
  ASSUME NEW d, Caller = {d}, ScriptInv(d), NEW from \in {"insmod", "exerciser", "rmmod"},
         NEW to \in {"exerciser", "rmmod", "done", "hung"}, GuestGoes(d, from, to),
         NEW texts \in SUBSET Text, Prints(d, texts), "probed" \notin texts,
         "exerciser ok" \in texts => guest[d].bound, "done" \in texts => to = "done"
  PROVE  ScriptInv(d)'
<1>1. /\ stand[d] = "running" /\ guest[d].at = from /\ guest' = [guest EXCEPT ![d].at = to]
      /\ UNCHANGED <<stand, profile, file, fd, status, images>>
  BY DEF GuestGoes
<1>2. /\ guest' \in [{d} -> Guests] /\ guest'[d].at = to
      /\ guest'[d].image = guest[d].image /\ guest'[d].bound = guest[d].bound
  BY <1>1 DEF ScriptInv, ScriptTypes, Guests
<1> QED BY <1>1, <1>2, GuestStep

LEMMA Silent == ASSUME NEW d, Caller = {d}, ScriptInv(d), content' = content PROVE Prints(d, {})
BY DEF Prints, ScriptInv, ScriptTypes

LEMMA GuestInv ==
  ASSUME NEW d, Caller = {d}, ScriptInv(d), Guest(d)
  PROVE  ScriptInv(d)'
<1>1. /\ {} \in SUBSET Text /\ {"oops"} \in SUBSET Text /\ {"done"} \in SUBSET Text /\ {"probed"} \in SUBSET Text
      /\ {"exerciser ok"} \in SUBSET Text /\ {"exerciser ok", "trace ok"} \in SUBSET Text
  BY DEF Text
<1>2. AfterDmesg(d) \in {"exerciser", "rmmod"}
  BY DEF AfterDmesg
<1>3. CASE Insmod(d)
  <2>1. ASSUME stand[d] = "running", guest[d].at = "insmod",
               guest' = [guest EXCEPT ![d].at = AfterDmesg(d), ![d].bound = TRUE],
               NEW says \in {{}, {"probed"}}, Prints(d, says),
               UNCHANGED <<stand, profile, file, fd, status, images>>
        PROVE  ScriptInv(d)'
    <3>1. /\ guest' \in [{d} -> Guests] /\ guest'[d].bound = TRUE /\ guest'[d].image = guest[d].image
      BY <1>2, <2>1 DEF ScriptInv, ScriptTypes, Guests
    <3>2. says \in SUBSET Text /\ "done" \notin says
      BY <1>1
    <3> QED BY <2>1, <3>1, <3>2, GuestStep
  <2>2. ASSUME GuestGoes(d, "insmod", AfterDmesg(d)), content' = content PROVE ScriptInv(d)'
    BY <1>1, <1>2, <2>2, Silent, GuestMove
  <2>3. ASSUME NEW to \in {AfterDmesg(d), "hung"}, GuestGoes(d, "insmod", to), Prints(d, {"oops"})
        PROVE  ScriptInv(d)'
    BY <1>1, <1>2, <2>3, GuestMove
  <2> QED BY <1>3, <2>1, <2>2, <2>3 DEF Insmod
<1>4. CASE Exerciser(d)
  <2>1. ASSUME guest[d].bound, GuestGoes(d, "exerciser", "rmmod"),
               NEW texts \in {{"exerciser ok"}, {"exerciser ok", "trace ok"}}, Prints(d, texts)
        PROVE  ScriptInv(d)'
    BY <1>1, <2>1, GuestMove
  <2>2. ASSUME GuestGoes(d, "exerciser", "rmmod"), content' = content PROVE ScriptInv(d)'
    BY <1>1, <2>2, Silent, GuestMove
  <2>3. ASSUME NEW to \in {"rmmod", "hung"}, GuestGoes(d, "exerciser", to), Prints(d, {"oops"})
        PROVE  ScriptInv(d)'
    BY <1>1, <2>3, GuestMove
  <2>4. {"exerciser ok"} \cup (IF Booted(d).value THEN {"trace ok"} ELSE {})
          \in {{"exerciser ok"}, {"exerciser ok", "trace ok"}}
    OBVIOUS
  <2> QED BY <1>4, <2>1, <2>2, <2>3, <2>4 DEF Exerciser
<1>5. CASE Rmmod(d)
  <2>1. ASSUME GuestGoes(d, "rmmod", "done"), Prints(d, {"done"}) PROVE ScriptInv(d)'
    BY <1>1, <2>1, GuestMove
  <2>2. ASSUME GuestGoes(d, "rmmod", "hung"), Prints(d, {"oops"}) PROVE ScriptInv(d)'
    BY <1>1, <2>2, GuestMove
  <2> QED BY <1>5, <2>1, <2>2 DEF Rmmod
<1> QED BY <1>3, <1>4, <1>5 DEF Guest

LEMMA QemuEnding ==
  ASSUME NEW d, Caller = {d}, ScriptInv(d), QemuEnds(d)
  PROVE  ScriptInv(d)'
BY DEF QemuEnds, Goto, ScriptInv, ScriptTypes, Prepared, Truthful, Judged, Shown, Early,
    ScriptSteps, images

LEMMA Judging ==
  ASSUME NEW d, Caller = {d}, ScriptInv(d), Judge(d)
  PROVE  ScriptInv(d)'
<1> USE DEF ScriptInv
<1>1. /\ stand[d] = "judge" /\ stand' = [stand EXCEPT ![d] = "end"]
      /\ UNCHANGED <<profile, file, content, guest, fd, rootfs, initramfs>>
  BY DEF Judge, Goto, images
<1>2. file = 1
  BY <1>1 DEF Truthful, Early
<1>3. \A t : t \in Log(d) <=> Shown(d, t)
  BY <1>2, LogIsShown
<1>4. /\ status' \in [{d} -> {-1, 0, 1, 2, 3}]
      /\ Shown(d, "oops") => status'[d] = 2
      /\ status'[d] = 0 => Shown(d, "done") /\ ProbeSeen(d) /\ ExerciserOk(d)
  BY <1>3 DEF Judge, ScriptTypes
<1>5. \A t : Shown(d, t)' <=> Shown(d, t)
  BY <1>1 DEF Shown
<1>6. ScriptTypes(d)'
  BY <1>1, <1>4 DEF ScriptTypes, ScriptSteps
<1> QED BY <1>1, <1>3, <1>4, <1>5, <1>6
    DEF Prepared, Truthful, Judged, Early, ProbeSeen, ExerciserOk, ScriptTypes

LEMMA ScriptGoesOn ==
  ASSUME NEW d, Caller = {d}, d # Nobody, ScriptInv(d), [VmNext]_vmVars
  PROVE  ScriptInv(d)'
<1>1. CASE Script(d)
  BY <1>1, Packing, Booting, QemuEnding, Judging DEF Script
<1>2. CASE Guest(d)
  BY <1>2, GuestInv
<1>3. CASE UNCHANGED vmVars
  <2>1. /\ stand' = stand /\ profile' = profile /\ rootfs' = rootfs /\ initramfs' = initramfs
        /\ file' = file /\ content' = content /\ guest' = guest /\ fd' = fd /\ status' = status
    BY <1>3 DEF vmVars
  <2>2. ScriptTypes(d)'
    BY ONLY <2>1, ScriptInv(d) DEF ScriptInv, ScriptTypes
  <2>3. Prepared(d)'
    BY ONLY <2>1, ScriptInv(d) DEF ScriptInv, Prepared
  <2>4. Truthful(d)'
    BY ONLY <2>1, ScriptInv(d) DEF ScriptInv, Truthful, Shown
  <2>5. Judged(d)'
    BY ONLY <2>1, ScriptInv(d) DEF ScriptInv, Judged, Shown
  <2> QED BY ONLY <2>2, <2>3, <2>4, <2>5 DEF ScriptInv
<1>4. VmNext => Script(d) \/ Guest(d)
  BY DEF VmNext
<1> QED BY ONLY <1>1, <1>2, <1>3, <1>4, [VmNext]_vmVars

(***************************************************************************)
(* qemu_run.sh exits with 0 only for a guest whose init came to its end    *)
(* and, where something vouches for it, whose driver was bound; and an     *)
(* oops is always reported: whatever the guest does, whenever the watchdog *)
(* or the timeout ends it.                                                 *)
(***************************************************************************)
THEOREM VerdictOfOneIsTrue ==
  ASSUME NEW d, Caller = {d}, d # Nobody
  PROVE  VmSpec => []VerdictIsTrue
<1>1. ScriptInv(d) => VerdictIsTrue
  <2> SUFFICES ASSUME ScriptInv(d) PROVE VerdictIsTrue
    OBVIOUS
  <2>1. SuccessIsClean
    <3> SUFFICES ASSUME status[d] = 0
                 PROVE  /\ guest[d].at = "done"
                        /\ profile[d].exerciser \/ ~profile[d].registered => guest[d].bound
      BY DEF SuccessIsClean
    <3>1. stand[d] = "end" /\ stand[d] \notin Early
      <4>1. stand[d] # "end" => status[d] = -1
        BY Zenon DEF ScriptInv, Judged
      <4>2. stand[d] = "end"
        BY <4>1
      <4> QED BY <4>2 DEF Early
    <3>2. /\ Shown(d, "done")
          /\ profile[d].exerciser => Shown(d, "exerciser ok")
          /\ ~profile[d].registered => Shown(d, "probed")
      BY <3>1, Zenon DEF ScriptInv, Judged
    <3> QED BY <3>1, <3>2, Zenon DEF ScriptInv, Truthful
  <2>2. OopsIsReported
    BY OneFile DEF OopsIsReported, ScriptInv, Judged, Shown
  <2> QED BY <2>1, <2>2 DEF VerdictIsTrue
<1>2. VmInit => ScriptInv(d)
  BY ScriptStarts
<1>3. ScriptInv(d) /\ [VmNext]_vmVars => ScriptInv(d)'
  BY ScriptGoesOn
<1> QED BY <1>1, <1>2, <1>3, PTL DEF VmSpec
=============================================================================
