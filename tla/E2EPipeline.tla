---------------------------- MODULE E2EPipeline ----------------------------
(***************************************************************************)
(* run_e2e.sh with tools/e2e_common.sh: extract a bundle, have a model     *)
(* write a driver, then three repair loops (compile, QEMU, trace), each    *)
(* bounded, each feeding its failure back to the model.  The state is the  *)
(* files the stages hand to one another and the shell variables that name  *)
(* them; files outlive a run, shell variables do not.                      *)
(*                                                                         *)
(* A driver text is abstracted to what the stages can tell apart: whether  *)
(* it compiles, whether qemu_run.sh can accept a boot of it, and which     *)
(* extracted bundle (if any) its MMIO trace follows.                       *)
(***************************************************************************)
EXTENDS Integers

CONSTANTS MaxCompile,    \* MAX_COMPILE_ITER
          MaxQemu,       \* MAX_QEMU_ITER
          MaxTrace,      \* MAX_TRACE_ITER
          MaxRuns        \* bound: how often the script is started

ASSUME IterationAssumption ==
    /\ MaxCompile \in Nat \ {0} /\ MaxQemu \in Nat \ {0} /\ MaxTrace \in Nat \ {0}
ASSUME RunsAssumption  == MaxRuns \in Nat \ {0}

VARIABLES pc,        \* the stage about to be executed
          iter,      \* the round of the loop that stage belongs to, from 1
          opts,      \* SKIP_SYNTH and TRACE_TYPE of this run, and whether
                     \* `make clean` works in it
          rev,       \* revision of the C driver under extraction
          bundle,    \* revision the bundle on disk was extracted from, 0: none
          src,       \* $DRVDIR/$MODULE.c
          ko,        \* the text $DRVDIR/$MODULE.ko was built from
          out,       \* /tmp/reharness_qemu_run.txt: whose boot, and its verdict
          saved,     \* the log LAST_QEMU_SERIAL names
          drafts,    \* how often this run asked the model for a driver text
          runs,      \* how often the script was started
          verdict    \* what the exit status of this run says

files   == <<bundle, src, ko, out>>
vars    == <<pc, iter, opts, rev, bundle, src, ko, out, saved, drafts, runs, verdict>>
-----------------------------------------------------------------------------
Options == [skip: BOOLEAN, trace: {"value", "offset"}, clean: BOOLEAN]

Stages == {"preflight", "extract", "synth", "compile", "compileRepair",
           "qemu", "qemuRepair", "qemuRebuild",
           "trace", "traceRepair", "traceRebuild", "traceRerun", "end"}

\* ver tells texts of one run apart; follows is 0 when the trace of the text
\* follows no bundle.  Only texts that run have a trace to speak of.
Draft   == [ver: Nat, q: {"broken", "faulty", "runs"}, follows: Nat]
NoDraft == [ver |-> 0, q |-> "broken", follows |-> 0]
BootLog == [drv: Draft, ok: BOOLEAN]
NoLog   == [drv |-> NoDraft, ok |-> FALSE]

TypeOK == /\ pc \in Stages /\ iter \in Nat /\ drafts \in Nat
          /\ opts \in Options
          /\ rev \in Nat /\ bundle \in Nat /\ runs \in Nat
          /\ src \in Draft /\ ko \in Draft
          /\ out \in BootLog /\ saved \in BootLog
          /\ verdict \in {"open", "ok", "failed", "untraced", "interrupted"}

Init == /\ pc = "preflight" /\ iter = 1 /\ drafts = 0 /\ runs = 1
        /\ opts \in Options
        /\ rev = 1 /\ bundle = 0
        /\ src = NoDraft /\ ko = NoDraft /\ out = NoLog /\ saved = NoLog
        /\ verdict = "open"
-----------------------------------------------------------------------------
Exit(v) == pc' = "end" /\ verdict' = v

\* What the model may answer with, having been shown the bundle on disk.
Answers == { d \in [ver: {1 + src.ver}, q: {"broken", "faulty", "runs"},
                    follows: {0, bundle}] :
             d.q # "runs" => d.follows = 0 }

\* llm_write_c asks again when the first call fails, times out or says nothing,
\* and once only. The file is replaced by a usable answer, or left as it was.
MaxRetries == 2
LlmWriteC == /\ \E asked \in 1..MaxRetries : drafts' = drafts + asked
             /\ src' \in Answers \/ src' = src

\* compile_once: `make clean && make`, judged by whether the .ko is there.
\* A clean that fails skips make and leaves the .ko of an earlier text.
KoAfterMake == { IF src.q = "broken" THEN NoDraft ELSE src }
               \cup (IF opts.clean THEN {} ELSE {ko})
CompileOnce == ko' \in KoAfterMake

\* qemu_run.sh: without a .ko it exits before it touches its log; otherwise
\* the log is this boot's.  A driver that runs may still miss the guest's
\* 15 s watchdog or the host's timeout.
QemuAccepts == ko.q = "runs" /\ out' = [drv |-> ko, ok |-> TRUE]
QemuRejects == \/ ko = NoDraft /\ out' = out
               \/ ko # NoDraft /\ out' = [drv |-> ko, ok |-> FALSE]

\* The verdict of trace_match.py on a boot log and the bundle on disk.
TraceMatches(log) == log.drv.follows = bundle
-----------------------------------------------------------------------------
Preflight ==
    /\ pc = "preflight"
    /\ \/ pc' = "extract" /\ verdict' = verdict
       \/ Exit("failed")
    /\ UNCHANGED <<iter, opts, rev, files, saved, drafts, runs>>

\* The status of `run.sh bundle | tail -1` is not looked at: on failure an
\* earlier bundle, or none, stays in place.
Extract ==
    /\ pc = "extract"
    /\ bundle' \in {rev, bundle}
    /\ pc' = "synth"
    /\ UNCHANGED <<iter, opts, rev, src, ko, out, saved, drafts, runs, verdict>>

Synth ==
    /\ pc = "synth"
    /\ \/ opts.skip /\ pc' = "compile" /\ UNCHANGED <<src, drafts, verdict>>
       \/ ~opts.skip /\ src' \in Answers /\ drafts' = drafts + 1
                     /\ pc' = "compile" /\ UNCHANGED verdict
       \/ ~opts.skip /\ Exit("failed") /\ drafts' = drafts + 1 /\ UNCHANGED src
    /\ UNCHANGED <<iter, opts, rev, bundle, ko, out, saved, runs>>

Compile ==
    /\ pc = "compile" /\ iter <= MaxCompile
    /\ CompileOnce
    /\ \/ ko' # NoDraft /\ pc' = "qemu" /\ iter' = 1
       \/ ko' = NoDraft /\ pc' = "compileRepair" /\ iter' = iter
    /\ UNCHANGED <<opts, rev, bundle, src, out, saved, drafts, runs, verdict>>

CompileRepair ==
    /\ pc = "compileRepair"
    /\ LlmWriteC
    /\ pc' = "compile" /\ iter' = iter + 1
    /\ UNCHANGED <<opts, rev, bundle, ko, out, saved, runs, verdict>>

CompileGiveUp ==
    /\ pc = "compile" /\ iter > MaxCompile
    /\ Exit("failed")
    /\ UNCHANGED <<iter, opts, rev, files, saved, drafts, runs>>

\* A successful boot's log is copied into the iteration's own directory and
\* LAST_QEMU_SERIAL names the copy.
Qemu ==
    /\ pc = "qemu" /\ iter <= MaxQemu
    /\ \/ QemuAccepts /\ saved' = out' /\ pc' = "trace" /\ iter' = 1
       \/ QemuRejects /\ saved' = saved /\ pc' = "qemuRepair" /\ iter' = iter
    /\ UNCHANGED <<opts, rev, bundle, src, ko, drafts, runs, verdict>>

QemuRepair ==
    /\ pc = "qemuRepair"
    /\ LlmWriteC
    /\ pc' = "qemuRebuild"
    /\ UNCHANGED <<iter, opts, rev, bundle, ko, out, saved, runs, verdict>>

\* MUTANT: the repaired text is booted without being rebuilt.
QemuRebuildMutant1 ==
    /\ pc = "qemuRebuild"
    /\ pc' = "qemu" /\ iter' = iter + 1
    /\ UNCHANGED <<opts, rev, bundle, src, ko, out, saved, drafts, runs, verdict>>

\* The verdict of this compile_once is only printed.
QemuRebuild ==
    /\ pc = "qemuRebuild"
    /\ CompileOnce
    /\ pc' = "qemu" /\ iter' = iter + 1
    /\ UNCHANGED <<opts, rev, bundle, src, out, saved, drafts, runs, verdict>>

QemuGiveUp ==
    /\ pc = "qemu" /\ iter > MaxQemu
    /\ Exit("failed")
    /\ UNCHANGED <<iter, opts, rev, files, saved, drafts, runs>>

\* MUTANT: a value trace is judged like an offset trace.
TraceSkippedMutant == bundle = 0

\* A value trace was judged by the exerciser while booting; a missing bundle
\* skips the comparison.  Otherwise the log LAST_QEMU_SERIAL names is judged.
TraceSkipped == opts.trace = "value" \/ bundle = 0

TraceJudge ==
    /\ pc = "trace" /\ iter <= MaxTrace
    /\ \/ (TraceSkipped \/ TraceMatches(saved)) /\ Exit("ok")
       \/ ~(TraceSkipped \/ TraceMatches(saved)) /\ pc' = "traceRepair"
                                                 /\ verdict' = verdict
    /\ UNCHANGED <<iter, opts, rev, files, saved, drafts, runs>>

TraceRepair ==
    /\ pc = "traceRepair"
    /\ LlmWriteC
    /\ pc' = "traceRebuild"
    /\ UNCHANGED <<iter, opts, rev, bundle, ko, out, saved, runs, verdict>>

\* MUTANT: make is repeated until a .ko appears.
TraceRebuildMutant ==
    /\ pc = "traceRebuild"
    /\ CompileOnce
    /\ pc' = IF ko' # NoDraft THEN "traceRerun" ELSE "traceRebuild"
    /\ UNCHANGED <<iter, opts, rev, bundle, src, out, saved, drafts, runs, verdict>>

TraceRebuild ==
    /\ pc = "traceRebuild"
    /\ CompileOnce
    /\ \/ ko' # NoDraft /\ pc' = "traceRerun" /\ iter' = iter
       \/ ko' = NoDraft /\ pc' = "trace" /\ iter' = iter + 1
    /\ UNCHANGED <<opts, rev, bundle, src, out, saved, drafts, runs, verdict>>

\* MUTANT: the rerun's log becomes the saved one whatever its status.
TraceRerunMutant ==
    /\ pc = "traceRerun"
    /\ QemuAccepts \/ QemuRejects
    /\ saved' = out'
    /\ pc' = "trace" /\ iter' = iter + 1
    /\ UNCHANGED <<opts, rev, bundle, src, ko, drafts, runs, verdict>>

\* The rerun's log is copied next to the saved one; LAST_QEMU_SERIAL stays.
TraceRerun ==
    /\ pc = "traceRerun"
    /\ QemuAccepts \/ QemuRejects
    /\ pc' = "trace" /\ iter' = iter + 1
    /\ UNCHANGED <<opts, rev, bundle, src, ko, saved, drafts, runs, verdict>>

\* MUTANT: an exit status no caller knows.
TraceGiveUpMutant ==
    /\ pc = "trace" /\ iter > MaxTrace
    /\ Exit("exhausted")
    /\ UNCHANGED <<iter, opts, rev, files, saved, drafts, runs>>

TraceGiveUp ==
    /\ pc = "trace" /\ iter > MaxTrace
    /\ Exit("untraced")
    /\ UNCHANGED <<iter, opts, rev, files, saved, drafts, runs>>

\* The user interrupts the script between two steps; the files stay.
Interrupt ==
    /\ pc # "end" /\ Exit("interrupted")
    /\ UNCHANGED <<iter, opts, rev, files, saved, drafts, runs>>

\* The script is started again, perhaps with other options, perhaps after an
\* edit of the driver under extraction.
Rerun ==
    /\ pc = "end" /\ runs < MaxRuns
    /\ pc' = "preflight" /\ iter' = 1 /\ drafts' = 0 /\ runs' = runs + 1
    /\ opts' \in Options
    /\ rev' \in {rev, rev + 1}
    /\ saved' = NoLog /\ verdict' = "open"
    /\ UNCHANGED files

Step == \/ Preflight \/ Extract \/ Synth
        \/ Compile \/ CompileRepair \/ CompileGiveUp
        \/ Qemu \/ QemuRepair \/ QemuRebuild \/ QemuGiveUp
        \/ TraceJudge \/ TraceRepair \/ TraceRebuild \/ TraceRerun \/ TraceGiveUp

Next == Step \/ Interrupt \/ Rerun

\* The script is sequential and every external call it makes is bounded by a
\* timeout or by its input, so a run that is not interrupted goes on.
Spec == Init /\ [][Next]_vars /\ WF_vars(Step)
-----------------------------------------------------------------------------
(***************************************************************************)
(* Properties                                                              *)
(***************************************************************************)
\* Exit status 0 is about the files it leaves behind: an accepted boot of the
\* very .ko on disk was kept; an offset trace, where there was a bundle to judge
\* it by, follows the bundle; and where `make clean` works the .c on disk is the
\* text the .ko was built from.
AcceptedDriver ==
    verdict = "ok" =>
        /\ saved = [drv |-> ko, ok |-> TRUE] /\ ko.q = "runs"
        /\ opts.trace = "offset" /\ bundle # 0 => ko.follows = bundle
        /\ opts.clean => ko = src

\* Exit status 4 is a judgement on an accepted boot: a bundle was there, the
\* kept boot was accepted, and its trace does not follow the bundle.
UntracedMeansMismatch ==
    verdict = "untraced" =>
        /\ saved.ok /\ opts.trace = "offset" /\ bundle # 0
        /\ saved.drv.follows # bundle

\* A run asks the model at most twice for each round it has to spend, and once to
\* begin with: the round that lets one of the first two loops succeed asks for
\* nothing, and a loop that is used up ends the run.
RepairBudget == drafts <= 1 + MaxRetries * (MaxCompile + MaxQemu + MaxTrace - 2)

\* However the model, the compiler and QEMU behave, a run comes to an end.
Termination == (verdict = "open") ~> (verdict # "open")

\* The pipeline keeps its promise about the module on disk: see Certification.
Cert == INSTANCE Certification
            WITH Candidate <- Draft, NoEvidence <- NoLog,
                 draft <- ko, evidence <- saved, verdict <- verdict
Certifies == Cert!Spec
=============================================================================
