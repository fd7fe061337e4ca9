------------------------------- MODULE Matrix -------------------------------
(***************************************************************************)
(* The programs that run the extractor over a list of cases and report     *)
(* what they find in the directories it leaves:                            *)
(*                                                                         *)
(*   "matrix"       verification/run_matrix.py                             *)
(*   "multisource"  verification/run_multisource_matrix.py                 *)
(*   "zero_shot"    verification/run_zero_shot_matrix.py                   *)
(*   "holdout"      verification/run_zero_shot_holdout.py: one case, first *)
(*                  without and then with its compile context              *)
(*                                                                         *)
(* and tools/generate_paper_results.py, which prints the tables of the     *)
(* paper from the reports of the first two.                                *)
(*                                                                         *)
(* A runner sees nothing of a run but its exit status and the files: a     *)
(* backend "compiled" for the first two if there is no compile log of it.  *)
(***************************************************************************)
EXTENDS DriverReport

CONSTANTS
  Cases,       \* how many cases the runner has, run in order
  Sources,     \* Sources[c]: the drivers the source of case c can be
  Worlds,      \* the sets of faults a run can meet
  Leftovers,   \* what an earlier run can have left in a directory
  MinDrivers   \* how many drivers must share a blocker for it to be common

\* A holdout run has two cases, a matrix more.
ASSUME CasesAssumption == Cases \in Nat \ {0, 1}

VARIABLES
  runner,      \* which of the programs this is
  case,        \* the case that is run, Cases + 1 after the last
  rows,        \* the rows collected so far
  report,      \* "none", "accepted" or "rejected": what the runner wrote
  paper        \* "none", "printed" or "failed": what the paper tool did

vars == <<driverVars, runner, case, rows, report, paper>>

Runners == {"matrix", "multisource", "zero_shot", "holdout"}

\* Without it the files of the last run stay where no new one replaces them.
KeptMutant(files) == files

\* shutil.rmtree before every run.
Cleared(files) == <<>>

Start ==
  /\ pc = "idle" /\ case <= Cases /\ report = "none"
  /\ \E files \in Leftovers : disk' = Cleared(files)
  /\ driver' \in Sources[case]
  /\ world' \in {w \in Worlds : w \subseteq Faults(driver')}
  /\ evidence' = [b \in Backends |-> {}]
  /\ pc' = Steps[1]
  /\ UNCHANGED <<runner, case, rows, report, paper>>

Work == DriverStep /\ UNCHANGED <<runner, case, rows, report, paper>>

-----------------------------------------------------------------------------
(* Reading a directory. *)

Unlogged == {b \in Backends : Log[b] \notin DOMAIN disk}

Generation == disk["analysis"].generation

Reported == {b \in DOMAIN Generation : "compiled" \in Generation[b]}

\* "builds" is what the compilers said, for the properties to compare with.
Row(compile, found, generated) ==
  [exit     |-> pc = "exit",
   found    |-> found,
   scored   |-> Written("score"),
   measured |-> Written("metrics"),
   ready    |-> IF Written("score") THEN disk["score"].ready ELSE {},
   blockers |-> IF Written("score") THEN disk["score"].blockers ELSE {},
   compile  |-> compile,
   generated |-> generated,
   exact    |-> found /\ ~disk["analysis"].drift,
   ris      |-> IF found THEN <<disk["analysis"].ris>> ELSE <<>>,
   builds   |-> Builds(world)]

\* A holdout run that treats a missing score as the other runners do.
ScoreOptionalMutant ==
  /\ runner # "matrix" /\ "analysis" \in DOMAIN disk
  /\ \/ disk["analysis"].torn
     \/ runner = "zero_shot" /\ disk["analysis"].drift

\* A runner dies on an analysis that does not parse; the zero-shot matrix
\* on a compile context other than the recorded one; the holdout run on a
\* missing score.
ReadFails ==
  /\ runner # "matrix" /\ "analysis" \in DOMAIN disk
  /\ \/ disk["analysis"].torn
     \/ runner = "zero_shot" /\ disk["analysis"].drift
     \/ runner = "holdout" /\ "score" \notin DOMAIN disk

Found == "analysis" \in DOMAIN disk /\ ~disk["analysis"].torn

NewRow ==
  IF runner \in {"matrix", "multisource"}
  THEN Row(Unlogged, Found, {})
  ELSE IF Found THEN Row(Reported, TRUE, DOMAIN Generation) ELSE Row({}, FALSE, {})

Collect ==
  /\ pc \in {"exit", "dead"} /\ case <= Cases
  /\ pc' = "idle"
  /\ disk' = <<>>
  /\ IF ReadFails
     THEN report' = "aborted" /\ UNCHANGED <<case, rows>>
     ELSE /\ rows' = Append(rows, NewRow)
          /\ case' = case + 1
          /\ UNCHANGED report
  /\ world' = {} /\ evidence' = [b \in Backends |-> {}]
  /\ UNCHANGED <<driver, runner, paper>>

-----------------------------------------------------------------------------
(* The verdict of a runner. *)

Completed(row) == row.exit /\ row.found /\ row.scored /\ row.measured

Interacts(row) == \E f \in {row.ris[i] : i \in DOMAIN row.ris} : f.ops # <<>>

\* The oracle blockers have no category; an umbrella is not a cause.
Categories(row) ==
  row.blockers \ {"gpio_oracle", "sdhci_oracle", "virtio_oracle", "w1c_oracle",
                  "linux_semantic_binding"}

Common(rs) ==
  {c \in UNION {Categories(rs[i]) : i \in DOMAIN rs} :
     Cardinality({i \in DOMAIN rs : c \in Categories(rs[i])}) >= MinDrivers}

HoldoutAccepts(baseline, imported) ==
  /\ imported.exact
  /\ \A i \in DOMAIN imported.ris :
       imported.ris[i].diagnostics = 0 /\ AccountingReady(imported.ris[i])
  /\ imported.generated \subseteq imported.compile
  /\ baseline.ris = imported.ris

Accepts(rs) ==
  CASE runner = "matrix"      -> \A i \in DOMAIN rs : rs[i].exit
    [] runner = "multisource" -> \A i \in DOMAIN rs : rs[i].exit /\ rs[i].compile = Backends
    [] runner = "zero_shot"   -> /\ \A i \in DOMAIN rs : /\ Completed(rs[i])
                                                         /\ rs[i].exact
                                                         /\ Interacts(rs[i])
                                 /\ Common(rs) # {}
    [] runner = "holdout"     -> HoldoutAccepts(rs[1], rs[2])

Finish ==
  /\ pc = "idle" /\ case > Cases /\ report = "none"
  /\ report' = IF Accepts(rows) THEN "accepted" ELSE "rejected"
  /\ UNCHANGED <<driverVars, runner, case, rows, paper>>

\* The paper tool does not look at the verdict; it fails on a row without
\* a quality, or without metrics.
MakePaper ==
  /\ report \in {"accepted", "rejected"} /\ paper = "none"
  /\ runner \in {"matrix", "multisource"}
  /\ paper' = IF \A i \in DOMAIN rows : IF runner = "matrix" THEN rows[i].scored
                                                           ELSE rows[i].measured
              THEN "printed" ELSE "failed"
  /\ UNCHANGED <<driverVars, runner, case, rows, report>>

Init ==
  /\ driver \in Sources[1] /\ world = {} /\ pc = "idle"
  /\ evidence = [b \in Backends |-> {}]
  /\ disk = <<>>
  /\ runner \in Runners /\ case = 1
  /\ rows = <<>> /\ report = "none" /\ paper = "none"

Next == Start \/ Work \/ Collect \/ Finish \/ MakePaper

Spec == Init /\ [][Next]_vars

-----------------------------------------------------------------------------
(***************************************************************************)
(* The columns "H/B/L compile" of the paper are what the compilers said,   *)
(* although they are read off the absence of three files, a failed run     *)
(* does not keep its row out, and the tool ignores the verdict of the      *)
(* runner: score.txt and metrics.txt are written after the last log, and   *)
(* the directory was empty before.                                         *)
(***************************************************************************)
PrintedIsTrue ==
  paper = "printed" => \A i \in DOMAIN rows : rows[i].compile = rows[i].builds

(***************************************************************************)
(* An accepted report is about what happened: its compile columns are      *)
(* true, no backend is called ready that does not compile, and a holdout   *)
(* run or a multi-source matrix is accepted only if everything compiled.   *)
(* The holdout run asks this of "all" backends it finds in analysis.json,  *)
(* which at first has none.                                                *)
(***************************************************************************)
AcceptedIsTrue ==
  report = "accepted" =>
    /\ \A i \in DOMAIN rows : rows[i].ready \subseteq rows[i].builds
    /\ runner # "holdout" => \A i \in DOMAIN rows : rows[i].compile = rows[i].builds
    /\ runner = "multisource" => \A i \in DOMAIN rows : rows[i].builds = Backends
    /\ runner = "holdout" => rows[2].builds = Backends
=============================================================================
