-------------------------- MODULE VerificationProofs --------------------------
(***************************************************************************)
(* The programs of verification/.                                          *)
(*                                                                         *)
(* Of Matrix: its three properties for every driver, every set of faults,  *)
(* every number of cases and whatever earlier runs left behind.            *)
(*                                                                         *)
(* Of GpioHarness, for words of any width and every set of configurations  *)
(* that ChipsOK describes: the reference chip keeps its shadows; the       *)
(* callbacks that are written implement the reference chip; what both      *)
(* oracles pass is what the reference does; and a right program that runs  *)
(* to its end is passed.  The refinement goes through three layers:        *)
(* Mirrors says that the memory of a callback stands for a state in the    *)
(* middle of a call of the reference, Leads and Ends that a list of        *)
(* operations takes it to another one, and CallbacksInv that what is left  *)
(* of the running callback does so from where it is.  A right program is   *)
(* passed because the memory of its C stays Narrow, where C and the oracle *)
(* agree on every operation (NarrowStep), and because what is left of its  *)
(* calls leads to the memory the oracle leaves (RightInv).                 *)
(***************************************************************************)
EXTENDS Matrix, GpioHarness, SequenceTheorems, WellFoundedInduction, TLAPS

\* What the command has to show for backend b once its step is over.
Flags(b) ==
  CASE b = "harness"   -> IF "harness" \in Builds(world)
                          THEN Judged("harness", driver, world) \cup Traced(world) ELSE {}
    [] b = "baremetal" -> HostJudged(driver, world)
    [] b = "linux"     -> {}

Full(b) ==
  Flags(b) \cup Contracts(driver, world) \cup Marks(b, world)
    \cup {x \in {"compiled"} : b \in Builds(world)}

\* Where the process can be after that step.
Since(b) ==
  {"persist", "metrics", "score", "exit"}
    \cup (IF b \in {"harness", "baremetal"} THEN {"linux"} ELSE {})
    \cup (IF b = "harness" THEN {"baremetal"} ELSE {})

Places == {"core", "harness", "baremetal", "linux", "persist", "metrics", "score",
           "exit", "dead", "idle"}

EvidenceInv ==
  /\ pc \in Places
  /\ evidence = [b \in Backends |-> evidence[b]]
  /\ \A b \in Backends : pc \in Since(b) => evidence[b] = Full(b)

LogInv ==
  \A b \in Backends :
    /\ Log[b] \in DOMAIN disk => b \notin Builds(world)
    /\ pc \in Since(b) /\ b \notin Builds(world) => Log[b] \in DOMAIN disk

\* All there is to know is known, and the directory says so.
Evidenced ==
  /\ \A b \in Backends : /\ evidence[b] = Full(b)
                         /\ b \notin Builds(world) => Log[b] \in DOMAIN disk
  /\ "analysis" \in DOMAIN disk
  /\ disk["analysis"] = Analysis(Backends)

\* Nothing is measured or scored before that.
FileInv ==
  /\ pc \in {"metrics", "score", "exit"} => Evidenced
  /\ ("metrics" \in DOMAIN disk \/ "score" \in DOMAIN disk) =>
        Evidenced /\ pc \in {"score", "exit", "dead"}
  /\ Written("score") => disk["score"] = Scores(driver, evidence)

DriverInv == EvidenceInv /\ LogInv /\ FileInv

LEMMA StepNames ==
  /\ Steps[1] = "core" /\ Steps[2] = "harness" /\ Steps[3] = "baremetal" /\ Steps[4] = "linux"
  /\ Steps[5] = "persist" /\ Steps[6] = "metrics" /\ Steps[7] = "score"
  /\ Len(Steps) = 7 /\ DOMAIN Steps = 1..7
BY DEF Steps

\* Doing(k) and Advance(k), in words.
LEMMA Stepping ==
  /\ Doing(1) /\ Advance(1) => pc = "core" /\ pc' = "harness"
  /\ Doing(2) /\ Advance(2) => pc = "harness" /\ pc' = "baremetal"
  /\ Doing(3) /\ Advance(3) => pc = "baremetal" /\ pc' = "linux"
  /\ Doing(4) /\ Advance(4) => pc = "linux" /\ pc' = "persist"
  /\ Doing(5) /\ Advance(5) => pc = "persist" /\ pc' = "metrics"
  /\ Doing(6) /\ Advance(6) => pc = "metrics" /\ pc' = "score"
  /\ Doing(7) /\ Advance(7) => pc = "score" /\ pc' = "exit"
BY StepNames DEF Doing, Advance

LEMMA LogNames ==
  \A b \in Backends : Log[b] \notin {"analysis", "metrics", "score", "trace"}
BY DEF Backends, Log

LEMMA LogsDiffer ==
  ASSUME NEW b \in Backends, NEW c \in Backends, Log[b] = Log[c]
  PROVE  b = c
BY DEF Backends, Log

\* Writing a file: it is there, and the others are as they were.
LEMMA PutFile ==
  ASSUME NEW file, NEW content, Put(file, content)
  PROVE  /\ DOMAIN disk' = DOMAIN disk \cup {file}
         /\ disk'[file] = content
         /\ \A x \in DOMAIN disk : x # file => disk'[x] = disk[x]
BY DEF Put

LEMMA OnlyCompiled ==
  ASSUME NEW b \in Backends
  PROVE  "compiled" \in Full(b) <=> b \in Builds(world)
<1>1. "compiled" \notin Flags(b)
  BY DEF Flags, Backends, Judged, Traced, HostJudged
<1>2. "compiled" \notin Contracts(driver, world) /\ "compiled" \notin Marks(b, world)
  BY DEF Contracts, Oracles, Marks
<1> QED BY <1>1, <1>2 DEF Full
-----------------------------------------------------------------------------
\* A step that writes neither evidence nor a log.
LEMMA FullSame ==
  ASSUME UNCHANGED <<driver, world>>
  PROVE  \A b \in Backends : Full(b)' = Full(b)
BY DEF Full, Flags

LEMMA WriteCoreKeeps ==
  ASSUME DriverInv, WriteCore
  PROVE  DriverInv'
<1>1. pc = "core" /\ pc' = "harness" /\ UNCHANGED <<driver, world, evidence>>
  BY Stepping DEF WriteCore
<1>2. DOMAIN disk' = DOMAIN disk \cup {"analysis"}
  BY PutFile DEF WriteCore
<1>3. EvidenceInv'
  BY <1>1 DEF DriverInv, EvidenceInv, Since, Places
<1>4. LogInv'
  BY <1>1, <1>2, LogNames DEF DriverInv, LogInv, Since
<1>5. FileInv'
  BY <1>1, <1>2 DEF DriverInv, FileInv, Written
<1> QED BY <1>3, <1>4, <1>5 DEF DriverInv

LEMMA HarnessKeeps ==
  ASSUME DriverInv, Harness
  PROVE  DriverInv'
<1>1. pc = "harness" /\ pc' = "baremetal" /\ UNCHANGED <<driver, world>>
  BY Stepping DEF Harness
<1>2. evidence' = [evidence EXCEPT !["harness"] = Full("harness")]
  BY DEF Harness, Keep, Full, Flags
<1>3. \E file \in {"trace", Log["harness"]} :
        /\ DOMAIN disk' = DOMAIN disk \cup {file}
        /\ file = Log["harness"] <=> "harness" \notin Builds(world)
  <2>1. Log["harness"] # "trace"
    BY DEF Log
  <2>2. CASE "harness" \in Builds(world)
    <3>1. Put("trace", Text)
      BY <2>2 DEF Harness
    <3> QED BY <2>1, <2>2, <3>1, PutFile
  <2>3. CASE "harness" \notin Builds(world)
    <3>1. Put(Log["harness"], Text)
      BY <2>3 DEF Harness
    <3> QED BY <2>3, <3>1, PutFile
  <2> QED BY <2>2, <2>3
<1>4. EvidenceInv'
  BY <1>1, <1>2, FullSame DEF DriverInv, EvidenceInv, Since, Places, Backends
<1>5. LogInv'
  BY <1>1, <1>3, LogNames, LogsDiffer DEF DriverInv, LogInv, Since, Backends
<1>6. FileInv'
  <2>1. "metrics" \notin DOMAIN disk' /\ "score" \notin DOMAIN disk'
    BY <1>1, <1>3, LogNames DEF DriverInv, FileInv, Backends
  <2> QED BY <1>1, <2>1 DEF FileInv, Written
<1> QED BY <1>4, <1>5, <1>6 DEF DriverInv

\* The two steps that write a log or nothing.
LEMMA LoggedFile ==
  ASSUME NEW b \in Backends, Logged(b)
  PROVE  DOMAIN disk' = DOMAIN disk \cup {x \in {Log[b]} : b \notin Builds(world)}
<1>1. CASE b \in Builds(world)
  BY <1>1 DEF Logged
<1>2. CASE b \notin Builds(world)
  BY <1>2, PutFile DEF Logged
<1> QED BY <1>1, <1>2

LEMMA LoggingKeeps ==
  ASSUME DriverInv, NEW b \in {"baremetal", "linux"}, Logged(b),
         evidence' = [evidence EXCEPT ![b] = Full(b)],
         pc = b, pc' = IF b = "linux" THEN "persist" ELSE "linux",
         UNCHANGED <<driver, world>>
  PROVE  DriverInv'
<1>1. DOMAIN disk' = DOMAIN disk \cup {x \in {Log[b]} : b \notin Builds(world)}
  BY LoggedFile DEF Backends
<1>2. EvidenceInv'
  BY FullSame DEF DriverInv, EvidenceInv, Since, Places, Backends
<1>3. LogInv'
  BY <1>1, LogsDiffer DEF DriverInv, LogInv, Since, Backends
<1>4. FileInv'
  <2>1. "metrics" \notin DOMAIN disk' /\ "score" \notin DOMAIN disk'
    BY <1>1, LogNames DEF DriverInv, FileInv, Backends
  <2> QED BY <2>1 DEF FileInv, Written
<1> QED BY <1>2, <1>3, <1>4 DEF DriverInv

LEMMA BaremetalKeeps ==
  ASSUME DriverInv, Baremetal
  PROVE  DriverInv'
<1>1. pc = "baremetal" /\ pc' = "linux" /\ UNCHANGED <<driver, world>> /\ Logged("baremetal")
  BY Stepping DEF Baremetal
<1>2. evidence' = [evidence EXCEPT !["baremetal"] = Full("baremetal")]
  BY DEF Baremetal, Keep, Full, Flags
<1> QED BY <1>1, <1>2, LoggingKeeps

LEMMA LinuxKeeps ==
  ASSUME DriverInv, Linux
  PROVE  DriverInv'
<1>1. pc = "linux" /\ pc' = "persist" /\ UNCHANGED <<driver, world>> /\ Logged("linux")
  BY Stepping DEF Linux
<1>2. evidence' = [evidence EXCEPT !["linux"] = Full("linux")]
  BY DEF Linux, Keep, Full, Flags
<1> QED BY <1>1, <1>2, LoggingKeeps

LEMMA PersistKeeps ==
  ASSUME DriverInv, Persist
  PROVE  DriverInv'
<1>1. pc = "persist" /\ pc' = "metrics" /\ UNCHANGED <<driver, world, evidence>>
  BY Stepping DEF Persist
<1>2. /\ DOMAIN disk' = DOMAIN disk \cup {"analysis"}
      /\ disk'["analysis"] = Analysis(Backends)
  BY PutFile DEF Persist
<1>3. EvidenceInv'
  BY <1>1, FullSame DEF DriverInv, EvidenceInv, Since, Places
<1>4. LogInv'
  BY <1>1, <1>2, LogNames DEF DriverInv, LogInv, Since
<1>5. \A b \in Backends : /\ evidence[b] = Full(b)
                          /\ b \notin Builds(world) => Log[b] \in DOMAIN disk
  BY <1>1 DEF DriverInv, EvidenceInv, LogInv, Since
<1>6. Analysis(Backends)' = Analysis(Backends)
  BY <1>1 DEF Analysis
<1>7. Evidenced'
  BY <1>1, <1>2, <1>5, <1>6, FullSame DEF Evidenced
<1>8. FileInv'
  BY <1>1, <1>2, <1>7 DEF DriverInv, FileInv, Written
<1> QED BY <1>3, <1>4, <1>8 DEF DriverInv

\* Once everything is known, other files do not change that.
LEMMA EvidencedKeeps ==
  ASSUME Evidenced, NEW file \in {"metrics", "score"}, NEW content, Put(file, content),
         UNCHANGED <<driver, world, evidence>>
  PROVE  Evidenced'
<1>1. DOMAIN disk' = DOMAIN disk \cup {file} /\ disk'["analysis"] = disk["analysis"]
  BY PutFile DEF Evidenced
<1>2. Analysis(Backends)' = Analysis(Backends)
  BY DEF Analysis
<1> QED BY <1>1, <1>2, FullSame DEF Evidenced

LEMMA MeasureKeeps ==
  ASSUME DriverInv, Measure
  PROVE  DriverInv'
<1>1. pc = "metrics" /\ pc' = "score" /\ UNCHANGED <<driver, world, evidence>>
  BY Stepping DEF Measure
<1>2. Put("metrics", Text) /\ DOMAIN disk' = DOMAIN disk \cup {"metrics"}
  BY PutFile DEF Measure
<1>3. EvidenceInv'
  BY <1>1, FullSame DEF DriverInv, EvidenceInv, Since, Places
<1>4. LogInv'
  BY <1>1, <1>2, LogNames DEF DriverInv, LogInv, Since
<1>5. Evidenced'
  BY <1>1, <1>2, EvidencedKeeps DEF DriverInv, FileInv
<1>6. "score" \notin DOMAIN disk'
  BY <1>1, <1>2 DEF DriverInv, FileInv
<1>7. FileInv'
  BY <1>1, <1>5, <1>6 DEF FileInv, Written
<1> QED BY <1>3, <1>4, <1>7 DEF DriverInv

LEMMA WriteScoreKeeps ==
  ASSUME DriverInv, WriteScore
  PROVE  DriverInv'
<1>1. pc = "score" /\ pc' = "exit" /\ UNCHANGED <<driver, world, evidence>>
  BY Stepping DEF WriteScore
<1>2. /\ Put("score", Scores(driver, evidence))
      /\ DOMAIN disk' = DOMAIN disk \cup {"score"}
      /\ disk'["score"] = Scores(driver, evidence)
  BY PutFile DEF WriteScore
<1>3. EvidenceInv'
  BY <1>1, FullSame DEF DriverInv, EvidenceInv, Since, Places
<1>4. LogInv'
  BY <1>1, <1>2, LogNames DEF DriverInv, LogInv, Since
<1>5. Evidenced'
  BY <1>1, <1>2, EvidencedKeeps DEF DriverInv, FileInv
<1>6. FileInv'
  BY <1>1, <1>2, <1>5 DEF FileInv, Written
<1> QED BY <1>3, <1>4, <1>6 DEF DriverInv

\* A file that is torn is no score.
LEMMA DieKeeps ==
  ASSUME DriverInv, Die
  PROVE  DriverInv'
<1>1. pc \in {"core", "harness", "baremetal", "linux", "persist", "metrics", "score"}
  BY DEF Die, Steps
<1>2. pc' = "dead" /\ UNCHANGED <<driver, world, evidence>>
  BY DEF Die
<1>3. EvidenceInv'
  BY <1>2 DEF DriverInv, EvidenceInv, Since, Places
<1>4. CASE UNCHANGED disk
  <2>1. LogInv'
    BY <1>2, <1>4 DEF DriverInv, LogInv, Since
  <2>2. Evidenced' <=> Evidenced
    BY <1>2, <1>4, FullSame DEF Evidenced, Analysis
  <2>3. FileInv'
    BY <1>2, <1>4, <2>2 DEF DriverInv, FileInv, Written
  <2> QED BY <1>3, <2>1, <2>3 DEF DriverInv
<1>5. ASSUME NEW file \in Writing, Put(file, Torn)
      PROVE  DriverInv'
  <2>1. /\ file \in {"analysis", "metrics", "score"}
        /\ file = "analysis" => pc \in {"core", "persist"}
        /\ file = "metrics" => pc = "metrics"
        /\ file = "score" => pc = "score"
    BY <1>1, <1>5 DEF Writing
  <2>2. /\ DOMAIN disk' = DOMAIN disk \cup {file}
        /\ disk'[file] = Torn
        /\ \A x \in DOMAIN disk : x # file => disk'[x] = disk[x]
    BY <1>5, PutFile
  <2>3. LogInv'
    BY <1>2, <2>1, <2>2, LogNames DEF DriverInv, LogInv, Since
  <2>4. CASE file = "analysis"
    <3>1. "metrics" \notin DOMAIN disk' /\ "score" \notin DOMAIN disk'
      BY <2>1, <2>2, <2>4 DEF DriverInv, FileInv
    <3>2. FileInv'
      BY <1>2, <3>1 DEF FileInv, Written
    <3> QED BY <1>3, <2>3, <3>2 DEF DriverInv
  <2>5. CASE file \in {"metrics", "score"}
    <3>1. Evidenced'
      BY <1>2, <1>5, <2>1, <2>5, EvidencedKeeps DEF DriverInv, FileInv
    <3>2. ~Written("score")'
      BY <2>1, <2>2, <2>5 DEF DriverInv, FileInv, Written, Torn
    <3>3. FileInv'
      BY <1>2, <3>1, <3>2 DEF FileInv
    <3> QED BY <1>3, <2>3, <3>3 DEF DriverInv
  <2> QED BY <2>1, <2>4, <2>5
<1> QED BY <1>4, <1>5 DEF Die

LEMMA DriverStepKeeps ==
  ASSUME DriverInv, DriverStep
  PROVE  DriverInv'
BY WriteCoreKeeps, HarnessKeeps, BaremetalKeeps, LinuxKeeps, PersistKeeps, MeasureKeeps,
   WriteScoreKeeps, DieKeeps DEF DriverStep

\* An empty directory says nothing.
LEMMA EmptyDirectory ==
  ASSUME disk' = <<>>, pc' \in {"core", "idle"}, evidence' = [b \in Backends |-> {}]
  PROVE  DriverInv'
<1>1. DOMAIN disk' = {}
  OBVIOUS
<1>2. EvidenceInv'
  BY DEF EvidenceInv, Since, Places
<1>3. LogInv'
  BY <1>1 DEF LogInv, Since
<1>4. FileInv'
  BY <1>1 DEF FileInv, Written
<1> QED BY <1>2, <1>3, <1>4 DEF DriverInv
-----------------------------------------------------------------------------
\* What is true of a row, whatever becomes of the other cases.
RowInv(row) ==
  /\ row.ready \subseteq row.builds
  /\ row.exact => row.found
  /\ runner \in {"matrix", "multisource"} /\ (row.exit \/ row.scored \/ row.measured)
       => row.compile = row.builds
  /\ runner = "zero_shot" /\ row.found /\ row.scored => row.compile = row.builds
  /\ runner = "holdout" /\ row.found /\ row.generated \subseteq row.compile
       => row.builds = Backends

\* A gate never opens for a backend that did not compile.
LEMMA ReadyBuilds ==
  ASSUME DriverInv, Written("score")
  PROVE  disk["score"].ready \subseteq Builds(world)
<1>1. Evidenced /\ disk["score"] = Scores(driver, evidence)
  BY DEF DriverInv, FileInv, Written
<1>2. disk["score"].ready = Ready(driver, evidence)
  BY <1>1 DEF Scores
<1>3. ASSUME NEW b \in Ready(driver, evidence)
      PROVE  b \in Builds(world)
  <2>1. b \in Backends /\ "compiled" \in evidence[b]
    BY <1>3 DEF Ready, HarnessReady, BaremetalReady, LinuxReady, Clean, Backends
  <2> QED BY <1>1, <2>1, OnlyCompiled DEF Evidenced
<1> QED BY <1>2, <1>3

LEMMA NewRowHolds ==
  ASSUME DriverInv, pc \in {"exit", "dead"}, runner \in Runners, ~ReadFails
  PROVE  RowInv(NewRow)
<1> DEFINE compile   == IF runner \in {"matrix", "multisource"} THEN Unlogged
                        ELSE IF Found THEN Reported ELSE {}
           generated == IF runner \notin {"matrix", "multisource"} /\ Found
                        THEN DOMAIN Generation ELSE {}
<1>1. NewRow = Row(compile, Found, generated)
  <2>1. CASE runner \in {"matrix", "multisource"}
    BY <2>1 DEF NewRow
  <2>2. CASE runner \notin {"matrix", "multisource"} /\ Found
    BY <2>2 DEF NewRow
  <2>3. CASE runner \notin {"matrix", "multisource"} /\ ~Found
    <3>1. Found = FALSE
      BY <2>3
    <3>2. NewRow = Row({}, FALSE, {}) /\ compile = {} /\ generated = {}
      BY <2>3 DEF NewRow
    <3> QED BY <3>1, <3>2
  <2> QED BY <2>1, <2>2, <2>3
<1>2. /\ Row(compile, Found, generated).builds = Builds(world)
      /\ Row(compile, Found, generated).compile = compile
      /\ Row(compile, Found, generated).generated = generated
      /\ Row(compile, Found, generated).found = Found
      /\ Row(compile, Found, generated).scored = Written("score")
      /\ Row(compile, Found, generated).measured = Written("metrics")
      /\ Row(compile, Found, generated).exit = (pc = "exit")
      /\ Row(compile, Found, generated).exact = (Found /\ ~disk["analysis"].drift)
      /\ Row(compile, Found, generated).ready =
           (IF Written("score") THEN disk["score"].ready ELSE {})
  BY DEF Row
<1>3. (IF Written("score") THEN disk["score"].ready ELSE {}) \subseteq Builds(world)
  BY ReadyBuilds
<1>4. Evidenced => Unlogged = Builds(world)
  BY DEF Evidenced, Unlogged, DriverInv, LogInv, Builds
<1>5. Evidenced => /\ DOMAIN Generation = Backends
                   /\ Reported = Builds(world)
  <2> SUFFICES ASSUME Evidenced
               PROVE  DOMAIN Generation = Backends /\ Reported = Builds(world)
    OBVIOUS
  <2>1. Generation = [b \in Backends |-> evidence[b]]
    BY DEF Evidenced, Generation, Analysis
  <2>2. Reported = {b \in Backends : "compiled" \in evidence[b]}
    BY <2>1 DEF Reported
  <2>3. \A b \in Backends : "compiled" \in evidence[b] <=> b \in Builds(world)
    BY OnlyCompiled DEF Evidenced
  <2> QED BY <2>1, <2>2, <2>3 DEF Builds
<1>6. pc = "exit" \/ Written("score") \/ Written("metrics") => Evidenced
  BY DEF DriverInv, FileInv, Written
<1>7. runner = "holdout" /\ Found => Evidenced
  BY DEF Found, ReadFails, DriverInv, FileInv
<1> HIDE DEF compile, generated
<1>8. runner \in {"matrix", "multisource"} /\ (pc = "exit" \/ Written("score") \/ Written("metrics"))
        => compile = Builds(world)
  BY <1>4, <1>6 DEF compile
<1>9. runner = "zero_shot" /\ Found /\ Written("score") => compile = Builds(world)
  BY <1>5, <1>6 DEF compile
<1>10. runner = "holdout" /\ Found /\ generated \subseteq compile => Builds(world) = Backends
  BY <1>5, <1>7 DEF compile, generated, Builds
<1> QED BY <1>1, <1>2, <1>3, <1>8, <1>9, <1>10 DEF RowInv
-----------------------------------------------------------------------------
\* The rows are those of the cases that are over; a report comes after the
\* last of them, and the paper after the report.
RowsInv ==
  /\ runner \in Runners
  /\ \E S : rows \in Seq(S)
  /\ case = Len(rows) + 1
  /\ \A i \in DOMAIN rows : RowInv(rows[i])

ReportInv ==
  /\ report \in {"accepted", "rejected"} => case > Cases
  /\ report = "accepted" => Accepts(rows)
  /\ paper = "printed" =>
       /\ report \in {"accepted", "rejected"}
       /\ \/ runner = "matrix" /\ \A i \in DOMAIN rows : rows[i].scored
          \/ runner = "multisource" /\ \A i \in DOMAIN rows : rows[i].measured

Inv == DriverInv /\ RowsInv /\ ReportInv

LEMMA InvInit ==
  ASSUME Init
  PROVE  Inv
<1>1. DOMAIN disk = {} /\ pc = "idle" /\ evidence = [b \in Backends |-> {}]
  BY DEF Init
<1>2. DriverInv
  BY <1>1 DEF DriverInv, EvidenceInv, LogInv, FileInv, Since, Places, Written
<1>3. RowsInv
  <2>1. rows = <<>> /\ case = 1 /\ runner \in Runners
    BY DEF Init
  <2>2. rows \in Seq({}) /\ Len(rows) = 0 /\ DOMAIN rows = {}
    BY <2>1
  <2> QED BY <2>1, <2>2 DEF RowsInv
<1>4. ReportInv
  BY DEF Init, ReportInv
<1> QED BY <1>2, <1>3, <1>4 DEF Inv

\* Steps that leave the rows alone.
LEMMA RowsSame ==
  ASSUME RowsInv, UNCHANGED <<runner, case, rows>>
  PROVE  RowsInv'
BY DEF RowsInv, RowInv

LEMMA ReportSame ==
  ASSUME ReportInv, UNCHANGED <<runner, case, rows, report, paper>>
  PROVE  ReportInv'
<1>1. Accepts(rows)' <=> Accepts(rows)
  BY DEF Accepts, HoldoutAccepts, Completed, Interacts, Common, Categories
<1> QED BY <1>1 DEF ReportInv

LEMMA StartKeeps ==
  ASSUME Inv, Start
  PROVE  Inv'
<1>1. disk' = <<>> /\ pc' = "core" /\ evidence' = [b \in Backends |-> {}]
  BY StepNames DEF Start, Cleared
<1>2. UNCHANGED <<runner, case, rows, report, paper>>
  BY DEF Start
<1> QED BY <1>1, <1>2, EmptyDirectory, RowsSame, ReportSame DEF Inv

LEMMA CollectKeeps ==
  ASSUME Inv, Collect
  PROVE  Inv'
<1>1. /\ disk' = <<>> /\ pc' = "idle" /\ evidence' = [b \in Backends |-> {}]
      /\ case <= Cases /\ pc \in {"exit", "dead"} /\ UNCHANGED <<runner, paper>>
  BY DEF Collect
<1>2. DriverInv'
  BY <1>1, EmptyDirectory
<1>3. PICK S : rows \in Seq(S)
  BY DEF Inv, RowsInv
<1>4. case = Len(rows) + 1 /\ Len(rows) \in Nat
  BY <1>3 DEF Inv, RowsInv
<1>5. report \notin {"accepted", "rejected"} /\ paper # "printed"
  BY <1>1, <1>4, CasesAssumption DEF Inv, ReportInv
<1>6. CASE ReadFails
  <2>1. UNCHANGED <<case, rows>> /\ report' = "aborted"
    BY <1>6 DEF Collect
  <2>2. RowsInv'
    BY <1>1, <2>1, RowsSame DEF Inv
  <2>3. ReportInv'
    BY <1>1, <1>5, <2>1 DEF ReportInv
  <2> QED BY <1>2, <2>2, <2>3 DEF Inv
<1>7. CASE ~ReadFails
  <2>1. rows' = Append(rows, NewRow) /\ case' = case + 1 /\ report' = report
    BY <1>7 DEF Collect
  <2>2. RowInv(NewRow)
    BY <1>1, <1>7, NewRowHolds DEF Inv, RowsInv
  <2> DEFINE T == S \cup {NewRow}
             r == NewRow
  <2>3. rows \in Seq(T)
    BY <1>3
  <2>4. r \in T
    OBVIOUS
  <2> HIDE DEF T, r
  <2>5. /\ Append(rows, r) \in Seq(T)
        /\ Len(Append(rows, r)) = Len(rows) + 1
        /\ \A i \in 1..Len(rows) : Append(rows, r)[i] = rows[i]
        /\ Append(rows, r)[Len(rows) + 1] = r
    BY <2>3, <2>4, AppendProperties
  <2>6. \A i \in 1..(Len(rows) + 1) : RowInv(Append(rows, r)[i])
    <3>1. \A i \in 1..Len(rows) : RowInv(rows[i])
      BY <1>3 DEF Inv, RowsInv
    <3>2. RowInv(r)
      BY <2>2 DEF r
    <3> QED BY <1>4, <2>5, <3>1, <3>2
  <2>7. \A row : RowInv(row)' <=> RowInv(row)
    BY <1>1 DEF RowInv
  <2>8. RowsInv'
    <3>1. rows' \in Seq(T) /\ Len(rows') = Len(rows) + 1 /\ DOMAIN rows' = 1..(Len(rows) + 1)
      BY <2>1, <2>5 DEF r
    <3>2. \A i \in DOMAIN rows' : RowInv(rows'[i])
      BY <2>1, <2>6, <3>1 DEF r
    <3> QED BY <1>1, <1>4, <2>1, <3>1, <3>2 DEF Inv, RowsInv, RowInv
  <2>9. ReportInv'
    BY <1>1, <1>5, <2>1 DEF ReportInv
  <2> QED BY <1>2, <2>8, <2>9 DEF Inv
<1> QED BY <1>6, <1>7

LEMMA FinishKeeps ==
  ASSUME Inv, Finish
  PROVE  Inv'
<1>1. UNCHANGED <<driver, world, pc, evidence, disk, runner, case, rows, paper>>
  BY DEF Finish, driverVars
<1>2. report = "none" /\ case > Cases /\ report' = IF Accepts(rows) THEN "accepted" ELSE "rejected"
  BY DEF Finish
<1>3. DriverInv'
  BY <1>1 DEF Inv, DriverInv, EvidenceInv, LogInv, FileInv, Evidenced, Written, Full, Flags,
     Analysis
<1>4. RowsInv'
  BY <1>1, RowsSame DEF Inv
<1>5. Accepts(rows)' <=> Accepts(rows)
  BY <1>1 DEF Accepts, HoldoutAccepts, Completed, Interacts, Common, Categories
<1>6. ReportInv'
  BY <1>1, <1>2, <1>5 DEF Inv, ReportInv
<1> QED BY <1>3, <1>4, <1>6 DEF Inv

LEMMA MakePaperKeeps ==
  ASSUME Inv, MakePaper
  PROVE  Inv'
<1>1. UNCHANGED <<driver, world, pc, evidence, disk, runner, case, rows, report>>
  BY DEF MakePaper, driverVars
<1>2. DriverInv'
  BY <1>1 DEF Inv, DriverInv, EvidenceInv, LogInv, FileInv, Evidenced, Written, Full, Flags,
     Analysis
<1>3. RowsInv'
  BY <1>1, RowsSame DEF Inv
<1>4. Accepts(rows)' <=> Accepts(rows)
  BY <1>1 DEF Accepts, HoldoutAccepts, Completed, Interacts, Common, Categories
<1>5. ReportInv'
  BY <1>1, <1>4 DEF Inv, ReportInv, MakePaper
<1> QED BY <1>2, <1>3, <1>5 DEF Inv

LEMMA InvKept ==
  ASSUME Inv, [Next]_vars
  PROVE  Inv'
<1>1. CASE Work
  BY <1>1, DriverStepKeeps, RowsSame, ReportSame DEF Work, Inv
<1>2. CASE UNCHANGED vars
  <2>1. UNCHANGED <<driver, world, pc, evidence, disk, runner, case, rows, report, paper>>
    BY <1>2 DEF vars, driverVars
  <2>2. DriverInv'
    BY <2>1 DEF Inv, DriverInv, EvidenceInv, LogInv, FileInv, Evidenced, Written, Full, Flags,
       Analysis
  <2> QED BY <2>1, <2>2, RowsSame, ReportSame DEF Inv
<1> QED BY <1>1, <1>2, StartKeeps, CollectKeeps, FinishKeeps, MakePaperKeeps DEF Next
-----------------------------------------------------------------------------
LEMMA Printed ==
  ASSUME Inv
  PROVE  PrintedIsTrue
BY DEF Inv, RowsInv, RowInv, ReportInv, PrintedIsTrue

LEMMA Accepted ==
  ASSUME Inv
  PROVE  AcceptedIsTrue
<1> SUFFICES ASSUME report = "accepted"
             PROVE  /\ \A i \in DOMAIN rows : rows[i].ready \subseteq rows[i].builds
                    /\ runner # "holdout" =>
                         \A i \in DOMAIN rows : rows[i].compile = rows[i].builds
                    /\ runner = "multisource" => \A i \in DOMAIN rows : rows[i].builds = Backends
                    /\ runner = "holdout" => rows[2].builds = Backends
  BY DEF AcceptedIsTrue
<1>1. Accepts(rows) /\ runner \in Runners /\ \A i \in DOMAIN rows : RowInv(rows[i])
  BY DEF Inv, RowsInv, ReportInv
<1>2. \A i \in DOMAIN rows : rows[i].ready \subseteq rows[i].builds
  BY <1>1 DEF RowInv
<1>3. CASE runner = "matrix"
  BY <1>1, <1>2, <1>3 DEF Accepts, RowInv
<1>4. CASE runner = "multisource"
  BY <1>1, <1>2, <1>4 DEF Accepts, RowInv
<1>5. CASE runner = "zero_shot"
  <2>1. \A i \in DOMAIN rows : rows[i].found /\ rows[i].scored
    BY <1>1, <1>5 DEF Accepts, Completed
  <2> QED BY <1>1, <1>2, <1>5, <2>1 DEF RowInv
<1>6. CASE runner = "holdout"
  <2>1. HoldoutAccepts(rows[1], rows[2])
    BY <1>1, <1>6 DEF Accepts
  <2>2. PICK S : rows \in Seq(S)
    BY DEF Inv, RowsInv
  <2>3. Len(rows) >= 2
    BY <2>2, CasesAssumption DEF Inv, RowsInv, ReportInv
  <2>4. RowInv(rows[2])
    BY <1>1, <2>2, <2>3
  <2> QED BY <1>2, <1>6, <2>1, <2>4 DEF HoldoutAccepts, RowInv
<1> QED BY <1>1, <1>3, <1>4, <1>5, <1>6 DEF Runners

\* Every backend was given the same verdicts on its contracts.
LEMMA SameContracts ==
  ASSUME NEW b \in Backends, NEW o \in Oracles
  PROVE  o \in Full(b) <=> o \in Contracts(driver, world)
<1>1. o \notin Flags(b)
  BY DEF Oracles, Flags, Backends, Judged, Traced, HostJudged
<1>2. o \notin Marks(b, world) /\ o # "compiled"
  BY DEF Oracles, Marks
<1> QED BY <1>1, <1>2 DEF Full

LEMMA GateOpen ==
  ASSUME NEW f, NEW g, NEW b \in Ready(f, g)
  PROVE  /\ b \in Backends /\ RisReady(f) /\ SourceReady(f, g[b]) /\ Clean(g[b])
         /\ b # "linux" => SubsystemReady(f, g[b]) /\ ~ConservativeLoop(f)
         /\ b = "harness" => "trace" \in g[b]
BY DEF Ready, HarnessReady, BaremetalReady, LinuxReady, SubsystemReady, Backends

\* What the gates ask of the RIS raises no blocker.
LEMMA NoStaticBlocker ==
  ASSUME NEW f, RisReady(f), NEW c \in StaticBlockers(f)
  PROVE  c \in {"clang_diagnostics", "conservative_loop", "missing_role", "callback_binding"}
<1>1. f.access = {} /\ f.paths = {}
  BY DEF RisReady, AccountingReady, PathReady
<1>2. ~(Unsafe(f) > 0) /\ ~(UnknownValues(f) > 0)
  BY DEF RisReady
<1>3. c \in {"source_access_unaccounted", "ris_evidence_missing", "source_access_filtered",
             "unsupported_access", "path_unvalidated", "path_infeasible", "switch_exclusivity",
             "unsupported_control_flow", "subsystem_summary", "unsafe_dynamic_address",
             "unknown_value", "clang_diagnostics", "conservative_loop", "missing_role",
             "callback_binding", "no_register_access"}
  BY DEF StaticBlockers, Raised
<1>4. /\ "source_access_unaccounted" \notin StaticBlockers(f)
      /\ "ris_evidence_missing" \notin StaticBlockers(f)
      /\ "source_access_filtered" \notin StaticBlockers(f)
  BY <1>1 DEF StaticBlockers, Raised
<1>5. "unsupported_access" \notin StaticBlockers(f)
  BY <1>1 DEF StaticBlockers, Raised, RisReady
<1>6. /\ "path_unvalidated" \notin StaticBlockers(f)
      /\ "path_infeasible" \notin StaticBlockers(f)
      /\ "switch_exclusivity" \notin StaticBlockers(f)
  BY <1>1 DEF StaticBlockers, Raised
<1>7. /\ "unsupported_control_flow" \notin StaticBlockers(f)
      /\ "subsystem_summary" \notin StaticBlockers(f)
      /\ "no_register_access" \notin StaticBlockers(f)
  BY DEF StaticBlockers, Raised, RisReady
<1>8. /\ "unsafe_dynamic_address" \notin StaticBlockers(f)
      /\ "unknown_value" \notin StaticBlockers(f)
  BY <1>2 DEF StaticBlockers, Raised
<1> QED BY <1>3, <1>4, <1>5, <1>6, <1>7, <1>8

\* An oracle that one backend has to pass and passes is passed by all.
LEMMA NoneLacking ==
  ASSUME Evidenced, NEW b \in Backends, SourceReady(driver, evidence[b]), NEW o \in Oracles
  PROVE  ~Lacking(driver, evidence, o)
<1>1. \A d \in Backends : evidence[d] = Full(d)
  BY DEF Evidenced
<1>2. \A d \in Backends : o \in evidence[d] <=> o \in Contracts(driver, world)
  BY <1>1, SameContracts
<1>3. o \in Required(driver) => o \in evidence[b]
  BY DEF SourceReady
<1> QED BY <1>2, <1>3 DEF Lacking

LEMMA NoEvidenceBlocker ==
  ASSUME Evidenced, NEW b \in Backends, SourceReady(driver, evidence[b]),
         NEW c \in EvidenceBlockers(driver, evidence)
  PROVE  c \in {"linux_semantic_binding", "w1c_oracle", "subsystem_validation"}
<1>1. c \in {"linux_semantic_binding", "gpio_oracle", "sdhci_oracle", "virtio_oracle",
             "w1c_oracle", "subsystem_validation"}
  BY DEF EvidenceBlockers, Raised
<1>2. /\ ~Lacking(driver, evidence, "gpio") /\ ~Lacking(driver, evidence, "sdhci")
      /\ ~Lacking(driver, evidence, "virtio")
  BY NoneLacking DEF Oracles
<1>3. /\ "gpio_oracle" \notin EvidenceBlockers(driver, evidence)
      /\ "sdhci_oracle" \notin EvidenceBlockers(driver, evidence)
      /\ "virtio_oracle" \notin EvidenceBlockers(driver, evidence)
  BY <1>2 DEF EvidenceBlockers, Raised
<1> QED BY <1>1, <1>3

\* Flags a program printed are in the evidence only if it was judged well.
LEMMA HarnessChecked ==
  ASSUME SubsystemReady(driver, Full("harness"))
  PROVE  Judged("harness", driver, world) = {"callbacks", "drain"}
<1>1. "callbacks" \in Full("harness") => "callbacks" \in Judged("harness", driver, world)
  BY DEF Full, Flags, Contracts, Oracles, Marks, Traced
<1>2. "drain" \in Full("harness") => "drain" \in Judged("harness", driver, world)
  BY DEF Full, Flags, Contracts, Oracles, Marks, Traced
<1>3. Judged("harness", driver, world) \subseteq {"callbacks", "drain"}
  BY DEF Judged
<1>4. ~driver.synthesized => "callbacks" \in Judged("harness", driver, world)
  BY DEF Judged
<1>5. "w1c" \notin Required(driver) => "drain" \in Judged("harness", driver, world)
  BY DEF Judged
<1> QED BY <1>1, <1>2, <1>3, <1>4, <1>5 DEF SubsystemReady

LEMMA HostChecked ==
  ASSUME SubsystemReady(driver, Full("baremetal")), Planned(driver), "baremetal" \in Builds(world)
  PROVE  Judged("host", driver, world) = {"callbacks", "drain"}
<1>1. <<"baremetal", "build">> \notin world
  BY DEF Builds
<1>2. HostJudged(driver, world) = IF <<"host", "build">> \in world THEN {}
                                  ELSE Judged("host", driver, world)
  BY <1>1 DEF HostJudged
<1>3. "callbacks" \in Full("baremetal") => "callbacks" \in HostJudged(driver, world)
  BY DEF Full, Flags, Contracts, Oracles, Marks
<1>4. "drain" \in Full("baremetal") => "drain" \in HostJudged(driver, world)
  BY DEF Full, Flags, Contracts, Oracles, Marks
<1>5. Judged("host", driver, world) \subseteq {"callbacks", "drain"}
  BY DEF Judged
<1>6. ~driver.synthesized => "callbacks" \in Judged("host", driver, world)
  BY DEF Judged
<1>7. "w1c" \notin Required(driver) => "drain" \in Judged("host", driver, world)
  BY DEF Judged
<1> QED BY <1>2, <1>3, <1>4, <1>5, <1>6, <1>7 DEF SubsystemReady, Planned

LEMMA Checked ==
  ASSUME DriverInv
  PROVE  ReadyMeansChecked
<1> SUFFICES ASSUME Written("score"), NEW b \in disk["score"].ready
             PROVE  /\ b \in Builds(world)
                    /\ disk["score"].blockers
                         \subseteq Excused \cup {c \in {"conservative_loop"} : b = "linux"}
                    /\ b = "harness" => "trace" \in Traced(world)
                    /\ b = "harness" => Judged("harness", driver, world) = {"callbacks", "drain"}
                    /\ b = "baremetal" /\ Planned(driver) =>
                         Judged("host", driver, world) = {"callbacks", "drain"}
  BY DEF ReadyMeansChecked
<1>1. Evidenced /\ disk["score"] = Scores(driver, evidence)
  BY DEF DriverInv, FileInv, Written
<1>2. b \in Ready(driver, evidence) /\ disk["score"].blockers = Blockers(driver, evidence)
  BY <1>1 DEF Scores
<1>3. /\ b \in Backends /\ RisReady(driver) /\ SourceReady(driver, evidence[b])
      /\ b # "linux" => SubsystemReady(driver, evidence[b]) /\ ~ConservativeLoop(driver)
      /\ b = "harness" => "trace" \in evidence[b]
  BY <1>2, GateOpen
<1>4. evidence[b] = Full(b)
  BY <1>1, <1>3 DEF Evidenced
<1>5. b \in Builds(world)
  BY ReadyBuilds
<1>6. ASSUME NEW c \in Blockers(driver, evidence)
      PROVE  c \in Excused \cup {d \in {"conservative_loop"} : b = "linux"}
  <2>1. CASE c \in EvidenceBlockers(driver, evidence)
    BY <1>1, <1>3, <2>1, NoEvidenceBlocker DEF Excused
  <2>2. CASE c \in StaticBlockers(driver)
    <3>1. c \in {"clang_diagnostics", "conservative_loop", "missing_role", "callback_binding"}
      BY <1>3, <2>2, NoStaticBlocker
    <3>2. ~ConservativeLoop(driver) => "conservative_loop" \notin StaticBlockers(driver)
      BY DEF StaticBlockers, Raised
    <3> QED BY <1>3, <2>2, <3>1, <3>2 DEF Excused
  <2> QED BY <2>1, <2>2 DEF Blockers
<1>7. b = "harness" => "trace" \in Traced(world)
  BY <1>3, <1>4 DEF Full, Flags, Contracts, Oracles, Marks, Judged
<1>8. b = "harness" => Judged("harness", driver, world) = {"callbacks", "drain"}
  BY <1>3, <1>4, HarnessChecked
<1>9. b = "baremetal" /\ Planned(driver) =>
        Judged("host", driver, world) = {"callbacks", "drain"}
  BY <1>3, <1>4, <1>5, HostChecked
<1> QED BY <1>2, <1>5, <1>6, <1>7, <1>8, <1>9
-----------------------------------------------------------------------------
\* For every driver and every set of faults: a backend that score.txt calls
\* ready was compiled, run and checked, and no blocker beside it says otherwise.
THEOREM ReadyIsChecked == Spec => []ReadyMeansChecked
<1>1. Init => Inv
  BY InvInit
<1>2. Inv /\ [Next]_vars => Inv'
  BY InvKept
<1>3. Inv => ReadyMeansChecked
  BY Checked DEF Inv
<1> QED BY <1>1, <1>2, <1>3, PTL DEF Spec

\* However many cases there are, whatever died: the compile columns that the
\* paper prints are what the compilers said.
THEOREM PaperIsTrue == Spec => []PrintedIsTrue
<1>1. Init => Inv
  BY InvInit
<1>2. Inv /\ [Next]_vars => Inv'
  BY InvKept
<1>3. Inv => PrintedIsTrue
  BY Printed
<1> QED BY <1>1, <1>2, <1>3, PTL DEF Spec

\* The same of a report that its runner accepted, with two cases or more.
THEOREM AcceptanceIsTrue == Spec => []AcceptedIsTrue
<1>1. Init => Inv
  BY InvInit
<1>2. Inv /\ [Next]_vars => Inv'
  BY InvKept
<1>3. Inv => AcceptedIsTrue
  BY Accepted
<1> QED BY <1>1, <1>2, <1>3, PTL DEF Spec
-----------------------------------------------------------------------------
(* How operations are carried out, one after another: whatever was         *)
(* returned stays.                                                         *)

Carried(ops, ms) ==
  /\ \A k \in 1 .. Len(ops) : ms[k] = Step(ops[k], ms[k - 1], Oracle)
  /\ \A j, k \in 0 .. Len(ops) : j <= k /\ ms[j].returned => ms[k] = ms[j]

\* Carrying ops out in mm leads to t.
Does(ops, mm, t) ==
  /\ \E S : ops \in Seq(S)
  /\ \E ms : Carried(ops, ms) /\ ms[0] = mm /\ ms[Len(ops)] = t

LEMMA DoesNone == ASSUME NEW mm PROVE Does(<<>>, mm, mm)
<1> DEFINE ms == [k \in {0} |-> mm]
<1>1. <<>> \in Seq({}) /\ Len(<<>>) = 0
  OBVIOUS
<1>2. Carried(<<>>, ms) /\ ms[0] = mm /\ ms[Len(<<>>)] = mm
  BY <1>1 DEF Carried
<1> QED BY <1>1, <1>2 DEF Does

LEMMA DoesOne == ASSUME NEW op, NEW mm PROVE Does(<<op>>, mm, Step(op, mm, Oracle))
<1> DEFINE t  == Step(op, mm, Oracle)
           ms == [k \in {0, 1} |-> IF k = 0 THEN mm ELSE t]
<1>1. <<op>> \in Seq({op}) /\ Len(<<op>>) = 1 /\ <<op>>[1] = op
  OBVIOUS
<1>2. mm.returned => t = mm
  BY DEF Step
<1>3. t = Step(op, mm, Oracle)
  OBVIOUS
<1> HIDE DEF t
<1>4. Carried(<<op>>, ms)
  BY <1>1, <1>2, <1>3 DEF Carried
<1>5. ms[0] = mm /\ ms[Len(<<op>>)] = t
  BY <1>1
<1> HIDE DEF ms
<1> QED BY <1>1, <1>3, <1>4, <1>5 DEF Does

LEMMA DoesThen ==
  ASSUME NEW a, NEW b, NEW mm, NEW s, NEW t, Does(a, mm, s), Does(b, s, t)
  PROVE  Does(a \o b, mm, t)
<1>1. PICK S1 : a \in Seq(S1)
  BY DEF Does
<1>2. PICK S2 : b \in Seq(S2)
  BY DEF Does
<1> DEFINE S == S1 \cup S2
<1>3. a \in Seq(S) /\ b \in Seq(S)
  BY <1>1, <1>2, SeqMonotonic
<1> HIDE DEF S
<1>4. PICK ma : Carried(a, ma) /\ ma[0] = mm /\ ma[Len(a)] = s
  BY DEF Does
<1>5. PICK mb : Carried(b, mb) /\ mb[0] = s /\ mb[Len(b)] = t
  BY DEF Does
<1> DEFINE n  == Len(a)
           l  == Len(b)
           c  == a \o b
           ms == [k \in 0 .. n + l |-> IF k <= n THEN ma[k] ELSE mb[k - n]]
<1>6. /\ n \in Nat /\ l \in Nat /\ c \in Seq(S) /\ Len(c) = n + l
      /\ \A k \in 1 .. n + l : c[k] = IF k <= n THEN a[k] ELSE b[k - n]
  BY <1>3, LenProperties, ConcatProperties
<1>7. /\ \A k \in 1 .. n : ma[k] = Step(a[k], ma[k - 1], Oracle)
      /\ \A j, k \in 0 .. n : j <= k /\ ma[j].returned => ma[k] = ma[j]
      /\ ma[0] = mm /\ ma[n] = s
  BY <1>4 DEF Carried
<1>8. /\ \A k \in 1 .. l : mb[k] = Step(b[k], mb[k - 1], Oracle)
      /\ \A j, k \in 0 .. l : j <= k /\ mb[j].returned => mb[k] = mb[j]
      /\ mb[0] = s /\ mb[l] = t
  BY <1>5 DEF Carried
<1> HIDE DEF n, l, c
<1>9. \A k \in 0 .. n + l : /\ k <= n => ms[k] = ma[k]
                            /\ k >= n => k - n \in 0 .. l /\ ms[k] = mb[k - n]
  BY <1>6, <1>7, <1>8
<1>10. ms[0] = mm /\ ms[n + l] = t
  <2>1. /\ 0 \in 0 .. n + l /\ 0 <= n
        /\ n + l \in 0 .. n + l /\ n + l >= n /\ (n + l) - n = l
    BY <1>6
  <2> HIDE DEF ms
  <2> QED BY <1>7, <1>8, <1>9, <2>1
<1> HIDE DEF ms
<1>11. ASSUME NEW k \in 1 .. n + l PROVE ms[k] = Step(c[k], ms[k - 1], Oracle)
  <2>1. CASE k <= n
    <3>1. k \in 1 .. n /\ k - 1 \in 0 .. n + l /\ k - 1 <= n /\ k \in 0 .. n + l
      BY <1>6, <2>1
    <3> QED BY <1>6, <1>7, <1>9, <2>1, <3>1
  <2>2. CASE ~(k <= n)
    <3>1. k - n \in 1 .. l /\ k - 1 \in 0 .. n + l /\ k - 1 >= n /\ k \in 0 .. n + l /\ (k - 1) - n = (k - n) - 1
      BY <1>6, <2>2
    <3>2. ms[k] = mb[k - n] /\ ms[k - 1] = mb[(k - n) - 1] /\ c[k] = b[k - n]
      BY <1>6, <1>9, <2>2, <3>1
    <3> QED BY <1>8, <3>1, <3>2
  <2> QED BY <2>1, <2>2
<1>12. ASSUME NEW j \in 0 .. n + l, NEW k \in 0 .. n + l, j <= k, ms[j].returned PROVE ms[k] = ms[j]
  <2>1. CASE k <= n
    BY <1>6, <1>7, <1>9, <1>12, <2>1
  <2>2. CASE j >= n
    <3>1. j - n \in 0 .. l /\ k - n \in 0 .. l /\ j - n <= k - n /\ ms[j] = mb[j - n] /\ ms[k] = mb[k - n]
      BY <1>6, <1>9, <1>12, <2>2
    <3> QED BY <1>8, <1>12, <3>1
  <2>3. CASE j < n /\ n < k
    <3>1. ms[j] = ma[j] /\ ms[k] = mb[k - n] /\ j \in 0 .. n /\ n \in 0 .. n /\ j <= n /\ k - n \in 0 .. l /\ 0 \in 0 .. l /\ 0 <= k - n
      BY <1>6, <1>9, <1>12, <2>3
    <3>2. s = ma[j]
      BY <1>7, <1>12, <3>1
    <3>3. mb[k - n] = mb[0]
      BY <1>8, <1>12, <3>1, <3>2
    <3> QED BY <1>8, <3>1, <3>2, <3>3
  <2> QED BY <1>6, <2>1, <2>2, <2>3
<1>13. Carried(c, ms)
  BY <1>6, <1>11, <1>12 DEF Carried
<1>14. Does(c, mm, t)
  BY <1>6, <1>10, <1>13 DEF Does
<1> QED BY <1>14 DEF c

LEMMA DoesTail ==
  ASSUME NEW ops, NEW mm, NEW t, Does(ops, mm, t), ops # <<>>
  PROVE  Does(Tail(ops), Step(Head(ops), mm, Oracle), t)
<1>1. PICK S : ops \in Seq(S)
  BY DEF Does
<1>2. PICK ma : Carried(ops, ma) /\ ma[0] = mm /\ ma[Len(ops)] = t
  BY DEF Does
<1> DEFINE n  == Len(ops) - 1
           ms == [k \in 0 .. n |-> ma[k + 1]]
<1>3. /\ n \in Nat /\ Len(ops) = n + 1 /\ Tail(ops) \in Seq(S) /\ Len(Tail(ops)) = n /\ Head(ops) = ops[1]
      /\ \A k \in 1 .. n : Tail(ops)[k] = ops[k + 1]
  BY <1>1
<1> HIDE DEF n
<1>4. /\ \A k \in 1 .. n + 1 : ma[k] = Step(ops[k], ma[k - 1], Oracle)
      /\ \A j, k \in 0 .. n + 1 : j <= k /\ ma[j].returned => ma[k] = ma[j]
  BY <1>2, <1>3 DEF Carried
<1>5. ms[0] = Step(Head(ops), mm, Oracle) /\ ms[n] = t
  BY <1>2, <1>3, <1>4
<1>6. ASSUME NEW k \in 1 .. n PROVE ms[k] = Step(Tail(ops)[k], ms[k - 1], Oracle)
  <2>1. k + 1 \in 1 .. n + 1 /\ (k + 1) - 1 = (k - 1) + 1 /\ k - 1 \in 0 .. n /\ k \in 0 .. n
    BY <1>3
  <2> QED BY <1>3, <1>4, <2>1
<1>7. ASSUME NEW j \in 0 .. n, NEW k \in 0 .. n, j <= k, ms[j].returned PROVE ms[k] = ms[j]
  <2>1. j + 1 \in 0 .. n + 1 /\ k + 1 \in 0 .. n + 1 /\ j + 1 <= k + 1
    BY <1>3, <1>7
  <2> QED BY <1>4, <1>7, <2>1
<1> HIDE DEF ms
<1>8. Carried(Tail(ops), ms)
  BY <1>3, <1>6, <1>7 DEF Carried
<1> QED BY <1>3, <1>5, <1>8 DEF Does

\* Where there is nothing left to do, or nothing more is done.
LEMMA DoesEnd ==
  ASSUME NEW ops, NEW mm, NEW t, Does(ops, mm, t), ops = <<>> \/ mm.returned
  PROVE  t = mm
<1>1. PICK S : ops \in Seq(S)
  BY DEF Does
<1>2. PICK ma : Carried(ops, ma) /\ ma[0] = mm /\ ma[Len(ops)] = t
  BY DEF Does
<1>3. Len(ops) \in Nat /\ (ops = <<>> => Len(ops) = 0)
  BY <1>1
<1>4. CASE ops = <<>>
  BY <1>2, <1>3, <1>4
<1>5. CASE mm.returned
  BY <1>2, <1>3, <1>5 DEF Carried
<1> QED BY <1>4, <1>5
-----------------------------------------------------------------------------
(* The reference chip: its words stay words, and a register that can be    *)
(* read always holds what its shadow says.                                 *)

ChipAccess == {"W", "R"} \X Address \X SUBSET Width

ChipState == [regs  : [Address -> SUBSET Width], sdata : SUBSET Width,
          sdir  : SUBSET Width,              trace : Seq(ChipAccess)]

\* ShadowIsRegister of a state in the middle of a call.
DirOutShadowed(s, c) ==
  (Ref!Has(c, "dirout") /\ "UNREADABLE_DIR" \notin c.flags) => s.regs[Ref!Reg(c, "dirout")] = s.sdir

DirInShadowed(s, c) ==
  (Ref!Has(c, "dirin") /\ ~Ref!Has(c, "dirout") /\ "UNREADABLE_DIR" \notin c.flags) =>
    s.regs[Ref!Reg(c, "dirin")] = Width \ s.sdir

DataShadowed(s, c) ==
  (Ref!Has(c, "set") /\ ~Ref!Has(c, "clr") /\ "UNREADABLE_SET" \notin c.flags) =>
    s.regs[Ref!Reg(c, "set")] = s.sdata

Shadowed(s, c) == DirOutShadowed(s, c) /\ DirInShadowed(s, c) /\ DataShadowed(s, c)

\* Put() changes one register and no shadow word.
OneWritten(t, s, c, f, value) ==
  /\ t \in ChipState
  /\ t.sdata = s.sdata /\ t.sdir = s.sdir
  /\ \A x \in Address : t.regs[x] = IF x = c.at[f] THEN value \cap Width ELSE s.regs[x]

LEMMA PutOne ==
  ASSUME NEW c \in Chips, Ref!ChipsOK, NEW s \in ChipState, NEW f \in DOMAIN c.at, NEW value
  PROVE  OneWritten(Ref!Put(s, c, f, value), s, c, f, value)
<1> DEFINE r == [s.regs EXCEPT ![c.at[f]] = value \cap Width]
           t == Append(s.trace, <<"W", c.at[f], value \cap Width>>)
<1>1. <<"W", c.at[f], value \cap Width>> \in ChipAccess
  BY DEF ChipAccess, Ref!ChipsOK
<1>2. t \in Seq(ChipAccess)
  BY <1>1 DEF ChipState
<1>3. r \in [Address -> SUBSET Width]
  BY DEF ChipState, Ref!ChipsOK
<1>4. Ref!Put(s, c, f, value) = [s EXCEPT !.regs = r, !.trace = t]
  BY DEF Ref!Put, Ref!Reg, ChipState
<1> HIDE DEF r, t
<1>5. [s EXCEPT !.regs = r, !.trace = t] \in ChipState
  BY <1>2, <1>3 DEF ChipState
<1>6. /\ [s EXCEPT !.regs = r, !.trace = t].regs = r
      /\ [s EXCEPT !.regs = r, !.trace = t].sdata = s.sdata
      /\ [s EXCEPT !.regs = r, !.trace = t].sdir = s.sdir
  BY DEF ChipState
<1>7. \A x \in Address : r[x] = IF x = c.at[f] THEN value \cap Width ELSE s.regs[x]
  BY DEF r, ChipState
<1> QED
  BY <1>4, <1>5, <1>6, <1>7 DEF OneWritten

\* Registers of different fields are different, but for the data register
\* that is read where another is written.
LEMMA Apart ==
  ASSUME NEW c \in Chips, Ref!ChipsOK, NEW f \in DOMAIN c.at, NEW g \in DOMAIN c.at, f # g,
         f \notin {"dat", "set"} \/ g \notin {"dat", "set"}
  PROVE  c.at[f] # c.at[g]
BY DEF Ref!ChipsOK

\* Writing a shadow word and the register it belongs to, for the data word.
LEMMA SetData ==
  ASSUME NEW c \in Chips, Ref!ChipsOK, NEW s \in ChipState, Shadowed(s, c), ~Ref!Paired(c),
         NEW next \in SUBSET Width
  PROVE  /\ Ref!Put([s EXCEPT !.sdata = next], c, Ref!OutField(c), next) \in ChipState
         /\ Shadowed(Ref!Put([s EXCEPT !.sdata = next], c, Ref!OutField(c), next), c)
<1> DEFINE s0 == [s EXCEPT !.sdata = next]
           s1 == Ref!Put(s0, c, Ref!OutField(c), next)
<1>1. s0 \in ChipState /\ s0.regs = s.regs /\ s0.sdir = s.sdir /\ s0.sdata = next
  BY DEF ChipState
<1>2. Ref!OutField(c) \in DOMAIN c.at /\ Ref!OutField(c) \in {"dat", "set"}
  BY DEF Ref!OutField, Ref!Has, Ref!ChipsOK
<1>3. /\ s1 \in ChipState /\ s1.sdata = next /\ s1.sdir = s.sdir
      /\ \A x \in Address : s1.regs[x] = IF x = c.at[Ref!OutField(c)] THEN next ELSE s.regs[x]
  <2>1. next \cap Width = next
    OBVIOUS
  <2> HIDE DEF s0
  <2>2. OneWritten(s1, s0, c, Ref!OutField(c), next)
    BY <1>1, <1>2, PutOne
  <2> HIDE DEF s1
  <2> QED BY <1>1, <2>1, <2>2 DEF OneWritten
<1> HIDE DEF s1, s0
<1>4. ASSUME NEW f \in DOMAIN c.at, f \in {"dirin", "dirout"}
      PROVE  s1.regs[c.at[f]] = s.regs[c.at[f]]
  <2>1. c.at[f] # c.at[Ref!OutField(c)]
    BY <1>2, <1>4, Apart
  <2>2. c.at[f] \in Address
    BY DEF Ref!ChipsOK
  <2> QED BY <1>3, <2>1, <2>2 DEF ChipState
<1>5. DirOutShadowed(s1, c) /\ DirInShadowed(s1, c)
  BY <1>3, <1>4 DEF Shadowed, DirOutShadowed, DirInShadowed, Ref!Has, Ref!Reg
<1>6. DataShadowed(s1, c)
  <2> SUFFICES ASSUME Ref!Has(c, "set")
               PROVE  s1.regs[Ref!Reg(c, "set")] = s1.sdata
    BY DEF DataShadowed
  <2>1. Ref!OutField(c) = "set" /\ c.at["set"] \in Address
    BY <1>2 DEF Ref!OutField, Ref!Has, Ref!ChipsOK
  <2> QED BY <1>3, <2>1 DEF Ref!Reg, ChipState
<1> QED
  BY <1>3, <1>5, <1>6 DEF s1, s0, Shadowed

\* A paired chip writes its set and clear registers, which nothing shadows.
LEMMA PutPaired ==
  ASSUME NEW c \in Chips, Ref!ChipsOK, NEW s \in ChipState, Shadowed(s, c), Ref!Paired(c),
         NEW f \in {"set", "clr"}, NEW value
  PROVE  Ref!Put(s, c, f, value) \in ChipState /\ Shadowed(Ref!Put(s, c, f, value), c)
<1> DEFINE s1 == Ref!Put(s, c, f, value)
<1>1. f \in DOMAIN c.at
  BY DEF Ref!Paired, Ref!Has
<1>2. OneWritten(s1, s, c, f, value)
  BY <1>1, PutOne
<1> HIDE DEF s1
<1>3. ASSUME NEW g \in DOMAIN c.at, g \in {"dirin", "dirout"}
      PROVE  s1.regs[c.at[g]] = s.regs[c.at[g]]
  <2>1. c.at[g] # c.at[f]
    BY <1>1, <1>3, Apart
  <2>2. c.at[g] \in Address
    BY DEF Ref!ChipsOK
  <2> QED BY <1>2, <2>1, <2>2 DEF ChipState, OneWritten
<1>4. DirOutShadowed(s1, c) /\ DirInShadowed(s1, c)
  BY <1>2, <1>3 DEF OneWritten, Shadowed, DirOutShadowed, DirInShadowed, Ref!Has, Ref!Reg
<1>5. DataShadowed(s1, c)
  BY DEF DataShadowed, Ref!Paired
<1> QED
  BY <1>2, <1>4, <1>5 DEF s1, Shadowed, OneWritten

LEMMA SetValueKeeps ==
  ASSUME NEW c \in Chips, Ref!ChipsOK, NEW s \in ChipState, Shadowed(s, c), NEW a
  PROVE  Ref!SetValue(s, c, a) \in ChipState /\ Shadowed(Ref!SetValue(s, c, a), c)
<1> DEFINE next == (IF a.value THEN s.sdata \cup {a.offset} ELSE s.sdata \ {a.offset}) \cap Width
<1>1. CASE Ref!Paired(c)
  <2> DEFINE f == IF a.value THEN "set" ELSE "clr"
  <2>1. Ref!SetValue(s, c, a) = Ref!Put(s, c, f, {a.offset})
    BY <1>1 DEF Ref!SetValue
  <2> QED BY <1>1, <2>1, PutPaired
<1>2. CASE ~Ref!Paired(c)
  <2>1. Ref!SetValue(s, c, a) = Ref!Put([s EXCEPT !.sdata = next], c, Ref!OutField(c), next)
    BY <1>2 DEF Ref!SetValue
  <2>2. next \in SUBSET Width
    OBVIOUS
  <2> HIDE DEF next
  <2> QED BY <1>2, <2>1, <2>2, SetData
<1> QED BY <1>1, <1>2

LEMMA SetMultipleKeeps ==
  ASSUME NEW c \in Chips, Ref!ChipsOK, NEW s \in ChipState, Shadowed(s, c), NEW a
  PROVE  Ref!SetMultiple(s, c, a) \in ChipState /\ Shadowed(Ref!SetMultiple(s, c, a), c)
<1> DEFINE next == ((s.sdata \ a.mask) \cup (a.bits \cap a.mask)) \cap Width
           on   == a.bits \cap a.mask
           off  == a.mask \ a.bits
           s1   == IF on = {} THEN s ELSE Ref!Put(s, c, "set", on)
<1>1. CASE Ref!Paired(c)
  <2>1. Ref!SetMultiple(s, c, a) = IF off = {} THEN s1 ELSE Ref!Put(s1, c, "clr", off)
    BY <1>1 DEF Ref!SetMultiple
  <2>2. s1 \in ChipState /\ Shadowed(s1, c)
    BY <1>1, PutPaired
  <2> HIDE DEF s1
  <2>3. Ref!Put(s1, c, "clr", off) \in ChipState /\ Shadowed(Ref!Put(s1, c, "clr", off), c)
    BY <1>1, <2>2, PutPaired
  <2> QED BY <2>1, <2>2, <2>3
<1>2. CASE ~Ref!Paired(c)
  <2>1. Ref!SetMultiple(s, c, a) = Ref!Put([s EXCEPT !.sdata = next], c, Ref!OutField(c), next)
    BY <1>2 DEF Ref!SetMultiple
  <2>2. next \in SUBSET Width
    OBVIOUS
  <2> HIDE DEF next
  <2> QED BY <1>2, <2>1, <2>2, SetData
<1> QED BY <1>1, <1>2

\* set_direction() writes the shadow to both direction registers there may be.
LEMMA SetDirectionKeeps ==
  ASSUME NEW c \in Chips, Ref!ChipsOK, NEW s \in ChipState, Shadowed(s, c), NEW a, NEW output
  PROVE  Ref!SetDirection(s, c, a, output) \in ChipState /\ Shadowed(Ref!SetDirection(s, c, a, output), c)
<1> DEFINE next == (IF output THEN s.sdir \cup {a.offset} ELSE s.sdir \ {a.offset}) \cap Width
           s0   == [s EXCEPT !.sdir = next]
           s2   == IF Ref!Has(c, "dirin") THEN Ref!Put(s0, c, "dirin", Width \ next) ELSE s0
           s3   == IF Ref!Has(c, "dirout") THEN Ref!Put(s2, c, "dirout", next) ELSE s2
<1>1. Ref!SetDirection(s, c, a, output) = s3
  BY DEF Ref!SetDirection
<1>2. next \in SUBSET Width
  OBVIOUS
<1> HIDE DEF next
<1>3. s0 \in ChipState /\ s0.regs = s.regs /\ s0.sdata = s.sdata /\ s0.sdir = next
  BY <1>2 DEF ChipState
<1> HIDE DEF s0
<1>4. /\ s2 \in ChipState /\ s2.sdata = s.sdata /\ s2.sdir = next
      /\ \A x \in Address : s2.regs[x] = IF Ref!Has(c, "dirin") /\ x = c.at["dirin"]
                                        THEN Width \ next ELSE s.regs[x]
  <2>1. CASE Ref!Has(c, "dirin")
    <3>1. OneWritten(Ref!Put(s0, c, "dirin", Width \ next), s0, c, "dirin", Width \ next)
      BY <1>3, <2>1, PutOne DEF Ref!Has
    <3>2. (Width \ next) \cap Width = Width \ next
      OBVIOUS
    <3> QED BY <1>3, <2>1, <3>1, <3>2 DEF OneWritten
  <2>2. CASE ~Ref!Has(c, "dirin")
    BY <1>3, <2>2
  <2> QED BY <2>1, <2>2
<1> HIDE DEF s2
<1>5. /\ s3 \in ChipState /\ s3.sdata = s.sdata /\ s3.sdir = next
      /\ \A x \in Address : s3.regs[x] = IF Ref!Has(c, "dirout") /\ x = c.at["dirout"]
                                        THEN next ELSE s2.regs[x]
  <2>1. CASE Ref!Has(c, "dirout")
    <3>1. OneWritten(Ref!Put(s2, c, "dirout", next), s2, c, "dirout", next)
      BY <1>4, <2>1, PutOne DEF Ref!Has
    <3>2. next \cap Width = next
      BY <1>2
    <3> QED BY <1>4, <2>1, <3>1, <3>2 DEF OneWritten
  <2>2. CASE ~Ref!Has(c, "dirout")
    BY <1>4, <2>2
  <2> QED BY <2>1, <2>2
<1> HIDE DEF s3
<1>6. \A f \in DOMAIN c.at : c.at[f] \in Address
  BY DEF Ref!ChipsOK
<1>7. DirOutShadowed(s3, c) /\ DirInShadowed(s3, c)
  BY <1>4, <1>5, <1>6 DEF DirOutShadowed, DirInShadowed, Ref!Has, Ref!Reg
<1>8. DataShadowed(s3, c)
  <2> SUFFICES ASSUME Ref!Has(c, "set"), ~Ref!Has(c, "clr"), "UNREADABLE_SET" \notin c.flags
               PROVE  s3.regs[Ref!Reg(c, "set")] = s3.sdata
    BY DEF DataShadowed
  <2>1. s.regs[Ref!Reg(c, "set")] = s.sdata
    BY DEF Shadowed, DataShadowed
  <2>2. Ref!Has(c, "dirin") => c.at["set"] # c.at["dirin"]
    BY Apart DEF Ref!Has
  <2>3. Ref!Has(c, "dirout") => c.at["set"] # c.at["dirout"]
    BY Apart DEF Ref!Has
  <2>4. c.at["set"] \in Address
    BY <1>6 DEF Ref!Has
  <2> QED BY <1>4, <1>5, <2>1, <2>2, <2>3, <2>4 DEF Ref!Reg
<1> QED BY <1>1, <1>5, <1>7, <1>8 DEF Shadowed

LEMMA DirectionOutputKeeps ==
  ASSUME NEW c \in Chips, Ref!ChipsOK, NEW s \in ChipState, Shadowed(s, c), NEW a
  PROVE  Ref!DirectionOutput(s, c, a) \in ChipState /\ Shadowed(Ref!DirectionOutput(s, c, a), c)
<1>1. /\ Ref!SetDirection(s, c, a, TRUE) \in ChipState
      /\ Shadowed(Ref!SetDirection(s, c, a, TRUE), c)
  BY SetDirectionKeeps
<1>2. Ref!SetValue(s, c, a) \in ChipState /\ Shadowed(Ref!SetValue(s, c, a), c)
  BY SetValueKeeps
<1>3. /\ Ref!SetValue(Ref!SetDirection(s, c, a, TRUE), c, a) \in ChipState
      /\ Shadowed(Ref!SetValue(Ref!SetDirection(s, c, a, TRUE), c, a), c)
  BY <1>1, SetValueKeeps
<1>4. /\ Ref!SetDirection(Ref!SetValue(s, c, a), c, a, TRUE) \in ChipState
      /\ Shadowed(Ref!SetDirection(Ref!SetValue(s, c, a), c, a, TRUE), c)
  BY <1>2, SetDirectionKeeps
<1> QED BY <1>3, <1>4 DEF Ref!DirectionOutput

\* Reading leaves registers and shadows as they are.
LEMMA LookKeeps ==
  ASSUME NEW c \in Chips, Ref!ChipsOK, NEW s \in ChipState, Shadowed(s, c), NEW f \in DOMAIN c.at
  PROVE  Ref!Look(s, c, f) \in ChipState /\ Shadowed(Ref!Look(s, c, f), c)
<1> DEFINE t == Append(s.trace, <<"R", c.at[f], s.regs[c.at[f]]>>)
<1>1. <<"R", c.at[f], s.regs[c.at[f]]>> \in ChipAccess
  BY DEF ChipAccess, Ref!ChipsOK, ChipState
<1>2. t \in Seq(ChipAccess)
  BY <1>1 DEF ChipState
<1>3. Ref!Look(s, c, f) = [s EXCEPT !.trace = t]
  BY DEF Ref!Look, Ref!Reg, ChipState
<1> HIDE DEF t
<1>4. /\ [s EXCEPT !.trace = t] \in ChipState
      /\ [s EXCEPT !.trace = t].regs = s.regs
      /\ [s EXCEPT !.trace = t].sdata = s.sdata
      /\ [s EXCEPT !.trace = t].sdir = s.sdir
  BY <1>2 DEF ChipState
<1> QED
  BY <1>3, <1>4 DEF Shadowed, DirOutShadowed, DirInShadowed, DataShadowed

ChipCalls == Ref!SingleCalls \cup Ref!ManyCalls

LEMMA AfterKeeps ==
  ASSUME NEW c \in Chips, Ref!ChipsOK, NEW s \in ChipState, Shadowed(s, c),
         NEW act \in ChipCalls, Ref!Answers(c, act.table)
  PROVE  /\ Ref!After(act.table, s, c, act.args) \in ChipState
         /\ Shadowed(Ref!After(act.table, s, c, act.args), c)
<1>0. act.table \in {"get", "set", "direction_input", "direction_output",
                     "get_direction", "get_multiple", "set_multiple"}
  BY DEF ChipCalls, Ref!SingleCalls, Ref!ManyCalls
<1>1. CASE act.table \in {"get", "get_multiple"}
  <2>1. Ref!InField(c) \in DOMAIN c.at
    BY <1>1 DEF Ref!Answers, Ref!Has
  <2>2. Ref!After(act.table, s, c, act.args) = Ref!Look(s, c, Ref!InField(c))
    BY <1>1 DEF Ref!After
  <2> QED BY <2>1, <2>2, LookKeeps
<1>2. CASE act.table = "set"
  <2>1. Ref!After(act.table, s, c, act.args) = Ref!SetValue(s, c, act.args)
    BY <1>2 DEF Ref!After
  <2> QED BY <2>1, SetValueKeeps
<1>3. CASE act.table = "set_multiple"
  <2>1. Ref!After(act.table, s, c, act.args) = Ref!SetMultiple(s, c, act.args)
    BY <1>3 DEF Ref!After
  <2> QED BY <2>1, SetMultipleKeeps
<1>4. CASE act.table = "direction_input"
  <2>1. Ref!After(act.table, s, c, act.args) = Ref!SetDirection(s, c, act.args, FALSE)
    BY <1>4 DEF Ref!After
  <2> QED BY <2>1, SetDirectionKeeps
<1>5. CASE act.table = "direction_output"
  <2>1. Ref!After(act.table, s, c, act.args) = Ref!DirectionOutput(s, c, act.args)
    BY <1>5 DEF Ref!After
  <2> QED BY <2>1, DirectionOutputKeeps
<1>6. CASE act.table = "get_direction"
  <2>1. Ref!DirectionField(c) \in DOMAIN c.at
    BY <1>6 DEF Ref!Answers, Ref!Has, Ref!DirectionField
  <2>2. Ref!After(act.table, s, c, act.args) = s
        \/ Ref!After(act.table, s, c, act.args) = Ref!Look(s, c, Ref!DirectionField(c))
    BY <1>6 DEF Ref!After
  <2> QED BY <2>1, <2>2, LookKeeps
<1> QED BY <1>0, <1>1, <1>2, <1>3, <1>4, <1>5, <1>6
-----------------------------------------------------------------------------
\* The inductive invariant: until gpio_generic_chip_init() has read them, the
\* registers hold the seed; from then on their shadows are right.
ChipInv ==
  /\ Active(gen, unit) \in Chips
  /\ Ref!TypeOK
  /\ seen.answer = Ref!Off => seen.regs = Seed
  /\ Ref!ShadowIsRegister

LEMMA ChipStarts ==
  ASSUME Ref!SeedOK, Ref!Init
  PROVE  ChipInv
BY DEF Ref!SeedOK, Ref!Init, ChipInv, Ref!TypeOK, Ref!ShadowIsRegister

LEMMA ChipInitKeeps ==
  ASSUME Ref!SeedOK, Ref!ChipsOK, ChipInv, Ref!ChipInit
  PROVE  ChipInv'
<1>1. Active(gen, unit) \in Chips /\ seen.answer = Ref!Off /\ seen.regs = Seed /\ UNCHANGED <<Active(gen, unit), seen.regs>>
  BY DEF ChipInv, Ref!ChipInit
<1>2. seen.answer' # Ref!Off
  BY DEF Ref!ChipInit, Ref!Off
<1>3. \A f \in DOMAIN Active(gen, unit).at : Seed[Active(gen, unit).at[f]] \in SUBSET Width
  BY <1>1 DEF Ref!SeedOK, Ref!ChipsOK
<1>4. "dat" \in DOMAIN Active(gen, unit).at
  BY <1>1 DEF Ref!ChipsOK
<1>5. Ref!InitData(Active(gen, unit)) \in SUBSET Width /\ Ref!InitDir(Active(gen, unit)) \in SUBSET Width
  BY <1>3, <1>4 DEF Ref!InitData, Ref!InitDir, Ref!Has, Ref!Reg
<1>6. Ref!TypeOK'
  BY <1>1, <1>5 DEF Ref!TypeOK, ChipInv, Ref!ChipInit
<1>7. (Ref!Has(Active(gen, unit), "dirout") /\ "UNREADABLE_DIR" \notin Active(gen, unit).flags) =>
         Seed[Ref!Reg(Active(gen, unit), "dirout")] = Ref!InitDir(Active(gen, unit))
  BY DEF Ref!InitDir
<1>8. (Ref!Has(Active(gen, unit), "dirin") /\ ~Ref!Has(Active(gen, unit), "dirout") /\ "UNREADABLE_DIR" \notin Active(gen, unit).flags) =>
         Seed[Ref!Reg(Active(gen, unit), "dirin")] = Width \ Ref!InitDir(Active(gen, unit))
  <2> SUFFICES ASSUME Ref!Has(Active(gen, unit), "dirin"), ~Ref!Has(Active(gen, unit), "dirout"), "UNREADABLE_DIR" \notin Active(gen, unit).flags
               PROVE  Seed[Ref!Reg(Active(gen, unit), "dirin")] = Width \ Ref!InitDir(Active(gen, unit))
    OBVIOUS
  <2>1. Ref!InitDir(Active(gen, unit)) = Width \ Seed[Ref!Reg(Active(gen, unit), "dirin")]
    BY DEF Ref!InitDir
  <2> QED BY <1>3, <2>1 DEF Ref!Has, Ref!Reg
<1>9. (Ref!Has(Active(gen, unit), "set") /\ ~Ref!Has(Active(gen, unit), "clr") /\ "UNREADABLE_SET" \notin Active(gen, unit).flags) =>
         Seed[Ref!Reg(Active(gen, unit), "set")] = Ref!InitData(Active(gen, unit))
  BY DEF Ref!InitData
<1>10. Ref!ShadowIsRegister'
  BY <1>1, <1>7, <1>8, <1>9 DEF Ref!ShadowIsRegister, Ref!ChipInit
<1> QED BY <1>1, <1>2, <1>6, <1>10 DEF ChipInv

LEMMA CallKeeps ==
  ASSUME Ref!ChipsOK, ChipInv, NEW act \in ChipCalls, Ref!Call(act)
  PROVE  ChipInv'
<1> DEFINE s  == [regs |-> seen.regs, sdata |-> seen.sdata, sdir |-> seen.sdir, trace |-> <<>>]
           s1 == Ref!After(act.table, s, Active(gen, unit), act.args)
<1>1. seen.answer # Ref!Off
  BY DEF Ref!Call, Ref!Ready, Ref!Off
<1>2. Active(gen, unit) \in Chips /\ Active(gen, unit)' = Active(gen, unit) /\ Ref!Answers(Active(gen, unit), act.table)
  BY DEF ChipInv, Ref!Call
<1>3. s \in ChipState
  BY DEF ChipState, ChipInv, Ref!TypeOK
<1>4. Shadowed(s, Active(gen, unit))
  BY <1>1 DEF ChipInv, Ref!ShadowIsRegister, Shadowed, DirOutShadowed, DirInShadowed, DataShadowed
<1>5. seen.regs' = s1.regs /\ seen.sdata' = s1.sdata /\ seen.sdir' = s1.sdir
  BY DEF Ref!Call
<1>6. seen.answer' # Ref!Off
  <2>1. seen.answer'.table = act.table
    BY DEF Ref!Call
  <2>2. act.table # "off"
    BY DEF ChipCalls, Ref!SingleCalls, Ref!ManyCalls
  <2> QED BY <2>1, <2>2 DEF Ref!Off
<1> HIDE DEF s
<1>7. s1 \in ChipState /\ Shadowed(s1, Active(gen, unit))
  BY <1>2, <1>3, <1>4, AfterKeeps
<1> HIDE DEF s1
<1>8. Ref!TypeOK'
  BY <1>5, <1>7 DEF Ref!TypeOK, ChipState
<1>9. Ref!ShadowIsRegister'
  BY <1>2, <1>5, <1>7 DEF Ref!ShadowIsRegister, Shadowed, DirOutShadowed, DirInShadowed, DataShadowed
<1> QED BY <1>2, <1>6, <1>8, <1>9 DEF ChipInv

LEMMA ChipKept ==
  ASSUME Ref!SeedOK, Ref!ChipsOK, ChipInv, [Ref!Next]_Ref!vars
  PROVE  ChipInv'
<1>1. CASE Ref!ChipInit
  BY <1>1, ChipInitKeeps
<1>2. CASE Ref!Ask
  BY <1>2 DEF Ref!Ask, ChipInv, Ref!TypeOK, Ref!ShadowIsRegister, Ref!Ready, Ref!Off
<1>3. ASSUME NEW act \in Ref!SingleCalls \cup Ref!ManyCalls, Ref!Call(act)
      PROVE  ChipInv'
  BY <1>3, CallKeeps DEF ChipCalls
<1>4. CASE UNCHANGED Ref!vars
  BY <1>4 DEF Ref!vars, ChipInv, Ref!TypeOK, Ref!ShadowIsRegister
<1> QED BY <1>1, <1>2, <1>3, <1>4 DEF Ref!Next

\* Whatever the width, the addresses, the seed and the configurations, the
\* registers, gpio_sdata and gpio_sdir hold words of the configured width.
THEOREM ChipWords ==
  ASSUME Ref!SeedOK, Ref!ChipsOK
  PROVE  Ref!Spec => []Ref!TypeOK
<1>1. Ref!Init => ChipInv
  BY ChipStarts
<1>2. ChipInv /\ [Ref!Next]_Ref!vars => ChipInv'
  BY ChipKept
<1>3. ChipInv => Ref!TypeOK
  BY DEF ChipInv
<1> QED BY <1>1, <1>2, <1>3, PTL DEF Ref!Spec

\* After any sequence of calls, a direction or output register that can be read
\* back holds its shadow: no call works from a stale copy.
THEOREM ShadowNeverStale ==
  ASSUME Ref!SeedOK, Ref!ChipsOK
  PROVE  Ref!Spec => []Ref!ShadowIsRegister
<1>1. Ref!Init => ChipInv
  BY ChipStarts
<1>2. ChipInv /\ [Ref!Next]_Ref!vars => ChipInv'
  BY ChipKept
<1>3. ChipInv => Ref!ShadowIsRegister
  BY DEF ChipInv
<1> QED BY <1>1, <1>2, <1>3, PTL DEF Ref!Spec
-----------------------------------------------------------------------------
(* The memory of a callback that has been entered, against the state of    *)
(* the reference in the middle of a call.                                  *)

EnvNames == Arguments \cup {"word", "gpio_sdata", "gpio_sdir", "gpio_config_variant", "gpio_bank_index"}

StateOf(s, u) ==
  [f \in {"gpio_sdata", "gpio_sdir", "gpio_config_variant", "gpio_bank_index"} |->
     CASE f = "gpio_sdata" -> s.sdata
       [] f = "gpio_sdir"  -> s.sdir
       [] f = "gpio_config_variant" -> u.variant
       [] f = "gpio_bank_index"     -> u.bank]

\* The one memory with these fields in which nothing was returned yet.
Memory(regs, state, env, outputs, trace) ==
  [regs : {regs}, state : {state}, env : {env}, outputs : {outputs},
   trace : {trace}, result : {0}, returned : {FALSE}]

\* In the middle of a call with arguments a, o are the words it returns.
Mirrors(mm, s, u, a, o) ==
  /\ s \in ChipState
  /\ mm \in Memory(s.regs, StateOf(s, u), mm.env, o, s.trace)
  /\ DOMAIN mm.env = EnvNames
  /\ mm.env["gpio_bank_index"] = u.bank
  /\ \A x \in Arguments : mm.env[x] = Env(a)[x]

LEMMA MirrorsFields ==
  ASSUME NEW mm, NEW s, NEW u, NEW a, NEW o, Mirrors(mm, s, u, a, o)
  PROVE  /\ mm.regs = s.regs /\ mm.trace = s.trace /\ mm.outputs = o /\ mm.result = 0
         /\ mm.returned = FALSE /\ mm.state = StateOf(s, u)
         /\ mm.state["gpio_sdata"] = s.sdata /\ mm.state["gpio_sdir"] = s.sdir
         /\ mm.state["gpio_config_variant"] = u.variant /\ mm.state["gpio_bank_index"] = u.bank
<1>1. /\ mm.regs = s.regs /\ mm.trace = s.trace /\ mm.outputs = o /\ mm.result = 0
      /\ mm.returned = FALSE /\ mm.state = StateOf(s, u)
  BY DEF Mirrors, Memory
<1> QED BY <1>1 DEF StateOf

LEMMA VariantKept ==
  ASSUME NEW mm, NEW s, NEW u, NEW a, NEW o, Mirrors(mm, s, u, a, o)
  PROVE  mm.state["gpio_config_variant"] = u.variant
<1>1. mm.state = StateOf(s, u)
  BY DEF Mirrors, Memory
<1>2. StateOf(s, u)["gpio_config_variant"] = u.variant
  BY DEF StateOf
<1> QED BY ONLY <1>1, <1>2

\* The arguments and the bank, which no operation after the first changes.
Steady == Arguments \cup {"gpio_bank_index"}

\* A memory with the same arguments.
LEMMA StillAt ==
  ASSUME NEW mm, NEW s, NEW u, NEW a, NEW o, Mirrors(mm, s, u, a, o),
         NEW e, DOMAIN e = EnvNames, \A x \in Steady : e[x] = mm.env[x],
         NEW t, NEW s1 \in ChipState, NEW o1, t \in Memory(s1.regs, StateOf(s1, u), e, o1, s1.trace)
  PROVE  Mirrors(t, s1, u, a, o1) /\ t.env = e
<1>1. t.env = e
  BY DEF Memory
<1> QED BY <1>1 DEF Mirrors, Steady

\* A read.
LEMMA ReadAt ==
  ASSUME NEW mm, NEW s, NEW u, NEW a, NEW o, Mirrors(mm, s, u, a, o), Ref!ChipsOK,
         NEW c \in Chips, NEW f \in DOMAIN c.at, NEW reg, c.at[f] = <<reg, u.bank>>
  PROVE  LET t == Step([op |-> "Read", reg |-> reg, var |-> "word", when |-> "always"], mm, Oracle)
         IN  Mirrors(t, Ref!Look(s, c, f), u, a, o) /\ t.env["word"] = s.regs[c.at[f]]
<1> DEFINE op == [op |-> "Read", reg |-> reg, var |-> "word", when |-> "always"]
           t  == Step(op, mm, Oracle)
           w  == s.regs[c.at[f]]
           e  == [mm.env EXCEPT !["word"] = w]
           tr == Append(s.trace, <<"R", c.at[f], w>>)
           s1 == Ref!Look(s, c, f)
<1>1. mm.regs = s.regs /\ mm.trace = s.trace /\ mm.returned = FALSE
  BY ONLY MirrorsFields, Mirrors(mm, s, u, a, o)
<1>2. Place(op, mm) = c.at[f]
  BY DEF Place, Mirrors
<1>3. t = [mm EXCEPT !.env = e, !.trace = tr]
  BY <1>1, <1>2 DEF Step, Do, Holds
<1>4. /\ DOMAIN e = EnvNames /\ e["word"] = w
      /\ \A x \in Steady : e[x] = mm.env[x]
  BY DEF EnvNames, Mirrors, Steady, Arguments
<1> HIDE DEF e, t, tr
<1>5. t \in Memory(s.regs, StateOf(s, u), e, o, tr)
  BY <1>3 DEF Memory, Mirrors
<1>6. s1 \in ChipState /\ s1.trace = tr /\ s1.regs = s.regs /\ s1.sdata = s.sdata /\ s1.sdir = s.sdir
  <2>1. <<"R", c.at[f], w>> \in ChipAccess
    BY DEF ChipAccess, Ref!ChipsOK, ChipState, Mirrors
  <2>2. tr \in Seq(ChipAccess)
    BY <2>1 DEF ChipState, Mirrors, tr
  <2>3. s1 = [s EXCEPT !.trace = tr]
    BY DEF Ref!Look, Ref!Reg, ChipState, Mirrors, tr
  <2> HIDE DEF s1
  <2> QED BY <2>2, <2>3 DEF ChipState, Mirrors
<1> HIDE DEF s1
<1>7. StateOf(s1, u) = StateOf(s, u)
  BY <1>6 DEF StateOf
<1>8. Mirrors(t, s1, u, a, o) /\ t.env = e
  BY <1>4, <1>5, <1>6, <1>7, StillAt
<1> QED BY <1>4, <1>8 DEF t, s1

LEMMA MirrorsNames ==
  ASSUME NEW mm, NEW s, NEW u, NEW a, NEW o, Mirrors(mm, s, u, a, o)
  PROVE  DOMAIN mm.env = EnvNames /\ s \in ChipState
BY DEF Mirrors

\* A write of v, whatever the operation calls it, where its guard holds.
LEMMA WriteAt ==
  ASSUME NEW mm, NEW s, NEW u, NEW a, NEW o, Mirrors(mm, s, u, a, o), Ref!ChipsOK,
         NEW c \in Chips, NEW f \in DOMAIN c.at, NEW reg, c.at[f] = <<reg, u.bank>>,
         NEW value, NEW when, NEW v, Holds(when, mm), Eval(value, mm, Oracle) \cap Width = v \cap Width
  PROVE  LET t == Step([op |-> "Write", reg |-> reg, value |-> value, when |-> when], mm, Oracle)
         IN  Mirrors(t, Ref!Put(s, c, f, v), u, a, o) /\ t.env = mm.env
<1> DEFINE op == [op |-> "Write", reg |-> reg, value |-> value, when |-> when]
           t  == Step(op, mm, Oracle)
           w  == v \cap Width
           r  == [s.regs EXCEPT ![c.at[f]] = w]
           tr == Append(s.trace, <<"W", c.at[f], w>>)
           s1 == Ref!Put(s, c, f, v)
<1>1. mm.regs = s.regs /\ mm.trace = s.trace /\ mm.returned = FALSE
  BY DEF Mirrors, Memory
<1>2. Place(op, mm) = c.at[f]
  BY DEF Place, Mirrors
<1>3. t = [mm EXCEPT !.regs = r, !.trace = tr]
  BY <1>1, <1>2 DEF Step, Do
<1> HIDE DEF t
<1>4. OneWritten(s1, s, c, f, v)
  BY PutOne DEF Mirrors
<1>5. s1.regs = r /\ s1.trace = tr
  BY DEF Ref!Put, Ref!Reg, ChipState, Mirrors
<1> HIDE DEF s1, r, tr, w
<1>6. t \in Memory(s1.regs, StateOf(s, u), mm.env, o, s1.trace)
  BY <1>3, <1>5 DEF Memory, Mirrors
<1>7. StateOf(s1, u) = StateOf(s, u) /\ s1 \in ChipState
  BY <1>4 DEF StateOf, OneWritten
<1>8. Mirrors(t, s1, u, a, o) /\ t.env = mm.env
  BY <1>6, <1>7, StillAt, MirrorsNames
<1> QED BY <1>8 DEF t, s1

\* An operation whose guard does not hold.
LEMMA SkipAt ==
  ASSUME NEW mm, NEW op, ~Holds(op.when, mm)
  PROVE  Step(op, mm, Oracle) = mm
BY DEF Step

\* The driver state is read into a variable of its own.
LEMMA StateReadAt ==
  ASSUME NEW mm, NEW s, NEW u, NEW a, NEW o, Mirrors(mm, s, u, a, o),
         NEW field \in {"gpio_sdata", "gpio_sdir", "gpio_config_variant"}
  PROVE  LET t == Step([op |-> "StateRead", field |-> field, when |-> "always"], mm, Oracle)
         IN  Mirrors(t, s, u, a, o) /\ t.env[field] = StateOf(s, u)[field]
<1> DEFINE op == [op |-> "StateRead", field |-> field, when |-> "always"]
           t  == Step(op, mm, Oracle)
           w  == StateOf(s, u)[field]
           e  == [mm.env EXCEPT ![field] = w]
<1>1. mm.state = StateOf(s, u) /\ mm.returned = FALSE
  BY DEF Mirrors, Memory
<1>3. t = [mm EXCEPT !.env = e]
  BY <1>1 DEF Step, Do, Holds
<1>4. /\ DOMAIN e = EnvNames /\ e[field] = w
      /\ \A x \in Steady : e[x] = mm.env[x]
  BY DEF EnvNames, Mirrors, Steady, Arguments
<1> HIDE DEF e, t, w
<1>5. t \in Memory(s.regs, StateOf(s, u), e, o, s.trace)
  BY <1>3 DEF Memory, Mirrors
<1>8. Mirrors(t, s, u, a, o) /\ t.env = e
  BY <1>4, <1>5, StillAt, MirrorsNames
<1> QED BY <1>4, <1>8 DEF t, w

\* A shadow word is written.
LEMMA DataWriteAt ==
  ASSUME NEW mm, NEW s, NEW u, NEW a, NEW o, Mirrors(mm, s, u, a, o),
         NEW value, NEW v \in SUBSET Width, Eval(value, mm, Oracle) \cap Width = v
  PROVE  LET t == Step([op |-> "StateWrite", field |-> "gpio_sdata", value |-> value, when |-> "always"], mm, Oracle)
         IN  Mirrors(t, [s EXCEPT !.sdata = v], u, a, o) /\ t.env = mm.env
<1> DEFINE op == [op |-> "StateWrite", field |-> "gpio_sdata", value |-> value, when |-> "always"]
           t  == Step(op, mm, Oracle)
           st == [StateOf(s, u) EXCEPT !["gpio_sdata"] = v]
           s1 == [s EXCEPT !.sdata = v]
<1>1. mm.state = StateOf(s, u) /\ mm.returned = FALSE
  BY DEF Mirrors, Memory
<1>2. t = [mm EXCEPT !.state = st]
  BY <1>1 DEF Step, Do, Holds, Oracle
<1>3. s1 \in ChipState /\ s1.regs = s.regs /\ s1.trace = s.trace /\ s1.sdata = v /\ s1.sdir = s.sdir
  BY DEF ChipState, Mirrors
<1> HIDE DEF s1
<1>4. st = StateOf(s1, u)
  BY <1>3 DEF StateOf
<1> HIDE DEF st, t
<1>5. t \in Memory(s1.regs, StateOf(s1, u), mm.env, o, s1.trace)
  BY <1>2, <1>3, <1>4 DEF Memory, Mirrors
<1>6. Mirrors(t, s1, u, a, o) /\ t.env = mm.env
  BY <1>3, <1>5, StillAt, MirrorsNames
<1> QED BY <1>6 DEF t, s1

LEMMA DirWriteAt ==
  ASSUME NEW mm, NEW s, NEW u, NEW a, NEW o, Mirrors(mm, s, u, a, o),
         NEW value, NEW v \in SUBSET Width, Eval(value, mm, Oracle) \cap Width = v
  PROVE  LET t == Step([op |-> "StateWrite", field |-> "gpio_sdir", value |-> value, when |-> "always"], mm, Oracle)
         IN  Mirrors(t, [s EXCEPT !.sdir = v], u, a, o) /\ t.env = mm.env
<1> DEFINE op == [op |-> "StateWrite", field |-> "gpio_sdir", value |-> value, when |-> "always"]
           t  == Step(op, mm, Oracle)
           st == [StateOf(s, u) EXCEPT !["gpio_sdir"] = v]
           s1 == [s EXCEPT !.sdir = v]
<1>1. mm.state = StateOf(s, u) /\ mm.returned = FALSE
  BY DEF Mirrors, Memory
<1>2. t = [mm EXCEPT !.state = st]
  BY <1>1 DEF Step, Do, Holds, Oracle
<1>3. s1 \in ChipState /\ s1.regs = s.regs /\ s1.trace = s.trace /\ s1.sdata = s.sdata /\ s1.sdir = v
  BY DEF ChipState, Mirrors
<1> HIDE DEF s1
<1>4. st = StateOf(s1, u)
  BY <1>3 DEF StateOf
<1> HIDE DEF st, t
<1>5. t \in Memory(s1.regs, StateOf(s1, u), mm.env, o, s1.trace)
  BY <1>2, <1>3, <1>4 DEF Memory, Mirrors
<1>6. Mirrors(t, s1, u, a, o) /\ t.env = mm.env
  BY <1>3, <1>5, StillAt, MirrorsNames
<1> QED BY <1>6 DEF t, s1

\* The words a call returns.
LEMMA OutputAt ==
  ASSUME NEW mm, NEW s, NEW u, NEW a, NEW o, Mirrors(mm, s, u, a, o), NEW value
  PROVE  LET t == Step([op |-> "OutputWrite", value |-> value, when |-> "always"], mm, Oracle)
         IN  Mirrors(t, s, u, a, [o EXCEPT !.bits = Eval(value, mm, Oracle)]) /\ t.env = mm.env
<1> DEFINE op == [op |-> "OutputWrite", value |-> value, when |-> "always"]
           t  == Step(op, mm, Oracle)
           o1 == [o EXCEPT !.bits = Eval(value, mm, Oracle)]
<1>1. mm.outputs = o /\ mm.returned = FALSE
  BY DEF Mirrors, Memory
<1>2. t = [mm EXCEPT !.outputs = o1]
  BY <1>1 DEF Step, Do, Holds
<1> HIDE DEF o1, t
<1>3. t \in Memory(s.regs, StateOf(s, u), mm.env, o1, s.trace)
  BY <1>2 DEF Memory, Mirrors
<1>4. Mirrors(t, s, u, a, o1) /\ t.env = mm.env
  BY <1>3, StillAt, MirrorsNames
<1> QED BY <1>4 DEF t, o1

\* The call is over: s is the state it leaves, o and result what it returns.
Over(t, s, u, o, result) ==
  /\ s \in ChipState
  /\ t \in [regs : {s.regs}, state : {StateOf(s, u)}, env : {t.env}, outputs : {o},
            trace : {s.trace}, result : {result}, returned : {TRUE}]

LEMMA ReturnAt ==
  ASSUME NEW mm, NEW s, NEW u, NEW a, NEW o, Mirrors(mm, s, u, a, o), NEW value
  PROVE  Over(Step([op |-> "Return", value |-> value, when |-> "always"], mm, Oracle), s, u, o,
              ReturnValue(value, mm, Oracle))
<1> DEFINE op == [op |-> "Return", value |-> value, when |-> "always"]
           t  == Step(op, mm, Oracle)
           v  == ReturnValue(value, mm, Oracle)
<1>1. mm.returned = FALSE
  BY DEF Mirrors, Memory
<1>2. t = [mm EXCEPT !.returned = TRUE, !.result = v]
  BY <1>1 DEF Step, Do, Holds
<1> HIDE DEF t, v
<1>3. t \in [regs : {s.regs}, state : {StateOf(s, u)}, env : {mm.env}, outputs : {o},
             trace : {s.trace}, result : {v}, returned : {TRUE}]
  BY <1>2 DEF Memory, Mirrors
<1>4. t.env = mm.env
  BY <1>3
<1>5. Over(t, s, u, o, v)
  BY <1>3, <1>4, MirrorsNames DEF Over
<1> QED BY <1>5 DEF t, v
-----------------------------------------------------------------------------
(* What guards and values say.                                             *)

Single(a) == a \in [offset : Width, value : BOOLEAN]
Many(a)   == a \in [mask : SUBSET Width, bits : SUBSET Width]

LEMMA MirrorsArguments ==
  ASSUME NEW mm, NEW s, NEW u, NEW a, NEW o, Mirrors(mm, s, u, a, o)
  PROVE  /\ Single(a) => mm.env["offset"] = a.offset /\ mm.env["value"] = a.value
         /\ Many(a)   => mm.env["mask"] = a.mask /\ mm.env["bits"] = a.bits
<1>1. \A x \in {"offset", "value", "mask", "bits"} :
         /\ mm.env[x] = Env(a)[x]
         /\ x \in DOMAIN a => Env(a)[x] = a[x]
  BY DEF Mirrors, Env, Arguments
<1>2. ASSUME Single(a) PROVE mm.env["offset"] = a.offset /\ mm.env["value"] = a.value
  <2>1. DOMAIN a = {"offset", "value"} /\ a["offset"] = a.offset /\ a["value"] = a.value
    BY <1>2 DEF Single
  <2> QED BY <1>1, <2>1
<1>3. ASSUME Many(a) PROVE mm.env["mask"] = a.mask /\ mm.env["bits"] = a.bits
  <2>1. DOMAIN a = {"mask", "bits"} /\ a["mask"] = a.mask /\ a["bits"] = a.bits
    BY <1>3 DEF Many
  <2> QED BY <1>1, <2>1
<1> QED BY <1>2, <1>3

LEMMA HoldsWhen ==
  ASSUME NEW mm
  PROVE  /\ Holds("always", mm)
         /\ mm.env["value"] = TRUE => Holds("value", mm) /\ ~Holds("~value", mm)
         /\ mm.env["value"] = FALSE => ~Holds("value", mm) /\ Holds("~value", mm)
         /\ Holds("some set", mm) <=> mm.env["bits"] \cap mm.env["mask"] # {}
         /\ Holds("some clear", mm) <=> Flip(mm.env["bits"]) \cap mm.env["mask"] # {}
BY DEF Holds

LEMMA EvalIs ==
  ASSUME NEW mm
  PROVE  /\ Eval("none", mm, Oracle) = {}
         /\ Eval("word", mm, Oracle) = mm.env["word"]
         /\ Eval("~word", mm, Oracle) = Flip(mm.env["word"])
         /\ Eval("line", mm, Oracle) = {mm.env["offset"]}
         /\ Eval("set bits", mm, Oracle) = mm.env["bits"] \cap mm.env["mask"]
         /\ Eval("clear bits", mm, Oracle) = Flip(mm.env["bits"]) \cap mm.env["mask"]
         /\ Eval("merged", mm, Oracle) =
              (mm.env["bits"] \cap Flip(mm.env["mask"])) \cup (mm.env["word"] \cap mm.env["mask"])
         /\ Eval("word by variant", mm, Oracle) = Chosen(mm.env["word"], mm, Oracle)
BY DEF Eval, Line

LEMMA EvalNext ==
  ASSUME NEW mm
  PROVE  /\ mm.env["value"] = TRUE =>
              Eval("next data", mm, Oracle) = mm.env["gpio_sdata"] \cup {mm.env["offset"]}
         /\ mm.env["value"] = FALSE =>
              Eval("next data", mm, Oracle) = mm.env["gpio_sdata"] \ {mm.env["offset"]}
         /\ Eval("next many", mm, Oracle) =
              (mm.env["gpio_sdata"] \ mm.env["mask"]) \cup (mm.env["bits"] \cap mm.env["mask"])
         /\ Eval("dir in", mm, Oracle) = mm.env["gpio_sdir"] \ {mm.env["offset"]}
         /\ Eval("dir out", mm, Oracle) = mm.env["gpio_sdir"] \cup {mm.env["offset"]}
         /\ Eval("~dir in", mm, Oracle) = Flip(mm.env["gpio_sdir"] \ {mm.env["offset"]})
         /\ Eval("~dir out", mm, Oracle) = Flip(mm.env["gpio_sdir"] \cup {mm.env["offset"]})
         /\ Eval("dir in by variant", mm, Oracle) =
              Chosen(mm.env["gpio_sdir"] \ {mm.env["offset"]}, mm, Oracle)
         /\ Eval("dir out by variant", mm, Oracle) =
              Chosen(mm.env["gpio_sdir"] \cup {mm.env["offset"]}, mm, Oracle)
BY DEF Eval, NextOf, Line

\* The next data word depends on the variables of the callback alone.
LEMMA NextDataSame ==
  ASSUME NEW x, NEW y, x.env = y.env
  PROVE  /\ Eval("next data", x, Oracle) = Eval("next data", y, Oracle)
         /\ Eval("next many", x, Oracle) = Eval("next many", y, Oracle)
BY DEF Eval, NextOf, Line

LEMMA VariantIs ==
  ASSUME NEW mm, NEW s, NEW u, NEW a, NEW o, Mirrors(mm, s, u, a, o), NEW x
  PROVE  Chosen(x, mm, Oracle) = IF u.variant # 0 THEN Flip(x) ELSE x
<1>1. mm.state["gpio_config_variant"] = u.variant
  BY ONLY VariantKept, Mirrors(mm, s, u, a, o)
<1> QED BY <1>1 DEF Chosen, Variant, Oracle

LEMMA ReturnIs ==
  ASSUME NEW mm
  PROVE  /\ ReturnValue("0", mm, Oracle) = 0
         /\ ReturnValue("bit of word", mm, Oracle) = One(mm.env["offset"] \in mm.env["word"])
         /\ ReturnValue("0 if word", mm, Oracle) = One(mm.env["offset"] \notin mm.env["word"])
         /\ ReturnValue("1 if word", mm, Oracle) = One(mm.env["offset"] \in mm.env["word"])
         /\ ReturnValue("0 if dir", mm, Oracle) = One(mm.env["offset"] \notin mm.env["gpio_sdir"])
         /\ ReturnValue("direction by variant", mm, Oracle) =
              IF mm.state["gpio_config_variant"] # 0 THEN One(mm.env["offset"] \in mm.env["word"])
              ELSE One(mm.env["offset"] \notin mm.env["word"])
BY DEF ReturnValue, Variant, Oracle

(* The chip of a unit of a driver, and its registers.                      *)

LEMMA UnitChip ==
  ASSUME NEW g \in Configs, NEW u \in Units(g)
  PROVE  LET c == Active(g, u)
         IN  /\ c \in Chips
             /\ c.flags = g.flags \cap Known
             /\ \A f \in DOMAIN c.at : Present(g, f) /\ c.at[f] = <<g.at[f], u.bank>>
             /\ DOMAIN c.at = IF Selectable(g)
                              THEN DOMAIN g.at \ {IF u.variant = 0 THEN "dirin" ELSE "dirout"}
                              ELSE DOMAIN g.at
<1>1. Active(g, u) \in Chips
  BY DEF Chips
<1> QED BY <1>1 DEF Active, Present

LEMMA IfWrite ==
  ASSUME NEW g, NEW f, NEW value, NEW when
  PROVE  If(when, Wr(g, f, value)) = <<[op |-> "Write", reg |-> g.at[f], value |-> value, when |-> when]>>
<1> DEFINE x == [op |-> "Write", reg |-> g.at[f], value |-> value, when |-> "always"]
           y == [op |-> "Write", reg |-> g.at[f], value |-> value, when |-> when]
<1>1. [x EXCEPT !.when = when] = y
  OBVIOUS
<1>2. Wr(g, f, value) = <<x>>
  BY DEF Wr
<1> HIDE DEF x, y
<1>3. DOMAIN <<x>> = 1 .. 1 /\ <<x>>[1] = x
  OBVIOUS
<1>4. [k \in 1 .. 1 |-> [<<x>>[k] EXCEPT !.when = when]] = <<y>>
  BY <1>1
<1> QED BY <1>2, <1>3, <1>4 DEF If, y
-----------------------------------------------------------------------------
(* What the operations of a callback do, against what the reference does.  *)

\* Carried out in mm, ops lead to the state s1 and the words o.
Leads(ops, mm, s1, u, a, o) == \E t : Does(ops, mm, t) /\ Mirrors(t, s1, u, a, o)

LEMMA SameFields ==
  ASSUME NEW g \in Configs, NEW u \in Units(g)
  PROVE  /\ \A f \in {"dat", "set", "clr"} : Ref!Has(Active(g, u), f) <=> Present(g, f)
         /\ Ref!Paired(Active(g, u)) <=> SetClr(g)
         /\ Ref!OutField(Active(g, u)) = OutReg(g)
<1> DEFINE c == Active(g, u)
<1>0. DOMAIN c.at = IF Selectable(g) THEN DOMAIN g.at \ {IF u.variant = 0 THEN "dirin" ELSE "dirout"}
                    ELSE DOMAIN g.at
  BY UnitChip
<1> HIDE DEF c
<1>1. \A f \in {"dat", "set", "clr"} : Ref!Has(c, f) <=> Present(g, f)
  BY <1>0 DEF Ref!Has, Present
<1> USE DEF c
<1> QED BY <1>1 DEF Ref!Paired, SetClr, Ref!OutField, OutReg

LEMMA DatThere ==
  ASSUME NEW g \in Configs, NEW u \in Units(g), Ref!ChipsOK
  PROVE  Present(g, "dat") /\ OutReg(g) \in DOMAIN Active(g, u).at
<1>1. Ref!Has(Active(g, u), "dat")
  BY UnitChip DEF Ref!ChipsOK, Ref!Has
<1>2. Present(g, "dat")
  BY <1>1, SameFields
<1>3. Ref!Has(Active(g, u), OutReg(g))
  BY <1>2, SameFields DEF OutReg
<1> QED BY <1>2, <1>3 DEF Ref!Has

LEMMA SetBodyLeads ==
  ASSUME NEW g \in Configs, NEW u \in Units(g), Ref!ChipsOK,
         NEW mm, NEW s, NEW a, NEW o, Mirrors(mm, s, u, a, o), Single(a)
  PROVE  Leads(SetBody(g), mm, Ref!SetValue(s, Active(g, u), a), u, a, o)
<1> DEFINE c == Active(g, u)
<1>0. a.value \in BOOLEAN /\ a.offset \in Width
  BY DEF Single
<1>a. mm.env["offset"] = a.offset /\ mm.env["value"] = a.value
  BY MirrorsArguments
<1>c. c \in Chips /\ \A f \in DOMAIN c.at : c.at[f] = <<g.at[f], u.bank>>
  BY UnitChip
<1>1. CASE SetClr(g)
  <2> DEFINE f   == IF a.value THEN "set" ELSE "clr"
             op1 == [op |-> "Write", reg |-> g.at["set"], value |-> "line", when |-> "value"]
             op2 == [op |-> "Write", reg |-> g.at["clr"], value |-> "line", when |-> "~value"]
             s1  == Ref!SetValue(s, c, a)
  <2>1. "set" \in DOMAIN c.at /\ "clr" \in DOMAIN c.at /\ Ref!Paired(c)
    BY <1>1, SameFields DEF Ref!Has, Ref!Paired
  <2>2. SetBody(g) = <<op1>> \o <<op2>>
    BY <1>1, IfWrite DEF SetBody
  <2>3. s1 = Ref!Put(s, c, f, {a.offset})
    BY <2>1 DEF Ref!SetValue
  <2>4. Eval("line", mm, Oracle) \cap Width = {a.offset} \cap Width
    BY <1>a, EvalIs
  <2> HIDE DEF c
  <2>5. CASE a.value = TRUE
    <3> DEFINE t == Step(op1, mm, Oracle)
    <3>1. Holds("value", mm)
      BY <1>a, <2>5, HoldsWhen
    <3>2. Mirrors(t, Ref!Put(s, c, "set", {a.offset}), u, a, o) /\ t.env = mm.env
      BY <1>c, <2>1, <2>4, <3>1, WriteAt
    <3>3. ~Holds(op2.when, t)
      BY <1>a, <2>5, <3>2, HoldsWhen
    <3> HIDE DEF s1
    <3>4. Does(<<op1>>, mm, t)
      BY DoesOne
    <3> HIDE DEF t, op1
    <3>5. Step(op2, t, Oracle) = t
      BY <3>3, SkipAt
    <3>6. Does(<<op2>>, t, t)
      BY <3>5, DoesOne
    <3> HIDE DEF op2
    <3>7. Does(SetBody(g), mm, t)
      BY <2>2, <3>4, <3>6, DoesThen
    <3> QED BY <2>3, <2>5, <3>2, <3>7 DEF Leads, s1, c
  <2>6. CASE a.value = FALSE
    <3> DEFINE t == Step(op2, mm, Oracle)
    <3>1. Holds("~value", mm) /\ ~Holds(op1.when, mm)
      BY <1>a, <2>6, HoldsWhen
    <3>2. Mirrors(t, Ref!Put(s, c, "clr", {a.offset}), u, a, o) /\ t.env = mm.env
      BY <1>c, <2>1, <2>4, <3>1, WriteAt
    <3> HIDE DEF s1
    <3>4. Does(<<op2>>, mm, t)
      BY DoesOne
    <3> HIDE DEF t, op2
    <3>5. Step(op1, mm, Oracle) = mm
      BY <3>1, SkipAt
    <3>6. Does(<<op1>>, mm, mm)
      BY <3>5, DoesOne
    <3> HIDE DEF op1
    <3>7. Does(SetBody(g), mm, t)
      BY <2>2, <3>4, <3>6, DoesThen
    <3> QED BY <2>3, <2>6, <3>2, <3>7 DEF Leads, s1, c
  <2> QED BY <1>0, <2>5, <2>6
<1>2. CASE ~SetClr(g)
  <2> DEFINE op1  == [op |-> "StateRead", field |-> "gpio_sdata", when |-> "always"]
             op2  == [op |-> "StateWrite", field |-> "gpio_sdata", value |-> "next data", when |-> "always"]
             op3  == [op |-> "Write", reg |-> g.at[OutReg(g)], value |-> "next data", when |-> "always"]
             next == (IF a.value THEN s.sdata \cup {a.offset} ELSE s.sdata \ {a.offset}) \cap Width
             t1   == Step(op1, mm, Oracle)
             t2   == Step(op2, t1, Oracle)
             t3   == Step(op3, t2, Oracle)
             s1   == [s EXCEPT !.sdata = next]
             s2   == Ref!Put(s1, c, OutReg(g), next)
  <2>1. Ref!SetValue(s, c, a) = s2
    BY <1>2, SameFields DEF Ref!SetValue
  <2>2. SetBody(g) = (<<op1>> \o <<op2>>) \o <<op3>>
    BY <1>2 DEF SetBody, StRd, StWr, Wr
  <2>3. Mirrors(t1, s, u, a, o) /\ t1.env["gpio_sdata"] = s.sdata
    <3>1. StateOf(s, u)["gpio_sdata"] = s.sdata
      BY DEF StateOf
    <3> QED BY <3>1, StateReadAt
  <2>4. t1.env["offset"] = a.offset /\ t1.env["value"] = a.value
    BY <2>3, MirrorsArguments
  <2>5. Does(<<op1>>, mm, t1) /\ Does(<<op2>>, t1, t2) /\ Does(<<op3>>, t2, t3)
    BY DoesOne
  <2>6. OutReg(g) \in DOMAIN c.at /\ c.at[OutReg(g)] = <<g.at[OutReg(g)], u.bank>>
    BY <1>c, DatThere
  <2> HIDE DEF c, t1
  <2>7. Eval("next data", t1, Oracle) \cap Width = next
    BY <1>0, <2>3, <2>4, EvalNext
  <2>8. next \in SUBSET Width /\ next \cap Width = next
    OBVIOUS
  <2> HIDE DEF next
  <2>9. Mirrors(t2, s1, u, a, o) /\ t2.env = t1.env
    BY <2>3, <2>7, <2>8, DataWriteAt
  <2> HIDE DEF t2, s1
  <2>10. Eval("next data", t2, Oracle) \cap Width = next \cap Width
    <3>1. t2.env = t1.env
      BY <2>9
    <3>2. Eval("next data", t2, Oracle) = Eval("next data", t1, Oracle)
      BY ONLY NextDataSame, <3>1
    <3> QED BY ONLY <2>7, <2>8, <3>2
  <2>11. Holds("always", t2)
    BY HoldsWhen
  <2>12. Mirrors(t3, s2, u, a, o)
    BY <1>c, <2>6, <2>9, <2>10, <2>11, WriteAt
  <2> HIDE DEF t3, s2, op1, op2, op3
  <2>13. Does(SetBody(g), mm, t3)
    <3>1. Does(<<op1>> \o <<op2>>, mm, t2)
      BY <2>5, DoesThen
    <3> QED BY <2>2, <2>5, <3>1, DoesThen
  <2> QED BY <2>1, <2>12, <2>13 DEF Leads, c
<1> QED BY <1>1, <1>2

\* A write leaves the variables of the callback alone.
LEMMA WriteEnv ==
  ASSUME NEW mm, "env" \in DOMAIN mm, NEW op, op.op = "Write"
  PROVE  Step(op, mm, Oracle).env = mm.env
BY DEF Step, Do

LEMMA SetMultipleBodyLeads ==
  ASSUME NEW g \in Configs, NEW u \in Units(g), Ref!ChipsOK,
         NEW mm, NEW s, NEW a, NEW o, Mirrors(mm, s, u, a, o), Many(a)
  PROVE  Leads(SetMultipleBody(g), mm, Ref!SetMultiple(s, Active(g, u), a), u, a, o)
<1> DEFINE c == Active(g, u)
<1>0. a.mask \in SUBSET Width /\ a.bits \in SUBSET Width
  BY DEF Many
<1>a. mm.env["mask"] = a.mask /\ mm.env["bits"] = a.bits
  BY MirrorsArguments
<1>c. c \in Chips /\ \A f \in DOMAIN c.at : c.at[f] = <<g.at[f], u.bank>>
  BY UnitChip
<1>1. CASE SetClr(g)
  <2> DEFINE op1 == [op |-> "Write", reg |-> g.at["set"], value |-> "set bits", when |-> "some set"]
             op2 == [op |-> "Write", reg |-> g.at["clr"], value |-> "clear bits", when |-> "some clear"]
             ones  == a.bits \cap a.mask
             off == a.mask \ a.bits
             s1  == IF ones = {} THEN s ELSE Ref!Put(s, c, "set", ones)
             s2  == IF off = {} THEN s1 ELSE Ref!Put(s1, c, "clr", off)
             t1  == Step(op1, mm, Oracle)
             t2  == Step(op2, t1, Oracle)
  <2>1. "set" \in DOMAIN c.at /\ "clr" \in DOMAIN c.at /\ Ref!Paired(c)
    BY <1>1, SameFields DEF Ref!Has, Ref!Paired
  <2>a. c.at["set"] = <<g.at["set"], u.bank>> /\ c.at["clr"] = <<g.at["clr"], u.bank>>
    BY <1>c, <2>1
  <2>2. SetMultipleBody(g) = <<op1>> \o <<op2>>
    BY <1>1, IfWrite DEF SetMultipleBody
  <2>3. Ref!SetMultiple(s, c, a) = s2
    BY <2>1 DEF Ref!SetMultiple
  <2>4. Does(<<op1>>, mm, t1) /\ Does(<<op2>>, t1, t2)
    BY DoesOne
  <2>c. \A x \in SUBSET Width : Flip(x) \cap a.mask = a.mask \ x
    BY <1>0, WidthAssumption DEF Flip
  <2> HIDE DEF c
  <2>5. Mirrors(t1, s1, u, a, o) /\ t1.env = mm.env
    <3>1. CASE ones = {}
      <4>1. ~Holds(op1.when, mm)
        BY <1>a, <3>1, HoldsWhen
      <4>2. t1 = mm
        BY <4>1, SkipAt
      <4> QED BY <3>1, <4>2
    <3>2. CASE ones # {}
      <4>1. Holds("some set", mm)
        BY <1>a, <3>2, HoldsWhen
      <4>2. Eval("set bits", mm, Oracle) \cap Width = ones \cap Width
        BY <1>a, EvalIs
      <4> HIDE DEF ones, off, s1, s2, t2, op2
      <4>3. Mirrors(t1, Ref!Put(s, c, "set", ones), u, a, o)
        BY <1>c, <2>1, <2>a, <4>1, <4>2, WriteAt
      <4>4. t1.env = mm.env
        <5>1. "env" \in DOMAIN mm /\ op1.op = "Write"
          BY DEF Mirrors, Memory
        <5> HIDE DEF op1
        <5> QED BY ONLY <5>1, WriteEnv
      <4> QED BY <3>2, <4>3, <4>4 DEF s1
    <3> QED BY <3>1, <3>2
  <2> HIDE DEF t1, s1
  <2>6. Mirrors(t2, s2, u, a, o)
    <3>1. CASE off = {}
      <4>1. ~Holds(op2.when, t1)
        BY <1>0, <1>a, <2>5, <2>c, <3>1, HoldsWhen
      <4>2. t2 = t1
        BY <4>1, SkipAt
      <4> QED BY <2>5, <3>1, <4>2
    <3>2. CASE off # {}
      <4>1. Holds("some clear", t1)
        BY <1>0, <1>a, <2>5, <2>c, <3>2, HoldsWhen
      <4>0. Eval("clear bits", t1, Oracle) = Flip(t1.env["bits"]) \cap t1.env["mask"]
        BY EvalIs
      <4>2. Eval("clear bits", t1, Oracle) \cap Width = off \cap Width
        BY <1>0, <1>a, <2>5, <2>c, <4>0
      <4> HIDE DEF off, s2
      <4>3. Mirrors(t2, Ref!Put(s1, c, "clr", off), u, a, o)
        BY <1>c, <2>1, <2>a, <2>5, <4>1, <4>2, WriteAt
      <4> QED BY <3>2, <4>3 DEF s2
    <3> QED BY <3>1, <3>2
  <2> HIDE DEF t2, s2, op1, op2
  <2>7. Does(SetMultipleBody(g), mm, t2)
    BY <2>2, <2>4, DoesThen
  <2> QED BY <2>3, <2>6, <2>7 DEF Leads, c
<1>2. CASE ~SetClr(g)
  <2> DEFINE op1  == [op |-> "StateRead", field |-> "gpio_sdata", when |-> "always"]
             op2  == [op |-> "StateWrite", field |-> "gpio_sdata", value |-> "next many", when |-> "always"]
             op3  == [op |-> "Write", reg |-> g.at[OutReg(g)], value |-> "next many", when |-> "always"]
             next == ((s.sdata \ a.mask) \cup (a.bits \cap a.mask)) \cap Width
             t1   == Step(op1, mm, Oracle)
             t2   == Step(op2, t1, Oracle)
             t3   == Step(op3, t2, Oracle)
             s1   == [s EXCEPT !.sdata = next]
             s2   == Ref!Put(s1, c, OutReg(g), next)
  <2>1. Ref!SetMultiple(s, c, a) = s2
    BY <1>2, SameFields DEF Ref!SetMultiple
  <2>2. SetMultipleBody(g) = (<<op1>> \o <<op2>>) \o <<op3>>
    BY <1>2 DEF SetMultipleBody, StRd, StWr, Wr
  <2>3. Mirrors(t1, s, u, a, o) /\ t1.env["gpio_sdata"] = s.sdata
    <3>1. StateOf(s, u)["gpio_sdata"] = s.sdata
      BY DEF StateOf
    <3> QED BY <3>1, StateReadAt
  <2>4. t1.env["mask"] = a.mask /\ t1.env["bits"] = a.bits
    BY <2>3, MirrorsArguments
  <2>5. Does(<<op1>>, mm, t1) /\ Does(<<op2>>, t1, t2) /\ Does(<<op3>>, t2, t3)
    BY DoesOne
  <2>6. OutReg(g) \in DOMAIN c.at /\ c.at[OutReg(g)] = <<g.at[OutReg(g)], u.bank>>
    BY <1>c, DatThere
  <2> HIDE DEF c, t1
  <2>7. Eval("next many", t1, Oracle) \cap Width = next
    BY <2>3, <2>4, EvalNext
  <2>8. next \in SUBSET Width /\ next \cap Width = next
    OBVIOUS
  <2> HIDE DEF next
  <2>9. Mirrors(t2, s1, u, a, o) /\ t2.env = t1.env
    BY <2>3, <2>7, <2>8, DataWriteAt
  <2> HIDE DEF t2, s1
  <2>10. Eval("next many", t2, Oracle) \cap Width = next \cap Width
    <3>1. t2.env = t1.env
      BY <2>9
    <3>2. Eval("next many", t2, Oracle) = Eval("next many", t1, Oracle)
      BY ONLY NextDataSame, <3>1
    <3> QED BY ONLY <2>7, <2>8, <3>2
  <2>11. Holds("always", t2)
    BY HoldsWhen
  <2>12. Mirrors(t3, s2, u, a, o)
    BY <1>c, <2>6, <2>9, <2>10, <2>11, WriteAt
  <2> HIDE DEF t3, s2, op1, op2, op3
  <2>13. Does(SetMultipleBody(g), mm, t3)
    <3>1. Does(<<op1>> \o <<op2>>, mm, t2)
      BY <2>5, DoesThen
    <3> QED BY <2>2, <2>5, <3>1, DoesThen
  <2> QED BY <2>1, <2>12, <2>13 DEF Leads, c
<1> QED BY <1>1, <1>2

\* Reading the selector, where there is one, changes nothing that matters.
LEMMA SelectorLeads ==
  ASSUME NEW g, NEW mm, NEW s, NEW u, NEW a, NEW o, Mirrors(mm, s, u, a, o)
  PROVE  Leads(Selector(g), mm, s, u, a, o)
<1> DEFINE op == [op |-> "StateRead", field |-> "gpio_config_variant", when |-> "always"]
           t  == Step(op, mm, Oracle)
<1>1. CASE Selectable(g)
  <2>1. Selector(g) = <<op>>
    BY <1>1 DEF Selector, Only, StRd
  <2>2. Mirrors(t, s, u, a, o)
    BY StateReadAt
  <2>3. Does(<<op>>, mm, t)
    BY DoesOne
  <2> QED BY <2>1, <2>2, <2>3 DEF Leads
<1>2. CASE ~Selectable(g)
  <2>1. Selector(g) = <<>>
    BY <1>2 DEF Selector, Only
  <2> QED BY <2>1, DoesNone DEF Leads
<1> QED BY <1>1, <1>2

\* The direction registers the unit has.
LEMMA DirectionRegisters ==
  ASSUME NEW g \in Configs, NEW u \in Units(g), Supported(g)
  PROVE  LET c == Active(g, u)
         IN  /\ Selectable(g) => /\ g.at["dirin"] = g.at["dirout"] /\ u.variant \in {0, 1}
                                 /\ Ref!Has(c, "dirout") <=> u.variant = 0
                                 /\ Ref!Has(c, "dirin") <=> u.variant = 1
             /\ ~Selectable(g) => /\ Ref!Has(c, "dirout") <=> Present(g, "dirout")
                                  /\ Ref!Has(c, "dirin") <=> Present(g, "dirin")
                                  /\ ~(Present(g, "dirout") /\ Present(g, "dirin"))
<1> DEFINE c == Active(g, u)
<1>0. DOMAIN c.at = IF Selectable(g) THEN DOMAIN g.at \ {IF u.variant = 0 THEN "dirin" ELSE "dirout"}
                    ELSE DOMAIN g.at
  BY UnitChip
<1>1. Selectable(g) => u.variant \in {0, 1}
  BY DEF Units
<1>2. Selectable(g) => "dirin" \in DOMAIN g.at /\ "dirout" \in DOMAIN g.at /\ g.at["dirin"] = g.at["dirout"]
  BY DEF Selectable, Both, Present
<1>3. ~Selectable(g) => ~(Present(g, "dirout") /\ Present(g, "dirin"))
  BY DEF Supported, Both
<1> HIDE DEF c
<1>4. CASE Selectable(g)
  BY <1>0, <1>1, <1>2, <1>4 DEF Ref!Has, c
<1>5. CASE ~Selectable(g)
  BY <1>0, <1>3, <1>5 DEF Ref!Has, Present, c
<1> QED BY <1>4, <1>5

\* One write, and no more than the reference puts.
LEMMA WriteLeads ==
  ASSUME NEW mm, NEW s, NEW u, NEW a, NEW o, Mirrors(mm, s, u, a, o), Ref!ChipsOK,
         NEW c \in Chips, NEW f \in DOMAIN c.at, NEW g, NEW h, c.at[f] = <<g.at[h], u.bank>>,
         NEW value, NEW v, Eval(value, mm, Oracle) \cap Width = v \cap Width
  PROVE  Leads(Wr(g, h, value), mm, Ref!Put(s, c, f, v), u, a, o)
<1> DEFINE op == [op |-> "Write", reg |-> g.at[h], value |-> value, when |-> "always"]
           t  == Step(op, mm, Oracle)
<1>1. Wr(g, h, value) = <<op>>
  BY DEF Wr
<1>2. Does(<<op>>, mm, t)
  BY DoesOne
<1>3. Holds("always", mm)
  BY HoldsWhen
<1>4. Mirrors(t, Ref!Put(s, c, f, v), u, a, o)
  BY <1>3, WriteAt
<1> QED BY <1>1, <1>2, <1>4 DEF Leads

LEMMA NothingLeads ==
  ASSUME NEW mm, NEW s, NEW u, NEW a, NEW o, Mirrors(mm, s, u, a, o)
  PROVE  Leads(<<>>, mm, s, u, a, o)
BY DoesNone DEF Leads

LEMMA LeadsThen ==
  ASSUME NEW x, NEW y, NEW mm, NEW s, NEW u, NEW a, NEW o, Leads(x, mm, s, u, a, o),
         NEW s1, \A t : Mirrors(t, s, u, a, o) => Leads(y, t, s1, u, a, o)
  PROVE  Leads(x \o y, mm, s1, u, a, o)
<1>1. PICK t : Does(x, mm, t) /\ Mirrors(t, s, u, a, o)
  BY DEF Leads
<1>2. PICK t1 : Does(y, t, t1) /\ Mirrors(t1, s1, u, a, o)
  BY <1>1 DEF Leads
<1>3. Does(x \o y, mm, t1)
  BY <1>1, <1>2, DoesThen
<1> QED BY <1>2, <1>3 DEF Leads

LEMMA DirectionLeads ==
  ASSUME NEW g \in Configs, NEW u \in Units(g), Supported(g), Ref!ChipsOK,
         NEW mm, NEW s, NEW a, NEW o, Mirrors(mm, s, u, a, o), Single(a), NEW output \in BOOLEAN
  PROVE  Leads(IF output THEN OutputBody(g) ELSE InputBody(g), mm,
               Ref!SetDirection(s, Active(g, u), a, output), u, a, o)
<1> DEFINE c    == Active(g, u)
           e1   == IF output THEN "dir out" ELSE "dir in"
           e2   == IF output THEN "~dir out" ELSE "~dir in"
           e3   == IF output THEN "dir out by variant" ELSE "dir in by variant"
           x    == IF output THEN s.sdir \cup {a.offset} ELSE s.sdir \ {a.offset}
           next == x \cap Width
           s1   == [s EXCEPT !.sdir = next]
           s2   == IF Ref!Has(c, "dirin") THEN Ref!Put(s1, c, "dirin", Width \ next) ELSE s1
           s3   == IF Ref!Has(c, "dirout") THEN Ref!Put(s2, c, "dirout", next) ELSE s2
           op1  == [op |-> "StateRead", field |-> "gpio_sdir", when |-> "always"]
           op2  == [op |-> "StateWrite", field |-> "gpio_sdir", value |-> e1, when |-> "always"]
           rest == IF Selectable(g) THEN Wr(g, "dirout", e3)
                   ELSE For(g, "dirout", Wr(g, "dirout", e1)) \o For(g, "dirin", Wr(g, "dirin", e2))
<1>1. (IF output THEN OutputBody(g) ELSE InputBody(g)) = ((Selector(g) \o <<op1>>) \o <<op2>>) \o rest
  <2>1. CASE output = TRUE
    BY <2>1 DEF OutputBody, DirectionBody, StRd, StWr
  <2>2. CASE output = FALSE
    BY <2>2 DEF InputBody, DirectionBody, StRd, StWr
  <2> QED BY <2>1, <2>2
<1>2. Ref!SetDirection(s, c, a, output) = s3
  BY DEF Ref!SetDirection
<1>3. PICK t0 : Does(Selector(g), mm, t0) /\ Mirrors(t0, s, u, a, o)
  BY SelectorLeads DEF Leads
<1> DEFINE t1 == Step(op1, t0, Oracle)
           t2 == Step(op2, t1, Oracle)
<1>4. Mirrors(t1, s, u, a, o) /\ t1.env["gpio_sdir"] = s.sdir
  <2>1. StateOf(s, u)["gpio_sdir"] = s.sdir
    BY DEF StateOf
  <2> QED BY <1>3, <2>1, StateReadAt
<1>5. t1.env["offset"] = a.offset
  BY <1>4, MirrorsArguments
<1>6. Does(<<op1>>, t0, t1) /\ Does(<<op2>>, t1, t2)
  BY DoesOne
<1>c. c \in Chips /\ \A f \in DOMAIN c.at : c.at[f] = <<g.at[f], u.bank>>
  BY UnitChip
<1> HIDE DEF c, t1
<1>7. Eval(e1, t1, Oracle) = x
  <2>1. Eval("dir in", t1, Oracle) = s.sdir \ {a.offset}
    BY <1>4, <1>5, EvalNext
  <2>2. Eval("dir out", t1, Oracle) = s.sdir \cup {a.offset}
    BY <1>4, <1>5, EvalNext
  <2> QED BY <2>1, <2>2
<1>8. next \in SUBSET Width /\ next \cap Width = next
  OBVIOUS
<1> HIDE DEF x, e1
<1>9. Eval(e1, t1, Oracle) \cap Width = next
  BY <1>7
<1>n. next = x \cap Width
  OBVIOUS
<1> HIDE DEF next
<1>10. Mirrors(t2, s1, u, a, o) /\ t2.env = t1.env
  BY <1>4, <1>8, <1>9, DirWriteAt
<1> HIDE DEF t2, s1
<1>11. /\ Eval(e1, t2, Oracle) = x
       /\ Eval(e2, t2, Oracle) = Flip(x)
       /\ Eval(e3, t2, Oracle) = IF u.variant # 0 THEN Flip(x) ELSE x
  <2>1. t2.env["gpio_sdir"] = s.sdir /\ t2.env["offset"] = a.offset
    BY <1>4, <1>5, <1>10
  <2>2. Chosen(x, t2, Oracle) = IF u.variant # 0 THEN Flip(x) ELSE x
    BY <1>10, VariantIs
  <2>3. CASE output = TRUE
    <3>1. x = s.sdir \cup {a.offset}
      BY <2>3 DEF x
    <3>2. /\ Eval("dir out", t2, Oracle) = x
          /\ Eval("~dir out", t2, Oracle) = Flip(x)
          /\ Eval("dir out by variant", t2, Oracle) = Chosen(x, t2, Oracle)
      BY <2>1, <3>1, EvalNext
    <3> QED BY <2>2, <2>3, <3>2 DEF e1
  <2>4. CASE output = FALSE
    <3>1. x = s.sdir \ {a.offset}
      BY <2>4 DEF x
    <3>2. /\ Eval("dir in", t2, Oracle) = x
          /\ Eval("~dir in", t2, Oracle) = Flip(x)
          /\ Eval("dir in by variant", t2, Oracle) = Chosen(x, t2, Oracle)
      BY <2>1, <3>1, EvalNext
    <3> QED BY <2>2, <2>4, <3>2 DEF e1
  <2> QED BY <2>3, <2>4
<1>12. Flip(x) \cap Width = (Width \ next) \cap Width
  BY <1>n, WidthAssumption DEF Flip
<1>13. x \cap Width = next \cap Width
  BY <1>n
<1> HIDE DEF e2, e3
<1>14. Leads(rest, t2, s3, u, a, o)
  <2>1. CASE Selectable(g)
    <3>1. /\ g.at["dirin"] = g.at["dirout"] /\ u.variant \in {0, 1}
          /\ Ref!Has(c, "dirout") <=> u.variant = 0
          /\ Ref!Has(c, "dirin") <=> u.variant = 1
      BY <2>1, DirectionRegisters DEF c
    <3>2. CASE u.variant = 0
      <4>1. s3 = Ref!Put(s1, c, "dirout", next)
        BY <3>1, <3>2
      <4>2. "dirout" \in DOMAIN c.at
        BY <3>1, <3>2 DEF Ref!Has
      <4>3. c.at["dirout"] = <<g.at["dirout"], u.bank>>
        BY <1>c, <4>2
      <4>4. Eval(e3, t2, Oracle) \cap Width = next \cap Width
        BY <1>11, <1>13, <3>2
      <4> HIDE DEF s3
      <4>5. Leads(Wr(g, "dirout", e3), t2, Ref!Put(s1, c, "dirout", next), u, a, o)
        BY <1>c, <1>10, <4>2, <4>3, <4>4, WriteLeads
      <4> QED BY <2>1, <4>1, <4>5
    <3>3. CASE u.variant = 1
      <4>1. s3 = Ref!Put(s1, c, "dirin", Width \ next)
        BY <3>1, <3>3
      <4>2. "dirin" \in DOMAIN c.at
        BY <3>1, <3>3 DEF Ref!Has
      <4>3. c.at["dirin"] = <<g.at["dirout"], u.bank>>
        BY <1>c, <3>1, <4>2
      <4>4. Eval(e3, t2, Oracle) \cap Width = (Width \ next) \cap Width
        BY <1>11, <1>12, <3>3
      <4> HIDE DEF s3
      <4>5. Leads(Wr(g, "dirout", e3), t2, Ref!Put(s1, c, "dirin", Width \ next), u, a, o)
        BY <1>c, <1>10, <4>2, <4>3, <4>4, WriteLeads
      <4> QED BY <2>1, <4>1, <4>5
    <3> QED BY <3>1, <3>2, <3>3
  <2>2. CASE ~Selectable(g)
    <3> DEFINE y == For(g, "dirout", Wr(g, "dirout", e1))
               z == For(g, "dirin", Wr(g, "dirin", e2))
    <3>1. /\ Ref!Has(c, "dirout") <=> Present(g, "dirout")
          /\ Ref!Has(c, "dirin") <=> Present(g, "dirin")
          /\ ~(Present(g, "dirout") /\ Present(g, "dirin"))
      BY <2>2, DirectionRegisters DEF c
    <3>2. CASE Present(g, "dirout")
      <4>1. s3 = Ref!Put(s1, c, "dirout", next)
        BY <3>1, <3>2
      <4>2. "dirout" \in DOMAIN c.at
        BY <3>1, <3>2 DEF Ref!Has
      <4>3. c.at["dirout"] = <<g.at["dirout"], u.bank>>
        BY <1>c, <4>2
      <4>4. Eval(e1, t2, Oracle) \cap Width = next \cap Width
        BY <1>11, <1>13
      <4> HIDE DEF s3
      <4>5. Leads(Wr(g, "dirout", e1), t2, Ref!Put(s1, c, "dirout", next), u, a, o)
        BY <1>c, <1>10, <4>2, <4>3, <4>4, WriteLeads
      <4>6. y = Wr(g, "dirout", e1) /\ z = <<>>
        BY <3>1, <3>2 DEF For
      <4> HIDE DEF y, z
      <4>7. Leads(y, t2, s3, u, a, o)
        BY <4>1, <4>5, <4>6
      <4>8. Leads(y \o z, t2, s3, u, a, o)
        BY <4>6, <4>7, NothingLeads, LeadsThen
      <4> QED BY <2>2, <4>8 DEF y, z
    <3>3. CASE Present(g, "dirin")
      <4>1. s3 = Ref!Put(s1, c, "dirin", Width \ next)
        BY <3>1, <3>3
      <4>2. "dirin" \in DOMAIN c.at
        BY <3>1, <3>3 DEF Ref!Has
      <4>3. c.at["dirin"] = <<g.at["dirin"], u.bank>>
        BY <1>c, <4>2
      <4>4. Eval(e2, t2, Oracle) \cap Width = (Width \ next) \cap Width
        BY <1>11, <1>12
      <4> HIDE DEF s3
      <4>5. Leads(Wr(g, "dirin", e2), t2, Ref!Put(s1, c, "dirin", Width \ next), u, a, o)
        BY <1>c, <1>10, <4>2, <4>3, <4>4, WriteLeads
      <4>6. y = <<>> /\ z = Wr(g, "dirin", e2)
        BY <3>1, <3>3 DEF For
      <4> HIDE DEF y, z
      <4>7. PICK t3 : Does(z, t2, t3) /\ Mirrors(t3, s3, u, a, o)
        BY <4>1, <4>5, <4>6 DEF Leads
      <4>8. Does(y, t2, t2)
        BY <4>6, DoesNone
      <4>9. Does(y \o z, t2, t3)
        BY <4>7, <4>8, DoesThen
      <4>10. Leads(y \o z, t2, s3, u, a, o)
        BY <4>7, <4>9 DEF Leads
      <4> QED BY <2>2, <4>10 DEF y, z
    <3>4. CASE ~Present(g, "dirout") /\ ~Present(g, "dirin")
      <4>1. s3 = s1
        BY <3>1, <3>4
      <4>2. y = <<>> /\ z = <<>>
        BY <3>4 DEF For
      <4> HIDE DEF y, z, s3
      <4>3. Leads(y, t2, s3, u, a, o)
        BY <1>10, <4>1, <4>2, NothingLeads
      <4>4. Leads(y \o z, t2, s3, u, a, o)
        BY <4>2, <4>3, NothingLeads, LeadsThen
      <4> QED BY <2>2, <4>4 DEF y, z
    <3> QED BY <3>2, <3>3, <3>4
  <2> QED BY <2>1, <2>2
<1>15. PICK t3 : Does(rest, t2, t3) /\ Mirrors(t3, s3, u, a, o)
  BY <1>14 DEF Leads
<1> HIDE DEF rest, s3, op1, op2
<1>16. Does(((Selector(g) \o <<op1>>) \o <<op2>>) \o rest, mm, t3)
  <2>1. Does(Selector(g) \o <<op1>>, mm, t1)
    BY <1>3, <1>6, DoesThen
  <2>2. Does((Selector(g) \o <<op1>>) \o <<op2>>, mm, t2)
    BY <1>6, <2>1, DoesThen
  <2> QED BY <1>15, <2>2, DoesThen
<1> QED BY <1>1, <1>2, <1>15, <1>16 DEF Leads, c

LEMMA DirectionOutputLeads ==
  ASSUME NEW g \in Configs, NEW u \in Units(g), Supported(g), Ref!ChipsOK,
         NEW mm, NEW s, NEW a, NEW o, Mirrors(mm, s, u, a, o), Single(a)
  PROVE  Leads(IF "NO_SET_ON_INPUT" \in g.flags THEN OutputBody(g) \o SetBody(g)
               ELSE SetBody(g) \o OutputBody(g),
               mm, Ref!DirectionOutput(s, Active(g, u), a), u, a, o)
<1> DEFINE c == Active(g, u)
<1>1. "NO_SET_ON_INPUT" \in c.flags <=> "NO_SET_ON_INPUT" \in g.flags
  BY UnitChip DEF Known
<1> HIDE DEF c
<1>2. \A t, s1 : Mirrors(t, s1, u, a, o) => Leads(SetBody(g), t, Ref!SetValue(s1, c, a), u, a, o)
  BY SetBodyLeads DEF c
<1>3. \A t, s1 : Mirrors(t, s1, u, a, o) => Leads(OutputBody(g), t, Ref!SetDirection(s1, c, a, TRUE), u, a, o)
  <2> SUFFICES ASSUME NEW t, NEW s1, Mirrors(t, s1, u, a, o)
               PROVE  Leads(OutputBody(g), t, Ref!SetDirection(s1, c, a, TRUE), u, a, o)
    OBVIOUS
  <2>1. Leads(IF TRUE THEN OutputBody(g) ELSE InputBody(g), t, Ref!SetDirection(s1, c, a, TRUE), u, a, o)
    BY DirectionLeads DEF c
  <2> QED BY <2>1
<1>4. CASE "NO_SET_ON_INPUT" \in g.flags
  <2> DEFINE s1 == Ref!SetDirection(s, c, a, TRUE)
             s2 == Ref!SetValue(s1, c, a)
  <2>1. Ref!DirectionOutput(s, c, a) = s2
    BY <1>1, <1>4 DEF Ref!DirectionOutput
  <2>2. Leads(OutputBody(g), mm, s1, u, a, o)
    BY <1>3
  <2>3. \A t : Mirrors(t, s1, u, a, o) => Leads(SetBody(g), t, s2, u, a, o)
    BY <1>2
  <2> HIDE DEF s1, s2
  <2>4. Leads(OutputBody(g) \o SetBody(g), mm, s2, u, a, o)
    BY <2>2, <2>3, LeadsThen
  <2> QED BY <1>4, <2>1, <2>4 DEF c
<1>5. CASE "NO_SET_ON_INPUT" \notin g.flags
  <2> DEFINE s1 == Ref!SetValue(s, c, a)
             s2 == Ref!SetDirection(s1, c, a, TRUE)
  <2>1. Ref!DirectionOutput(s, c, a) = s2
    BY <1>1, <1>5 DEF Ref!DirectionOutput
  <2>2. Leads(SetBody(g), mm, s1, u, a, o)
    BY <1>2
  <2>3. \A t : Mirrors(t, s1, u, a, o) => Leads(OutputBody(g), t, s2, u, a, o)
    BY <1>3
  <2> HIDE DEF s1, s2
  <2>4. Leads(SetBody(g) \o OutputBody(g), mm, s2, u, a, o)
    BY <2>2, <2>3, LeadsThen
  <2> QED BY <1>5, <2>1, <2>4 DEF c
<1> QED BY <1>4, <1>5

(* A callback from its entry to its return.                                *)

\* Carried out in mm, ops return, in the state s, the words o and the result r.
Ends(ops, mm, s, u, o, r) == \E t : Does(ops, mm, t) /\ Over(t, s, u, o, r)

LEMMA LeadsEnds ==
  ASSUME NEW x, NEW y, NEW mm, NEW s, NEW u, NEW a, NEW o, Leads(x, mm, s, u, a, o),
         NEW s1, NEW o1, NEW r, \A t : Mirrors(t, s, u, a, o) => Ends(y, t, s1, u, o1, r)
  PROVE  Ends(x \o y, mm, s1, u, o1, r)
<1>1. PICK t : Does(x, mm, t) /\ Mirrors(t, s, u, a, o)
  BY DEF Leads
<1>2. PICK t1 : Does(y, t, t1) /\ Over(t1, s1, u, o1, r)
  BY <1>1 DEF Ends
<1>3. Does(x \o y, mm, t1)
  BY <1>1, <1>2, DoesThen
<1> QED BY <1>2, <1>3 DEF Ends

LEMMA RetEnds ==
  ASSUME NEW mm, NEW s, NEW u, NEW a, NEW o, Mirrors(mm, s, u, a, o), NEW value
  PROVE  Ends(Ret(value), mm, s, u, o, ReturnValue(value, mm, Oracle))
<1> DEFINE op == [op |-> "Return", value |-> value, when |-> "always"]
           t  == Step(op, mm, Oracle)
<1>1. Ret(value) = <<op>>
  BY DEF Ret
<1>2. Does(<<op>>, mm, t)
  BY DoesOne
<1>3. Over(t, s, u, o, ReturnValue(value, mm, Oracle))
  BY ReturnAt
<1> QED BY <1>1, <1>2, <1>3 DEF Ends

LEMMA ZeroEnds ==
  ASSUME NEW x, NEW mm, NEW s, NEW u, NEW a, NEW o, Leads(x, mm, s, u, a, o)
  PROVE  Ends(x \o Ret("0"), mm, s, u, o, 0)
<1>1. \A t : Mirrors(t, s, u, a, o) => Ends(Ret("0"), t, s, u, o, 0)
  <2> SUFFICES ASSUME NEW t, Mirrors(t, s, u, a, o) PROVE Ends(Ret("0"), t, s, u, o, 0)
    OBVIOUS
  <2>1. Ends(Ret("0"), t, s, u, o, ReturnValue("0", t, Oracle))
    BY RetEnds
  <2> QED BY <2>1, ReturnIs
<1> QED BY <1>1, LeadsEnds

\* Read a register, return what of it is asked for.
LEMMA ReadEnds ==
  ASSUME NEW mm, NEW s, NEW u, NEW a, NEW o, Mirrors(mm, s, u, a, o), Ref!ChipsOK,
         NEW c \in Chips, NEW f \in DOMAIN c.at, NEW g, NEW h, c.at[f] = <<g.at[h], u.bank>>,
         NEW value, NEW r,
         \A t : /\ Mirrors(t, Ref!Look(s, c, f), u, a, o)
                /\ t.env["word"] = s.regs[c.at[f]]
                => ReturnValue(value, t, Oracle) = r
  PROVE  Ends(Rd(g, h, "word") \o Ret(value), mm, Ref!Look(s, c, f), u, o, r)
<1> DEFINE op == [op |-> "Read", reg |-> g.at[h], var |-> "word", when |-> "always"]
           t  == Step(op, mm, Oracle)
           s1 == Ref!Look(s, c, f)
<1>1. Rd(g, h, "word") = <<op>>
  BY DEF Rd
<1>2. Does(<<op>>, mm, t)
  BY DoesOne
<1>3. Mirrors(t, s1, u, a, o) /\ t.env["word"] = s.regs[c.at[f]]
  BY ReadAt
<1>4. ReturnValue(value, t, Oracle) = r
  BY <1>3
<1> HIDE DEF t, s1
<1>5. Ends(Ret(value), t, s1, u, o, r)
  BY <1>3, <1>4, RetEnds
<1>6. PICK t1 : Does(Ret(value), t, t1) /\ Over(t1, s1, u, o, r)
  BY <1>5 DEF Ends
<1> HIDE DEF op
<1>7. Does(<<op>> \o Ret(value), mm, t1)
  BY <1>2, <1>6, DoesThen
<1> QED BY <1>1, <1>6, <1>7 DEF Ends, s1

\* Entering a callback, which looks its bank up first.
LEMMA Entered ==
  ASSUME NEW g \in Configs, NEW u \in Units(g), NEW s \in ChipState, s.trace = <<>>, NEW a
  PROVE  Leads(Bank(g), Enter(s.regs, StateOf(s, u), a), s, u, a, OutputsOf(a))
<1> DEFINE mm == Enter(s.regs, StateOf(s, u), a)
           op == [op |-> "StateRead", field |-> "gpio_bank_index", when |-> "always"]
           t  == Step(op, mm, Oracle)
           e  == [Env(a) EXCEPT !["gpio_bank_index"] = u.bank]
<1>1. mm \in Memory(s.regs, StateOf(s, u), Env(a), OutputsOf(a), s.trace)
  BY DEF Enter, Memory
<1>2. DOMAIN Env(a) = EnvNames /\ Env(a)["gpio_bank_index"] = 0
  BY DEF Env, EnvNames, Arguments
<1>3. CASE g.banked
  <2>1. Bank(g) = <<op>>
    BY <1>3 DEF Bank, Only, StRd
  <2>2. StateOf(s, u)["gpio_bank_index"] = u.bank
    BY DEF StateOf
  <2> HIDE DEF mm
  <2>3. t = [mm EXCEPT !.env = e]
    BY <1>1, <2>2 DEF Step, Do, Holds, Memory
  <2>4. /\ DOMAIN e = EnvNames /\ e["gpio_bank_index"] = u.bank
        /\ \A x \in Arguments : e[x] = Env(a)[x]
    BY <1>2 DEF EnvNames, Arguments
  <2> HIDE DEF e, t
  <2>5. t \in Memory(s.regs, StateOf(s, u), e, OutputsOf(a), s.trace)
    BY <1>1, <2>3 DEF Memory
  <2>6. t.env = e
    BY <2>5 DEF Memory
  <2>7. Mirrors(t, s, u, a, OutputsOf(a))
    BY <2>4, <2>5, <2>6 DEF Mirrors
  <2>8. Does(<<op>>, mm, t)
    BY DoesOne DEF t
  <2> QED BY <2>1, <2>7, <2>8 DEF Leads, mm
<1>4. CASE ~g.banked
  <2>1. Bank(g) = <<>> /\ u.bank = 0
    BY <1>4 DEF Bank, Only, Units
  <2>2. mm.env = Env(a)
    BY <1>1 DEF Memory
  <2> HIDE DEF mm
  <2>3. Mirrors(mm, s, u, a, OutputsOf(a))
    BY <1>1, <1>2, <2>1, <2>2 DEF Mirrors
  <2> QED BY <2>1, <2>3, NothingLeads DEF mm
<1> QED BY <1>3, <1>4

\* In a unit's chip, a call table with arguments a is answered, and its
\* operations carried out in mm do what the reference does in s.
Obeys(ops, mm, s, u, c, table, a) ==
  /\ Ref!Answers(c, table)
  /\ Ends(ops, mm, Ref!After(table, s, c, a), u, Ref!Outputs(table, s, c, a), Ref!Result(table, s, c, a))

LEMMA InFieldIs ==
  ASSUME NEW g \in Configs, NEW u \in Units(g)
  PROVE  /\ Ref!InField(Active(g, u)) = GetField(g)
         /\ GetField(g) \in {"set", "dat"}
         /\ Ref!Has(Active(g, u), GetField(g)) <=> Present(g, GetField(g))
<1>1. "READ_OUTPUT_SET" \in Active(g, u).flags <=> "READ_OUTPUT_SET" \in g.flags
  BY UnitChip DEF Known
<1>2. Ref!InField(Active(g, u)) = GetField(g) /\ GetField(g) \in {"set", "dat"}
  BY <1>1 DEF Ref!InField, GetField
<1> QED BY <1>2, SameFields

LEMMA SingleOutputs ==
  ASSUME NEW a, Single(a)
  PROVE  OutputsOf(a) = Ref!NoBits
<1>1. DOMAIN a = {"offset", "value"}
  BY DEF Single
<1>2. DOMAIN a \cap {"mask", "bits"} = {}
  BY <1>1
<1> QED BY <1>2 DEF OutputsOf, Ref!NoBits

LEMMA ManyOutputs ==
  ASSUME NEW a, Many(a)
  PROVE  /\ OutputsOf(a) = [mask |-> a.mask, bits |-> a.bits]
         /\ \A b : [OutputsOf(a) EXCEPT !.bits = b] = [mask |-> a.mask, bits |-> b]
<1>1. DOMAIN a = {"mask", "bits"} /\ a["mask"] = a.mask /\ a["bits"] = a.bits
  BY DEF Many
<1>2. DOMAIN a \cap {"mask", "bits"} = {"mask", "bits"}
  BY <1>1
<1>3. OutputsOf(a) = [x \in {"mask", "bits"} |-> a[x]]
  BY <1>2 DEF OutputsOf
<1>4. OutputsOf(a) \in [mask : {a.mask}, bits : {a.bits}]
  BY <1>1, <1>3
<1>5. OutputsOf(a) = [mask |-> a.mask, bits |-> a.bits]
  BY <1>4
<1> QED BY <1>5

LEMMA GetObeys ==
  ASSUME NEW g \in Configs, NEW u \in Units(g), Ref!ChipsOK, GetOps(g) # <<>>,
         NEW mm, NEW s, NEW a, Mirrors(mm, s, u, a, OutputsOf(a)), Single(a)
  PROVE  Obeys(GetOps(g), mm, s, u, Active(g, u), "get", a)
<1> DEFINE c == Active(g, u)
           f == GetField(g)
           r == Ref!Bit(a.offset \in s.regs[c.at[f]])
           o == OutputsOf(a)
<1>1. Present(g, f) /\ GetOps(g) = Rd(g, f, "word") \o Ret("bit of word")
  BY DEF GetOps, For
<1>2. Ref!Answers(c, "get")
  BY <1>1, InFieldIs DEF Ref!Answers
<1>3. /\ Ref!After("get", s, c, a) = Ref!Look(s, c, f)
      /\ Ref!Outputs("get", s, c, a) = o
      /\ Ref!Result("get", s, c, a) = r
  BY InFieldIs, SingleOutputs DEF Ref!After, Ref!Outputs, Ref!Result, Ref!Reg
<1>4. c \in Chips /\ f \in DOMAIN c.at
  BY <1>1, InFieldIs, UnitChip DEF Ref!Has
<1>5. c.at[f] = <<g.at[f], u.bank>>
  BY <1>4, UnitChip
<1> HIDE DEF c, f, o
<1>6. \A t : Mirrors(t, Ref!Look(s, c, f), u, a, o) /\ t.env["word"] = s.regs[c.at[f]]
               => ReturnValue("bit of word", t, Oracle) = r
  <2> SUFFICES ASSUME NEW t, Mirrors(t, Ref!Look(s, c, f), u, a, o), t.env["word"] = s.regs[c.at[f]]
               PROVE  ReturnValue("bit of word", t, Oracle) = r
    OBVIOUS
  <2>1. t.env["offset"] = a.offset
    BY MirrorsArguments
  <2> QED BY <2>1, ReturnIs DEF One, Ref!Bit
<1> HIDE DEF r
<1>7. Mirrors(mm, s, u, a, o)
  BY DEF o
<1>8. Ends(Rd(g, f, "word") \o Ret("bit of word"), mm, Ref!Look(s, c, f), u, o, r)
  BY <1>4, <1>5, <1>6, <1>7, ReadEnds
<1> QED BY <1>1, <1>2, <1>3, <1>8 DEF Obeys, c

LEMMA GetMultipleObeys ==
  ASSUME NEW g \in Configs, NEW u \in Units(g), Ref!ChipsOK, GetMultipleOps(g) # <<>>,
         NEW mm, NEW s, NEW a, Mirrors(mm, s, u, a, OutputsOf(a)), Many(a)
  PROVE  Obeys(GetMultipleOps(g), mm, s, u, Active(g, u), "get_multiple", a)
<1> DEFINE c   == Active(g, u)
           f   == GetField(g)
           w   == s.regs[c.at[f]]
           b   == (a.bits \ a.mask) \cup (w \cap a.mask)
           o   == OutputsOf(a)
           o1  == [mask |-> a.mask, bits |-> b]
           s1  == Ref!Look(s, c, f)
           op1 == [op |-> "Read", reg |-> g.at[f], var |-> "word", when |-> "always"]
           op2 == [op |-> "OutputWrite", value |-> "merged", when |-> "always"]
           t1  == Step(op1, mm, Oracle)
           t2  == Step(op2, t1, Oracle)
<1>1. Present(g, f) /\ GetMultipleOps(g) = (<<op1>> \o <<op2>>) \o Ret("0")
  BY DEF GetMultipleOps, For, Rd, OutWr
<1>2. Ref!Answers(c, "get_multiple")
  BY <1>1, InFieldIs DEF Ref!Answers
<1>3. /\ Ref!After("get_multiple", s, c, a) = s1
      /\ Ref!Outputs("get_multiple", s, c, a) = o1
      /\ Ref!Result("get_multiple", s, c, a) = 0
  BY InFieldIs DEF Ref!After, Ref!Outputs, Ref!Result, Ref!Reg
<1>4. c \in Chips /\ f \in DOMAIN c.at
  BY <1>1, InFieldIs, UnitChip DEF Ref!Has
<1>5. c.at[f] = <<g.at[f], u.bank>>
  BY <1>4, UnitChip
<1> HIDE DEF c, f, o
<1>6. Mirrors(mm, s, u, a, o)
  BY DEF o
<1>7. Mirrors(t1, s1, u, a, o) /\ t1.env["word"] = w
  BY <1>4, <1>5, <1>6, ReadAt
<1>8. Does(<<op1>>, mm, t1) /\ Does(<<op2>>, t1, t2)
  BY DoesOne
<1>9. t1.env["mask"] = a.mask /\ t1.env["bits"] = a.bits
  BY <1>7, MirrorsArguments
<1> HIDE DEF t1, w
<1>10. Eval("merged", t1, Oracle) = b
  <2>1. Eval("merged", t1, Oracle) = (a.bits \cap Flip(a.mask)) \cup (w \cap a.mask)
    BY <1>7, <1>9, EvalIs
  <2>2. a.bits \subseteq Word
    BY WidthAssumption DEF Many
  <2> QED BY <2>1, <2>2 DEF Flip
<1> HIDE DEF b, s1
<1>11. [o EXCEPT !.bits = b] = o1
  BY ManyOutputs DEF o
<1> HIDE DEF o1
<1>12. Mirrors(t2, s1, u, a, o1)
  BY <1>7, <1>10, <1>11, OutputAt
<1> HIDE DEF t2, op1, op2
<1>13. Leads(<<op1>> \o <<op2>>, mm, s1, u, a, o1)
  BY <1>8, <1>12, DoesThen DEF Leads
<1>14. Ends((<<op1>> \o <<op2>>) \o Ret("0"), mm, s1, u, o1, 0)
  BY <1>13, ZeroEnds
<1> QED BY <1>1, <1>2, <1>3, <1>14 DEF Obeys, c

\* What a chip with directions answers.
LEMMA DirectionsAnswered ==
  ASSUME NEW g \in Configs, NEW u \in Units(g), Supported(g), Directional(g)
  PROVE  /\ Ref!Has(Active(g, u), "dirout") \/ Ref!Has(Active(g, u), "dirin")
         /\ \A table \in {"direction_input", "direction_output", "get_direction"} :
              Ref!Answers(Active(g, u), table)
<1> DEFINE c == Active(g, u)
<1>1. CASE Selectable(g)
  <2>1. u.variant \in {0, 1} /\ (Ref!Has(c, "dirout") <=> u.variant = 0) /\ (Ref!Has(c, "dirin") <=> u.variant = 1)
    BY <1>1, DirectionRegisters
  <2> QED BY <2>1 DEF Ref!Answers
<1>2. CASE ~Selectable(g)
  <2>1. Ref!Has(c, "dirout") \/ Ref!Has(c, "dirin")
    BY <1>2, DirectionRegisters DEF Directional
  <2> QED BY <2>1 DEF Ref!Answers
<1> QED BY <1>1, <1>2

LEMMA GetDirectionObeys ==
  ASSUME NEW g \in Configs, NEW u \in Units(g), Supported(g), Ref!ChipsOK, SelectorsReadable, Directional(g),
         NEW mm, NEW s, NEW a, Mirrors(mm, s, u, a, OutputsOf(a)), Single(a)
  PROVE  Obeys(GetDirectionOps(g), mm, s, u, Active(g, u), "get_direction", a)
<1> DEFINE c == Active(g, u)
           f == Ref!DirectionField(c)
           r == Ref!Bit(Ref!IsInput(s, c, a))
           o == OutputsOf(a)
           ops == GetDirectionOps(g)
<1>1. Ref!Answers(c, "get_direction") /\ (Ref!Has(c, "dirout") \/ Ref!Has(c, "dirin"))
  BY DirectionsAnswered
<1>2. f \in DOMAIN c.at
  BY <1>1 DEF Ref!DirectionField, Ref!Has
<1>3. /\ Ref!Outputs("get_direction", s, c, a) = o
      /\ Ref!Result("get_direction", s, c, a) = r
      /\ Ref!After("get_direction", s, c, a) = IF "UNREADABLE_DIR" \in c.flags THEN s ELSE Ref!Look(s, c, f)
  BY SingleOutputs DEF Ref!After, Ref!Outputs, Ref!Result
<1>4. "UNREADABLE_DIR" \in c.flags <=> "UNREADABLE_DIR" \in g.flags
  BY UnitChip DEF Known
<1>5. c \in Chips /\ c.at[f] = <<g.at[f], u.bank>>
  BY <1>2, UnitChip
<1>6. Mirrors(mm, s, u, a, o)
  OBVIOUS
<1>7. \A t, s1 : Mirrors(t, s1, u, a, o) => t.env["offset"] = a.offset /\ t.state["gpio_config_variant"] = u.variant
  <2> SUFFICES ASSUME NEW t, NEW s1, Mirrors(t, s1, u, a, o)
               PROVE  t.env["offset"] = a.offset /\ t.state["gpio_config_variant"] = u.variant
    OBVIOUS
  <2>1. t.env["offset"] = a.offset
    BY MirrorsArguments
  <2>2. t.state["gpio_config_variant"] = u.variant
    BY ONLY VariantKept, Mirrors(t, s1, u, a, o)
  <2> QED BY <2>1, <2>2
<1> HIDE DEF o, r, f, ops
<1>8. CASE Selectable(g)
  <2>1. /\ g.at["dirin"] = g.at["dirout"] /\ u.variant \in {0, 1}
        /\ Ref!Has(c, "dirout") <=> u.variant = 0
        /\ Ref!Has(c, "dirin") <=> u.variant = 1
    BY <1>8, DirectionRegisters
  <2>2. "UNREADABLE_DIR" \notin c.flags
    BY <1>4, <1>8 DEF SelectorsReadable
  <2>3. c.at[f] = <<g.at["dirout"], u.bank>>
    BY <1>5, <2>1 DEF f, Ref!DirectionField
  <2>4. ops = Selector(g) \o (Rd(g, "dirout", "word") \o Ret("direction by variant"))
    <3>1. ops = (Selector(g) \o Rd(g, "dirout", "word")) \o Ret("direction by variant")
      BY <1>8 DEF GetDirectionOps, ops
    <3> DEFINE op0 == [op |-> "StateRead", field |-> "gpio_config_variant", when |-> "always"]
               op1 == [op |-> "Read", reg |-> g.at["dirout"], var |-> "word", when |-> "always"]
               op2 == [op |-> "Return", value |-> "direction by variant", when |-> "always"]
    <3>2. Selector(g) = <<op0>> /\ Rd(g, "dirout", "word") = <<op1>> /\ Ret("direction by variant") = <<op2>>
      BY <1>8 DEF Selector, Only, StRd, Rd, Ret
    <3> HIDE DEF op0, op1, op2
    <3>3. <<op0>> \in Seq({op0, op1, op2}) /\ <<op1>> \in Seq({op0, op1, op2}) /\ <<op2>> \in Seq({op0, op1, op2})
      OBVIOUS
    <3>4. (<<op0>> \o <<op1>>) \o <<op2>> = <<op0>> \o (<<op1>> \o <<op2>>)
      BY ONLY <3>3, ConcatAssociative
    <3> QED BY <3>1, <3>2, <3>4, Zenon
  <2>5. r = IF u.variant = 0 THEN Ref!Bit(a.offset \notin s.regs[c.at[f]]) ELSE Ref!Bit(a.offset \in s.regs[c.at[f]])
    BY <2>1, <2>2 DEF r, f, Ref!IsInput, Ref!DirectionField, Ref!Reg
  <2> HIDE DEF c
  <2>6. \A t : Mirrors(t, Ref!Look(s, c, f), u, a, o) /\ t.env["word"] = s.regs[c.at[f]]
                 => ReturnValue("direction by variant", t, Oracle) = r
    BY <1>7, <2>1, <2>5, ReturnIs DEF One, Ref!Bit
  <2>7. \A t : Mirrors(t, s, u, a, o) =>
           Ends(Rd(g, "dirout", "word") \o Ret("direction by variant"), t, Ref!Look(s, c, f), u, o, r)
    BY <1>2, <1>5, <2>3, <2>6, ReadEnds
  <2>8. Leads(Selector(g), mm, s, u, a, o)
    BY <1>6, SelectorLeads
  <2>9. Ends(ops, mm, Ref!Look(s, c, f), u, o, r)
    BY <2>4, <2>7, <2>8, LeadsEnds
  <2> QED BY <1>1, <1>3, <2>2, <2>9 DEF Obeys, c, ops
<1>9. CASE ~Selectable(g) /\ "UNREADABLE_DIR" \in g.flags
  <2> DEFINE op == [op |-> "StateRead", field |-> "gpio_sdir", when |-> "always"]
             t  == Step(op, mm, Oracle)
  <2>1. ops = <<op>> \o Ret("0 if dir")
    BY <1>9 DEF GetDirectionOps, StRd, ops
  <2>2. Mirrors(t, s, u, a, o) /\ t.env["gpio_sdir"] = s.sdir
    <3>1. StateOf(s, u)["gpio_sdir"] = s.sdir
      BY DEF StateOf
    <3> QED BY <1>6, <3>1, StateReadAt
  <2>3. r = Ref!Bit(a.offset \notin s.sdir)
    BY <1>4, <1>9 DEF r, Ref!IsInput
  <2>4. Does(<<op>>, mm, t)
    BY DoesOne
  <2> HIDE DEF t, op, c
  <2>5. ReturnValue("0 if dir", t, Oracle) = r
    BY <1>7, <2>2, <2>3, ReturnIs DEF One, Ref!Bit
  <2>6. Ends(Ret("0 if dir"), t, s, u, o, r)
    BY <2>2, <2>5, RetEnds
  <2>7. PICK t1 : Does(Ret("0 if dir"), t, t1) /\ Over(t1, s, u, o, r)
    BY <2>6 DEF Ends
  <2>8. Does(ops, mm, t1)
    BY <2>1, <2>4, <2>7, DoesThen
  <2>9. Ends(ops, mm, s, u, o, r)
    BY <2>7, <2>8 DEF Ends
  <2> QED BY <1>1, <1>3, <1>4, <1>9, <2>9 DEF Obeys, c, ops
<1>10. CASE ~Selectable(g) /\ "UNREADABLE_DIR" \notin g.flags
  <2> DEFINE y == For(g, "dirout", Rd(g, "dirout", "word") \o Ret("0 if word"))
             z == For(g, "dirin", Rd(g, "dirin", "word") \o Ret("1 if word"))
  <2>1. ops = y \o z
    BY <1>10 DEF GetDirectionOps, ops
  <2>2. /\ Ref!Has(c, "dirout") <=> Present(g, "dirout")
        /\ Ref!Has(c, "dirin") <=> Present(g, "dirin")
        /\ ~(Present(g, "dirout") /\ Present(g, "dirin"))
    BY <1>10, DirectionRegisters
  <2>3. CASE Present(g, "dirout")
    <3>1. y = Rd(g, "dirout", "word") \o Ret("0 if word") /\ z = <<>>
      BY <2>2, <2>3 DEF For
    <3>2. f = "dirout" /\ r = Ref!Bit(a.offset \notin s.regs[c.at[f]])
      BY <1>4, <1>10, <2>2, <2>3 DEF r, f, Ref!IsInput, Ref!DirectionField, Ref!Reg
    <3> HIDE DEF y, z, c
    <3>3. \A t : Mirrors(t, Ref!Look(s, c, f), u, a, o) /\ t.env["word"] = s.regs[c.at[f]]
                   => ReturnValue("0 if word", t, Oracle) = r
      BY <1>7, <3>2, ReturnIs DEF One, Ref!Bit
    <3>4. Ends(y, mm, Ref!Look(s, c, f), u, o, r)
      BY <1>2, <1>5, <1>6, <3>1, <3>2, <3>3, ReadEnds
    <3>5. PICK t1 : Does(y, mm, t1) /\ Over(t1, Ref!Look(s, c, f), u, o, r)
      BY <3>4 DEF Ends
    <3>6. Does(ops, mm, t1)
      BY <2>1, <3>1, <3>5, DoesNone, DoesThen
    <3>7. Ends(ops, mm, Ref!Look(s, c, f), u, o, r)
      BY <3>5, <3>6 DEF Ends
    <3> QED BY <1>1, <1>3, <1>4, <1>10, <3>7 DEF Obeys, c, ops
  <2>4. CASE Present(g, "dirin")
    <3>1. z = Rd(g, "dirin", "word") \o Ret("1 if word") /\ y = <<>>
      BY <2>2, <2>4 DEF For
    <3>2. f = "dirin" /\ r = Ref!Bit(a.offset \in s.regs[c.at[f]])
      BY <1>4, <1>10, <2>2, <2>4 DEF r, f, Ref!IsInput, Ref!DirectionField, Ref!Reg
    <3> HIDE DEF y, z, c
    <3>3. \A t : Mirrors(t, Ref!Look(s, c, f), u, a, o) /\ t.env["word"] = s.regs[c.at[f]]
                   => ReturnValue("1 if word", t, Oracle) = r
      BY <1>7, <3>2, ReturnIs DEF One, Ref!Bit
    <3>4. Ends(z, mm, Ref!Look(s, c, f), u, o, r)
      BY <1>2, <1>5, <1>6, <3>1, <3>2, <3>3, ReadEnds
    <3>5. PICK t1 : Does(z, mm, t1) /\ Over(t1, Ref!Look(s, c, f), u, o, r)
      BY <3>4 DEF Ends
    <3>6. Does(ops, mm, t1)
      BY <2>1, <3>1, <3>5, DoesNone, DoesThen
    <3>7. Ends(ops, mm, Ref!Look(s, c, f), u, o, r)
      BY <3>5, <3>6 DEF Ends
    <3> QED BY <1>1, <1>3, <1>4, <1>10, <3>7 DEF Obeys, c, ops
  <2> QED BY <2>3, <2>4 DEF Directional
<1> QED BY <1>8, <1>9, <1>10

LEMMA BodyObeys ==
  ASSUME NEW g \in Configs, NEW u \in Units(g), Supported(g), Ref!ChipsOK, SelectorsReadable,
         NEW act \in ChipCalls, Body(g, act.table) # <<>>,
         NEW mm, NEW s, Mirrors(mm, s, u, act.args, OutputsOf(act.args))
  PROVE  Obeys(Body(g, act.table), mm, s, u, Active(g, u), act.table, act.args)
<1> DEFINE c == Active(g, u)
           a == act.args
           o == OutputsOf(a)
           T == act.table
<1>0. \/ T \in {"get", "set", "direction_input", "direction_output", "get_direction"} /\ Single(a)
      \/ T \in {"get_multiple", "set_multiple"} /\ Many(a)
  BY DEF ChipCalls, Ref!SingleCalls, Ref!ManyCalls, Single, Many
<1>1. CASE T = "get"
  <2>1. Single(a) /\ Body(g, T) = GetOps(g) /\ GetOps(g) # <<>>
    BY <1>0, <1>1 DEF Body
  <2>2. Obeys(GetOps(g), mm, s, u, c, "get", a)
    BY <2>1, GetObeys
  <2> QED BY <1>1, <2>1, <2>2
<1>2. CASE T = "get_multiple"
  <2>1. Many(a) /\ Body(g, T) = GetMultipleOps(g) /\ GetMultipleOps(g) # <<>>
    BY <1>0, <1>2 DEF Body
  <2>2. Obeys(GetMultipleOps(g), mm, s, u, c, "get_multiple", a)
    BY <2>1, GetMultipleObeys
  <2> QED BY <1>2, <2>1, <2>2
<1>3. CASE T = "set"
  <2>1. Single(a) /\ Body(g, T) = SetBody(g) \o Ret("0")
    BY <1>0, <1>3 DEF Body
  <2>2. /\ Ref!After("set", s, c, a) = Ref!SetValue(s, c, a)
        /\ Ref!Outputs("set", s, c, a) = o
        /\ Ref!Result("set", s, c, a) = 0
        /\ Ref!Answers(c, "set")
    BY <2>1, SingleOutputs DEF Ref!After, Ref!Outputs, Ref!Result, Ref!Answers
  <2>3. Leads(SetBody(g), mm, Ref!SetValue(s, c, a), u, a, o)
    BY <2>1, SetBodyLeads
  <2> HIDE DEF o, a, T, c
  <2>4. Ends(SetBody(g) \o Ret("0"), mm, Ref!SetValue(s, c, a), u, o, 0)
    BY <2>3, ZeroEnds
  <2>5. Obeys(Body(g, T), mm, s, u, c, T, a)
    BY <1>3, <2>1, <2>2, <2>4 DEF Obeys
  <2> QED BY <2>5 DEF o, a, T, c
<1>4. CASE T = "set_multiple"
  <2>1. Many(a) /\ Body(g, T) = SetMultipleBody(g) \o Ret("0")
    BY <1>0, <1>4 DEF Body
  <2>2. /\ Ref!After("set_multiple", s, c, a) = Ref!SetMultiple(s, c, a)
        /\ Ref!Outputs("set_multiple", s, c, a) = o
        /\ Ref!Result("set_multiple", s, c, a) = 0
        /\ Ref!Answers(c, "set_multiple")
    BY <2>1, ManyOutputs DEF Ref!After, Ref!Outputs, Ref!Result, Ref!Answers
  <2>3. Leads(SetMultipleBody(g), mm, Ref!SetMultiple(s, c, a), u, a, o)
    BY <2>1, SetMultipleBodyLeads
  <2> HIDE DEF o, a, T, c
  <2>4. Ends(SetMultipleBody(g) \o Ret("0"), mm, Ref!SetMultiple(s, c, a), u, o, 0)
    BY <2>3, ZeroEnds
  <2>5. Obeys(Body(g, T), mm, s, u, c, T, a)
    BY <1>4, <2>1, <2>2, <2>4 DEF Obeys
  <2> QED BY <2>5 DEF o, a, T, c
<1>5. CASE T = "direction_input"
  <2>1. Single(a) /\ Body(g, T) = InputBody(g) \o Ret("0") /\ Directional(g)
    BY <1>0, <1>5 DEF Body, Only
  <2>2. /\ Ref!After("direction_input", s, c, a) = Ref!SetDirection(s, c, a, FALSE)
        /\ Ref!Outputs("direction_input", s, c, a) = o
        /\ Ref!Result("direction_input", s, c, a) = 0
    BY <2>1, SingleOutputs DEF Ref!After, Ref!Outputs, Ref!Result
  <2>a. Ref!Answers(c, "direction_input")
    BY <2>1, DirectionsAnswered
  <2>3. Leads(IF FALSE THEN OutputBody(g) ELSE InputBody(g), mm, Ref!SetDirection(s, c, a, FALSE), u, a, o)
    BY <2>1, DirectionLeads
  <2> HIDE DEF o, a, T, c
  <2>4. Ends(InputBody(g) \o Ret("0"), mm, Ref!SetDirection(s, c, a, FALSE), u, o, 0)
    BY <2>3, ZeroEnds
  <2>5. Obeys(Body(g, T), mm, s, u, c, T, a)
    BY <1>5, <2>1, <2>2, <2>a, <2>4 DEF Obeys
  <2> QED BY <2>5 DEF o, a, T, c
<1>6. CASE T = "direction_output"
  <2> DEFINE ops == IF "NO_SET_ON_INPUT" \in g.flags THEN OutputBody(g) \o SetBody(g)
                    ELSE SetBody(g) \o OutputBody(g)
  <2>1. Single(a) /\ Body(g, T) = ops \o Ret("0") /\ Directional(g)
    BY <1>0, <1>6 DEF Body, Only, DirectionOutputOps
  <2>2. /\ Ref!After("direction_output", s, c, a) = Ref!DirectionOutput(s, c, a)
        /\ Ref!Outputs("direction_output", s, c, a) = o
        /\ Ref!Result("direction_output", s, c, a) = 0
    BY <2>1, SingleOutputs DEF Ref!After, Ref!Outputs, Ref!Result
  <2>a. Ref!Answers(c, "direction_output")
    BY <2>1, DirectionsAnswered
  <2>3. Leads(ops, mm, Ref!DirectionOutput(s, c, a), u, a, o)
    BY <2>1, DirectionOutputLeads
  <2> HIDE DEF o, a, T, c, ops
  <2>4. Ends(ops \o Ret("0"), mm, Ref!DirectionOutput(s, c, a), u, o, 0)
    BY <2>3, ZeroEnds
  <2>5. Obeys(Body(g, T), mm, s, u, c, T, a)
    BY <1>6, <2>1, <2>2, <2>a, <2>4 DEF Obeys
  <2> QED BY <2>5 DEF o, a, T, c
<1>7. CASE T = "get_direction"
  <2>1. Single(a) /\ Body(g, T) = GetDirectionOps(g) /\ Directional(g)
    BY <1>0, <1>7 DEF Body, Only
  <2>2. Obeys(GetDirectionOps(g), mm, s, u, c, "get_direction", a)
    BY <2>1, GetDirectionObeys
  <2> QED BY <1>7, <2>1, <2>2
<1> QED BY <1>0, <1>1, <1>2, <1>3, <1>4, <1>5, <1>6, <1>7

\* A callback that is entered does, whatever its arguments, what the reference does.
LEMMA CallbackObeys ==
  ASSUME NEW g \in Configs, NEW u \in Units(g), Supported(g), Ref!ChipsOK, SelectorsReadable,
         NEW act \in ChipCalls, CallbackOps(g, act.table) # <<>>,
         NEW s \in ChipState, s.trace = <<>>
  PROVE  Obeys(CallbackOps(g, act.table), Enter(s.regs, StateOf(s, u), act.args),
               s, u, Active(g, u), act.table, act.args)
<1> DEFINE c == Active(g, u)
           a == act.args
           o == OutputsOf(a)
           b == Body(g, act.table)
           mm == Enter(s.regs, StateOf(s, u), a)
           s1 == Ref!After(act.table, s, c, a)
           o1 == Ref!Outputs(act.table, s, c, a)
           r  == Ref!Result(act.table, s, c, a)
<1>1. b # <<>> /\ CallbackOps(g, act.table) = Bank(g) \o b
  BY DEF CallbackOps
<1>2. PICK t : Does(Bank(g), mm, t) /\ Mirrors(t, s, u, a, o)
  BY Entered DEF Leads
<1>3. Obeys(b, t, s, u, c, act.table, a)
  BY <1>1, <1>2, BodyObeys
<1> HIDE DEF c, a, o, b, mm, s1, o1, r
<1>4. PICK t1 : Does(b, t, t1) /\ Over(t1, s1, u, o1, r)
  BY <1>3 DEF Obeys, Ends, s1, o1, r
<1>5. Does(Bank(g) \o b, mm, t1)
  BY <1>2, <1>4, DoesThen
<1>6. Ref!Answers(c, act.table) /\ Ends(Bank(g) \o b, mm, s1, u, o1, r)
  BY <1>3, <1>4, <1>5 DEF Obeys, Ends
<1> QED BY <1>1, <1>6 DEF Obeys, c, a, mm, s1, o1, r
-----------------------------------------------------------------------------
(* What the library's setup does to the shadow words.                      *)

\* The state that the setup of the library reaches.
Loads(ops, mm, u, a, o, data, dir) ==
  \E s : s \in ChipState /\ s.regs = Seed /\ s.sdata = data /\ s.sdir = dir /\ Leads(ops, mm, s, u, a, o)

\* Reading a register into the variable of the callback.
LEMMA ReadLeads ==
  ASSUME NEW mm, NEW s, NEW u, NEW a, NEW o, Mirrors(mm, s, u, a, o), Ref!ChipsOK, s.regs = Seed,
         NEW c \in Chips, NEW f \in DOMAIN c.at, NEW g, NEW h, c.at[f] = <<g.at[h], u.bank>>
  PROVE  \E t, s1 : /\ Does(Rd(g, h, "word"), mm, t) /\ Mirrors(t, s1, u, a, o)
                    /\ t.env["word"] = Seed[c.at[f]] /\ Seed[c.at[f]] \in SUBSET Width
                    /\ s1.regs = Seed /\ s1.sdata = s.sdata /\ s1.sdir = s.sdir
<1> DEFINE op == [op |-> "Read", reg |-> g.at[h], var |-> "word", when |-> "always"]
           t  == Step(op, mm, Oracle)
           s1 == Ref!Look(s, c, f)
<1>1. Rd(g, h, "word") = <<op>>
  BY DEF Rd
<1>2. Does(<<op>>, mm, t)
  BY DoesOne
<1>3. Mirrors(t, s1, u, a, o) /\ t.env["word"] = s.regs[c.at[f]]
  BY ReadAt
<1>4. s \in ChipState
  BY MirrorsNames
<1>5. s1.regs = s.regs /\ s1.sdata = s.sdata /\ s1.sdir = s.sdir
  BY <1>4 DEF Ref!Look, ChipState
<1>6. Seed[c.at[f]] \in SUBSET Width
  BY <1>4 DEF ChipState, Ref!ChipsOK
<1> HIDE DEF t, s1, op
<1> QED BY <1>1, <1>2, <1>3, <1>5, <1>6

LEMMA DataLoaded ==
  ASSUME NEW mm, NEW s, NEW u, NEW a, NEW o, Mirrors(mm, s, u, a, o), Ref!ChipsOK, s.regs = Seed,
         NEW c \in Chips, NEW f \in DOMAIN c.at, NEW g, NEW h, c.at[f] = <<g.at[h], u.bank>>
  PROVE  Loads(Rd(g, h, "word") \o StWr("gpio_sdata", "word"), mm, u, a, o, Seed[c.at[f]], s.sdir)
<1> DEFINE w == Seed[c.at[f]]
<1>1. PICK t, s1 : /\ Does(Rd(g, h, "word"), mm, t) /\ Mirrors(t, s1, u, a, o)
                   /\ t.env["word"] = w /\ w \in SUBSET Width
                   /\ s1.regs = Seed /\ s1.sdata = s.sdata /\ s1.sdir = s.sdir
  BY ReadLeads
<1> DEFINE op == [op |-> "StateWrite", field |-> "gpio_sdata", value |-> "word", when |-> "always"]
           t1 == Step(op, t, Oracle)
           s2 == [s1 EXCEPT !.sdata = w]
<1> HIDE DEF w
<1>2. StWr("gpio_sdata", "word") = <<op>>
  BY DEF StWr
<1>3. Does(<<op>>, t, t1)
  BY DoesOne
<1>4. Eval("word", t, Oracle) \cap Width = w
  BY <1>1, EvalIs
<1>5. Mirrors(t1, s2, u, a, o)
  BY <1>1, <1>4, DataWriteAt
<1>6. s2 \in ChipState /\ s1 \in ChipState
  BY <1>1, <1>5, MirrorsNames
<1>7. s2.regs = Seed /\ s2.sdata = w /\ s2.sdir = s.sdir
  BY <1>1, <1>6 DEF ChipState
<1> HIDE DEF t1, s2, op
<1>8. Does(Rd(g, h, "word") \o <<op>>, mm, t1)
  BY <1>1, <1>3, DoesThen
<1> QED BY <1>2, <1>5, <1>6, <1>7, <1>8 DEF Loads, Leads, w

LEMMA DirLoaded ==
  ASSUME NEW mm, NEW s, NEW u, NEW a, NEW o, Mirrors(mm, s, u, a, o), Ref!ChipsOK, s.regs = Seed,
         NEW c \in Chips, NEW f \in DOMAIN c.at, NEW g, NEW h, c.at[f] = <<g.at[h], u.bank>>,
         NEW value, NEW v \in SUBSET Width,
         \A t, s1 : Mirrors(t, s1, u, a, o) /\ t.env["word"] = Seed[c.at[f]] =>
                      Eval(value, t, Oracle) \cap Width = v
  PROVE  Loads(Rd(g, h, "word") \o StWr("gpio_sdir", value), mm, u, a, o, s.sdata, v)
<1>1. PICK t, s1 : /\ Does(Rd(g, h, "word"), mm, t) /\ Mirrors(t, s1, u, a, o)
                   /\ t.env["word"] = Seed[c.at[f]]
                   /\ s1.regs = Seed /\ s1.sdata = s.sdata /\ s1.sdir = s.sdir
  BY ReadLeads
<1> DEFINE op == [op |-> "StateWrite", field |-> "gpio_sdir", value |-> value, when |-> "always"]
           t1 == Step(op, t, Oracle)
           s2 == [s1 EXCEPT !.sdir = v]
<1>2. StWr("gpio_sdir", value) = <<op>>
  BY DEF StWr
<1>3. Does(<<op>>, t, t1)
  BY DoesOne
<1>4. Eval(value, t, Oracle) \cap Width = v
  BY <1>1
<1>5. Mirrors(t1, s2, u, a, o)
  BY <1>1, <1>4, DirWriteAt
<1>6. s2 \in ChipState /\ s1 \in ChipState
  BY <1>1, <1>5, MirrorsNames
<1>7. s2.regs = Seed /\ s2.sdata = s.sdata /\ s2.sdir = v
  BY <1>1, <1>6 DEF ChipState
<1> HIDE DEF t1, s2, op
<1>8. Does(Rd(g, h, "word") \o <<op>>, mm, t1)
  BY <1>1, <1>3, DoesThen
<1> QED BY <1>2, <1>5, <1>6, <1>7, <1>8 DEF Loads, Leads

LEMMA InitDataLoads ==
  ASSUME NEW g \in Configs, NEW u \in Units(g), Ref!ChipsOK,
         NEW mm, NEW s, NEW a, NEW o, Mirrors(mm, s, u, a, o), s.regs = Seed
  PROVE  Loads(InitData(g), mm, u, a, o, Ref!InitData(Active(g, u)), s.sdir)
<1> DEFINE c == Active(g, u)
           x == Rd(g, "dat", "word") \o StWr("gpio_sdata", "word")
           b == Present(g, "set") /\ ~Present(g, "clr") /\ "UNREADABLE_SET" \notin g.flags
           y == Rd(g, "set", "word") \o StWr("gpio_sdata", "word")
           z == Only(b, For(g, "set", y))
<1>1. InitData(g) = x \o z
  BY DEF InitData
<1>2. /\ "dat" \in DOMAIN c.at /\ c \in Chips
      /\ \A f \in DOMAIN c.at : c.at[f] = <<g.at[f], u.bank>>
  BY DatThere, SameFields, UnitChip DEF Ref!Has
<1>3. (Ref!Has(c, "set") <=> Present(g, "set")) /\ (Ref!Has(c, "clr") <=> Present(g, "clr"))
  BY SameFields
<1>4. "UNREADABLE_SET" \in c.flags <=> "UNREADABLE_SET" \in g.flags
  BY UnitChip DEF Known
<1>5. Ref!InitData(c) = IF b THEN Seed[c.at["set"]] ELSE Seed[c.at["dat"]]
  BY <1>3, <1>4 DEF Ref!InitData, Ref!Reg
<1>6. z = IF b THEN y ELSE <<>>
  BY DEF Only, For
<1>b. b => "set" \in DOMAIN c.at
  BY <1>3 DEF Ref!Has
<1> HIDE DEF c, b, z, y
<1>7. Loads(x, mm, u, a, o, Seed[c.at["dat"]], s.sdir)
  BY <1>2, DataLoaded
<1> HIDE DEF x
<1>8. PICK s1 : s1 \in ChipState /\ s1.regs = Seed /\ s1.sdata = Seed[c.at["dat"]] /\ s1.sdir = s.sdir
                /\ Leads(x, mm, s1, u, a, o)
  BY <1>7 DEF Loads
<1>9. PICK t : Does(x, mm, t) /\ Mirrors(t, s1, u, a, o)
  BY <1>8 DEF Leads
<1>10. CASE b
  <2>1. Loads(y, t, u, a, o, Seed[c.at["set"]], s1.sdir)
    BY <1>2, <1>8, <1>9, <1>b, <1>10, DataLoaded DEF y
  <2>2. PICK s2 : s2 \in ChipState /\ s2.regs = Seed /\ s2.sdata = Seed[c.at["set"]] /\ s2.sdir = s.sdir
                  /\ Leads(y, t, s2, u, a, o)
    BY <1>8, <2>1 DEF Loads
  <2>3. PICK t2 : Does(y, t, t2) /\ Mirrors(t2, s2, u, a, o)
    BY <2>2 DEF Leads
  <2>4. Does(x \o z, mm, t2)
    BY <1>6, <1>9, <1>10, <2>3, DoesThen
  <2>5. Leads(InitData(g), mm, s2, u, a, o)
    BY <1>1, <2>3, <2>4 DEF Leads
  <2> QED BY <1>5, <1>10, <2>2, <2>5 DEF Loads, c
<1>11. CASE ~b
  <2>1. Does(z, t, t)
    BY <1>6, <1>11, DoesNone
  <2>2. Does(x \o z, mm, t)
    BY <1>9, <2>1, DoesThen
  <2>3. Leads(InitData(g), mm, s1, u, a, o)
    BY <1>1, <1>9, <2>2 DEF Leads
  <2> QED BY <1>5, <1>8, <1>11, <2>3 DEF Loads, c
<1> QED BY <1>10, <1>11

LEMMA InitDirLoads ==
  ASSUME NEW g \in Configs, NEW u \in Units(g), Ref!ChipsOK, Supported(g),
         NEW mm, NEW s, NEW a, NEW o, Mirrors(mm, s, u, a, o), s.regs = Seed, s.sdir = {}
  PROVE  Loads(InitDir(g), mm, u, a, o, s.sdata, Ref!InitDir(Active(g, u)))
<1> DEFINE c == Active(g, u)
           d == Ref!InitDir(c)
<1>0. s \in ChipState
  BY MirrorsNames
<1>1. c \in Chips /\ \A f \in DOMAIN c.at : c.at[f] = <<g.at[f], u.bank>>
  BY UnitChip
<1>2. "UNREADABLE_DIR" \in c.flags <=> "UNREADABLE_DIR" \in g.flags
  BY UnitChip DEF Known
<1>3. \A f \in DOMAIN c.at : Seed[c.at[f]] \in SUBSET Width
  BY <1>0, <1>1 DEF ChipState, Ref!ChipsOK
<1> DEFINE y == For(g, "dirout", Rd(g, "dirout", "word") \o StWr("gpio_sdir", "word"))
           z == For(g, "dirin", Rd(g, "dirin", "word") \o StWr("gpio_sdir", "~word"))
<1>v. \A w \in SUBSET Width : w \cap Width = w /\ Flip(w) \cap Width = Width \ w
  BY WidthAssumption DEF Flip
<1>4. CASE "UNREADABLE_DIR" \in g.flags /\ Directional(g)
  <2> DEFINE op == [op |-> "StateWrite", field |-> "gpio_sdir", value |-> "none", when |-> "always"]
             t  == Step(op, mm, Oracle)
             s1 == [s EXCEPT !.sdir = {}]
  <2>1. InitDir(g) = <<op>>
    BY <1>4 DEF InitDir, Directional, StWr
  <2>2. d = {}
    BY <1>2, <1>4 DEF Ref!InitDir
  <2>3. Does(<<op>>, mm, t)
    BY DoesOne
  <2>4. Eval("none", mm, Oracle) \cap Width = {}
    BY EvalIs
  <2>5. Mirrors(t, s1, u, a, o)
    BY <2>4, DirWriteAt
  <2>6. s1 \in ChipState /\ s1.regs = Seed /\ s1.sdata = s.sdata /\ s1.sdir = {}
    BY <1>0 DEF ChipState
  <2> HIDE DEF t, s1, op, d
  <2> QED BY <2>1, <2>2, <2>3, <2>5, <2>6 DEF Loads, Leads, d
<1>5. CASE "UNREADABLE_DIR" \notin g.flags /\ Selectable(g)
  <2>1. /\ g.at["dirin"] = g.at["dirout"] /\ u.variant \in {0, 1}
        /\ Ref!Has(c, "dirout") <=> u.variant = 0
        /\ Ref!Has(c, "dirin") <=> u.variant = 1
    BY <1>5, DirectionRegisters
  <2> DEFINE f == IF u.variant = 0 THEN "dirout" ELSE "dirin"
  <2>2. f \in DOMAIN c.at
    BY <2>1 DEF Ref!Has
  <2>3. c.at[f] = <<g.at["dirout"], u.bank>>
    BY <1>1, <2>1, <2>2
  <2>4. d = IF u.variant = 0 THEN Seed[c.at[f]] ELSE Width \ Seed[c.at[f]]
    BY <1>2, <1>5, <2>1 DEF Ref!InitDir, Ref!Reg
  <2>5. InitDir(g) = Rd(g, "dirout", "word") \o StWr("gpio_sdir", "word by variant")
    BY <1>5 DEF InitDir
  <2>6. d \in SUBSET Width
    BY <1>3, <2>2, <2>4
  <2> HIDE DEF c, f, d
  <2>7. \A t, s1 : Mirrors(t, s1, u, a, o) /\ t.env["word"] = Seed[c.at[f]] =>
                     Eval("word by variant", t, Oracle) \cap Width = d
    <3> SUFFICES ASSUME NEW t, NEW s1, Mirrors(t, s1, u, a, o), t.env["word"] = Seed[c.at[f]]
                 PROVE  Eval("word by variant", t, Oracle) \cap Width = d
      OBVIOUS
    <3> DEFINE w == Seed[c.at[f]]
    <3>1. Eval("word by variant", t, Oracle) = Chosen(w, t, Oracle)
      BY EvalIs
    <3>2. Chosen(w, t, Oracle) = IF u.variant # 0 THEN Flip(w) ELSE w
      BY VariantIs
    <3>3. w \in SUBSET Width
      BY <1>3, <2>2
    <3> HIDE DEF w
    <3>4. d = IF u.variant = 0 THEN w ELSE Width \ w
      BY <2>4 DEF w
    <3> QED BY <1>v, <3>1, <3>2, <3>3, <3>4
  <2>8. Loads(Rd(g, "dirout", "word") \o StWr("gpio_sdir", "word by variant"), mm, u, a, o, s.sdata, d)
    BY <1>1, <2>2, <2>3, <2>6, <2>7, DirLoaded
  <2> QED BY <2>5, <2>8 DEF c, d
<1>6. CASE ~Selectable(g) /\ ~("UNREADABLE_DIR" \in g.flags /\ Directional(g))
  <2>1. InitDir(g) = y \o z
    BY <1>6 DEF InitDir, Directional
  <2>2. /\ Ref!Has(c, "dirout") <=> Present(g, "dirout")
        /\ Ref!Has(c, "dirin") <=> Present(g, "dirin")
        /\ ~(Present(g, "dirout") /\ Present(g, "dirin"))
    BY <1>6, DirectionRegisters
  <2>3. CASE Present(g, "dirout")
    <3> DEFINE w == Seed[c.at["dirout"]]
    <3>1. y = Rd(g, "dirout", "word") \o StWr("gpio_sdir", "word") /\ z = <<>>
      BY <2>2, <2>3 DEF For
    <3>2. "dirout" \in DOMAIN c.at /\ d = w
      BY <1>2, <1>6, <2>2, <2>3 DEF Ref!InitDir, Ref!Has, Ref!Reg, Directional
    <3>3. c.at["dirout"] = <<g.at["dirout"], u.bank>> /\ w \in SUBSET Width
      BY <1>1, <1>3, <3>2
    <3> HIDE DEF y, z, c, d
    <3>4. \A t, s1 : Mirrors(t, s1, u, a, o) /\ t.env["word"] = Seed[c.at["dirout"]] =>
                       Eval("word", t, Oracle) \cap Width = w
      BY <1>v, <3>3, EvalIs
    <3>5. Loads(Rd(g, "dirout", "word") \o StWr("gpio_sdir", "word"), mm, u, a, o, s.sdata, w)
      <4>1. w \in SUBSET Width
        BY <3>3
      <4> HIDE DEF w
      <4>2. \A t, s1 : Mirrors(t, s1, u, a, o) /\ t.env["word"] = Seed[c.at["dirout"]] =>
                       Eval("word", t, Oracle) \cap Width = w
        BY <3>4 DEF w
      <4>3. c \in Chips /\ Mirrors(mm, s, u, a, o) /\ Ref!ChipsOK /\ s.regs = Seed
        BY <1>1
      <4> QED BY ONLY <3>2, <3>3, <4>1, <4>2, <4>3, DirLoaded
    <3>6. PICK s1 : s1 \in ChipState /\ s1.regs = Seed /\ s1.sdata = s.sdata /\ s1.sdir = w /\ Leads(y, mm, s1, u, a, o)
      BY <3>1, <3>5 DEF Loads
    <3>7. Leads(y \o z, mm, s1, u, a, o)
      BY <3>1, <3>6, NothingLeads, LeadsThen
    <3> QED BY <2>1, <3>2, <3>6, <3>7 DEF Loads, d, c
  <2>4. CASE Present(g, "dirin")
    <3> DEFINE w == Seed[c.at["dirin"]]
    <3>1. z = Rd(g, "dirin", "word") \o StWr("gpio_sdir", "~word") /\ y = <<>>
      BY <2>2, <2>4 DEF For
    <3>2. "dirin" \in DOMAIN c.at /\ d = Width \ w
      BY <1>2, <1>6, <2>2, <2>4 DEF Ref!InitDir, Ref!Has, Ref!Reg, Directional
    <3>3. c.at["dirin"] = <<g.at["dirin"], u.bank>> /\ w \in SUBSET Width
      BY <1>1, <1>3, <3>2
    <3> HIDE DEF y, z, c, d
    <3>4. \A t, s1 : Mirrors(t, s1, u, a, o) /\ t.env["word"] = Seed[c.at["dirin"]] =>
                       Eval("~word", t, Oracle) \cap Width = Width \ w
      BY <1>v, <3>3, EvalIs
    <3>5. Loads(Rd(g, "dirin", "word") \o StWr("gpio_sdir", "~word"), mm, u, a, o, s.sdata, Width \ w)
      <4>1. Width \ w \in SUBSET Width
        OBVIOUS
      <4> HIDE DEF w
      <4>2. \A t, s1 : Mirrors(t, s1, u, a, o) /\ t.env["word"] = Seed[c.at["dirin"]] =>
                       Eval("~word", t, Oracle) \cap Width = Width \ w
        BY <3>4 DEF w
      <4>3. c \in Chips /\ Mirrors(mm, s, u, a, o) /\ Ref!ChipsOK /\ s.regs = Seed
        BY <1>1
      <4> QED BY ONLY <3>2, <3>3, <4>1, <4>2, <4>3, DirLoaded
    <3>6. PICK s1 : s1 \in ChipState /\ s1.regs = Seed /\ s1.sdata = s.sdata /\ s1.sdir = Width \ w /\ Leads(z, mm, s1, u, a, o)
      BY <3>1, <3>5 DEF Loads
    <3>7. PICK t : Does(z, mm, t) /\ Mirrors(t, s1, u, a, o)
      BY <3>6 DEF Leads
    <3>8. Does(y \o z, mm, t)
      BY <3>1, <3>7, DoesNone, DoesThen
    <3> QED BY <2>1, <3>2, <3>6, <3>7, <3>8 DEF Loads, Leads, d, c
  <2>5. CASE ~Present(g, "dirout") /\ ~Present(g, "dirin")
    <3>1. y = <<>> /\ z = <<>> /\ d = {}
      BY <2>2, <2>5 DEF For, Ref!InitDir
    <3> HIDE DEF y, z, d
    <3>2. Leads(y \o z, mm, s, u, a, o)
      BY <3>1, NothingLeads, LeadsThen
    <3> QED BY <1>0, <2>1, <3>1, <3>2 DEF Loads, d
  <2> QED BY <2>3, <2>4, <2>5
<1> QED BY <1>4, <1>5, <1>6 DEF Selectable, Both, Directional

\* The setup of the library leaves the shadow words the reference's does.
LEMMA InitLoads ==
  ASSUME NEW g \in Configs, NEW u \in Units(g), Ref!ChipsOK, Supported(g), Ref!SeedOK
  PROVE  Loads(InitOps(g), Enter(Seed, Device(u.variant, u.bank), <<>>), u, <<>>, OutputsOf(<<>>),
               Ref!InitData(Active(g, u)), Ref!InitDir(Active(g, u)))
<1> DEFINE c  == Active(g, u)
           a  == <<>>
           o  == OutputsOf(a)
           s  == [regs |-> Seed, sdata |-> {}, sdir |-> {}, trace |-> <<>>]
           mm == Enter(Seed, Device(u.variant, u.bank), <<>>)
           d  == Ref!InitData(c)
           e  == Ref!InitDir(c)
<1>1. s \in ChipState /\ s.trace = <<>> /\ s.regs = Seed /\ s.sdata = {} /\ s.sdir = {}
  BY DEF ChipState, Ref!SeedOK
<1> HIDE DEF s
<1>2. StateOf(s, u) = Device(u.variant, u.bank)
  BY <1>1 DEF StateOf, Device
<1>3. mm = Enter(s.regs, StateOf(s, u), a)
  BY <1>1, <1>2
<1>4. PICK t0 : Does(Bank(g), mm, t0) /\ Mirrors(t0, s, u, a, o)
  BY <1>1, <1>3, Entered DEF Leads
<1>5. PICK t1 : Does(Selector(g), t0, t1) /\ Mirrors(t1, s, u, a, o)
  BY <1>4, SelectorLeads DEF Leads
<1>6. Loads(InitData(g), t1, u, a, o, d, s.sdir)
  BY <1>1, <1>5, InitDataLoads
<1> HIDE DEF c, a, o, mm, d, e
<1>7. PICK s1 : s1 \in ChipState /\ s1.regs = Seed /\ s1.sdata = d /\ s1.sdir = {}
                /\ Leads(InitData(g), t1, s1, u, a, o)
  BY <1>1, <1>6 DEF Loads
<1>8. PICK t2 : Does(InitData(g), t1, t2) /\ Mirrors(t2, s1, u, a, o)
  BY <1>7 DEF Leads
<1>9. Loads(InitDir(g), t2, u, a, o, s1.sdata, e)
  BY <1>7, <1>8, InitDirLoads DEF e, c
<1>10. PICK s2 : s2 \in ChipState /\ s2.regs = Seed /\ s2.sdata = d /\ s2.sdir = e
                 /\ Leads(InitDir(g), t2, s2, u, a, o)
  BY <1>7, <1>9 DEF Loads
<1>11. PICK t3 : Does(InitDir(g), t2, t3) /\ Mirrors(t3, s2, u, a, o)
  BY <1>10 DEF Leads
<1>12. Does(((Bank(g) \o Selector(g)) \o InitData(g)) \o InitDir(g), mm, t3)
  <2>1. Does(Bank(g) \o Selector(g), mm, t1)
    BY <1>4, <1>5, DoesThen
  <2>2. Does((Bank(g) \o Selector(g)) \o InitData(g), mm, t2)
    BY <1>8, <2>1, DoesThen
  <2> QED BY <1>11, <2>2, DoesThen
<1>13. Loads(InitOps(g), mm, u, a, o, d, e)
  BY <1>10, <1>11, <1>12 DEF Loads, Leads, InitOps
<1> QED BY <1>13 DEF c, a, o, mm, d, e

(* The inductive invariant of the callbacks.                               *)

\* The state of the reference that a caller has seen.
Now == [regs |-> seen.regs, sdata |-> seen.sdata, sdir |-> seen.sdir, trace |-> <<>>]

SeenOK == seen \in [regs : [Address -> SUBSET Width], sdata : SUBSET Width,
                    sdir : SUBSET Width, answer : {seen.answer}]

\* Where the operations that are left will lead.
SetupInv ==
  /\ call = Setup /\ seen.answer = Ref!Off /\ seen.regs = Seed
  /\ Loads(todo, m, unit, <<>>, OutputsOf(<<>>),
           Ref!InitData(Active(gen, unit)), Ref!InitDir(Active(gen, unit)))
IdleInv ==
  /\ call = Idle /\ todo = <<>> /\ seen.answer # Ref!Off
  /\ m.regs = Now.regs /\ m.state = StateOf(Now, unit)
CallInv ==
  /\ call \in ChipCalls /\ seen.answer = Ref!Ready
  /\ Obeys(todo, m, Now, unit, Active(gen, unit), call.table, call.args)

CallbacksInv ==
  /\ gen \in Configs /\ Supported(gen) /\ unit \in Units(gen)
  /\ SeenOK
  /\ SetupInv \/ IdleInv \/ CallInv

LEMMA CallTables ==
  /\ \A act \in ChipCalls : act # Idle /\ act # Setup /\ act = [table |-> act.table, args |-> act.args]
  /\ Idle # Setup
<1>1. ASSUME NEW act \in ChipCalls
      PROVE  act # Idle /\ act # Setup /\ act = [table |-> act.table, args |-> act.args]
  <2>1. act.table \notin {"idle", "init"}
    BY <1>1 DEF ChipCalls, Ref!SingleCalls, Ref!ManyCalls
  <2>2. act = [table |-> act.table, args |-> act.args]
    BY <1>1 DEF ChipCalls, Ref!SingleCalls, Ref!ManyCalls
  <2> QED BY <2>1, <2>2 DEF Idle, Setup
<1>2. Idle.table = "idle" /\ Setup.table = "init"
  BY DEF Idle, Setup
<1> QED BY <1>1, <1>2

LEMMA CallbacksStart ==
  ASSUME Ref!SeedOK, Ref!ChipsOK, CInit
  PROVE  CallbacksInv /\ Ref!Init
<1>1. gen \in Configs /\ Supported(gen) /\ unit \in Units(gen)
  BY DEF CInit
<1>2. m = Enter(Seed, Device(unit.variant, unit.bank), <<>>) /\ todo = InitOps(gen) /\ call = Setup
  BY DEF CInit
<1>3. Loads(todo, m, unit, <<>>, OutputsOf(<<>>),
            Ref!InitData(Active(gen, unit)), Ref!InitDir(Active(gen, unit)))
  BY <1>1, <1>2, InitLoads
<1>4. m.regs = Seed /\ m.state["gpio_sdata"] = {} /\ m.state["gpio_sdir"] = {}
  BY <1>2 DEF Enter, Device
<1>5. seen = [regs |-> Seed, sdata |-> {}, sdir |-> {}, answer |-> Ref!Off]
  BY <1>4 DEF CInit, View
<1>6. SeenOK
  BY <1>5 DEF SeenOK, Ref!SeedOK
<1>7. Active(gen, unit) \in Chips
  BY <1>1, UnitChip
<1> QED BY <1>1, <1>2, <1>3, <1>5, <1>6, <1>7 DEF CallbacksInv, SetupInv, Ref!Init

\* An operation goes one step along the way that is left.
LEMMA LoadsOn ==
  ASSUME NEW ops, NEW mm, NEW u, NEW a, NEW o, NEW data, NEW dir,
         Loads(ops, mm, u, a, o, data, dir), ops # <<>>
  PROVE  Loads(Tail(ops), Step(Head(ops), mm, Oracle), u, a, o, data, dir)
BY DoesTail DEF Loads, Leads

LEMMA ObeysOn ==
  ASSUME NEW ops, NEW mm, NEW s, NEW u, NEW c, NEW table, NEW a,
         Obeys(ops, mm, s, u, c, table, a), ops # <<>>
  PROVE  Obeys(Tail(ops), Step(Head(ops), mm, Oracle), s, u, c, table, a)
<1> DEFINE s1 == Ref!After(table, s, c, a)
           o1 == Ref!Outputs(table, s, c, a)
           r  == Ref!Result(table, s, c, a)
<1>1. Ref!Answers(c, table) /\ Ends(ops, mm, s1, u, o1, r)
  BY DEF Obeys
<1> HIDE DEF s1, o1, r
<1>2. Ends(Tail(ops), Step(Head(ops), mm, Oracle), s1, u, o1, r)
  BY <1>1, DoesTail DEF Ends
<1> QED BY <1>1, <1>2 DEF Obeys, s1, o1, r

LEMMA OperationKeeps ==
  ASSUME CallbacksInv, Operation
  PROVE  CallbacksInv' /\ UNCHANGED Ref!vars
<1>1. /\ todo # <<>> /\ m' = Step(Head(todo), m, Oracle) /\ todo' = Tail(todo)
      /\ gen' = gen /\ unit' = unit /\ call' = call /\ seen' = seen
  BY DEF Operation
<1>2. SeenOK' /\ Now' = Now /\ UNCHANGED Ref!vars
  BY <1>1 DEF CallbacksInv, SeenOK, Now, Ref!vars
<1>3. gen' \in Configs /\ Supported(gen') /\ unit' \in Units(gen')
  BY <1>1 DEF CallbacksInv
<1>4. ASSUME SetupInv PROVE SetupInv'
  <2>1. Loads(todo', m', unit', <<>>, OutputsOf(<<>>),
              Ref!InitData(Active(gen', unit')), Ref!InitDir(Active(gen', unit')))
    BY <1>1, <1>4, LoadsOn DEF SetupInv
  <2> QED BY <1>1, <1>4, <2>1 DEF SetupInv
<1>5. ASSUME CallInv PROVE CallInv'
  <2>1. Obeys(Tail(todo), Step(Head(todo), m, Oracle), Now, unit, Active(gen, unit), call.table, call.args)
    BY <1>1, <1>5, ObeysOn DEF CallInv
  <2>2. Obeys(todo', m', Now', unit', Active(gen', unit'), call'.table, call'.args)
    BY <1>1, <1>2, <2>1
  <2> QED BY <1>1, <1>5, <2>2 DEF CallInv
<1>6. ~IdleInv
  BY <1>1 DEF IdleInv
<1> QED BY <1>2, <1>3, <1>4, <1>5, <1>6 DEF CallbacksInv

LEMMA InitializedKeeps ==
  ASSUME Ref!SeedOK, Ref!ChipsOK, CallbacksInv, Initialized
  PROVE  CallbacksInv' /\ Ref!ChipInit
<1> DEFINE c == Active(gen, unit)
           d == Ref!InitData(c)
           e == Ref!InitDir(c)
<1>1. /\ call = Setup /\ todo = <<>> /\ call' = Idle /\ todo' = todo
      /\ gen' = gen /\ unit' = unit
      /\ m' = Enter(Seed, m.state, <<>>) /\ seen' = View(m', Setup)
  BY DEF Initialized
<1>2. SetupInv
  BY <1>1, CallTables DEF CallbacksInv, IdleInv, CallInv
<1>3. PICK s : s \in ChipState /\ s.regs = Seed /\ s.sdata = d /\ s.sdir = e
               /\ Leads(todo, m, s, unit, <<>>, OutputsOf(<<>>))
  BY <1>2 DEF SetupInv, Loads
<1>4. PICK t : Does(todo, m, t) /\ Mirrors(t, s, unit, <<>>, OutputsOf(<<>>))
  BY <1>3 DEF Leads
<1>5. m = t
  BY <1>1, <1>4, DoesEnd
<1>6. m.state = StateOf(s, unit)
  <2>1. t.state = StateOf(s, unit)
    BY <1>4 DEF Mirrors, Memory
  <2> QED BY <1>5, <2>1
<1> HIDE DEF d, e, c
<1>7. m'.regs = Seed /\ m'.state = StateOf(s, unit)
  BY <1>1, <1>6 DEF Enter
<1>8. m'.state["gpio_sdata"] = d /\ m'.state["gpio_sdir"] = e
  BY <1>3, <1>7 DEF StateOf
<1>9. seen' = [regs |-> Seed, sdata |-> d, sdir |-> e, answer |-> Setup]
  BY <1>1, <1>7, <1>8 DEF View
<1>10. d \in SUBSET Width /\ e \in SUBSET Width
  BY <1>3 DEF ChipState
<1>11. SeenOK'
  BY <1>9, <1>10 DEF SeenOK, Ref!SeedOK
<1>12. Setup # Ref!Off
  <2>1. Setup.table = "init" /\ Ref!Off.table = "off"
    BY DEF Setup, Ref!Off
  <2> QED BY <2>1
<1>13. StateOf(Now', unit) = StateOf(s, unit)
  BY <1>3, <1>9 DEF StateOf, Now
<1>14. IdleInv'
  BY <1>1, <1>7, <1>9, <1>12, <1>13 DEF IdleInv, Now
<1>15. Ref!ChipInit
  BY <1>1, <1>2, <1>9 DEF Ref!ChipInit, SetupInv, Setup, c, d, e
<1> QED BY <1>1, <1>11, <1>14, <1>15 DEF CallbacksInv

LEMMA CallbackKeeps ==
  ASSUME Ref!ChipsOK, SelectorsReadable, CallbacksInv,
         NEW act \in ChipCalls, Callback(act.table, act.args)
  PROVE  CallbacksInv' /\ Ref!Ask
<1>1. /\ call = Idle /\ CallbackOps(gen, act.table) # <<>>
      /\ call' = [table |-> act.table, args |-> act.args]
      /\ m' = Enter(m.regs, m.state, act.args) /\ todo' = CallbackOps(gen, act.table)
      /\ seen' = [seen EXCEPT !.answer = Ref!Ready] /\ gen' = gen /\ unit' = unit
  BY DEF Callback
<1>2. IdleInv
  BY <1>1, CallTables DEF CallbacksInv, SetupInv, CallInv
<1>3. call' = act
  BY <1>1, CallTables
<1>4. gen \in Configs /\ Supported(gen) /\ unit \in Units(gen) /\ SeenOK
  BY DEF CallbacksInv
<1>5. /\ seen'.regs = seen.regs /\ seen'.sdata = seen.sdata /\ seen'.sdir = seen.sdir
      /\ seen'.answer = Ref!Ready
  BY <1>1, <1>4 DEF SeenOK
<1>6. SeenOK'
  BY <1>1, <1>4 DEF SeenOK
<1>7. Now' = Now
  BY <1>5 DEF Now
<1>8. Now \in ChipState /\ Now.trace = <<>>
  BY <1>4 DEF Now, SeenOK, ChipState
<1>9. Obeys(CallbackOps(gen, act.table), Enter(Now.regs, StateOf(Now, unit), act.args),
            Now, unit, Active(gen, unit), act.table, act.args)
  BY <1>1, <1>4, <1>8, CallbackObeys
<1>10. m' = Enter(Now.regs, StateOf(Now, unit), act.args)
  BY <1>1, <1>2 DEF IdleInv
<1>11. Obeys(todo', m', Now', unit', Active(gen', unit'), call'.table, call'.args)
  BY <1>1, <1>3, <1>7, <1>9, <1>10
<1>12. CallInv'
  BY <1>3, <1>5, <1>11 DEF CallInv
<1>13. Ref!Ask
  BY <1>1, <1>2, <1>5 DEF Ref!Ask, IdleInv
<1> QED BY <1>1, <1>4, <1>6, <1>12, <1>13 DEF CallbacksInv

LEMMA ReturnKeeps ==
  ASSUME Ref!ChipsOK, CallbacksInv, Return
  PROVE  CallbacksInv' /\ \E act \in ChipCalls : Ref!Call(act)
<1> DEFINE c  == Active(gen, unit)
           s1 == Ref!After(call.table, Now, c, call.args)
           o1 == Ref!Outputs(call.table, Now, c, call.args)
           r  == Ref!Result(call.table, Now, c, call.args)
<1>1. /\ call \notin {Idle, Setup} /\ m.returned /\ call' = Idle /\ todo' = <<>>
      /\ gen' = gen /\ unit' = unit /\ m' = Enter(m.regs, m.state, <<>>)
      /\ seen' = View(m, [table |-> call.table, args |-> call.args, trace |-> m.trace,
                          result |-> m.result, outputs |-> m.outputs])
  BY DEF Return
<1>2. CallInv
  BY <1>1 DEF CallbacksInv, SetupInv, IdleInv
<1>3. Ref!Answers(c, call.table) /\ Ends(todo, m, s1, unit, o1, r)
  BY <1>2 DEF CallInv, Obeys
<1> HIDE DEF s1, o1, r, c
<1>4. PICK t : Does(todo, m, t) /\ Over(t, s1, unit, o1, r)
  BY <1>3 DEF Ends
<1>5. m = t
  BY <1>1, <1>4, DoesEnd
<1>6. /\ s1 \in ChipState /\ m.regs = s1.regs /\ m.state = StateOf(s1, unit)
      /\ m.outputs = o1 /\ m.trace = s1.trace /\ m.result = r
  BY <1>4, <1>5 DEF Over
<1>7. m.state["gpio_sdata"] = s1.sdata /\ m.state["gpio_sdir"] = s1.sdir
  BY <1>6 DEF StateOf
<1> DEFINE ans == [table |-> call.table, args |-> call.args, trace |-> s1.trace, result |-> r, outputs |-> o1]
<1>8. seen' = View(m, ans)
  BY <1>1, <1>6
<1>9. ans.table = call.table
  OBVIOUS
<1>a. ans # Ref!Off
  <2>1. call.table # "off"
    BY <1>2 DEF CallInv, ChipCalls, Ref!SingleCalls, Ref!ManyCalls
  <2>2. Ref!Off.table = "off"
    BY DEF Ref!Off
  <2> QED BY <1>9, <2>1, <2>2
<1> HIDE DEF ans
<1>10. seen' = [regs |-> s1.regs, sdata |-> s1.sdata, sdir |-> s1.sdir, answer |-> ans]
  BY <1>6, <1>7, <1>8 DEF View
<1>11. SeenOK'
  BY <1>6, <1>10 DEF SeenOK, ChipState
<1>12. StateOf(Now', unit) = StateOf(s1, unit) /\ Now'.regs = s1.regs
  BY <1>10 DEF StateOf, Now
<1>13. m'.regs = s1.regs /\ m'.state = StateOf(s1, unit)
  BY <1>1, <1>6 DEF Enter
<1>14. IdleInv'
  BY <1>1, <1>10, <1>12, <1>13, <1>a DEF IdleInv
<1>15. Ref!Call(call)
  BY <1>1, <1>2, <1>3, <1>10 DEF Ref!Call, CallInv, Now, ans, s1, o1, r, c
<1>16. gen \in Configs /\ Supported(gen) /\ unit \in Units(gen)
  BY DEF CallbacksInv
<1>17. call \in ChipCalls
  BY <1>2 DEF CallInv
<1> QED BY <1>1, <1>11, <1>14, <1>15, <1>16, <1>17 DEF CallbacksInv
-----------------------------------------------------------------------------
(* The harness, which drives the same chip.                                *)

\* The fields of a run that has begun.
RunFields(r) ==
  r \in [phase : {"probe", "callbacks", "exited", "died", "judged"}, formal : {r.formal}, c : {r.c},
         at : {r.at}, begin : {r.begin}, segments : {r.segments}, end : {r.end},
         died : {r.died}, callbacks : {r.callbacks}, source : {r.source}]

\* What died has not written its end; what is judged keeps what was judged.
Running ==
  /\ gen \in Configs /\ RunFields(run)
  /\ run.phase \in {"probe", "callbacks", "died"} => ~run.end
  /\ run.phase = "judged" =>
       /\ run.died => ~run.end
       /\ run.callbacks => CallbacksPassed
       /\ run.source => SourcePassed

HarnessInv == (run = NoRun /\ CallbacksInv) \/ Running

LEMMA NotNoRun ==
  /\ NoRun.phase = "none"
  /\ Running => run # NoRun /\ run.phase \in {"probe", "callbacks", "exited", "died", "judged"}
<1>1. NoRun.phase = "none"
  BY DEF NoRun
<1> QED BY <1>1 DEF Running, RunFields

LEMMA FirstUnitThere ==
  ASSUME NEW g \in Configs
  PROVE  FirstUnit \in Units(g)
BY BanksAssumption DEF FirstUnit, Units

LEMMA HarnessStarts ==
  ASSUME HInit, ~(CInit /\ run = NoRun)
  PROVE  Running /\ Ref!Init
<1>1. /\ gen \in Tried /\ unit = FirstUnit /\ m = Enter(Seed, Device(0, 0), <<>>) /\ seen = View(m, Ref!Off)
      /\ \E formal, c : run = [phase |-> "probe", formal |-> formal, c |-> c, at |-> 0,
                               begin |-> <<>>, segments |-> <<>>, end |-> FALSE,
                               died |-> FALSE, callbacks |-> FALSE, source |-> FALSE]
  BY DEF HInit
<1>2. Running
  BY <1>1, TriedAssumption DEF Running, RunFields
<1>3. Active(gen, unit) \in Chips
  BY <1>1, TriedAssumption, FirstUnitThere, UnitChip
<1>4. m.regs = Seed /\ m.state["gpio_sdata"] = {} /\ m.state["gpio_sdir"] = {}
  BY <1>1 DEF Enter, Device
<1>5. Ref!Init
  BY <1>1, <1>3, <1>4 DEF Ref!Init, View
<1> QED BY <1>2, <1>5

\* What the harness does is not seen by a caller of the chip.
LEMMA HarnessOnly ==
  ASSUME Running, HNext
  PROVE  Running' /\ UNCHANGED <<gen, unit, seen>>
<1>1. run # NoRun
  BY NotNoRun
<1>2. CASE Statement
  BY <1>2 DEF Statement, Running, RunFields
<1>3. CASE Begin
  <2>1. RunFields(run')
    BY <1>3 DEF Begin, Running, RunFields
  <2>2. ~run.end /\ run.phase = "probe" /\ run'.end = run.end /\ run'.phase \in {"exited", "callbacks"}
    BY <1>3 DEF Begin, Running, RunFields
  <2> QED BY <1>3, <2>1, <2>2 DEF Begin, Running
<1>4. CASE CallNext
  <2>1. run' = [run EXCEPT !.at = run.at + 1] /\ run.phase = "callbacks" /\ UNCHANGED <<gen, unit, seen>>
    BY <1>4 DEF CallNext
  <2>2. RunFields(run') /\ run'.end = run.end /\ run'.phase = run.phase
    BY <2>1 DEF Running, RunFields
  <2> QED BY <2>1, <2>2 DEF Running
<1>5. CASE Report
  <2>1. RunFields(run') /\ run'.end = run.end /\ run'.phase = run.phase /\ run.phase = "callbacks"
    BY <1>5 DEF Report, Running, RunFields
  <2> QED BY <1>5, <2>1 DEF Report, Running
<1>6. CASE End
  <2>1. RunFields(run') /\ run'.phase = "exited"
    BY <1>6 DEF End, Running, RunFields
  <2> QED BY <1>6, <2>1 DEF End, Running
<1>7. CASE Killed
  <2>1. PICK x : run' = [run EXCEPT !.phase = "died", !.segments = x]
    BY <1>7 DEF Killed
  <2>2. run.phase \in {"probe", "callbacks"} /\ UNCHANGED <<gen, unit, seen>>
    BY <1>7 DEF Killed
  <2>3. RunFields(run') /\ run'.end = run.end /\ run'.phase = "died"
    BY <2>1 DEF Running, RunFields
  <2> QED BY <2>2, <2>3 DEF Running
<1>8. CASE Judge
  <2>1. /\ run.phase \in {"exited", "died"} /\ UNCHANGED <<gen, unit, seen>>
        /\ run' = [run EXCEPT !.phase = "judged", !.died = run.phase = "died",
                     !.callbacks = CallbacksPassed, !.source = SourcePassed]
    BY <1>8 DEF Judge, cvars
  <2>2. /\ RunFields(run') /\ run'.phase = "judged" /\ run'.end = run.end
        /\ run'.formal = run.formal /\ run'.begin = run.begin /\ run'.segments = run.segments
        /\ run'.died <=> run.phase = "died"
        /\ run'.callbacks <=> CallbacksPassed
        /\ run'.source <=> SourcePassed
    <3> DEFINE x == run.phase = "died"
               y == CallbacksPassed
               z == SourcePassed
    <3>1. run' = [run EXCEPT !.phase = "judged", !.died = x, !.callbacks = y, !.source = z]
      BY <2>1
    <3> HIDE DEF x, y, z
    <3>2. /\ RunFields(run') /\ run'.phase = "judged" /\ run'.end = run.end
          /\ run'.formal = run.formal /\ run'.begin = run.begin /\ run'.segments = run.segments
          /\ run'.died = x /\ run'.callbacks = y /\ run'.source = z
      BY <3>1 DEF Running, RunFields
    <3> QED BY <3>2 DEF x, y, z
  <2>3. Plan' = Plan
    BY <2>1, <2>2 DEF Plan
  <2>4. CallbacksPassed => CallbacksPassed'
    BY <2>2, <2>3 DEF CallbacksPassed, Expected
  <2>5. SourcePassed => SourcePassed'
    BY <2>1, <2>2, <2>3 DEF SourcePassed
  <2>6. run'.died => ~run'.end
    BY <2>2 DEF Running
  <2> QED BY <2>1, <2>2, <2>4, <2>5, <2>6 DEF Running
<1>9. CASE run.phase = "judged" /\ UNCHANGED hvars
  BY <1>9 DEF hvars, cvars, Running, RunFields, CallbacksPassed, SourcePassed, Expected, Plan
<1> QED BY <1>1, <1>2, <1>3, <1>4, <1>5, <1>6, <1>7, <1>8, <1>9 DEF HNext

LEMMA NoRunSteps ==
  ASSUME run = NoRun, HNext
  PROVE  CNext /\ run' = run
<1>1. run.phase = "none"
  BY NotNoRun
<1> QED BY <1>1 DEF HNext, Statement, Begin, CallNext, Report, End, Killed, Judge

LEMMA HarnessKept ==
  ASSUME Ref!SeedOK, Ref!ChipsOK, SelectorsReadable, HarnessInv, [HNext]_hvars
  PROVE  HarnessInv' /\ [Ref!Next]_Ref!vars
<1>1. CASE UNCHANGED hvars
  BY <1>1 DEF hvars, cvars, HarnessInv, Running, RunFields, CallbacksPassed, SourcePassed, Expected, Plan, CallbacksInv, SeenOK, SetupInv, IdleInv, CallInv, Now, Ref!vars
<1>2. CASE Running /\ HNext
  <2>1. Running' /\ UNCHANGED <<gen, unit, seen>>
    BY <1>2, HarnessOnly
  <2>2. UNCHANGED Ref!vars
    BY <2>1 DEF Ref!vars
  <2> QED BY <2>1, <2>2 DEF HarnessInv
<1>3. CASE run = NoRun /\ CallbacksInv /\ HNext
  <2>1. CNext /\ run' = run
    BY <1>3, NoRunSteps
  <2>2. CASE Operation
    BY <1>3, <2>1, <2>2, OperationKeeps DEF HarnessInv
  <2>3. CASE Initialized
    BY <1>3, <2>1, <2>3, InitializedKeeps DEF HarnessInv, Ref!Next
  <2>4. CASE Return
    BY <1>3, <2>1, <2>4, ReturnKeeps DEF HarnessInv, Ref!Next, ChipCalls
  <2>5. ASSUME NEW act \in ChipCalls, Callback(act.table, act.args)
        PROVE  HarnessInv' /\ [Ref!Next]_Ref!vars
    BY <1>3, <2>1, <2>5, CallbackKeeps DEF HarnessInv, Ref!Next
  <2> QED BY <2>1, <2>2, <2>3, <2>4, <2>5 DEF CNext, ChipCalls
<1> QED BY <1>1, <1>2, <1>3 DEF HarnessInv

\* The callbacks that infer_gpio_generic_summaries writes do what gpio-mmio.c
\* does, operation by operation: whatever the configuration that is accepted,
\* the unit, the words in the registers and the sequence of calls, what a call
\* shows when it returns is one call of the reference chip.
THEOREM CallbacksImplement ==
  ASSUME Ref!SeedOK, Ref!ChipsOK, SelectorsReadable
  PROVE  HSpec => Implements
<1>1. HInit => HarnessInv /\ Ref!Init
  BY HarnessStarts, CallbacksStart DEF HarnessInv
<1>2. HarnessInv /\ [HNext]_hvars => HarnessInv' /\ [Ref!Next]_Ref!vars
  BY HarnessKept
<1> QED BY <1>1, <1>2, PTL DEF HSpec, Implements, Ref!Spec

\* No callback that is written leaves a stale shadow: a register that can be read
\* back holds the shadow word after every sequence of calls.
THEOREM CallbacksKeepShadows ==
  ASSUME Ref!SeedOK, Ref!ChipsOK, SelectorsReadable
  PROVE  HSpec => []ShadowIsRegister
<1>1. HSpec => Ref!Spec
  BY CallbacksImplement DEF Implements
<1>2. Ref!Spec => []Ref!ShadowIsRegister
  BY ShadowNeverStale
<1> QED BY <1>1, <1>2, PTL DEF ShadowIsRegister
-----------------------------------------------------------------------------
(* The plan, and what the oracle and the reference make of it.            *)

\* What 0 has, and every number its successor has, every number has.
LEMMA Counting ==
  ASSUME NEW n \in Nat, NEW S, 0 \in S, \A k \in 1 .. n : k - 1 \in S => k \in S
  PROVE  \A k \in 0 .. n : k \in S
<1> SUFFICES ASSUME NEW x \in 0 .. n, x \notin S PROVE FALSE
  OBVIOUS
<1> DEFINE T == {k \in 0 .. n : k \notin S}
<1>1. T \in SUBSET Nat /\ T # {}
  OBVIOUS
<1>2. \E k \in T : \A j \in T : <<j, k>> \notin OpToRel(<, Nat)
  BY <1>1, NatLessThanWellFounded, WFMin
<1>3. PICK k \in T : \A j \in T : ~ (j < k)
  <2> HIDE DEF T
  <2>1. \A j, k \in Nat : j < k => <<j, k>> \in OpToRel(<, Nat)
    BY Zenon DEF OpToRel
  <2> QED BY <1>1, <1>2, <2>1
<1>4. k \in 1 .. n /\ k - 1 \in 0 .. n /\ k - 1 < k
  OBVIOUS
<1>5. k - 1 \in S
  BY <1>3, <1>4
<1> QED BY <1>4, <1>5

\* _execute ends where its operations lead, one after another.
LEMMA DoesExecute ==
  ASSUME NEW ops, NEW mm, NEW t, Does(ops, mm, t)
  PROVE  Execute(ops, mm, Oracle) = t
<1>1. PICK S : ops \in Seq(S)
  BY DEF Does
<1>2. PICK ms : Carried(ops, ms) /\ ms[0] = mm /\ ms[Len(ops)] = t
  BY DEF Does
<1> DEFINE n == Len(ops)
           After(f) == f = [k \in 0 .. n |-> IF k = 0 THEN mm ELSE Step(ops[k], f[k - 1], Oracle)]
           after == CHOOSE f : After(f)
           e == [k \in 0 .. n |-> ms[k]]
<1>3. n \in Nat
  BY <1>1
<1>4. Execute(ops, mm, Oracle) = after[n]
  BY DEF Execute
<1>5. After(e)
  <2>1. \A k \in 1 .. n : ms[k] = Step(ops[k], ms[k - 1], Oracle)
    BY <1>2 DEF Carried
  <2>2. \A k \in 0 .. n : e[k] = IF k = 0 THEN mm ELSE Step(ops[k], e[k - 1], Oracle)
    <3> SUFFICES ASSUME NEW k \in 0 .. n PROVE e[k] = IF k = 0 THEN mm ELSE Step(ops[k], e[k - 1], Oracle)
      OBVIOUS
    <3>1. CASE k = 0
      BY <1>2, <1>3, <3>1
    <3>2. CASE k # 0
      <4>1. k \in 1 .. n /\ k - 1 \in 0 .. n
        BY <1>3, <3>2
      <4>2. e[k] = ms[k] /\ e[k - 1] = ms[k - 1]
        BY <4>1
      <4> HIDE DEF e
      <4> QED BY <2>1, <3>2, <4>1, <4>2
    <3> QED BY <3>1, <3>2
  <2>3. e = [k \in 0 .. n |-> e[k]]
    OBVIOUS
  <2> HIDE DEF e
  <2> QED BY <2>2, <2>3
<1> HIDE DEF after, e
<1>6. After(after)
  BY <1>5 DEF after
<1> DEFINE T == {k \in 0 .. n : after[k] = ms[k]}
<1> HIDE DEF n
<1>7. \A k \in 0 .. n : after[k] = IF k = 0 THEN mm ELSE Step(ops[k], after[k - 1], Oracle)
  BY <1>6
<1>8. 0 \in T
  BY <1>2, <1>3, <1>7
<1>9. ASSUME NEW k \in 1 .. n, k - 1 \in T PROVE k \in T
  <2>1. ms[k] = Step(ops[k], ms[k - 1], Oracle)
    BY <1>2 DEF Carried, n
  <2>2. after[k] = Step(ops[k], after[k - 1], Oracle)
    BY <1>3, <1>7
  <2> QED BY <1>3, <1>9, <2>1, <2>2
<1>10. \A k \in 0 .. n : k \in T
  <2> HIDE DEF T
  <2> QED BY <1>3, <1>8, <1>9, Counting
<1>11. after[n] = ms[n]
  BY <1>3, <1>10
<1> QED BY <1>2, <1>4, <1>11 DEF n

\* The memories of the oracle follow each other.
LEMMA MemoriesFollow ==
  ASSUME NEW formal, NEW u, NEW plan, NEW S, plan \in Seq(S)
  PROVE  LET mem == Memories(formal, u, plan)
         IN  /\ mem[0] = Enter(Seed, Probed(formal, u).state, <<>>)
             /\ \A k \in 1 .. Len(plan) :
                  mem[k] = Execute(formal[plan[k].table],
                                   Enter(mem[k - 1].regs, mem[k - 1].state, plan[k].args), Oracle)
<1> DEFINE n == Len(plan)
           b == Enter(Seed, Probed(formal, u).state, <<>>)
           next(k, x) == Execute(formal[plan[k].table], Enter(x.regs, x.state, plan[k].args), Oracle)
           Upto(f, j) == f = [k \in 0 .. j |-> IF k = 0 THEN b ELSE next(k, f[k - 1])]
           mem == Memories(formal, u, plan)
<1>1. n \in Nat
  OBVIOUS
<1>2. mem = CHOOSE f : Upto(f, n)
  BY DEF Memories
<1> HIDE DEF n, b, next, mem
<1> DEFINE T == {j \in 0 .. n : \E f : Upto(f, j)}
<1>3. 0 \in T
  <2>1. Upto([k \in 0 .. 0 |-> b], 0)
    OBVIOUS
  <2>2. 0 \in 0 .. n
    BY <1>1
  <2> HIDE DEF Upto
  <2> QED BY <2>1, <2>2
<1>4. ASSUME NEW j \in 1 .. n, j - 1 \in T PROVE j \in T
  <2>1. PICK f : Upto(f, j - 1)
    BY <1>4
  <2> DEFINE g == [k \in 0 .. j |-> IF k = j THEN next(j, f[j - 1]) ELSE f[k]]
  <2>2. ASSUME NEW k \in 0 .. j PROVE g[k] = IF k = 0 THEN b ELSE next(k, g[k - 1])
    <3>1. CASE k = j
      <4>1. k # 0 /\ k - 1 \in 0 .. j /\ k - 1 # j
        BY <1>1, <3>1
      <4>2. g[k] = next(j, f[j - 1]) /\ g[k - 1] = f[k - 1]
        BY <3>1, <4>1
      <4> HIDE DEF g
      <4> QED BY <3>1, <4>1, <4>2
    <3>2. CASE k # j
      <4>1. k \in 0 .. j - 1 /\ k # j /\ k - 1 # j /\ (k # 0 => k - 1 \in 0 .. j)
        BY <1>1, <3>2
      <4>2. g[k] = f[k] /\ (k # 0 => g[k - 1] = f[k - 1])
        BY <4>1
      <4>3. f[k] = IF k = 0 THEN b ELSE next(k, f[k - 1])
        BY <2>1, <4>1
      <4> HIDE DEF g
      <4> QED BY <4>2, <4>3
    <3> QED BY <3>1, <3>2
  <2>3. g = [k \in 0 .. j |-> g[k]]
    OBVIOUS
  <2> HIDE DEF g
  <2>4. Upto(g, j)
    BY <2>2, <2>3
  <2> QED BY <1>1, <2>4
<1>5. n \in T
  <2>1. \A k \in 0 .. n : k \in T
    <3> HIDE DEF T
    <3> QED BY <1>1, <1>3, <1>4, Counting
  <2> QED BY <1>1, <2>1
<1>6. Upto(mem, n)
  <2>1. \E f : Upto(f, n)
    BY <1>5
  <2> HIDE DEF Upto
  <2> QED BY <1>2, <2>1
<1>7. mem[0] = b /\ \A k \in 1 .. n : mem[k] = next(k, mem[k - 1])
  BY <1>1, <1>6
<1> QED BY <1>7 DEF n, b, next, mem

\* The states of the reference follow each other.
LEMMA RefStatesFollow ==
  ASSUME NEW g, NEW u, NEW plan, NEW S, plan \in Seq(S)
  PROVE  LET s == RefStates(g, u, plan)
         IN  /\ s[0] = RefStart(g, u)
             /\ \A k \in 1 .. Len(plan) :
                  s[k] = Ref!After(plan[k].table, [s[k - 1] EXCEPT !.trace = <<>>], Active(g, u), plan[k].args)
<1> DEFINE n == Len(plan)
           b == RefStart(g, u)
           next(k, x) == Ref!After(plan[k].table, [x EXCEPT !.trace = <<>>], Active(g, u), plan[k].args)
           Upto(f, j) == f = [k \in 0 .. j |-> IF k = 0 THEN b ELSE next(k, f[k - 1])]
           s == RefStates(g, u, plan)
<1>1. n \in Nat
  OBVIOUS
<1>2. s = CHOOSE f : Upto(f, n)
  BY DEF RefStates
<1> HIDE DEF n, b, next, s
<1> DEFINE T == {j \in 0 .. n : \E f : Upto(f, j)}
<1>3. 0 \in T
  <2>1. Upto([k \in 0 .. 0 |-> b], 0)
    OBVIOUS
  <2>2. 0 \in 0 .. n
    BY <1>1
  <2> HIDE DEF Upto
  <2> QED BY <2>1, <2>2
<1>4. ASSUME NEW j \in 1 .. n, j - 1 \in T PROVE j \in T
  <2>1. PICK f : Upto(f, j - 1)
    BY <1>4
  <2> DEFINE h == [k \in 0 .. j |-> IF k = j THEN next(j, f[j - 1]) ELSE f[k]]
  <2>2. ASSUME NEW k \in 0 .. j PROVE h[k] = IF k = 0 THEN b ELSE next(k, h[k - 1])
    <3>1. CASE k = j
      <4>1. k # 0 /\ k - 1 \in 0 .. j /\ k - 1 # j
        BY <1>1, <3>1
      <4>2. h[k] = next(j, f[j - 1]) /\ h[k - 1] = f[k - 1]
        BY <3>1, <4>1
      <4> HIDE DEF h
      <4> QED BY <3>1, <4>1, <4>2
    <3>2. CASE k # j
      <4>1. k \in 0 .. j - 1 /\ k # j /\ k - 1 # j /\ (k # 0 => k - 1 \in 0 .. j)
        BY <1>1, <3>2
      <4>2. h[k] = f[k] /\ (k # 0 => h[k - 1] = f[k - 1])
        BY <4>1
      <4>3. f[k] = IF k = 0 THEN b ELSE next(k, f[k - 1])
        BY <2>1, <4>1
      <4> HIDE DEF h
      <4> QED BY <4>2, <4>3
    <3> QED BY <3>1, <3>2
  <2>3. h = [k \in 0 .. j |-> h[k]]
    OBVIOUS
  <2> HIDE DEF h
  <2>4. Upto(h, j)
    BY <2>2, <2>3
  <2> QED BY <1>1, <2>4
<1>5. n \in T
  <2>1. \A k \in 0 .. n : k \in T
    <3> HIDE DEF T
    <3> QED BY <1>1, <1>3, <1>4, Counting
  <2> QED BY <1>1, <2>1
<1>6. Upto(s, n)
  <2>1. \E f : Upto(f, n)
    BY <1>5
  <2> HIDE DEF Upto
  <2> QED BY <1>2, <2>1
<1>7. s[0] = b /\ \A k \in 1 .. n : s[k] = next(k, s[k - 1])
  BY <1>1, <1>6
<1> QED BY <1>7 DEF n, b, next, s

\* n lists over C, and one with the members of them all.
Lists(n, C) == [1 .. n -> Seq(C)]
Joins(flat, C, n, seqs) ==
  /\ flat \in Seq(C)
  /\ \A k \in 1 .. n : \A x \in 1 .. Len(seqs[k]) : \E j \in 1 .. Len(flat) : flat[j] = seqs[k][x]

\* What is flattened has the members of its parts, and every one of them.
LEMMA Flattened ==
  ASSUME NEW C, NEW n \in Nat \ {0}, NEW seqs \in Lists(n, C)
  PROVE  Joins(FlattenSeq(seqs), C, n, seqs)
<1> USE DEF Lists, Joins
<1> DEFINE Upto(f, l) == f = [i \in 1 .. l |-> IF i = 1 THEN seqs[i] ELSE f[i - 1] \o seqs[i]]
           flat == CHOOSE f : Upto(f, n)
<1>1. Len(seqs) = n /\ n \in Nat /\ n # 0
  BY LenProperties
<1>2. FlattenSeq(seqs) = flat[n]
  BY <1>1 DEF FlattenSeq
<1> HIDE DEF flat
<1> DEFINE T == {l \in 0 .. n : \E f : Upto(f, l)}
<1>3. 0 \in T
  <2>1. Upto([i \in 1 .. 0 |-> <<>>], 0)
    OBVIOUS
  <2>2. 0 \in 0 .. n
    BY <1>1
  <2> HIDE DEF Upto
  <2> QED BY <2>1, <2>2
<1>4. ASSUME NEW l \in 1 .. n, l - 1 \in T PROVE l \in T
  <2>1. PICK f : Upto(f, l - 1)
    BY <1>4
  <2> DEFINE last == IF l = 1 THEN seqs[l] ELSE f[l - 1] \o seqs[l]
             h == [i \in 1 .. l |-> IF i = l THEN last ELSE f[i]]
  <2> HIDE DEF last
  <2>2. ASSUME NEW i \in 1 .. l PROVE h[i] = IF i = 1 THEN seqs[i] ELSE h[i - 1] \o seqs[i]
    <3>1. CASE i = l
      <4>1. h[i] = last
        BY <3>1
      <4>2. i # 1 => h[i - 1] = f[i - 1]
        BY <3>1
      <4> HIDE DEF h
      <4> QED BY <3>1, <4>1, <4>2 DEF last
    <3>2. CASE i # l
      <4>1. i \in 1 .. l - 1 /\ (i # 1 => i - 1 \in 1 .. l /\ i - 1 # l)
        BY <1>1, <3>2
      <4>2. h[i] = f[i] /\ (i # 1 => h[i - 1] = f[i - 1])
        BY <3>2, <4>1
      <4>3. f[i] = IF i = 1 THEN seqs[i] ELSE f[i - 1] \o seqs[i]
        BY <2>1, <4>1
      <4> HIDE DEF h
      <4> QED BY <4>2, <4>3
    <3> QED BY <3>1, <3>2
  <2>3. h = [i \in 1 .. l |-> h[i]]
    OBVIOUS
  <2> HIDE DEF h
  <2>4. Upto(h, l)
    BY <2>2, <2>3
  <2> HIDE DEF Upto
  <2> QED BY <1>1, <2>4
<1>5. Upto(flat, n)
  <2>1. \A k \in 0 .. n : k \in T
    <3> HIDE DEF T
    <3> QED BY <1>1, <1>3, <1>4, Counting
  <2>2. n \in T
    <3> HIDE DEF T
    <3> QED BY <1>1, <2>1
  <2>3. \E f : Upto(f, n)
    <3> HIDE DEF Upto
    <3> QED BY <2>2
  <2> HIDE DEF Upto
  <2> QED BY <2>3 DEF flat
<1>6. \A i \in 1 .. n : flat[i] = IF i = 1 THEN seqs[i] ELSE flat[i - 1] \o seqs[i]
  BY <1>5
<1> DEFINE Has(s, k) == \A x \in 1 .. Len(seqs[k]) : \E j \in 1 .. Len(s) : s[j] = seqs[k][x]
           G == {l \in 0 .. n : l # 0 => flat[l] \in Seq(C) /\ \A k \in 1 .. l : Has(flat[l], k)}
<1>7. 0 \in G
  BY <1>1
<1>8. ASSUME NEW l \in 1 .. n, l - 1 \in G PROVE l \in G
  <2>1. seqs[l] \in Seq(C) /\ l \in 0 .. n
    BY <1>1
  <2>2. CASE l = 1
    <3>1. flat[l] = seqs[l]
      BY <1>6, <2>2
    <3>2. Has(flat[l], l)
      BY <3>1
    <3>3. \A k \in 1 .. l : k = l
      BY <2>2
    <3> HIDE DEF Has
    <3> QED BY <2>1, <3>1, <3>2, <3>3
  <2>3. CASE l # 1
    <3> DEFINE a == flat[l - 1]
               b == seqs[l]
               s == a \o b
    <3>1. flat[l] = s
      BY <1>6, <2>3
    <3>2. a \in Seq(C) /\ \A k \in 1 .. l - 1 : Has(a, k)
      <4>1. l - 1 # 0
        BY <1>1, <2>3
      <4> HIDE DEF Has
      <4> QED BY <1>8, <4>1
    <3>3. b \in Seq(C) /\ s \in Seq(C) /\ Len(s) = Len(a) + Len(b) /\ Len(a) \in Nat /\ Len(b) \in Nat
          /\ \A i \in 1 .. Len(s) : s[i] = IF i <= Len(a) THEN a[i] ELSE b[i - Len(a)]
      BY <2>1, <3>2, LenProperties, ConcatProperties
    <3> HIDE DEF s
    <3>4. ASSUME NEW k \in 1 .. l - 1 PROVE Has(s, k)
      <4> SUFFICES ASSUME NEW x \in 1 .. Len(seqs[k]) PROVE \E j \in 1 .. Len(s) : s[j] = seqs[k][x]
        OBVIOUS
      <4>1. PICK j \in 1 .. Len(a) : a[j] = seqs[k][x]
        BY <3>2, <3>4
      <4>2. j \in 1 .. Len(s) /\ j <= Len(a)
        BY <3>3
      <4> QED BY <3>3, <4>1, <4>2
    <3>5. Has(s, l)
      <4> SUFFICES ASSUME NEW x \in 1 .. Len(b) PROVE \E j \in 1 .. Len(s) : s[j] = b[x]
        OBVIOUS
      <4>1. Len(a) + x \in 1 .. Len(s) /\ ~(Len(a) + x <= Len(a)) /\ (Len(a) + x) - Len(a) = x
        BY <3>3
      <4> HIDE DEF a, b
      <4> QED BY <3>3, <4>1
    <3>6. \A k \in 1 .. l : k \in 1 .. l - 1 \/ k = l
      BY <1>1
    <3> HIDE DEF Has
    <3> QED BY <2>1, <3>1, <3>3, <3>4, <3>5, <3>6
  <2> QED BY <2>2, <2>3
<1>9. n \in G
  <2>1. \A k \in 0 .. n : k \in G
    <3> HIDE DEF G
    <3> QED BY <1>1, <1>7, <1>8, Counting
  <2> QED BY <1>1, <2>1
<1>10. flat[n] \in Seq(C) /\ \A k \in 1 .. n : Has(flat[n], k)
  BY <1>1, <1>9
<1> HIDE DEF Upto
<1> QED BY <1>2, <1>10

\* The calls a plan of these modules may make.
Calls(formal) == {c \in ChipCalls : c.table \in TableSet /\ formal[c.table] # <<>>}

\* The callbacks a plan may call.
LEMMA TablesListed ==
  /\ TableSet = {"get", "get_multiple", "set", "set_multiple", "direction_input", "direction_output", "get_direction"}
  /\ DOMAIN Tables = 1 .. 7
  /\ \A k \in 1 .. 7 : Tables[k] \in TableSet
  /\ \A t \in TableSet : \E k \in 1 .. 7 : Tables[k] = t
<1>1. /\ DOMAIN Tables = 1 .. 7 /\ Tables[1] = "get" /\ Tables[2] = "get_multiple" /\ Tables[3] = "set"
      /\ Tables[4] = "set_multiple" /\ Tables[5] = "direction_input" /\ Tables[6] = "direction_output"
      /\ Tables[7] = "get_direction"
  BY DEF Tables
<1>2. \A k \in 1 .. 7 : k = 1 \/ k = 2 \/ k = 3 \/ k = 4 \/ k = 5 \/ k = 6 \/ k = 7
  OBVIOUS
<1>3. TableSet = {Tables[k] : k \in 1 .. 7}
  BY <1>1 DEF TableSet, Range
<1> HIDE DEF Tables
<1> QED BY <1>1, <1>2, <1>3

\* The part of the plan for one callback.
LEMMA OneOrTwo ==
  ASSUME NEW C, NEW x \in C, NEW y \in C, NEW s \in {<<x, y>>, <<x>>}
  PROVE  s \in Seq(C) /\ 1 \in 1 .. Len(s) /\ s[1] = x
<1>1. CASE s = <<x, y>>
  <2>1. s \in Seq(C) /\ Len(s) = 2 /\ s[1] = x
    BY <1>1
  <2> QED BY <2>1
<1>2. CASE s = <<x>>
  <2>1. s \in Seq(C) /\ Len(s) = 1 /\ s[1] = x
    BY <1>2
  <2> QED BY <2>1
<1> QED BY <1>1, <1>2

\* The plan passes lines and words the chip has.
LEMMA ArgumentsFit ==
  ASSUME NEW t \in TableSet, NEW v \in BOOLEAN
  PROVE  [table |-> t, args |-> PlanArgs(t, v)] \in ChipCalls
<1>1. CASE t \in {"get_multiple", "set_multiple"}
  <2>1. PlanArgs(t, v) \in [mask : SUBSET Width, bits : SUBSET Width]
    BY <1>1, PlanAssumption DEF PlanArgs
  <2> QED BY <1>1, <2>1 DEF ChipCalls, Ref!ManyCalls
<1>2. CASE t \notin {"get_multiple", "set_multiple"}
  <2>1. PlanArgs(t, v) \in [offset : Width, value : BOOLEAN]
    BY <1>2, PlanAssumption DEF PlanArgs
  <2> QED BY <1>2, <2>1, TablesListed DEF ChipCalls, Ref!SingleCalls
<1> QED BY <1>1, <1>2

\* gpio_callback_plan calls every callback that was written, and no other.
LEMMA PlanCalls ==
  ASSUME NEW g, NEW formal
  PROVE  LET plan == PlanOf(g, formal)
         IN  /\ plan \in Seq(Calls(formal))
             /\ Supported(g) =>
                  \A t \in TableSet : formal[t] # <<>> => \E j \in 1 .. Len(plan) : plan[j].table = t
<1> DEFINE one(t, v) == [table |-> t, args |-> PlanArgs(t, v)]
           part(t) == IF formal[t] = <<>> THEN <<>>
                      ELSE IF t = "set" THEN <<one(t, TRUE), one(t, FALSE)>>
                      ELSE <<one(t, TRUE)>>
           seqs == [k \in DOMAIN Tables |-> part(Tables[k])]
           C == Calls(formal)
           plan == PlanOf(g, formal)
<1>1. plan = IF ~Supported(g) THEN <<>> ELSE FlattenSeq(seqs)
  BY DEF PlanOf
<1>2. ASSUME NEW t \in TableSet, NEW v \in BOOLEAN, formal[t] # <<>> PROVE one(t, v) \in C /\ one(t, v).table = t
  BY <1>2, ArgumentsFit DEF Calls
<1> HIDE DEF one, C
<1>3. ASSUME NEW t \in TableSet
      PROVE  part(t) \in Seq(C) /\ (formal[t] # <<>> => 1 \in 1 .. Len(part(t)) /\ part(t)[1].table = t)
  <2>1. CASE formal[t] = <<>>
    BY <2>1
  <2>2. CASE formal[t] # <<>>
    <3> DEFINE x == one(t, TRUE)
               y == one(t, FALSE)
    <3>1. part(t) \in {<<x, y>>, <<x>>}
      BY <2>2
    <3>2. x \in C /\ y \in C /\ x.table = t
      BY <1>2, <2>2
    <3> HIDE DEF part, x, y
    <3>3. part(t) \in Seq(C) /\ 1 \in 1 .. Len(part(t)) /\ part(t)[1] = x
      <4>1. \A s \in {<<x, y>>, <<x>>} : s \in Seq(C) /\ 1 \in 1 .. Len(s) /\ s[1] = x
        BY <3>2, OneOrTwo
      <4> QED BY <3>1, <4>1
    <3> QED BY <3>2, <3>3
  <2> QED BY <2>1, <2>2
<1> HIDE DEF part
<1>4. seqs \in [1 .. 7 -> Seq(C)] /\ \A k \in 1 .. 7 : seqs[k] = part(Tables[k])
  BY <1>3, TablesListed
<1> HIDE DEF seqs
<1>5. /\ FlattenSeq(seqs) \in Seq(C)
      /\ \A k \in 1 .. 7 : \A x \in 1 .. Len(seqs[k]) :
           \E j \in 1 .. Len(FlattenSeq(seqs)) : FlattenSeq(seqs)[j] = seqs[k][x]
  <2>1. 7 \in Nat \ {0} /\ seqs \in Lists(7, C)
    BY <1>4 DEF Lists
  <2>2. Joins(FlattenSeq(seqs), C, 7, seqs)
    BY ONLY <2>1, Flattened
  <2> QED BY ONLY <2>2 DEF Joins
<1>6. <<>> \in Seq(C)
  OBVIOUS
<1>7. ASSUME NEW t \in TableSet, formal[t] # <<>>
      PROVE  \E j \in 1 .. Len(FlattenSeq(seqs)) : FlattenSeq(seqs)[j].table = t
  <2>1. PICK k \in 1 .. 7 : Tables[k] = t
    BY TablesListed
  <2>2. 1 \in 1 .. Len(seqs[k]) /\ seqs[k][1].table = t
    BY <1>3, <1>4, <1>7, <2>1
  <2> QED BY <1>5, <2>2
<1> HIDE DEF plan
<1> QED BY <1>1, <1>5, <1>6, <1>7 DEF C, plan

\* Nothing is planned where no callback was written.
LEMMA NothingPlanned ==
  ASSUME NEW g, NEW formal, \A t \in TableSet : formal[t] = <<>>
  PROVE  PlanOf(g, formal) = <<>>
<1>1. Calls(formal) = {}
  BY DEF Calls
<1>2. PlanOf(g, formal) \in Seq({})
  BY <1>1, PlanCalls
<1> QED BY <1>2
-----------------------------------------------------------------------------
(* What both oracles pass.                                                 *)

LEMMA PassedWasRight ==
  ASSUME Running
  PROVE  PassedIsReference
<1> SUFFICES ASSUME run.phase = "judged", run.callbacks, run.source
             PROVE  /\ ~run.died /\ Len(run.segments) = Len(Plan)
                    /\ \A k \in DOMAIN Plan : run.segments[k] = Reference(gen, FirstUnit, Plan)[k]
  BY DEF PassedIsReference
<1>1. CallbacksPassed /\ SourcePassed /\ (run.died => ~run.end)
  BY DEF Running
<1>2. Plan # <<>>
  BY <1>1 DEF SourcePassed
<1>3. Expected # {}
  BY <1>2, NothingPlanned DEF Expected, Plan
<1>4. /\ run.end /\ Len(run.segments) = Len(Plan)
      /\ \A k \in DOMAIN Plan : run.segments[k] = Executed(run.formal, FirstUnit, Plan)[k]
  BY <1>1, <1>3 DEF CallbacksPassed
<1>5. Executed(run.formal, FirstUnit, Plan) = Reference(gen, FirstUnit, Plan)
  BY <1>1, FirstUnitThere DEF SourcePassed, Running
<1> QED BY <1>1, <1>4, <1>5

\* Of every run of the harness, whatever is wrong with the RIS or with the C and
\* wherever the program dies: what both oracles of verification/ pass was
\* executed to its end and did what gpio-mmio.c does, call by call.
THEOREM PassedWereRight == HSpec => []PassedIsReference
<1> DEFINE OfARun == run = NoRun \/ Running
<1>1. HInit => OfARun
  BY HarnessStarts
<1>2. OfARun /\ [HNext]_hvars => OfARun'
  <2> SUFFICES ASSUME OfARun, [HNext]_hvars PROVE OfARun'
    OBVIOUS
  <2>1. CASE UNCHANGED hvars
    BY <2>1 DEF hvars, cvars, Running, RunFields, CallbacksPassed, SourcePassed, Expected, Plan
  <2>2. CASE Running /\ HNext
    BY <2>2, HarnessOnly
  <2>3. CASE run = NoRun /\ HNext
    BY <2>3, NoRunSteps
  <2> QED BY <2>1, <2>2, <2>3
<1>3. OfARun => PassedIsReference
  <2>1. run = NoRun => PassedIsReference
    BY NotNoRun DEF PassedIsReference
  <2> QED BY <2>1, PassedWasRight
<1> QED BY <1>1, <1>2, <1>3, PTL DEF HSpec
-----------------------------------------------------------------------------
(* A right program: its C does what the oracle does, operation by           *)
(* operation, where neither sees a word wider than an access.              *)

\* The chips whose setup writes no word wider than the access into a shadow.
Wide(g) == Width = Word \/ ~Present(g, "dirin") \/ "UNREADABLE_DIR" \in g.flags

\* What a callback or the setup of such a chip is made of.
StateValues(T) ==
  IF T = "init" THEN {"none", "word", "word by variant"} \cup (IF Width = Word THEN {"~word"} ELSE {})
  ELSE IF T \in {"get_multiple", "set_multiple"} THEN {"next many"}
  ELSE {"next data", "dir in", "dir out"}
WriteValues ==
  {"line", "set bits", "clear bits", "next data", "next many", "dir in", "~dir in", "dir in by variant",
   "dir out", "~dir out", "dir out by variant"}
Whens == {"always", "value", "~value", "some set", "some clear"}
StateNames == {"gpio_sdata", "gpio_sdir", "gpio_config_variant", "gpio_bank_index"}
RegistersOf(g) == {g.at[f] : f \in DOMAIN g.at}
PlainOps(g, T) ==
  [op : {"Read"}, reg : RegistersOf(g), var : {"word"}, when : {"always"}]
    \cup [op : {"Write"}, reg : RegistersOf(g), value : WriteValues, when : Whens]
    \cup [op : {"StateRead"}, field : StateNames, when : {"always"}]
    \cup [op : {"StateWrite"}, field : {"gpio_sdata", "gpio_sdir"}, value : StateValues(T), when : {"always"}]
    \cup [op : {"OutputWrite"}, value : {"merged"}, when : {"always"}]
    \cup [op : {"Return"}, value : {"0", "bit of word", "0 if word", "1 if word", "0 if dir", "direction by variant"},
          when : {"always"}]

Plain(g, T, ops) == ops \in Seq(PlainOps(g, T))

\* The operations of a part after another, of none, of one, and of each kind.
LEMMA PlainThen ==
  ASSUME NEW g, NEW T, NEW a, NEW b, Plain(g, T, a), Plain(g, T, b)
  PROVE  Plain(g, T, a \o b)
BY ConcatProperties DEF Plain

LEMMA PlainNone == ASSUME NEW g, NEW T PROVE Plain(g, T, <<>>)
BY DEF Plain

LEMMA PlainOne ==
  ASSUME NEW g, NEW T, NEW op \in PlainOps(g, T)
  PROVE  Plain(g, T, <<op>>)
BY DEF Plain

LEMMA PlainRd ==
  ASSUME NEW g, NEW T, NEW f \in DOMAIN g.at
  PROVE  Plain(g, T, Rd(g, f, "word"))
<1>1. [op |-> "Read", reg |-> g.at[f], var |-> "word", when |-> "always"] \in PlainOps(g, T)
  BY DEF PlainOps, RegistersOf
<1> QED BY <1>1, PlainOne DEF Rd

LEMMA PlainWr ==
  ASSUME NEW g, NEW T, NEW f \in DOMAIN g.at, NEW value \in WriteValues
  PROVE  Plain(g, T, Wr(g, f, value)) /\ \A when \in Whens : Plain(g, T, If(when, Wr(g, f, value)))
<1>1. \A when \in Whens : [op |-> "Write", reg |-> g.at[f], value |-> value, when |-> when] \in PlainOps(g, T)
  BY DEF PlainOps, RegistersOf
<1>2. Plain(g, T, Wr(g, f, value))
  BY <1>1, PlainOne DEF Wr, Whens
<1>3. ASSUME NEW when \in Whens PROVE Plain(g, T, If(when, Wr(g, f, value)))
  BY <1>1, IfWrite, PlainOne
<1> QED BY <1>2, <1>3

LEMMA PlainSt ==
  ASSUME NEW g, NEW T
  PROVE  /\ \A f \in StateNames : Plain(g, T, StRd(f))
         /\ \A f \in {"gpio_sdata", "gpio_sdir"}, v \in StateValues(T) : Plain(g, T, StWr(f, v))
<1>1. ASSUME NEW f \in StateNames PROVE Plain(g, T, StRd(f))
  <2>1. [op |-> "StateRead", field |-> f, when |-> "always"] \in PlainOps(g, T)
    BY DEF PlainOps
  <2> QED BY <2>1, PlainOne DEF StRd
<1>2. ASSUME NEW f \in {"gpio_sdata", "gpio_sdir"}, NEW v \in StateValues(T) PROVE Plain(g, T, StWr(f, v))
  <2>1. [op |-> "StateWrite", field |-> f, value |-> v, when |-> "always"] \in PlainOps(g, T)
    BY DEF PlainOps
  <2> QED BY <2>1, PlainOne DEF StWr
<1> QED BY <1>1, <1>2

LEMMA PlainRet ==
  ASSUME NEW g, NEW T,
         NEW v \in {"0", "bit of word", "0 if word", "1 if word", "0 if dir", "direction by variant"}
  PROVE  Plain(g, T, Ret(v))
<1>1. [op |-> "Return", value |-> v, when |-> "always"] \in PlainOps(g, T)
  BY DEF PlainOps
<1> QED BY <1>1, PlainOne DEF Ret

LEMMA PlainOut == ASSUME NEW g, NEW T PROVE Plain(g, T, OutWr("merged"))
<1>1. [op |-> "OutputWrite", value |-> "merged", when |-> "always"] \in PlainOps(g, T)
  BY DEF PlainOps
<1> QED BY <1>1, PlainOne DEF OutWr

\* The start of every callback and of the setup.
LEMMA PlainStart ==
  ASSUME NEW g, NEW T
  PROVE  Plain(g, T, Bank(g)) /\ Plain(g, T, Selector(g))
BY PlainSt, PlainNone DEF Bank, Selector, Only, StateNames

\* The setup.
LEMMA PlainInit ==
  ASSUME NEW g, "dat" \in DOMAIN g.at, Wide(g)
  PROVE  Plain(g, "init", InitOps(g))
<1> DEFINE T == "init"
<1>1. "word" \in StateValues(T) /\ "none" \in StateValues(T) /\ "word by variant" \in StateValues(T)
      /\ (Width = Word => "~word" \in StateValues(T))
  BY DEF StateValues
<1>2. \A f \in DOMAIN g.at, x \in {"gpio_sdata", "gpio_sdir"}, v \in StateValues(T) :
        Plain(g, T, Rd(g, f, "word") \o StWr(x, v))
  BY PlainRd, PlainSt, PlainThen
<1> HIDE DEF T
<1>3. Plain(g, T, InitData(g))
  <2>1. Plain(g, T, Rd(g, "dat", "word") \o StWr("gpio_sdata", "word"))
    BY <1>1, <1>2
  <2>2. Plain(g, T, For(g, "set", Rd(g, "set", "word") \o StWr("gpio_sdata", "word")))
    BY <1>1, <1>2, PlainNone DEF For, Present
  <2>3. Plain(g, T, Only(Present(g, "set") /\ ~Present(g, "clr") /\ "UNREADABLE_SET" \notin g.flags,
                         For(g, "set", Rd(g, "set", "word") \o StWr("gpio_sdata", "word"))))
    BY <2>2, PlainNone DEF Only
  <2>4. Plain(g, T, (Rd(g, "dat", "word") \o StWr("gpio_sdata", "word"))
                    \o Only(Present(g, "set") /\ ~Present(g, "clr") /\ "UNREADABLE_SET" \notin g.flags,
                            For(g, "set", Rd(g, "set", "word") \o StWr("gpio_sdata", "word"))))
    BY <2>1, <2>3, PlainThen
  <2> QED BY <2>4 DEF InitData
<1>4. Plain(g, T, InitDir(g))
  <2>1. CASE "UNREADABLE_DIR" \in g.flags /\ (Present(g, "dirout") \/ Present(g, "dirin"))
    <3>1. InitDir(g) = StWr("gpio_sdir", "none")
      BY <2>1 DEF InitDir
    <3> QED BY <1>1, <3>1, PlainSt
  <2>2. CASE ~("UNREADABLE_DIR" \in g.flags /\ (Present(g, "dirout") \/ Present(g, "dirin"))) /\ Selectable(g)
    <3>1. InitDir(g) = Rd(g, "dirout", "word") \o StWr("gpio_sdir", "word by variant")
      BY <2>2 DEF InitDir
    <3>2. "dirout" \in DOMAIN g.at
      BY <2>2 DEF Selectable, Both, Present
    <3> QED BY <1>1, <1>2, <3>1, <3>2
  <2>3. CASE ~("UNREADABLE_DIR" \in g.flags /\ (Present(g, "dirout") \/ Present(g, "dirin"))) /\ ~Selectable(g)
    <3> DEFINE x == For(g, "dirout", Rd(g, "dirout", "word") \o StWr("gpio_sdir", "word"))
               y == For(g, "dirin", Rd(g, "dirin", "word") \o StWr("gpio_sdir", "~word"))
    <3>1. InitDir(g) = x \o y
      BY <2>3 DEF InitDir
    <3>2. Plain(g, T, x)
      BY <1>1, <1>2, PlainNone DEF For, Present
    <3>3. Plain(g, T, y)
      <4>1. Present(g, "dirin") => Width = Word
        BY <2>3 DEF Wide
      <4> QED BY <1>1, <1>2, <4>1, PlainNone DEF For, Present
    <3> QED BY <3>1, <3>2, <3>3, PlainThen
  <2> QED BY <2>1, <2>2, <2>3
<1>5. Plain(g, T, ((Bank(g) \o Selector(g)) \o InitData(g)) \o InitDir(g))
  BY <1>3, <1>4, PlainStart, PlainThen
<1> QED BY <1>5 DEF InitOps, T

\* Of the callbacks: what is written when a line, or many, are set.
LEMMA PlainSet ==
  ASSUME NEW g, NEW T \in TableSet \ {"get", "get_multiple", "set_multiple"}, "dat" \in DOMAIN g.at
  PROVE  Plain(g, T, SetBody(g))
<1>1. "next data" \in StateValues(T)
  BY TablesListed DEF StateValues
<1>2. CASE SetClr(g)
  <2>1. "set" \in DOMAIN g.at /\ "clr" \in DOMAIN g.at
    BY <1>2 DEF SetClr, Present
  <2>2. Plain(g, T, If("value", Wr(g, "set", "line"))) /\ Plain(g, T, If("~value", Wr(g, "clr", "line")))
    BY <2>1, PlainWr DEF WriteValues, Whens
  <2> QED BY <1>2, <2>2, PlainThen DEF SetBody
<1>3. CASE ~SetClr(g)
  <2>1. OutReg(g) \in DOMAIN g.at
    BY DEF OutReg, Present
  <2>2. Plain(g, T, Wr(g, OutReg(g), "next data"))
    BY <2>1, PlainWr DEF WriteValues
  <2>3. Plain(g, T, StRd("gpio_sdata")) /\ Plain(g, T, StWr("gpio_sdata", "next data"))
    BY <1>1, PlainSt DEF StateNames
  <2> QED BY <1>3, <2>2, <2>3, PlainThen DEF SetBody
<1> QED BY <1>2, <1>3

LEMMA PlainSetMultiple ==
  ASSUME NEW g, "dat" \in DOMAIN g.at
  PROVE  Plain(g, "set_multiple", SetMultipleBody(g))
<1> DEFINE T == "set_multiple"
<1>1. "next many" \in StateValues(T)
  BY DEF StateValues
<1> HIDE DEF T
<1>2. CASE SetClr(g)
  <2>1. "set" \in DOMAIN g.at /\ "clr" \in DOMAIN g.at
    BY <1>2 DEF SetClr, Present
  <2>2. /\ Plain(g, T, If("some set", Wr(g, "set", "set bits")))
        /\ Plain(g, T, If("some clear", Wr(g, "clr", "clear bits")))
    BY <2>1, PlainWr DEF WriteValues, Whens
  <2>3. Plain(g, T, SetMultipleBody(g))
    BY <1>2, <2>2, PlainThen DEF SetMultipleBody
  <2> QED BY <2>3 DEF T
<1>3. CASE ~SetClr(g)
  <2>1. OutReg(g) \in DOMAIN g.at
    BY DEF OutReg, Present
  <2>2. Plain(g, T, Wr(g, OutReg(g), "next many"))
    BY <2>1, PlainWr DEF WriteValues
  <2>3. Plain(g, T, StRd("gpio_sdata")) /\ Plain(g, T, StWr("gpio_sdata", "next many"))
    BY <1>1, PlainSt DEF StateNames
  <2>4. Plain(g, T, SetMultipleBody(g))
    BY <1>3, <2>2, <2>3, PlainThen DEF SetMultipleBody
  <2> QED BY <2>4 DEF T
<1> QED BY <1>2, <1>3

\* When a direction is set.
LEMMA PlainDirection ==
  ASSUME NEW g, NEW T \in TableSet \ {"get", "get_multiple", "set_multiple"}
  PROVE  Plain(g, T, InputBody(g)) /\ Plain(g, T, OutputBody(g))
<1>1. ASSUME NEW next \in {"dir in", "dir out"}, NEW flipped \in {"~dir in", "~dir out"},
             NEW selected \in {"dir in by variant", "dir out by variant"}
      PROVE  Plain(g, T, DirectionBody(g, next, flipped, selected))
  <2>1. next \in StateValues(T)
    BY TablesListed DEF StateValues
  <2>2. Plain(g, T, StRd("gpio_sdir")) /\ Plain(g, T, StWr("gpio_sdir", next))
    BY <2>1, PlainSt DEF StateNames
  <2>3. next \in WriteValues /\ flipped \in WriteValues /\ selected \in WriteValues
    BY DEF WriteValues
  <2>4. Selectable(g) => Plain(g, T, Wr(g, "dirout", selected))
    BY <2>3, PlainWr DEF Selectable, Both, Present
  <2>5. /\ Plain(g, T, For(g, "dirout", Wr(g, "dirout", next)))
        /\ Plain(g, T, For(g, "dirin", Wr(g, "dirin", flipped)))
    BY <2>3, PlainWr, PlainNone DEF For, Present
  <2>6. Plain(g, T, IF Selectable(g) THEN Wr(g, "dirout", selected)
                    ELSE For(g, "dirout", Wr(g, "dirout", next)) \o For(g, "dirin", Wr(g, "dirin", flipped)))
    BY <2>4, <2>5, PlainThen
  <2> QED BY <2>2, <2>6, PlainStart, PlainThen DEF DirectionBody
<1> QED BY <1>1 DEF InputBody, OutputBody

\* When a line, or many, or a direction is read.
LEMMA PlainGet ==
  ASSUME NEW g, NEW T
  PROVE  /\ Plain(g, T, GetOps(g)) /\ Plain(g, T, GetMultipleOps(g))
         /\ Plain(g, T, Only(Directional(g), GetDirectionOps(g)))
<1>1. \A v \in {"0", "bit of word", "0 if word", "1 if word", "0 if dir", "direction by variant"} :
        Plain(g, T, Ret(v))
  BY PlainRet
<1>2. Plain(g, T, GetOps(g))
  BY <1>1, PlainRd, PlainThen, PlainNone DEF GetOps, For, Present
<1>3. Plain(g, T, GetMultipleOps(g))
  BY <1>1, PlainRd, PlainOut, PlainThen, PlainNone DEF GetMultipleOps, For, Present
<1>4. Plain(g, T, GetDirectionOps(g))
  <2>1. CASE Selectable(g)
    <3>1. GetDirectionOps(g) = Selector(g) \o Rd(g, "dirout", "word") \o Ret("direction by variant")
      BY <2>1 DEF GetDirectionOps
    <3>2. Plain(g, T, Rd(g, "dirout", "word"))
      BY <2>1, PlainRd DEF Selectable, Both, Present
    <3> QED BY <1>1, <3>1, <3>2, PlainStart, PlainThen
  <2>2. CASE ~Selectable(g) /\ "UNREADABLE_DIR" \in g.flags
    <3>1. GetDirectionOps(g) = StRd("gpio_sdir") \o Ret("0 if dir")
      BY <2>2 DEF GetDirectionOps
    <3>2. Plain(g, T, StRd("gpio_sdir"))
      BY PlainSt DEF StateNames
    <3> QED BY <1>1, <3>1, <3>2, PlainThen
  <2>3. CASE ~Selectable(g) /\ "UNREADABLE_DIR" \notin g.flags
    <3> DEFINE x == For(g, "dirout", Rd(g, "dirout", "word") \o Ret("0 if word"))
               y == For(g, "dirin", Rd(g, "dirin", "word") \o Ret("1 if word"))
    <3>1. GetDirectionOps(g) = x \o y
      BY <2>3 DEF GetDirectionOps
    <3>2. Plain(g, T, x)
      BY <1>1, PlainRd, PlainThen, PlainNone DEF For, Present
    <3>3. Plain(g, T, y)
      BY <1>1, PlainRd, PlainThen, PlainNone DEF For, Present
    <3> QED BY <3>1, <3>2, <3>3, PlainThen
  <2> QED BY <2>1, <2>2, <2>3
<1> QED BY <1>2, <1>3, <1>4, PlainNone DEF Only

\* All seven of them.
LEMMA PlainCallback ==
  ASSUME NEW g, NEW T \in TableSet, "dat" \in DOMAIN g.at
  PROVE  Plain(g, T, CallbackOps(g, T))
<1>0. Plain(g, T, Ret("0"))
  BY PlainRet
<1>1. Plain(g, T, Body(g, T))
  <2>1. CASE T = "get"
    BY <2>1, PlainGet DEF Body
  <2>2. CASE T = "get_multiple"
    BY <2>2, PlainGet DEF Body
  <2>3. CASE T = "set"
    <3>1. Body(g, T) = SetBody(g) \o Ret("0")
      BY <2>3 DEF Body
    <3>2. Plain(g, T, SetBody(g))
      BY <2>3, PlainSet
    <3> QED BY <1>0, <3>1, <3>2, PlainThen
  <2>4. CASE T = "set_multiple"
    <3>1. Body(g, T) = SetMultipleBody(g) \o Ret("0")
      BY <2>4 DEF Body
    <3>2. Plain(g, T, SetMultipleBody(g))
      BY <2>4, PlainSetMultiple
    <3> QED BY <1>0, <3>1, <3>2, PlainThen
  <2>5. CASE T = "direction_input"
    <3>1. Body(g, T) = Only(Directional(g), InputBody(g) \o Ret("0"))
      BY <2>5 DEF Body
    <3>2. Plain(g, T, InputBody(g))
      BY <2>5, PlainDirection
    <3> QED BY <1>0, <3>1, <3>2, PlainThen, PlainNone DEF Only
  <2>6. CASE T = "direction_output"
    <3>1. Body(g, T) = Only(Directional(g), DirectionOutputOps(g))
      BY <2>6 DEF Body
    <3>2. Plain(g, T, OutputBody(g)) /\ Plain(g, T, SetBody(g))
      BY <2>6, PlainDirection, PlainSet
    <3>3. Plain(g, T, OutputBody(g) \o SetBody(g)) /\ Plain(g, T, SetBody(g) \o OutputBody(g))
      BY <3>2, PlainThen
    <3>4. Plain(g, T, IF "NO_SET_ON_INPUT" \in g.flags THEN OutputBody(g) \o SetBody(g)
                      ELSE SetBody(g) \o OutputBody(g))
      BY <3>3
    <3>5. Plain(g, T, DirectionOutputOps(g))
      BY <1>0, <3>4, PlainThen DEF DirectionOutputOps
    <3> QED BY <3>1, <3>5, PlainNone DEF Only
  <2>7. CASE T = "get_direction"
    BY <2>7, PlainGet DEF Body
  <2> QED BY <2>1, <2>2, <2>3, <2>4, <2>5, <2>6, <2>7, TablesListed
<1>2. Plain(g, T, Bank(g) \o Body(g, T))
  BY <1>1, PlainStart, PlainThen
<1> QED BY <1>2, PlainNone DEF CallbackOps

\* The arguments a table is called with; the setup has none.
Fitting(T, a) ==
  \/ T = "init"
  \/ T \in {"get_multiple", "set_multiple"} /\ Many(a)
  \/ T \in TableSet \ {"get_multiple", "set_multiple"} /\ Single(a)

\* A memory of the unit the harness runs, entered with arguments a, that holds
\* no word wider than an access.
Narrow(mm, a) ==
  /\ mm \in [regs : [Address -> SUBSET Width], state : {mm.state}, env : {mm.env}, outputs : {mm.outputs},
             trace : {mm.trace}, result : {mm.result}, returned : {mm.returned}]
  /\ mm.state = [f \in StateNames |-> mm.state[f]]
  /\ mm.env = [x \in EnvNames |-> mm.env[x]]
  /\ mm.state["gpio_sdata"] \in SUBSET Width /\ mm.state["gpio_sdir"] \in SUBSET Width
  /\ mm.state["gpio_config_variant"] = 0 /\ mm.state["gpio_bank_index"] = 0
  /\ mm.env["word"] \in SUBSET Width
  /\ mm.env["gpio_sdata"] \in SUBSET Width /\ mm.env["gpio_sdir"] \in SUBSET Width
  /\ mm.env["gpio_config_variant"] = 0 /\ mm.env["gpio_bank_index"] = 0
  /\ \A x \in Arguments : mm.env[x] = Env(a)[x]

\* The arguments are words and lines.
LEMMA NarrowArguments ==
  ASSUME NEW mm, NEW a, Narrow(mm, a)
  PROVE  /\ Single(a) => mm.env["offset"] \in Width /\ mm.env["value"] \in BOOLEAN
         /\ Many(a)   => mm.env["mask"] \in SUBSET Width /\ mm.env["bits"] \in SUBSET Width
<1>1. \A x \in {"offset", "value", "mask", "bits"} :
         /\ mm.env[x] = Env(a)[x]
         /\ x \in DOMAIN a => Env(a)[x] = a[x]
  BY DEF Narrow, Env, Arguments
<1>2. ASSUME Single(a) PROVE mm.env["offset"] \in Width /\ mm.env["value"] \in BOOLEAN
  <2>1. "offset" \in DOMAIN a /\ "value" \in DOMAIN a /\ a["offset"] \in Width /\ a["value"] \in BOOLEAN
    BY <1>2 DEF Single
  <2> QED BY <1>1, <2>1
<1>3. ASSUME Many(a) PROVE mm.env["mask"] \in SUBSET Width /\ mm.env["bits"] \in SUBSET Width
  <2>1. "mask" \in DOMAIN a /\ "bits" \in DOMAIN a /\ a["mask"] \in SUBSET Width /\ a["bits"] \in SUBSET Width
    BY <1>3 DEF Many
  <2> QED BY <1>1, <2>1
<1> QED BY <1>2, <1>3

\* The interpreter and the C look a variant up in different places, and find 0.
LEMMA SameValues ==
  ASSUME NEW mm, NEW a, Narrow(mm, a)
  PROVE  /\ \A e : Eval(e, mm, InC) = Eval(e, mm, Oracle)
         /\ \A e : ReturnValue(e, mm, InC) = ReturnValue(e, mm, Oracle)
<1>1. Variant(mm, InC) = 0 /\ Variant(mm, Oracle) = 0
  BY DEF Variant, Narrow, InC, Oracle
<1>2. \A x : Chosen(x, mm, InC) = Chosen(x, mm, Oracle)
  BY <1>1 DEF Chosen
<1>3. ASSUME NEW e PROVE Eval(e, mm, InC) = Eval(e, mm, Oracle)
  BY <1>2 DEF Eval
<1>4. ASSUME NEW e PROVE ReturnValue(e, mm, InC) = ReturnValue(e, mm, Oracle)
  BY <1>1 DEF ReturnValue
<1> QED BY <1>3, <1>4

\* What is written into a shadow fits it.
LEMMA ShadowFits ==
  ASSUME NEW mm, NEW a, NEW T, Narrow(mm, a), Fitting(T, a), NEW v \in StateValues(T)
  PROVE  Eval(v, mm, Oracle) \in SUBSET Width
<1>1. Variant(mm, Oracle) = 0
  BY DEF Variant, Narrow, Oracle
<1>2. /\ mm.env["word"] \in SUBSET Width /\ mm.env["gpio_sdata"] \in SUBSET Width
      /\ mm.env["gpio_sdir"] \in SUBSET Width
  BY DEF Narrow
<1>3. CASE T = "init"
  <2>1. v \in {"none", "word", "word by variant"} \/ (v = "~word" /\ Width = Word)
    BY <1>3 DEF StateValues
  <2>2. Eval("word by variant", mm, Oracle) = mm.env["word"]
    BY <1>1, EvalIs DEF Chosen
  <2>3. Width = Word => Eval("~word", mm, Oracle) \in SUBSET Width
    BY <1>2, EvalIs DEF Flip
  <2> QED BY <1>2, <2>1, <2>2, <2>3, EvalIs
<1>4. CASE T \in {"get_multiple", "set_multiple"}
  <2>1. v = "next many" /\ Many(a)
    BY <1>4, TablesListed DEF StateValues, Fitting
  <2> QED BY <1>2, <2>1, EvalNext, NarrowArguments
<1>5. CASE T \in TableSet \ {"get_multiple", "set_multiple"}
  <2>1. v \in {"next data", "dir in", "dir out"} /\ Single(a)
    BY <1>5, TablesListed DEF StateValues, Fitting
  <2>2. mm.env["offset"] \in Width /\ (mm.env["value"] = TRUE \/ mm.env["value"] = FALSE)
    BY <2>1, NarrowArguments
  <2>3. Eval("next data", mm, Oracle) \in SUBSET Width
    BY <1>2, <2>2, EvalNext
  <2>4. Eval("dir in", mm, Oracle) \in SUBSET Width
    BY <1>2, <2>2, EvalNext
  <2>5. Eval("dir out", mm, Oracle) \in SUBSET Width
    BY <1>2, <2>2, EvalNext
  <2> QED BY ONLY <2>1, <2>3, <2>4, <2>5
<1> QED BY <1>3, <1>4, <1>5 DEF Fitting

\* An operation does the same in C, and leaves no wider word.
LEMMA NarrowStep ==
  ASSUME NEW g \in Configs, NEW T, NEW a, NEW mm, Narrow(mm, a), Fitting(T, a), NEW op \in PlainOps(g, T)
  PROVE  Step(op, mm, InC) = Step(op, mm, Oracle) /\ Narrow(Step(op, mm, Oracle), a)
<1> DEFINE t == Do(op, mm, Oracle)
           c == Do(op, mm, InC)
<1> SUFFICES c = t /\ Narrow(t, a)
  BY DEF Step
<1>1. CASE op.op = "Read"
  <2>1. op.reg \in RegistersOf(g) /\ op.var = "word"
    BY <1>1 DEF PlainOps
  <2> DEFINE p == Place(op, mm)
             e == [mm.env EXCEPT !["word"] = mm.regs[p]]
  <2>2. p \in Address
    <3>1. op.reg \in Registers
      BY <2>1 DEF RegistersOf, Registers
    <3>2. mm.env["gpio_bank_index"] \in Banks
      BY BanksAssumption DEF Narrow
    <3> QED BY ONLY <3>1, <3>2 DEF Place, Address
  <2>3. mm.regs[p] \in SUBSET Width
    BY <2>2 DEF Narrow
  <2> HIDE DEF p
  <2>4. /\ t = [mm EXCEPT !.env = e, !.trace = Append(mm.trace, <<"R", p, mm.regs[p]>>)]
        /\ c = t
    BY <1>1, <2>1 DEF Do, p
  <2>5. e = [x \in EnvNames |-> IF x = "word" THEN mm.regs[p] ELSE mm.env[x]]
    BY DEF Narrow
  <2> HIDE DEF e, t, c
  <2>6. /\ t \in [regs : {mm.regs}, state : {mm.state}, env : {e}, outputs : {mm.outputs},
                  trace : {t.trace}, result : {mm.result}, returned : {mm.returned}]
    BY <2>4 DEF Narrow
  <2>7. /\ e["word"] = mm.regs[p] /\ \A x \in EnvNames \ {"word"} : e[x] = mm.env[x]
        /\ e = [x \in EnvNames |-> e[x]]
    BY <2>5 DEF EnvNames
  <2>8. t.regs = mm.regs /\ t.state = mm.state /\ t.env = e
    BY <2>6
  <2>9. mm.regs \in [Address -> SUBSET Width]
    BY DEF Narrow
  <2>10. t.state = [f \in StateNames |-> t.state[f]]
    BY <2>8 DEF Narrow
  <2>11. /\ t.state["gpio_sdata"] \in SUBSET Width /\ t.state["gpio_sdir"] \in SUBSET Width
         /\ t.state["gpio_config_variant"] = 0 /\ t.state["gpio_bank_index"] = 0
    BY <2>8 DEF Narrow
  <2>12. /\ t.env["gpio_sdata"] \in SUBSET Width /\ t.env["gpio_sdir"] \in SUBSET Width
         /\ t.env["gpio_config_variant"] = 0 /\ t.env["gpio_bank_index"] = 0
         /\ \A x \in Arguments : t.env[x] = Env(a)[x]
    BY <2>7, <2>8 DEF Narrow, EnvNames, Arguments
  <2>13. t \in [regs : [Address -> SUBSET Width], state : {t.state}, env : {t.env}, outputs : {t.outputs},
                trace : {t.trace}, result : {t.result}, returned : {t.returned}]
    BY ONLY <2>6, <2>9
  <2>14. t.env["word"] \in SUBSET Width /\ t.env = [x \in EnvNames |-> t.env[x]]
    BY ONLY <2>3, <2>7, <2>8
  <2> QED BY ONLY <2>4, <2>10, <2>11, <2>12, <2>13, <2>14 DEF Narrow
<1>2. CASE op.op = "Write"
  <2> DEFINE v == Eval(op.value, mm, Oracle) \cap Width
             p == Place(op, mm)
             r == [mm.regs EXCEPT ![p] = v]
  <2>1. Eval(op.value, mm, InC) \cap Width = v
    BY SameValues
  <2>2. v \in SUBSET Width
    OBVIOUS
  <2> HIDE DEF v, p
  <2>3. t = [mm EXCEPT !.regs = r, !.trace = Append(mm.trace, <<"W", p, v>>)]
    BY <1>2 DEF Do, v, p
  <2>4. c = t
    BY <1>2, <2>1, <2>3 DEF Do, p
  <2>5. r \in [Address -> SUBSET Width]
    BY <2>2 DEF Narrow
  <2> HIDE DEF r, t, c
  <2>6. t \in [regs : {r}, state : {mm.state}, env : {mm.env}, outputs : {mm.outputs},
               trace : {t.trace}, result : {mm.result}, returned : {mm.returned}]
    BY <2>3 DEF Narrow
  <2>7. t.regs = r /\ t.state = mm.state /\ t.env = mm.env
    BY <2>6
  <2> QED BY <2>4, <2>5, <2>6, <2>7 DEF Narrow
<1>3. CASE op.op = "StateRead"
  <2>1. op.field \in StateNames
    BY <1>3 DEF PlainOps
  <2> DEFINE e == [mm.env EXCEPT ![op.field] = mm.state[op.field]]
  <2>2. t = [mm EXCEPT !.env = e] /\ c = t
    BY <1>3 DEF Do
  <2>3. e = [x \in EnvNames |-> IF x = op.field THEN mm.state[op.field] ELSE mm.env[x]]
    BY DEF Narrow
  <2> HIDE DEF e, t, c
  <2>4. t \in [regs : {mm.regs}, state : {mm.state}, env : {e}, outputs : {mm.outputs},
               trace : {mm.trace}, result : {mm.result}, returned : {mm.returned}]
    BY <2>2 DEF Narrow
  <2>5. /\ \A x \in EnvNames : e[x] = IF x = op.field THEN mm.state[x] ELSE mm.env[x]
        /\ e = [x \in EnvNames |-> e[x]]
    BY <2>3
  <2>6. t.regs = mm.regs /\ t.state = mm.state /\ t.env = e
    BY <2>4
  <2>7. mm.regs \in [Address -> SUBSET Width]
    BY DEF Narrow
  <2>8. /\ e["gpio_sdata"] \in SUBSET Width /\ e["gpio_sdir"] \in SUBSET Width
        /\ e["gpio_config_variant"] = 0 /\ e["gpio_bank_index"] = 0
    BY <2>5 DEF Narrow, EnvNames
  <2>9. e["word"] = mm.env["word"] /\ \A x \in Arguments : e[x] = mm.env[x]
    BY <2>1, <2>5 DEF StateNames, EnvNames, Arguments
  <2> QED BY <2>2, <2>4, <2>5, <2>6, <2>7, <2>8, <2>9 DEF Narrow
<1>4. CASE op.op = "StateWrite"
  <2>1. op.field \in {"gpio_sdata", "gpio_sdir"} /\ op.value \in StateValues(T)
    BY <1>4 DEF PlainOps
  <2> DEFINE v == Eval(op.value, mm, Oracle)
             s == [mm.state EXCEPT ![op.field] = v]
  <2>2. v \in SUBSET Width /\ Eval(op.value, mm, InC) = v
    BY <2>1, ShadowFits, SameValues
  <2> HIDE DEF v
  <2>3. v \cap Oracle.word = v /\ v \cap InC.word = v
    BY <2>2, WidthAssumption DEF Oracle, InC
  <2>4. t = [mm EXCEPT !.state = s]
    BY <1>4, <2>3 DEF Do, v
  <2>5. c = [mm EXCEPT !.state = s]
    BY <1>4, <2>2, <2>3 DEF Do
  <2>6. s = [f \in StateNames |-> IF f = op.field THEN v ELSE mm.state[f]]
    BY DEF Narrow
  <2> HIDE DEF s, t, c
  <2>7. t \in [regs : {mm.regs}, state : {s}, env : {mm.env}, outputs : {mm.outputs},
               trace : {mm.trace}, result : {mm.result}, returned : {mm.returned}]
    BY <2>4 DEF Narrow
  <2>8. t.regs = mm.regs /\ t.state = s /\ t.env = mm.env
    BY <2>7
  <2>9. /\ s["gpio_sdata"] \in SUBSET Width /\ s["gpio_sdir"] \in SUBSET Width
        /\ s["gpio_config_variant"] = 0 /\ s["gpio_bank_index"] = 0
        /\ s = [f \in StateNames |-> s[f]]
    BY <2>1, <2>2, <2>6 DEF Narrow, StateNames
  <2>10. mm.regs \in [Address -> SUBSET Width]
    BY DEF Narrow
  <2> QED BY <2>4, <2>5, <2>7, <2>8, <2>9, <2>10 DEF Narrow
<1>5. CASE op.op = "OutputWrite"
  <2> DEFINE o == [mm.outputs EXCEPT !.bits = Eval(op.value, mm, Oracle)]
  <2>1. Eval(op.value, mm, InC) = Eval(op.value, mm, Oracle)
    BY SameValues
  <2>2. t = [mm EXCEPT !.outputs = o] /\ c = t
    BY <1>5, <2>1 DEF Do
  <2> HIDE DEF o, t, c
  <2>3. t \in [regs : {mm.regs}, state : {mm.state}, env : {mm.env}, outputs : {o},
               trace : {mm.trace}, result : {mm.result}, returned : {mm.returned}]
    BY <2>2 DEF Narrow
  <2>4. t.regs = mm.regs /\ t.state = mm.state /\ t.env = mm.env /\ mm.regs \in [Address -> SUBSET Width]
    BY <2>3 DEF Narrow
  <2> QED BY <2>2, <2>3, <2>4 DEF Narrow
<1>6. CASE op.op = "Return"
  <2> DEFINE r == ReturnValue(op.value, mm, Oracle)
  <2>1. ReturnValue(op.value, mm, InC) = r
    BY SameValues
  <2>2. t = [mm EXCEPT !.returned = TRUE, !.result = r] /\ c = t
    BY <1>6, <2>1 DEF Do
  <2> HIDE DEF r, t, c
  <2>3. t \in [regs : {mm.regs}, state : {mm.state}, env : {mm.env}, outputs : {mm.outputs},
               trace : {mm.trace}, result : {r}, returned : {TRUE}]
    BY <2>2 DEF Narrow
  <2>4. t.regs = mm.regs /\ t.state = mm.state /\ t.env = mm.env /\ mm.regs \in [Address -> SUBSET Width]
    BY <2>3 DEF Narrow
  <2> QED BY <2>2, <2>3, <2>4 DEF Narrow
<1>7. op.op \in {"Read", "Write", "StateRead", "StateWrite", "OutputWrite", "Return"}
  BY DEF PlainOps
<1> QED BY <1>1, <1>2, <1>3, <1>4, <1>5, <1>6, <1>7
-----------------------------------------------------------------------------
(* The oracle follows the plan through the states of the reference.        *)

\* The modules of the Formal RIS of a driver.
LEMMA FormalIs ==
  ASSUME NEW g
  PROVE  Formal(g)["init"] = InitOps(g) /\ \A t \in TableSet : Formal(g)[t] = CallbackOps(g, t)
BY TablesListed DEF Formal

\* The memory the probe leaves to the oracle.
LEMMA ProbedIs ==
  ASSUME Ref!SeedOK, Ref!ChipsOK, NEW g \in Configs, Supported(g), NEW u \in Units(g)
  PROVE  LET p == Probed(Formal(g), u)
         IN  /\ Does(InitOps(g), Enter(Seed, Device(u.variant, u.bank), <<>>), p)
             /\ p.state = StateOf(RefStart(g, u), u)
             /\ RefStart(g, u) \in ChipState
<1> DEFINE c  == Active(g, u)
           mm == Enter(Seed, Device(u.variant, u.bank), <<>>)
           o  == OutputsOf(<<>>)
<1>1. PICK s : s \in ChipState /\ s.regs = Seed /\ s.sdata = Ref!InitData(c) /\ s.sdir = Ref!InitDir(c)
               /\ Leads(InitOps(g), mm, s, u, <<>>, o)
  BY InitLoads DEF Loads
<1> HIDE DEF o
<1>2. PICK t : Does(InitOps(g), mm, t) /\ Mirrors(t, s, u, <<>>, o)
  BY <1>1 DEF Leads
<1>3. Probed(Formal(g), u) = t
  BY <1>2, FormalIs, DoesExecute DEF Probed
<1>4. t.state = StateOf(s, u)
  BY <1>2 DEF Mirrors, Memory
<1>5. /\ RefStart(g, u) = [regs |-> Seed, sdata |-> s.sdata, sdir |-> s.sdir, trace |-> <<>>]
  BY <1>1 DEF RefStart
<1>6. RefStart(g, u) \in ChipState
  BY <1>1, <1>5 DEF ChipState
<1>7. StateOf(RefStart(g, u), u) = StateOf(s, u)
  BY <1>5 DEF StateOf
<1> QED BY <1>2, <1>3, <1>4, <1>6, <1>7

\* What a call returns does not depend on the accesses made before it.
LEMMA TraceForgotten ==
  ASSUME NEW s \in ChipState
  PROVE  LET s0 == [s EXCEPT !.trace = <<>>]
         IN  /\ s0 \in ChipState /\ s0.trace = <<>> /\ s0.regs = s.regs
             /\ \A u : StateOf(s0, u) = StateOf(s, u)
             /\ \A t, c, a : /\ Ref!Result(t, s0, c, a) = Ref!Result(t, s, c, a)
                             /\ Ref!Outputs(t, s0, c, a) = Ref!Outputs(t, s, c, a)
<1> DEFINE s0 == [s EXCEPT !.trace = <<>>]
<1>1. s0 \in ChipState /\ s0.trace = <<>> /\ s0.regs = s.regs /\ s0.sdata = s.sdata /\ s0.sdir = s.sdir
  <2>1. s0 \in [regs : {s.regs}, sdata : {s.sdata}, sdir : {s.sdir}, trace : {<<>>}]
    BY DEF ChipState
  <2>2. <<>> \in Seq(ChipAccess)
    OBVIOUS
  <2> HIDE DEF s0
  <2>3. /\ s0.trace = <<>> /\ s0.regs = s.regs /\ s0.sdata = s.sdata /\ s0.sdir = s.sdir
        /\ s0 = [regs |-> s.regs, sdata |-> s.sdata, sdir |-> s.sdir, trace |-> <<>>]
    BY <2>1
  <2> QED BY <2>2, <2>3 DEF ChipState
<1> HIDE DEF s0
<1>2. \A u : StateOf(s0, u) = StateOf(s, u)
  BY <1>1 DEF StateOf
<1>3. ASSUME NEW t, NEW c, NEW a
      PROVE  /\ Ref!Result(t, s0, c, a) = Ref!Result(t, s, c, a)
             /\ Ref!Outputs(t, s0, c, a) = Ref!Outputs(t, s, c, a)
  BY <1>1 DEF Ref!Result, Ref!Outputs, Ref!IsInput
<1> QED BY <1>1, <1>2, <1>3 DEF s0

\* One call of the plan, by the oracle and by the reference.
LEMMA CallFollows ==
  ASSUME Ref!ChipsOK, SelectorsReadable, NEW g \in Configs, Supported(g), NEW u \in Units(g),
         NEW act \in Calls(Formal(g)), NEW s \in ChipState,
         NEW mm, mm.regs = s.regs, mm.state = StateOf(s, u)
  PROVE  LET ops == Formal(g)[act.table]
             mm1 == Enter(mm.regs, mm.state, act.args)
             t   == Execute(ops, mm1, Oracle)
             s1  == Ref!After(act.table, [s EXCEPT !.trace = <<>>], Active(g, u), act.args)
         IN  /\ Does(ops, mm1, t)
             /\ s1 \in ChipState /\ t.regs = s1.regs /\ t.state = StateOf(s1, u)
             /\ Segment(act, t) = RefSegment(g, u, act, s)
<1> DEFINE ops == Formal(g)[act.table]
           c  == Active(g, u)
           a  == act.args
           s0 == [s EXCEPT !.trace = <<>>]
           mm1 == Enter(mm.regs, mm.state, a)
           s1 == Ref!After(act.table, s0, c, a)
           o1 == Ref!Outputs(act.table, s0, c, a)
           r  == Ref!Result(act.table, s0, c, a)
<1>1. act \in ChipCalls /\ ops = CallbackOps(g, act.table) /\ CallbackOps(g, act.table) # <<>>
  BY FormalIs DEF Calls
<1>2. /\ s0 \in ChipState /\ s0.trace = <<>> /\ s0.regs = s.regs /\ StateOf(s0, u) = StateOf(s, u)
      /\ Ref!Result(act.table, s, c, a) = r /\ Ref!Outputs(act.table, s, c, a) = o1
  BY TraceForgotten
<1> HIDE DEF s0
<1>3. Obeys(CallbackOps(g, act.table), Enter(s0.regs, StateOf(s0, u), act.args), s0, u, Active(g, u), act.table, act.args)
  BY <1>1, <1>2, CallbackObeys
<1>4. Enter(s0.regs, StateOf(s0, u), act.args) = mm1
  BY <1>2
<1>5. Ends(ops, mm1, s1, u, o1, r)
  BY <1>1, <1>3, <1>4 DEF Obeys
<1> HIDE DEF ops, mm1, s1, o1, r, c, a
<1>6. PICK t : Does(ops, mm1, t) /\ Over(t, s1, u, o1, r)
  BY <1>5 DEF Ends
<1>7. Execute(ops, mm1, Oracle) = t
  BY <1>6, DoesExecute
<1>8. /\ s1 \in ChipState /\ t.regs = s1.regs /\ t.state = StateOf(s1, u)
      /\ t.trace = s1.trace /\ t.result = r /\ t.outputs = o1
  BY <1>6 DEF Over
<1>9. t.state["gpio_sdata"] = s1.sdata /\ t.state["gpio_sdir"] = s1.sdir
  BY <1>8 DEF StateOf
<1>10. Segment(act, t) = RefSegment(g, u, act, s)
  BY <1>2, <1>8, <1>9 DEF Segment, RefSegment, s1, s0, c, a
<1> QED BY <1>6, <1>7, <1>8, <1>10 DEF ops, mm1, s1, s0, c, a

\* The whole plan of a right RIS, call by call.
PlanFollowed(g, u) ==
  LET plan == PlanOf(g, Formal(g))
      mem  == Memories(Formal(g), u, plan)
      s    == RefStates(g, u, plan)
  IN  /\ plan \in Seq(Calls(Formal(g)))
      /\ \A k \in 0 .. Len(plan) : s[k] \in ChipState /\ mem[k].regs = s[k].regs /\ mem[k].state = StateOf(s[k], u)
      /\ mem[0].regs = Seed
      /\ mem[0].state = Probed(Formal(g), u).state
      /\ \A k \in 1 .. Len(plan) :
           /\ Does(Formal(g)[plan[k].table], Enter(mem[k - 1].regs, mem[k - 1].state, plan[k].args), mem[k])
           /\ Executed(Formal(g), u, plan)[k] = Segment(plan[k], mem[k])
           /\ Segment(plan[k], mem[k]) = RefSegment(g, u, plan[k], s[k - 1])

LEMMA PlanFollows ==
  ASSUME Ref!SeedOK, Ref!ChipsOK, SelectorsReadable, NEW g \in Configs, Supported(g), NEW u \in Units(g)
  PROVE  PlanFollowed(g, u)
<1> DEFINE formal == Formal(g)
           plan == PlanOf(g, formal)
           n    == Len(plan)
           mem  == Memories(formal, u, plan)
           s    == RefStates(g, u, plan)
<1>1. plan \in Seq(Calls(formal)) /\ n \in Nat /\ DOMAIN plan = 1 .. n
  BY PlanCalls
<1>2. /\ mem[0] = Enter(Seed, Probed(formal, u).state, <<>>)
      /\ \A k \in 1 .. n :
           mem[k] = Execute(formal[plan[k].table], Enter(mem[k - 1].regs, mem[k - 1].state, plan[k].args), Oracle)
  BY <1>1, MemoriesFollow
<1>3. /\ s[0] = RefStart(g, u)
      /\ \A k \in 1 .. n :
           s[k] = Ref!After(plan[k].table, [s[k - 1] EXCEPT !.trace = <<>>], Active(g, u), plan[k].args)
  BY <1>1, RefStatesFollow
<1>4. \A k \in 1 .. n : Executed(formal, u, plan)[k] = Segment(plan[k], mem[k])
  BY <1>1 DEF Executed
<1> HIDE DEF mem, s, n, plan, formal
<1> DEFINE T == {k \in 0 .. n : s[k] \in ChipState /\ mem[k].regs = s[k].regs /\ mem[k].state = StateOf(s[k], u)}
<1>5. 0 \in T /\ mem[0].regs = Seed /\ mem[0].state = Probed(formal, u).state
  <2>1. RefStart(g, u) \in ChipState /\ Probed(formal, u).state = StateOf(RefStart(g, u), u)
    BY ProbedIs DEF formal
  <2>2. mem[0].regs = Seed /\ mem[0].state = Probed(formal, u).state
    BY <1>2 DEF Enter
  <2>3. RefStart(g, u).regs = Seed
    BY DEF RefStart
  <2> QED BY <1>1, <1>3, <2>1, <2>2, <2>3
<1>6. ASSUME NEW k \in 1 .. n, k - 1 \in T
      PROVE  /\ k \in T
             /\ Does(formal[plan[k].table], Enter(mem[k - 1].regs, mem[k - 1].state, plan[k].args), mem[k])
             /\ Segment(plan[k], mem[k]) = RefSegment(g, u, plan[k], s[k - 1])
  <2> DEFINE act == plan[k]
             x == mem[k - 1]
             y == s[k - 1]
             ops == formal[act.table]
             x1 == Enter(x.regs, x.state, act.args)
             t  == Execute(ops, x1, Oracle)
             y1 == Ref!After(act.table, [y EXCEPT !.trace = <<>>], Active(g, u), act.args)
  <2>1. act \in Calls(formal) /\ k \in 0 .. n
    BY <1>1 DEF n
  <2>2. y \in ChipState /\ x.regs = y.regs /\ x.state = StateOf(y, u)
    BY <1>6
  <2>3. mem[k] = t /\ s[k] = y1
    BY <1>2, <1>3
  <2> HIDE DEF act, x, y
  <2>4. /\ Does(ops, x1, t)
        /\ y1 \in ChipState /\ t.regs = y1.regs /\ t.state = StateOf(y1, u)
        /\ Segment(act, t) = RefSegment(g, u, act, y)
    BY <2>1, <2>2, CallFollows DEF formal
  <2> HIDE DEF t, y1, ops, x1
  <2>5. k \in T
    BY <2>1, <2>3, <2>4
  <2> QED BY <2>3, <2>4, <2>5 DEF ops, x1, act, x, y
<1>7. \A k \in 0 .. n : k \in T
  <2> HIDE DEF T
  <2> QED BY <1>1, <1>5, <1>6, Counting
<1>8. \A k \in 1 .. n : k - 1 \in 0 .. n
  BY <1>1
<1>9. \A k \in 1 .. n :
        /\ Does(formal[plan[k].table], Enter(mem[k - 1].regs, mem[k - 1].state, plan[k].args), mem[k])
        /\ Segment(plan[k], mem[k]) = RefSegment(g, u, plan[k], s[k - 1])
  <2> HIDE DEF T
  <2> QED BY <1>6, <1>7, <1>8
<1>10. \A k \in 0 .. n : s[k] \in ChipState /\ mem[k].regs = s[k].regs /\ mem[k].state = StateOf(s[k], u)
  BY <1>7
<1> HIDE DEF T
<1> QED BY <1>1, <1>4, <1>5, <1>9, <1>10 DEF PlanFollowed, mem, s, n, plan, formal

\* The source oracle passes a right RIS.
LEMMA RightIsReference ==
  ASSUME Ref!SeedOK, Ref!ChipsOK, SelectorsReadable, NEW g \in Configs, Supported(g), NEW u \in Units(g)
  PROVE  LET plan == PlanOf(g, Formal(g))
         IN  /\ Probed(Formal(g), u).state["gpio_sdata"] = RefStart(g, u).sdata
             /\ Probed(Formal(g), u).state["gpio_sdir"] = RefStart(g, u).sdir
             /\ Executed(Formal(g), u, plan) = Reference(g, u, plan)
<1> DEFINE plan == PlanOf(g, Formal(g))
           n    == Len(plan)
           mem  == Memories(Formal(g), u, plan)
           s    == RefStates(g, u, plan)
<1>1. Probed(Formal(g), u).state = StateOf(RefStart(g, u), u)
  BY ProbedIs
<1>2. plan \in Seq(Calls(Formal(g)))
  BY PlanCalls
<1>3. \A k \in 1 .. n : /\ Executed(Formal(g), u, plan)[k] = Segment(plan[k], mem[k])
                        /\ Segment(plan[k], mem[k]) = RefSegment(g, u, plan[k], s[k - 1])
  BY PlanFollows DEF PlanFollowed
<1>4. DOMAIN plan = 1 .. n
  BY <1>2
<1>5. /\ Executed(Formal(g), u, plan) = [k \in 1 .. n |-> Segment(plan[k], mem[k])]
      /\ Reference(g, u, plan) = [k \in 1 .. n |-> RefSegment(g, u, plan[k], s[k - 1])]
  BY <1>4 DEF Executed, Reference
<1> HIDE DEF plan, n, mem, s
<1>6. Executed(Formal(g), u, plan) = Reference(g, u, plan)
  BY <1>3, <1>5
<1>7. Probed(Formal(g), u).state["gpio_sdata"] = RefStart(g, u).sdata
      /\ Probed(Formal(g), u).state["gpio_sdir"] = RefStart(g, u).sdir
  BY <1>1 DEF StateOf
<1> QED BY <1>6, <1>7 DEF plan
-----------------------------------------------------------------------------
(* The harness, running a right program.                                   *)

\* A callback that has been entered holds no wider word than the chip did.
LEMMA NarrowEntered ==
  ASSUME NEW regs \in [Address -> SUBSET Width], NEW state, NEW a,
         state = [f \in StateNames |-> state[f]],
         state["gpio_sdata"] \in SUBSET Width, state["gpio_sdir"] \in SUBSET Width,
         state["gpio_config_variant"] = 0, state["gpio_bank_index"] = 0
  PROVE  Narrow(Enter(regs, state, a), a)
<1> DEFINE mm == Enter(regs, state, a)
           e  == Env(a)
<1>1. /\ mm \in [regs : {regs}, state : {state}, env : {e}, outputs : {mm.outputs},
                 trace : {mm.trace}, result : {mm.result}, returned : {mm.returned}]
      /\ mm.regs = regs /\ mm.state = state /\ mm.env = e
  BY DEF Enter
<1>2. /\ e = [x \in EnvNames |-> e[x]] /\ e["word"] = {} /\ e["gpio_sdata"] = {} /\ e["gpio_sdir"] = {}
      /\ e["gpio_config_variant"] = 0 /\ e["gpio_bank_index"] = 0
  <2>1. e = [x \in EnvNames |-> e[x]]
    BY DEF Env, EnvNames
  <2>2. /\ e["word"] = {} /\ e["gpio_sdata"] = {} /\ e["gpio_sdir"] = {}
        /\ e["gpio_config_variant"] = 0 /\ e["gpio_bank_index"] = 0
    BY DEF Env, Arguments
  <2> QED BY <2>1, <2>2
<1> HIDE DEF mm, e
<1>3. \A x \in Arguments : mm.env[x] = Env(a)[x]
  BY <1>1 DEF e
<1> QED BY <1>1, <1>2, <1>3 DEF Narrow, mm

\* A call of the plan passes arguments its callback is written for.
LEMMA CallsFit ==
  ASSUME NEW formal, NEW act \in Calls(formal)
  PROVE  Fitting(act.table, act.args) /\ act.table \in TableSet /\ act # Idle
<1>1. act \in ChipCalls /\ act.table \in TableSet
  BY DEF Calls
<1>2. act # Idle
  BY <1>1, TablesListed DEF Idle
<1>3. CASE act \in Ref!ManyCalls
  <2>1. act.table \in {"get_multiple", "set_multiple"} /\ Many(act.args)
    BY <1>3 DEF Ref!ManyCalls, Many
  <2> QED BY <1>1, <1>2, <2>1 DEF Fitting
<1>4. CASE act \in Ref!SingleCalls
  <2>1. act.table \notin {"get_multiple", "set_multiple"} /\ Single(act.args)
    BY <1>4 DEF Ref!SingleCalls, Single
  <2> QED BY <1>1, <1>2, <2>1 DEF Fitting
<1> QED BY <1>1, <1>2, <1>3, <1>4 DEF ChipCalls

\* A supported chip has a plan: set is always written.
LEMMA SomethingPlanned ==
  ASSUME NEW g, Supported(g), "dat" \in DOMAIN g.at
  PROVE  PlanOf(g, Formal(g)) # <<>>
<1> DEFINE t == "set"
<1>1. t \in TableSet
  BY TablesListed
<1>2. CallbackOps(g, t) # <<>>
  <2> SUFFICES ASSUME CallbackOps(g, t) = <<>> PROVE FALSE
    OBVIOUS
  <2>1. Body(g, t) = SetBody(g) \o Ret("0")
    BY DEF Body
  <2>2. Plain(g, t, SetBody(g)) /\ Plain(g, t, Ret("0")) /\ Plain(g, t, Bank(g))
    <3>1. t \in TableSet \ {"get", "get_multiple", "set_multiple"}
      BY <1>1
    <3> HIDE DEF t
    <3> QED BY <3>1, PlainSet, PlainRet, PlainStart
  <2>3. Len(Ret("0")) = 1
    BY DEF Ret
  <2>4. Body(g, t) \in Seq(PlainOps(g, t)) /\ Len(Body(g, t)) >= 1
    <3> DEFINE S == PlainOps(g, t)
               x == SetBody(g)
               y == Ret("0")
    <3>1. x \in Seq(S) /\ y \in Seq(S) /\ Len(y) = 1
      BY <2>2, <2>3 DEF Plain
    <3>2. Body(g, t) = x \o y
      BY <2>1
    <3> HIDE DEF S, x, y, t
    <3>3. x \o y \in Seq(S) /\ Len(x \o y) = Len(x) + 1 /\ Len(x) \in Nat
      <4>1. Len(x \o y) = Len(x) + Len(y) /\ x \o y \in Seq(S)
        BY <3>1, ConcatProperties
      <4> QED BY <3>1, <4>1, LenProperties
    <3>4. Body(g, t) \in Seq(S) /\ Len(Body(g, t)) >= 1
      BY <3>2, <3>3
    <3> QED BY <3>4 DEF S
  <2>5. CallbackOps(g, t) = Bank(g) \o Body(g, t)
    BY <2>4 DEF CallbackOps
  <2>6. Len(CallbackOps(g, t)) >= 1
    <3> DEFINE x == Bank(g)
               y == Body(g, t)
               S == PlainOps(g, t)
    <3>1. x \in Seq(S) /\ y \in Seq(S) /\ Len(y) >= 1
      BY <2>2, <2>4 DEF Plain
    <3> HIDE DEF x, y, S
    <3>2. Len(x \o y) = Len(x) + Len(y) /\ Len(x) \in Nat /\ Len(y) \in Nat
      BY <3>1
    <3> QED BY <2>5, <3>1, <3>2 DEF x, y
  <2> QED BY <2>6
<1> HIDE DEF t
<1>3. Formal(g)[t] # <<>>
  BY <1>1, <1>2, FormalIs
<1>4. \E j \in 1 .. Len(PlanOf(g, Formal(g))) : TRUE
  BY <1>1, <1>3, PlanCalls
<1> QED BY <1>4

RightRun == run.formal = Formal(gen) /\ run.c = run.formal /\ Supported(gen) /\ Wide(gen)

\* The plan of a right program, the memory each call leaves to the oracle, and
\* what is printed of the first calls.
RightPlan == PlanOf(gen, Formal(gen))
RightMemories == Memories(Formal(gen), FirstUnit, RightPlan)
PrintedOf(n) == [k \in 1 .. n |-> Segment(RightPlan[k], RightMemories[k])]

\* The setup leads to the state the oracle starts its calls from.
Probing ==
  /\ run.phase = "probe" /\ call = Setup /\ run.at = 0 /\ run.segments = <<>>
  /\ Plain(gen, "init", todo) /\ Narrow(m, <<>>) /\ Does(todo, m, Probed(Formal(gen), FirstUnit))

\* Between two calls the memory is that of the oracle.
Between ==
  /\ run.phase = "callbacks" /\ call = Idle /\ todo = <<>> /\ run.begin = <<Len(RightPlan)>>
  /\ run.at \in 0 .. Len(RightPlan) /\ run.segments = PrintedOf(run.at)
  /\ m.regs = RightMemories[run.at].regs /\ m.state = RightMemories[run.at].state

\* What is left of a call leads to the memory the oracle leaves.
Within ==
  /\ run.phase = "callbacks" /\ run.begin = <<Len(RightPlan)>>
  /\ run.at \in 1 .. Len(RightPlan) /\ run.segments = PrintedOf(run.at - 1)
  /\ call = RightPlan[run.at]
  /\ Plain(gen, call.table, todo) /\ Narrow(m, call.args) /\ Does(todo, m, RightMemories[run.at])

Ended ==
  /\ run.phase = "exited" /\ run.end /\ run.begin = <<Len(RightPlan)>>
  /\ run.segments = PrintedOf(Len(RightPlan))

RightInv ==
  RightRun =>
    \/ Probing
    \/ Between
    \/ Within
    \/ Ended
    \/ run.phase = "died"
    \/ run.phase = "judged" /\ (~run.died => run.callbacks /\ run.source)

\* What a run is of does not change.
LEMMA SameProgram ==
  ASSUME Running, HNext
  PROVE  run'.formal = run.formal /\ run'.c = run.c /\ gen' = gen
<1>1. gen' = gen
  BY HarnessOnly
<1>2. run # NoRun
  BY NotNoRun
<1>3. CASE Statement
  BY <1>1, <1>3 DEF Statement
<1>4. CASE Begin
  BY <1>1, <1>4 DEF Begin, Running, RunFields
<1>5. CASE CallNext
  BY <1>1, <1>5 DEF CallNext, Running, RunFields
<1>6. CASE Report
  BY <1>1, <1>6 DEF Report, Running, RunFields
<1>7. CASE End
  BY <1>1, <1>7 DEF End, Running, RunFields
<1>8. CASE Killed
  <2>1. PICK x : run' = [run EXCEPT !.phase = "died", !.segments = x]
    BY <1>8 DEF Killed
  <2> QED BY <1>1, <2>1 DEF Running, RunFields
<1>9. CASE Judge
  <2>1. PICK x, y, z : run' = [run EXCEPT !.phase = "judged", !.died = x, !.callbacks = y, !.source = z]
    BY <1>9, Zenon DEF Judge
  <2> QED BY <1>1, <2>1 DEF Running, RunFields
<1>10. CASE run.phase = "judged" /\ UNCHANGED hvars
  BY <1>1, <1>10 DEF hvars
<1> QED BY <1>2, <1>3, <1>4, <1>5, <1>6, <1>7, <1>8, <1>9, <1>10 DEF HNext

\* Nor do its plan and its memories.
LEMMA SamePlan ==
  ASSUME gen' = gen
  PROVE  RightPlan' = RightPlan /\ RightMemories' = RightMemories /\ \A n : PrintedOf(n)' = PrintedOf(n)
BY DEF RightPlan, RightMemories, PrintedOf

\* Every configuration has a data register.
LEMMA DatOf ==
  ASSUME Ref!ChipsOK, NEW g \in Configs
  PROVE  "dat" \in DOMAIN g.at
BY DatThere, FirstUnitThere DEF Present

\* The plan of a right program: what PlanFollows says of it for the first unit.
LEMMA RightPlanFollows ==
  ASSUME Ref!SeedOK, Ref!ChipsOK, SelectorsReadable, gen \in Configs, Supported(gen)
  PROVE  /\ RightPlan \in Seq(Calls(Formal(gen))) /\ RightPlan # <<>>
         /\ \A k \in 0 .. Len(RightPlan) :
              \E s \in ChipState : RightMemories[k].regs = s.regs /\ RightMemories[k].state = StateOf(s, FirstUnit)
         /\ RightMemories[0].regs = Seed
         /\ RightMemories[0].state = Probed(Formal(gen), FirstUnit).state
         /\ \A k \in 1 .. Len(RightPlan) :
              /\ Does(Formal(gen)[RightPlan[k].table],
                      Enter(RightMemories[k - 1].regs, RightMemories[k - 1].state, RightPlan[k].args),
                      RightMemories[k])
              /\ Executed(Formal(gen), FirstUnit, RightPlan)[k] = Segment(RightPlan[k], RightMemories[k])
<1>1. FirstUnit \in Units(gen)
  BY FirstUnitThere
<1>2. RightPlan # <<>>
  BY SomethingPlanned, DatOf DEF RightPlan
<1>3. PlanFollowed(gen, FirstUnit)
  BY <1>1, PlanFollows
<1> QED BY <1>2, <1>3 DEF PlanFollowed, RightPlan, RightMemories

\* One more call is one more segment.
LEMMA PrintedOne ==
  ASSUME NEW n \in Nat
  PROVE  /\ PrintedOf(0) = <<>> /\ Len(PrintedOf(n)) = n
         /\ Append(PrintedOf(n), Segment(RightPlan[n + 1], RightMemories[n + 1])) = PrintedOf(n + 1)
<1> DEFINE f(k) == Segment(RightPlan[k], RightMemories[k])
           a == PrintedOf(n)
           b == PrintedOf(n + 1)
           c == Append(a, f(n + 1))
           S == {f(k) : k \in 1 .. n + 1}
<1>1. a = [k \in 1 .. n |-> f(k)] /\ b = [k \in 1 .. n + 1 |-> f(k)] /\ PrintedOf(0) = [k \in 1 .. 0 |-> f(k)]
  BY DEF PrintedOf
<1>2. \A k \in 1 .. n + 1 : f(k) \in S
  OBVIOUS
<1> HIDE DEF f, S, a, b
<1>3. a \in Seq(S) /\ Len(a) = n /\ b \in Seq(S) /\ Len(b) = n + 1 /\ f(n + 1) \in S
  BY <1>1, <1>2
<1>4. c \in Seq(S) /\ Len(c) = n + 1 /\ \A k \in 1 .. n + 1 : c[k] = IF k = n + 1 THEN f(n + 1) ELSE a[k]
  BY <1>3
<1>5. \A k \in 1 .. n + 1 : c[k] = b[k]
  BY <1>1, <1>4
<1> HIDE DEF c
<1>6. c = b
  BY <1>3, <1>4, <1>5
<1>7. PrintedOf(0) = <<>>
  BY <1>1
<1> QED BY <1>3, <1>6, <1>7 DEF a, b, c, f

\* What is left after an operation that C carries out.
LEMMA NarrowTail ==
  ASSUME NEW g \in Configs, NEW T, NEW a, NEW ops, Plain(g, T, ops), ops # <<>>,
         NEW mm, Narrow(mm, a), Fitting(T, a), NEW t, Does(ops, mm, t)
  PROVE  LET m1 == Step(Head(ops), mm, InC)
         IN  Plain(g, T, Tail(ops)) /\ Narrow(m1, a) /\ Does(Tail(ops), m1, t)
<1>1. Head(ops) \in PlainOps(g, T) /\ Tail(ops) \in Seq(PlainOps(g, T))
  <2> DEFINE S == PlainOps(g, T)
  <2>1. ops \in Seq(S)
    BY DEF Plain
  <2> HIDE DEF S
  <2>2. Head(ops) \in S /\ Tail(ops) \in Seq(S)
    BY <2>1
  <2> QED BY <2>2 DEF S
<1> DEFINE op == Head(ops)
<1>2. Step(op, mm, InC) = Step(op, mm, Oracle) /\ Narrow(Step(op, mm, Oracle), a)
  <2> HIDE DEF op
  <2>1. op \in PlainOps(g, T)
    BY <1>1 DEF op
  <2> QED BY <2>1, NarrowStep
<1>3. Does(Tail(ops), Step(op, mm, Oracle), t)
  BY DoesTail
<1> QED BY <1>1, <1>2, <1>3 DEF Plain

\* Each step of the harness keeps RightInv.
LEMMA StatementRight ==
  ASSUME Running, RightRun, RightInv, Statement
  PROVE  RightInv'
<1>1. /\ todo # <<>> /\ m' = Step(Head(todo), m, InC) /\ todo' = Tail(todo)
      /\ run.phase \in {"probe", "callbacks"} /\ UNCHANGED <<gen, unit, call, seen, run>>
  BY DEF Statement
<1>2. /\ RightPlan' = RightPlan /\ RightMemories' = RightMemories /\ \A n : PrintedOf(n)' = PrintedOf(n)
  BY <1>1, SamePlan
<1>3. gen \in Configs
  BY DEF Running
<1>4. CASE Probing
  <2>1. Fitting("init", <<>>)
    BY DEF Fitting
  <2>2. Plain(gen, "init", todo') /\ Narrow(m', <<>>) /\ Does(todo', m', Probed(Formal(gen), FirstUnit))
    BY <1>1, <1>3, <1>4, <2>1, NarrowTail DEF Probing
  <2>3. Probing'
    BY <1>1, <1>4, <2>2 DEF Probing
  <2> QED BY <2>3 DEF RightInv
<1>5. CASE Within
  <2>1. RightPlan[run.at] \in Calls(Formal(gen))
    BY <1>5, PlanCalls DEF Within, RightPlan
  <2>2. Fitting(call.table, call.args)
    BY <1>5, <2>1, CallsFit DEF Within
  <2>3. Plain(gen, call.table, todo') /\ Narrow(m', call.args) /\ Does(todo', m', RightMemories[run.at])
    BY <1>1, <1>3, <1>5, <2>2, NarrowTail DEF Within
  <2>4. Within'
    BY <1>1, <1>2, <1>5, <2>3 DEF Within
  <2> QED BY <2>4 DEF RightInv
<1> QED BY <1>1, <1>4, <1>5 DEF RightInv, Between, Ended

LEMMA BeginRight ==
  ASSUME Ref!SeedOK, Ref!ChipsOK, SelectorsReadable, Running, RightRun, RightInv, Begin
  PROVE  RightInv'
<1>1. /\ todo = <<>> /\ run.phase = "probe" /\ m' = Enter(Seed, m.state, <<>>) /\ call' = Idle
      /\ run' = IF Plan = <<>> THEN [run EXCEPT !.phase = "exited"]
                ELSE [run EXCEPT !.phase = "callbacks", !.begin = <<Len(Plan)>>]
      /\ UNCHANGED <<gen, unit, todo, seen>>
  BY DEF Begin
<1>2. /\ RightPlan' = RightPlan /\ RightMemories' = RightMemories /\ \A n : PrintedOf(n)' = PrintedOf(n)
  BY <1>1, SamePlan
<1>3. Probing
  BY <1>1 DEF RightInv, Between, Within, Ended
<1>4. Plan = RightPlan
  BY DEF RightRun, Plan, RightPlan
<1>5. /\ RightPlan \in Seq(Calls(Formal(gen))) /\ RightPlan # <<>>
      /\ RightMemories[0].regs = Seed /\ RightMemories[0].state = Probed(Formal(gen), FirstUnit).state
  BY RightPlanFollows DEF Running, RightRun
<1>6. m = Probed(Formal(gen), FirstUnit)
  BY <1>1, <1>3, DoesEnd DEF Probing
<1>7. m'.regs = RightMemories[0].regs /\ m'.state = RightMemories[0].state
  BY <1>1, <1>5, <1>6 DEF Enter
<1>8. /\ run'.phase = "callbacks" /\ run'.begin = <<Len(RightPlan)>>
      /\ run'.at = 0 /\ run'.segments = <<>>
  BY <1>1, <1>3, <1>4, <1>5 DEF Running, RunFields, Probing
<1>9. Len(RightPlan) \in Nat
  BY <1>5
<1>10. PrintedOf(0) = <<>>
  BY PrintedOne
<1>11. Between'
  BY <1>1, <1>2, <1>7, <1>8, <1>9, <1>10 DEF Between
<1> QED BY <1>11 DEF RightInv

LEMMA CallNextRight ==
  ASSUME Ref!SeedOK, Ref!ChipsOK, SelectorsReadable, Running, RightRun, RightInv, CallNext
  PROVE  RightInv'
<1> DEFINE n == run.at + 1
           c == RightPlan[n]
<1>1. Plan = RightPlan
  BY DEF RightRun, Plan, RightPlan
<1>2. /\ run.phase = "callbacks" /\ call = Idle /\ run.at < Len(RightPlan)
      /\ call' = c /\ m' = Enter(m.regs, m.state, c.args) /\ todo' = run.c[c.table]
      /\ run' = [run EXCEPT !.at = run.at + 1]
      /\ UNCHANGED <<gen, unit, seen>>
  BY <1>1 DEF CallNext
<1>3. /\ RightPlan' = RightPlan /\ RightMemories' = RightMemories /\ \A k : PrintedOf(k)' = PrintedOf(k)
  BY <1>2, SamePlan
<1>4. /\ RightPlan \in Seq(Calls(Formal(gen)))
      /\ \A k \in 0 .. Len(RightPlan) :
           \E s \in ChipState : RightMemories[k].regs = s.regs /\ RightMemories[k].state = StateOf(s, FirstUnit)
      /\ \A k \in 1 .. Len(RightPlan) :
           Does(Formal(gen)[RightPlan[k].table],
                Enter(RightMemories[k - 1].regs, RightMemories[k - 1].state, RightPlan[k].args), RightMemories[k])
  BY RightPlanFollows DEF Running, RightRun
<1>5. Between
  <2>1. ASSUME Within PROVE FALSE
    <3>1. call \in Calls(Formal(gen))
      BY <1>4, <2>1 DEF Within
    <3> QED BY <1>2, <3>1, CallsFit
  <2> QED BY <1>2, <2>1 DEF RightInv, Probing, Ended
<1>6. /\ run.at \in 0 .. Len(RightPlan) /\ Len(RightPlan) \in Nat
      /\ n \in 1 .. Len(RightPlan) /\ n - 1 = run.at
  BY <1>2, <1>4, <1>5 DEF Between
<1>7. m.regs = RightMemories[run.at].regs /\ m.state = RightMemories[run.at].state
      /\ run.segments = PrintedOf(run.at) /\ run.begin = <<Len(RightPlan)>>
  BY <1>5 DEF Between
<1>8. c \in Calls(Formal(gen)) /\ c.table \in TableSet
  <2>1. c \in Calls(Formal(gen))
    BY <1>4, <1>6
  <2> QED BY <2>1 DEF Calls
<1>9. todo' = Formal(gen)[c.table] /\ todo' = CallbackOps(gen, c.table)
  BY <1>2, <1>8, FormalIs DEF RightRun
<1>10. Plain(gen, c.table, todo')
  BY <1>8, <1>9, PlainCallback, DatOf DEF Running
<1>11. Does(todo', m', RightMemories[n])
  BY <1>2, <1>4, <1>6, <1>7, <1>9
<1>12. Narrow(m', c.args)
  <2>1. PICK s \in ChipState : m.regs = s.regs /\ m.state = StateOf(s, FirstUnit)
    BY <1>4, <1>6, <1>7
  <2>2. m.regs \in [Address -> SUBSET Width] /\ s.sdata \in SUBSET Width /\ s.sdir \in SUBSET Width
    BY <2>1 DEF ChipState
  <2>3. m.state["gpio_sdata"] = s.sdata /\ m.state["gpio_sdir"] = s.sdir
        /\ m.state["gpio_config_variant"] = 0 /\ m.state["gpio_bank_index"] = 0
        /\ m.state = [f \in StateNames |-> m.state[f]]
    BY <2>1 DEF StateOf, FirstUnit, StateNames
  <2>4. Narrow(Enter(m.regs, m.state, c.args), c.args)
    BY <2>2, <2>3, NarrowEntered
  <2> QED BY <1>2, <2>4
<1>13. /\ run'.phase = "callbacks" /\ run'.begin = <<Len(RightPlan)>>
       /\ run'.at = n /\ run'.segments = PrintedOf(run.at)
  BY <1>2, <1>7 DEF Running, RunFields
<1> HIDE DEF n, c
<1>14. Within'
  BY <1>2, <1>3, <1>6, <1>10, <1>11, <1>12, <1>13 DEF Within, c
<1> QED BY <1>14 DEF RightInv

LEMMA ReportRight ==
  ASSUME Ref!SeedOK, Ref!ChipsOK, SelectorsReadable, Running, RightRun, RightInv, Report
  PROVE  RightInv'
<1>1. /\ run.phase = "callbacks" /\ call # Idle /\ m.returned
      /\ run' = [run EXCEPT !.segments = Append(run.segments, Segment(call, m))]
      /\ call' = Idle /\ todo' = <<>> /\ m' = m /\ gen' = gen
  BY DEF Report
<1>2. /\ RightPlan' = RightPlan /\ RightMemories' = RightMemories /\ \A k : PrintedOf(k)' = PrintedOf(k)
  BY <1>1, SamePlan
<1>3. Within
  BY <1>1 DEF RightInv, Probing, Between, Ended
<1>4. m = RightMemories[run.at]
  BY <1>1, <1>3, DoesEnd DEF Within
<1>5. RightPlan \in Seq(Calls(Formal(gen)))
  BY PlanCalls DEF RightPlan
<1>6. run.at \in 0 .. Len(RightPlan) /\ run.at - 1 \in Nat /\ (run.at - 1) + 1 = run.at
  BY <1>3, <1>5 DEF Within
<1>7. Append(run.segments, Segment(call, m)) = PrintedOf(run.at)
  <2> DEFINE k == run.at - 1
  <2>1. k \in Nat /\ k + 1 = run.at /\ run.segments = PrintedOf(k)
        /\ Segment(call, m) = Segment(RightPlan[run.at], RightMemories[run.at])
    BY <1>3, <1>4, <1>6 DEF Within
  <2> HIDE DEF k
  <2>2. Append(PrintedOf(k), Segment(RightPlan[k + 1], RightMemories[k + 1])) = PrintedOf(k + 1)
    BY <2>1, PrintedOne
  <2> QED BY <2>1, <2>2
<1>8. /\ run'.phase = "callbacks" /\ run'.begin = <<Len(RightPlan)>> /\ run'.at = run.at
      /\ run'.segments = PrintedOf(run.at)
  BY <1>1, <1>3, <1>7 DEF Running, RunFields, Within
<1>9. Between'
  BY <1>1, <1>2, <1>4, <1>6, <1>8 DEF Between
<1> QED BY <1>9 DEF RightInv

LEMMA EndRight ==
  ASSUME Running, RightRun, RightInv, End
  PROVE  RightInv'
<1>1. Plan = RightPlan
  BY DEF RightRun, Plan, RightPlan
<1>2. /\ run.phase = "callbacks" /\ call = Idle /\ run.at = Len(RightPlan)
      /\ run' = [run EXCEPT !.phase = "exited", !.end = TRUE] /\ gen' = gen
  BY <1>1 DEF End
<1>3. /\ RightPlan' = RightPlan /\ RightMemories' = RightMemories /\ \A k : PrintedOf(k)' = PrintedOf(k)
  BY <1>2, SamePlan
<1>4. Between
  <2>1. ASSUME Within PROVE FALSE
    <3>1. call \in Calls(Formal(gen))
      BY <2>1, PlanCalls DEF Within, RightPlan
    <3> QED BY <1>2, <3>1, CallsFit
  <2> QED BY <1>2, <2>1 DEF RightInv, Probing, Ended
<1>5. /\ run'.phase = "exited" /\ run'.end /\ run'.begin = <<Len(RightPlan)>>
      /\ run'.segments = PrintedOf(Len(RightPlan))
  BY <1>2, <1>4 DEF Between, Running, RunFields
<1>6. Ended'
  BY <1>3, <1>5 DEF Ended
<1> QED BY <1>6 DEF RightInv

LEMMA KilledRight ==
  ASSUME Running, Killed
  PROVE  RightInv'
<1>1. PICK x : run' = [run EXCEPT !.phase = "died", !.segments = x]
  BY DEF Killed
<1>2. run'.phase = "died"
  BY <1>1 DEF Running, RunFields
<1> QED BY <1>2 DEF RightInv

\* A right program that ended passes both oracles.
LEMMA EndedPasses ==
  ASSUME Ref!SeedOK, Ref!ChipsOK, SelectorsReadable, Running, RightRun, Ended
  PROVE  CallbacksPassed /\ SourcePassed
<1> DEFINE n == Len(RightPlan)
<1>1. Plan = RightPlan /\ run.formal = Formal(gen) /\ Supported(gen) /\ gen \in Configs
  BY DEF RightRun, Plan, RightPlan, Running
<1>2. /\ RightPlan \in Seq(Calls(Formal(gen))) /\ RightPlan # <<>>
      /\ \A k \in 1 .. n :
           Executed(Formal(gen), FirstUnit, RightPlan)[k] = Segment(RightPlan[k], RightMemories[k])
  BY <1>1, RightPlanFollows
<1>3. n \in Nat /\ DOMAIN RightPlan = 1 .. n
  BY <1>2
<1>4. /\ run.begin = <<n>> /\ run.end /\ run.segments = PrintedOf(n) /\ Len(run.segments) = n
  BY <1>3, PrintedOne DEF Ended
<1>5. \A k \in 1 .. n : run.segments[k] = Executed(Formal(gen), FirstUnit, RightPlan)[k]
  BY <1>2, <1>4 DEF PrintedOf
<1>6. {RightPlan[k].table : k \in 1 .. n} = Expected
  <2>1. \A k \in 1 .. n : RightPlan[k].table \in TableSet /\ Formal(gen)[RightPlan[k].table] # <<>>
    <3>1. \A k \in 1 .. n : RightPlan[k] \in Calls(Formal(gen))
      BY <1>2
    <3> QED BY <3>1 DEF Calls
  <2>2. \A t \in TableSet : Formal(gen)[t] # <<>> => \E k \in 1 .. n : RightPlan[k].table = t
    BY <1>1, PlanCalls DEF RightPlan
  <2> QED BY <1>1, <2>1, <2>2 DEF Expected
<1> HIDE DEF n
<1>7. CallbacksPassed
  BY <1>1, <1>3, <1>4, <1>5, <1>6 DEF CallbacksPassed, n
<1>8. Both(gen) => Selectable(gen)
  BY <1>1 DEF Supported
<1>9. ASSUME NEW u \in Units(gen)
      PROVE  /\ Probed(run.formal, u).state["gpio_sdata"] = RefStart(gen, u).sdata
             /\ Probed(run.formal, u).state["gpio_sdir"] = RefStart(gen, u).sdir
             /\ Executed(run.formal, u, Plan) = Reference(gen, u, Plan)
  BY <1>1, RightIsReference DEF RightPlan
<1>10. SourcePassed
  BY <1>1, <1>2, <1>8, <1>9 DEF SourcePassed
<1> QED BY <1>7, <1>10

LEMMA JudgeRight ==
  ASSUME Ref!SeedOK, Ref!ChipsOK, SelectorsReadable, Running, RightRun, RightInv, Judge
  PROVE  RightInv'
<1> DEFINE x == run.phase = "died"
           y == CallbacksPassed
           z == SourcePassed
<1>1. /\ run.phase \in {"exited", "died"}
      /\ run' = [run EXCEPT !.phase = "judged", !.died = x, !.callbacks = y, !.source = z]
  BY DEF Judge
<1>2. run.phase # "died" => y /\ z
  BY <1>1, EndedPasses DEF RightInv, Probing, Between, Within
<1> HIDE DEF x, y, z
<1>3. run'.phase = "judged" /\ run'.died = x /\ run'.callbacks = y /\ run'.source = z
  BY <1>1 DEF Running, RunFields
<1>4. run'.phase = "judged" /\ (~run'.died => run'.callbacks /\ run'.source)
  BY <1>2, <1>3 DEF x
<1> QED BY <1>4 DEF RightInv

LEMMA RightKept ==
  ASSUME Ref!SeedOK, Ref!ChipsOK, SelectorsReadable, Running, RightInv, HNext
  PROVE  RightInv'
<1>1. run'.formal = run.formal /\ run'.c = run.c /\ gen' = gen
  BY SameProgram
<1>2. CASE ~RightRun
  BY <1>1, <1>2 DEF RightInv, RightRun
<1>3. CASE RightRun
  <2>1. run # NoRun
    BY NotNoRun
  <2>2. CASE run.phase = "judged" /\ UNCHANGED hvars
    BY <1>1, <1>3, <2>2 DEF hvars, RightInv, Probing, Between, Within, Ended
  <2> QED BY <1>3, <2>1, <2>2, StatementRight, BeginRight, CallNextRight, ReportRight, EndRight,
             KilledRight, JudgeRight DEF HNext
<1> QED BY <1>2, <1>3

LEMMA RightStarts ==
  ASSUME Ref!SeedOK, Ref!ChipsOK, SelectorsReadable, HInit, ~(CInit /\ run = NoRun)
  PROVE  RightInv
<1> SUFFICES ASSUME RightRun PROVE Probing
  BY DEF RightInv
<1>1. gen \in Configs /\ Supported(gen) /\ Wide(gen) /\ run.c["init"] = InitOps(gen)
  BY HarnessStarts, FormalIs DEF RightRun, Running
<1>2. /\ call = Setup /\ m = Enter(Seed, Device(0, 0), <<>>) /\ todo = InitOps(gen)
      /\ run.phase = "probe" /\ run.at = 0 /\ run.segments = <<>>
  BY <1>1 DEF HInit
<1>3. Plain(gen, "init", todo)
  BY <1>1, <1>2, PlainInit, DatOf
<1>4. Narrow(m, <<>>)
  <2>1. Seed \in [Address -> SUBSET Width]
    BY DEF Ref!SeedOK
  <2> DEFINE d == Device(0, 0)
  <2>2. /\ d = [f \in StateNames |-> d[f]] /\ d["gpio_sdata"] = {} /\ d["gpio_sdir"] = {}
        /\ d["gpio_config_variant"] = 0 /\ d["gpio_bank_index"] = 0
    BY DEF Device, StateNames
  <2> HIDE DEF d
  <2>3. Narrow(Enter(Seed, d, <<>>), <<>>)
    BY <2>1, <2>2, NarrowEntered
  <2> QED BY <1>2, <2>3 DEF d
<1>5. Does(InitOps(gen), Enter(Seed, Device(FirstUnit.variant, FirstUnit.bank), <<>>), Probed(Formal(gen), FirstUnit))
  BY <1>1, FirstUnitThere, ProbedIs
<1>6. FirstUnit.variant = 0 /\ FirstUnit.bank = 0
  BY DEF FirstUnit
<1>7. Does(todo, m, Probed(Formal(gen), FirstUnit))
  BY <1>2, <1>5, <1>6
<1> QED BY <1>2, <1>3, <1>4, <1>7 DEF Probing

\* A right program that runs to its end passes both oracles: the C that
\* generator/harness.py writes computes in 32-bit words and the oracles of
\* verification/ in those of the access, and for registers of 32 bits, or a chip
\* whose directions are not read off a dirin register, they never differ.
THEOREM RightProgramsPass ==
  ASSUME Ref!SeedOK, Ref!ChipsOK, SelectorsReadable
  PROVE  HSpec => []RightPasses
<1> DEFINE OfARun == run = NoRun \/ (Running /\ RightInv)
<1>1. HInit => OfARun
  BY HarnessStarts, RightStarts
<1>2. OfARun /\ [HNext]_hvars => OfARun'
  <2> SUFFICES ASSUME OfARun, [HNext]_hvars PROVE OfARun'
    OBVIOUS
  <2>1. CASE UNCHANGED hvars
    BY <2>1 DEF hvars, cvars, Running, RunFields, CallbacksPassed, SourcePassed, Expected, Plan,
                RightInv, RightRun, Probing, Between, Within, Ended, PrintedOf, RightPlan, RightMemories
  <2>2. CASE Running /\ RightInv /\ HNext
    BY <2>2, HarnessOnly, RightKept
  <2>3. CASE run = NoRun /\ HNext
    BY <2>3, NoRunSteps
  <2> QED BY <2>1, <2>2, <2>3
<1>3. OfARun => RightPasses
  <2>1. run = NoRun => RightPasses
    BY NotNoRun DEF RightPasses
  <2>2. Running /\ RightInv => RightPasses
    BY DEF RightPasses, RightInv, RightRun, Wide, Probing, Between, Within, Ended
  <2> QED BY <2>1, <2>2
<1> QED BY <1>1, <1>2, <1>3, PTL DEF HSpec
=============================================================================
