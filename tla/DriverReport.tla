---------------------------- MODULE DriverReport ----------------------------
(***************************************************************************)
(* The command "driver" of the extractor (extractor/cli.py): one process   *)
(* that writes the RIS of a driver, generates three backends, compiles and *)
(* runs what it generated, and writes what it found to the directory of    *)
(* the driver.  The process may die between any two steps, or while it     *)
(* writes a file, which is then there and empty.                           *)
(*                                                                         *)
(* What compilers, generated programs and oracles would answer in a run is *)
(* the set of faults "world": a fault <<part, what>> says that this part   *)
(* fails, everything else goes well.                                       *)
(***************************************************************************)
EXTENDS Readiness

VARIABLES
  driver,    \* the driver whose RIS is in hand
  world,     \* the faults of this run
  pc,        \* the step the process is at, "exit" or "dead" when it has ended
  evidence,  \* gen_results: the flags of each backend
  disk       \* the files of the directory: a function from those that exist

driverVars == <<driver, world, pc, evidence, disk>>

Steps == <<"core", "harness", "baremetal", "linux", "persist", "metrics", "score">>

Planned(f) == f.synthesized \/ "w1c" \in Required(f)

\* What can go wrong in a run for driver f.
Faults(f) ==
  LET built   == Backends \cup {p \in {"host"} : Planned(f)}
      printed == {x \in {"callbacks"} : f.synthesized}
                   \cup {x \in {"drain"} : "w1c" \in Required(f)}
  IN  ({"source"} \X Required(f)) \cup (built \X {"build"})
        \cup ((built \cap {"harness", "host"}) \X ({"exit"} \cup printed))
        \cup {<<"harness", "trace">>, <<"context", "drift">>}
        \cup (Backends \X {"todo", "unsupported"})

Builds(w) == {b \in Backends : <<b, "build">> \notin w}

\* What a file holds: Torn when its writer died, a record otherwise, whose
\* fields are those a reader looks at.
Torn == [torn |-> TRUE]

Text == [torn |-> FALSE]

Put(file, content) ==
  disk' = [x \in DOMAIN disk \cup {file} |-> IF x = file THEN content ELSE disk[x]]

\* The compile log of a backend, written only when it does not compile.
Log == [harness |-> "harness.log", baremetal |-> "baremetal.log", linux |-> "linux.log"]

Logged(b) == IF b \in Builds(world) THEN UNCHANGED disk ELSE Put(Log[b], Text)

\* The contract oracles: one that is not required passes.
Contracts(f, w) == {o \in Oracles : o \in Required(f) => <<"source", o>> \notin w}

Marks(b, w) == {m \in {"todo", "unsupported"} : <<b, m>> \in w}

\* What a binary prints is judged with or without its exit status, but one
\* that dies leaves nothing in the pipe.
Judged(part, f, w) ==
  LET printed(what) == {<<part, "exit">>, <<part, what>>} \cap w = {}
  IN  {x \in {"callbacks"} : f.synthesized => printed("callbacks")}
        \cup {x \in {"drain"} :
                "w1c" \in Required(f) => printed("drain") /\ <<"source", "w1c">> \notin w}

\* The trace of the probe counts only when the harness exited with 0.
Traced(w) == {x \in {"trace"} : {<<"harness", "exit">>, <<"harness", "trace">>} \cap w = {}}

\* The host program of the bare-metal backend is built and run only when
\* there is something planned for it; otherwise an empty output is judged.
HostJudged(f, w) ==
  IF <<"baremetal", "build">> \in w \/ ~Planned(f) THEN {x \in {"callbacks"} : ~f.synthesized}
  ELSE IF <<"host", "build">> \in w THEN {}
  ELSE Judged("host", f, w)

-----------------------------------------------------------------------------
Doing(step) == pc = Steps[step]

Advance(step) == pc' = IF step = Len(Steps) THEN "exit" ELSE Steps[step + 1]

Keep(b, flags) ==
  evidence' = [evidence EXCEPT
    ![b] = flags \cup Contracts(driver, world) \cup Marks(b, world)
             \cup {x \in {"compiled"} : b \in Builds(world)}]

Scores(f, g) == [torn |-> FALSE, ready |-> Ready(f, g), blockers |-> Blockers(f, g)]

\* Statistics, the compile context, and the evidence of some backends.
Analysis(backends) ==
  [torn |-> FALSE, ris |-> driver, drift |-> <<"context", "drift">> \in world,
   generation |-> [b \in backends |-> evidence[b]]]

\* The statistics are written before anything is generated.
WriteCore ==
  /\ Doing(1) /\ Advance(1)
  /\ Put("analysis", Analysis({}))
  /\ UNCHANGED <<driver, world, evidence>>

Harness ==
  /\ Doing(2) /\ Advance(2)
  /\ IF "harness" \in Builds(world)
     THEN /\ Put("trace", Text)
          /\ Keep("harness", Judged("harness", driver, world) \cup Traced(world))
     ELSE Put(Log["harness"], Text) /\ Keep("harness", {})
  /\ UNCHANGED <<driver, world>>

Baremetal ==
  /\ Doing(3) /\ Advance(3)
  /\ Keep("baremetal", HostJudged(driver, world))
  /\ Logged("baremetal")
  /\ UNCHANGED <<driver, world>>

Linux ==
  /\ Doing(4) /\ Advance(4)
  /\ Keep("linux", {})
  /\ Logged("linux")
  /\ UNCHANGED <<driver, world>>

\* The statistics again, now with the evidence.
Persist ==
  /\ Doing(5) /\ Advance(5)
  /\ Put("analysis", Analysis(Backends))
  /\ UNCHANGED <<driver, world, evidence>>

Measure ==
  /\ Doing(6) /\ Advance(6)
  /\ Put("metrics", Text)
  /\ UNCHANGED <<driver, world, evidence>>

WriteScore ==
  /\ Doing(7) /\ Advance(7)
  /\ Put("score", Scores(driver, evidence))
  /\ UNCHANGED <<driver, world, evidence>>

Writing ==
  CASE pc \in {"core", "persist"} -> {"analysis"}
    [] pc = "metrics"             -> {"metrics"}
    [] pc = "score"               -> {"score"}
    [] OTHER                      -> {}

\* The process ends with an exception or is killed.
Die ==
  /\ \E i \in DOMAIN Steps : pc = Steps[i]
  /\ pc' = "dead"
  /\ UNCHANGED disk \/ \E file \in Writing : Put(file, Torn)
  /\ UNCHANGED <<driver, world, evidence>>

DriverStep ==
  \/ WriteCore \/ Harness \/ Baremetal \/ Linux \/ Persist \/ Measure \/ WriteScore
  \/ Die

Written(file) == file \in DOMAIN disk /\ ~disk[file].torn

-----------------------------------------------------------------------------
\* What a backend that is ready may still be blamed for: the front end's
\* diagnostics, what only the Linux gate asks, and what another backend lacks.
Excused ==
  {"clang_diagnostics", "missing_role", "callback_binding", "linux_semantic_binding",
   "w1c_oracle", "subsystem_validation"}

(***************************************************************************)
(* A backend that score.txt calls ready was compiled, its program ran to   *)
(* its end and agreed with every oracle that its summaries call for; and   *)
(* no blocker in the same file says otherwise: the gates and the blockers  *)
(* are computed apart (metrics.py:269-369 and 371-487) and have disagreed  *)
(* before (docs/zero-shot-matrix-c10.md, section 4.2).  Of the Linux       *)
(* backend nothing is said about loops, which its gate leaves out.         *)
(***************************************************************************)
ReadyMeansChecked ==
  Written("score") =>
    \A b \in disk["score"].ready :
      /\ b \in Builds(world)
      /\ disk["score"].blockers
           \subseteq Excused \cup {c \in {"conservative_loop"} : b = "linux"}
      /\ b = "harness" => "trace" \in Traced(world)
      /\ b = "harness" => Judged("harness", driver, world) = {"callbacks", "drain"}
      /\ b = "baremetal" /\ Planned(driver) =>
           Judged("host", driver, world) = {"callbacks", "drain"}
=============================================================================
