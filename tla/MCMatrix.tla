------------------------------ MODULE MCMatrix ------------------------------
(***************************************************************************)
(* Two cases.  The source of the second can be a sound driver, one with    *)
(* any single flaw, or one that needs any single oracle; the first is      *)
(* sound or flawed in three ways.  A run meets at most one fault, or one   *)
(* of the pairs below.                                                     *)
(***************************************************************************)
EXTENDS Matrix, TLC

Op(addr) == [addr |-> addr, top |-> FALSE, supported |-> TRUE, summary |-> "none"]

Function(role) == [role |-> role, entry |-> FALSE, bound |-> FALSE]

Sound ==
  [ops |-> <<Op("symbolic"), Op("fixed"), Op("computed")>>, loops |-> {"exact"},
   access |-> {}, paths |-> {}, control |-> FALSE, unmodeled |-> FALSE,
   synthesized |-> FALSE, summaries |-> {}, diagnostics |-> 0,
   functions |-> <<Function("probe"), Function("remove"), Function("helper")>>]

WithOp(op) == [Sound EXCEPT !.ops = Append(@, op)]

Flawed ==
  {[Sound EXCEPT !.access = {a}] :
     a \in {"unaccounted", "ris_ops_without_evidence", "filtered", "unsupported"}}
  \cup {[Sound EXCEPT !.paths = {p}] : p \in {"unknown", "infeasible", "overlapping"}}
  \cup {WithOp(Op("unsafe")), WithOp([Op("fixed") EXCEPT !.top = TRUE]),
        WithOp([Op("fixed") EXCEPT !.supported = FALSE]),
        [Sound EXCEPT !.loops = {"exact", "conservative"}],
        [Sound EXCEPT !.control = TRUE], [Sound EXCEPT !.unmodeled = TRUE],
        [Sound EXCEPT !.ops = <<>>], [Sound EXCEPT !.diagnostics = 1],
        [Sound EXCEPT !.functions = <<Function("probe"), Function("unknown")>>],
        [Sound EXCEPT !.functions[2] = [@ EXCEPT !.entry = TRUE]]}

Checked ==
  {[Sound EXCEPT !.summaries = {o}, !.synthesized = TRUE] : o \in {"gpio", "virtio"}}
  \cup {WithOp([Op("symbolic") EXCEPT !.summary = "sdhci"]),
        [Sound EXCEPT !.loops = {"w1c"}],
        [Sound EXCEPT !.loops = {"w1c"}, !.synthesized = TRUE, !.summaries = {"gpio"}],
        [Sound EXCEPT !.ops = <<[Op("state") EXCEPT !.summary = "virtio"]>>,
                      !.summaries = {"virtio"}]}

MCSources ==
  <<{Sound, [Sound EXCEPT !.loops = {"conservative"}],
     [Sound EXCEPT !.summaries = {"gpio"}, !.synthesized = TRUE]},
    {Sound} \cup Flawed \cup Checked>>

MCWorlds ==
  {{}} \cup {{x} : x \in UNION {Faults(f) : f \in MCSources[2]}}
  \cup {{<<b, "build">>, <<c, "build">>} : b, c \in Backends}

\* What a run leaves in which nothing compiled.
Failed ==
  LET nothing == [b \in Backends |-> {}]
  IN  [x \in {"harness.log", "baremetal.log", "linux.log", "metrics"} |-> Text]
        @@ [analysis |-> [torn |-> FALSE, ris |-> Sound, drift |-> FALSE,
                          generation |-> nothing],
            score |-> Scores(Sound, nothing)]

MCLeftovers == {<<>>, Failed}
=============================================================================
