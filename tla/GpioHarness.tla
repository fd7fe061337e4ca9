---------------------------- MODULE GpioHarness ----------------------------
(***************************************************************************)
(* The chip of GpioCallbacks run by a test program instead of by any       *)
(* caller: the C program generator/harness.py writes runs the plan of      *)
(* generator/subsystem_runner.py and prints what every callback did, and   *)
(* the two oracles of verification/ judge it: one executes the Formal RIS  *)
(* on the same plan and compares, the other compares the Formal RIS with   *)
(* the reference.  The RIS, or the C compiled from it, may be wrong in an  *)
(* operation, and the program may die at any point.                        *)
(***************************************************************************)
EXTENDS GpioCallbacks

CONSTANTS Tried,     \* the configurations the harness is run for
          Altered    \* those of them that are also run with a wrong operation

VARIABLE run         \* the run: what is executed, what was printed, the verdict

\* An access is at least a byte wide, and the plan speaks of lines 0 and 1.
ASSUME PlanAssumption == {0, 1} \subseteq Width
ASSUME TriedAssumption == Tried \subseteq Configs /\ Altered \subseteq Tried

hvars == <<cvars, run>>

Tables == <<"get", "get_multiple", "set", "set_multiple",
            "direction_input", "direction_output", "get_direction">>
TableSet == Range(Tables)

\* The modules of the Formal RIS of a driver.
Formal(g) == [t \in TableSet \cup {"init"} |->
                IF t = "init" THEN InitOps(g) ELSE CallbackOps(g, t)]
\* A wrong operation: a write that is left out, or whose value is lost, or two
\* writes the wrong way round.
Writes(ops) == {k \in DOMAIN ops : ops[k].op \in {"Write", "StateWrite"}}
Wrong(ops) ==
  {RemoveAt(ops, k) : k \in Writes(ops)}
  \cup {[ops EXCEPT ![k].value = "none"] : k \in Writes(ops)}
  \cup {[ops EXCEPT ![k] = ops[j], ![j] = ops[k]] : j \in Writes(ops), k \in Writes(ops)}
Variants(formal) ==
  UNION {{[formal EXCEPT ![t] = ops] : ops \in Wrong(formal[t])} : t \in DOMAIN formal}

\* _arguments and gpio_callback_plan: set is called with 1 and with 0.
PlanArgs(t, value) ==
  IF t \in {"get_multiple", "set_multiple"} THEN [mask |-> {0, 1}, bits |-> {0}]
  ELSE [offset |-> 1, value |-> value]
PlanOf(g, formal) ==
  IF ~Supported(g) THEN <<>>
  ELSE FlattenSeq([k \in DOMAIN Tables |->
         LET t == Tables[k]
         IN  IF formal[t] = <<>> THEN <<>>
             ELSE IF t = "set" THEN <<[table |-> t, args |-> PlanArgs(t, TRUE)],
                                      [table |-> t, args |-> PlanArgs(t, FALSE)]>>
             ELSE <<[table |-> t, args |-> PlanArgs(t, TRUE)]>>])
Plan == PlanOf(gen, run.formal)

NoRun == [phase |-> "none"]
FirstUnit == [variant |-> 0, bank |-> 0]
-----------------------------------------------------------------------------
HInit ==
  \/ CInit /\ run = NoRun
  \/ /\ gen \in Tried
     /\ unit = FirstUnit
     /\ \E formal \in {Formal(gen)} \cup (IF gen \in Altered THEN Variants(Formal(gen)) ELSE {}),
           c \in {Formal(gen)} \cup (IF gen \in Altered THEN Variants(Formal(gen)) ELSE {}) :
          /\ formal = Formal(gen) \/ c = formal
          /\ run = [phase |-> "probe", formal |-> formal, c |-> c, at |-> 0,
                    begin |-> <<>>, segments |-> <<>>, end |-> FALSE,
                    died |-> FALSE, callbacks |-> FALSE, source |-> FALSE]
     /\ call = Setup
     /\ m = Enter(Seed, Device(0, 0), <<>>)
     /\ todo = run.c["init"]
     /\ seen = View(m, Ref!Off)

\* A statement of the compiled callback.
Statement ==
  /\ run.phase \in {"probe", "callbacks"}
  /\ todo # <<>> /\ ~m.returned
  /\ m' = Step(Head(todo), m, InC)
  /\ todo' = Tail(todo)
  /\ UNCHANGED <<gen, unit, call, seen, run>>

\* main() seeds the memory again and starts the callbacks, if any are planned.
Begin ==
  /\ run.phase = "probe" /\ todo = <<>>
  /\ m' = Enter(Seed, m.state, <<>>)
  /\ call' = Idle
  /\ run' = IF Plan = <<>> THEN [run EXCEPT !.phase = "exited"]
            ELSE [run EXCEPT !.phase = "callbacks", !.begin = <<Len(Plan)>>]
  /\ UNCHANGED <<gen, unit, todo, seen>>

\* The marker, the arguments and the call.
CallNext ==
  /\ run.phase = "callbacks" /\ call = Idle /\ run.at < Len(Plan)
  /\ LET c == Plan[run.at + 1]
     IN  /\ call' = c
         /\ m' = Enter(m.regs, m.state, c.args)
         /\ todo' = run.c[c.table]
  /\ run' = [run EXCEPT !.at = @ + 1]
  /\ UNCHANGED <<gen, unit, seen>>

Segment(c, mm) == [table |-> c.table, trace |-> mm.trace, result |-> mm.result,
                   outputs |-> mm.outputs, sdata |-> mm.state["gpio_sdata"],
                   sdir |-> mm.state["gpio_sdir"]]

\* The result, the words returned and the shadows are printed after the call.
Report ==
  /\ run.phase = "callbacks" /\ call # Idle /\ m.returned
  /\ run' = [run EXCEPT !.segments = Append(@, Segment(call, m))]
  /\ call' = Idle /\ todo' = <<>>
  /\ UNCHANGED <<gen, unit, m, seen>>

End ==
  /\ run.phase = "callbacks" /\ call = Idle /\ run.at = Len(Plan)
  /\ run' = [run EXCEPT !.phase = "exited", !.end = TRUE]
  /\ UNCHANGED <<gen, unit, call, m, todo, seen>>

\* The program dies: what it printed so far is what there is to read.  A call
\* that had begun has printed its marker and the accesses it made.
Killed ==
  /\ run.phase \in {"probe", "callbacks"}
  /\ run' = [run EXCEPT !.phase = "died",
               !.segments = IF run.phase = "callbacks" /\ call # Idle
                            THEN Append(@, [table |-> call.table, trace |-> m.trace]) ELSE @]
  /\ call' = Idle /\ todo' = <<>>
  /\ m' = Enter(Seed, Device(0, 0), <<>>)
  /\ UNCHANGED <<gen, unit, seen>>
-----------------------------------------------------------------------------
(* verify_subsystem_callbacks: the plan is executed from the state the     *)
(* probe leaves, each call on the memory the ones before left.             *)

\* the oracle starts from a device that was not probed
ProbedMutant(formal, u) == Enter(Seed, Device(u.variant, u.bank), <<>>)
Probed(formal, u) == Execute(formal["init"], Enter(Seed, Device(u.variant, u.bank), <<>>), Oracle)
\* The memory each call of the plan leaves.
Memories(formal, u, plan) ==
  LET after[k \in 0 .. Len(plan)] ==
        IF k = 0 THEN Enter(Seed, Probed(formal, u).state, <<>>)
        ELSE LET before == after[k - 1]
             IN  Execute(formal[plan[k].table], Enter(before.regs, before.state, plan[k].args), Oracle)
  IN  after
Executed(formal, u, plan) ==
  LET after == Memories(formal, u, plan) IN [k \in DOMAIN plan |-> Segment(plan[k], after[k])]

Expected == {t \in TableSet : run.formal[t] # <<>>}
\* a run that stops early has nothing that differs
NoMarkersMutant ==
  \/ Expected = {}
  \/ /\ \A k \in DOMAIN Plan : k <= Len(run.segments) =>
          run.segments[k] = Executed(run.formal, FirstUnit, Plan)[k]
     /\ {Plan[k].table : k \in DOMAIN Plan} = Expected
CallbacksPassed ==
  \/ Expected = {}
  \/ /\ run.begin = <<Len(Plan)>> /\ run.end
     /\ Len(run.segments) = Len(Plan)
     /\ \A k \in DOMAIN Plan : run.segments[k] = Executed(run.formal, FirstUnit, Plan)[k]
     /\ {Plan[k].table : k \in DOMAIN Plan} = Expected

(* verify_gpio_mmio_source_differential: every unit of the driver, the     *)
(* state the library's setup leaves and every call of the plan.            *)

RefStart(g, u) ==
  LET c == Active(g, u)
  IN  [regs |-> Seed, sdata |-> Ref!InitData(c), sdir |-> Ref!InitDir(c), trace |-> <<>>]
RefSegment(g, u, c, s) ==
  LET s1 == Ref!After(c.table, [s EXCEPT !.trace = <<>>], Active(g, u), c.args)
  IN  [table |-> c.table, trace |-> s1.trace, sdata |-> s1.sdata, sdir |-> s1.sdir,
       result  |-> Ref!Result(c.table, s, Active(g, u), c.args),
       outputs |-> Ref!Outputs(c.table, s, Active(g, u), c.args)]
RefStates(g, u, plan) ==
  LET after[k \in 0 .. Len(plan)] ==
        IF k = 0 THEN RefStart(g, u)
        ELSE Ref!After(plan[k].table, [after[k - 1] EXCEPT !.trace = <<>>], Active(g, u), plan[k].args)
  IN  after
Reference(g, u, plan) ==
  LET after == RefStates(g, u, plan) IN [k \in DOMAIN plan |-> RefSegment(g, u, plan[k], after[k - 1])]

SourcePassed ==
  /\ Both(gen) => Selectable(gen)
  /\ Plan # <<>>
  /\ \A u \in Units(gen) :
       /\ Probed(run.formal, u).state["gpio_sdata"] = RefStart(gen, u).sdata
       /\ Probed(run.formal, u).state["gpio_sdir"] = RefStart(gen, u).sdir
       /\ Executed(run.formal, u, Plan) = Reference(gen, u, Plan)

Judge ==
  /\ run.phase \in {"exited", "died"}
  /\ run' = [run EXCEPT !.phase = "judged", !.died = run.phase = "died",
               !.callbacks = CallbacksPassed, !.source = SourcePassed]
  /\ UNCHANGED cvars

HNext ==
  \/ run = NoRun /\ CNext /\ UNCHANGED run
  \/ Statement \/ Begin \/ CallNext \/ Report \/ End \/ Killed \/ Judge
  \/ run.phase = "judged" /\ UNCHANGED hvars

HSpec == HInit /\ [][HNext]_hvars
-----------------------------------------------------------------------------
\* What passes both oracles ran: the whole plan was executed to its end, and
\* every callback made the accesses of gpio-mmio in their order, returned its
\* result and words and left its shadows, whatever was wrong with the RIS or
\* with the C and wherever the program may have died.
PassedIsReference ==
  run.phase = "judged" /\ run.callbacks /\ run.source =>
    /\ ~run.died /\ Len(run.segments) = Len(Plan)
    /\ \A k \in DOMAIN Plan : run.segments[k] = Reference(gen, FirstUnit, Plan)[k]

\* A right program that runs to its end passes, although the C computes in
\* 32-bit words and the oracle in those of the access.  It holds for registers
\* of 32 bits and for chips whose directions are not read off a dirin register.
RightPasses ==
  LET wide == Width = Word \/ ~Present(gen, "dirin") \/ "UNREADABLE_DIR" \in gen.flags
  IN  run.phase = "judged" /\ ~run.died /\ run.formal = Formal(gen) /\ run.c = run.formal
      /\ Supported(gen) /\ wide => run.callbacks /\ run.source
=============================================================================
