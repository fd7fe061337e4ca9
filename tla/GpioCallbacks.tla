--------------------------- MODULE GpioCallbacks ---------------------------
(***************************************************************************)
(* One gpio chip driven through its synthesized callbacks, an operation at *)
(* a time, as _execute of the callback oracle does it: the callback that   *)
(* initializes the library first, then any callback with any arguments.    *)
(* It implements GpioMmio, the reference of the source oracle.             *)
(***************************************************************************)
EXTENDS GpioSummary

CONSTANTS Configs,   \* the configurations drivers fill in
          Banks,     \* the banks of a banked chip, 0 among them
          Seed       \* what the registers hold at first

ASSUME BanksAssumption == 0 \in Banks

VARIABLES gen,       \* the configuration
          unit,      \* which unit runs: [variant |-> 0 or 1, bank |-> a bank]
          call,      \* the callback that runs, or Idle
          m,         \* its memory, state, variables and trace (GpioSummary)
          todo,      \* the operations still to do
          seen       \* what a caller has seen: registers, shadows, last answer

cvars == <<gen, unit, call, m, todo, seen>>

Registers == UNION {{g.at[f] : f \in DOMAIN g.at} : g \in Configs}
Address   == Registers \X Banks
Units(g)  == [variant : IF Selectable(g) THEN {0, 1} ELSE {0},
              bank    : IF g.banked THEN Banks ELSE {0}]

\* _config: the reference's configuration of one unit of a driver.
Active(g, u) ==
  LET fields == IF Selectable(g) THEN DOMAIN g.at \ {IF u.variant = 0 THEN "dirin" ELSE "dirout"}
                ELSE DOMAIN g.at
  IN  [at |-> [f \in fields |-> <<g.at[f], u.bank>>], flags |-> g.flags \cap Known]

Chips == UNION {{Active(g, u) : u \in Units(g)} : g \in Configs}

Idle == [table |-> "idle"]
Setup == [table |-> "init"]
View(mm, answer) == [regs |-> mm.regs, sdata |-> mm.state["gpio_sdata"],
                     sdir |-> mm.state["gpio_sdir"], answer |-> answer]

Ref == INSTANCE GpioMmio
         WITH chip <- Active(gen, unit), regs <- seen.regs,
              sdata <- seen.sdata, sdir <- seen.sdir, answer <- seen.answer

\* A selector does not come with UNREADABLE_DIR, for which get_direction reads
\* the register (subsystem.py:786) and the reference its shadow
\* (gpio_mmio_source_oracle.py:223).
SelectorsReadable == \A g \in Configs : Selectable(g) => "UNREADABLE_DIR" \notin g.flags
-----------------------------------------------------------------------------
CInit ==
  /\ gen \in {g \in Configs : Supported(g)}
  /\ unit \in Units(gen)
  /\ call = Setup
  /\ m = Enter(Seed, Device(unit.variant, unit.bank), <<>>)
  /\ todo = InitOps(gen)
  /\ seen = View(m, Ref!Off)

\* The next operation; one whose guard is false does nothing.
Operation ==
  /\ todo # <<>> /\ ~m.returned
  /\ m' = Step(Head(todo), m, Oracle)
  /\ todo' = Tail(todo)
  /\ UNCHANGED <<gen, unit, call, seen>>

\* The library is set up; the memory is seeded again before the callbacks.
Initialized ==
  /\ call = Setup /\ todo = <<>>
  /\ m' = Enter(Seed, m.state, <<>>)
  /\ seen' = View(m', Setup)
  /\ call' = Idle
  /\ UNCHANGED <<gen, unit, todo>>

Callback(table, args) ==
  /\ call = Idle
  /\ CallbackOps(gen, table) # <<>>
  /\ call' = [table |-> table, args |-> args]
  /\ m' = Enter(m.regs, m.state, args)
  /\ todo' = CallbackOps(gen, table)
  /\ seen' = [seen EXCEPT !.answer = Ref!Ready]
  /\ UNCHANGED <<gen, unit>>

\* What follows a return is not executed.
Return ==
  /\ call \notin {Idle, Setup} /\ m.returned
  /\ seen' = View(m, [table |-> call.table, args |-> call.args, trace |-> m.trace,
                      result |-> m.result, outputs |-> m.outputs])
  /\ call' = Idle
  /\ todo' = <<>>
  /\ m' = Enter(m.regs, m.state, <<>>)
  /\ UNCHANGED <<gen, unit>>

CNext ==
  \/ Operation \/ Initialized \/ Return
  \/ \E c \in Ref!SingleCalls \cup Ref!ManyCalls : Callback(c.table, c.args)

CSpec == CInit /\ [][CNext]_cvars
-----------------------------------------------------------------------------
\* The synthesized callbacks do what gpio-mmio does: for every configuration
\* that is accepted, every unit and every sequence of calls, a call makes the
\* accesses of the reference in its order, returns its result and words, and
\* leaves its shadows (infer_gpio_generic_summaries).
Implements == Ref!Spec

\* The shadow words follow the registers through every sequence of calls.
ShadowIsRegister == Ref!ShadowIsRegister
=============================================================================
