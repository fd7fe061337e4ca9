---------------------------- MODULE GpioSummary ----------------------------
(***************************************************************************)
(* The callbacks extractor/subsystem.py synthesizes for a driver that      *)
(* hands a gpio_generic_chip_config to gpio_generic_chip_init: one list of *)
(* RIS operations per callback, and the way the interpreter of the oracles *)
(* (verification/subsystem_callback_oracle.py) and the generated C         *)
(* (generator/common.py) carry them out.  A word is the set of its lines.  *)
(***************************************************************************)
EXTENDS Naturals, Sequences, SequencesExt

CONSTANTS Width,     \* the lines of one access
          Word       \* the lines of uint32_t, in which the generated C computes

ASSUME WidthAssumption == Width \subseteq Word

(* A configuration: the register of each field, the flags the driver ORs   *)
(* together, whether one selector chooses between dirin and dirout at the  *)
(* same register (_direction_variant_model), and whether the registers are *)
(* those of a bank chosen at run time (_gpio_bank_model).                  *)
Present(g, f) == f \in DOMAIN g.at
Both(g)       == Present(g, "dirin") /\ Present(g, "dirout")
Selectable(g) == g.selector /\ Both(g) /\ g.at["dirin"] = g.at["dirout"]

Known == {"READ_OUTPUT_SET", "UNREADABLE_SET", "UNREADABLE_DIR", "NO_SET_ON_INPUT"}
\* access_domain "mmio": everything else is recorded and not executed.
Supported(g) == g.flags \subseteq Known /\ (Both(g) => Selectable(g))
-----------------------------------------------------------------------------
(* RIS operations.                                                         *)

If(when, ops)      == [k \in DOMAIN ops |-> [ops[k] EXCEPT !.when = when]]
Rd(g, f, var)      == <<[op |-> "Read", reg |-> g.at[f], var |-> var, when |-> "always"]>>
Wr(g, f, value)    == <<[op |-> "Write", reg |-> g.at[f], value |-> value, when |-> "always"]>>
StRd(field)        == <<[op |-> "StateRead", field |-> field, when |-> "always"]>>
StWr(field, value) == <<[op |-> "StateWrite", field |-> field, value |-> value, when |-> "always"]>>
OutWr(value)       == <<[op |-> "OutputWrite", value |-> value, when |-> "always"]>>
Ret(value)         == <<[op |-> "Return", value |-> value, when |-> "always"]>>
For(g, f, ops)     == IF Present(g, f) THEN ops ELSE <<>>
Only(b, ops)       == IF b THEN ops ELSE <<>>

Bank(g)     == Only(g.banked, StRd("gpio_bank_index"))
Selector(g) == Only(Selectable(g), StRd("gpio_config_variant"))
SetClr(g)   == Present(g, "set") /\ Present(g, "clr")
OutReg(g)   == IF Present(g, "set") THEN "set" ELSE "dat"

\* gpio_generic_chip_init: the shadow words are read off the registers.
InitData(g) ==
  Rd(g, "dat", "word") \o StWr("gpio_sdata", "word")
  \o Only(Present(g, "set") /\ ~Present(g, "clr") /\ "UNREADABLE_SET" \notin g.flags,
          For(g, "set", Rd(g, "set", "word") \o StWr("gpio_sdata", "word")))
InitDir(g) ==
  IF "UNREADABLE_DIR" \in g.flags /\ (Present(g, "dirout") \/ Present(g, "dirin"))
  THEN StWr("gpio_sdir", "none")
  ELSE IF Selectable(g) THEN Rd(g, "dirout", "word") \o StWr("gpio_sdir", "word by variant")
  ELSE For(g, "dirout", Rd(g, "dirout", "word") \o StWr("gpio_sdir", "word"))
       \o For(g, "dirin", Rd(g, "dirin", "word") \o StWr("gpio_sdir", "~word"))
InitOps(g) == Bank(g) \o Selector(g) \o InitData(g) \o InitDir(g)

GetField(g) == IF "READ_OUTPUT_SET" \in g.flags THEN "set" ELSE "dat"
GetOps(g)         == For(g, GetField(g), Rd(g, GetField(g), "word") \o Ret("bit of word"))
GetMultipleOps(g) == For(g, GetField(g), Rd(g, GetField(g), "word") \o OutWr("merged") \o Ret("0"))

SetBody(g) ==
  IF SetClr(g) THEN If("value", Wr(g, "set", "line")) \o If("~value", Wr(g, "clr", "line"))
  ELSE StRd("gpio_sdata") \o StWr("gpio_sdata", "next data") \o Wr(g, OutReg(g), "next data")
SetMultipleBody(g) ==
  IF SetClr(g) THEN If("some set", Wr(g, "set", "set bits")) \o If("some clear", Wr(g, "clr", "clear bits"))
  ELSE StRd("gpio_sdata") \o StWr("gpio_sdata", "next many") \o Wr(g, OutReg(g), "next many")

\* the shadow is read and never written
DirectionBodyMutant(g, next, flipped, selected) ==
  Selector(g) \o StRd("gpio_sdir")
  \o IF Selectable(g) THEN Wr(g, "dirout", selected)
     ELSE For(g, "dirout", Wr(g, "dirout", next)) \o For(g, "dirin", Wr(g, "dirin", flipped))
DirectionBody(g, next, flipped, selected) ==
  Selector(g) \o StRd("gpio_sdir") \o StWr("gpio_sdir", next)
  \o IF Selectable(g) THEN Wr(g, "dirout", selected)
     ELSE For(g, "dirout", Wr(g, "dirout", next)) \o For(g, "dirin", Wr(g, "dirin", flipped))
InputBody(g)  == DirectionBody(g, "dir in", "~dir in", "dir in by variant")
OutputBody(g) == DirectionBody(g, "dir out", "~dir out", "dir out by variant")
\* set_ops, which returns, in the place of set_body
DirectionOutputMutant(g) ==
  (IF "NO_SET_ON_INPUT" \in g.flags THEN OutputBody(g) \o SetBody(g)
   ELSE SetBody(g) \o Ret("0") \o OutputBody(g)) \o Ret("0")
DirectionOutputOps(g) ==
  (IF "NO_SET_ON_INPUT" \in g.flags THEN OutputBody(g) \o SetBody(g)
   ELSE SetBody(g) \o OutputBody(g)) \o Ret("0")

GetDirectionOps(g) ==
  IF Selectable(g) THEN Selector(g) \o Rd(g, "dirout", "word") \o Ret("direction by variant")
  ELSE IF "UNREADABLE_DIR" \in g.flags THEN StRd("gpio_sdir") \o Ret("0 if dir")
  ELSE For(g, "dirout", Rd(g, "dirout", "word") \o Ret("0 if word"))
       \o For(g, "dirin", Rd(g, "dirin", "word") \o Ret("1 if word"))

Directional(g) == Present(g, "dirout") \/ Present(g, "dirin")
Body(g, table) ==
  CASE table = "get"              -> GetOps(g)
    [] table = "get_multiple"     -> GetMultipleOps(g)
    [] table = "set"              -> SetBody(g) \o Ret("0")
    [] table = "set_multiple"     -> SetMultipleBody(g) \o Ret("0")
    [] table = "direction_input"  -> Only(Directional(g), InputBody(g) \o Ret("0"))
    [] table = "direction_output" -> Only(Directional(g), DirectionOutputOps(g))
    [] table = "get_direction"    -> Only(Directional(g), GetDirectionOps(g))
\* A callback without operations is not synthesized.
CallbackOps(g, table) == IF Body(g, table) = <<>> THEN <<>> ELSE Bank(g) \o Body(g, table)
-----------------------------------------------------------------------------
(* Carrying operations out.  m is the memory, the driver state, the        *)
(* variables of the callback, the words it returns, the accesses made and  *)
(* the result.  how tells the oracle's interpreter, which keeps a state    *)
(* field to the width of the access and looks names up in the state first, *)
(* from the generated C, which does neither.                               *)

Oracle == [word |-> Width, stateFirst |-> TRUE]
InC    == [word |-> Word, stateFirst |-> FALSE]

Variant(m, how) == IF how.stateFirst THEN m.state["gpio_config_variant"]
                                     ELSE m.env["gpio_config_variant"]
Line(m) == {m.env["offset"]}
NextOf(e, m) ==
  LET v == m.env
  IN  CASE e = "next data" -> IF v["value"] THEN v["gpio_sdata"] \cup Line(m) ELSE v["gpio_sdata"] \ Line(m)
        [] e = "next many"  -> (v["gpio_sdata"] \ v["mask"]) \cup (v["bits"] \cap v["mask"])
        [] e = "dir in"     -> v["gpio_sdir"] \ Line(m)
        [] e = "dir out"    -> v["gpio_sdir"] \cup Line(m)
\* ~x is x ^ 0xffffffff
Flip(x) == Word \ x
Chosen(x, m, how) == IF Variant(m, how) # 0 THEN Flip(x) ELSE x
Eval(e, m, how) ==
  LET v == m.env
  IN  CASE e = "none"       -> {}
        [] e = "word"       -> v["word"]
        [] e = "~word"      -> Flip(v["word"])
        [] e = "line"       -> Line(m)
        [] e = "set bits"   -> v["bits"] \cap v["mask"]
        [] e = "clear bits" -> Flip(v["bits"]) \cap v["mask"]
        [] e = "merged"     -> (v["bits"] \cap Flip(v["mask"])) \cup (v["word"] \cap v["mask"])
        [] e = "~dir in"    -> Flip(NextOf("dir in", m))
        [] e = "~dir out"   -> Flip(NextOf("dir out", m))
        [] e = "word by variant"    -> Chosen(v["word"], m, how)
        [] e = "dir in by variant"  -> Chosen(NextOf("dir in", m), m, how)
        [] e = "dir out by variant" -> Chosen(NextOf("dir out", m), m, how)
        [] OTHER -> NextOf(e, m)

Holds(when, m) ==
  LET v == m.env
  IN  CASE when = "always"     -> TRUE
        [] when = "value"      -> v["value"]
        [] when = "~value"     -> ~v["value"]
        [] when = "some set"   -> v["bits"] \cap v["mask"] # {}
        [] when = "some clear" -> Flip(v["bits"]) \cap v["mask"] # {}

One(b) == IF b THEN 1 ELSE 0
ReturnValue(e, m, how) ==
  LET v == m.env
      at == m.env["offset"]
  IN  CASE e = "0"           -> 0
        [] e = "bit of word" -> One(at \in v["word"])
        [] e = "0 if word"   -> One(at \notin v["word"])
        [] e = "1 if word"   -> One(at \in v["word"])
        [] e = "0 if dir"    -> One(at \notin v["gpio_sdir"])
        [] e = "direction by variant" ->
             IF Variant(m, how) # 0 THEN One(at \in v["word"]) ELSE One(at \notin v["word"])

\* The bank is a variable of the callback, 0 when nothing was read into it.
Place(op, m) == <<op.reg, m.env["gpio_bank_index"]>>

\* One operation, and whether it runs at all.
Do(op, m, how) ==
  CASE op.op = "Read" ->
         [m EXCEPT !.env = [@ EXCEPT ![op.var] = m.regs[Place(op, m)]],
                   !.trace = Append(@, <<"R", Place(op, m), m.regs[Place(op, m)]>>)]
    [] op.op = "Write" ->
         LET value == Eval(op.value, m, how) \cap Width
         IN  [m EXCEPT !.regs = [@ EXCEPT ![Place(op, m)] = value],
                       !.trace = Append(@, <<"W", Place(op, m), value>>)]
    [] op.op = "StateRead"  -> [m EXCEPT !.env = [@ EXCEPT ![op.field] = m.state[op.field]]]
    [] op.op = "StateWrite" ->
         [m EXCEPT !.state = [@ EXCEPT ![op.field] = Eval(op.value, m, how) \cap how.word]]
    [] op.op = "OutputWrite" -> [m EXCEPT !.outputs = [@ EXCEPT !.bits = Eval(op.value, m, how)]]
    [] op.op = "Return"      -> [m EXCEPT !.returned = TRUE, !.result = ReturnValue(op.value, m, how)]
Step(op, m, how) == IF ~m.returned /\ Holds(op.when, m) THEN Do(op, m, how) ELSE m
Execute(ops, m, how) ==
  LET after[k \in 0 .. Len(ops)] == IF k = 0 THEN m ELSE Step(ops[k], after[k - 1], how)
  IN  after[Len(ops)]

\* The state of a device, and of a callback that has just been entered.
Device(variant, bank) ==
  [f \in {"gpio_sdata", "gpio_sdir", "gpio_config_variant", "gpio_bank_index"} |->
     CASE f = "gpio_config_variant" -> variant [] f = "gpio_bank_index" -> bank [] OTHER -> {}]
Arguments == {"offset", "value", "mask", "bits"}
Env(args) ==
  [x \in Arguments \cup {"word", "gpio_sdata", "gpio_sdir", "gpio_config_variant", "gpio_bank_index"} |->
     CASE x \in Arguments -> IF x \in DOMAIN args THEN args[x] ELSE {}
       [] x \in {"gpio_config_variant", "gpio_bank_index"} -> 0
       [] OTHER -> {}]
OutputsOf(args) == [x \in DOMAIN args \cap {"mask", "bits"} |-> args[x]]
Enter(regs, state, args) ==
  [regs |-> regs, state |-> state, env |-> Env(args), outputs |-> OutputsOf(args),
   trace |-> <<>>, result |-> 0, returned |-> FALSE]
=============================================================================
