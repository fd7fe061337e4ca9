------------------------------ MODULE GpioMmio ------------------------------
(***************************************************************************)
(* What a gpio-mmio chip does, as verification/gpio_mmio_source_oracle.py  *)
(* states it in its own words, away from the extractor: the registers a    *)
(* configuration names, the two shadow words of the library, and one call  *)
(* of the chip after another.  A word is the set of its lines that are 1,  *)
(* so that a mask is an intersection and a bit is a membership.            *)
(***************************************************************************)
EXTENDS Naturals, Sequences

CONSTANTS Width,     \* the lines of one access (8 * width_bytes of them)
          Address,   \* where registers can be
          Seed,      \* what the registers hold before anything is written
          Chips      \* the configurations, [at |-> field -> register, flags |-> flags]

Fields == {"dat", "set", "clr", "dirout", "dirin"}
Flags  == {"READ_OUTPUT_SET", "UNREADABLE_SET", "UNREADABLE_DIR", "NO_SET_ON_INPUT"}

SeedOK == Seed \in [Address -> SUBSET Width]

\* Every configuration has a data register.  Registers that are written are
\* told apart by their address; reading may share the one that is written.
ChipsOK ==
  \A c \in Chips :
    /\ c.flags \subseteq Flags
    /\ "dat" \in DOMAIN c.at /\ DOMAIN c.at \subseteq Fields
    /\ c.at \in [DOMAIN c.at -> Address]
    /\ \A f, g \in DOMAIN c.at \ {"dat"} : c.at[f] = c.at[g] => f = g
    /\ \A f \in DOMAIN c.at \ {"dat", "set"} : c.at[f] # c.at["dat"]

VARIABLES chip,      \* the configuration in force
          regs,      \* the registers
          sdata,     \* gpio_sdata, the library's copy of the output word
          sdir,      \* gpio_sdir, its copy of the direction word (1: output)
          answer     \* the last call, what it did and what it returned

vars == <<chip, regs, sdata, sdir, answer>>

Has(c, f)    == f \in DOMAIN c.at
Reg(c, f)    == c.at[f]
Paired(c)    == Has(c, "set") /\ Has(c, "clr")
OutField(c)  == IF Has(c, "set") THEN "set" ELSE "dat"
InField(c)   == IF "READ_OUTPUT_SET" \in c.flags THEN "set" ELSE "dat"

\* _source_init: the shadow words are read off the registers.
InitData(c) ==
  IF Has(c, "set") /\ ~Has(c, "clr") /\ "UNREADABLE_SET" \notin c.flags
  THEN Seed[Reg(c, "set")] ELSE Seed[Reg(c, "dat")]
InitDir(c) ==
  IF "UNREADABLE_DIR" \in c.flags THEN {}
  ELSE IF Has(c, "dirout") THEN Seed[Reg(c, "dirout")]
  ELSE IF Has(c, "dirin") THEN Width \ Seed[Reg(c, "dirin")]
  ELSE {}
-----------------------------------------------------------------------------
(* One call works on a record of registers, shadows and the accesses made. *)

Put(s, c, f, value) ==
  [s EXCEPT !.regs  = [@ EXCEPT ![Reg(c, f)] = value \cap Width],
            !.trace = Append(@, <<"W", Reg(c, f), value \cap Width>>)]
Look(s, c, f) == [s EXCEPT !.trace = Append(@, <<"R", Reg(c, f), s.regs[Reg(c, f)]>>)]

\* set_value(): a paired chip has a register that sets and one that clears.
SetValue(s, c, a) ==
  IF Paired(c) THEN Put(s, c, IF a.value THEN "set" ELSE "clr", {a.offset})
  ELSE LET next == (IF a.value THEN s.sdata \cup {a.offset} ELSE s.sdata \ {a.offset}) \cap Width
       IN  Put([s EXCEPT !.sdata = next], c, OutField(c), next)

SetMultiple(s, c, a) ==
  IF Paired(c)
  THEN LET on  == a.bits \cap a.mask
           off == a.mask \ a.bits
           s1  == IF on = {} THEN s ELSE Put(s, c, "set", on)
       IN  IF off = {} THEN s1 ELSE Put(s1, c, "clr", off)
  ELSE LET next == ((s.sdata \ a.mask) \cup (a.bits \cap a.mask)) \cap Width
       IN  Put([s EXCEPT !.sdata = next], c, OutField(c), next)

\* set_direction()
SetDirection(s, c, a, output) ==
  LET next == (IF output THEN s.sdir \cup {a.offset} ELSE s.sdir \ {a.offset}) \cap Width
      s1   == [s EXCEPT !.sdir = next]
      s2   == IF Has(c, "dirin") THEN Put(s1, c, "dirin", Width \ next) ELSE s1
  IN  IF Has(c, "dirout") THEN Put(s2, c, "dirout", next) ELSE s2

DirectionOutput(s, c, a) ==
  IF "NO_SET_ON_INPUT" \in c.flags THEN SetValue(SetDirection(s, c, a, TRUE), c, a)
  ELSE SetDirection(SetValue(s, c, a), c, a, TRUE)

\* What get_direction looks at: the shadow, or a register of either polarity.
DirectionField(c) == IF Has(c, "dirout") THEN "dirout" ELSE "dirin"
IsInput(s, c, a) ==
  IF "UNREADABLE_DIR" \in c.flags THEN a.offset \notin s.sdir
  ELSE IF Has(c, "dirout") THEN a.offset \notin s.regs[Reg(c, "dirout")]
  ELSE a.offset \in s.regs[Reg(c, "dirin")]

Bit(b) == IF b THEN 1 ELSE 0
NoBits == [w \in {} |-> {}]
\* _source_call: the state after the call, its result and the words it returns.
After(table, s, c, a) ==
  CASE table \in {"get", "get_multiple"} -> Look(s, c, InField(c))
    [] table = "set"              -> SetValue(s, c, a)
    [] table = "set_multiple"     -> SetMultiple(s, c, a)
    [] table = "direction_input"  -> SetDirection(s, c, a, FALSE)
    [] table = "direction_output" -> DirectionOutput(s, c, a)
    [] table = "get_direction"    -> IF "UNREADABLE_DIR" \in c.flags THEN s
                                     ELSE Look(s, c, DirectionField(c))
Result(table, s, c, a) ==
  CASE table = "get"           -> Bit(a.offset \in s.regs[Reg(c, InField(c))])
    [] table = "get_direction" -> Bit(IsInput(s, c, a))
    [] OTHER                   -> 0
Outputs(table, s, c, a) ==
  CASE table = "get_multiple" ->
         [mask |-> a.mask,
          bits |-> (a.bits \ a.mask) \cup (s.regs[Reg(c, InField(c))] \cap a.mask)]
    [] table = "set_multiple" -> [mask |-> a.mask, bits |-> a.bits]
    [] OTHER                  -> NoBits

SingleCalls == [table  : {"get", "set", "direction_input", "direction_output", "get_direction"},
                args   : [offset : Width, value : BOOLEAN]]
ManyCalls   == [table  : {"get_multiple", "set_multiple"},
                args   : [mask : SUBSET Width, bits : SUBSET Width]]

\* The calls a chip answers: directions only where it has a direction register.
Answers(c, table) ==
  /\ table \in {"get", "get_multiple"} => Has(c, InField(c))
  /\ table \in {"direction_input", "direction_output", "get_direction"} =>
        Has(c, "dirout") \/ Has(c, "dirin")
-----------------------------------------------------------------------------
Off   == [table |-> "off"]
Ready == [table |-> "ready"]

Init ==
  /\ chip \in Chips
  /\ regs = Seed /\ sdata = {} /\ sdir = {} /\ answer = Off

\* gpio_generic_chip_init()
ChipInit ==
  /\ answer = Off
  /\ sdata' = InitData(chip)
  /\ sdir'  = InitDir(chip)
  /\ answer' = [table |-> "init"]
  /\ UNCHANGED <<chip, regs>>

\* The caller is done with the last answer.
Ask == answer # Off /\ answer' = Ready /\ UNCHANGED <<chip, regs, sdata, sdir>>

Call(call) ==
  /\ answer = Ready
  /\ Answers(chip, call.table)
  /\ LET s  == [regs |-> regs, sdata |-> sdata, sdir |-> sdir, trace |-> <<>>]
         s1 == After(call.table, s, chip, call.args)
     IN  /\ regs' = s1.regs /\ sdata' = s1.sdata /\ sdir' = s1.sdir
         /\ answer' = [table |-> call.table, args |-> call.args, trace |-> s1.trace,
                       result  |-> Result(call.table, s, chip, call.args),
                       outputs |-> Outputs(call.table, s, chip, call.args)]
  /\ UNCHANGED chip

Next == ChipInit \/ Ask \/ \E call \in SingleCalls \cup ManyCalls : Call(call)

Spec == Init /\ [][Next]_vars
-----------------------------------------------------------------------------
TypeOK ==
  /\ regs \in [Address -> SUBSET Width]
  /\ sdata \in SUBSET Width
  /\ sdir \in SUBSET Width

\* The shadow words never go stale: once the chip is set up, the direction
\* register that can be read holds the shadow direction (or its complement),
\* and the output register of a chip with one output register the shadow data.
\* Every later call changes one line and takes the others from the shadow.
ShadowIsRegister ==
  answer # Off =>
    /\ (Has(chip, "dirout") /\ "UNREADABLE_DIR" \notin chip.flags) =>
          regs[Reg(chip, "dirout")] = sdir
    /\ (Has(chip, "dirin") /\ ~Has(chip, "dirout") /\ "UNREADABLE_DIR" \notin chip.flags) =>
          regs[Reg(chip, "dirin")] = Width \ sdir
    /\ (Has(chip, "set") /\ ~Has(chip, "clr") /\ "UNREADABLE_SET" \notin chip.flags) =>
          regs[Reg(chip, "set")] = sdata
=============================================================================
