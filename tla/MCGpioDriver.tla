-------------------------- MODULE MCGpioDriver --------------------------
EXTENDS GpioHarness

ASSUME ReferenceIsDefined == Ref!SeedOK /\ Ref!ChipsOK /\ SelectorsReadable

MCWidth == {0, 1}
MCWord  == {0, 1, 2}
MCBanks == {0, 1}

Config(fields, flags, banked) ==
  [at |-> [f \in fields \cup {"dat"} |-> f], flags |-> flags, selector |-> FALSE, banked |-> banked]
\* One register of directions, whose polarity a selector chooses; here data
\* are read and written at one register too.
Selected(fields, flags) ==
  [at |-> [f \in fields \cup {"dat", "dirin", "dirout"} |->
             CASE f = "dirin" -> "dirout" [] f = "set" -> "dat" [] OTHER -> f],
   flags |-> flags, selector |-> TRUE, banked |-> FALSE]

FlagSets == {{}, {"READ_OUTPUT_SET"}, {"UNREADABLE_SET", "NO_SET_ON_INPUT"}, {"UNREADABLE_DIR"},
             {"PINCTRL_BACKEND"}}
SomeConfigs ==
  {Config(fields, flags, FALSE) : fields \in SUBSET {"set", "clr", "dirout", "dirin"}, flags \in FlagSets}
  \cup {Config(fields, {}, TRUE) : fields \in {{"set", "dirout"}, {"set", "clr"}}}
  \cup {Selected(fields, flags) : fields \in {{}, {"set"}}, flags \in {{}, {"NO_SET_ON_INPUT"}}}

\* The harness: a chip of every kind, and a chip that is not supported.
MCTried == {Config({"set", "dirout"}, {}, FALSE), Config({"set", "clr", "dirout"}, {"NO_SET_ON_INPUT"}, FALSE),
            Config({"dirin"}, {}, FALSE), Config({"set", "dirin"}, {"UNREADABLE_DIR"}, FALSE),
            Config({"set", "dirout"}, {}, TRUE), Selected({"set"}, {}), Config({}, {"READ_OUTPUT_SET"}, FALSE),
            Config({"dirin", "dirout"}, {}, FALSE), Config({"set"}, {"PINCTRL_BACKEND"}, FALSE)}
MCAltered == {Config({"set", "dirout"}, {}, FALSE), Config({"set", "clr", "dirout"}, {"NO_SET_ON_INPUT"}, FALSE),
              Selected({"set"}, {})}

MCConfigs == SomeConfigs \cup MCTried

MCSeed == [a \in {"dat", "set", "clr", "dirout", "dirin"} \X MCBanks |->
             IF a[1] \in {"dat", "dirout"} THEN {a[2]} ELSE {0}]
=============================================================================
