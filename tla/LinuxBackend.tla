---------------------------- MODULE LinuxBackend ----------------------------
(***************************************************************************)
(* What generator/linux.py emits for one device: which callbacks get code, *)
(* which are put into a table of the framework, what probe acquires in     *)
(* which order, what it undoes when a step fails and what remove releases. *)
(*                                                                         *)
(* A device is what its DeviceSpec, BindSpec and source tell the backend.  *)
(* A callback is a pair of a table and a field; names, headers and texts   *)
(* of the emitted C are left out.                                          *)
(***************************************************************************)
EXTENDS Sequences, Integers

\* bus        how the driver binds: its probe is a PCI one, it is an SDHCI host
\*            with a source model, or it is any platform device
\* cls        the class of the DeviceSpec
\* bound      callbacks that BindSpec and facts give to a function with a module
\* mapped     number of MMIO resources;   banks   banks of a banked GPIO
\* gpioModel  the native-endian dat/set/dirout pattern was recovered
\* irqModel   the generic-chip mask/unmask/EOI contract was recovered
\* clock      the device consumes a clock (DeviceSpec state "clk")
\* clockModel clk_ops tables were recovered from the source
\* edu        the QEMU edu device, which gets a miscdevice
\* rebound    interrupt callbacks could be lowered from their source text
DeviceFields ==
    [bus : {"pci", "platform", "sdhci"}, cls : {"gpio_controller", "clock", "sdhci", "edu"},
     bound : SUBSET (STRING \X STRING), mapped : 1..2, banks : 0..2,
     gpioModel : BOOLEAN, irqModel : BOOLEAN, clock : BOOLEAN, clockModel : BOOLEAN,
     edu : BOOLEAN, rebound : BOOLEAN]

\* A model is looked for in one class of devices and passed to one of the
\* emitters: that of GPIO lines to the PCI one, and that of their interrupts
\* only beside it; banks and clock tables to the platform one.
Device == {d \in DeviceFields :
             /\ d.gpioModel  => d.cls = "gpio_controller" /\ d.bus = "pci"
             /\ d.irqModel   => d.gpioModel
             /\ d.clockModel => d.cls = "clock" /\ d.bus = "platform"
             /\ d.banks > 0  => d.cls = "gpio_controller" /\ d.bus = "platform"
             /\ d.edu        => d.cls = "edu" /\ d.bus = "pci"}

Bound(d, table) == {c \in d.bound : c[1] = table}
HasGpio(d)      == d.cls = "gpio_controller" \/ Bound(d, "gpio_chip") # {}
HasIrq(d)       == d.irqModel \/ Bound(d, "irq_chip") # {}
HasClkOps(d)    == d.clockModel \/ Bound(d, "clk_ops") # {}
HasHandler(d)   == <<"irq_handler", "handler">> \in d.bound

If(condition, steps) == IF condition THEN steps ELSE <<>>
-----------------------------------------------------------------------------
(***************************************************************************)
(* probe and remove                                                        *)
(***************************************************************************)
\* A step acquires something, for the probe to release or for devres, or does
\* something that cannot fail; `undo` is the code behind the label it jumps to.
Acquire(what, undo) == [does |-> "acquire", what |-> what, devres |-> FALSE, undo |-> undo]
Managed(what, undo) == [does |-> "acquire", what |-> what, devres |-> TRUE, undo |-> undo]
Do(what)            == [does |-> "do", what |-> what, devres |-> FALSE, undo |-> <<>>]

\* MUTANT: err_regions is left out of the chain of labels.
PciUnwindMutant == <<"map", "device">>

\* err_iounmap, err_regions, err_disable.
PciUnwind == <<"map", "regions", "device">>

\* MUTANT: a failing pci_ioremap_bar jumps to err_iounmap.
PciMapMutant == <<Managed("priv", <<>>), Acquire("device", <<>>), Acquire("regions", <<"device">>),
                  Acquire("map", PciUnwind), Do("init")>>

PciMap == <<Managed("priv", <<>>), Acquire("device", <<>>), Acquire("regions", <<"device">>),
            Acquire("map", <<"regions", "device">>), Do("init")>>

PciProbe(d) ==
    PciMap
    \o If(HasGpio(d), If(d.gpioModel, <<Do("gpio_lock"), Do("gpio_cache")>>)
                      \o If(d.irqModel, <<Do("irq_lock")>>)
                      \o <<Managed("gpiochip", PciUnwind)>>)
    \o If(HasHandler(d), <<Managed("irq", PciUnwind)>>)
    \o If(d.edu, <<Acquire("misc", PciUnwind)>>)

PciRemove(d) == If(d.edu, <<"misc">>) \o PciUnwind

\* Everything a platform driver acquires belongs to devres; the lock of a banked
\* device is initialised before its banks are registered, one after the other.
Bank(i) == IF i = 1 THEN "gpiochip" ELSE "gpiochip2"

\* MUTANT: the chips are registered before the resources are mapped.
PlatformProbeMutant(d) ==
    <<Managed("priv", <<>>)>>
    \o (IF d.banks > 0 THEN [i \in 1..d.banks |-> Managed(Bank(i), <<>>)]
        ELSE If(HasGpio(d), <<Managed("gpiochip", <<>>)>>))
    \o <<Managed("map", <<>>), Do("irq_lock"), Do("init")>>

PlatformProbe(d) ==
    <<Managed("priv", <<>>)>>
    \o [i \in 1..d.mapped |-> Managed(IF i = 1 THEN "map" ELSE "map2", <<>>)]
    \o If(d.banks > 0, <<Managed("banks", <<>>)>>)
    \o If(d.clock, <<Managed("clk", <<>>)>>)
    \o If(HasClkOps(d), <<Managed("clk_hw", <<>>)>>)
    \o If(d.clockModel, <<Managed("clk_provider", <<>>)>>)
    \o <<Do("init")>>
    \o (IF d.banks > 0
        THEN If(HasIrq(d), <<Do("irq_lock")>>) \o [i \in 1..d.banks |-> Managed(Bank(i), <<>>)]
        ELSE If(HasGpio(d), <<Managed("gpiochip", <<>>)>>))

\* sdhci_pltfm_init and the host's memory belong to the framework's devres.
SdhciProbe(d) ==
    <<Managed("priv", <<>>), Managed("map", <<>>)>> \o If(d.clock, <<Managed("clk", <<>>)>>)
    \o <<Acquire("host", <<>>)>>

Probe(d)  == CASE d.bus = "pci" -> PciProbe(d)
               [] d.bus = "sdhci" -> SdhciProbe(d)
               [] d.bus = "platform" -> PlatformProbe(d)
OnRemove(d) == CASE d.bus = "pci" -> PciRemove(d)
                 [] d.bus = "sdhci" -> <<"host">>
                 [] d.bus = "platform" -> <<>>
-----------------------------------------------------------------------------
(***************************************************************************)
(* Callbacks: code, tables and reports                                     *)
(***************************************************************************)
\* Tables and fields for which a C signature is known (_callback_signature); of
\* each table the fields are listed that the emitters treat differently.
Signed ==
    ({"irq_chip"} \X {"irq_ack", "irq_mask", "irq_unmask", "irq_enable", "irq_set_type"})
    \cup ({"gpio_chip"} \X {"request", "get", "set", "direction_output", "set_config"})
    \cup ({"gpio_irq_chip"} \X {"parent_handler", "init_hw"})
    \cup ({"dev_pm_ops"} \X {"suspend", "resume"})
    \cup ({"clk_ops"} \X {"enable", "recalc_rate"})
    \cup ({"sdhci_ops"} \X {"read_l", "write_w"})
    \cup {<<"irq_handler", "handler">>, <<"usb_ep_ops", "queue">>,
          <<"usb_gadget_ops", "pullup">>, <<"hc_driver", "start">>}
UsbTables == {"usb_ep_ops", "usb_gadget_ops", "hc_driver"}
ModelIrq  == {"irq_chip"} \X {"irq_mask", "irq_unmask", "irq_eoi"}

Rebound(d) ==
    {c \in Bound(d, "irq_chip") : c[2] = "irq_eoi" => d.banks = 0} \cup Bound(d, "irq_handler")

\* Callbacks a module has code for: those with a signature, interrupt callbacks
\* whose source could be rebound (an irq_eoi of banks is not), and the three a
\* generic chip's model stands for.
\* (edu's file operations have code of their own and are not counted here.)
Defined(d) == (d.bound \cap Signed)
              \cup (IF d.rebound THEN Rebound(d) ELSE {})
              \cup (IF d.irqModel THEN ModelIrq ELSE {})

\* MUTANT: a callback without a signature is passed over in silence.
ReportedMutant(d) ==
    {c \in d.bound : c[1] \in UsbTables}
    \cup (IF d.clockModel THEN {} ELSE d.bound \cap {<<"clk_ops", "recalc_rate">>})

\* Callbacks named in a REHARNESS_UNSUPPORTED comment, which keeps the module
\* from being called ready.
Reported(d) ==
    {c \in d.bound : c[1] # "file_operations" /\ c \notin Defined(d)}
    \cup {c \in d.bound : c[1] \in UsbTables}
    \cup (IF d.clockModel THEN {} ELSE d.bound \cap {<<"clk_ops", "recalc_rate">>})

\* Fields that the emitters put into a table or pass to a registration. A later
\* assignment to the same field of a gpio_chip or irq_chip wins.
GpioFields == {"request", "get", "set", "direction_output", "set_config"}
PciWired(d) ==
    LET irq == Bound(d, "irq_chip") \cup IF d.irqModel THEN ModelIrq ELSE {}
    IN  {c \in d.bound : c[1] \in UsbTables \cup {"irq_handler"}}
        \cup IF HasGpio(d)
             THEN (d.bound \cap ({"gpio_chip"} \X GpioFields))
                  \cup (irq \cap ({"irq_chip"} \X {"irq_ack", "irq_mask", "irq_unmask", "irq_eoi", "irq_set_type"}))
             ELSE {}
PlatformWired(d) ==
    {c \in d.bound : c[1] \in UsbTables \cup {"dev_pm_ops", "clk_ops"}}
    \cup IF HasGpio(d)
         THEN (d.bound \cap ({"gpio_chip"} \X GpioFields))
              \cup (d.bound \cap ({"irq_chip"} \X {"irq_ack", "irq_mask", "irq_unmask", "irq_enable", "irq_set_type"}))
              \cup (IF d.banks = 0 /\ HasIrq(d) THEN Bound(d, "gpio_irq_chip") ELSE {})
         ELSE {}
Wired(d) == CASE d.bus = "pci" -> PciWired(d)
              [] d.bus = "sdhci" -> Bound(d, "sdhci_ops")
              [] d.bus = "platform" -> PlatformWired(d)
=============================================================================
