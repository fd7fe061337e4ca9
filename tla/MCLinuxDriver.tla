---------------------------- MODULE MCLinuxDriver ----------------------------
(***************************************************************************)
(* One device of each kind the backend serves, two consumers with a line   *)
(* each, registers that probe leaves clear or set.                         *)
(***************************************************************************)
EXTENDS LinuxDriver

Plain == [bus |-> "platform", cls |-> "clock", bound |-> {}, mapped |-> 1, banks |-> 0,
          gpioModel |-> FALSE, irqModel |-> FALSE, clock |-> FALSE, clockModel |-> FALSE,
          edu |-> FALSE, rebound |-> FALSE]

Sodaville == [Plain EXCEPT !.bus = "pci", !.cls = "gpio_controller", !.gpioModel = TRUE,
                           !.irqModel = TRUE, !.rebound = TRUE,
                           !.bound = {<<"irq_chip", "irq_set_type">>}]
PciGpio   == [Plain EXCEPT !.bus = "pci", !.cls = "gpio_controller",
                           !.bound = {<<"gpio_chip", "set">>, <<"irq_chip", "irq_eoi">>, <<"irq_handler", "handler">>}]
Edu       == [Plain EXCEPT !.bus = "pci", !.cls = "edu", !.edu = TRUE,
                           !.bound = {<<"file_operations", "read">>}]
Banked    == [Plain EXCEPT !.cls = "gpio_controller", !.banks = 2, !.rebound = TRUE,
                           !.bound = {<<"irq_chip", "irq_mask">>, <<"irq_chip", "irq_enable">>,
                                      <<"irq_chip", "irq_set_type">>, <<"dev_pm_ops", "suspend">>}]
TwoMaps   == [Plain EXCEPT !.cls = "gpio_controller", !.mapped = 2, !.clock = TRUE,
                           !.bound = {<<"gpio_chip", "set">>, <<"irq_chip", "irq_mask">>,
                                      <<"gpio_irq_chip", "parent_handler">>}]
Clock     == [Plain EXCEPT !.clockModel = TRUE, !.bound = {<<"clk_ops", "recalc_rate">>}]
Vhub      == [Plain EXCEPT !.clock = TRUE, !.bound = {<<"usb_ep_ops", "queue">>, <<"clk_ops", "enable">>}]
Sdhci     == [Plain EXCEPT !.bus = "sdhci", !.cls = "sdhci", !.clock = TRUE, !.bound = {<<"sdhci_ops", "read_l">>}]

McDevices == {Sodaville, PciGpio, Edu, Banked, TwoMaps, Clock, Vhub, Sdhci}
McOwns      == [c \in {"first", "second"} |-> IF c = "first" THEN {1} ELSE {2}]
McRegisters == {[r \in Reg |-> {}], [r \in Reg |-> IF r \in {"data", "mask"} THEN {2} ELSE {}]}
=============================================================================
