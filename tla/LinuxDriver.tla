----------------------------- MODULE LinuxDriver -----------------------------
(***************************************************************************)
(* The life of a module that generator/linux.py emitted: the driver core   *)
(* probes it, any step may fail; while it is registered, consumers of its  *)
(* lines, its interrupt, its users and its clocks call it concurrently;    *)
(* then it is unbound, and may be bound again.                             *)
(*                                                                         *)
(* The kernel is external: devres releases in reverse order, a chip, an    *)
(* interrupt, a clock or a host is released when no call of it is running, *)
(* and misc_deregister does not wait for open files.                       *)
(***************************************************************************)
EXTENDS LinuxBackend

CONSTANTS Devices,     \* the devices that are generated for
          Line,        \* lines of the GPIO controller
          Consumer,    \* kernel threads that use lines
          Owns,        \* the lines of each consumer
          Registers    \* contents the registers may have: before, and after the
                       \* register operations of probe

Reg   == {"data", "dir", "mask", "enable", "type"}
Users == {"interrupt", "file", "clock", "host"}
Caller == Consumer \cup Users
Locks == {"gpio_lock", "irq_lock"}

ASSUME ConsumerAssumption ==
    /\ Consumer \cap (Users \cup Locks \cup {"nobody"}) = {}
    /\ Owns \in [Consumer -> SUBSET Line]
    /\ \A c, k \in Consumer : c # k => Owns[c] \cap Owns[k] = {}
ASSUME DeviceAssumption == Devices \subseteq Device
ASSUME RegistersAssumption == Registers \subseteq [Reg -> SUBSET Line] /\ Registers # {}

VARIABLES dev,
          stage, step, undo,   \* the driver core: where it is in probe, what it undoes
          held, devres,        \* what is acquired, and which of it devres releases
          ready,               \* locks, shadows and registers that are initialised
          hw, shadow,          \* the registers, and the copies the driver keeps
          lock,
          at, todo, val,       \* each caller: its next step, its locked sections, its local
          want                 \* what the lines were last told to be

coreVars   == <<stage, step, undo, held, devres, ready>>
callerVars == <<at, todo, val>>
vars == <<dev, coreVars, hw, shadow, lock, callerVars, want>>

\* A section changes registers one after the other, with a lock held or not;
\* a change sets some lines of a register and clears others.
Section(l, changes) == [lock |-> l, changes |-> changes]
Change(reg, high, low) == [reg |-> reg, high |-> high, low |-> low]
Put(reg, l, value) == IF value THEN Change(reg, {l}, {}) ELSE Change(reg, {}, {l})

\* MUTANT: the line is made an output before its value is set.
DirectionOutputMutant(l, value) == <<Section("gpio_lock", <<Put("dir", l, TRUE)>>),
                                     Section("gpio_lock", <<Put("data", l, value)>>)>>

DirectionOutput(l, value) == <<Section("gpio_lock", <<Put("data", l, value)>>),
                               Section("gpio_lock", <<Put("dir", l, TRUE)>>)>>

\* The callbacks recovered from a dat/set/dirout pattern take a lock around a
\* shadow, and so do those of a generic interrupt chip (a masked line's bit is 0).
GpioModelCalls(own) ==
    {<<Section("gpio_lock", <<Change("data", lines \cap bits, lines \ bits)>>)>> :
        lines \in (SUBSET own) \ {{}}, bits \in SUBSET own}
    \cup {DirectionOutput(l, value) : l \in own, value \in BOOLEAN}
    \cup {<<Section("gpio_lock", <<Put("dir", l, FALSE)>>)>> : l \in own}
IrqModelCalls(own) == {<<Section("irq_lock", <<Put("mask", l, value)>>)>> : l \in own, value \in BOOLEAN}
Shadowed(d, reg) == IF reg = "mask" THEN d.irqModel ELSE d.gpioModel /\ reg \in {"data", "dir"}

\* The interrupt callbacks of a banked controller take the lock around a read,
\* a change and a write of each register. irq_set_type refuses some types; of the
\* level and the polarity it changes, in one section and alike, "type" stands for
\* either. irq_ack writes a register that keeps nothing: its section, like that of
\* a refusal, has no change.
BankedCalls(own) ==
    {<<Section("irq_lock", <<Put("mask", l, value)>>)>> : l \in own, value \in BOOLEAN}
    \cup {<<Section("irq_lock", <<Put("enable", l, TRUE), Put("mask", l, FALSE)>>)>> : l \in own}
    \cup {<<Section("irq_lock", <<Put("mask", l, TRUE), Put("enable", l, FALSE)>>)>> : l \in own}
    \cup {<<Section("irq_lock", <<Put("type", l, value)>>)>> : l \in own, value \in BOOLEAN}
    \cup {<<Section("irq_lock", <<>>)>>}

\* Callbacks emitted from a RIS take no lock: the RIS has none.
PlainCalls(reg, own) == {<<Section("no_lock", <<Put(reg, l, value)>>)>> : l \in own, value \in BOOLEAN}

\* The source's own functions are put into the tables after a model's and
\* replace them; those of banked interrupts can be lowered with a lock.
OwnGpio(d) == Bound(d, "gpio_chip") # {}
OwnMask(d) == d.bound \cap ({"irq_chip"} \X {"irq_mask", "irq_unmask", "irq_enable"}) # {}
Lowered(d) == d.banks > 0 /\ d.rebound

When(condition, calls) == IF condition THEN calls ELSE {}
Calls(d, c) ==
    IF c \notin Consumer THEN {<<Section("no_lock", <<>>)>>}
    ELSE When(d.gpioModel, GpioModelCalls(Owns[c])) \cup When(d.irqModel, IrqModelCalls(Owns[c]))
         \cup When(Lowered(d), BankedCalls(Owns[c]))
         \cup When(OwnGpio(d), PlainCalls("data", Owns[c]))
         \cup When(OwnMask(d) /\ ~Lowered(d), PlainCalls("mask", Owns[c]))

\* The registers that every callback changes under a lock.
Locked(d, reg) == IF reg \in {"data", "dir"} THEN d.gpioModel /\ ~OwnGpio(d)
                  ELSE Lowered(d) \/ (reg = "mask" /\ d.irqModel /\ ~OwnMask(d))

\* What must be registered for a caller to call (of a banked controller, the
\* bank that has the interrupts).
Gate(c) == CASE c \in Consumer -> "gpiochip"
             [] c = "interrupt" -> "irq"
             [] c = "file" -> "misc"
             [] c = "clock" -> "clk_hw"
             [] c = "host" -> "host"
InCall(c) == at[c] \notin {"idle", "open"}

Init ==
    /\ dev \in Devices
    /\ stage = "unbound" /\ step = 1 /\ undo = <<>> /\ held = {} /\ devres = <<>> /\ ready = {}
    /\ hw \in Registers /\ shadow = [r \in Reg |-> {}]
    /\ lock = [l \in Locks |-> "nobody"]
    /\ at = [c \in Caller |-> "idle"] /\ todo = [c \in Caller |-> <<>>]
    /\ val = [c \in Caller |-> {}]
    /\ want = [r \in Reg |-> [l \in Line |-> "any"]]
-----------------------------------------------------------------------------
(***************************************************************************)
(* The driver core                                                         *)
(***************************************************************************)
Now == Probe(dev)[step]

Bind ==
    /\ stage = "unbound" /\ at["file"] = "idle"
    /\ stage' = "probing" /\ step' = 1 /\ ready' = {}
    /\ UNCHANGED <<dev, undo, held, devres, hw, shadow, lock, callerVars, want>>

Acquired ==
    /\ stage = "probing" /\ step <= Len(Probe(dev)) /\ Now.does = "acquire"
    /\ held' = held \cup {Now.what}
    /\ devres' = IF Now.devres THEN Append(devres, Now.what) ELSE devres
    /\ step' = step + 1
    /\ UNCHANGED <<dev, stage, undo, ready, hw, shadow, lock, callerVars, want>>

Failed ==
    /\ stage = "probing" /\ step <= Len(Probe(dev)) /\ Now.does = "acquire"
    /\ stage' = "undoing" /\ undo' = Now.undo
    /\ UNCHANGED <<dev, step, held, devres, ready, hw, shadow, lock, callerVars, want>>

\* The RIS operations of probe, the initialisation of a lock (with the mask
\* shadow set to 0), or loading the GPIO shadows from the registers.
Done ==
    /\ stage = "probing" /\ step <= Len(Probe(dev)) /\ Now.does = "do"
    /\ ready' = ready \cup {Now.what} /\ step' = step + 1
    /\ hw' \in IF Now.what = "init" THEN Registers ELSE {hw}
    /\ shadow' = IF Now.what = "gpio_cache" THEN [shadow EXCEPT !["data"] = hw["data"], !["dir"] = hw["dir"]]
                 ELSE shadow
    /\ want' = IF Now.what # "init" THEN want
               ELSE [r \in Reg |-> [l \in Line |->
                        IF dev.irqModel /\ r = "mask" THEN "any" ELSE IF l \in hw'[r] THEN "high" ELSE "low"]]
    /\ UNCHANGED <<dev, stage, undo, held, devres, lock, callerVars>>

Probed == /\ stage = "probing" /\ step > Len(Probe(dev)) /\ stage' = "bound"
          /\ UNCHANGED <<dev, step, undo, held, devres, ready, hw, shadow, lock, callerVars, want>>

Unbind == /\ stage = "bound" /\ stage' = "undoing" /\ undo' = OnRemove(dev)
          /\ UNCHANGED <<dev, step, held, devres, ready, hw, shadow, lock, callerVars, want>>

\* Nobody is in a call that needs what is being released.
Quiet(what) == \A c \in Caller \ {"file"} : what = Gate(c) => ~InCall(c)

Undo ==
    /\ stage = "undoing" /\ undo # <<>> /\ Quiet(Head(undo))
    /\ held' = held \ {Head(undo)} /\ undo' = Tail(undo)
    /\ UNCHANGED <<dev, stage, step, devres, ready, hw, shadow, lock, callerVars, want>>

Undone == /\ stage = "undoing" /\ undo = <<>> /\ stage' = "releasing"
          /\ UNCHANGED <<dev, step, undo, held, devres, ready, hw, shadow, lock, callerVars, want>>

Release ==
    /\ stage = "releasing" /\ devres # <<>> /\ Quiet(devres[Len(devres)])
    /\ held' = held \ {devres[Len(devres)]} /\ devres' = SubSeq(devres, 1, Len(devres) - 1)
    /\ UNCHANGED <<dev, stage, step, undo, ready, hw, shadow, lock, callerVars, want>>

\* The private data, its shadows and locks are gone; the device may be reset.
Released ==
    /\ stage = "releasing" /\ devres = <<>> /\ stage' = "unbound"
    /\ step' = 1 /\ ready' = {} /\ hw' \in Registers
    /\ shadow' = [r \in Reg |-> {}] /\ lock' = [l \in Locks |-> "nobody"]
    /\ want' = [r \in Reg |-> [l \in Line |-> "any"]]
    /\ UNCHANGED <<dev, undo, held, devres, callerVars>>

\* A release that waits for running calls admits no new ones.
Closing == CASE stage = "releasing" /\ devres # <<>> -> devres[Len(devres)]
             [] stage = "undoing" /\ undo # <<>> -> Head(undo)
             [] OTHER -> "nothing"
-----------------------------------------------------------------------------
(***************************************************************************)
(* The callers                                                             *)
(***************************************************************************)
Kept(c, next) == at' = [at EXCEPT ![c] = next]

\* What a call tells the lines to be.
Changes(call) == UNION {{call[i].changes[j] : j \in DOMAIN call[i].changes} : i \in DOMAIN call}
Told(call) ==
    [r \in Reg |-> [l \in Line |->
        IF \E ch \in Changes(call) : ch.reg = r /\ l \in ch.high THEN "high"
        ELSE IF \E ch \in Changes(call) : ch.reg = r /\ l \in ch.low THEN "low"
        ELSE want[r][l]]]

Open == /\ at["file"] = "idle" /\ "misc" \in held
        /\ Kept("file", "open") /\ UNCHANGED <<dev, coreVars, hw, shadow, lock, todo, val, want>>
Close == /\ at["file"] = "open"
         /\ Kept("file", "idle") /\ UNCHANGED <<dev, coreVars, hw, shadow, lock, todo, val, want>>

Enter(c) ==
    /\ IF c = "file" THEN at[c] = "open"
       ELSE at[c] = "idle" /\ Gate(c) \in held \ {Closing}
    /\ \E call \in Calls(dev, c) :
          /\ todo' = [todo EXCEPT ![c] = call]
          /\ want' = Told(call)
    /\ Kept(c, IF c \in Consumer THEN "lock" ELSE "unlock")
    /\ UNCHANGED <<dev, coreVars, hw, shadow, lock, val>>

\* MUTANT: the section is entered although somebody holds the lock.
LockMutant(c) ==
    /\ at[c] = "lock"
    /\ LET l == Head(todo[c]).lock IN
       /\ lock' = IF l \in Locks THEN [lock EXCEPT ![l] = c] ELSE lock
    /\ Kept(c, IF Head(todo[c]).changes = <<>> THEN "unlock" ELSE "read")
    /\ UNCHANGED <<dev, coreVars, hw, shadow, todo, val, want>>

Lock(c) ==
    /\ at[c] = "lock"
    /\ LET l == Head(todo[c]).lock IN
       /\ l \in Locks => lock[l] = "nobody"
       /\ lock' = IF l \in Locks THEN [lock EXCEPT ![l] = c] ELSE lock
    /\ Kept(c, IF Head(todo[c]).changes = <<>> THEN "unlock" ELSE "read")
    /\ UNCHANGED <<dev, coreVars, hw, shadow, todo, val, want>>

\* The shadow, or what the register reads, with the bits changed.
Read(c) ==
    /\ at[c] = "read"
    /\ LET ch  == Head(Head(todo[c]).changes)
           old == IF Shadowed(dev, ch.reg) THEN shadow[ch.reg] ELSE hw[ch.reg]
           new == (old \ ch.low) \cup ch.high
       IN  /\ val' = [val EXCEPT ![c] = new]
           /\ shadow' = IF Shadowed(dev, ch.reg) THEN [shadow EXCEPT ![ch.reg] = new] ELSE shadow
    /\ Kept(c, "write")
    /\ UNCHANGED <<dev, coreVars, hw, lock, todo, want>>

Write(c) ==
    /\ at[c] = "write"
    /\ LET changes == Head(todo[c]).changes
       IN  /\ hw' = [hw EXCEPT ![Head(changes).reg] = val[c]]
           /\ todo' = [todo EXCEPT ![c][1].changes = Tail(changes)]
           /\ Kept(c, IF Len(changes) > 1 THEN "read" ELSE "unlock")
    /\ val' = [val EXCEPT ![c] = {}]
    /\ UNCHANGED <<dev, coreVars, shadow, lock, want>>

\* MUTANT: the callback goes round its locked section for ever.
UnlockMutant(c) ==
    /\ at[c] = "unlock"
    /\ LET l == Head(todo[c]).lock IN
       lock' = IF l \in Locks THEN [lock EXCEPT ![l] = "nobody"] ELSE lock
    /\ Kept(c, "lock")
    /\ UNCHANGED <<dev, coreVars, hw, shadow, todo, val, want>>

Unlock(c) ==
    /\ at[c] = "unlock"
    /\ LET l == Head(todo[c]).lock IN
       lock' = IF l \in Locks THEN [lock EXCEPT ![l] = "nobody"] ELSE lock
    /\ todo' = [todo EXCEPT ![c] = Tail(@)]
    /\ Kept(c, IF Len(todo[c]) > 1 THEN "lock" ELSE IF c = "file" THEN "open" ELSE "idle")
    /\ UNCHANGED <<dev, coreVars, hw, shadow, val, want>>

Go(c) == Lock(c) \/ Read(c) \/ Write(c) \/ Unlock(c)
Core  == Acquired \/ Failed \/ Done \/ Probed \/ Undo \/ Undone \/ Release \/ Released
Next  == Bind \/ Core \/ Unbind \/ Open \/ Close \/ \E c \in Caller : Enter(c) \/ Go(c)

\* The driver core goes on, and a call that has begun ends; nobody has to bind,
\* unbind or call.
Spec == Init /\ [][Next]_vars /\ WF_vars(Core) /\ \A c \in Caller : WF_vars(Go(c))
-----------------------------------------------------------------------------
\* Whichever step of probe fails, and after every remove, all that was acquired
\* is released when the driver core is done with the device ...
NothingLeaks == stage = "unbound" => held = {}

\* ... and nothing is released that is not held (the labels of _emit_pci).
ReleasedOnce == stage = "undoing" /\ undo # <<>> => Head(undo) \in held

\* Every probe and every remove, failed or not, comes out even.
ResourcesBalanced == NothingLeaks /\ ReleasedOnce

\* A callback runs when probe has initialised all it initialises: the registers,
\* the shadows, the locks. (A clock is registered before probe's own accesses,
\* and a file can stay open when the device is gone.)
ReadyBeforeUse ==
    \A c \in Caller \ {"clock", "file"} : InCall(c) =>
        \A i \in DOMAIN Probe(dev) : Probe(dev)[i].does = "do" => Probe(dev)[i].what \in ready

Level(r, l) == IF l \in hw[r] THEN "high" ELSE "low"

\* Lines of other consumers keep their value: between its calls, a consumer's
\* lines are what it last told them to be, or what they were after probe.
NoLostUpdate ==
    \A c \in Consumer, r \in Reg, l \in Line :
        l \in Owns[c] /\ ~InCall(c) /\ "gpiochip" \in held /\ Locked(dev, r) =>
            want[r][l] \in {"any", Level(r, l)}

\* A line is driven only when its value is in the register: a consumer that
\* asks for an output of 1 never sees a 0 first.
ValueBeforeDirection ==
    [][Locked(dev, "data") /\ stage' = stage /\ ready' = ready =>
           \A l \in hw'["dir"] \ hw["dir"] : want["data"][l] = Level("data", l)]_vars

\* On the platform bus, where all is managed, the registers are mapped and the
\* device's memory is there for as long as a callback can run.
Mapped == \A c \in Caller : at[c] \in {"read", "write", "unlock"} => {"priv", "map"} \subseteq held
MappedOnPlatform == dev.bus # "pci" => Mapped

\* A callback never meets a device that is half made or half gone.
UsesAreReady == ReadyBeforeUse /\ MappedOnPlatform

\* A device that is being unbound is let go.
Unbinds == stage = "undoing" ~> stage = "unbound"

\* A module that reports nothing has the code of every function its tables name.
WiredIsDefined == Reported(dev) = {} => Wired(dev) \subseteq Defined(dev)
-----------------------------------------------------------------------------
\* The paper says (paper.tex:426) that PCI devices get a deterministic lifecycle
\* of enable, request, map, unmap and release: no callback runs unmapped.
MappedWhileUsed == dev.bus = "pci" => Mapped
=============================================================================
