-------------------------- MODULE LinuxDriverProofs --------------------------
(***************************************************************************)
(* The safety properties of LinuxDriver for every device the backend can   *)
(* generate for, every number of lines and consumers and whatever the      *)
(* registers hold.                                                         *)
(*                                                                         *)
(* What probe does is a concatenation of optional pieces.  The things it   *)
(* acquires and does come in one fixed order, whatever the device: Rank.   *)
(* That, and the steps each device has, is all that the proofs about the   *)
(* driver core need of Probe.                                              *)
(***************************************************************************)
EXTENDS LinuxDriver, SequenceTheorems, TLAPS

-----------------------------------------------------------------------------
(***************************************************************************)
(* What probe does, in order                                               *)
(***************************************************************************)
Rank(what) ==
    CASE what = "priv" -> 1          [] what = "device" -> 2      [] what = "regions" -> 3
      [] what = "map" -> 4           [] what = "map2" -> 5        [] what = "banks" -> 6
      [] what = "clk" -> 7           [] what = "clk_hw" -> 8      [] what = "clk_provider" -> 9
      [] what = "init" -> 10         [] what = "gpio_lock" -> 11  [] what = "gpio_cache" -> 12
      [] what = "irq_lock" -> 13     [] what = "gpiochip" -> 14   [] what = "gpiochip2" -> 15
      [] what = "irq" -> 16          [] what = "misc" -> 17       [] what = "host" -> 18

\* The steps a probe is made of.
PciSteps ==
    {Managed("priv", <<>>), Acquire("device", <<>>), Acquire("regions", <<"device">>),
     Acquire("map", <<"regions", "device">>), Do("init"), Do("gpio_lock"), Do("gpio_cache"),
     Do("irq_lock"), Managed("gpiochip", PciUnwind), Managed("irq", PciUnwind),
     Acquire("misc", PciUnwind)}
PlatformSteps ==
    {Managed("priv", <<>>), Managed("map", <<>>), Managed("map2", <<>>), Managed("banks", <<>>),
     Managed("clk", <<>>), Managed("clk_hw", <<>>), Managed("clk_provider", <<>>),
     Do("init"), Do("irq_lock"), Managed("gpiochip", <<>>), Managed("gpiochip2", <<>>)}
SdhciSteps ==
    {Managed("priv", <<>>), Managed("map", <<>>), Managed("clk", <<>>), Acquire("host", <<>>)}

\* Steps of S in order of rank, from rank a to below rank b.
Ordered(s, S, a, b) ==
    /\ s \in Seq(S)
    /\ \A i \in 1..Len(s) : Rank(s[i].what) \in a..(b - 1)
    /\ \A i, j \in 1..Len(s) : i < j => Rank(s[i].what) < Rank(s[j].what)

Has(s, x) == \E i \in 1..Len(s) : s[i] = x

LEMMA NoneOrdered ==
  ASSUME NEW S, NEW a \in Nat, NEW b \in Nat
  PROVE  Ordered(<<>>, S, a, b)
BY DEF Ordered

LEMMA OneOrdered ==
  ASSUME NEW S, NEW x \in S, NEW a \in Nat, NEW b \in Nat, Rank(x.what) \in a..(b - 1)
  PROVE  Ordered(<<x>>, S, a, b) /\ Has(<<x>>, x)
BY DEF Ordered, Has

LEMMA IfOrdered ==
  ASSUME NEW S, NEW s, NEW a \in Nat, NEW b \in Nat, NEW condition, Ordered(s, S, a, b)
  PROVE  Ordered(If(condition, s), S, a, b)
BY NoneOrdered DEF If

LEMMA ConcatOrdered ==
  ASSUME NEW S, NEW s, NEW t, NEW a \in Nat, NEW b \in Nat, NEW c \in Nat, a <= b, b <= c,
         Ordered(s, S, a, b), Ordered(t, S, b, c)
  PROVE  Ordered(s \o t, S, a, c)
<1> DEFINE u == s \o t
<1>1. s \in Seq(S) /\ t \in Seq(S)
  BY DEF Ordered
<1>2. /\ u \in Seq(S) /\ Len(u) = Len(s) + Len(t)
      /\ \A i \in 1..Len(u) : u[i] = IF i <= Len(s) THEN s[i] ELSE t[i - Len(s)]
  BY <1>1
<1> HIDE DEF u
<1>3. Len(s) \in Nat /\ Len(t) \in Nat
  BY <1>1
<1>4. ASSUME NEW i \in 1..Len(u)
      PROVE  /\ Rank(u[i].what) \in a..(c - 1)
             /\ i <= Len(s) => u[i] = s[i] /\ i \in 1..Len(s) /\ Rank(u[i].what) < b
             /\ i > Len(s) => /\ u[i] = t[i - Len(s)] /\ i - Len(s) \in 1..Len(t)
                              /\ Rank(u[i].what) >= b
  <2>1. CASE i <= Len(s)
    <3>1. i \in 1..Len(s) /\ u[i] = s[i]
      BY <1>2, <1>3, <2>1
    <3>2. Rank(s[i].what) \in a..(b - 1)
      BY <3>1 DEF Ordered
    <3> QED
      BY <3>1, <3>2, <2>1, <1>3
  <2>2. CASE i > Len(s)
    <3>1. i - Len(s) \in 1..Len(t) /\ u[i] = t[i - Len(s)]
      BY <1>2, <1>3, <2>2
    <3>2. Rank(t[i - Len(s)].what) \in b..(c - 1)
      BY <3>1 DEF Ordered
    <3> QED
      BY <3>1, <3>2, <2>2, <1>3
  <2> QED
    BY <2>1, <2>2, <1>3
<1>5. ASSUME NEW i \in 1..Len(u), NEW j \in 1..Len(u), i < j
      PROVE  Rank(u[i].what) < Rank(u[j].what)
  <2>1. Rank(u[i].what) \in Int /\ Rank(u[j].what) \in Int
    BY <1>4
  <2>2. CASE j <= Len(s)
    <3>1. i <= Len(s)
      BY <1>5, <2>2, <1>3
    <3> QED
      BY <1>4, <2>2, <3>1, <1>5 DEF Ordered
  <2>3. CASE i <= Len(s) /\ j > Len(s)
    BY <1>4, <2>3, <2>1
  <2>4. CASE i > Len(s)
    <3>1. j > Len(s) /\ i - Len(s) < j - Len(s)
      BY <1>5, <2>4, <1>3
    <3> QED
      BY <1>4, <2>4, <3>1 DEF Ordered
  <2> QED
    BY <2>2, <2>3, <2>4, <1>3
<1> QED
  BY <1>2, <1>4, <1>5 DEF Ordered, u

LEMMA ConcatHas ==
  ASSUME NEW S, NEW s \in Seq(S), NEW t \in Seq(S), NEW x
  PROVE  Has(s \o t, x) <=> Has(s, x) \/ Has(t, x)
<1>1. Len(s \o t) = Len(s) + Len(t) /\ Len(s) \in Nat /\ Len(t) \in Nat
  OBVIOUS
<1>2. Has(s, x) => Has(s \o t, x)
  BY <1>1 DEF Has
<1>3. ASSUME Has(t, x) PROVE Has(s \o t, x)
  <2>1. PICK i \in 1..Len(t) : t[i] = x
    BY <1>3 DEF Has
  <2>2. i + Len(s) \in 1..Len(s \o t) /\ (s \o t)[i + Len(s)] = x
    BY <2>1, <1>1
  <2> QED
    BY <2>2 DEF Has
<1>4. ASSUME Has(s \o t, x) PROVE Has(s, x) \/ Has(t, x)
  <2>1. PICK i \in 1..Len(s \o t) : (s \o t)[i] = x
    BY <1>4 DEF Has
  <2>2. CASE i <= Len(s)
    BY <2>1, <2>2, <1>1 DEF Has
  <2>3. CASE i > Len(s)
    <3>1. i - Len(s) \in 1..Len(t) /\ t[i - Len(s)] = x
      BY <2>1, <2>3, <1>1
    <3> QED
      BY <3>1 DEF Has
  <2> QED
    BY <2>2, <2>3, <1>1
<1> QED
  BY <1>2, <1>3, <1>4

LEMMA ConcatHasOrdered ==
  ASSUME NEW S, NEW s, NEW t, NEW a, NEW b, NEW c, NEW e, Ordered(s, S, a, b), Ordered(t, S, c, e)
  PROVE  \A x : Has(s \o t, x) <=> Has(s, x) \/ Has(t, x)
BY ConcatHas DEF Ordered

LEMMA OutOfRank ==
  ASSUME NEW S, NEW s, NEW a, NEW b, NEW x, Ordered(s, S, a, b), Rank(x.what) \notin a..(b - 1)
  PROVE  ~Has(s, x)
BY DEF Ordered, Has

LEMMA Ranks ==
  /\ Rank("priv") = 1       /\ Rank("device") = 2      /\ Rank("regions") = 3
  /\ Rank("map") = 4        /\ Rank("map2") = 5        /\ Rank("banks") = 6
  /\ Rank("clk") = 7        /\ Rank("clk_hw") = 8      /\ Rank("clk_provider") = 9
  /\ Rank("init") = 10      /\ Rank("gpio_lock") = 11  /\ Rank("gpio_cache") = 12
  /\ Rank("irq_lock") = 13  /\ Rank("gpiochip") = 14   /\ Rank("gpiochip2") = 15
  /\ Rank("irq") = 16       /\ Rank("misc") = 17       /\ Rank("host") = 18
BY DEF Rank

LEMMA StepWhat ==
  \A what, label : /\ Managed(what, label).what = what
                  /\ Acquire(what, label).what = what
                  /\ Do(what).what = what
BY DEF Managed, Acquire, Do

LEMMA PieceOrdered ==
  ASSUME NEW S, NEW x \in S, NEW a \in Nat, NEW b \in Nat, Rank(x.what) \in a..(b - 1)
  PROVE  \A condition : /\ Ordered(If(condition, <<x>>), S, a, b)
                        /\ Has(If(condition, <<x>>), x) <=> condition
<1> TAKE condition
<1>1. Ordered(<<x>>, S, a, b) /\ Has(<<x>>, x)
  BY OneOrdered
<1>2. ~Has(<<>>, x)
  BY DEF Has
<1> QED
  BY <1>1, <1>2, IfOrdered DEF If

\* Probe of a PCI device.
LEMMA PciProbeOrdered ==
  ASSUME NEW d
  PROVE  /\ Ordered(PciProbe(d), PciSteps, 1, 19)
         /\ Has(PciProbe(d), Acquire("device", <<>>))
         /\ Has(PciProbe(d), Acquire("regions", <<"device">>))
         /\ Has(PciProbe(d), Acquire("map", <<"regions", "device">>))
         /\ Has(PciProbe(d), Managed("priv", <<>>))
         /\ Has(PciProbe(d), Do("init"))
         /\ HasGpio(d) /\ d.gpioModel => Has(PciProbe(d), Do("gpio_cache"))
         /\ Has(PciProbe(d), Acquire("misc", PciUnwind)) <=> d.edu
<1> DEFINE model == If(d.gpioModel, <<Do("gpio_lock"), Do("gpio_cache")>>)
           irq   == If(d.irqModel, <<Do("irq_lock")>>)
           gpio  == If(HasGpio(d), model \o irq \o <<Managed("gpiochip", PciUnwind)>>)
           handler == If(HasHandler(d), <<Managed("irq", PciUnwind)>>)
           misc  == If(d.edu, <<Acquire("misc", PciUnwind)>>)
<1>1. Ordered(PciMap, PciSteps, 1, 11)
  <2>1. PciMap \in Seq(PciSteps) /\ Len(PciMap) = 5
    BY DEF PciMap, PciSteps
  <2>2. /\ PciMap[1] = Managed("priv", <<>>) /\ PciMap[2] = Acquire("device", <<>>)
        /\ PciMap[3] = Acquire("regions", <<"device">>)
        /\ PciMap[4] = Acquire("map", <<"regions", "device">>) /\ PciMap[5] = Do("init")
    BY DEF PciMap
  <2>3. /\ Rank(PciMap[1].what) = 1 /\ Rank(PciMap[2].what) = 2 /\ Rank(PciMap[3].what) = 3
        /\ Rank(PciMap[4].what) = 4 /\ Rank(PciMap[5].what) = 10
    BY <2>2, Ranks, StepWhat
  <2> HIDE DEF PciMap
  <2> QED
    BY <2>1, <2>3 DEF Ordered
<1>2. /\ Has(PciMap, Managed("priv", <<>>)) /\ Has(PciMap, Acquire("device", <<>>))
      /\ Has(PciMap, Acquire("regions", <<"device">>))
      /\ Has(PciMap, Acquire("map", <<"regions", "device">>)) /\ Has(PciMap, Do("init"))
  <2>1. /\ Len(PciMap) = 5
        /\ PciMap[1] = Managed("priv", <<>>) /\ PciMap[2] = Acquire("device", <<>>)
        /\ PciMap[3] = Acquire("regions", <<"device">>)
        /\ PciMap[4] = Acquire("map", <<"regions", "device">>) /\ PciMap[5] = Do("init")
    BY DEF PciMap
  <2>2. 1 \in 1..5 /\ 2 \in 1..5 /\ 3 \in 1..5 /\ 4 \in 1..5 /\ 5 \in 1..5
    OBVIOUS
  <2> QED
    BY <2>1, <2>2 DEF Has
<1>3. /\ Ordered(model, PciSteps, 11, 13)
      /\ d.gpioModel => Has(model, Do("gpio_cache"))
  <2>1. Ordered(<<Do("gpio_lock"), Do("gpio_cache")>>, PciSteps, 11, 13)
    BY Ranks, StepWhat DEF Ordered, PciSteps
  <2>2. Has(<<Do("gpio_lock"), Do("gpio_cache")>>, Do("gpio_cache"))
    BY DEF Has
  <2> QED
    BY <2>1, <2>2, IfOrdered DEF If
<1>4. Ordered(irq, PciSteps, 13, 14)
  <2>1. Do("irq_lock") \in PciSteps /\ Rank(Do("irq_lock").what) = 13
    BY Ranks, StepWhat DEF PciSteps
  <2> QED
    BY <2>1, PieceOrdered
<1>5. Ordered(<<Managed("gpiochip", PciUnwind)>>, PciSteps, 14, 15)
  <2>1. Managed("gpiochip", PciUnwind) \in PciSteps /\ Rank(Managed("gpiochip", PciUnwind).what) = 14
    BY Ranks, StepWhat DEF PciSteps
  <2> QED
    BY <2>1, OneOrdered
<1>6. Ordered(handler, PciSteps, 15, 17)
  <2>1. Managed("irq", PciUnwind) \in PciSteps /\ Rank(Managed("irq", PciUnwind).what) = 16
    BY Ranks, StepWhat DEF PciSteps
  <2> QED
    BY <2>1, PieceOrdered
<1>7. /\ Ordered(misc, PciSteps, 17, 19)
      /\ Has(misc, Acquire("misc", PciUnwind)) <=> d.edu
  <2>1. Acquire("misc", PciUnwind) \in PciSteps /\ Rank(Acquire("misc", PciUnwind).what) = 17
    BY Ranks, StepWhat DEF PciSteps
  <2> QED
    BY <2>1, PieceOrdered
<1> HIDE DEF model, irq, handler, misc
<1>9. /\ Ordered(model \o irq, PciSteps, 11, 14)
      /\ d.gpioModel => Has(model \o irq, Do("gpio_cache"))
  BY <1>3, <1>4, ConcatOrdered, ConcatHasOrdered
<1>10. /\ Ordered(model \o irq \o <<Managed("gpiochip", PciUnwind)>>, PciSteps, 11, 15)
       /\ d.gpioModel => Has(model \o irq \o <<Managed("gpiochip", PciUnwind)>>, Do("gpio_cache"))
  BY <1>9, <1>5, ConcatOrdered, ConcatHasOrdered
<1>11. /\ Ordered(gpio, PciSteps, 11, 15)
       /\ HasGpio(d) /\ d.gpioModel => Has(gpio, Do("gpio_cache"))
  BY <1>10, IfOrdered DEF If
<1> HIDE DEF gpio
<1>12. PciProbe(d) = PciMap \o gpio \o handler \o misc
  BY DEF PciProbe, gpio, handler, misc, model, irq
<1>13. /\ Ordered(PciMap \o gpio, PciSteps, 1, 15)
       /\ \A x : Has(PciMap \o gpio, x) <=> Has(PciMap, x) \/ Has(gpio, x)
  BY <1>1, <1>11, ConcatOrdered, ConcatHasOrdered
<1>14. /\ Ordered(PciMap \o gpio \o handler, PciSteps, 1, 17)
       /\ \A x : Has(PciMap \o gpio \o handler, x) <=> Has(PciMap \o gpio, x) \/ Has(handler, x)
  BY <1>6, <1>13, ConcatOrdered, ConcatHasOrdered
<1>15. /\ Ordered(PciMap \o gpio \o handler \o misc, PciSteps, 1, 19)
       /\ \A x : Has(PciMap \o gpio \o handler \o misc, x)
                   <=> Has(PciMap \o gpio \o handler, x) \/ Has(misc, x)
  BY <1>7, <1>14, ConcatOrdered, ConcatHasOrdered
<1>16. ~Has(PciMap \o gpio \o handler, Acquire("misc", PciUnwind))
  <2>1. Rank(Acquire("misc", PciUnwind).what) = 17
    BY Ranks, StepWhat
  <2>2. Rank(Acquire("misc", PciUnwind).what) \notin 1..(17 - 1)
    BY <2>1
  <2> QED
    BY <2>2, <1>14, OutOfRank
<1> QED
  BY <1>2, <1>7, <1>11, <1>12, <1>13, <1>14, <1>15, <1>16

\* Probe of a platform device.
LEMMA PlatformProbeOrdered ==
  ASSUME NEW d, d.mapped \in 1..2, d.banks \in 0..2
  PROVE  /\ Ordered(PlatformProbe(d), PlatformSteps, 1, 19)
         /\ Has(PlatformProbe(d), Managed("priv", <<>>))
         /\ Has(PlatformProbe(d), Managed("map", <<>>))
         /\ Has(PlatformProbe(d), Do("init"))
<1> DEFINE priv  == <<Managed("priv", <<>>)>>
           maps  == [i \in 1..d.mapped |-> Managed(IF i = 1 THEN "map" ELSE "map2", <<>>)]
           banks == If(d.banks > 0, <<Managed("banks", <<>>)>>)
           clk   == If(d.clock, <<Managed("clk", <<>>)>>)
           ops   == If(HasClkOps(d), <<Managed("clk_hw", <<>>)>>)
           provider == If(d.clockModel, <<Managed("clk_provider", <<>>)>>)
           init  == <<Do("init")>>
           lk    == If(HasIrq(d), <<Do("irq_lock")>>)
           bank  == [i \in 1..d.banks |-> Managed(Bank(i), <<>>)]
           one   == If(HasGpio(d), <<Managed("gpiochip", <<>>)>>)
           chips == IF d.banks > 0 THEN lk \o bank ELSE one
           S     == PlatformSteps
<1>1. /\ Managed("priv", <<>>) \in S /\ Managed("map", <<>>) \in S /\ Managed("map2", <<>>) \in S
      /\ Managed("banks", <<>>) \in S /\ Managed("clk", <<>>) \in S /\ Managed("clk_hw", <<>>) \in S
      /\ Managed("clk_provider", <<>>) \in S /\ Do("init") \in S /\ Do("irq_lock") \in S
      /\ Managed("gpiochip", <<>>) \in S /\ Managed("gpiochip2", <<>>) \in S
  BY DEF PlatformSteps
<1>2. /\ Rank(Managed("priv", <<>>).what) = 1 /\ Rank(Managed("map", <<>>).what) = 4
      /\ Rank(Managed("map2", <<>>).what) = 5 /\ Rank(Managed("banks", <<>>).what) = 6
      /\ Rank(Managed("clk", <<>>).what) = 7 /\ Rank(Managed("clk_hw", <<>>).what) = 8
      /\ Rank(Managed("clk_provider", <<>>).what) = 9 /\ Rank(Do("init").what) = 10
      /\ Rank(Do("irq_lock").what) = 13 /\ Rank(Managed("gpiochip", <<>>).what) = 14
      /\ Rank(Managed("gpiochip2", <<>>).what) = 15
  BY Ranks, StepWhat
<1> HIDE DEF S
<1>3. Ordered(priv, S, 1, 4) /\ Has(priv, Managed("priv", <<>>))
  BY <1>1, <1>2, OneOrdered
<1>4. Ordered(maps, S, 4, 6) /\ Has(maps, Managed("map", <<>>))
  <2>1. /\ maps \in Seq(S) /\ Len(maps) = d.mapped /\ maps[1] = Managed("map", <<>>)
        /\ \A i \in 1..d.mapped : maps[i] = IF i = 1 THEN Managed("map", <<>>) ELSE Managed("map2", <<>>)
    BY <1>1
  <2> HIDE DEF maps
  <2>2. \A i \in 1..Len(maps) : Rank(maps[i].what) = IF i = 1 THEN 4 ELSE 5
    BY <2>1, <1>2
  <2>3. 1 \in 1..Len(maps) /\ Len(maps) \in 1..2
    BY <2>1
  <2> QED
    BY <2>1, <2>2, <2>3 DEF Ordered, Has
<1>5. Ordered(banks, S, 6, 7) /\ Ordered(clk, S, 7, 8) /\ Ordered(ops, S, 8, 9)
  <2>1. Ordered(banks, S, 6, 7)
    BY <1>1, <1>2, PieceOrdered
  <2>2. Ordered(clk, S, 7, 8)
    BY <1>1, <1>2, PieceOrdered
  <2>3. Ordered(ops, S, 8, 9)
    BY <1>1, <1>2, PieceOrdered
  <2> QED
    BY ONLY <2>1, <2>2, <2>3
<1>6. Ordered(provider, S, 9, 10) /\ Ordered(lk, S, 11, 14) /\ Ordered(one, S, 11, 19)
  <2>1. Ordered(provider, S, 9, 10)
    BY <1>1, <1>2, PieceOrdered
  <2>2. Ordered(lk, S, 11, 14)
    BY <1>1, <1>2, PieceOrdered
  <2>3. Ordered(one, S, 11, 19)
    BY <1>1, <1>2, PieceOrdered
  <2> QED
    BY ONLY <2>1, <2>2, <2>3
<1>7. Ordered(init, S, 10, 11) /\ Has(init, Do("init"))
  BY <1>1, <1>2, OneOrdered
<1>8. Ordered(bank, S, 14, 19)
  <2>1. /\ bank \in Seq(S) /\ Len(bank) = d.banks
        /\ \A i \in 1..d.banks : bank[i] = IF i = 1 THEN Managed("gpiochip", <<>>) ELSE Managed("gpiochip2", <<>>)
    BY <1>1 DEF Bank
  <2> HIDE DEF bank
  <2>2. \A i \in 1..Len(bank) : Rank(bank[i].what) = IF i = 1 THEN 14 ELSE 15
    BY <2>1, <1>2
  <2>3. Len(bank) \in 0..2
    BY <2>1
  <2> QED
    BY <2>1, <2>2, <2>3 DEF Ordered
<1>9. PlatformProbe(d) = priv \o maps \o banks \o clk \o ops \o provider \o init \o chips
  BY DEF PlatformProbe
<1> HIDE DEF priv, maps, banks, clk, ops, provider, init, lk, bank, one
<1>10. Ordered(chips, S, 11, 19)
  BY <1>6, <1>8, ConcatOrdered
<1> HIDE DEF chips
<1>11. /\ Ordered(priv \o maps, S, 1, 6)
       /\ \A x : Has(priv \o maps, x) <=> Has(priv, x) \/ Has(maps, x)
  BY <1>3, <1>4, ConcatOrdered, ConcatHasOrdered
<1>12. /\ Ordered(priv \o maps \o banks, S, 1, 7)
       /\ \A x : Has(priv \o maps \o banks, x) <=> Has(priv \o maps, x) \/ Has(banks, x)
  BY <1>5, <1>11, ConcatOrdered, ConcatHasOrdered
<1>13. /\ Ordered(priv \o maps \o banks \o clk, S, 1, 8)
       /\ \A x : Has(priv \o maps \o banks \o clk, x) <=> Has(priv \o maps \o banks, x) \/ Has(clk, x)
  BY <1>5, <1>12, ConcatOrdered, ConcatHasOrdered
<1>14. /\ Ordered(priv \o maps \o banks \o clk \o ops, S, 1, 9)
       /\ \A x : Has(priv \o maps \o banks \o clk \o ops, x)
                   <=> Has(priv \o maps \o banks \o clk, x) \/ Has(ops, x)
  BY <1>5, <1>13, ConcatOrdered, ConcatHasOrdered
<1>15. /\ Ordered(priv \o maps \o banks \o clk \o ops \o provider, S, 1, 10)
       /\ \A x : Has(priv \o maps \o banks \o clk \o ops \o provider, x)
                   <=> Has(priv \o maps \o banks \o clk \o ops, x) \/ Has(provider, x)
  BY <1>6, <1>14, ConcatOrdered, ConcatHasOrdered
<1>16. /\ Ordered(priv \o maps \o banks \o clk \o ops \o provider \o init, S, 1, 11)
       /\ \A x : Has(priv \o maps \o banks \o clk \o ops \o provider \o init, x)
                   <=> Has(priv \o maps \o banks \o clk \o ops \o provider, x) \/ Has(init, x)
  BY <1>7, <1>15, ConcatOrdered, ConcatHasOrdered
<1>17. /\ Ordered(PlatformProbe(d), S, 1, 19)
       /\ \A x : Has(PlatformProbe(d), x)
                   <=> Has(priv \o maps \o banks \o clk \o ops \o provider \o init, x) \/ Has(chips, x)
  BY <1>9, <1>10, <1>16, ConcatOrdered, ConcatHasOrdered
<1> QED
  BY <1>3, <1>4, <1>7, <1>11, <1>12, <1>13, <1>14, <1>15, <1>16, <1>17 DEF S

\* Probe of an SDHCI host.
LEMMA SdhciProbeOrdered ==
  ASSUME NEW d
  PROVE  /\ Ordered(SdhciProbe(d), SdhciSteps, 1, 19)
         /\ Has(SdhciProbe(d), Managed("priv", <<>>))
         /\ Has(SdhciProbe(d), Managed("map", <<>>))
         /\ Has(SdhciProbe(d), Acquire("host", <<>>))
<1> DEFINE maps == <<Managed("priv", <<>>), Managed("map", <<>>)>>
           clk  == If(d.clock, <<Managed("clk", <<>>)>>)
           host == <<Acquire("host", <<>>)>>
           S    == SdhciSteps
<1>1. /\ Managed("priv", <<>>) \in S /\ Managed("map", <<>>) \in S /\ Managed("clk", <<>>) \in S
      /\ Acquire("host", <<>>) \in S
  BY DEF SdhciSteps
<1>2. /\ Rank(Managed("priv", <<>>).what) = 1 /\ Rank(Managed("map", <<>>).what) = 4
      /\ Rank(Managed("clk", <<>>).what) = 7 /\ Rank(Acquire("host", <<>>).what) = 18
  BY Ranks, StepWhat
<1> HIDE DEF S
<1>3. Ordered(maps, S, 1, 7) /\ Has(maps, Managed("priv", <<>>)) /\ Has(maps, Managed("map", <<>>))
  <2>1. /\ maps \in Seq(S) /\ Len(maps) = 2
        /\ maps[1] = Managed("priv", <<>>) /\ maps[2] = Managed("map", <<>>)
    BY <1>1
  <2> HIDE DEF maps
  <2>2. Rank(maps[1].what) = 1 /\ Rank(maps[2].what) = 4 /\ 1 \in 1..Len(maps) /\ 2 \in 1..Len(maps)
    BY <2>1, <1>2
  <2> QED
    BY <2>1, <2>2 DEF Ordered, Has
<1>4. Ordered(clk, S, 7, 8)
  BY <1>1, <1>2, PieceOrdered
<1>5. Ordered(host, S, 8, 19) /\ Has(host, Acquire("host", <<>>))
  BY <1>1, <1>2, OneOrdered
<1>6. SdhciProbe(d) = maps \o clk \o host
  BY DEF SdhciProbe
<1> HIDE DEF maps, clk, host
<1>7. /\ Ordered(maps \o clk, S, 1, 8)
      /\ \A x : Has(maps \o clk, x) <=> Has(maps, x) \/ Has(clk, x)
  BY <1>3, <1>4, ConcatOrdered, ConcatHasOrdered
<1>8. /\ Ordered(maps \o clk \o host, S, 1, 19)
      /\ \A x : Has(maps \o clk \o host, x) <=> Has(maps \o clk, x) \/ Has(host, x)
  BY <1>5, <1>7, ConcatOrdered, ConcatHasOrdered
<1> QED
  BY <1>3, <1>5, <1>6, <1>7, <1>8 DEF S

-----------------------------------------------------------------------------
(***************************************************************************)
(* What the driver core needs to know of a probe                           *)
(***************************************************************************)
StepsOf(d) == CASE d.bus = "pci" -> PciSteps
                [] d.bus = "sdhci" -> SdhciSteps
                [] d.bus = "platform" -> PlatformSteps

Places(d) == 1..Len(Probe(d))

What == {"priv", "device", "regions", "map", "map2", "banks", "clk", "clk_hw", "clk_provider",
         "init", "gpio_lock", "gpio_cache", "irq_lock", "gpiochip", "gpiochip2", "irq", "misc",
         "host"}

\* What the steps before n acquired for probe to release, and for devres.
Owned(d, n)  == {Probe(d)[i].what : i \in {k \in Places(d) : /\ k < n /\ Probe(d)[k].does = "acquire"
                                                             /\ ~Probe(d)[k].devres}}
Leased(d, n) == {Probe(d)[i].what : i \in {k \in Places(d) : /\ k < n /\ Probe(d)[k].does = "acquire"
                                                             /\ Probe(d)[k].devres}}
\* What they did besides.
Made(d, n)   == {Probe(d)[i].what : i \in {k \in Places(d) : k < n /\ Probe(d)[k].does = "do"}}

Listed(s)   == {s[i] : i \in 1..Len(s)}
Distinct(s) == \A i, j \in 1..Len(s) : s[i] = s[j] => i = j

StepOK(x) == x.does \in {"acquire", "do"} /\ x.what \in What /\ x.undo \in Seq(What)

\* Lists of up to four.
LEMMA ShortLists ==
  /\ Listed(<<>>) = {} /\ Distinct(<<>>)
  /\ \A a : Listed(<<a>>) = {a} /\ Distinct(<<a>>)
  /\ \A a, b : Listed(<<a, b>>) = {a, b} /\ (a # b => Distinct(<<a, b>>))
  /\ \A a, b, c : Listed(<<a, b, c>>) = {a, b, c} /\ (a # b /\ a # c /\ b # c => Distinct(<<a, b, c>>))
  /\ \A a, b, c, e : /\ Listed(<<a, b, c, e>>) = {a, b, c, e}
                     /\ (a # b /\ a # c /\ a # e /\ b # c /\ b # e /\ c # e => Distinct(<<a, b, c, e>>))
<1>1. Listed(<<>>) = {} /\ Distinct(<<>>)
  BY DEF Listed, Distinct
<1>2. \A a : Listed(<<a>>) = {a} /\ Distinct(<<a>>)
  BY DEF Listed, Distinct
<1>3. \A a, b : Listed(<<a, b>>) = {a, b} /\ (a # b => Distinct(<<a, b>>))
  BY DEF Listed, Distinct
<1>4. ASSUME NEW a, NEW b, NEW c
      PROVE  Listed(<<a, b, c>>) = {a, b, c} /\ (a # b /\ a # c /\ b # c => Distinct(<<a, b, c>>))
  <2>1. 1..3 = {1, 2, 3}
    OBVIOUS
  <2> QED
    BY <2>1 DEF Listed, Distinct
<1>5. ASSUME NEW a, NEW b, NEW c, NEW e
      PROVE  /\ Listed(<<a, b, c, e>>) = {a, b, c, e}
             /\ (a # b /\ a # c /\ a # e /\ b # c /\ b # e /\ c # e => Distinct(<<a, b, c, e>>))
  <2>1. 1..4 = {1, 2, 3, 4}
    OBVIOUS
  <2> QED
    BY <2>1 DEF Listed, Distinct
<1> QED
  BY <1>1, <1>2, <1>3, <1>4, <1>5

LEMMA ShortSeqs ==
  ASSUME NEW S
  PROVE  /\ <<>> \in Seq(S)
         /\ \A a \in S : <<a>> \in Seq(S)
         /\ \A a, b \in S : <<a, b>> \in Seq(S)
         /\ \A a, b, c \in S : <<a, b, c>> \in Seq(S)
OBVIOUS

LEMMA UndoLists ==
  /\ <<>> \in Seq(What) /\ <<"device">> \in Seq(What) /\ <<"misc">> \in Seq(What)
  /\ <<"host">> \in Seq(What)
  /\ <<"regions", "device">> \in Seq(What) /\ <<"map", "regions", "device">> \in Seq(What)
<1>1. "device" \in What /\ "misc" \in What /\ "host" \in What /\ "regions" \in What /\ "map" \in What
  BY DEF What
<1> HIDE DEF What
<1> QED
  BY <1>1, ShortSeqs

LEMMA ProbeOrdered ==
  ASSUME NEW d \in Device
  PROVE  Ordered(Probe(d), StepsOf(d), 1, 19)
<1>1. d.bus \in {"pci", "sdhci", "platform"} /\ d.mapped \in 1..2 /\ d.banks \in 0..2
  BY DEF Device, DeviceFields
<1>2. CASE d.bus = "pci"
  BY <1>2, PciProbeOrdered DEF Probe, StepsOf
<1>3. CASE d.bus = "sdhci"
  BY <1>3, SdhciProbeOrdered DEF Probe, StepsOf
<1>4. CASE d.bus = "platform"
  BY <1>1, <1>4, PlatformProbeOrdered DEF Probe, StepsOf
<1> QED
  BY <1>1, <1>2, <1>3, <1>4

LEMMA StepFields ==
  ASSUME NEW d \in Device, NEW x \in StepsOf(d)
  PROVE  /\ StepOK(x)
         /\ x.does = "do" => x.what \in {"init", "gpio_lock", "gpio_cache", "irq_lock"}
         /\ d.bus # "pci" => x.what # "misc"
<1>1. d.bus \in {"pci", "sdhci", "platform"}
  BY DEF Device, DeviceFields
<1>2. /\ PciUnwind \in Seq(What) /\ <<>> \in Seq(What) /\ <<"device">> \in Seq(What)
      /\ <<"regions", "device">> \in Seq(What)
  BY UndoLists DEF PciUnwind
<1>3. CASE d.bus = "pci"
  <2>1. x \in PciSteps
    BY <1>3 DEF StepsOf
  <2>2. StepOK(x)
    <3>1. x.does \in {"acquire", "do"} /\ x.what \in What
      BY <2>1 DEF PciSteps, Managed, Acquire, Do, What
    <3>2. x.undo \in {<<>>, <<"device">>, <<"regions", "device">>, PciUnwind}
      BY <2>1 DEF PciSteps, Managed, Acquire, Do
    <3> QED
      BY <3>1, <3>2, <1>2 DEF StepOK
  <2>3. x.does = "do" => x.what \in {"init", "gpio_lock", "gpio_cache", "irq_lock"}
    BY <2>1 DEF PciSteps, Managed, Acquire, Do
  <2>4. d.bus # "pci" => x.what # "misc"
    BY <1>3, <2>1 DEF PciSteps, Managed, Acquire, Do
  <2> QED
    BY <2>2, <2>3, <2>4
<1>4. CASE d.bus = "sdhci"
  <2>1. x \in SdhciSteps
    BY <1>4 DEF StepsOf
  <2>2. StepOK(x)
    <3>1. x.does \in {"acquire", "do"} /\ x.what \in What
      BY <2>1 DEF SdhciSteps, Managed, Acquire, Do, What
    <3>2. x.undo \in {<<>>, <<"device">>, <<"regions", "device">>, PciUnwind}
      BY <2>1 DEF SdhciSteps, Managed, Acquire, Do
    <3> QED
      BY <3>1, <3>2, <1>2 DEF StepOK
  <2>3. x.does = "do" => x.what \in {"init", "gpio_lock", "gpio_cache", "irq_lock"}
    BY <2>1 DEF SdhciSteps, Managed, Acquire, Do
  <2>4. d.bus # "pci" => x.what # "misc"
    BY <1>4, <2>1 DEF SdhciSteps, Managed, Acquire, Do
  <2> QED
    BY <2>2, <2>3, <2>4
<1>5. CASE d.bus = "platform"
  <2>1. x \in PlatformSteps
    BY <1>5 DEF StepsOf
  <2>2. StepOK(x)
    <3>1. x.does \in {"acquire", "do"} /\ x.what \in What
      BY <2>1 DEF PlatformSteps, Managed, Acquire, Do, What
    <3>2. x.undo \in {<<>>, <<"device">>, <<"regions", "device">>, PciUnwind}
      BY <2>1 DEF PlatformSteps, Managed, Acquire, Do
    <3> QED
      BY <3>1, <3>2, <1>2 DEF StepOK
  <2>3. x.does = "do" => x.what \in {"init", "gpio_lock", "gpio_cache", "irq_lock"}
    BY <2>1 DEF PlatformSteps, Managed, Acquire, Do
  <2>4. d.bus # "pci" => x.what # "misc"
    BY <1>5, <2>1 DEF PlatformSteps, Managed, Acquire, Do
  <2> QED
    BY <2>2, <2>3, <2>4
<1> QED
  BY <1>1, <1>3, <1>4, <1>5

LEMMA ProbeSteps ==
  ASSUME NEW d \in Device
  PROVE  /\ Len(Probe(d)) \in Nat
         /\ \A i \in Places(d) :
               /\ StepOK(Probe(d)[i]) /\ Probe(d)[i] \in StepsOf(d)
               /\ Rank(Probe(d)[i].what) \in 1..18
               /\ Probe(d)[i].does = "do" => Rank(Probe(d)[i].what) \in 10..13
               /\ d.bus # "pci" => Probe(d)[i].what # "misc"
         /\ \A i, j \in Places(d) :
               /\ i < j => Rank(Probe(d)[i].what) < Rank(Probe(d)[j].what)
               /\ Rank(Probe(d)[i].what) < Rank(Probe(d)[j].what) => i < j
               /\ Probe(d)[i].what = Probe(d)[j].what => i = j
<1> DEFINE p == Probe(d)
<1>1. Ordered(p, StepsOf(d), 1, 19)
  BY ProbeOrdered
<1>2. p \in Seq(StepsOf(d))
  BY <1>1 DEF Ordered
<1> HIDE DEF p
<1>3. Len(p) \in Nat /\ \A i \in 1..Len(p) : p[i] \in StepsOf(d)
  BY <1>2
<1> DEFINE r(k) == Rank(p[k].what)
<1>4. /\ \A i \in 1..Len(p) : r(i) \in 1..18
      /\ \A i, j \in 1..Len(p) : i < j => r(i) < r(j)
  BY <1>1 DEF Ordered
<1>6. \A i, j \in 1..Len(p) : p[i].what = p[j].what => r(i) = r(j)
  OBVIOUS
<1> HIDE DEF r
<1>7. \A i, j \in 1..Len(p) :
        /\ i < j => r(i) < r(j)
        /\ r(i) < r(j) => i < j
        /\ p[i].what = p[j].what => i = j
  <2> SUFFICES ASSUME NEW i \in 1..Len(p), NEW j \in 1..Len(p)
               PROVE  /\ i < j => r(i) < r(j)
                      /\ r(i) < r(j) => i < j
                      /\ p[i].what = p[j].what => i = j
    OBVIOUS
  <2>1. i \in Int /\ j \in Int
    BY ONLY i \in 1..Len(p), j \in 1..Len(p)
  <2>2. r(i) \in Int /\ r(j) \in Int
    <3>1. \A x : x \in 1..18 => x \in Int
      OBVIOUS
    <3>2. r(i) \in 1..18 /\ r(j) \in 1..18
      BY ONLY <1>4, i \in 1..Len(p), j \in 1..Len(p)
    <3> QED
      BY ONLY <3>1, <3>2, Zenon
  <2>3. (i < j => r(i) < r(j)) /\ (j < i => r(j) < r(i))
    BY ONLY <1>4, i \in 1..Len(p), j \in 1..Len(p)
  <2>4. p[i].what = p[j].what => r(i) = r(j)
    BY ONLY <1>6, i \in 1..Len(p), j \in 1..Len(p)
  <2> QED
    BY ONLY <2>1, <2>2, <2>3, <2>4
<1>5. ASSUME NEW i \in 1..Len(p)
      PROVE  /\ StepOK(p[i]) /\ p[i] \in StepsOf(d)
             /\ r(i) \in 1..18
             /\ p[i].does = "do" => r(i) \in 10..13
             /\ d.bus # "pci" => p[i].what # "misc"
  <2>1. p[i] \in StepsOf(d)
    BY <1>3
  <2>2. p[i].does = "do" => p[i].what \in {"init", "gpio_lock", "gpio_cache", "irq_lock"}
    BY <2>1, StepFields
  <2>3. p[i].does = "do" => r(i) \in 10..13
    <3>1. \A w \in {"init", "gpio_lock", "gpio_cache", "irq_lock"} : Rank(w) \in 10..13
      BY Ranks
    <3> QED
      BY ONLY <2>2, <3>1 DEF r
  <2>4. StepOK(p[i]) /\ (d.bus # "pci" => p[i].what # "misc")
    BY ONLY <2>1, d \in Device, StepFields
  <2> QED
    BY ONLY <1>4, <2>1, <2>3, <2>4, i \in 1..Len(p)
<1>8. Len(p) \in Nat
  BY <1>3
<1>9. \A i \in 1..Len(p) :
        /\ StepOK(p[i]) /\ p[i] \in StepsOf(d)
        /\ r(i) \in 1..18
        /\ p[i].does = "do" => r(i) \in 10..13
        /\ d.bus # "pci" => p[i].what # "misc"
  BY ONLY <1>5
<1> QED
  BY ONLY <1>7, <1>8, <1>9, Zenon DEF p, Places, r

\* What a failing step undoes is what was acquired before it, each once.
LEMMA Undoes ==
  ASSUME NEW d \in Device, NEW i \in Places(d), Probe(d)[i].does = "acquire"
  PROVE  /\ Probe(d)[i].undo \in Seq(What)
         /\ Distinct(Probe(d)[i].undo)
         /\ Listed(Probe(d)[i].undo) = Owned(d, i)
<1> DEFINE x == Probe(d)[i]
<1>1. d.bus \in {"pci", "sdhci", "platform"}
  BY DEF Device, DeviceFields
<1>2. x \in StepsOf(d) /\ StepOK(x)
  BY ProbeSteps
<1>3. x.undo \in Seq(What)
  BY <1>2 DEF StepOK
<1>4. \A w : w \in Owned(d, i) <=> \E j \in Places(d) : /\ Probe(d)[j].does = "acquire" /\ ~Probe(d)[j].devres
                                                       /\ Probe(d)[j].what = w
                                                       /\ Rank(w) < Rank(x.what)
  BY ProbeSteps DEF Owned
<1> HIDE DEF x
<1>5. CASE d.bus = "pci"
  <2>1. PICK a, b, c \in Places(d) : /\ Probe(d)[a] = Acquire("device", <<>>)
                                     /\ Probe(d)[b] = Acquire("regions", <<"device">>)
                                     /\ Probe(d)[c] = Acquire("map", <<"regions", "device">>)
    <3>1. /\ Has(Probe(d), Acquire("device", <<>>)) /\ Has(Probe(d), Acquire("regions", <<"device">>))
          /\ Has(Probe(d), Acquire("map", <<"regions", "device">>))
      BY <1>5, PciProbeOrdered DEF Probe
    <3> QED
      BY ONLY <3>1 DEF Has, Places
  <2>2. \A y \in PciSteps : y.does = "acquire" /\ ~y.devres
                              => y.what \in {"device", "regions", "map", "misc"}
    BY DEF PciSteps, Managed, Acquire, Do
  <2>3. Rank(x.what) \in 1..17
    BY <1>2, <1>5, Ranks DEF StepsOf, PciSteps, Managed, Acquire, Do
  <2>4. \A w : w \in Owned(d, i) => w \in {"device", "regions", "map"} /\ Rank(w) < Rank(x.what)
    <3> SUFFICES ASSUME NEW w, w \in Owned(d, i)
                 PROVE  w \in {"device", "regions", "map"} /\ Rank(w) < Rank(x.what)
      OBVIOUS
    <3>1. PICK j \in Places(d) : /\ Probe(d)[j].does = "acquire" /\ ~Probe(d)[j].devres
                                 /\ Probe(d)[j].what = w /\ Rank(w) < Rank(x.what)
      BY <1>4
    <3>2. Probe(d)[j] \in StepsOf(d)
      BY ProbeSteps
    <3>3. Probe(d)[j] \in PciSteps
      BY <1>5, <3>2 DEF StepsOf
    <3>4. w \in {"device", "regions", "map", "misc"}
      BY ONLY <2>2, <3>1, <3>3
    <3>5. Rank("misc") = 17
      BY Ranks
    <3>6. w # "misc"
      BY ONLY <2>3, <3>1, <3>5
    <3> QED
      BY ONLY <3>1, <3>4, <3>6
  <2>5. \A w \in {"device", "regions", "map"} : Rank(w) < Rank(x.what) => w \in Owned(d, i)
    <3>1. \A what, label : /\ Acquire(what, label).does = "acquire" /\ ~Acquire(what, label).devres
                           /\ Acquire(what, label).what = what
      BY DEF Acquire
    <3>2. \A w \in {"device", "regions", "map"} :
            \E j \in Places(d) : Probe(d)[j].does = "acquire" /\ ~Probe(d)[j].devres /\ Probe(d)[j].what = w
      BY ONLY <2>1, <3>1
    <3> QED
      BY ONLY <1>4, <3>2
  <2>6. Owned(d, i) = {w \in {"device", "regions", "map"} : Rank(w) < Rank(x.what)}
    BY <2>4, <2>5
  <2> HIDE DEF Owned
  <2>7. x \in PciSteps /\ x.does = "acquire"
    BY <1>2, <1>5 DEF StepsOf, x
  <2>8. \/ x.what \in {"priv", "device"} /\ x.undo = <<>>
        \/ x.what = "regions" /\ x.undo = <<"device">>
        \/ x.what = "map" /\ x.undo = <<"regions", "device">>
        \/ x.what \in {"gpiochip", "irq", "misc"} /\ x.undo = <<"map", "regions", "device">>
    BY <2>7 DEF PciSteps, Managed, Acquire, Do, PciUnwind
  <2>9. CASE x.what \in {"priv", "device"} /\ x.undo = <<>>
    BY <2>6, <2>9, <1>3, Ranks, ShortLists DEF x
  <2>10. CASE x.what = "regions" /\ x.undo = <<"device">>
    BY <2>6, <2>10, <1>3, Ranks, ShortLists DEF x
  <2>11. CASE x.what = "map" /\ x.undo = <<"regions", "device">>
    BY <2>6, <2>11, <1>3, Ranks, ShortLists DEF x
  <2>12. CASE x.what \in {"gpiochip", "irq", "misc"} /\ x.undo = <<"map", "regions", "device">>
    BY <2>6, <2>12, <1>3, Ranks, ShortLists DEF x
  <2> QED
    BY <2>8, <2>9, <2>10, <2>11, <2>12
<1>6. CASE d.bus \in {"sdhci", "platform"}
  <2>1. x.undo = <<>>
    BY <1>2, <1>6 DEF StepsOf, SdhciSteps, PlatformSteps, Managed, Acquire, Do
  <2>2. Rank(x.what) \in 1..18
    BY ProbeSteps DEF x
  <2>3. \A y \in StepsOf(d) : y.does = "acquire" /\ ~y.devres => y.what = "host"
    BY <1>6 DEF StepsOf, SdhciSteps, PlatformSteps, Managed, Acquire, Do
  <2>4. Owned(d, i) = {}
    <3> SUFFICES ASSUME NEW w, w \in Owned(d, i) PROVE FALSE
      OBVIOUS
    <3>1. PICK j \in Places(d) : /\ Probe(d)[j].does = "acquire" /\ ~Probe(d)[j].devres
                                 /\ Probe(d)[j].what = w /\ Rank(w) < Rank(x.what)
      BY <1>4
    <3>2. Probe(d)[j] \in StepsOf(d)
      BY ProbeSteps
    <3>3. w = "host"
      BY ONLY <2>3, <3>1, <3>2
    <3>4. Rank("host") = 18
      BY Ranks
    <3> QED
      BY ONLY <2>2, <3>1, <3>3, <3>4
  <2> QED
    BY <1>3, <2>1, <2>4, ShortLists DEF x
<1> QED
  BY <1>1, <1>5, <1>6

\* Remove undoes what a probe that went through acquired, each once.
LEMMA Removes ==
  ASSUME NEW d \in Device
  PROVE  /\ OnRemove(d) \in Seq(What)
         /\ Distinct(OnRemove(d))
         /\ Listed(OnRemove(d)) = Owned(d, Len(Probe(d)) + 1)
<1>1. d.bus \in {"pci", "sdhci", "platform"}
  BY DEF Device, DeviceFields
<1>2. \A w : w \in Owned(d, Len(Probe(d)) + 1)
               <=> \E j \in Places(d) : /\ Probe(d)[j].does = "acquire" /\ ~Probe(d)[j].devres
                                        /\ Probe(d)[j].what = w
  BY ProbeSteps DEF Owned, Places
<1>3. CASE d.bus = "pci"
  <2>1. PICK a, b, c \in Places(d) : /\ Probe(d)[a] = Acquire("device", <<>>)
                                     /\ Probe(d)[b] = Acquire("regions", <<"device">>)
                                     /\ Probe(d)[c] = Acquire("map", <<"regions", "device">>)
    <3>1. /\ Has(Probe(d), Acquire("device", <<>>)) /\ Has(Probe(d), Acquire("regions", <<"device">>))
          /\ Has(Probe(d), Acquire("map", <<"regions", "device">>))
      BY <1>3, PciProbeOrdered DEF Probe
    <3> QED
      BY ONLY <3>1 DEF Has, Places
  <2>2. \A y \in PciSteps : /\ y.does = "acquire" /\ ~y.devres
                              => y.what \in {"device", "regions", "map", "misc"}
                            /\ y.what = "misc" => y = Acquire("misc", PciUnwind)
    BY DEF PciSteps, Managed, Acquire, Do
  <2>3. d.edu <=> \E j \in Places(d) : Probe(d)[j] = Acquire("misc", PciUnwind)
    BY <1>3, PciProbeOrdered DEF Probe, Has, Places
  <2>4. {"device", "regions", "map"} \subseteq Owned(d, Len(Probe(d)) + 1)
    BY <1>2, <2>1 DEF Acquire
  <2>5. d.edu <=> "misc" \in Owned(d, Len(Probe(d)) + 1)
    <3>1. Acquire("misc", PciUnwind).does = "acquire" /\ ~Acquire("misc", PciUnwind).devres
          /\ Acquire("misc", PciUnwind).what = "misc"
      BY DEF Acquire
    <3> QED
      BY <1>2, <1>3, <2>2, <2>3, <3>1, ProbeSteps DEF StepsOf
  <2>6. \A w \in Owned(d, Len(Probe(d)) + 1) : w \in {"device", "regions", "map", "misc"}
    BY <1>2, <1>3, <2>2, ProbeSteps DEF StepsOf
  <2>7. CASE d.edu
    <3> DEFINE s == <<"misc">> \o PciUnwind
    <3>1. OnRemove(d) = s
      BY <1>3, <2>7 DEF OnRemove, PciRemove, If
    <3>2. <<"misc">> \in Seq(What) /\ PciUnwind \in Seq(What)
      BY UndoLists DEF PciUnwind
    <3>3. /\ s \in Seq(What) /\ Len(s) = 4
          /\ s[1] = "misc" /\ s[2] = "map" /\ s[3] = "regions" /\ s[4] = "device"
      BY <3>2 DEF PciUnwind
    <3> HIDE DEF s
    <3>4. 1..4 = {1, 2, 3, 4}
      OBVIOUS
    <3>5. Distinct(s) /\ Listed(s) = {"device", "regions", "map", "misc"}
      BY <3>3, <3>4 DEF Distinct, Listed
    <3>6. Owned(d, Len(Probe(d)) + 1) = {"device", "regions", "map", "misc"}
      BY <2>4, <2>5, <2>6, <2>7
    <3> QED
      BY <3>1, <3>3, <3>5, <3>6
  <2>8. CASE ~d.edu
    <3>1. OnRemove(d) = <<"map", "regions", "device">>
      BY <1>3, <2>8 DEF OnRemove, PciRemove, PciUnwind, If
    <3>2. Owned(d, Len(Probe(d)) + 1) = {"device", "regions", "map"}
      BY <2>4, <2>5, <2>6, <2>8
    <3>3. 1..3 = {1, 2, 3}
      OBVIOUS
    <3>4. /\ Listed(<<"map", "regions", "device">>) = {"device", "regions", "map"}
          /\ Distinct(<<"map", "regions", "device">>)
      BY <3>3 DEF Listed, Distinct
    <3>5. <<"map", "regions", "device">> \in Seq(What)
      BY UndoLists
    <3> QED
      BY <3>1, <3>2, <3>4, <3>5
  <2> QED
    BY <2>7, <2>8
<1>4. CASE d.bus = "sdhci"
  <2>1. PICK a \in Places(d) : Probe(d)[a] = Acquire("host", <<>>)
    BY <1>4, SdhciProbeOrdered DEF Probe, Has, Places
  <2>2. \A y \in SdhciSteps : y.does = "acquire" /\ ~y.devres => y.what = "host"
    BY DEF SdhciSteps, Managed, Acquire
  <2>3. Owned(d, Len(Probe(d)) + 1) = {"host"}
    <3>1. "host" \in Owned(d, Len(Probe(d)) + 1)
      BY <1>2, <2>1 DEF Acquire
    <3>2. \A w \in Owned(d, Len(Probe(d)) + 1) : w = "host"
      BY <1>2, <1>4, <2>2, ProbeSteps DEF StepsOf
    <3> QED
      BY <3>1, <3>2
  <2>4. OnRemove(d) = <<"host">>
    BY <1>4 DEF OnRemove
  <2> QED
    BY <2>3, <2>4, ShortLists, UndoLists
<1>5. CASE d.bus = "platform"
  <2>1. \A y \in PlatformSteps : ~(y.does = "acquire" /\ ~y.devres)
    BY DEF PlatformSteps, Managed, Do
  <2>2. Owned(d, Len(Probe(d)) + 1) = {}
    BY <1>2, <1>5, <2>1, ProbeSteps DEF StepsOf
  <2>3. OnRemove(d) = <<>>
    BY <1>5 DEF OnRemove
  <2> QED
    BY <2>2, <2>3, ShortLists, UndoLists
<1> QED
  BY <1>1, <1>3, <1>4, <1>5

\* Off the PCI bus the private data and the registers are managed.
LEMMA MapsManaged ==
  ASSUME NEW d \in Device, d.bus # "pci"
  PROVE  \A what \in {"priv", "map"} :
            \E i \in Places(d) : Probe(d)[i] = Managed(what, <<>>)
<1>1. d.bus \in {"sdhci", "platform"} /\ d.mapped \in 1..2 /\ d.banks \in 0..2
  BY DEF Device, DeviceFields
<1>2. CASE d.bus = "sdhci"
  BY <1>2, SdhciProbeOrdered DEF Probe, Has, Places
<1>3. CASE d.bus = "platform"
  BY <1>1, <1>3, PlatformProbeOrdered DEF Probe, Has, Places
<1> QED
  BY <1>1, <1>2, <1>3

LEMMA ListAppend ==
  ASSUME NEW S, NEW s \in Seq(S), NEW x \in S
  PROVE  /\ Append(s, x) \in Seq(S) /\ Listed(Append(s, x)) = Listed(s) \cup {x}
         /\ Len(Append(s, x)) = Len(s) + 1
         /\ \A i \in 1..(Len(s) + 1) : Append(s, x)[i] = IF i <= Len(s) THEN s[i] ELSE x
<1> DEFINE t == Append(s, x)
<1>1. /\ t \in Seq(S) /\ Len(t) = Len(s) + 1 /\ Len(s) \in Nat
      /\ \A i \in 1..(Len(s) + 1) : t[i] = IF i <= Len(s) THEN s[i] ELSE x
  OBVIOUS
<1> HIDE DEF t
<1>2. 1..Len(t) = (1..Len(s)) \cup {Len(s) + 1}
  BY <1>1
<1>3. Listed(t) = Listed(s) \cup {x}
  BY <1>1, <1>2 DEF Listed
<1> QED
  BY <1>1, <1>3 DEF t

LEMMA ListPop ==
  ASSUME NEW S, NEW s \in Seq(S), s # <<>>
  PROVE  /\ Len(s) \in Nat \ {0} /\ 1 \in 1..Len(s) /\ Head(s) = s[1] /\ s[1] \in S
         /\ Tail(s) \in Seq(S) /\ Len(Tail(s)) = Len(s) - 1
         /\ \A i \in 1..(Len(s) - 1) : Tail(s)[i] = s[i + 1]
         /\ Len(s) > 1 <=> Tail(s) # <<>>
<1> DEFINE t == Tail(s)
<1>1. /\ Len(s) \in Nat \ {0} /\ Head(s) = s[1] /\ t \in Seq(S) /\ Len(t) = Len(s) - 1
      /\ \A i \in 1..(Len(s) - 1) : t[i] = s[i + 1]
  OBVIOUS
<1> HIDE DEF t
<1>2. 1 \in 1..Len(s)
  BY <1>1
<1>3. s[1] \in S
  BY <1>2
<1>4. t # <<>> <=> Len(t) # 0
  BY <1>1
<1>5. Len(s) > 1 <=> t # <<>>
  BY <1>1, <1>4
<1> QED
  BY <1>1, <1>2, <1>3, <1>5 DEF t

LEMMA ListTail ==
  ASSUME NEW S, NEW s \in Seq(S), s # <<>>, Distinct(s)
  PROVE  /\ Head(s) \in Listed(s) /\ Tail(s) \in Seq(S) /\ Distinct(Tail(s))
         /\ Listed(Tail(s)) = Listed(s) \ {Head(s)}
<1> DEFINE t == Tail(s)
<1>1. /\ Len(s) \in Nat \ {0} /\ Head(s) = s[1] /\ t \in Seq(S) /\ Len(t) = Len(s) - 1
      /\ \A i \in 1..(Len(s) - 1) : t[i] = s[i + 1]
  OBVIOUS
<1> HIDE DEF t
<1>2. Head(s) \in Listed(s)
  BY <1>1 DEF Listed
<1>3. Distinct(t)
  <2>1. \A i \in 1..Len(t) : i + 1 \in 1..Len(s) /\ t[i] = s[i + 1]
    BY <1>1
  <2>2. \A i, j \in 1..Len(t) : i + 1 = j + 1 => i = j
    BY <1>1
  <2> QED
    BY <2>1, <2>2 DEF Distinct
<1>4. ASSUME NEW w \in Listed(t) PROVE w \in Listed(s) \ {Head(s)}
  <2>1. PICK i \in 1..Len(t) : w = t[i]
    BY <1>4 DEF Listed
  <2>2. i + 1 \in 1..Len(s) /\ w = s[i + 1] /\ i + 1 # 1 /\ 1 \in 1..Len(s)
    BY <1>1, <2>1
  <2>3. w \in Listed(s)
    BY <2>2 DEF Listed
  <2>4. w # s[1]
    BY <2>2 DEF Distinct
  <2> QED
    BY <1>1, <2>3, <2>4
<1>5. ASSUME NEW w \in Listed(s), w # Head(s) PROVE w \in Listed(t)
  <2>1. PICK i \in 1..Len(s) : w = s[i]
    BY <1>5 DEF Listed
  <2>2. i # 1
    BY <1>1, <1>5, <2>1
  <2>3. i - 1 \in 1..Len(t) /\ t[i - 1] = w
    <3>1. i - 1 \in 1..(Len(s) - 1)
      BY <1>1, <2>2
    <3>2. t[i - 1] = s[(i - 1) + 1] /\ (i - 1) + 1 = i
      BY <1>1, <3>1
    <3> QED
      BY <1>1, <2>1, <3>1, <3>2
  <2> QED
    BY <2>3 DEF Listed
<1> QED
  BY <1>1, <1>2, <1>3, <1>4, <1>5 DEF t

\* Lists of things in order of rank.
Rising(s) == \A i, j \in 1..Len(s) : i < j => Rank(s[i]) < Rank(s[j])

LEMMA WhatRanked == \A w \in What : Rank(w) \in 1..18
BY Ranks DEF What

LEMMA ListFront ==
  ASSUME NEW S, NEW s \in Seq(S), s # <<>>
  PROVE  /\ Len(s) \in Nat \ {0} /\ SubSeq(s, 1, Len(s) - 1) \in Seq(S)
         /\ Len(SubSeq(s, 1, Len(s) - 1)) = Len(s) - 1
         /\ \A i \in 1..(Len(s) - 1) : SubSeq(s, 1, Len(s) - 1)[i] = s[i]
<1>1. Len(s) \in Nat \ {0} /\ \A i \in 1..Len(s) : s[i] \in S
  OBVIOUS
<1>2. 1 \in 1..(Len(s) + 1) /\ Len(s) - 1 \in 0..Len(s) /\ Len(s) - 1 >= 1 - 1
  BY <1>1
<1> DEFINE n == Len(s) - 1
<1>3. /\ SubSeq(s, 1, n) \in Seq(S) /\ Len(SubSeq(s, 1, n)) = IF 1 <= n THEN n - 1 + 1 ELSE 0
      /\ \A i \in 1..(n - 1 + 1) : SubSeq(s, 1, n)[i] = s[1 + i - 1]
  BY <1>2, SubSeqProperties
<1> HIDE DEF n
<1>4. n \in Nat
  BY <1>1 DEF n
<1>5. n - 1 + 1 = n /\ \A i \in 1..n : 1 + i - 1 = i
  BY <1>4
<1> DEFINE t == SubSeq(s, 1, n)
<1>6. t \in Seq(S) /\ Len(t) = (IF 1 <= n THEN n ELSE 0) /\ \A i \in 1..n : t[i] = s[i]
  BY <1>3, <1>5
<1> HIDE DEF t
<1>7. Len(t) = n
  BY <1>4, <1>6
<1> QED
  BY <1>1, <1>6, <1>7 DEF n, t

LEMMA RisingFront ==
  ASSUME NEW s \in Seq(What), s # <<>>, Rising(s)
  PROVE  /\ s[Len(s)] \in Listed(s)
         /\ SubSeq(s, 1, Len(s) - 1) \in Seq(What) /\ Rising(SubSeq(s, 1, Len(s) - 1))
         /\ Listed(SubSeq(s, 1, Len(s) - 1)) = Listed(s) \ {s[Len(s)]}
         /\ \A w \in Listed(s) : w = s[Len(s)] \/ Rank(w) < Rank(s[Len(s)])
<1> DEFINE t == SubSeq(s, 1, Len(s) - 1)
           last == s[Len(s)]
<1>1. /\ Len(s) \in Nat \ {0} /\ t \in Seq(What) /\ Len(t) = Len(s) - 1
      /\ \A i \in 1..(Len(s) - 1) : t[i] = s[i]
  BY ListFront
<1> HIDE DEF t
<1>2. \A i \in 1..Len(s) : s[i] \in What
  OBVIOUS
<1>3. last \in Listed(s) /\ Len(s) \in 1..Len(s)
  BY <1>1 DEF Listed
<1>4. ASSUME NEW i \in 1..Len(s), i # Len(s)
      PROVE  Rank(s[i]) < Rank(last) /\ s[i] # last
  <2>1. i < Len(s)
    BY <1>1, <1>4
  <2>2. Rank(s[i]) < Rank(last)
    BY <2>1, <1>3 DEF Rising
  <2>3. Rank(last) \in 1..18
    <3>1. last \in What
      BY <1>2, <1>3
    <3> QED
      BY ONLY <3>1, WhatRanked
  <2>4. s[i] # last
    BY ONLY <2>2, <2>3
  <2> QED
    BY <2>2, <2>4
<1>5. Rising(t)
  <2>1. \A i \in 1..Len(t) : i \in 1..Len(s) /\ t[i] = s[i]
    BY <1>1
  <2> QED
    BY <2>1 DEF Rising
<1>6. ASSUME NEW w \in Listed(s) PROVE w = last \/ Rank(w) < Rank(last)
  BY <1>4 DEF Listed
<1>7. Listed(t) = Listed(s) \ {last}
  <2>1. ASSUME NEW w \in Listed(t) PROVE w \in Listed(s) \ {last}
    <3>1. PICK i \in 1..Len(t) : w = t[i]
      BY <2>1 DEF Listed
    <3>2. i \in 1..Len(s) /\ w = s[i] /\ i # Len(s)
      BY <1>1, <3>1
    <3> QED
      BY <3>2, <1>4 DEF Listed
  <2>2. ASSUME NEW w \in Listed(s), w # last PROVE w \in Listed(t)
    <3>1. PICK i \in 1..Len(s) : w = s[i]
      BY <2>2 DEF Listed
    <3>2. i \in 1..Len(t) /\ w = t[i]
      BY <1>1, <2>2, <3>1
    <3> QED
      BY <3>2 DEF Listed
  <2> QED
    BY <2>1, <2>2
<1> HIDE DEF last
<1> QED
  BY <1>1, <1>3, <1>5, <1>6, <1>7 DEF t, last

\* What one more step adds.
LEMMA OneMore ==
  ASSUME NEW d \in Device, NEW n \in Places(d)
  PROVE  LET x == Probe(d)[n] IN
         /\ Owned(d, n + 1)  = IF x.does = "acquire" /\ ~x.devres THEN Owned(d, n) \cup {x.what}
                               ELSE Owned(d, n)
         /\ Leased(d, n + 1) = IF x.does = "acquire" /\ x.devres THEN Leased(d, n) \cup {x.what}
                               ELSE Leased(d, n)
         /\ Made(d, n + 1)   = IF x.does = "do" THEN Made(d, n) \cup {x.what} ELSE Made(d, n)
<1>1. Len(Probe(d)) \in Nat
  BY ProbeSteps
<1>2. \A k \in Places(d) : k < n + 1 <=> k < n \/ k = n
  BY <1>1 DEF Places
<1> DEFINE p == Probe(d)
           P == Places(d)
<1> HIDE DEF p, P
<1>3. Owned(d, n + 1) = IF p[n].does = "acquire" /\ ~p[n].devres THEN Owned(d, n) \cup {p[n].what}
                        ELSE Owned(d, n)
  <2>1. {k \in P : k < n + 1 /\ p[k].does = "acquire" /\ ~p[k].devres} =
          {k \in P : k < n /\ p[k].does = "acquire" /\ ~p[k].devres}
            \cup (IF p[n].does = "acquire" /\ ~p[n].devres THEN {n} ELSE {})
    BY <1>2 DEF P
  <2> QED
    BY <2>1 DEF Owned, p, P
<1>4. Leased(d, n + 1) = IF p[n].does = "acquire" /\ p[n].devres THEN Leased(d, n) \cup {p[n].what}
                         ELSE Leased(d, n)
  <2>1. {k \in P : k < n + 1 /\ p[k].does = "acquire" /\ p[k].devres} =
          {k \in P : k < n /\ p[k].does = "acquire" /\ p[k].devres}
            \cup (IF p[n].does = "acquire" /\ p[n].devres THEN {n} ELSE {})
    BY <1>2 DEF P
  <2> QED
    BY <2>1 DEF Leased, p, P
<1>5. Made(d, n + 1) = IF p[n].does = "do" THEN Made(d, n) \cup {p[n].what} ELSE Made(d, n)
  <2>1. {k \in P : k < n + 1 /\ p[k].does = "do"} =
          {k \in P : k < n /\ p[k].does = "do"} \cup (IF p[n].does = "do" THEN {n} ELSE {})
    BY <1>2 DEF P
  <2> QED
    BY <2>1 DEF Made, p, P
<1> QED
  BY <1>3, <1>4, <1>5 DEF p

-----------------------------------------------------------------------------
(***************************************************************************)
(* The driver core                                                         *)
(***************************************************************************)
Through(d) == Len(Probe(d)) + 1

Coming == {"probing", "bound"}
Stages == Coming \cup {"unbound", "undoing", "releasing"}

\* What probe itself has to release.
Own == IF stage \in Coming THEN Owned(dev, step)
       ELSE IF stage = "undoing" THEN Listed(undo) ELSE {}

\* All that is held is with devres, in the order in which it was acquired, or is
\* in the list of what is still to be undone.
CoreInv ==
    /\ dev \in Devices /\ stage \in Stages /\ step \in 1..Through(dev)
    /\ undo \in Seq(What) /\ devres \in Seq(What)
    /\ held = Listed(devres) \cup Own
    /\ Rising(devres) /\ Listed(devres) \subseteq Leased(dev, Through(dev))
    /\ stage \in Coming => Listed(devres) = Leased(dev, step)
    /\ stage = "bound" => step = Through(dev)
    /\ stage = "unbound" => devres = <<>>
    /\ stage = "undoing" => Distinct(undo) /\ Listed(undo) \subseteq Owned(dev, Through(dev))

\* What a callback uses is made before its gate opens and is there until the
\* gate is closed.
Gates == {"gpiochip", "irq", "host"}
ReadyInv ==
    /\ stage \in Coming => Made(dev, step) \subseteq ready
    /\ held \cap Gates # {} => Made(dev, Through(dev)) \subseteq ready
MapInv ==
    dev.bus # "pci" =>
        \A w \in held, m \in {"priv", "map"} : Rank(m) < Rank(w) => m \in Listed(devres)

\* A call that runs keeps its gate; there are files on the PCI bus only.
CallInv ==
    /\ at \in [Caller -> {"idle", "open", "lock", "read", "write", "unlock"}]
    /\ \A c \in Caller : at[c] = "open" => c = "file"
    /\ \A c \in Caller \ {"file"} : InCall(c) => Gate(c) \in held
    /\ at["file"] # "idle" => dev.bus = "pci"

LEMMA DeviceOf == CoreInv => dev \in Device
BY DeviceAssumption DEF CoreInv

\* The two lists have nothing in common.
LEMMA Apart ==
  ASSUME NEW d \in Device
  PROVE  /\ Owned(d, Through(d)) \cap Leased(d, Through(d)) = {}
         /\ Through(d) \in Nat \ {0} /\ Places(d) = 1..(Through(d) - 1)
         /\ Owned(d, 1) = {} /\ Leased(d, 1) = {} /\ Made(d, 1) = {}
<1>1. Len(Probe(d)) \in Nat
  BY ProbeSteps
<1>2. Owned(d, Through(d)) \cap Leased(d, Through(d)) = {}
  <2>1. \A i, j \in Places(d) : Probe(d)[i].what = Probe(d)[j].what => i = j
    BY ProbeSteps
  <2> QED
    BY <2>1 DEF Owned, Leased
<1>3. \A i \in Places(d) : ~(i < 1)
  BY <1>1 DEF Places
<1>4. Owned(d, 1) = {} /\ Leased(d, 1) = {} /\ Made(d, 1) = {}
  BY <1>3 DEF Owned, Leased, Made
<1>5. Through(d) \in Nat \ {0} /\ Places(d) = 1..(Through(d) - 1)
  <2> DEFINE n == Len(Probe(d))
  <2>1. n \in Nat
    BY <1>1
  <2> HIDE DEF n
  <2> QED
    BY <2>1 DEF Through, Places, n
<1> QED
  BY <1>2, <1>4, <1>5

\* What is acquired next is new, and comes after all that devres has.
LEMMA Later ==
  ASSUME NEW d \in Device, NEW n \in Places(d)
  PROVE  /\ \A w \in Owned(d, n) \cup Leased(d, n) : Rank(w) < Rank(Probe(d)[n].what)
         /\ Owned(d, n) \subseteq Owned(d, Through(d)) /\ Leased(d, n) \subseteq Leased(d, Through(d))
         /\ Rank(Probe(d)[n].what) > 13 => Made(d, Through(d)) \subseteq Made(d, n)
         /\ \A i \in Places(d) :
               Probe(d)[i].does = "acquire" /\ Probe(d)[i].devres
                 /\ Rank(Probe(d)[i].what) < Rank(Probe(d)[n].what) => Probe(d)[i].what \in Leased(d, n)
<1> DEFINE p == Probe(d)
           P == Places(d)
           r(k) == Rank(p[k].what)
<1>1. n \in Int /\ \A k \in P : k \in Int /\ k < Through(d)
  BY ProbeSteps DEF Places, Through
<1>2. \A i, j \in P : (i < j => r(i) < r(j)) /\ (r(i) < r(j) => i < j)
  BY ProbeSteps
<1>3. \A i \in P : r(i) \in 1..18 /\ (p[i].does = "do" => r(i) \in 10..13)
  BY ProbeSteps
<1>4. \A w \in Owned(d, n) \cup Leased(d, n) : Rank(w) < r(n)
  BY <1>2 DEF Owned, Leased
<1> HIDE DEF p, P
<1>5. Owned(d, n) \subseteq Owned(d, Through(d)) /\ Leased(d, n) \subseteq Leased(d, Through(d))
  BY <1>1 DEF Owned, Leased, p, P
<1>6. r(n) > 13 => Made(d, Through(d)) \subseteq Made(d, n)
  <2> SUFFICES ASSUME r(n) > 13 PROVE Made(d, Through(d)) \subseteq Made(d, n)
    OBVIOUS
  <2>1. \A i \in P : p[i].does = "do" => r(i) < r(n)
    BY <1>3 DEF P
  <2>2. \A i \in P : p[i].does = "do" => i < n
    BY <1>2, <2>1 DEF P
  <2> QED
    BY <2>2 DEF Made, p, P
<1>7. \A i \in P : p[i].does = "acquire" /\ p[i].devres /\ r(i) < r(n) => p[i].what \in Leased(d, n)
  BY <1>2 DEF Leased, p, P
<1> HIDE DEF r
<1> QED
  BY <1>4, <1>5, <1>6, <1>7, Zenon DEF p, P, r

LEMMA AllLeased ==
  ASSUME NEW d \in Device, NEW n
  PROVE  Leased(d, n) \subseteq Leased(d, Through(d))
<1>1. \A k \in Places(d) : k < Through(d)
  BY ProbeSteps DEF Places, Through
<1> QED
  BY <1>1 DEF Leased

LEMMA AppendRising ==
  ASSUME NEW s \in Seq(What), Rising(s), NEW w, \A v \in Listed(s) : Rank(v) < Rank(w)
  PROVE  Rising(Append(s, w))
<1>1. Len(s) \in Nat
  OBVIOUS
<1>2. /\ Len(Append(s, w)) = Len(s) + 1
      /\ \A i \in 1..(Len(s) + 1) : Append(s, w)[i] = IF i <= Len(s) THEN s[i] ELSE w
  BY ListAppend
<1> QED
  BY <1>1, <1>2 DEF Rising, Listed

LEMMA CoreStart == Init => CoreInv
<1> SUFFICES ASSUME Init PROVE CoreInv
  OBVIOUS
<1>1. /\ dev \in Devices /\ stage = "unbound" /\ step = 1 /\ undo = <<>> /\ held = {} /\ devres = <<>>
      /\ dev \in Device
  BY DeviceAssumption DEF Init
<1>2. step \in 1..Through(dev)
  BY <1>1, Apart
<1>3. undo \in Seq(What) /\ devres \in Seq(What) /\ Listed(devres) = {}
  <2>1. <<>> \in Seq(What) /\ Listed(<<>>) = {}
    BY DEF Listed
  <2> QED
    BY ONLY <1>1, <2>1
<1>4. Rising(devres)
  BY <1>1 DEF Rising
<1> QED
  BY <1>1, <1>2, <1>3, <1>4 DEF CoreInv, Own, Coming, Stages

\* The callers leave the driver core alone.
LEMMA CallersStep ==
  Next => \/ UNCHANGED <<dev, coreVars>> \/ Bind \/ Core \/ Unbind
BY DEF Next, Open, Close, Enter, Go, Lock, Read, Write, Unlock

LEMMA BindStep ==
  ASSUME CoreInv, Bind
  PROVE  CoreInv'
<1>1. dev \in Device
  BY DeviceOf
<1>2. Owned(dev, 1) = {} /\ Leased(dev, 1) = {} /\ 1 \in 1..Through(dev)
  BY <1>1, Apart
<1>3. Listed(devres) = {} /\ held = {}
  BY ShortLists DEF CoreInv, Bind, Own, Coming
<1> QED
  BY <1>2, <1>3 DEF CoreInv, Bind, Own, Coming, Stages

LEMMA AcquiredStep ==
  ASSUME CoreInv, Acquired
  PROVE  CoreInv'
<1>1. dev \in Device
  BY DeviceOf
<1>2. step \in Places(dev) /\ step + 1 \in 1..Through(dev)
  <2>1. step \in 1..Through(dev) /\ step <= Len(Probe(dev)) /\ Len(Probe(dev)) \in Nat
    BY <1>1, ProbeSteps DEF CoreInv, Acquired
  <2> QED
    BY <2>1 DEF Through, Places
<1> DEFINE x == Probe(dev)[step]
<1>3. /\ x.does = "acquire" /\ held' = held \cup {x.what} /\ step' = step + 1 /\ UNCHANGED <<dev, stage, undo>>
      /\ devres' = IF x.devres THEN Append(devres, x.what) ELSE devres
      /\ stage = "probing"
  BY DEF Acquired, Now
<1>4. x.what \in What
  BY <1>1, <1>2, ProbeSteps DEF StepOK
<1>5. /\ Owned(dev, step + 1) = IF x.devres THEN Owned(dev, step) ELSE Owned(dev, step) \cup {x.what}
      /\ Leased(dev, step + 1) = IF x.devres THEN Leased(dev, step) \cup {x.what} ELSE Leased(dev, step)
  BY <1>1, <1>2, <1>3, OneMore
<1>6. \A w \in Listed(devres) : Rank(w) < Rank(x.what)
  BY <1>1, <1>2, <1>3, Later DEF CoreInv, Coming
<1>7. /\ devres' \in Seq(What) /\ Rising(devres')
      /\ Listed(devres') = IF x.devres THEN Listed(devres) \cup {x.what} ELSE Listed(devres)
  <2>1. CASE x.devres
    <3>1. Rising(Append(devres, x.what))
      BY <1>4, <1>6, AppendRising DEF CoreInv
    <3> QED
      BY <1>3, <1>4, <2>1, <3>1, ListAppend DEF CoreInv
  <2> QED
    BY <1>3, <2>1 DEF CoreInv
<1>8. Leased(dev, step + 1) \subseteq Leased(dev, Through(dev))
  BY <1>1, <1>2, <1>3, <1>5, Later, AllLeased
<1> HIDE DEF x
<1>9. held' = Listed(devres') \cup Own'
  <2>1. held = Listed(devres) \cup Owned(dev, step) /\ Own' = Owned(dev, step + 1)
    BY <1>3 DEF CoreInv, Own, Coming
  <2> QED
    BY <1>3, <1>5, <1>7, <2>1
<1>10. Listed(devres') = Leased(dev, step + 1)
  BY <1>3, <1>5, <1>7 DEF CoreInv, Coming
<1> QED
  BY <1>2, <1>3, <1>7, <1>8, <1>9, <1>10 DEF CoreInv, Coming

LEMMA FailedStep ==
  ASSUME CoreInv, Failed
  PROVE  CoreInv'
<1>1. dev \in Device
  BY DeviceOf
<1>2. step \in Places(dev)
  <2>1. step \in 1..Through(dev) /\ step <= Len(Probe(dev)) /\ Len(Probe(dev)) \in Nat
    BY <1>1, ProbeSteps DEF CoreInv, Failed
  <2> QED
    BY <2>1 DEF Places
<1>3. /\ undo' = Probe(dev)[step].undo /\ Probe(dev)[step].does = "acquire"
      /\ stage = "probing" /\ stage' = "undoing" /\ UNCHANGED <<dev, step, held, devres>>
  BY DEF Failed, Now
<1>4. undo' \in Seq(What) /\ Distinct(undo') /\ Listed(undo') = Owned(dev, step)
  BY <1>1, <1>2, <1>3, Undoes
<1>5. Owned(dev, step) \subseteq Owned(dev, Through(dev))
  BY <1>1, <1>2, Later
<1> QED
  BY <1>3, <1>4, <1>5 DEF CoreInv, Own, Coming, Stages

LEMMA DoneStep ==
  ASSUME CoreInv, Done
  PROVE  CoreInv'
<1>1. dev \in Device
  BY DeviceOf
<1>2. step \in Places(dev) /\ step + 1 \in 1..Through(dev)
  <2>1. step \in 1..Through(dev) /\ step <= Len(Probe(dev)) /\ Len(Probe(dev)) \in Nat
    BY <1>1, ProbeSteps DEF CoreInv, Done
  <2> QED
    BY <2>1 DEF Through, Places
<1>3. /\ Probe(dev)[step].does = "do" /\ stage = "probing" /\ step' = step + 1
      /\ UNCHANGED <<dev, stage, undo, held, devres>>
  BY DEF Done, Now
<1>4. Owned(dev, step + 1) = Owned(dev, step) /\ Leased(dev, step + 1) = Leased(dev, step)
  BY <1>1, <1>2, <1>3, OneMore
<1> QED
  BY <1>2, <1>3, <1>4 DEF CoreInv, Own, Coming

LEMMA ProbedStep ==
  ASSUME CoreInv, Probed
  PROVE  CoreInv'
<1>1. dev \in Device
  BY DeviceOf
<1>2. step = Through(dev)
  <2>1. step \in 1..Through(dev) /\ step > Len(Probe(dev)) /\ Len(Probe(dev)) \in Nat
    BY <1>1, ProbeSteps DEF CoreInv, Probed
  <2> QED
    BY <2>1 DEF Through
<1> QED
  BY <1>2 DEF Probed, CoreInv, Own, Coming, Stages

LEMMA UnbindStep ==
  ASSUME CoreInv, Unbind
  PROVE  CoreInv'
<1>1. dev \in Device
  BY DeviceOf
<1>2. /\ undo' = OnRemove(dev) /\ stage = "bound" /\ stage' = "undoing"
      /\ UNCHANGED <<dev, step, held, devres>>
  BY DEF Unbind
<1>3. undo' \in Seq(What) /\ Distinct(undo') /\ Listed(undo') = Owned(dev, Through(dev))
  BY <1>1, <1>2, Removes DEF Through
<1> QED
  BY <1>2, <1>3 DEF CoreInv, Own, Coming, Stages

LEMMA UndoStep ==
  ASSUME CoreInv, Undo
  PROVE  CoreInv'
<1>1. dev \in Device
  BY DeviceOf
<1>2. /\ stage = "undoing" /\ undo # <<>> /\ held' = held \ {Head(undo)} /\ undo' = Tail(undo)
      /\ UNCHANGED <<dev, stage, step, devres>>
  BY DEF Undo
<1>3. /\ undo \in Seq(What) /\ Distinct(undo) /\ Listed(undo) \subseteq Owned(dev, Through(dev))
      /\ held = Listed(devres) \cup Listed(undo)
  BY <1>2 DEF CoreInv, Own, Coming
<1>4. /\ Head(undo) \in Listed(undo) /\ undo' \in Seq(What) /\ Distinct(undo')
      /\ Listed(undo') = Listed(undo) \ {Head(undo)}
  BY <1>2, <1>3, ListTail
<1>5. Head(undo) \notin Listed(devres)
  BY <1>1, <1>3, <1>4, Apart DEF CoreInv
<1>6. held' = Listed(devres) \cup Listed(undo')
  BY <1>2, <1>3, <1>4, <1>5
<1> QED
  BY <1>2, <1>3, <1>4, <1>6 DEF CoreInv, Own, Coming

LEMMA UndoneStep ==
  ASSUME CoreInv, Undone
  PROVE  CoreInv'
<1>1. Listed(<<>>) = {}
  BY ShortLists
<1> QED
  BY <1>1 DEF Undone, CoreInv, Own, Coming, Stages

LEMMA ReleaseStep ==
  ASSUME CoreInv, Release
  PROVE  CoreInv'
<1> DEFINE last == devres[Len(devres)]
<1>1. /\ stage = "releasing" /\ devres # <<>> /\ held' = held \ {last}
      /\ devres' = SubSeq(devres, 1, Len(devres) - 1)
      /\ UNCHANGED <<dev, stage, step, undo>>
  BY DEF Release
<1>2. devres \in Seq(What) /\ Rising(devres) /\ held = Listed(devres)
  BY <1>1 DEF CoreInv, Own, Coming
<1>3. devres' \in Seq(What) /\ Rising(devres') /\ Listed(devres') = Listed(devres) \ {last}
  BY <1>1, <1>2, RisingFront
<1>4. held' = Listed(devres')
  BY <1>1, <1>2, <1>3
<1> QED
  BY <1>1, <1>3, <1>4 DEF CoreInv, Own, Coming

LEMMA ReleasedStep ==
  ASSUME CoreInv, Released
  PROVE  CoreInv'
<1>1. 1 \in 1..Through(dev)
  BY DeviceOf, Apart
<1> QED
  BY <1>1 DEF Released, CoreInv, Own, Coming, Stages

LEMMA CoreStep ==
  ASSUME CoreInv, [Next]_vars
  PROVE  CoreInv'
<1>1. CASE UNCHANGED <<dev, coreVars>>
  BY <1>1 DEF coreVars, CoreInv, Own
<1>2. CASE Bind
  BY <1>2, BindStep
<1>3. CASE Core
  BY <1>3, AcquiredStep, FailedStep, DoneStep, ProbedStep, UndoStep, UndoneStep, ReleaseStep,
     ReleasedStep DEF Core
<1>4. CASE Unbind
  BY <1>4, UnbindStep
<1> QED
  BY <1>1, <1>2, <1>3, <1>4, CallersStep DEF vars

\* Whichever step of probe fails and after every remove, what was acquired is
\* released once, by the label it jumps to, by remove or by devres (_emit_pci,
\* _emit_platform).
THEOREM LifecycleBalanced == Spec => []ResourcesBalanced
<1>1. CoreInv => ResourcesBalanced
  <2> SUFFICES ASSUME CoreInv PROVE ResourcesBalanced
    OBVIOUS
  <2>1. NothingLeaks
    BY ShortLists DEF CoreInv, Own, Coming, NothingLeaks
  <2>2. ASSUME stage = "undoing", undo # <<>> PROVE Head(undo) \in held
    BY <2>2, ListTail DEF CoreInv, Own, Coming
  <2> QED
    BY <2>1, <2>2 DEF ResourcesBalanced, ReleasedOnce
<1> QED
  BY <1>1, CoreStart, CoreStep, PTL DEF Spec

-----------------------------------------------------------------------------
(***************************************************************************)
(* Calls and what they need                                                *)
(***************************************************************************)
UseInv == CoreInv /\ ReadyInv /\ MapInv /\ CallInv

LEMMA GateRanks ==
  /\ \A w \in Gates : Rank(w) > 13
  /\ \A c \in Caller \ {"file"} : Gate(c) \in Gates \cup {"clk_hw"} /\ Rank(Gate(c)) > 4
<1>1. \A c \in Caller \ {"file"} : Gate(c) \in {"gpiochip", "irq", "clk_hw", "host"}
  BY DEF Caller, Users, Gate
<1> QED
  BY <1>1, Ranks DEF Gates

\* What is held is acquired by a step of the probe.
LEMMA HeldSteps ==
  ASSUME CoreInv
  PROVE  held \subseteq Owned(dev, Through(dev)) \cup Leased(dev, Through(dev))
<1>1. dev \in Device
  BY DeviceOf
<1>2. \A k \in Places(dev) : k < Through(dev)
  BY <1>1, ProbeSteps DEF Places, Through
<1>3. Owned(dev, step) \subseteq Owned(dev, Through(dev))
  BY <1>2 DEF Owned
<1> QED
  BY <1>3 DEF CoreInv, Own

LEMMA UseStart == Init => UseInv
<1> SUFFICES ASSUME Init PROVE UseInv
  OBVIOUS
<1>1. CoreInv
  BY CoreStart
<1>2. held = {} /\ stage \notin Coming /\ at = [c \in Caller |-> "idle"] /\ "file" \in Caller
  BY DEF Init, Coming, Caller, Users
<1>3. ReadyInv /\ MapInv
  BY <1>2 DEF ReadyInv, MapInv
<1>4. CallInv
  BY <1>2 DEF CallInv, InCall
<1> QED
  BY <1>1, <1>3, <1>4 DEF UseInv

\* The steps of the driver core in which something is given back.
LEMMA GivesBack ==
  ASSUME CoreInv, Undo \/ Release
  PROVE  \E what : /\ Quiet(what) /\ held' = held \ {what}
                   /\ Listed(devres') = Listed(devres) \ {what}
                   /\ \/ what \notin Listed(devres)
                      \/ \A w \in held : w = what \/ Rank(w) < Rank(what)
                   /\ Rank(what) \in Int
                   /\ stage \notin Coming /\ UNCHANGED <<dev, stage, step, ready, at>>
<1>1. dev \in Device
  BY DeviceOf
<1>2. CASE Undo
  <2>1. Head(undo) \in Listed(undo) /\ undo \in Seq(What) /\ undo # <<>> /\ stage = "undoing"
    BY <1>2, ListTail DEF CoreInv, Undo
  <2>2. Head(undo) \notin Listed(devres)
    BY <1>1, <2>1, Apart DEF CoreInv
  <2>3. Rank(Head(undo)) \in Int
    <3>1. Head(undo) \in What
      BY <2>1 DEF Listed
    <3> QED
      BY <3>1, WhatRanked
  <2>4. Quiet(Head(undo)) /\ held' = held \ {Head(undo)} /\ UNCHANGED <<dev, stage, step, ready, at, devres>>
    BY <1>2 DEF Undo, callerVars
  <2> QED
    BY <2>1, <2>2, <2>3, <2>4 DEF Coming
<1>3. CASE Release
  <2> DEFINE last == devres[Len(devres)]
  <2>1. /\ stage = "releasing" /\ devres # <<>> /\ held' = held \ {last} /\ Quiet(last)
        /\ devres' = SubSeq(devres, 1, Len(devres) - 1) /\ UNCHANGED <<dev, stage, step, ready, at>>
    BY <1>3 DEF Release, callerVars
  <2>2. devres \in Seq(What) /\ Rising(devres) /\ held = Listed(devres)
    BY <2>1 DEF CoreInv, Own, Coming
  <2>3. /\ last \in Listed(devres) /\ Listed(devres') = Listed(devres) \ {last}
        /\ \A w \in Listed(devres) : w = last \/ Rank(w) < Rank(last)
    BY <2>1, <2>2, RisingFront
  <2>4. Rank(last) \in Int
    <3>1. last \in What
      BY <2>2, <2>3 DEF Listed
    <3>2. Rank(last) \in 1..18
      BY ONLY <3>1, WhatRanked
    <3> QED
      BY ONLY <3>2
  <2> HIDE DEF last
  <2> QED
    BY <2>1, <2>2, <2>3, <2>4 DEF Coming
<1> QED
  BY <1>2, <1>3

LEMMA ReadyStep ==
  ASSUME CoreInv, ReadyInv, [Next]_vars
  PROVE  ReadyInv'
<1>1. dev \in Device
  BY DeviceOf
<1>2. CASE UNCHANGED <<dev, coreVars>>
  BY <1>2 DEF coreVars, ReadyInv
<1>3. CASE Bind
  <2>1. held' = {} /\ step' = 1 /\ Made(dev, 1) = {} /\ dev' = dev
    BY <1>1, <1>3, Apart, ShortLists DEF Bind, CoreInv, Own, Coming
  <2> QED
    BY <2>1 DEF ReadyInv
<1>4. CASE Acquired
  <2>1. step \in Places(dev)
    <3>1. step \in 1..Through(dev) /\ step <= Len(Probe(dev)) /\ Len(Probe(dev)) \in Nat
      BY <1>1, <1>4, ProbeSteps DEF CoreInv, Acquired
    <3> QED
      BY <3>1 DEF Places
  <2> DEFINE x == Probe(dev)[step]
  <2>2. /\ x.does = "acquire" /\ held' = held \cup {x.what} /\ step' = step + 1
        /\ stage = "probing" /\ UNCHANGED <<dev, stage, ready>>
    BY <1>4 DEF Acquired, Now
  <2>3. Made(dev, step + 1) = Made(dev, step)
    BY <1>1, <2>1, <2>2, OneMore
  <2>4. Made(dev, step) \subseteq ready
    BY <2>2 DEF ReadyInv, Coming
  <2>5. x.what \in Gates => Made(dev, Through(dev)) \subseteq Made(dev, step)
    BY <1>1, <2>1, Later, GateRanks
  <2> HIDE DEF x
  <2> QED
    BY <2>2, <2>3, <2>4, <2>5 DEF ReadyInv
<1>5. CASE Done
  <2>1. step \in Places(dev)
    <3>1. step \in 1..Through(dev) /\ step <= Len(Probe(dev)) /\ Len(Probe(dev)) \in Nat
      BY <1>1, <1>5, ProbeSteps DEF CoreInv, Done
    <3> QED
      BY <3>1 DEF Places
  <2> DEFINE x == Probe(dev)[step]
  <2>2. /\ x.does = "do" /\ ready' = ready \cup {x.what} /\ step' = step + 1
        /\ stage = "probing" /\ UNCHANGED <<dev, stage, held>>
    BY <1>5 DEF Done, Now
  <2>3. Made(dev, step + 1) = Made(dev, step) \cup {x.what}
    BY <1>1, <2>1, <2>2, OneMore
  <2> HIDE DEF x
  <2> QED
    BY <2>2, <2>3 DEF ReadyInv, Coming
<1>6. CASE Failed \/ Probed \/ Unbind \/ Undone
  BY <1>6 DEF Failed, Probed, Unbind, Undone, ReadyInv, Coming
<1>7. CASE Undo \/ Release
  BY <1>7, GivesBack DEF ReadyInv
<1>8. CASE Released
  <2>1. held' = {} /\ stage' \notin Coming
    BY <1>8, ShortLists DEF Released, CoreInv, Own, Coming
  <2> QED
    BY <2>1 DEF ReadyInv
<1> QED
  BY <1>2, <1>3, <1>4, <1>5, <1>6, <1>7, <1>8, CallersStep DEF vars, Core

LEMMA MapStep ==
  ASSUME CoreInv, MapInv, [Next]_vars
  PROVE  MapInv'
<1>1. dev \in Device
  BY DeviceOf
<1>2. CASE Acquired
  <2>1. step \in Places(dev)
    <3>1. step \in 1..Through(dev) /\ step <= Len(Probe(dev)) /\ Len(Probe(dev)) \in Nat
      BY <1>1, <1>2, ProbeSteps DEF CoreInv, Acquired
    <3> QED
      BY <3>1 DEF Places
  <2> DEFINE x == Probe(dev)[step]
  <2>2. /\ held' = held \cup {x.what} /\ stage = "probing" /\ dev' = dev
        /\ devres' = IF x.devres THEN Append(devres, x.what) ELSE devres
    BY <1>2 DEF Acquired, Now
  <2>3. x.what \in What /\ devres \in Seq(What) /\ Listed(devres) = Leased(dev, step)
    BY <1>1, <2>1, <2>2, ProbeSteps DEF StepOK, CoreInv, Coming
  <2>4. Listed(devres) \subseteq Listed(devres')
    BY <2>2, <2>3, ListAppend
  <2>5. dev.bus # "pci" => \A m \in {"priv", "map"} : Rank(m) < Rank(x.what) => m \in Listed(devres)
    <3> SUFFICES ASSUME dev.bus # "pci", NEW m \in {"priv", "map"}, Rank(m) < Rank(x.what)
                 PROVE  m \in Listed(devres)
      OBVIOUS
    <3>1. PICK i \in Places(dev) : Probe(dev)[i] = Managed(m, <<>>)
      BY <1>1, MapsManaged
    <3>2. Probe(dev)[i].does = "acquire" /\ Probe(dev)[i].devres /\ Probe(dev)[i].what = m
      BY <3>1 DEF Managed
    <3> HIDE DEF x
    <3>3. m \in Leased(dev, step)
      BY <1>1, <2>1, <3>2, Later DEF x
    <3> QED
      BY <2>3, <3>3
  <2> HIDE DEF x
  <2> QED
    BY <2>2, <2>4, <2>5 DEF MapInv
<1>3. CASE Undo \/ Release
  <2>1. PICK what : /\ held' = held \ {what} /\ Listed(devres') = Listed(devres) \ {what}
                    /\ what \notin Listed(devres) \/ \A w \in held : w = what \/ Rank(w) < Rank(what)
                    /\ Rank(what) \in Int /\ dev' = dev
    BY <1>3, GivesBack
  <2> SUFFICES ASSUME dev.bus # "pci", NEW w \in held', NEW m \in {"priv", "map"}, Rank(m) < Rank(w)
               PROVE  m \in Listed(devres')
    BY <2>1 DEF MapInv
  <2>2. w \in held /\ w # what /\ m \in Listed(devres)
    BY <2>1 DEF MapInv
  <2>3. CASE what \notin Listed(devres)
    BY <2>1, <2>2, <2>3
  <2>4. CASE Rank(w) < Rank(what)
    <3>1. Rank(m) \in Int /\ Rank(w) \in Int
      <4>1. w \in What /\ m \in What
        BY <1>1, <2>2, HeldSteps, ProbeSteps DEF Owned, Leased, StepOK, What
      <4> QED
        BY <4>1, WhatRanked
    <3>2. m # what
      BY <2>1, <2>4, <3>1
    <3> QED
      BY <2>1, <2>2, <3>2
  <2> QED
    BY <2>1, <2>2, <2>3, <2>4
<1>4. CASE ~(Acquired \/ Undo \/ Release)
  <2>1. UNCHANGED <<dev, held, devres>>
    BY <1>4, CallersStep DEF vars, coreVars, Core, Bind, Failed, Done, Probed, Undone, Released, Unbind
  <2> QED
    BY <2>1 DEF MapInv
<1> QED
  BY <1>2, <1>3, <1>4

LEMMA CallStep ==
  ASSUME CoreInv, CallInv, [Next]_vars
  PROVE  CallInv'
<1>1. dev \in Device
  BY DeviceOf
<1>2. dev' = dev
  BY CallersStep DEF vars, Core, Bind, Unbind, Acquired, Failed, Done, Probed, Undo, Undone, Release, Released
<1>3. "file" \in Caller /\ "file" \notin Consumer
  BY ConsumerAssumption DEF Caller, Users
<1>4. CASE at' = at /\ held \subseteq held'
  BY <1>2, <1>4 DEF CallInv, InCall
<1>5. CASE Undo \/ Release
  <2>1. PICK what : Quiet(what) /\ held' = held \ {what} /\ at' = at
    BY <1>5, GivesBack
  <2> QED
    BY <1>2, <2>1 DEF CallInv, InCall, Quiet
<1>6. CASE Open
  <2>1. dev.bus = "pci"
    <3>1. "misc" \in held
      BY <1>6 DEF Open
    <3> QED
      BY <1>1, <3>1, HeldSteps, ProbeSteps DEF Owned, Leased
  <2>2. at' = [at EXCEPT !["file"] = "open"] /\ held' = held
    BY <1>6 DEF Open, Kept, coreVars
  <2> QED
    BY <1>2, <2>1, <2>2 DEF CallInv, InCall
<1>7. CASE Close
  <2>1. at' = [at EXCEPT !["file"] = "idle"] /\ held' = held
    BY <1>7 DEF Close, Kept, coreVars
  <2> QED
    BY <1>2, <2>1 DEF CallInv, InCall
<1>8. ASSUME NEW c \in Caller, Enter(c) PROVE CallInv'
  <2>1. /\ at' = [at EXCEPT ![c] = IF c \in Consumer THEN "lock" ELSE "unlock"] /\ held' = held
        /\ IF c = "file" THEN at[c] = "open" ELSE Gate(c) \in held
    BY <1>8 DEF Enter, Kept, coreVars
  <2> QED
    BY <1>2, <1>3, <2>1 DEF CallInv, InCall
<1>9. ASSUME NEW c \in Caller, Go(c) PROVE CallInv'
  <2>1. /\ held' = held /\ at[c] \in {"lock", "read", "write", "unlock"}
        /\ \E next \in {"idle", "open", "lock", "read", "write", "unlock"} :
              at' = [at EXCEPT ![c] = next] /\ (next = "open" => c = "file")
    BY <1>9 DEF Go, Lock, Read, Write, Unlock, Kept, coreVars
  <2> QED
    BY <1>2, <2>1 DEF CallInv, InCall
<1>10. Core \/ Bind \/ Unbind => Undo \/ Release \/ (at' = at /\ held \subseteq held')
  BY DEF Core, Bind, Unbind, Acquired, Failed, Done, Probed, Undone, Released, callerVars
<1>11. UNCHANGED vars => at' = at /\ held' = held
  BY DEF vars, coreVars, callerVars
<1> QED
  BY <1>4, <1>5, <1>6, <1>7, <1>8, <1>9, <1>10, <1>11 DEF Next

LEMMA UseStep == UseInv /\ [Next]_vars => UseInv'
BY CoreStep, ReadyStep, MapStep, CallStep DEF UseInv

LEMMA UseAlways == Spec => []UseInv
BY UseStart, UseStep, PTL DEF Spec

\* A callback finds the locks, shadows and registers initialised; and off the PCI
\* bus it finds its device mapped, for devres goes in reverse (_emit_platform).
THEOREM CallbacksMeetReadyDevices == Spec => []UsesAreReady
<1>1. UseInv => UsesAreReady
  <2> SUFFICES ASSUME UseInv PROVE UsesAreReady
    OBVIOUS
  <2>1. dev \in Device
    BY DeviceOf DEF UseInv
  <2>2. ReadyBeforeUse
    <3> SUFFICES ASSUME NEW c \in Caller \ {"clock", "file"}, InCall(c), NEW i \in DOMAIN Probe(dev),
                        Probe(dev)[i].does = "do"
                 PROVE  Probe(dev)[i].what \in ready
      BY DEF ReadyBeforeUse
    <3>1. Gate(c) \in held /\ Gate(c) \in Gates
      BY DEF UseInv, CallInv, Gate, Gates, Caller, Users
    <3>2. Made(dev, Through(dev)) \subseteq ready
      BY <3>1 DEF UseInv, ReadyInv
    <3>3. i \in Places(dev) /\ i < Through(dev)
      <4>1. Probe(dev) \in Seq(StepsOf(dev))
        BY <2>1, ProbeOrdered DEF Ordered
      <4>2. DOMAIN Probe(dev) = 1..Len(Probe(dev)) /\ Len(Probe(dev)) \in Nat
        BY <4>1
      <4> QED
        BY <4>2 DEF Places, Through
    <3> QED
      BY <3>2, <3>3 DEF Made
  <2>3. MappedOnPlatform
    <3> SUFFICES ASSUME dev.bus # "pci", NEW c \in Caller, at[c] \in {"read", "write", "unlock"}
                 PROVE  {"priv", "map"} \subseteq held
      BY DEF MappedOnPlatform, Mapped
    <3>1. c # "file" /\ InCall(c)
      BY DEF UseInv, CallInv, InCall
    <3>2. Gate(c) \in held /\ Rank(Gate(c)) > 4
      BY <3>1, GateRanks DEF UseInv, CallInv
    <3>3. Gate(c) \in {"gpiochip", "irq", "clk_hw", "host"}
      BY <3>1 DEF Caller, Users, Gate
    <3>4. \A m \in {"priv", "map"} : Rank(m) < Rank(Gate(c))
      BY <3>3, Ranks
    <3> QED
      BY <3>2, <3>4 DEF UseInv, MapInv, CoreInv
  <2> QED
    BY <2>2, <2>3 DEF UsesAreReady
<1> QED
  BY <1>1, UseAlways, PTL

-----------------------------------------------------------------------------
(***************************************************************************)
(* Tables and code                                                         *)
(***************************************************************************)
LEMMA TablesOf ==
  ASSUME NEW d \in Device, Reported(d) = {}
  PROVE  Wired(d) \subseteq Defined(d)
<1>1. \A x \in d.bound : x[1] # "file_operations" => x \in Defined(d) /\ x[1] \notin UsbTables
  BY DEF Reported
<1>2. d.irqModel => ModelIrq \subseteq Defined(d)
  BY DEF Defined
<1>3. d.bus \in {"pci", "sdhci", "platform"}
  BY DEF Device, DeviceFields
<1>4. "file_operations" \notin UsbTables \cup {"irq_handler", "gpio_chip", "irq_chip", "dev_pm_ops",
                                               "clk_ops", "gpio_irq_chip", "sdhci_ops"}
  BY DEF UsbTables
<1>5. PciWired(d) \subseteq Defined(d)
  BY <1>1, <1>2, <1>4 DEF PciWired, Bound
<1>6. PlatformWired(d) \subseteq Defined(d)
  BY <1>1, <1>4 DEF PlatformWired, Bound
<1>7. Bound(d, "sdhci_ops") \subseteq Defined(d)
  BY <1>1, <1>4 DEF Bound
<1> QED
  BY <1>3, <1>5, <1>6, <1>7 DEF Wired

\* A module without a REHARNESS_UNSUPPORTED comment has the code of every function
\* that its tables name (_callback_signature, _emit_pci, _emit_platform).
THEOREM TablesAreDefined == Spec => []WiredIsDefined
<1>1. UseInv => WiredIsDefined
  BY DeviceOf, TablesOf DEF UseInv, WiredIsDefined
<1> QED
  BY <1>1, UseAlways, PTL

-----------------------------------------------------------------------------
(***************************************************************************)
(* What calls look like                                                    *)
(***************************************************************************)
LockOf(r) == IF r \in {"data", "dir"} THEN "gpio_lock" ELSE "irq_lock"

\* A call changes its consumer's lines; a register that all change under a lock
\* it changes under that lock, each register in one change, data before others.
ChangesOf(c) == {ch \in [reg : Reg, high : SUBSET Owns[c], low : SUBSET Owns[c]] : ch.high \cap ch.low = {}}
SectionsOf(d, c) ==
    {s \in [lock : Locks \cup {"no_lock"}, changes : Seq(ChangesOf(c))] :
        \A j \in 1..Len(s.changes) : Locked(d, s.changes[j].reg) => s.lock = LockOf(s.changes[j].reg)}
Single(call)    == \A ch, ck \in Changes(call) : ch.reg = ck.reg => ch = ck
DataFirst(call) == \A i \in 1..Len(call) : \A j \in 1..Len(call[i].changes) :
                      call[i].changes[j].reg = "data" => i = 1 /\ j = 1
CallsOf(d, c) == {call \in Seq(SectionsOf(d, c)) : Single(call) /\ DataFirst(call)}

LEMMA ChangesAre ==
  ASSUME NEW call, DOMAIN call = 1..Len(call),
         \A i \in 1..Len(call) : DOMAIN call[i].changes = 1..Len(call[i].changes)
  PROVE  \A ch : ch \in Changes(call)
                   <=> \E i \in 1..Len(call) : \E j \in 1..Len(call[i].changes) : ch = call[i].changes[j]
<1>3. ASSUME NEW ch \in Changes(call)
      PROVE  \E i \in 1..Len(call) : \E j \in 1..Len(call[i].changes) : ch = call[i].changes[j]
  <2>1. PICK i \in DOMAIN call : ch \in {call[i].changes[j] : j \in DOMAIN call[i].changes}
    BY <1>3 DEF Changes
  <2> QED
    BY <2>1
<1>4. ASSUME NEW i \in 1..Len(call), NEW j \in 1..Len(call[i].changes)
      PROVE  call[i].changes[j] \in Changes(call)
  <2>1. i \in DOMAIN call /\ j \in DOMAIN call[i].changes
    OBVIOUS
  <2> QED
    BY <2>1 DEF Changes
<1> QED
  BY <1>3, <1>4

LEMMA ChangesOfCall ==
  ASSUME NEW d, NEW c, NEW call \in Seq(SectionsOf(d, c))
  PROVE  /\ \A i \in 1..Len(call) : call[i].changes \in Seq(ChangesOf(c))
         /\ \A ch : ch \in Changes(call)
                      <=> \E i \in 1..Len(call) : \E j \in 1..Len(call[i].changes) : ch = call[i].changes[j]
<1> DEFINE C == ChangesOf(c)
           S == SectionsOf(d, c)
<1> HIDE DEF C
<1>1. \A s \in S : s.changes \in Seq(C)
  BY DEF SectionsOf, C
<1> HIDE DEF S
<1>2. call \in Seq(S)
  BY DEF S
<1>3. DOMAIN call = 1..Len(call) /\ \A i \in 1..Len(call) : call[i] \in S
  BY <1>2
<1>4. \A i \in 1..Len(call) : call[i].changes \in Seq(C)
  BY <1>1, <1>3
<1>5. \A i \in 1..Len(call) : DOMAIN call[i].changes = 1..Len(call[i].changes)
  BY <1>4
<1> QED
  BY <1>3, <1>4, <1>5, ChangesAre DEF C

LEMMA SectionIs ==
  \A l, changes : Section(l, changes).lock = l /\ Section(l, changes).changes = changes
BY DEF Section

LEMMA PutIs ==
  ASSUME NEW c \in Consumer, NEW l \in Owns[c], NEW reg \in Reg, NEW value
  PROVE  Put(reg, l, value) \in ChangesOf(c) /\ Put(reg, l, value).reg = reg
<1>1. CASE value
  BY <1>1 DEF Put, Change, ChangesOf
<1>2. CASE ~value
  BY <1>2 DEF Put, Change, ChangesOf
<1> QED
  BY <1>1, <1>2

LEMMA SectionOf ==
  ASSUME NEW d, NEW c, NEW l \in Locks \cup {"no_lock"}, NEW changes \in Seq(ChangesOf(c)),
         \A j \in 1..Len(changes) : Locked(d, changes[j].reg) => l = LockOf(changes[j].reg)
  PROVE  Section(l, changes) \in SectionsOf(d, c)
<1> DEFINE C == ChangesOf(c)
<1> HIDE DEF C
<1>1. [lock |-> l, changes |-> changes] \in [lock : Locks \cup {"no_lock"}, changes : Seq(C)]
  BY DEF C
<1> QED
  BY <1>1, SectionIs DEF SectionsOf, Section, C

LEMMA EmptyCall ==
  ASSUME NEW d, NEW c, NEW l \in Locks \cup {"no_lock"}
  PROVE  <<Section(l, <<>>)>> \in CallsOf(d, c)
<1> DEFINE s == Section(l, <<>>)
<1>1. s \in SectionsOf(d, c)
  <2> DEFINE changes == <<>>
  <2>1. changes \in Seq(ChangesOf(c)) /\ \A j \in 1..Len(changes) : FALSE
    OBVIOUS
  <2> HIDE DEF changes
  <2>2. Section(l, changes) \in SectionsOf(d, c)
    BY <2>1, SectionOf
  <2> QED
    BY <2>2 DEF changes
<1>2. s.changes = <<>>
  BY SectionIs
<1> HIDE DEF s
<1>3. <<s>> \in Seq(SectionsOf(d, c))
  BY <1>1
<1>4. Changes(<<s>>) = {} /\ DataFirst(<<s>>)
  BY <1>2 DEF Changes, DataFirst
<1> QED
  BY <1>3, <1>4 DEF CallsOf, Single, s

LEMMA OneSection ==
  ASSUME NEW d, NEW c, NEW l \in Locks \cup {"no_lock"}, NEW ch \in ChangesOf(c),
         Locked(d, ch.reg) => l = LockOf(ch.reg)
  PROVE  Section(l, <<ch>>) \in SectionsOf(d, c)
<1> DEFINE changes == <<ch>>
<1>1. changes \in Seq(ChangesOf(c)) /\ Len(changes) = 1 /\ changes[1] = ch
  OBVIOUS
<1> HIDE DEF changes
<1>2. \A j \in 1..Len(changes) : Locked(d, changes[j].reg) => l = LockOf(changes[j].reg)
  BY <1>1
<1>3. Section(l, changes) \in SectionsOf(d, c)
  BY <1>1, <1>2, SectionOf
<1> QED
  BY <1>3 DEF changes

LEMMA OneChangeCall ==
  ASSUME NEW d, NEW c, NEW l \in Locks \cup {"no_lock"}, NEW ch \in ChangesOf(c),
         Locked(d, ch.reg) => l = LockOf(ch.reg)
  PROVE  <<Section(l, <<ch>>)>> \in CallsOf(d, c)
<1> DEFINE s == Section(l, <<ch>>)
<1>1. s \in SectionsOf(d, c) /\ s.changes = <<ch>>
  BY OneSection, SectionIs
<1> HIDE DEF s
<1>2. <<s>> \in Seq(SectionsOf(d, c))
  BY <1>1
<1>3. Changes(<<s>>) = {ch} /\ DataFirst(<<s>>)
  BY <1>1 DEF Changes, DataFirst
<1> QED
  BY <1>2, <1>3 DEF CallsOf, Single, s

LEMMA TwoChangesCall ==
  ASSUME NEW d, NEW c, NEW l \in Locks \cup {"no_lock"}, NEW ch \in ChangesOf(c), NEW ck \in ChangesOf(c),
         Locked(d, ch.reg) => l = LockOf(ch.reg), Locked(d, ck.reg) => l = LockOf(ck.reg),
         ch.reg # ck.reg, ck.reg # "data"
  PROVE  /\ <<Section(l, <<ch, ck>>)>> \in CallsOf(d, c)
         /\ <<Section(l, <<ch>>), Section(l, <<ck>>)>> \in CallsOf(d, c)
<1>1. <<Section(l, <<ch, ck>>)>> \in CallsOf(d, c)
  <2> DEFINE s == Section(l, <<ch, ck>>)
             changes == <<ch, ck>>
  <2>1. changes \in Seq(ChangesOf(c)) /\ Len(changes) = 2 /\ changes[1] = ch /\ changes[2] = ck
    OBVIOUS
  <2> HIDE DEF changes
  <2>6. \A j \in 1..Len(changes) : Locked(d, changes[j].reg) => l = LockOf(changes[j].reg)
    BY <2>1
  <2>2. Section(l, changes) \in SectionsOf(d, c)
    BY <2>1, <2>6, SectionOf
  <2>3. s \in SectionsOf(d, c) /\ s.changes = <<ch, ck>>
    BY <2>2, SectionIs DEF changes
  <2> HIDE DEF s
  <2>4. <<s>> \in Seq(SectionsOf(d, c))
    BY <2>3
  <2>5. Changes(<<s>>) = {ch, ck} /\ DataFirst(<<s>>)
    BY <2>3 DEF Changes, DataFirst
  <2> QED
    BY <2>4, <2>5 DEF CallsOf, Single, s
<1>2. <<Section(l, <<ch>>), Section(l, <<ck>>)>> \in CallsOf(d, c)
  <2> DEFINE s == Section(l, <<ch>>)
             t == Section(l, <<ck>>)
  <2>1. /\ s \in SectionsOf(d, c) /\ s.changes = <<ch>>
        /\ t \in SectionsOf(d, c) /\ t.changes = <<ck>>
    BY OneSection, SectionIs
  <2> HIDE DEF s, t
  <2>2. <<s, t>> \in Seq(SectionsOf(d, c))
    BY <2>1
  <2>3. Changes(<<s, t>>) = {ch, ck} /\ DataFirst(<<s, t>>)
    BY <2>1 DEF Changes, DataFirst
  <2> QED
    BY <2>2, <2>3 DEF CallsOf, Single, s, t
<1> QED
  BY <1>1, <1>2

LEMMA CallParts ==
  ASSUME NEW d, NEW c, NEW call \in CallsOf(d, c)
  PROVE  /\ call \in Seq(SectionsOf(d, c)) /\ Len(call) \in Nat
         /\ \A i \in 1..Len(call) :
               /\ call[i] \in SectionsOf(d, c) /\ call[i].changes \in Seq(ChangesOf(c))
               /\ \A j \in 1..Len(call[i].changes) :
                     /\ call[i].changes[j] \in ChangesOf(c)
                     /\ Locked(d, call[i].changes[j].reg) => call[i].lock = LockOf(call[i].changes[j].reg)
         /\ \A ch : ch \in Changes(call)
                      <=> \E i \in 1..Len(call) : \E j \in 1..Len(call[i].changes) : ch = call[i].changes[j]
         /\ Changes(call) \subseteq ChangesOf(c)
<1>1. call \in Seq(SectionsOf(d, c)) /\ Len(call) \in Nat /\ \A i \in 1..Len(call) : call[i] \in SectionsOf(d, c)
  BY DEF CallsOf
<1> DEFINE C == ChangesOf(c)
<1> HIDE DEF C
<1>2. \A s \in SectionsOf(d, c) :
         /\ s.changes \in Seq(C)
         /\ \A j \in 1..Len(s.changes) : Locked(d, s.changes[j].reg) => s.lock = LockOf(s.changes[j].reg)
  BY DEF SectionsOf, C
<1>3. \A s \in SectionsOf(d, c) : \A j \in 1..Len(s.changes) : s.changes[j] \in C
  BY <1>2
<1>4. \A ch : ch \in Changes(call)
                <=> \E i \in 1..Len(call) : \E j \in 1..Len(call[i].changes) : ch = call[i].changes[j]
  BY <1>1, ChangesOfCall
<1>5. Changes(call) \subseteq C
  BY <1>1, <1>3, <1>4
<1> QED
  BY <1>1, <1>2, <1>3, <1>4, <1>5 DEF C

\* The change a caller is at.
LEMMA FirstChange ==
  ASSUME NEW d, NEW c, NEW call \in CallsOf(d, c), call # <<>>, Head(call).changes # <<>>
  PROVE  LET ch == Head(Head(call).changes) IN
         /\ ch \in Changes(call) /\ ch \in ChangesOf(c)
         /\ Locked(d, ch.reg) => Head(call).lock = LockOf(ch.reg)
         /\ ch.reg = "dir" => \A ck \in Changes(call) : ck.reg # "data"
<1>1. 1 \in 1..Len(call) /\ Head(call) = call[1]
  <2>1. call \in Seq(SectionsOf(d, c))
    BY CallParts
  <2> QED
    BY <2>1
<1> DEFINE s == call[1].changes
<1>2. s \in Seq(ChangesOf(c)) /\ s # <<>>
  BY <1>1, CallParts
<1>3. 1 \in 1..Len(s) /\ Head(s) = s[1]
  BY <1>2
<1>4. /\ s[1] \in ChangesOf(c) /\ s[1] \in Changes(call)
      /\ Locked(d, s[1].reg) => call[1].lock = LockOf(s[1].reg)
  BY <1>1, <1>3, CallParts
<1>5. ASSUME s[1].reg = "dir", NEW ck \in Changes(call) PROVE ck.reg # "data"
  <2>1. PICK i \in 1..Len(call) : \E j \in 1..Len(call[i].changes) : ck = call[i].changes[j]
    BY CallParts
  <2>2. PICK j \in 1..Len(call[i].changes) : ck = call[i].changes[j]
    BY <2>1
  <2>3. call[i].changes[j].reg = "data" => i = 1 /\ j = 1
    BY DEF CallsOf, DataFirst
  <2> QED
    BY <1>5, <2>2, <2>3
<1> HIDE DEF s
<1> QED
  BY <1>1, <1>3, <1>4, <1>5 DEF s

LEMMA PopSection ==
  ASSUME NEW d, NEW c, NEW call \in CallsOf(d, c), call # <<>>, Head(call).changes = <<>>
  PROVE  /\ Tail(call) \in CallsOf(d, c) /\ Changes(Tail(call)) = Changes(call)
         /\ Len(call) > 1 <=> Tail(call) # <<>>
<1> DEFINE rest == Tail(call)
           S == SectionsOf(d, c)
<1> HIDE DEF S
<1>1. /\ call \in Seq(S)
      /\ \A s \in S : s.changes \in Seq(ChangesOf(c))
  BY CallParts DEF S, SectionsOf
<1>2. /\ rest \in Seq(S) /\ Len(call) \in Nat \ {0} /\ Len(rest) = Len(call) - 1
      /\ \A i \in 1..(Len(call) - 1) : rest[i] = call[i + 1]
      /\ Head(call) = call[1]
  BY <1>1
<1>8. Len(call) > 1 <=> rest # <<>>
  BY <1>1, ListPop
<1> HIDE DEF rest
<1>3. \A i \in 1..Len(rest) : i + 1 \in 1..Len(call) /\ rest[i] = call[i + 1] /\ i + 1 # 1
  BY <1>2
<1>4. \A i \in 1..Len(call) : i = 1 \/ (i - 1 \in 1..Len(rest) /\ call[i] = rest[i - 1])
  <2> SUFFICES ASSUME NEW i \in 1..Len(call), i # 1 PROVE i - 1 \in 1..Len(rest) /\ call[i] = rest[i - 1]
    OBVIOUS
  <2>1. i - 1 \in 1..(Len(call) - 1) /\ (i - 1) + 1 = i
    BY <1>2
  <2> QED
    BY <1>2, <2>1
<1>5. Changes(rest) = Changes(call)
  <2>6. rest \in Seq(SectionsOf(d, c))
    BY <1>2 DEF S
  <2>1. \A ch : ch \in Changes(rest)
                  <=> \E i \in 1..Len(rest) : \E j \in 1..Len(rest[i].changes) : ch = rest[i].changes[j]
    BY <2>6, ChangesOfCall
  <2>2. \A ch : ch \in Changes(call)
                  <=> \E i \in 1..Len(call) : \E j \in 1..Len(call[i].changes) : ch = call[i].changes[j]
    BY ONLY CallParts, call \in CallsOf(d, c)
  <2>3. \A j \in 1..Len(call[1].changes) : FALSE
    BY <1>2
  <2>4. ASSUME NEW ch \in Changes(rest) PROVE ch \in Changes(call)
    <3>1. PICK i \in 1..Len(rest) : \E j \in 1..Len(rest[i].changes) : ch = rest[i].changes[j]
      BY <2>1
    <3>2. i + 1 \in 1..Len(call) /\ rest[i] = call[i + 1]
      BY <1>3
    <3> QED
      BY ONLY <2>2, <3>1, <3>2
  <2>5. ASSUME NEW ch \in Changes(call) PROVE ch \in Changes(rest)
    <3>1. PICK i \in 1..Len(call) : \E j \in 1..Len(call[i].changes) : ch = call[i].changes[j]
      BY <2>2
    <3>2. i # 1
      BY <2>3, <3>1
    <3> QED
      BY <1>4, <2>1, <3>1, <3>2
  <2> QED
    BY <2>4, <2>5
<1>6. DataFirst(rest)
  <2>1. \A i \in 1..Len(call) : \A j \in 1..Len(call[i].changes) :
           call[i].changes[j].reg = "data" => i = 1
    BY DEF CallsOf, DataFirst
  <2> QED
    BY <1>3, <2>1 DEF DataFirst
<1>7. Single(rest)
  BY <1>5 DEF CallsOf, Single
<1> QED
  BY <1>2, <1>5, <1>6, <1>7, <1>8 DEF CallsOf, S, rest

LEMMA PopChange ==
  ASSUME NEW d, NEW c, NEW call \in CallsOf(d, c), call # <<>>, Head(call).changes # <<>>
  PROVE  LET rest == [call EXCEPT ![1].changes = Tail(Head(call).changes)] IN
         /\ rest \in CallsOf(d, c) /\ rest # <<>>
         /\ Head(rest).changes = Tail(Head(call).changes) /\ Head(rest).lock = Head(call).lock
         /\ Changes(rest) \subseteq Changes(call)
         /\ Changes(call) \subseteq Changes(rest) \cup {Head(Head(call).changes)}
         /\ Len(Head(call).changes) > 1 <=> Tail(Head(call).changes) # <<>>
<1> DEFINE S == SectionsOf(d, c)
           C == ChangesOf(c)
           first == call[1]
           left == Tail(first.changes)
           second == [first EXCEPT !.changes = left]
           rest == [call EXCEPT ![1] = second]
<1>1. call \in Seq(S) /\ call # <<>>
  BY CallParts
<1> HIDE DEF S, C
<1>2. Len(call) \in Nat \ {0} /\ Head(call) = call[1] /\ 1 \in 1..Len(call) /\ first \in S
  BY <1>1
<1>3. first.changes \in Seq(C) /\ first.changes # <<>>
  BY <1>2, CallParts DEF C
<1>4. /\ left \in Seq(C) /\ Len(first.changes) \in Nat \ {0} /\ Len(left) = Len(first.changes) - 1
      /\ \A j \in 1..(Len(first.changes) - 1) : left[j] = first.changes[j + 1]
      /\ Head(first.changes) = first.changes[1]
      /\ Len(first.changes) > 1 <=> left # <<>>
  BY <1>3, ListPop
<1> HIDE DEF left
<1>5. \A j \in 1..Len(left) : j + 1 \in 1..Len(first.changes) /\ left[j] = first.changes[j + 1] /\ j + 1 # 1
  BY <1>4
<1>6. second \in S /\ second.changes = left /\ second.lock = first.lock
  <2>1. first \in [lock : Locks \cup {"no_lock"}, changes : Seq(C)]
    BY <1>2 DEF S, SectionsOf, C
  <2>2. second \in [lock : Locks \cup {"no_lock"}, changes : Seq(C)]
        /\ second.changes = left /\ second.lock = first.lock
    BY <1>4, <2>1
  <2>3. \A j \in 1..Len(first.changes) : Locked(d, first.changes[j].reg) => first.lock = LockOf(first.changes[j].reg)
    BY <1>2 DEF S, SectionsOf
  <2>4. \A j \in 1..Len(left) : Locked(d, left[j].reg) => second.lock = LockOf(left[j].reg)
    BY <1>5, <2>2, <2>3
  <2> HIDE DEF second
  <2> QED
    BY <2>2, <2>4 DEF S, SectionsOf, C
<1> HIDE DEF second
<1>7. /\ rest \in Seq(S) /\ Len(rest) = Len(call) /\ rest[1] = second
      /\ \A i \in 1..Len(call) : i # 1 => rest[i] = call[i]
  BY <1>1, <1>2, <1>6
<1>8. rest # <<>> /\ Head(rest) = second
  BY <1>2, <1>7
<1>9. rest = [call EXCEPT ![1].changes = Tail(Head(call).changes)]
  BY <1>2 DEF second, left
<1> HIDE DEF rest
<1>10. /\ Changes(rest) \subseteq Changes(call)
       /\ Changes(call) \subseteq Changes(rest) \cup {Head(first.changes)}
       /\ \A i \in 1..Len(rest) : \A j \in 1..Len(rest[i].changes) : rest[i].changes[j].reg # "data"
  <2>8. rest \in Seq(SectionsOf(d, c))
    BY <1>7 DEF S
  <2>1. \A ch : ch \in Changes(rest)
                  <=> \E i \in 1..Len(rest) : \E j \in 1..Len(rest[i].changes) : ch = rest[i].changes[j]
    BY <2>8, ChangesOfCall
  <2>2. \A ch : ch \in Changes(call)
                  <=> \E i \in 1..Len(call) : \E j \in 1..Len(call[i].changes) : ch = call[i].changes[j]
    BY CallParts
  <2>3. \A i \in 1..Len(rest) : \A j \in 1..Len(rest[i].changes) :
           \E k \in 1..Len(call[i].changes) : rest[i].changes[j] = call[i].changes[k] /\ (i # 1 \/ k # 1)
    <3> SUFFICES ASSUME NEW i \in 1..Len(rest), NEW j \in 1..Len(rest[i].changes)
                 PROVE  \E k \in 1..Len(call[i].changes) : rest[i].changes[j] = call[i].changes[k] /\ (i # 1 \/ k # 1)
      OBVIOUS
    <3>1. CASE i = 1
      BY <1>5, <1>6, <1>7, <3>1
    <3>2. CASE i # 1
      BY <1>7, <3>2
    <3> QED
      BY <3>1, <3>2
  <2>7. 1..Len(rest) = 1..Len(call)
    BY <1>7
  <2>4. ASSUME NEW ch \in Changes(rest) PROVE ch \in Changes(call)
    <3>1. PICK i \in 1..Len(rest) : \E j \in 1..Len(rest[i].changes) : ch = rest[i].changes[j]
      BY <2>1
    <3>2. PICK j \in 1..Len(rest[i].changes) : ch = rest[i].changes[j]
      BY <3>1
    <3>3. PICK k \in 1..Len(call[i].changes) : rest[i].changes[j] = call[i].changes[k]
      BY ONLY <2>3, i \in 1..Len(rest), j \in 1..Len(rest[i].changes)
    <3>4. i \in 1..Len(call) /\ ch = call[i].changes[k]
      BY ONLY <2>7, <3>2, <3>3, i \in 1..Len(rest)
    <3> QED
      BY ONLY <2>2, <3>4, k \in 1..Len(call[i].changes)
  <2>5. ASSUME NEW ch \in Changes(call), ch # Head(first.changes) PROVE ch \in Changes(rest)
    <3>1. PICK i \in 1..Len(call) : \E j \in 1..Len(call[i].changes) : ch = call[i].changes[j]
      BY <2>2
    <3>2. PICK j \in 1..Len(call[i].changes) : ch = call[i].changes[j]
      BY <3>1
    <3>3. CASE i = 1
      <4>1. j # 1
        BY <1>4, <2>5, <3>2, <3>3
      <4>2. j - 1 \in 1..(Len(first.changes) - 1) /\ (j - 1) + 1 = j
        BY <1>4, <3>2, <3>3, <4>1
      <4>3. j - 1 \in 1..Len(rest[1].changes) /\ rest[1].changes[j - 1] = ch
        BY <1>4, <1>6, <1>7, <3>2, <3>3, <4>2
      <4> QED
        BY <1>2, <1>7, <2>1, <4>3
    <3>4. CASE i # 1
      BY <1>7, <2>1, <3>2, <3>4
    <3> QED
      BY <3>3, <3>4
  <2>6. \A i \in 1..Len(rest) : \A j \in 1..Len(rest[i].changes) : rest[i].changes[j].reg # "data"
    <3>1. \A i \in 1..Len(call) : \A j \in 1..Len(call[i].changes) :
           call[i].changes[j].reg = "data" => i = 1 /\ j = 1
      BY DEF CallsOf, DataFirst
    <3> SUFFICES ASSUME NEW i \in 1..Len(rest), NEW j \in 1..Len(rest[i].changes)
                 PROVE  rest[i].changes[j].reg # "data"
      OBVIOUS
    <3>2. PICK k \in 1..Len(call[i].changes) : rest[i].changes[j] = call[i].changes[k] /\ (i # 1 \/ k # 1)
      BY <2>3
    <3> QED
      BY <2>7, <3>1, <3>2
  <2> QED
    BY <2>4, <2>5, <2>6
<1>11. Single(rest) /\ DataFirst(rest)
  BY <1>10 DEF CallsOf, Single, DataFirst
<1>12. rest \in CallsOf(d, c)
  BY <1>7, <1>11 DEF CallsOf, S
<1>13. /\ Head(rest).changes = Tail(Head(call).changes) /\ Head(rest).lock = Head(call).lock
       /\ Len(Head(call).changes) > 1 <=> Tail(Head(call).changes) # <<>>
  BY <1>2, <1>4, <1>6, <1>8 DEF left
<1> QED
  BY <1>2, <1>8, <1>9, <1>10, <1>12, <1>13

LEMMA ConsumerCalls ==
  ASSUME NEW d, NEW c \in Consumer, NEW call \in Calls(d, c)
  PROVE  call \in CallsOf(d, c) /\ call # <<>>
<1> DEFINE O == Owns[c]
<1>1. /\ "gpio_lock" \in Locks \cup {"no_lock"} /\ "irq_lock" \in Locks \cup {"no_lock"}
      /\ "no_lock" \in Locks \cup {"no_lock"}
      /\ LockOf("data") = "gpio_lock" /\ LockOf("dir") = "gpio_lock" /\ LockOf("mask") = "irq_lock"
      /\ LockOf("enable") = "irq_lock" /\ LockOf("type") = "irq_lock"
      /\ "data" \in Reg /\ "dir" \in Reg /\ "mask" \in Reg /\ "enable" \in Reg /\ "type" \in Reg
  BY DEF Locks, LockOf, Reg
<1>2. \A l \in O, reg \in Reg : \A value : Put(reg, l, value) \in ChangesOf(c) /\ Put(reg, l, value).reg = reg
  BY PutIs
<1>3. \A s, t : <<s>> # <<>> /\ <<s, t>> # <<>>
  OBVIOUS
<1> HIDE DEF O
<1>4. ASSUME NEW x \in GpioModelCalls(O) PROVE x \in CallsOf(d, c) /\ x # <<>>
  <2>1. CASE \E lines \in (SUBSET O) \ {{}}, bits \in SUBSET O :
               x = <<Section("gpio_lock", <<Change("data", lines \cap bits, lines \ bits)>>)>>
    <3>1. PICK lines \in (SUBSET O) \ {{}}, bits \in SUBSET O :
               x = <<Section("gpio_lock", <<Change("data", lines \cap bits, lines \ bits)>>)>>
      BY <2>1
    <3> DEFINE ch == Change("data", lines \cap bits, lines \ bits)
    <3>2. ch \in ChangesOf(c) /\ ch.reg = "data"
      BY <1>1 DEF Change, ChangesOf, O
    <3> HIDE DEF ch
    <3>3. <<Section("gpio_lock", <<ch>>)>> \in CallsOf(d, c)
      BY <1>1, <3>2, OneChangeCall
    <3> QED
      BY <1>3, <3>1, <3>3 DEF ch
  <2>2. CASE \E l \in O, value \in BOOLEAN : x = DirectionOutput(l, value)
    <3>1. PICK l \in O, value \in BOOLEAN : x = DirectionOutput(l, value)
      BY <2>2
    <3> DEFINE ch == Put("data", l, value)
               ck == Put("dir", l, TRUE)
    <3>2. ch \in ChangesOf(c) /\ ch.reg = "data" /\ ck \in ChangesOf(c) /\ ck.reg = "dir"
      BY <1>1, <1>2
    <3> HIDE DEF ch, ck
    <3>3. <<Section("gpio_lock", <<ch>>), Section("gpio_lock", <<ck>>)>> \in CallsOf(d, c)
      BY <1>1, <3>2, TwoChangesCall
    <3> QED
      BY <1>3, <3>1, <3>3 DEF DirectionOutput, ch, ck
  <2>3. CASE \E l \in O : x = <<Section("gpio_lock", <<Put("dir", l, FALSE)>>)>>
    <3>1. PICK l \in O : x = <<Section("gpio_lock", <<Put("dir", l, FALSE)>>)>>
      BY <2>3
    <3> DEFINE ch == Put("dir", l, FALSE)
    <3>2. ch \in ChangesOf(c) /\ ch.reg = "dir"
      BY <1>1, <1>2
    <3> HIDE DEF ch
    <3>3. <<Section("gpio_lock", <<ch>>)>> \in CallsOf(d, c)
      BY <1>1, <3>2, OneChangeCall
    <3> QED
      BY <1>3, <3>1, <3>3 DEF ch
  <2> DEFINE some(lines, bits) == <<Section("gpio_lock", <<Change("data", lines \cap bits, lines \ bits)>>)>>
             input(l) == <<Section("gpio_lock", <<Put("dir", l, FALSE)>>)>>
  <2>4. GpioModelCalls(O) = {some(lines, bits) : lines \in (SUBSET O) \ {{}}, bits \in SUBSET O}
                            \cup {DirectionOutput(l, value) : l \in O, value \in BOOLEAN}
                            \cup {input(l) : l \in O}
    BY DEF GpioModelCalls
  <2>5. /\ \A lines \in (SUBSET O) \ {{}}, bits \in SUBSET O : x = some(lines, bits) => x \in CallsOf(d, c) /\ x # <<>>
        /\ \A l \in O, value \in BOOLEAN : x = DirectionOutput(l, value) => x \in CallsOf(d, c) /\ x # <<>>
        /\ \A l \in O : x = input(l) => x \in CallsOf(d, c) /\ x # <<>>
    BY <2>1, <2>2, <2>3
  <2> HIDE DEF some, input
  <2> QED
    BY <1>4, <2>4, <2>5
<1>5. ASSUME NEW x \in IrqModelCalls(O) PROVE x \in CallsOf(d, c) /\ x # <<>>
  <2>1. PICK l \in O, value \in BOOLEAN : x = <<Section("irq_lock", <<Put("mask", l, value)>>)>>
    BY <1>5 DEF IrqModelCalls
  <2> QED
    BY <1>1, <1>2, <1>3, <2>1, OneChangeCall
<1>6. ASSUME NEW x \in BankedCalls(O) PROVE x \in CallsOf(d, c) /\ x # <<>>
  <2>1. ASSUME NEW l \in O, NEW value, NEW reg \in {"mask", "type"},
               x = <<Section("irq_lock", <<Put(reg, l, value)>>)>>
        PROVE  x \in CallsOf(d, c) /\ x # <<>>
    BY <1>1, <1>2, <1>3, <2>1, OneChangeCall
  <2>2. ASSUME NEW l \in O, x = <<Section("irq_lock", <<Put("enable", l, TRUE), Put("mask", l, FALSE)>>)>>
        PROVE  x \in CallsOf(d, c) /\ x # <<>>
    <3> DEFINE ch == Put("enable", l, TRUE)
               ck == Put("mask", l, FALSE)
    <3>1. ch \in ChangesOf(c) /\ ch.reg = "enable" /\ ck \in ChangesOf(c) /\ ck.reg = "mask"
      BY <1>1, <1>2
    <3> HIDE DEF ch, ck
    <3>2. <<Section("irq_lock", <<ch, ck>>)>> \in CallsOf(d, c)
      BY <1>1, <3>1, TwoChangesCall
    <3> QED
      BY <1>3, <2>2, <3>2 DEF ch, ck
  <2>3. ASSUME NEW l \in O, x = <<Section("irq_lock", <<Put("mask", l, TRUE), Put("enable", l, FALSE)>>)>>
        PROVE  x \in CallsOf(d, c) /\ x # <<>>
    <3> DEFINE ch == Put("mask", l, TRUE)
               ck == Put("enable", l, FALSE)
    <3>1. ch \in ChangesOf(c) /\ ch.reg = "mask" /\ ck \in ChangesOf(c) /\ ck.reg = "enable"
      BY <1>1, <1>2
    <3> HIDE DEF ch, ck
    <3>2. <<Section("irq_lock", <<ch, ck>>)>> \in CallsOf(d, c)
      BY <1>1, <3>1, TwoChangesCall
    <3> QED
      BY <1>3, <2>3, <3>2 DEF ch, ck
  <2>4. CASE x = <<Section("irq_lock", <<>>)>>
    BY <1>1, <1>3, <2>4, EmptyCall
  <2> DEFINE one(reg, l, value) == <<Section("irq_lock", <<Put(reg, l, value)>>)>>
             unmask(l) == <<Section("irq_lock", <<Put("enable", l, TRUE), Put("mask", l, FALSE)>>)>>
             mask(l)   == <<Section("irq_lock", <<Put("mask", l, TRUE), Put("enable", l, FALSE)>>)>>
             none      == <<Section("irq_lock", <<>>)>>
  <2>5. BankedCalls(O) = {one("mask", l, value) : l \in O, value \in BOOLEAN} \cup {unmask(l) : l \in O}
                         \cup {mask(l) : l \in O} \cup {one("type", l, value) : l \in O, value \in BOOLEAN}
                         \cup {none}
    BY DEF BankedCalls
  <2>6. /\ \A reg \in {"mask", "type"}, l \in O : \A value : x = one(reg, l, value) => x \in CallsOf(d, c) /\ x # <<>>
        /\ \A l \in O : x = unmask(l) \/ x = mask(l) => x \in CallsOf(d, c) /\ x # <<>>
        /\ x = none => x \in CallsOf(d, c) /\ x # <<>>
    BY <2>1, <2>2, <2>3, <2>4
  <2> HIDE DEF one, unmask, mask, none
  <2> QED
    BY <1>6, <2>5, <2>6
<1>7. ASSUME NEW reg \in Reg, ~Locked(d, reg), NEW x \in PlainCalls(reg, O)
      PROVE  x \in CallsOf(d, c) /\ x # <<>>
  <2>1. PICK l \in O, value \in BOOLEAN : x = <<Section("no_lock", <<Put(reg, l, value)>>)>>
    BY <1>7 DEF PlainCalls
  <2> DEFINE ch == Put(reg, l, value)
  <2>2. ch \in ChangesOf(c) /\ ~Locked(d, ch.reg) /\ "no_lock" \in Locks \cup {"no_lock"}
    BY <1>1, <1>2, <1>7
  <2> HIDE DEF ch
  <2>3. <<Section("no_lock", <<ch>>)>> \in CallsOf(d, c)
    BY ONLY <2>2, OneChangeCall
  <2> QED
    BY <1>3, <2>1, <2>3 DEF ch
<1>8. OwnGpio(d) => ~Locked(d, "data")
  BY DEF Locked
<1>9. OwnMask(d) /\ ~Lowered(d) => ~Locked(d, "mask")
  BY DEF Locked
<1>10. \/ call \in GpioModelCalls(O) \/ call \in IrqModelCalls(O) \/ call \in BankedCalls(O)
       \/ OwnGpio(d) /\ call \in PlainCalls("data", O)
       \/ OwnMask(d) /\ ~Lowered(d) /\ call \in PlainCalls("mask", O)
  BY DEF Calls, When, O
<1> QED
  BY <1>1, <1>4, <1>5, <1>6, <1>7, <1>8, <1>9, <1>10

-----------------------------------------------------------------------------
(***************************************************************************)
(* Registers, shadows and locks                                            *)
(***************************************************************************)
TypeInv ==
    /\ hw \in [Reg -> SUBSET Line] /\ shadow \in [Reg -> SUBSET Line]
    /\ want \in [Reg -> [Line -> {"any", "high", "low"}]]
    /\ lock \in [Locks -> Caller \cup {"nobody"}]
    /\ val \in [Caller -> SUBSET Line] /\ DOMAIN todo = Caller

\* Where each caller is in its call.
TodoInv ==
    /\ \A c \in Users : InCall(c) => at[c] = "unlock" /\ todo[c] = <<Section("no_lock", <<>>)>>
    /\ \A c \in Consumer :
          /\ todo[c] \in CallsOf(dev, c)
          /\ todo[c] = <<>> <=> at[c] = "idle"
          /\ at[c] \in {"read", "write"} => Head(todo[c]).changes # <<>>
          /\ at[c] = "unlock" => Head(todo[c]).changes = <<>>

\* Who is in a locked section has the lock.
LockInv ==
    \A c \in Consumer :
        at[c] \in {"read", "write", "unlock"} /\ Head(todo[c]).lock \in Locks => lock[Head(todo[c]).lock] = c

Current(c)    == Head(Head(todo[c]).changes)
Pending(r, l) == \E c \in Consumer : \E ch \in Changes(todo[c]) : ch.reg = r /\ l \in ch.high \cup ch.low
Bit(lines, l) == IF l \in lines THEN "high" ELSE "low"

\* A consumer still wants what it has yet to write ...
ToldInv ==
    \A c \in Consumer : \A ch \in Changes(todo[c]) :
        /\ \A l \in ch.high : want[ch.reg][l] = "high"
        /\ \A l \in ch.low : want[ch.reg][l] = "low"

\* ... what nobody has yet to write is in the register ...
HwInv ==
    \A r \in Reg, l \in Line :
        Locked(dev, r) /\ ~Pending(r, l) => want[r][l] \in {"any", Level(r, l)}

\* ... and in its shadow, once that is loaded ...
Loaded(r) == Locked(dev, r) /\ Shadowed(dev, r) /\ (r = "mask" \/ "gpio_cache" \in ready)
ShadowInv ==
    \A r \in Reg, l \in Line :
        Loaded(r) /\ ~Pending(r, l) => want[r][l] \in {"any", Bit(shadow[r], l)}

\* ... and what is about to be written is the register with the change made.
ValInv ==
    \A c \in Consumer : at[c] = "write" =>
        LET ch == Current(c) IN
        /\ ch.high \subseteq val[c] /\ ch.low \cap val[c] = {}
        /\ Locked(dev, ch.reg) => IF Shadowed(dev, ch.reg) THEN val[c] = shadow[ch.reg]
                                  ELSE \A l \in Line \ (ch.high \cup ch.low) : l \in val[c] <=> l \in hw[ch.reg]

\* The value and the direction of every line are known after probe's accesses.
KnownInv == "init" \in ready => \A r \in {"data", "dir"}, l \in Line : want[r][l] # "any"

\* All that probe has done so far is ready.
MadeInv == stage = "probing" => ready = Made(dev, step)

ValueInv == TypeInv /\ TodoInv /\ LockInv /\ ToldInv /\ HwInv /\ ShadowInv /\ ValInv /\ KnownInv
IInv     == UseInv /\ MadeInv /\ ValueInv

LEMMA Callers ==
  /\ Consumer \subseteq Caller /\ Users \subseteq Caller /\ Caller = Consumer \cup Users
  /\ Consumer \cap Users = {} /\ "nobody" \notin Consumer
  /\ "file" \in Users
  /\ \A c \in Consumer : Gate(c) = "gpiochip"
<1>1. \A c \in Consumer : c \notin Users
  BY ConsumerAssumption
<1>2. \A c \in Consumer : Gate(c) = "gpiochip"
  BY <1>1 DEF Gate, Users
<1> QED
  BY <1>2, ConsumerAssumption DEF Caller, Users

LEMMA NoChanges == Changes(<<>>) = {}
BY DEF Changes

\* The lines of two consumers are apart, and so is what they have yet to write.
LEMMA PendingOwn ==
  ASSUME TodoInv, NEW c \in Consumer, NEW ch \in Changes(todo[c])
  PROVE  /\ ch \in ChangesOf(c) /\ ch.reg \in Reg
         /\ ch.high \subseteq Owns[c] /\ ch.low \subseteq Owns[c] /\ ch.high \cap ch.low = {}
         /\ Owns[c] \subseteq Line
         /\ \A k \in Consumer : k # c => ch.high \cap Owns[k] = {} /\ ch.low \cap Owns[k] = {}
<1>1. ch \in ChangesOf(c)
  BY CallParts DEF TodoInv
<1> QED
  BY <1>1, ConsumerAssumption DEF ChangesOf

\* Before the lines are registered nobody is in a call that uses them.
LEMMA NobodyCalls ==
  ASSUME CallInv, TodoInv, "gpiochip" \notin held
  PROVE  /\ \A c \in Consumer : at[c] = "idle" /\ todo[c] = <<>> /\ Changes(todo[c]) = {}
         /\ \A r, l : ~Pending(r, l)
<1>1. ASSUME NEW c \in Consumer PROVE at[c] = "idle" /\ todo[c] = <<>>
  <2>1. c \in Caller \ {"file"} /\ Gate(c) = "gpiochip"
    BY Callers
  <2>2. ~InCall(c)
    BY <2>1 DEF CallInv
  <2>3. at[c] # "open"
    BY <2>1 DEF CallInv
  <2> QED
    BY <2>2, <2>3 DEF InCall, TodoInv
<1>2. \A c \in Consumer : Changes(todo[c]) = {}
  BY <1>1, NoChanges
<1> QED
  BY <1>1, <1>2 DEF Pending

\* A consumer that is in a call finds the shadows loaded.
LEMMA CallsFindShadows ==
  ASSUME UseInv, NEW c \in Consumer, InCall(c), dev.gpioModel
  PROVE  "gpio_cache" \in ready /\ "init" \in ready
<1>1. dev \in Device
  BY DeviceOf DEF UseInv
<1>2. dev.bus = "pci" /\ HasGpio(dev)
  BY <1>1 DEF Device, HasGpio
<1>3. /\ \E i \in Places(dev) : Probe(dev)[i] = Do("gpio_cache")
      /\ \E i \in Places(dev) : Probe(dev)[i] = Do("init")
  BY <1>2, PciProbeOrdered DEF Probe, Has, Places
<1>4. Made(dev, Through(dev)) \subseteq ready
  <2>1. c \in Caller \ {"file"} /\ Gate(c) = "gpiochip"
    BY Callers
  <2> QED
    BY <2>1 DEF UseInv, CallInv, ReadyInv, Gates
<1>5. \A i \in Places(dev) : i < Through(dev)
  BY <1>1, ProbeSteps DEF Places, Through
<1> QED
  BY <1>3, <1>4, <1>5 DEF Made, Do

\* Of two callers about to change one register under its lock, one has to wait.
LEMMA Exclusion ==
  ASSUME TodoInv, LockInv,
         NEW c \in Consumer, NEW k \in Consumer, at[c] \in {"read", "write"}, at[k] \in {"read", "write"},
         Current(c).reg = Current(k).reg, Locked(dev, Current(c).reg)
  PROVE  c = k
<1>1. \A b \in {c, k} : Head(todo[b]).lock = LockOf(Current(b).reg)
  BY FirstChange DEF TodoInv, Current
<1>2. LockOf(Current(c).reg) \in Locks
  BY DEF LockOf, Locks
<1>3. \A b \in {c, k} : lock[Head(todo[b]).lock] = b
  BY <1>1, <1>2 DEF LockInv
<1> QED
  BY <1>1, <1>3

LEMMA LockedRegisters ==
  ASSUME NEW r \in Reg
  PROVE  /\ Shadowed(dev, r) => r \in {"data", "dir", "mask"}
         /\ r \in {"data", "dir"} /\ Locked(dev, r) => dev.gpioModel
         /\ Locked(dev, "data") <=> Locked(dev, "dir")
BY DEF Shadowed, Locked

\* Steps that touch neither registers nor calls.
LEMMA Frame ==
  ASSUME ValueInv, UNCHANGED <<dev, hw, shadow, lock, todo, val, want>>,
         \A c \in Consumer : at'[c] = at[c],
         \A c \in Users : InCall(c)' => at'[c] = at[c],
         ready' \subseteq ready
  PROVE  ValueInv'
<1>1. TypeInv'
  BY DEF ValueInv, TypeInv
<1>2. TodoInv'
  <2>1. \A c \in Users : InCall(c)' => InCall(c)
    BY DEF InCall
  <2> QED
    BY <2>1 DEF ValueInv, TodoInv
<1>3. LockInv' /\ ToldInv'
  BY DEF ValueInv, LockInv, ToldInv
<1>4. HwInv'
  BY DEF ValueInv, HwInv, Pending, Level
<1>5. ShadowInv'
  BY DEF ValueInv, ShadowInv, Pending, Loaded
<1>6. ValInv'
  BY DEF ValueInv, ValInv, Current
<1>7. KnownInv'
  BY DEF ValueInv, KnownInv
<1> QED
  BY <1>1, <1>2, <1>3, <1>4, <1>5, <1>6, <1>7 DEF ValueInv

LEMMA ValueStart == Init => MadeInv /\ ValueInv
<1> SUFFICES ASSUME Init PROVE MadeInv /\ ValueInv
  OBVIOUS
<1>1. MadeInv
  BY DEF Init, MadeInv
<1>2. /\ hw \in [Reg -> SUBSET Line] /\ ready = {}
      /\ shadow = [r \in Reg |-> {}] /\ want = [r \in Reg |-> [l \in Line |-> "any"]]
      /\ at = [c \in Caller |-> "idle"] /\ todo = [c \in Caller |-> <<>>] /\ val = [c \in Caller |-> {}]
      /\ lock = [l \in Locks |-> "nobody"]
  BY RegistersAssumption DEF Init
<1>3. TypeInv
  BY <1>2 DEF TypeInv
<1>4. \A c \in Consumer : at[c] = "idle" /\ todo[c] = <<>>
  BY <1>2, Callers
<1>5. TodoInv
  <2>1. \A c \in Consumer : <<>> \in CallsOf(dev, c)
    <3> TAKE c \in Consumer
    <3> DEFINE S == SectionsOf(dev, c)
    <3> HIDE DEF S
    <3>1. <<>> \in Seq(S) /\ \A i \in 1..Len(<<>>) : FALSE
      OBVIOUS
    <3> QED
      BY <3>1, NoChanges DEF CallsOf, Single, DataFirst, S
  <2>2. \A c \in Users : ~InCall(c)
    BY <1>2, Callers DEF InCall
  <2> QED
    BY <1>4, <2>1, <2>2 DEF TodoInv
<1>6. LockInv /\ ToldInv /\ ValInv
  BY <1>4, NoChanges DEF LockInv, ToldInv, ValInv
<1>7. HwInv /\ ShadowInv /\ KnownInv
  BY <1>2 DEF HwInv, ShadowInv, KnownInv
<1> QED
  BY <1>1, <1>3, <1>5, <1>6, <1>7 DEF ValueInv

LEMMA MadeStep ==
  ASSUME CoreInv, MadeInv, [Next]_vars
  PROVE  MadeInv'
<1>1. dev \in Device
  BY DeviceOf
<1>2. CASE UNCHANGED <<dev, coreVars>>
  BY <1>2 DEF coreVars, MadeInv
<1>3. CASE Bind
  <2>1. Made(dev, 1) = {}
    BY <1>1, Apart
  <2> QED
    BY <1>3, <2>1 DEF Bind, MadeInv
<1>4. CASE Acquired \/ Done
  <2>1. step \in Places(dev)
    <3>1. step \in 1..Through(dev) /\ step <= Len(Probe(dev)) /\ Len(Probe(dev)) \in Nat
      BY <1>1, <1>4, ProbeSteps DEF CoreInv, Acquired, Done
    <3> QED
      BY <3>1 DEF Places
  <2>2. /\ stage = "probing" /\ stage' = "probing" /\ step' = step + 1 /\ dev' = dev
        /\ ready' = IF Probe(dev)[step].does = "do" THEN ready \cup {Probe(dev)[step].what} ELSE ready
    BY <1>4 DEF Acquired, Done, Now
  <2>3. Made(dev, step + 1) = IF Probe(dev)[step].does = "do" THEN Made(dev, step) \cup {Probe(dev)[step].what}
                              ELSE Made(dev, step)
    BY <1>1, <2>1, OneMore
  <2> QED
    BY <2>2, <2>3 DEF MadeInv
<1>5. CASE Failed \/ Probed \/ Unbind \/ Undo \/ Undone \/ Release \/ Released
  BY <1>5 DEF Failed, Probed, Unbind, Undo, Undone, Release, Released, MadeInv
<1> QED
  BY <1>2, <1>3, <1>4, <1>5, CallersStep DEF vars, Core

\* A step of probe that makes something comes before the lines are registered,
\* and makes what was not there.
LEMMA MakesFirst ==
  ASSUME CoreInv, MadeInv, Done
  PROVE  /\ "gpiochip" \notin held
         /\ Now.what \notin ready /\ Now.what \in {"init", "gpio_lock", "gpio_cache", "irq_lock"}
         /\ Now.what = "init" => "gpio_cache" \notin ready
<1>1. dev \in Device
  BY DeviceOf
<1>2. step \in Places(dev)
  <2>1. step \in 1..Through(dev) /\ step <= Len(Probe(dev)) /\ Len(Probe(dev)) \in Nat
    BY <1>1, ProbeSteps DEF CoreInv, Done
  <2> QED
    BY <2>1 DEF Places
<1> DEFINE x == Probe(dev)[step]
<1>3. stage = "probing" /\ x.does = "do" /\ Now = x
  BY DEF Done, Now
<1>4. Rank(x.what) \in 10..13 /\ x.what \in {"init", "gpio_lock", "gpio_cache", "irq_lock"}
  BY <1>1, <1>2, <1>3, ProbeSteps, StepFields
<1>5. \A w \in Made(dev, step) : Rank(w) < Rank(x.what)
  BY <1>1, <1>2, ProbeSteps DEF Made
<1>6. "gpiochip" \notin held
  <2>1. held \subseteq Owned(dev, step) \cup Leased(dev, step)
    BY <1>3 DEF CoreInv, Own, Coming
  <2>2. ~(Rank("gpiochip") < Rank(x.what))
    BY <1>4, Ranks
  <2> QED
    BY <1>1, <1>2, <2>1, <2>2, Later
<1>7. ready = Made(dev, step)
  BY <1>3 DEF MadeInv
<1>8. x.what \notin ready
  <2>1. ~(Rank(x.what) < Rank(x.what))
    BY <1>4
  <2> QED
    BY <1>5, <1>7, <2>1
<1>9. x.what = "init" => "gpio_cache" \notin ready
  BY <1>5, <1>7, Ranks
<1> QED
  BY <1>3, <1>4, <1>6, <1>8, <1>9

LEMMA DoneValues ==
  ASSUME IInv, Done
  PROVE  ValueInv'
<1>1. /\ \A c \in Consumer : at[c] = "idle" /\ todo[c] = <<>> /\ Changes(todo[c]) = {}
      /\ \A r, l : ~Pending(r, l)
      /\ Now.what \notin ready /\ Now.what \in {"init", "gpio_lock", "gpio_cache", "irq_lock"}
      /\ Now.what = "init" => "gpio_cache" \notin ready
  BY MakesFirst, NobodyCalls DEF IInv, UseInv, ValueInv
<1>2. /\ ready' = ready \cup {Now.what}
      /\ hw' \in IF Now.what = "init" THEN Registers ELSE {hw}
      /\ shadow' = IF Now.what = "gpio_cache" THEN [shadow EXCEPT !["data"] = hw["data"], !["dir"] = hw["dir"]]
                   ELSE shadow
      /\ want' = IF Now.what # "init" THEN want
                 ELSE [r \in Reg |-> [l \in Line |->
                        IF dev.irqModel /\ r = "mask" THEN "any" ELSE IF l \in hw'[r] THEN "high" ELSE "low"]]
      /\ UNCHANGED <<dev, lock, at, todo, val>>
  BY DEF Done, callerVars
<1> DEFINE w == Now.what
<1> HIDE DEF w
<1>3. TypeInv'
  <2>1. TypeInv
    BY DEF IInv, ValueInv
  <2>2. hw' \in [Reg -> SUBSET Line]
    BY <1>2, <2>1, RegistersAssumption DEF TypeInv
  <2>3. shadow' \in [Reg -> SUBSET Line]
    BY <1>2, <2>1 DEF TypeInv, Reg
  <2>4. want' \in [Reg -> [Line -> {"any", "high", "low"}]]
    BY <1>2, <2>1 DEF TypeInv
  <2> QED
    BY <1>2, <2>1, <2>2, <2>3, <2>4 DEF TypeInv
<1>4. TodoInv' /\ LockInv'
  BY <1>2 DEF IInv, ValueInv, TodoInv, LockInv, InCall
<1>5. ToldInv' /\ ValInv'
  BY <1>1, <1>2 DEF ToldInv, ValInv
<1>6. HwInv'
  <2>1. CASE Now.what = "init"
    BY <1>2, <2>1 DEF HwInv, Level
  <2>2. CASE Now.what # "init"
    BY <1>1, <1>2, <2>2 DEF IInv, ValueInv, HwInv, Level
  <2> QED
    BY <2>1, <2>2
<1>7. ShadowInv'
  <2> SUFFICES ASSUME NEW r \in Reg, NEW l \in Line, Loaded(r)'
               PROVE  want'[r][l] \in {"any", Bit(shadow'[r], l)}
    BY DEF ShadowInv
  <2>1. Locked(dev, r) /\ Shadowed(dev, r) /\ r \in {"data", "dir", "mask"}
    BY <1>2, LockedRegisters DEF Loaded
  <2>2. CASE r = "mask"
    <3>1. Loaded(r) /\ shadow'[r] = shadow[r] /\ dev.irqModel
      BY <1>2, <2>1, <2>2 DEF Loaded, Shadowed, Reg, IInv, ValueInv, TypeInv
    <3>2. want[r][l] \in {"any", Bit(shadow[r], l)}
      BY <1>1, <3>1 DEF IInv, ValueInv, ShadowInv
    <3> QED
      BY <1>2, <2>2, <3>1, <3>2
  <2>3. CASE r \in {"data", "dir"}
    <3>1. Now.what = "gpio_cache" \/ (Now.what # "init" /\ Loaded(r))
      BY <1>1, <1>2, <2>1, <2>3 DEF Loaded
    <3>2. CASE Now.what = "gpio_cache"
      <4>1. shadow'[r] = hw[r] /\ want' = want
        BY <1>2, <2>3, <3>2 DEF IInv, ValueInv, TypeInv, Reg
      <4>2. want[r][l] \in {"any", Level(r, l)}
        BY <1>1, <2>1 DEF IInv, ValueInv, HwInv
      <4> QED
        BY <4>1, <4>2 DEF Level, Bit
    <3>3. CASE Now.what # "init" /\ Now.what # "gpio_cache" /\ Loaded(r)
      BY <1>1, <1>2, <3>3 DEF IInv, ValueInv, ShadowInv
    <3> QED
      BY <3>1, <3>2, <3>3
  <2> QED
    BY <2>1, <2>2, <2>3
<1>8. KnownInv'
  <2>1. CASE Now.what = "init"
    BY <1>2, <2>1 DEF KnownInv, Reg
  <2>2. CASE Now.what # "init"
    BY <1>2, <2>2 DEF IInv, ValueInv, KnownInv
  <2> QED
    BY <2>1, <2>2
<1> QED
  BY <1>3, <1>4, <1>5, <1>6, <1>7, <1>8 DEF ValueInv

LEMMA ReleasedValues ==
  ASSUME IInv, Released
  PROVE  ValueInv'
<1>1. /\ hw' \in Registers /\ shadow' = [r \in Reg |-> {}] /\ lock' = [l \in Locks |-> "nobody"]
      /\ want' = [r \in Reg |-> [l \in Line |-> "any"]] /\ ready' = {}
      /\ UNCHANGED <<dev, at, todo, val>>
  BY DEF Released, callerVars
<1>2. "gpiochip" \notin held
  BY ShortLists DEF IInv, UseInv, CoreInv, Own, Coming, Released
<1>3. \A c \in Consumer : at[c] = "idle" /\ todo[c] = <<>> /\ Changes(todo[c]) = {}
  BY <1>2, NobodyCalls DEF IInv, UseInv, ValueInv
<1>4. TypeInv'
  <2>1. hw' \in [Reg -> SUBSET Line]
    BY <1>1, RegistersAssumption
  <2> QED
    BY <1>1, <2>1 DEF TypeInv, IInv, ValueInv
<1>5. TodoInv'
  BY <1>1 DEF IInv, ValueInv, TodoInv, InCall
<1>6. LockInv' /\ ToldInv' /\ ValInv'
  BY <1>1, <1>3 DEF LockInv, ToldInv, ValInv
<1>7. HwInv' /\ ShadowInv' /\ KnownInv'
  BY <1>1 DEF HwInv, ShadowInv, KnownInv
<1> QED
  BY <1>4, <1>5, <1>6, <1>7 DEF ValueInv

LEMMA UserEnters ==
  ASSUME IInv, NEW c \in Users, Enter(c)
  PROVE  ValueInv'
<1>1. c \in Caller /\ c \notin Consumer
  BY Callers
<1> DEFINE call == <<Section("no_lock", <<>>)>>
<1>2. /\ todo' = [todo EXCEPT ![c] = call] /\ want' = Told(call)
      /\ at' = [at EXCEPT ![c] = "unlock"] /\ UNCHANGED <<dev, ready, hw, shadow, lock, val>>
  BY <1>1 DEF Enter, Kept, Calls, coreVars
<1>3. Changes(call) = {}
  <2>1. \A s : s.changes = <<>> => Changes(<<s>>) = {}
    BY DEF Changes
  <2> QED
    BY <2>1, SectionIs
<1> HIDE DEF call
<1>4. TypeInv
  BY DEF IInv, ValueInv
<1>5. want' = want
  BY <1>2, <1>3, <1>4 DEF Told, TypeInv
<1>6. \A k \in Caller : /\ todo'[k] = IF k = c THEN call ELSE todo[k]
                        /\ at'[k] = IF k = c THEN "unlock" ELSE at[k]
  BY <1>2, <1>4 DEF TypeInv, IInv, UseInv, CallInv
<1>7. \A k \in Consumer : todo'[k] = todo[k] /\ at'[k] = at[k]
  BY <1>1, <1>6, Callers
<1>8. TypeInv'
  BY <1>2, <1>4, <1>5 DEF TypeInv
<1>9. TodoInv'
  <2>1. \A k \in Users : InCall(k)' => at'[k] = "unlock" /\ todo'[k] = call
    BY <1>6, Callers DEF IInv, ValueInv, TodoInv, InCall, call
  <2> QED
    BY <1>2, <1>7, <2>1 DEF IInv, ValueInv, TodoInv, call
<1>10. LockInv' /\ ToldInv' /\ ValInv'
  <2>1. LockInv'
    BY <1>2, <1>7 DEF IInv, ValueInv, LockInv
  <2>2. ToldInv'
    BY <1>2, <1>5, <1>7 DEF IInv, ValueInv, ToldInv
  <2>3. ValInv'
    <3>1. UNCHANGED <<dev, hw, shadow, val>>
      BY <1>2
    <3>2. ValInv
      BY DEF IInv, ValueInv
    <3>3. \A k \in Consumer : Current(k)' = Current(k)
      BY ONLY <1>7 DEF Current
    <3> QED
      BY ONLY <1>7, <3>1, <3>2, <3>3 DEF ValInv
  <2> QED
    BY ONLY <2>1, <2>2, <2>3
<1>11. HwInv' /\ ShadowInv' /\ KnownInv'
  BY <1>2, <1>5, <1>7 DEF IInv, ValueInv, HwInv, ShadowInv, KnownInv, Pending, Loaded, Level
<1> QED
  BY <1>8, <1>9, <1>10, <1>11 DEF ValueInv

LEMMA ConsumerEnters ==
  ASSUME IInv, NEW c \in Consumer, Enter(c)
  PROVE  ValueInv'
<1>1. c \in Caller /\ c # "file"
  BY Callers
<1>2. PICK call \in Calls(dev, c) : todo' = [todo EXCEPT ![c] = call] /\ want' = Told(call)
  BY DEF Enter
<1>3. at[c] = "idle" /\ at' = [at EXCEPT ![c] = "lock"] /\ UNCHANGED <<dev, ready, hw, shadow, lock, val>>
  BY <1>1 DEF Enter, Kept, coreVars
<1>4. call \in CallsOf(dev, c) /\ call # <<>>
  BY ConsumerCalls
<1>5. TypeInv /\ TodoInv
  BY DEF IInv, ValueInv
<1>6. \A k \in Caller : /\ todo'[k] = IF k = c THEN call ELSE todo[k]
                        /\ at'[k] = IF k = c THEN "lock" ELSE at[k]
  BY <1>2, <1>3, <1>5 DEF TypeInv, IInv, UseInv, CallInv
<1>7. \A r \in Reg, l \in Line :
         want'[r][l] = IF \E ch \in Changes(call) : ch.reg = r /\ l \in ch.high THEN "high"
                       ELSE IF \E ch \in Changes(call) : ch.reg = r /\ l \in ch.low THEN "low"
                       ELSE want[r][l]
  BY <1>2 DEF Told
<1>8. TypeInv'
  <2>1. want' \in [Reg -> [Line -> {"any", "high", "low"}]]
    BY <1>2, <1>5 DEF Told, TypeInv
  <2> QED
    BY <1>2, <1>3, <1>5, <2>1 DEF TypeInv
<1>9. TodoInv'
  <2>1. \A k \in Users : todo'[k] = todo[k] /\ at'[k] = at[k]
    BY <1>6, Callers
  <2>2. \A k \in Consumer : k # c => todo'[k] = todo[k] /\ at'[k] = at[k]
    BY <1>6, Callers
  <2>3. todo'[c] = call /\ at'[c] = "lock"
    BY <1>1, <1>6
  <2> QED
    BY <1>3, <1>4, <1>5, <2>1, <2>2, <2>3 DEF TodoInv, InCall
<1>10. todo[c] = <<>>
  BY <1>3, <1>5 DEF TodoInv
<1>11. \A r, l : Pending(r, l) => Pending(r, l)'
  BY <1>6, <1>10, NoChanges, Callers DEF Pending
<1>12. \A r \in Reg, l \in Line : ~Pending(r, l)' => want'[r][l] = want[r][l]
  <2> SUFFICES ASSUME NEW r \in Reg, NEW l \in Line, want'[r][l] # want[r][l] PROVE Pending(r, l)'
    OBVIOUS
  <2>1. \E ch \in Changes(call) : ch.reg = r /\ l \in ch.high \cup ch.low
    BY <1>7
  <2> QED
    BY <1>1, <1>6, <2>1 DEF Pending
<1>13. LockInv' /\ ValInv'
  <2>1. \A k \in Consumer : at'[k] \in {"read", "write", "unlock"} => at'[k] = at[k] /\ todo'[k] = todo[k]
    BY <1>6, Callers
  <2> QED
    BY <1>3, <2>1 DEF IInv, ValueInv, LockInv, ValInv, Current
<1>14. ToldInv'
  <2> SUFFICES ASSUME NEW k \in Consumer, NEW ch \in Changes(todo'[k])
               PROVE  /\ \A l \in ch.high : want'[ch.reg][l] = "high"
                      /\ \A l \in ch.low : want'[ch.reg][l] = "low"
    BY DEF ToldInv
  <2>1. CASE k = c
    <3>1. ch \in Changes(call) /\ todo'[c] = call
      BY <1>1, <1>6, <2>1
    <3>2. /\ ch.reg \in Reg /\ ch.high \subseteq Line /\ ch.low \subseteq Line /\ ch.high \cap ch.low = {}
      <4>1. ch \in ChangesOf(c)
        BY <1>4, <3>1, CallParts
      <4> QED
        BY <4>1, ConsumerAssumption DEF ChangesOf
    <3>3. \A ck \in Changes(call) : ck.reg = ch.reg => ck = ch
      BY <1>4, <3>1 DEF CallsOf, Single
    <3> QED
      BY <1>7, <3>1, <3>2, <3>3
  <2>2. CASE k # c
    <3>1. ch \in Changes(todo[k])
      BY <1>6, <2>2, Callers
    <3>2. /\ ch.reg \in Reg /\ ch.high \subseteq Owns[k] /\ ch.low \subseteq Owns[k] /\ Owns[k] \subseteq Line
      BY <1>5, <3>1, PendingOwn
    <3>3. \A ck \in Changes(call) : (ck.high \cup ck.low) \cap Owns[k] = {}
      <4>1. Changes(call) \subseteq ChangesOf(c)
        BY <1>4, CallParts
      <4> QED
        BY <2>2, <4>1, ConsumerAssumption DEF ChangesOf
    <3>4. \A l \in Owns[k] : want'[ch.reg][l] = want[ch.reg][l]
      BY <1>7, <3>2, <3>3
    <3> QED
      BY <3>1, <3>2, <3>4 DEF IInv, ValueInv, ToldInv
  <2> QED
    BY <2>1, <2>2
<1>15. HwInv' /\ ShadowInv'
  BY <1>3, <1>11, <1>12 DEF IInv, ValueInv, HwInv, ShadowInv, Loaded, Level
<1>16. KnownInv'
  <2>1. "data" \in Reg /\ "dir" \in Reg
    BY DEF Reg
  <2> QED
    BY <1>3, <1>7, <2>1 DEF IInv, ValueInv, KnownInv
<1> QED
  BY <1>8, <1>9, <1>13, <1>14, <1>15, <1>16 DEF ValueInv

\* Only a consumer takes locks, reads and writes.
LEMMA ConsumerGoes ==
  ASSUME TodoInv, NEW c \in Caller, at[c] \in {"lock", "read", "write"}
  PROVE  c \in Consumer /\ InCall(c)
BY Callers DEF TodoInv, InCall

LEMMA LockValues ==
  ASSUME IInv, NEW c \in Consumer, Lock(c)
  PROVE  ValueInv'
<1> DEFINE l == Head(todo[c]).lock
           next == IF Head(todo[c]).changes = <<>> THEN "unlock" ELSE "read"
<1>1. /\ at[c] = "lock" /\ (l \in Locks => lock[l] = "nobody")
      /\ lock' = IF l \in Locks THEN [lock EXCEPT ![l] = c] ELSE lock
      /\ at' = [at EXCEPT ![c] = next]
      /\ UNCHANGED <<dev, ready, hw, shadow, todo, val, want>>
  BY DEF Lock, Kept, coreVars
<1>2. c \in Caller /\ TypeInv /\ TodoInv /\ LockInv
  BY Callers DEF IInv, ValueInv
<1>3. \A k \in Caller : at'[k] = IF k = c THEN next ELSE at[k]
  BY <1>1 DEF IInv, UseInv, CallInv
<1>4. TypeInv'
  BY <1>1, <1>2 DEF TypeInv
<1>5. TodoInv'
  <2>1. \A k \in Users : InCall(k)' => InCall(k) /\ at'[k] = at[k]
    BY <1>3, Callers DEF InCall
  <2>2. \A k \in Consumer : k # c => at'[k] = at[k]
    BY <1>3, Callers
  <2>3. at'[c] = next
    BY <1>2, <1>3
  <2> QED
    BY <1>1, <1>2, <2>1, <2>2, <2>3 DEF TodoInv
<1>6. LockInv'
  <2> SUFFICES ASSUME NEW k \in Consumer, at'[k] \in {"read", "write", "unlock"}, Head(todo[k]).lock \in Locks
               PROVE  lock'[Head(todo[k]).lock] = k
    BY <1>1 DEF LockInv
  <2>1. CASE k = c
    BY <1>1, <1>2, <2>1 DEF TypeInv
  <2>2. CASE k # c
    <3>1. lock[Head(todo[k]).lock] = k
      BY <1>2, <1>3, <2>2, Callers DEF LockInv
    <3>2. Head(todo[k]).lock # l
      BY <1>1, <3>1, Callers
    <3> QED
      BY <1>1, <1>2, <3>1, <3>2 DEF TypeInv
  <2> QED
    BY <2>1, <2>2
<1>7. ToldInv' /\ KnownInv'
  BY <1>1 DEF IInv, ValueInv, ToldInv, KnownInv
<1>8. HwInv' /\ ShadowInv'
  <2>1. UNCHANGED <<dev, ready, hw, shadow, want, todo>>
    BY <1>1
  <2>2. HwInv /\ ShadowInv
    BY DEF IInv, ValueInv
  <2>3. HwInv'
    BY ONLY <2>1, <2>2 DEF HwInv, Pending, Level
  <2>4. ShadowInv'
    BY ONLY <2>1, <2>2 DEF ShadowInv, Pending, Loaded
  <2> QED
    BY ONLY <2>3, <2>4
<1>9. ValInv'
  <2>1. \A k \in Consumer : at'[k] = "write" => at[k] = "write"
    BY <1>3, Callers
  <2> QED
    BY <1>1, <2>1 DEF IInv, ValueInv, ValInv, Current
<1> QED
  BY <1>4, <1>5, <1>6, <1>7, <1>8, <1>9 DEF ValueInv

\* The change that a reader or a writer is at.
LEMMA AtChange ==
  ASSUME TodoInv, NEW c \in Consumer, at[c] \in {"read", "write"}
  PROVE  LET ch == Current(c) IN
         /\ todo[c] \in CallsOf(dev, c) /\ todo[c] # <<>> /\ Head(todo[c]).changes # <<>>
         /\ ch \in Changes(todo[c]) /\ ch.reg \in Reg
         /\ ch.high \subseteq Line /\ ch.low \subseteq Line /\ ch.high \cap ch.low = {}
         /\ ch.high \subseteq Owns[c] /\ ch.low \subseteq Owns[c]
         /\ ch.reg = "dir" => \A ck \in Changes(todo[c]) : ck.reg # "data"
<1>1. todo[c] \in CallsOf(dev, c) /\ todo[c] # <<>> /\ Head(todo[c]).changes # <<>>
  BY DEF TodoInv
<1>2. /\ Current(c) \in Changes(todo[c])
      /\ Current(c).reg = "dir" => \A ck \in Changes(todo[c]) : ck.reg # "data"
  BY <1>1, FirstChange DEF Current
<1> QED
  BY <1>1, <1>2, PendingOwn

LEMMA ReadValues ==
  ASSUME IInv, NEW c \in Consumer, Read(c)
  PROVE  ValueInv'
<1> DEFINE ch  == Current(c)
           old == IF Shadowed(dev, ch.reg) THEN shadow[ch.reg] ELSE hw[ch.reg]
           new == (old \ ch.low) \cup ch.high
<1>1. /\ at[c] = "read" /\ at' = [at EXCEPT ![c] = "write"] /\ val' = [val EXCEPT ![c] = new]
      /\ shadow' = IF Shadowed(dev, ch.reg) THEN [shadow EXCEPT ![ch.reg] = new] ELSE shadow
      /\ UNCHANGED <<dev, ready, hw, lock, todo, want>>
  BY DEF Read, Kept, coreVars, Current
<1>2. c \in Caller /\ TypeInv /\ TodoInv /\ LockInv
  BY Callers DEF IInv, ValueInv
<1>3. /\ ch \in Changes(todo[c]) /\ ch.reg \in Reg
      /\ ch.high \subseteq Line /\ ch.low \subseteq Line /\ ch.high \cap ch.low = {}
      /\ Head(todo[c]).changes # <<>>
  BY <1>1, <1>2, AtChange
<1> HIDE DEF ch
<1>4. /\ \A k \in Caller : at'[k] = IF k = c THEN "write" ELSE at[k]
      /\ \A k \in Caller : val'[k] = IF k = c THEN new ELSE val[k]
      /\ \A r \in Reg : shadow'[r] = IF r = ch.reg /\ Shadowed(dev, r) THEN new ELSE shadow[r]
  BY <1>1, <1>2, <1>3 DEF IInv, UseInv, CallInv, TypeInv
<1>5. TypeInv'
  <2>1. new \in SUBSET Line
    BY <1>2, <1>3 DEF TypeInv
  <2> HIDE DEF new
  <2> QED
    BY <1>1, <1>2, <1>3, <2>1 DEF TypeInv
<1>6. TodoInv'
  <2>1. \A k \in Users : InCall(k)' => InCall(k) /\ at'[k] = at[k]
    BY <1>4, Callers DEF InCall
  <2>2. \A k \in Consumer : k # c => at'[k] = at[k]
    BY <1>4, Callers
  <2>3. at'[c] = "write"
    BY <1>2, <1>4
  <2> QED
    BY <1>1, <1>2, <1>3, <2>1, <2>2, <2>3 DEF TodoInv
<1>7. LockInv'
  <2>1. \A k \in Consumer : at'[k] \in {"read", "write", "unlock"} => at[k] \in {"read", "write", "unlock"}
    BY <1>1, <1>4, Callers
  <2> QED
    BY <1>1, <1>2, <2>1 DEF LockInv
<1>8. ToldInv' /\ KnownInv' /\ HwInv'
  BY <1>1 DEF IInv, ValueInv, ToldInv, KnownInv, HwInv, Pending, Level
<1>9. ShadowInv'
  <2> SUFFICES ASSUME NEW r \in Reg, NEW l \in Line, Loaded(r), ~Pending(r, l)
               PROVE  want[r][l] \in {"any", Bit(shadow'[r], l)}
    BY <1>1 DEF ShadowInv, Loaded, Pending
  <2>1. want[r][l] \in {"any", Bit(shadow[r], l)}
    BY DEF IInv, ValueInv, ShadowInv
  <2>2. l \in shadow'[r] <=> l \in shadow[r]
    BY <1>3, <1>4 DEF Pending
  <2> QED
    BY <2>1, <2>2 DEF Bit
<1>10. ValInv'
  <2> SUFFICES ASSUME NEW k \in Consumer, at'[k] = "write"
               PROVE  LET ck == Current(k) IN
                      /\ ck.high \subseteq val'[k] /\ ck.low \cap val'[k] = {}
                      /\ Locked(dev, ck.reg) => IF Shadowed(dev, ck.reg) THEN val'[k] = shadow'[ck.reg]
                                  ELSE \A l \in Line \ (ck.high \cup ck.low) : l \in val'[k] <=> l \in hw[ck.reg]
    BY <1>1 DEF ValInv, Current
  <2>1. CASE k = c
    <3>1. val'[c] = new
      BY <1>2, <1>4
    <3>2. ch.high \subseteq new /\ ch.low \cap new = {}
      BY <1>3
    <3>3. IF Shadowed(dev, ch.reg) THEN new = shadow'[ch.reg]
          ELSE \A l \in Line \ (ch.high \cup ch.low) : l \in new <=> l \in hw[ch.reg]
      BY <1>3, <1>4
    <3> HIDE DEF new
    <3> QED
      BY <2>1, <3>1, <3>2, <3>3 DEF ch
  <2>2. CASE k # c
    <3>1. at[k] = "write" /\ val'[k] = val[k]
      BY <1>4, <2>2, Callers
    <3>2. Current(k).reg \in Reg
      BY <1>2, <3>1, AtChange
    <3>3. Locked(dev, Current(k).reg) => Current(k).reg # ch.reg
      BY <1>1, <1>2, <2>2, <3>1, Exclusion DEF ch
    <3>4. Locked(dev, Current(k).reg) => shadow'[Current(k).reg] = shadow[Current(k).reg]
      BY <1>4, <3>2, <3>3
    <3> QED
      BY <3>1, <3>4 DEF IInv, ValueInv, ValInv
  <2> QED
    BY <2>1, <2>2
<1> QED
  BY <1>5, <1>6, <1>7, <1>8, <1>9, <1>10 DEF ValueInv

LEMMA UnlockValues ==
  ASSUME IInv, NEW c \in Caller, Unlock(c)
  PROVE  ValueInv'
<1> DEFINE l == Head(todo[c]).lock
           next == IF Len(todo[c]) > 1 THEN "lock" ELSE IF c = "file" THEN "open" ELSE "idle"
<1>1. /\ at[c] = "unlock" /\ todo' = [todo EXCEPT ![c] = Tail(@)]
      /\ lock' = IF l \in Locks THEN [lock EXCEPT ![l] = "nobody"] ELSE lock
      /\ at' = [at EXCEPT ![c] = next]
      /\ UNCHANGED <<dev, ready, hw, shadow, val, want>>
  BY DEF Unlock, Kept, coreVars
<1>2. TypeInv /\ TodoInv /\ LockInv
  BY DEF IInv, ValueInv
<1>3. \A k \in Caller : /\ at'[k] = IF k = c THEN next ELSE at[k]
                        /\ todo'[k] = IF k = c THEN Tail(todo[c]) ELSE todo[k]
  BY <1>1, <1>2 DEF IInv, UseInv, CallInv, TypeInv
<1>4. TypeInv'
  BY <1>1, <1>2, Callers DEF TypeInv
<1>5. c \in Consumer => /\ todo[c] \in CallsOf(dev, c) /\ todo[c] # <<>> /\ Head(todo[c]).changes = <<>>
                        /\ Tail(todo[c]) \in CallsOf(dev, c) /\ Changes(Tail(todo[c])) = Changes(todo[c])
                        /\ Len(todo[c]) > 1 <=> Tail(todo[c]) # <<>>
  <2> SUFFICES ASSUME c \in Consumer
               PROVE  /\ todo[c] \in CallsOf(dev, c) /\ todo[c] # <<>> /\ Head(todo[c]).changes = <<>>
                      /\ Tail(todo[c]) \in CallsOf(dev, c) /\ Changes(Tail(todo[c])) = Changes(todo[c])
                      /\ Len(todo[c]) > 1 <=> Tail(todo[c]) # <<>>
    OBVIOUS
  <2>1. todo[c] \in CallsOf(dev, c) /\ todo[c] # <<>> /\ Head(todo[c]).changes = <<>>
    BY <1>1, <1>2 DEF TodoInv
  <2> QED
    BY <2>1, PopSection
<1>6. c \in Users => l \notin Locks /\ ~(Len(todo[c]) > 1)
  <2> SUFFICES ASSUME c \in Users PROVE l \notin Locks /\ ~(Len(todo[c]) > 1)
    OBVIOUS
  <2>1. todo[c] = <<Section("no_lock", <<>>)>>
    BY <1>1, <1>2 DEF TodoInv, InCall
  <2> QED
    BY <2>1, SectionIs DEF Locks
<1>7. TodoInv'
  <2>1. \A k \in Users : InCall(k)' => InCall(k) /\ at'[k] = at[k] /\ todo'[k] = todo[k]
    BY <1>3, <1>6, Callers DEF InCall
  <2>2. \A k \in Consumer : k # c => at'[k] = at[k] /\ todo'[k] = todo[k]
    BY <1>3, Callers
  <2>3. c \in Consumer => at'[c] = (IF Tail(todo[c]) # <<>> THEN "lock" ELSE "idle") /\ todo'[c] = Tail(todo[c])
    BY <1>3, <1>5, Callers
  <2>4. ASSUME NEW k \in Users, InCall(k)' PROVE at'[k] = "unlock" /\ todo'[k] = <<Section("no_lock", <<>>)>>
    BY <1>2, <2>1, <2>4 DEF TodoInv
  <2>5. ASSUME NEW k \in Consumer
        PROVE  /\ todo'[k] \in CallsOf(dev, k)
               /\ todo'[k] = <<>> <=> at'[k] = "idle"
               /\ at'[k] \in {"read", "write"} => Head(todo'[k]).changes # <<>>
               /\ at'[k] = "unlock" => Head(todo'[k]).changes = <<>>
    <3>1. CASE k = c
      <4>1. todo'[k] \in CallsOf(dev, k) /\ (todo'[k] = <<>> <=> at'[k] = "idle") /\ at'[k] \in {"lock", "idle"}
        BY <1>5, <2>3, <3>1
      <4> QED
        BY <4>1
    <3>2. CASE k # c
      BY <1>2, <2>2, <3>2 DEF TodoInv
    <3> QED
      BY <3>1, <3>2
  <2> QED
    BY <1>1, <2>4, <2>5 DEF TodoInv
<1>8. LockInv'
  <2> SUFFICES ASSUME NEW k \in Consumer, at'[k] \in {"read", "write", "unlock"}, Head(todo'[k]).lock \in Locks
               PROVE  lock'[Head(todo'[k]).lock] = k
    BY DEF LockInv
  <2>1. k # c
    BY <1>3, Callers
  <2>2. at'[k] = at[k] /\ todo'[k] = todo[k]
    BY <1>3, <2>1, Callers
  <2>3. lock[Head(todo[k]).lock] = k
    BY <1>2, <2>2 DEF LockInv
  <2>4. l \in Locks => lock[l] = c
    BY <1>1, <1>2, <1>6, Callers DEF LockInv
  <2> QED
    BY <1>1, <1>2, <2>1, <2>2, <2>3, <2>4 DEF TypeInv
<1>9. \A k \in Consumer : Changes(todo'[k]) = Changes(todo[k])
  BY <1>3, <1>5, Callers
<1>10. ToldInv' /\ KnownInv'
  BY <1>1, <1>9 DEF IInv, ValueInv, ToldInv, KnownInv
<1>11. HwInv' /\ ShadowInv'
  <2>1. \A r, bit : Pending(r, bit)' <=> Pending(r, bit)
    BY ONLY <1>9 DEF Pending
  <2>2. UNCHANGED <<dev, ready, hw, shadow, want>>
    BY <1>1
  <2>3. HwInv /\ ShadowInv
    BY DEF IInv, ValueInv
  <2>4. HwInv'
    BY ONLY <2>1, <2>2, <2>3 DEF HwInv, Level
  <2>5. ShadowInv'
    BY ONLY <2>1, <2>2, <2>3 DEF ShadowInv, Loaded
  <2> QED
    BY ONLY <2>4, <2>5
<1>12. ValInv'
  <2>1. \A k \in Consumer : at'[k] = "write" => at[k] = "write" /\ todo'[k] = todo[k]
    BY <1>3, Callers
  <2> QED
    BY <1>1, <2>1 DEF IInv, ValueInv, ValInv, Current
<1> QED
  BY <1>4, <1>7, <1>8, <1>10, <1>11, <1>12 DEF ValueInv

\* A write puts the change in the register, and every other line of a register
\* that is changed under a lock keeps what it was last told.
LEMMA WriteEffect ==
  ASSUME IInv, NEW c \in Consumer, Write(c)
  PROVE  LET ch == Current(c) IN
         /\ at[c] = "write" /\ ch \in Changes(todo[c]) /\ ch.reg \in Reg
         /\ hw' = [hw EXCEPT ![ch.reg] = val[c]]
         /\ todo'[c] \in CallsOf(dev, c) /\ todo'[c] # <<>>
         /\ Head(todo'[c]).lock = Head(todo[c]).lock
         /\ at'[c] = IF Head(todo'[c]).changes # <<>> THEN "read" ELSE "unlock"
         /\ \A k \in Caller : k # c => at'[k] = at[k] /\ todo'[k] = todo[k] /\ val'[k] = val[k]
         /\ \A k \in Consumer : Changes(todo'[k]) \subseteq Changes(todo[k])
         /\ \A r, l : Pending(r, l) => \/ Pending(r, l)'
                                       \/ r = ch.reg /\ l \in ch.high \cup ch.low
         /\ val' \in [Caller -> SUBSET Line] /\ DOMAIN todo' = Caller
         /\ UNCHANGED <<dev, stage, ready, shadow, lock, want>>
<1> DEFINE ch   == Current(c)
           call == todo[c]
           left == Tail(Head(call).changes)
           rest == [call EXCEPT ![1].changes = left]
<1>1. TypeInv /\ TodoInv /\ c \in Caller
  BY Callers DEF IInv, ValueInv
<1>2. /\ at[c] = "write" /\ hw' = [hw EXCEPT ![ch.reg] = val[c]]
      /\ todo' = [todo EXCEPT ![c][1].changes = left]
      /\ at' = [at EXCEPT ![c] = IF Len(Head(call).changes) > 1 THEN "read" ELSE "unlock"]
      /\ val' = [val EXCEPT ![c] = {}]
      /\ UNCHANGED <<dev, stage, ready, shadow, lock, want>>
  BY DEF Write, Kept, coreVars, Current
<1>3. /\ call \in CallsOf(dev, c) /\ call # <<>> /\ Head(call).changes # <<>>
      /\ ch \in Changes(call) /\ ch.reg \in Reg
  BY <1>1, <1>2, AtChange
<1>4. /\ rest \in CallsOf(dev, c) /\ rest # <<>>
      /\ Head(rest).changes = left /\ Head(rest).lock = Head(call).lock
      /\ Changes(rest) \subseteq Changes(call)
      /\ Changes(call) \subseteq Changes(rest) \cup {ch}
      /\ Len(Head(call).changes) > 1 <=> left # <<>>
  <2>1. ch = Head(Head(call).changes)
    BY DEF Current
  <2> HIDE DEF ch
  <2>2. /\ rest \in CallsOf(dev, c) /\ rest # <<>>
        /\ Head(rest).changes = left /\ Head(rest).lock = Head(call).lock
        /\ Changes(rest) \subseteq Changes(call)
        /\ Changes(call) \subseteq Changes(rest) \cup {Head(Head(call).changes)}
        /\ Len(Head(call).changes) > 1 <=> left # <<>>
    <3> HIDE DEF call
    <3> QED
      BY ONLY <1>3, PopChange
  <2> QED
    BY ONLY <2>1, <2>2
<1>5. todo'[c] = rest /\ DOMAIN todo' = Caller /\ \A k \in Caller : k # c => todo'[k] = todo[k]
  BY <1>1, <1>2 DEF TypeInv
<1> HIDE DEF rest, left, ch
<1>6. /\ at'[c] = (IF Head(rest).changes # <<>> THEN "read" ELSE "unlock")
      /\ \A k \in Caller : k # c => at'[k] = at[k]
  BY <1>1, <1>2, <1>4 DEF IInv, UseInv, CallInv
<1>7. val' \in [Caller -> SUBSET Line] /\ \A k \in Caller : k # c => val'[k] = val[k]
  BY <1>1, <1>2 DEF TypeInv
<1>8. \A k \in Consumer : /\ Changes(todo'[k]) \subseteq Changes(todo[k])
                          /\ Changes(todo[k]) \subseteq Changes(todo'[k]) \cup {ch}
  BY <1>4, <1>5, Callers
<1>9. \A r, l : Pending(r, l) => \/ Pending(r, l)'
                                 \/ r = ch.reg /\ l \in ch.high \cup ch.low
  BY <1>8 DEF Pending
<1> QED
  BY <1>2, <1>3, <1>4, <1>5, <1>6, <1>7, <1>8, <1>9 DEF ch

\* What the register has after the write.
LEMMA WrittenIsTold ==
  ASSUME IInv, NEW c \in Consumer, Write(c), NEW r \in Reg, r = Current(c).reg, Locked(dev, r),
         NEW l \in Line, ~Pending(r, l)'
  PROVE  /\ want[r][l] \in {"any", Bit(val[c], l)}
         /\ Shadowed(dev, r) => val[c] = shadow[r]
<1> DEFINE ch == Current(c)
<1>1. TypeInv /\ TodoInv /\ LockInv /\ ToldInv /\ HwInv /\ ShadowInv /\ ValInv
  BY DEF IInv, ValueInv
<1>2. /\ at[c] = "write" /\ ch \in Changes(todo[c]) /\ r = ch.reg
      /\ Pending(r, l) => l \in ch.high \cup ch.low
  BY WriteEffect
<1>3. /\ ch.high \subseteq val[c] /\ ch.low \cap val[c] = {}
      /\ IF Shadowed(dev, r) THEN val[c] = shadow[r]
         ELSE \A k \in Line \ (ch.high \cup ch.low) : k \in val[c] <=> k \in hw[r]
  BY <1>1, <1>2 DEF ValInv
<1>4. (l \in ch.high => want[r][l] = "high") /\ (l \in ch.low => want[r][l] = "low")
  BY <1>1, <1>2 DEF ToldInv
<1>5. CASE l \in ch.high \cup ch.low
  BY <1>3, <1>4, <1>5 DEF Bit
<1>6. CASE l \notin ch.high \cup ch.low /\ ~Shadowed(dev, r)
  <2>1. want[r][l] \in {"any", Level(r, l)}
    BY <1>1, <1>2, <1>6 DEF HwInv
  <2>2. l \in val[c] <=> l \in hw[r]
    BY <1>3, <1>6
  <2> QED
    BY <1>6, <2>1, <2>2 DEF Level, Bit
<1>7. CASE l \notin ch.high \cup ch.low /\ Shadowed(dev, r)
  <2>1. Loaded(r)
    <3>1. r = "mask" \/ r \in {"data", "dir"}
      BY <1>2, <1>7, LockedRegisters
    <3>2. r \in {"data", "dir"} => dev.gpioModel
      BY <1>2, LockedRegisters
    <3>3. InCall(c)
      BY <1>2 DEF InCall
    <3> QED
      BY <1>7, <3>1, <3>2, <3>3, CallsFindShadows DEF Loaded, IInv
  <2>2. want[r][l] \in {"any", Bit(shadow[r], l)}
    BY <1>1, <1>2, <1>7, <2>1 DEF ShadowInv
  <2> QED
    BY <1>3, <1>7, <2>2
<1> QED
  BY <1>3, <1>5, <1>6, <1>7

LEMMA WriteValues ==
  ASSUME IInv, NEW c \in Consumer, Write(c)
  PROVE  ValueInv'
<1> DEFINE ch == Current(c)
<1>12. PICK r \in Reg : r = ch.reg
  BY WriteEffect
<1>1. TypeInv /\ TodoInv /\ LockInv /\ ToldInv /\ HwInv /\ ShadowInv /\ ValInv /\ KnownInv /\ c \in Caller
  BY Callers DEF IInv, ValueInv
<1>2. /\ at[c] = "write" /\ ch \in Changes(todo[c])
      /\ hw' = [hw EXCEPT ![r] = val[c]]
      /\ todo'[c] \in CallsOf(dev, c) /\ todo'[c] # <<>>
      /\ Head(todo'[c]).lock = Head(todo[c]).lock
      /\ at'[c] = IF Head(todo'[c]).changes # <<>> THEN "read" ELSE "unlock"
      /\ \A k \in Caller : k # c => at'[k] = at[k] /\ todo'[k] = todo[k] /\ val'[k] = val[k]
      /\ \A k \in Consumer : Changes(todo'[k]) \subseteq Changes(todo[k])
      /\ \A rr, l : Pending(rr, l) => Pending(rr, l)' \/ (rr = r /\ l \in ch.high \cup ch.low)
      /\ val' \in [Caller -> SUBSET Line] /\ DOMAIN todo' = Caller
      /\ UNCHANGED <<dev, ready, shadow, lock, want>>
  BY <1>12, WriteEffect
<1>3. \A l \in Line : Locked(dev, r) /\ ~Pending(r, l)' =>
         /\ want[r][l] \in {"any", Bit(val[c], l)}
         /\ Shadowed(dev, r) => val[c] = shadow[r]
  BY <1>12, WrittenIsTold
<1> HIDE DEF ch
<1>4. hw'[r] = val[c] /\ \A q \in Reg : q # r => hw'[q] = hw[q]
  BY <1>1, <1>2 DEF TypeInv
<1>5. TypeInv'
  <2>1. hw' \in [Reg -> SUBSET Line]
    BY <1>1, <1>2 DEF TypeInv
  <2> QED
    BY <1>1, <1>2, <2>1 DEF TypeInv
<1>6. TodoInv'
  <2>1. ASSUME NEW k \in Users, InCall(k)' PROVE at'[k] = "unlock" /\ todo'[k] = <<Section("no_lock", <<>>)>>
    <3>1. k # c /\ k \in Caller
      BY Callers
    <3> QED
      BY <1>1, <1>2, <2>1, <3>1 DEF TodoInv, InCall
  <2>2. ASSUME NEW k \in Consumer
        PROVE  /\ todo'[k] \in CallsOf(dev, k)
               /\ todo'[k] = <<>> <=> at'[k] = "idle"
               /\ at'[k] \in {"read", "write"} => Head(todo'[k]).changes # <<>>
               /\ at'[k] = "unlock" => Head(todo'[k]).changes = <<>>
    <3>1. CASE k = c
      BY <1>2, <3>1
    <3>2. CASE k # c
      BY <1>1, <1>2, <3>2, Callers DEF TodoInv
    <3> QED
      BY <3>1, <3>2
  <2> QED
    BY <1>2, <2>1, <2>2 DEF TodoInv
<1>7. LockInv'
  <2> SUFFICES ASSUME NEW k \in Consumer, at'[k] \in {"read", "write", "unlock"}, Head(todo'[k]).lock \in Locks
               PROVE  lock'[Head(todo'[k]).lock] = k
    BY DEF LockInv
  <2>1. at[k] \in {"read", "write", "unlock"} /\ Head(todo'[k]).lock = Head(todo[k]).lock
    BY <1>2, Callers
  <2> QED
    BY <1>1, <1>2, <2>1 DEF LockInv
<1>8. ToldInv' /\ KnownInv'
  <2>1. UNCHANGED <<ready, want>> /\ \A k \in Consumer : Changes(todo'[k]) \subseteq Changes(todo[k])
    BY <1>2
  <2>2. ToldInv /\ KnownInv
    BY <1>1
  <2>3. ToldInv'
    BY ONLY <2>1, <2>2 DEF ToldInv
  <2>4. KnownInv'
    BY ONLY <2>1, <2>2 DEF KnownInv
  <2> QED
    BY ONLY <2>3, <2>4
<1>9. HwInv'
  <2> SUFFICES ASSUME NEW q \in Reg, NEW l \in Line, Locked(dev, q), ~Pending(q, l)'
               PROVE  want[q][l] \in {"any", Bit(hw'[q], l)}
    BY <1>2 DEF HwInv, Level, Bit
  <2>1. CASE q = r
    BY <1>3, <1>4, <2>1
  <2>2. CASE q # r
    <3>1. ~Pending(q, l)
      BY <1>2, <2>2
    <3> QED
      BY <1>1, <1>4, <2>2, <3>1 DEF HwInv, Level, Bit
  <2> QED
    BY <2>1, <2>2
<1>10. ShadowInv'
  <2> SUFFICES ASSUME NEW q \in Reg, NEW l \in Line, Loaded(q), ~Pending(q, l)'
               PROVE  want[q][l] \in {"any", Bit(shadow[q], l)}
    BY <1>2 DEF ShadowInv, Loaded
  <2>1. CASE q = r
    BY <1>3, <2>1 DEF Loaded
  <2>2. CASE q # r
    <3>1. ~Pending(q, l)
      BY <1>2, <2>2
    <3> QED
      BY <1>1, <3>1 DEF ShadowInv
  <2> QED
    BY <2>1, <2>2
<1>11. ValInv'
  <2> SUFFICES ASSUME NEW k \in Consumer, at'[k] = "write"
               PROVE  LET ck == Current(k)' IN
                      /\ ck.high \subseteq val'[k] /\ ck.low \cap val'[k] = {}
                      /\ Locked(dev, ck.reg) => IF Shadowed(dev, ck.reg) THEN val'[k] = shadow[ck.reg]
                                  ELSE \A l \in Line \ (ck.high \cup ck.low) : l \in val'[k] <=> l \in hw'[ck.reg]
    BY <1>2 DEF ValInv
  <2>1. k # c
    BY <1>2
  <2>2. at[k] = "write" /\ val'[k] = val[k] /\ Current(k)' = Current(k)
    BY <1>2, <2>1, Callers DEF Current
  <2>3. Current(k).reg \in Reg
    BY <1>1, <2>2, AtChange
  <2>4. Locked(dev, Current(k).reg) => Current(k).reg # r
    BY <1>1, <1>2, <1>12, <2>1, <2>2, Exclusion DEF ch
  <2>5. Locked(dev, Current(k).reg) => hw'[Current(k).reg] = hw[Current(k).reg]
    BY <1>4, <2>3, <2>4
  <2>6. /\ Current(k).high \subseteq val[k] /\ Current(k).low \cap val[k] = {}
        /\ Locked(dev, Current(k).reg) => IF Shadowed(dev, Current(k).reg) THEN val[k] = shadow[Current(k).reg]
             ELSE \A l \in Line \ (Current(k).high \cup Current(k).low) : l \in val[k] <=> l \in hw[Current(k).reg]
    BY <1>1, <2>2 DEF ValInv
  <2> QED
    BY <2>2, <2>5, <2>6
<1> QED
  BY <1>5, <1>6, <1>7, <1>8, <1>9, <1>10, <1>11 DEF ValueInv

LEMMA ValueStep ==
  ASSUME IInv, [Next]_vars
  PROVE  ValueInv'
<1>1. CASE UNCHANGED vars
  BY <1>1, Frame DEF vars, coreVars, callerVars, IInv
<1>2. CASE Bind \/ Unbind \/ Acquired \/ Failed \/ Probed \/ Undo \/ Undone \/ Release
  <2>1. UNCHANGED <<dev, hw, shadow, lock, todo, val, want, at>> /\ ready' \subseteq ready
    BY <1>2 DEF Bind, Unbind, Acquired, Failed, Probed, Undo, Undone, Release, callerVars
  <2> QED
    BY <2>1, Frame DEF IInv
<1>3. CASE Done
  BY <1>3, DoneValues
<1>4. CASE Released
  BY <1>4, ReleasedValues
<1>5. CASE Open \/ Close
  <2>1. UNCHANGED <<dev, hw, shadow, lock, todo, val, want, ready>>
    BY <1>5 DEF Open, Close, coreVars
  <2>2. \/ at' = [at EXCEPT !["file"] = "open"]
        \/ at' = [at EXCEPT !["file"] = "idle"]
    BY <1>5 DEF Open, Close, Kept
  <2>3. at \in [Caller -> {"idle", "open", "lock", "read", "write", "unlock"}]
    BY DEF IInv, UseInv, CallInv
  <2>4. \A c \in Consumer : at'[c] = at[c]
    BY <2>2, <2>3, Callers
  <2>5. \A c \in Users : InCall(c)' => at'[c] = at[c]
    BY <2>2, <2>3, Callers DEF InCall
  <2> QED
    BY <2>1, <2>4, <2>5, Frame DEF IInv
<1>6. ASSUME NEW c \in Caller, Enter(c) PROVE ValueInv'
  BY <1>6, UserEnters, ConsumerEnters, Callers
<1>7. ASSUME NEW c \in Caller, Go(c) PROVE ValueInv'
  <2>1. Unlock(c) \/ (c \in Consumer /\ (Lock(c) \/ Read(c) \/ Write(c)))
    <3>1. Lock(c) \/ Read(c) \/ Write(c) => at[c] \in {"lock", "read", "write"}
      BY DEF Lock, Read, Write
    <3>2. TodoInv
      BY DEF IInv, ValueInv
    <3>3. at[c] \in {"lock", "read", "write"} => c \in Consumer
      BY ONLY <3>2, c \in Caller, ConsumerGoes
    <3> QED
      BY ONLY <1>7, <3>1, <3>3 DEF Go
  <2> QED
    BY <2>1, LockValues, ReadValues, WriteValues, UnlockValues
<1> QED
  BY <1>1, <1>2, <1>3, <1>4, <1>5, <1>6, <1>7 DEF Next, Core

LEMMA Always == Spec => []IInv
<1>1. Init => IInv
  BY UseStart, ValueStart DEF IInv
<1>2. IInv /\ [Next]_vars => IInv'
  BY UseStep, MadeStep, ValueStep DEF IInv, UseInv
<1> QED
  BY <1>1, <1>2, PTL DEF Spec

\* A consumer's lines keep what it last told them to be, whatever the others do
\* (the spinlocks of _emit_source_gpio_callbacks and of the generic chip's mask).
THEOREM UpdatesAreKept == Spec => []NoLostUpdate
<1>1. IInv => NoLostUpdate
  <2> SUFFICES ASSUME IInv, NEW c \in Consumer, NEW r \in Reg, NEW l \in Line,
                      l \in Owns[c], ~InCall(c), Locked(dev, r)
               PROVE  want[r][l] \in {"any", Level(r, l)}
    BY DEF NoLostUpdate
  <2>1. TodoInv /\ HwInv
    BY DEF IInv, ValueInv
  <2>2. Changes(todo[c]) = {}
    <3>1. at[c] = "idle"
      BY Callers DEF IInv, UseInv, CallInv, InCall
    <3> QED
      BY <2>1, <3>1, NoChanges DEF TodoInv
  <2>3. \A k \in Consumer : \A ch \in Changes(todo[k]) : k # c => l \notin ch.high \cup ch.low
    BY <2>1, PendingOwn
  <2>4. ~Pending(r, l)
    BY <2>2, <2>3 DEF Pending
  <2> QED
    BY <2>1, <2>4 DEF HwInv
<1> QED
  BY <1>1, Always, PTL

\* A loaded shadow differs from its register in what is being written only.
Writing(r, l) == \E c \in Consumer : /\ at[c] = "write" /\ Current(c).reg = r
                                     /\ l \in Current(c).high \cup Current(c).low
SyncInv == \A r \in {"data", "dir"}, l \in Line :
               Loaded(r) => (l \in shadow[r] <=> l \in hw[r]) \/ Writing(r, l)

LEMMA SyncDone ==
  ASSUME IInv, SyncInv, Done
  PROVE  SyncInv'
<1>1. /\ Now.what \notin ready /\ (Now.what = "init" => "gpio_cache" \notin ready)
  BY MakesFirst DEF IInv, UseInv
<1>2. /\ ready' = ready \cup {Now.what}
      /\ hw' \in IF Now.what = "init" THEN Registers ELSE {hw}
      /\ shadow' = IF Now.what = "gpio_cache" THEN [shadow EXCEPT !["data"] = hw["data"], !["dir"] = hw["dir"]]
                   ELSE shadow
      /\ UNCHANGED <<dev, at, todo>>
  BY DEF Done, callerVars
<1> SUFFICES ASSUME NEW r \in {"data", "dir"}, NEW l \in Line, Loaded(r)', ~Writing(r, l)
             PROVE  l \in shadow'[r] <=> l \in hw'[r]
  BY <1>2 DEF SyncInv, Writing, Current
<1>3. Now.what = "gpio_cache" \/ (Now.what # "init" /\ Loaded(r))
  BY <1>1, <1>2 DEF Loaded
<1>4. CASE Now.what = "gpio_cache"
  <2>1. shadow'[r] = hw[r] /\ hw' = hw
    BY <1>2, <1>4 DEF IInv, ValueInv, TypeInv, Reg
  <2> QED
    BY <2>1
<1>5. CASE Now.what # "init" /\ Now.what # "gpio_cache" /\ Loaded(r)
  BY <1>2, <1>5 DEF SyncInv
<1> QED
  BY <1>3, <1>4, <1>5

LEMMA SyncRead ==
  ASSUME IInv, SyncInv, NEW c \in Consumer, Read(c)
  PROVE  SyncInv'
<1> DEFINE ch  == Current(c)
           old == IF Shadowed(dev, ch.reg) THEN shadow[ch.reg] ELSE hw[ch.reg]
           new == (old \ ch.low) \cup ch.high
<1>1. /\ at[c] = "read" /\ at' = [at EXCEPT ![c] = "write"]
      /\ shadow' = IF Shadowed(dev, ch.reg) THEN [shadow EXCEPT ![ch.reg] = new] ELSE shadow
      /\ UNCHANGED <<dev, ready, hw, todo>>
  BY DEF Read, Kept, coreVars, Current
<1>2. c \in Caller /\ TypeInv /\ TodoInv
  BY Callers DEF IInv, ValueInv
<1>3. ch.reg \in Reg /\ Current(c)' = ch
  BY <1>1, <1>2, AtChange DEF Current
<1> HIDE DEF ch
<1>4. /\ \A k \in Caller : at'[k] = IF k = c THEN "write" ELSE at[k]
      /\ \A r \in Reg : shadow'[r] = IF r = ch.reg /\ Shadowed(dev, r) THEN new ELSE shadow[r]
  BY <1>1, <1>2, <1>3 DEF IInv, UseInv, CallInv, TypeInv
<1> SUFFICES ASSUME NEW r \in {"data", "dir"}, NEW l \in Line, Loaded(r), ~Writing(r, l)'
             PROVE  l \in shadow'[r] <=> l \in hw[r]
  BY <1>1 DEF SyncInv, Loaded
<1>5. ~Writing(r, l)
  <2>1. \A k \in Consumer : at[k] = "write" => at'[k] = "write" /\ Current(k)' = Current(k)
    BY <1>1, <1>4, Callers DEF Current
  <2> QED
    BY <2>1 DEF Writing
<1>6. r = ch.reg => l \notin ch.high \cup ch.low
  BY <1>2, <1>3, <1>4 DEF Writing
<1>7. l \in shadow[r] <=> l \in hw[r]
  BY <1>5 DEF SyncInv
<1>8. r \in Reg
  BY DEF Reg
<1> QED
  BY <1>4, <1>6, <1>7, <1>8

LEMMA SyncWrite ==
  ASSUME IInv, SyncInv, NEW c \in Consumer, Write(c)
  PROVE  SyncInv'
<1>1. TypeInv /\ ValInv
  BY DEF IInv, ValueInv
<1>2. /\ at[c] = "write" /\ hw' = [hw EXCEPT ![Current(c).reg] = val[c]]
      /\ \A k \in Caller : k # c => at'[k] = at[k] /\ todo'[k] = todo[k]
      /\ UNCHANGED <<dev, ready, shadow>>
  BY WriteEffect
<1> SUFFICES ASSUME NEW r \in {"data", "dir"}, NEW l \in Line, Loaded(r), ~Writing(r, l)'
             PROVE  l \in shadow[r] <=> l \in hw'[r]
  BY <1>2 DEF SyncInv, Loaded
<1>3. r \in Reg
  BY DEF Reg
<1>4. CASE r = Current(c).reg
  <2>1. val[c] = shadow[r]
    BY <1>1, <1>2, <1>4 DEF ValInv, Loaded
  <2> QED
    BY <1>1, <1>2, <1>3, <1>4, <2>1 DEF TypeInv
<1>5. CASE r # Current(c).reg
  <2>1. \A k \in Consumer : k # c => at'[k] = at[k] /\ Current(k)' = Current(k)
    BY <1>2, Callers DEF Current
  <2>2. ~Writing(r, l)
    BY <1>5, <2>1 DEF Writing
  <2> QED
    BY <1>1, <1>2, <1>3, <1>5, <2>2 DEF TypeInv, SyncInv
<1> QED
  BY <1>4, <1>5

LEMMA SyncStep ==
  ASSUME IInv, SyncInv, [Next]_vars
  PROVE  SyncInv'
<1>1. at \in [Caller -> {"idle", "open", "lock", "read", "write", "unlock"}] /\ DOMAIN todo = Caller
  BY DEF IInv, UseInv, CallInv, ValueInv, TypeInv
<1>2. ASSUME UNCHANGED <<dev, hw, shadow>>, ready' \subseteq ready,
             \A c \in Consumer : at[c] = "write" => at'[c] = "write" /\ todo'[c] = todo[c]
      PROVE  SyncInv'
  <2>1. \A r, l : Writing(r, l) => Writing(r, l)'
    BY <1>2 DEF Writing, Current
  <2> QED
    BY <1>2, <2>1 DEF SyncInv, Loaded
<1>3. CASE UNCHANGED vars
  BY <1>2, <1>3 DEF vars, coreVars, callerVars
<1>4. CASE Bind \/ Unbind \/ Acquired \/ Failed \/ Probed \/ Undo \/ Undone \/ Release
  BY <1>2, <1>4 DEF Bind, Unbind, Acquired, Failed, Probed, Undo, Undone, Release, callerVars
<1>5. CASE Done
  BY <1>5, SyncDone
<1>6. CASE Released
  BY <1>6 DEF Released, SyncInv, Loaded
<1>7. CASE Open \/ Close
  <2>1. UNCHANGED <<dev, hw, shadow, todo, ready>>
    BY <1>7 DEF Open, Close, coreVars
  <2>2. \/ at' = [at EXCEPT !["file"] = "open"]
        \/ at' = [at EXCEPT !["file"] = "idle"]
    BY <1>7 DEF Open, Close, Kept
  <2>3. \A c \in Consumer : at'[c] = at[c]
    BY <1>1, <2>2, Callers
  <2> QED
    BY <1>2, <2>1, <2>3
<1>8. ASSUME NEW c \in Caller, Enter(c) \/ Lock(c) \/ Unlock(c) PROVE SyncInv'
  <2>1. at[c] # "write" /\ UNCHANGED <<dev, hw, shadow, ready>>
    BY <1>8 DEF Enter, Lock, Unlock, coreVars
  <2>2. \A k \in Caller : k # c => at'[k] = at[k] /\ todo'[k] = todo[k]
    BY <1>1, <1>8 DEF Enter, Lock, Unlock, Kept
  <2> QED
    BY <1>2, <2>1, <2>2, Callers
<1>9. ASSUME NEW c \in Caller, Read(c) \/ Write(c) PROVE SyncInv'
  <2>1. TodoInv
    BY DEF IInv, ValueInv
  <2>2. at[c] \in {"lock", "read", "write"}
    BY <1>9 DEF Read, Write
  <2>3. c \in Consumer
    BY ONLY <2>1, <2>2, c \in Caller, ConsumerGoes
  <2>4. CASE Read(c)
    BY ONLY IInv, SyncInv, <2>3, <2>4, SyncRead
  <2>5. CASE Write(c)
    BY ONLY IInv, SyncInv, <2>3, <2>5, SyncWrite
  <2> QED
    BY ONLY <1>9, <2>4, <2>5
<1> QED
  BY <1>3, <1>4, <1>5, <1>6, <1>7, <1>8, <1>9 DEF Next, Core, Go

\* Steps that write no register leave the directions alone.
LEMMA WritersOnly ==
  ASSUME IInv, [Next]_vars, hw' # hw, stage' = stage, ready' = ready
  PROVE  \E c \in Consumer : Write(c)
<1>1. ~Done
  <2>1. Done => Now.what \notin ready /\ ready' = ready \cup {Now.what}
    BY MakesFirst DEF Done, IInv, UseInv
  <2> QED
    BY <2>1
<1>2. ~Released
  BY DEF Released
<1>3. \E c \in Caller : Write(c)
  BY <1>1, <1>2 DEF Next, Core, Bind, Acquired, Failed, Probed, Unbind, Undo, Undone, Release, Open, Close,
     Enter, Go, Lock, Read, Unlock, vars
<1> QED
  BY <1>3, ConsumerGoes DEF IInv, ValueInv, Write

\* A line becomes an output only when its register has the value that was asked
\* for, and no line becomes one that nobody makes one.
LEMMA DrivenIsTold ==
  ASSUME IInv, SyncInv, NEW c \in Consumer, Write(c), Locked(dev, "data"), NEW l \in hw'["dir"] \ hw["dir"]
  PROVE  want["data"][l] = Level("data", l)
<1> DEFINE ch == Current(c)
<1>1. TypeInv /\ TodoInv /\ LockInv /\ HwInv /\ ValInv /\ KnownInv
  BY DEF IInv, ValueInv
<1>2. at[c] = "write" /\ hw' = [hw EXCEPT ![ch.reg] = val[c]] /\ val[c] \subseteq Line
  BY <1>1, WriteEffect, Callers DEF TypeInv
<1>3. "dir" \in Reg /\ "data" \in Reg /\ Locked(dev, "dir") /\ dev.gpioModel /\ InCall(c)
  BY <1>2, LockedRegisters DEF Reg, InCall
<1>4. ch.reg = "dir" /\ l \in val[c] /\ l \in Line /\ l \notin hw["dir"]
  BY <1>1, <1>2, <1>3 DEF TypeInv
<1>5. "init" \in ready /\ "gpio_cache" \in ready
  BY <1>3, CallsFindShadows DEF IInv
<1>6. Shadowed(dev, "dir")
  BY <1>3 DEF Shadowed
<1>7. val[c] = shadow["dir"] /\ ch.low \cap val[c] = {}
  BY <1>1, <1>2, <1>3, <1>4, <1>6 DEF ValInv
<1>8. Writing("dir", l)
  BY <1>3, <1>4, <1>5, <1>6, <1>7 DEF SyncInv, Loaded
<1>9. PICK k \in Consumer : at[k] = "write" /\ Current(k).reg = "dir" /\ l \in Current(k).high \cup Current(k).low
  BY <1>8 DEF Writing
<1>10. k = c
  BY <1>1, <1>2, <1>3, <1>4, <1>9, Exclusion
<1>11. /\ l \in Owns[c] /\ \A ck \in Changes(todo[c]) : ck.reg # "data"
  BY <1>1, <1>2, <1>4, <1>9, <1>10, AtChange
<1>12. ~Pending("data", l)
  <2>1. \A b \in Consumer : \A ck \in Changes(todo[b]) : b # c => l \notin ck.high \cup ck.low
    BY <1>1, <1>11, PendingOwn
  <2> QED
    BY <1>11, <2>1 DEF Pending
<1>13. want["data"][l] \in {"any", Level("data", l)}
  BY <1>1, <1>3, <1>4, <1>12 DEF HwInv
<1> QED
  BY <1>1, <1>4, <1>5, <1>13 DEF KnownInv

\* A line is driven only when the value it was told is in the register, whoever
\* else changes directions (_emit_source_gpio_callbacks: direction_output sets
\* the value, then the direction).
THEOREM ValuesComeFirst == Spec => ValueBeforeDirection
<1>1. Init => SyncInv
  BY DEF Init, SyncInv, Loaded
<1>2. ASSUME IInv, SyncInv, [Next]_vars
      PROVE  [Locked(dev, "data") /\ stage' = stage /\ ready' = ready =>
                 \A l \in hw'["dir"] \ hw["dir"] : want["data"][l] = Level("data", l)]_vars
  <2> SUFFICES ASSUME Locked(dev, "data"), stage' = stage, ready' = ready, NEW l \in hw'["dir"] \ hw["dir"]
               PROVE  want["data"][l] = Level("data", l)
    OBVIOUS
  <2>1. PICK c \in Consumer : Write(c)
    BY <1>2, WritersOnly
  <2> QED
    BY <1>2, <2>1, DrivenIsTold
<1>3. IInv /\ SyncInv /\ [Next]_vars => SyncInv'
  BY SyncStep
<1> QED
  BY <1>1, <1>2, <1>3, Always, PTL DEF Spec, ValueBeforeDirection
=============================================================================
