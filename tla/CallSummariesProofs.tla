------------------------ MODULE CallSummariesProofs ------------------------
(***************************************************************************)
(* For every set of functions, call relation and depth: extraction is      *)
(* sound in every pass, grows from pass to pass over a manifest, and is    *)
(* exact once a pass changes nothing, across recursive calls too.          *)
(*                                                                         *)
(* Soundness is inductive as it stands, since what a callee executes its   *)
(* caller executes.  Exactness needs the fixpoint only: if every function  *)
(* holds what its callees hold, the functions that hold no more than f do  *)
(* are closed under calls, and so include all that f runs.                 *)
(***************************************************************************)
EXTENDS CallSummaries, FiniteSetTheorems, WellFoundedInduction, TLAPS

USE DepthAssumption, SourceAssumption

\* The state's type is kept by every pass.
THEOREM TypeCorrect == Spec => []TypeOK
<1>1. Init => TypeOK
  <2> SUFFICES ASSUME Init PROVE TypeOK
    OBVIOUS
  <2>1. modules \in [{} -> SUBSET Site]
    BY DEF Init
  <2>2. \E M \in SUBSET Func : modules \in [M -> SUBSET Site]
    <3>1. {} \in SUBSET Func
      OBVIOUS
    <3> QED BY <2>1, <3>1
  <2>3. depth \in 0 .. MaxDepth
    BY DEF Init
  <2>4. source \in SourceType
    BY DEF Init
  <2> QED BY <2>2, <2>3, <2>4 DEF Init, TypeOK
<1>2. TypeOK /\ [Next]_vars => TypeOK'
  <2> SUFFICES ASSUME TypeOK, [Next]_vars PROVE TypeOK'
    OBVIOUS
  <2> USE DEF TypeOK, SourceType
  <2>0. \A S \in SUBSET Func : \A f \in Func : Inlined(f, Cache(S)) \in SUBSET Site
    BY DEF Inlined, Cache, Summary, Callees
  <2>a. \A f \in Func : Inlined(f, <<>>) \in SUBSET Site
    BY DEF Inlined, Summary, Callees
  <2>b. Inlineable \subseteq Func
    BY DEF Inlineable
  <2>1. CASE Direct
    BY <2>1, <2>a DEF Direct
  <2>2. CASE InlineOnce
    <3>1. ops' \in [Func -> SUBSET Site]
      <4>1. CASE MaxDepth = 0
        BY <2>2, <2>a, <4>1 DEF InlineOnce
      <4>2. CASE MaxDepth # 0
        BY <2>2, <2>0, <2>b, <4>2 DEF InlineOnce
      <4> QED BY <4>1, <4>2
    <3> QED BY <2>2, <3>1, <2>b DEF InlineOnce, CalledOf
  <2>3. CASE InlineRound
    <3>1. \A f \in Func : Inlineable \ {f} \in SUBSET Func
      BY <2>b
    <3>2. ops' \in [Func -> SUBSET Site]
      BY <2>3, <2>0, <3>1 DEF InlineRound
    <3> QED BY <2>3, <3>2 DEF InlineRound
  <2>4. CASE Settle
    BY <2>4 DEF Settle, CalledOf
  <2>5. CASE Emit
    <3> DEFINE M == {g \in Func \ skipped : ops[g] # {}}
    <3>1. modules' \in [M -> SUBSET Site] /\ M \in SUBSET Func
      BY <2>5 DEF Emit
    <3> HIDE DEF M
    <3> QED BY <2>5, <3>1 DEF Emit
  <2>6. CASE UNCHANGED vars
    BY <2>6 DEF vars
  <2> QED BY <2>1, <2>2, <2>3, <2>4, <2>5, <2>6 DEF Next
<1> QED BY <1>1, <1>2, PTL DEF Spec
-----------------------------------------------------------------------------
\* A function executes its own sites, and all that its callees execute.
LEMMA CallersExecute ==
    ASSUME TypeOK, NEW f \in Func
    PROVE  /\ source.own[f] \subseteq Executes(f)
           /\ \A g \in Callees(f) : g \in Func /\ Executes(g) \subseteq Executes(f)
<1>1. f \in Runs(f)
  BY DEF Runs
<1>2. \A g \in Callees(f) : g \in Func /\ Runs(g) \subseteq Runs(f)
  BY DEF Runs, Callees, TypeOK, SourceType
<1> QED BY <1>1, <1>2 DEF Executes

\* Inlining sound bodies is sound.
LEMMA InlinedIsSound ==
    ASSUME TypeOK, NEW f \in Func, NEW cache,
           \A g \in Func \cap DOMAIN cache : cache[g] \subseteq Executes(g)
    PROVE  Inlined(f, cache) \subseteq Executes(f)
<1>1. \A g \in Callees(f) : g \in Func /\ Executes(g) \subseteq Executes(f)
  BY CallersExecute
<1>2. source.own[f] \subseteq Executes(f)
  BY CallersExecute
<1>3. \A g \in Callees(f) : Summary(g) \subseteq Executes(g)
  BY <1>1, CallersExecute DEF Summary
<1>4. ASSUME NEW g \in Callees(f)
      PROVE  (IF g \in DOMAIN cache THEN cache[g] ELSE Summary(g)) \subseteq Executes(f)
  BY <1>1, <1>3
<1> QED BY <1>2, <1>4 DEF Inlined

\* No pass puts into a function a site that it does not execute.
THEOREM ExtractionIsSound == Spec => []OpsAreExecuted
<1>1. Init => OpsAreExecuted
  BY DEF Init, OpsAreExecuted
<1>2. TypeOK /\ OpsAreExecuted /\ [Next]_vars => OpsAreExecuted'
  <2> SUFFICES ASSUME TypeOK, OpsAreExecuted, [Next]_vars PROVE OpsAreExecuted'
    OBVIOUS
  <2>0. \A f \in Func : Executes(f)' = Executes(f)
    BY DEF Executes, Runs, Callees, Next, Direct, InlineOnce, InlineRound, Settle, Emit, vars
  <2>a. \A f \in Func : Inlined(f, <<>>) \subseteq Executes(f)
    <3>1. DOMAIN <<>> = {}
      OBVIOUS
    <3> QED BY <3>1, InlinedIsSound
  <2>b. \A S \in SUBSET Func : \A f \in Func : Inlined(f, Cache(S)) \subseteq Executes(f)
    <3> TAKE S \in SUBSET Func
    <3> TAKE f \in Func
    <3>1. \A g \in Func \cap DOMAIN Cache(S) : Cache(S)[g] \subseteq Executes(g)
      BY DEF Cache, OpsAreExecuted
    <3> QED BY <3>1, InlinedIsSound
  <2>c. Inlineable \in SUBSET Func
    BY DEF Inlineable
  <2>1. CASE Direct
    BY <2>1, <2>0, <2>a DEF Direct, OpsAreExecuted
  <2>2. CASE InlineOnce
    <3>1. CASE MaxDepth = 0
      BY <2>2, <2>0, <2>a, <3>1 DEF InlineOnce, OpsAreExecuted
    <3>2. CASE MaxDepth # 0
      BY <2>2, <2>0, <2>b, <2>c, <3>2 DEF InlineOnce, OpsAreExecuted
    <3> QED BY <3>1, <3>2
  <2>3. CASE InlineRound
    <3>1. \A f \in Func : Inlineable \ {f} \in SUBSET Func
      BY <2>c
    <3> QED BY <2>3, <2>0, <2>b, <3>1 DEF InlineRound, OpsAreExecuted
  <2>4. CASE Settle
    BY <2>4, <2>0 DEF Settle, OpsAreExecuted
  <2>5. CASE Emit
    BY <2>5, <2>0 DEF Emit, OpsAreExecuted
  <2>6. CASE UNCHANGED vars
    BY <2>6, <2>0 DEF vars, OpsAreExecuted
  <2> QED BY <2>1, <2>2, <2>3, <2>4, <2>5, <2>6 DEF Next
<1> QED BY <1>1, <1>2, TypeCorrect, PTL DEF Spec
-----------------------------------------------------------------------------
\* A pass over a manifest takes into f exactly what its callees hold.
Pass(f) == source.own[f] \cup UNION {ops[g] : g \in Callees(f) \ {f}}

\* Every function keeps its own sites, a pass never loses any, and a settled
\* manifest is left as it is by another pass.
GrowInv ==
    /\ phase # "direct" => \A f \in Func : source.own[f] \subseteq ops[f]
    /\ manifest /\ phase = "inline" => \A f \in Func : ops[f] \subseteq Pass(f)
    /\ phase = "direct" => \A f \in Func : ops[f] = {}
    /\ settled => manifest /\ phase # "direct" /\ \A f \in Func : ops[f] = Pass(f)

LEMMA RoundIsPass ==
    ASSUME TypeOK, NEW f \in Func, \A g \in Func : source.own[g] \subseteq ops[g]
    PROVE  Inlined(f, Cache(Inlineable \ {f})) = Pass(f)
<1> DEFINE C == Cache(Inlineable \ {f})
           brought(g) == IF g \in DOMAIN C THEN C[g] ELSE Summary(g)
<1>1. \A g \in Callees(f) : g \in Func
  BY DEF Callees, TypeOK, SourceType
<1>2. DOMAIN C = Inlineable \ {f} /\ \A g \in Inlineable \ {f} : C[g] = ops[g]
  BY DEF Cache
<1>3. ASSUME NEW g \in Callees(f), g # f PROVE brought(g) = ops[g]
  <2>1. CASE g \in Inlineable
    BY <1>2, <1>3, <2>1
  <2>2. CASE g \notin Inlineable
    <3>1. ops[g] = {}
      BY <1>1, <2>2 DEF Inlineable
    <3>2. Summary(g) = {}
      BY <1>1, <3>1 DEF Summary
    <3> QED BY <1>2, <2>2, <3>1, <3>2
  <2> QED BY <2>1, <2>2
<1>4. brought(f) \subseteq source.own[f]
  BY <1>2 DEF Summary
<1>5. Inlined(f, Cache(Inlineable \ {f})) = source.own[f] \cup UNION {brought(g) : g \in Callees(f)}
  BY DEF Inlined
<1> HIDE DEF brought
<1> QED BY <1>3, <1>4, <1>5 DEF Pass

LEMMA GrowInvariant == Spec => []GrowInv
<1>1. Init => GrowInv
  BY DEF Init, GrowInv
<1>2. TypeOK /\ GrowInv /\ [Next]_vars => GrowInv'
  <2> SUFFICES ASSUME TypeOK, GrowInv, [Next]_vars PROVE GrowInv'
    OBVIOUS
  <2>0. source' = source /\ \A f \in Func : Callees(f) \in SUBSET Func
    BY DEF Next, Direct, InlineOnce, InlineRound, Settle, Emit, vars, Callees, TypeOK, SourceType
  <2>a. ASSUME ops' = ops PROVE \A f \in Func : Pass(f)' = Pass(f)
    BY <2>0, <2>a DEF Pass, Callees
  <2>1. CASE Direct
    <3>1. \A f \in Func : ops'[f] = Inlined(f, <<>>)
      BY <2>1 DEF Direct
    <3>2. \A f \in Func : source.own[f] \subseteq ops'[f]
      BY <3>1 DEF Inlined
    <3>3. ASSUME NEW f \in Func PROVE ops'[f] \subseteq Pass(f)'
      <4>1. DOMAIN <<>> = {}
        OBVIOUS
      <4>2. ops'[f] = source.own[f] \cup UNION {Summary(g) : g \in Callees(f)}
        BY <3>1, <4>1 DEF Inlined
      <4>3. \A g \in Callees(f) : Summary(g) \subseteq source.own[g]
        BY DEF Summary
      <4>4. Pass(f)' = source.own[f] \cup UNION {ops'[g] : g \in Callees(f) \ {f}}
        BY <2>0 DEF Pass, Callees
      <4> QED BY <2>0, <3>2, <4>2, <4>3, <4>4
    <3>4. ~settled
      BY <2>1 DEF Direct, GrowInv
    <3> QED BY <2>1, <2>0, <3>2, <3>3, <3>4 DEF Direct, GrowInv
  <2>2. CASE InlineOnce
    <3>1. \A f \in Func : source.own[f] \subseteq ops'[f]
      BY <2>2 DEF InlineOnce, Inlined
    <3>2. ~settled
      BY <2>2 DEF InlineOnce, GrowInv
    <3> QED BY <2>2, <2>0, <3>1, <3>2 DEF InlineOnce, GrowInv
  <2>3. CASE InlineRound
    <3>1. \A f \in Func : ops'[f] = Pass(f)
      <4>1. \A g \in Func : source.own[g] \subseteq ops[g]
        BY <2>3 DEF InlineRound, GrowInv
      <4>2. \A f \in Func : Inlined(f, Cache(Inlineable \ {f})) = Pass(f)
        BY <4>1, RoundIsPass
      <4> QED BY <2>3, <4>2 DEF InlineRound
    <3>2. \A f \in Func : source.own[f] \subseteq ops'[f]
      BY <3>1 DEF Pass
    <3>3. \A f \in Func : ops[f] \subseteq ops'[f]
      BY <2>3, <3>1 DEF InlineRound, GrowInv
    <3>4. \A f \in Func : Pass(f)' = source.own[f] \cup UNION {ops'[g] : g \in Callees(f) \ {f}}
      BY <2>0 DEF Pass, Callees
    <3>5. \A f \in Func : ops'[f] \subseteq Pass(f)'
      BY <2>0, <3>1, <3>3, <3>4 DEF Pass
    <3>6. settled' => \A f \in Func : ops'[f] = Pass(f)'
      BY <2>3, <2>0, <3>1, <2>a DEF InlineRound
    <3> QED BY <2>3, <2>0, <3>2, <3>5, <3>6 DEF InlineRound, GrowInv
  <2>4. CASE Settle
    BY <2>4, <2>0, <2>a DEF Settle, GrowInv
  <2>5. CASE Emit
    BY <2>5, <2>0, <2>a DEF Emit, GrowInv
  <2>6. CASE UNCHANGED vars
    BY <2>6, <2>0, <2>a DEF vars, GrowInv
  <2> QED BY <2>1, <2>2, <2>3, <2>4, <2>5, <2>6 DEF Next
<1> QED BY <1>1, <1>2, TypeCorrect, PTL DEF Spec

\* Over a manifest, no pass ever loses a site that an earlier one found.
THEOREM ExtractionGrows == Spec => OpsOnlyGrow
<1>1. TypeOK /\ GrowInv /\ [Next]_vars
      => [manifest => \A f \in Func : ops[f] \subseteq ops'[f]]_vars
  <2> SUFFICES ASSUME TypeOK, GrowInv, Next, manifest, NEW f \in Func
               PROVE  ops[f] \subseteq ops'[f]
    OBVIOUS
  <2>1. CASE Direct
    BY <2>1 DEF Direct, GrowInv
  <2>2. CASE InlineRound
    <3>1. \A g \in Func : source.own[g] \subseteq ops[g]
      BY <2>2 DEF InlineRound, GrowInv
    <3>2. ops'[f] = Pass(f)
      BY <2>2, <3>1, RoundIsPass DEF InlineRound
    <3> QED BY <2>2, <3>2 DEF InlineRound, GrowInv
  <2>3. CASE Settle \/ Emit
    BY <2>3 DEF Settle, Emit
  <2>4. ~InlineOnce
    BY DEF InlineOnce
  <2> QED BY <2>1, <2>2, <2>3, <2>4 DEF Next
<1> QED BY <1>1, TypeCorrect, GrowInvariant, PTL DEF Spec, OpsOnlyGrow

\* Once a pass over a manifest changes nothing, every function holds exactly
\* the sites it executes, however its calls recur.
THEOREM SettledExtraction == Spec => []SettledIsExact
<1>1. TypeOK /\ GrowInv /\ OpsAreExecuted => SettledIsExact
  <2> SUFFICES ASSUME TypeOK, GrowInv, settled, NEW f \in Func
               PROVE  Executes(f) \subseteq ops[f]
    BY DEF SettledIsExact, OpsAreExecuted
  <2> DEFINE S == {h \in Func : ops[h] \subseteq ops[f]}
  <2>1. \A h \in Func : ops[h] = Pass(h) /\ source.own[h] \subseteq ops[h]
    BY DEF GrowInv
  <2>2. \A h \in Func : \A g \in Callees(h) : g \in Func /\ ops[g] \subseteq ops[h]
    BY <2>1 DEF Pass, Callees, TypeOK, SourceType
  <2>3. f \in S /\ \A h \in S : Callees(h) \subseteq S
    BY <2>2
  <2>4. Runs(f) \subseteq S
    BY <2>3 DEF Runs
  <2> QED BY <2>1, <2>4 DEF Executes
<1> QED BY <1>1, TypeCorrect, GrowInvariant, ExtractionIsSound, PTL DEF Spec
-----------------------------------------------------------------------------
\* What is skipped is decided by what the last pass left, and every other
\* function that holds a site has a module with all that it holds.
ModuleInv ==
    /\ manifest /\ phase \in {"emit", "done"} => skipped = CalledOf({f \in Func : ops[f] # {}})
    /\ phase = "done" => modules = [f \in {g \in Func \ skipped : ops[g] # {}} |-> ops[f]]

LEMMA ModuleInvariant == Spec => []ModuleInv
<1>1. Init => ModuleInv
  BY DEF Init, ModuleInv
<1>2. ModuleInv /\ [Next]_vars => ModuleInv'
  <2> SUFFICES ASSUME ModuleInv, [Next]_vars PROVE ModuleInv'
    OBVIOUS
  <2>0. source' = source /\ \A S : CalledOf(S)' = CalledOf(S')
    BY DEF Next, Direct, InlineOnce, InlineRound, Settle, Emit, vars, CalledOf
  <2>1. CASE Direct \/ InlineOnce \/ InlineRound
    BY <2>1 DEF Direct, InlineOnce, InlineRound, ModuleInv
  <2>2. CASE Settle
    <3>1. ops' = ops /\ phase' = "emit" /\ skipped' = CalledOf({f \in Func : ops[f] # {}})
      BY <2>2 DEF Settle
    <3>2. CalledOf({f \in Func : ops[f] # {}})' = CalledOf({f \in Func : ops[f] # {}})
      BY <2>0, <3>1 DEF CalledOf
    <3> QED BY <3>1, <3>2 DEF ModuleInv
  <2>3. CASE Emit
    <3>1. /\ phase = "emit" /\ phase' = "done" /\ manifest' = manifest
          /\ ops' = ops /\ skipped' = skipped
          /\ modules' = [f \in {g \in Func \ skipped : ops[g] # {}} |-> ops[f]]
      BY <2>3 DEF Emit
    <3>2. CalledOf({f \in Func : ops[f] # {}})' = CalledOf({f \in Func : ops[f] # {}})
      BY <2>0, <3>1 DEF CalledOf
    <3> QED BY <3>1, <3>2 DEF ModuleInv
  <2>4. CASE UNCHANGED vars
    <3>1. CalledOf({f \in Func : ops[f] # {}})' = CalledOf({f \in Func : ops[f] # {}})
      BY <2>4 DEF vars, CalledOf
    <3> QED BY <2>4, <3>1 DEF vars, ModuleInv
  <2> QED BY <2>1, <2>2, <2>3, <2>4 DEF Next
<1> QED BY <1>1, <1>2, PTL DEF Spec

\* Of finitely many functions with some property one runs no more than it must:
\* no other with the property runs all that it runs and more.
LEMMA WidestExists ==
    ASSUME NEW H, H \subseteq Func, H # {}
    PROVE  \E h \in H : \A k \in H : Runs(h) \subseteq Runs(k) => Runs(k) = Runs(h)
<1> DEFINE T == {Func \ Runs(h) : h \in H}
<1>1. IsWellFoundedOn(StrictSubsetOrdering(Func), SUBSET Func)
  BY FuncAssumption, FS_StrictSubsetOrderingWellFounded, FS_FiniteSubsetsOfFinite
<1>2. T \subseteq SUBSET Func /\ T # {}
  OBVIOUS
<1>3. PICK t \in T : \A u \in T : <<u, t>> \notin StrictSubsetOrdering(Func)
  <2> HIDE DEF T
  <2> QED BY <1>1, <1>2, WFMin
<1>4. PICK h \in H : t = Func \ Runs(h)
  BY <1>3
<1>5. \A k \in Func : Runs(k) \subseteq Func
  BY DEF Runs
<1>6. ASSUME NEW k \in H, Runs(h) \subseteq Runs(k), Runs(k) # Runs(h) PROVE FALSE
  <2>1. Func \ Runs(k) \in T
    OBVIOUS
  <2>2. /\ Func \ Runs(k) \subseteq Func \ Runs(h)
        /\ Func \ Runs(k) # Func \ Runs(h)
    BY <1>5, <1>6
  <2>3. <<Func \ Runs(k), Func \ Runs(h)>> \in StrictSubsetOrdering(Func)
    BY <2>2 DEF StrictSubsetOrdering
  <2> QED BY <1>3, <1>4, <2>1, <2>3
<1> QED BY <1>6

\* Without recursion, and when the passes settle within the depth, every site of
\* the source is in the module of some function, although helpers have none: of
\* the functions that hold a site, the one that runs most is not skipped.
THEOREM NoSiteIsLost == Spec => []NothingIsLost
<1>1. TypeOK /\ GrowInv /\ ModuleInv => NothingIsLost
  <2> SUFFICES ASSUME TypeOK, GrowInv, ModuleInv,
                      phase = "done", manifest, settled, \A f \in Func : ~Recursive(f),
                      NEW f \in Func, NEW s \in source.own[f]
               PROVE  \E h \in DOMAIN modules : s \in modules[h]
    BY DEF NothingIsLost, Accounted
  <2> DEFINE H == {h \in Func : s \in ops[h]}
  <2>1. f \in H
    BY DEF GrowInv
  <2>2. PICK h \in H : \A k \in H : Runs(h) \subseteq Runs(k) => Runs(k) = Runs(h)
    <3>1. H \subseteq Func /\ H # {}
      BY <2>1
    <3> HIDE DEF H
    <3> QED BY <3>1, WidestExists
  <2>3. h \notin skipped
    <3> SUFFICES ASSUME h \in skipped PROVE FALSE
      OBVIOUS
    <3>1. PICK k \in Func \ {h} : h \in source.calls[k] /\ h \notin source.callbacks
      BY DEF ModuleInv, CalledOf
    <3>2. h \in Callees(k)
      BY <3>1 DEF Callees
    <3>3. k \in H
      <4>1. ops[k] = Pass(k)
        BY DEF GrowInv
      <4>2. h \in Callees(k) \ {k}
        BY <3>1, <3>2
      <4>3. ops[h] \subseteq ops[k]
        BY <4>1, <4>2 DEF Pass
      <4> QED BY <4>3
    <3>4. Runs(h) \subseteq Runs(k)
      BY <3>2 DEF Runs, Callees, TypeOK, SourceType
    <3>5. k \in Runs(k)
      BY DEF Runs
    <3>6. k \notin Runs(h)
      BY <3>2 DEF Recursive
    <3> QED BY <2>2, <3>3, <3>4, <3>5, <3>6
  <2>4. h \in Func \ skipped /\ ops[h] # {} /\ s \in ops[h]
    BY <2>3
  <2>5. modules = [g \in {g \in Func \ skipped : ops[g] # {}} |-> ops[g]]
    BY DEF ModuleInv
  <2> QED BY <2>4, <2>5
<1> QED BY <1>1, TypeCorrect, GrowInvariant, ModuleInvariant, PTL DEF Spec
=============================================================================
