--------------------------- MODULE CallSummaries ---------------------------
(***************************************************************************)
(* extractor/call_graph.py and what follows it: every function is first    *)
(* extracted alone, then with the summaries of its callees in place of     *)
(* their calls; functions whose bodies were put into a caller get no RIS   *)
(* module of their own; accounting then asks whether every MMIO call site  *)
(* of the source is in some module.  One source file takes one inlining    *)
(* pass, a manifest of several takes passes until nothing changes or the   *)
(* depth is used up.                                                       *)
(*                                                                         *)
(* An operation is known by its call site; the order of operations and the *)
(* arguments substituted into them are left out.                           *)
(***************************************************************************)
EXTENDS Integers, FiniteSets

CONSTANTS Func,       \* the functions of the source
          Site,       \* the MMIO call sites
          MaxDepth,   \* max_inline_depth
          Sources     \* the sources to consider, see the variable source

ASSUME DepthAssumption == MaxDepth \in Nat
ASSUME FuncAssumption == IsFiniteSet(Func)
SourceType == [own: [Func -> SUBSET Site], calls: [Func -> SUBSET Func],
               callbacks: SUBSET Func, valued: SUBSET Func, simple: SUBSET Func]
ASSUME SourceAssumption == Sources \subseteq SourceType

VARIABLES source,     \* own: the sites in a function's own body; calls: the
                      \* functions it calls; callbacks: those also used as
                      \* function pointers; valued: those with a return
                      \* expression; simple: those infer_wrapper_summaries took
          manifest,   \* whether there are several translation units
          phase,      \* "direct", "inline", "emit", "done"
          ops,        \* what each function's extraction holds
          depth,      \* the inlining passes made
          settled,    \* whether the last pass changed nothing
          skipped,    \* inlined_names
          modules     \* the RIS modules emitted, by function

vars == <<source, manifest, phase, ops, depth, settled, skipped, modules>>

TypeOK == /\ source \in SourceType /\ manifest \in BOOLEAN
          /\ phase \in {"direct", "inline", "emit", "done"}
          /\ ops \in [Func -> SUBSET Site]
          /\ depth \in 0 .. MaxDepth /\ settled \in BOOLEAN
          /\ skipped \subseteq Func
          /\ \E M \in SUBSET Func : modules \in [M -> SUBSET Site]

Init == /\ source \in Sources /\ manifest \in BOOLEAN
        /\ phase = "direct"
        /\ ops = [f \in Func |-> {}]
        /\ depth = 0 /\ settled = FALSE
        /\ skipped = {} /\ modules = <<>>
-----------------------------------------------------------------------------
\* A callback keeps its operations to itself: a direct call of it brings none.
Callees(f) == source.calls[f] \ source.callbacks

\* What a call of g brings when no body of g is at hand.
Summary(g) == IF g \in source.simple THEN source.own[g] ELSE {}

\* MUTANT: the body of a callback is inlined too; wrappers are kept out of the
\* cache although their summaries serve the direct extraction only.
InlinedMutant1(f, cache) ==
    source.own[f] \cup UNION {IF g \in DOMAIN cache THEN cache[g] ELSE Summary(g) :
                              g \in source.calls[f]}
InlinedMutant2(f, cache) ==
    source.own[f] \cup UNION {IF DOMAIN cache = {} THEN Summary(g)
                              ELSE IF g \in DOMAIN cache \ source.simple THEN cache[g] ELSE {} :
                              g \in Callees(f)}

\* What a function holds when the bodies `cache` gives are put in place of the
\* calls.
Inlined(f, cache) ==
    source.own[f] \cup UNION {IF g \in DOMAIN cache THEN cache[g] ELSE Summary(g) :
                              g \in Callees(f)}

\* A body is worth inlining when it has operations or a value.
Inlineable == {f \in Func : ops[f] # {} \/ f \in source.valued}
Cache(S)   == [f \in S |-> ops[f]]

\* MUTANT: a callback that is called directly loses its module.
CalledOfMutant(S) == {g \in S : \E f \in Func \ {g} : g \in source.calls[f]}

\* Functions whose bodies a caller was given, and that are no entry points.
CalledOf(S) == {g \in S \ source.callbacks : \E f \in Func \ {g} : g \in source.calls[f]}

Direct ==
    /\ phase = "direct"
    /\ ops' = [f \in Func |-> Inlined(f, <<>>)]
    /\ phase' = "inline"
    /\ UNCHANGED <<source, manifest, depth, settled, skipped, modules>>

\* extract_with_inlining: one pass over what was extracted directly, unless
\* no depth is allowed.  What is skipped is decided by the direct extraction.
InlineOnce ==
    /\ phase = "inline" /\ ~manifest
    /\ ops' = [f \in Func |-> Inlined(f, IF MaxDepth = 0 THEN <<>> ELSE Cache(Inlineable))]
    /\ skipped' = CalledOf(Inlineable)
    /\ phase' = "emit"
    /\ UNCHANGED <<source, manifest, depth, settled, modules>>

\* MUTANT: a pass counts as settled when the functions with operations stay the
\* same; one pass more than allowed.
InlineRoundMutant1 ==
    /\ phase = "inline" /\ manifest /\ depth < MaxDepth /\ ~settled
    /\ ops' = [f \in Func |-> Inlined(f, Cache(Inlineable \ {f}))]
    /\ settled' = \A f \in Func : (ops'[f] = {}) = (ops[f] = {})
    /\ depth' = depth + 1
    /\ UNCHANGED <<source, manifest, phase, skipped, modules>>
InlineRoundMutant2 ==
    /\ phase = "inline" /\ manifest /\ depth <= MaxDepth /\ ~settled
    /\ ops' = [f \in Func |-> Inlined(f, Cache(Inlineable \ {f}))]
    /\ settled' = (ops' = ops)
    /\ depth' = depth + 1
    /\ UNCHANGED <<source, manifest, phase, skipped, modules>>

\* extract_multi_with_inlining: a pass over what the last pass left, until a
\* pass changes nothing or the depth is used up.
InlineRound ==
    /\ phase = "inline" /\ manifest /\ depth < MaxDepth /\ ~settled
    /\ ops' = [f \in Func |-> Inlined(f, Cache(Inlineable \ {f}))]
    /\ settled' = (ops' = ops)
    /\ depth' = depth + 1
    /\ UNCHANGED <<source, manifest, phase, skipped, modules>>

Settle ==
    /\ phase = "inline" /\ manifest /\ (depth = MaxDepth \/ settled)
    /\ skipped' = CalledOf({f \in Func : ops[f] # {}})
    /\ phase' = "emit"
    /\ UNCHANGED <<source, manifest, ops, depth, settled, modules>>

\* build_formal_ris: no module for a skipped function or an empty extraction.
Emit ==
    /\ phase = "emit"
    /\ modules' = [f \in {g \in Func \ skipped : ops[g] # {}} |-> ops[f]]
    /\ phase' = "done"
    /\ UNCHANGED <<source, manifest, ops, depth, settled, skipped>>

Next == Direct \/ InlineOnce \/ InlineRound \/ Settle \/ Emit

Spec == Init /\ [][Next]_vars /\ WF_vars(Next)

\* build_access_accounting: every site of the source is in some module.
Accounted == UNION {source.own[f] : f \in Func}
             \subseteq UNION {modules[f] : f \in DOMAIN modules}
-----------------------------------------------------------------------------
\* The functions a call of f runs, callbacks called on the way excepted, and
\* the sites it executes.
Runs(f) == {g \in Func : \A S \in SUBSET Func :
                f \in S /\ (\A h \in S : Callees(h) \subseteq S) => g \in S}
Executes(f) == UNION {source.own[g] : g \in Runs(f)}

\* No extraction, and so no module, ever holds a site that its function does
\* not execute.
OpsAreExecuted == \A f \in Func : ops[f] \subseteq Executes(f)

\* When the passes over a manifest settled, every extraction is exact, across
\* recursion too.
SettledIsExact == manifest /\ settled => \A f \in Func : ops[f] = Executes(f)

\* Passes settle within the depth unless a chain of calls is longer than it.
\* Without recursion, skipping helpers then loses no site of the source.
Recursive(f) == \E g \in Callees(f) : f \in Runs(g)
NothingIsLost ==
    phase = "done" /\ manifest /\ settled /\ (\A f \in Func : ~Recursive(f)) => Accounted

\* A manifest's extraction only grows from pass to pass.
OpsOnlyGrow == [][manifest => \A f \in Func : ops[f] \subseteq ops'[f]]_vars

=============================================================================
