---------------------------- MODULE FunctionRis ----------------------------
(***************************************************************************)
(* What the extractor makes of one function's control flow.  Each register *)
(* access gets the conditions of the statements around it                  *)
(* (walk_with_control) and those left over by earlier branches that leave  *)
(* (continuation_guards); formalize.py nests the accesses by these         *)
(* conditions into a register interaction sequence (RIS); the census of    *)
(* control.py lists the transfers the RIS does not represent.  The RIS is  *)
(* compared with what C executes, for every value of the conditions.       *)
(*                                                                         *)
(* Statements are those of SourceCfg with a third field, c: the condition  *)
(* of an if, the bounds of a for and how far its body moves the variable,  *)
(* the values of a case (none: default).                                   *)
(* Source offsets are paths: a text comes before another iff its path is   *)
(* the earlier one.  Every statement has a line of its own.                *)
(***************************************************************************)
EXTENDS SourceCfg

CONSTANTS Params,     \* the variables that are parameters of the function
          Env,        \* the values the variables may have when it is called
          LoopCap     \* the largest number of iterations _bounded_loop proves

VARIABLES ops,        \* extract_function's accesses, each with its frames
          ris,        \* the module _nest built from them
          census,     \* build_control_accounting
          stage

rvars == <<ops, ris, census, stage>>
fvars == <<vars, rvars>>
-----------------------------------------------------------------------------
(***************************************************************************)
(* Conditions                                                              *)
(***************************************************************************)
Var(v)    == [op |-> "var", v |-> v]
Not(x)    == [op |-> "not", x |-> x]
And(x, y) == [op |-> "and", x |-> x, y |-> y]
Or(S)     == [op |-> "or", S |-> S]
Is(v, V)  == [op |-> "is", v |-> v, V |-> V]      \* (v == a) || (v == b) ...
True      == Or({Is("x", {}), Not(Is("x", {}))})
False     == Or({})

RECURSIVE Holds(_, _), VarsOf(_)
Holds(g, e) == CASE g.op = "var" -> e[g.v]
                 [] g.op = "not" -> ~Holds(g.x, e)
                 [] g.op = "and" -> Holds(g.x, e) /\ Holds(g.y, e)
                 [] g.op = "or"  -> \E x \in g.S : Holds(x, e)
                 [] g.op = "is"  -> e[g.v] \in g.V

VarsOf(g) == CASE g.op \in {"var", "is"} -> {g.v}
               [] g.op = "not" -> VarsOf(g.x)
               [] g.op = "and" -> VarsOf(g.x) \cup VarsOf(g.y)
               [] g.op = "or"  -> UNION {VarsOf(x) : x \in g.S}

proof_safe(g) == VarsOf(g) \subseteq Params

\* The text of a condition starts with "!" when its leftmost part does.
RECURSIVE StartsWithNot(_), WithoutNot(_)
StartsWithNot(g) == g.op = "not" \/ (g.op = "and" /\ StartsWithNot(g.x))
WithoutNot(g)    == IF g.op = "not" THEN g.x ELSE And(WithoutNot(g.x), g.y)

\* A leading "!" is taken off, whatever the "!" applied to.
negate(g) == IF StartsWithNot(g) THEN WithoutNot(g) ELSE Not(g)

Conjunction(gs) == FoldLeft(And, True, gs)
-----------------------------------------------------------------------------
(***************************************************************************)
(* walk_with_control: the frames of the statements around a place          *)
(***************************************************************************)
Branch(g)     == [k |-> "cond", guard |-> g, loop |-> <<>>]
LoopFrame(p)  == [k |-> "loop", guard |-> True, loop |-> At(body, p)]

Sub(p)        == At(body, p).sub
InSwitch(p)   == p # <<>> /\ Kind(p) = "block" /\ Kind(Front(p)) = "switch"
ValuesIn(p)   == UNION {ToSet(Sub(p)[j].c.vals) : j \in {i \in DOMAIN Sub(p) : Sub(p)[i].k = "case"}}

CaseGuard(p, j) == LET values == Sub(p)[j].c.vals
                   IN  IF values = <<>> THEN Not(Is("x", ValuesIn(p))) ELSE Is("x", ToSet(values))

\* The case whose guard is current at the i-th statement of a switch: the last
\* one, unless a break among its statements has come in between.
CurrentCase(p, i) ==
    {j \in 1..i : /\ Sub(p)[j].k = "case"
                  /\ \A l \in j+1..i   : Sub(p)[l].k # "case"
                  /\ \A l \in j+1..i-1 : Sub(p)[l].k # "break"}

FrameAt(p, i) ==        \* the frame the i-th part of p adds
    CASE Kind(p) = "if" -> <<Branch(IF i = 1 THEN At(body, p).c ELSE Not(At(body, p).c))>>
      [] Kind(p) \in {"for", "while", "do"} -> <<LoopFrame(p)>>
      [] InSwitch(p) /\ CurrentCase(p, i) # {} ->
             <<Branch(CaseGuard(p, CHOOSE j \in CurrentCase(p, i) : TRUE))>>
      [] OTHER -> <<>>

LexicalFrames(p) == FlattenSeq([i \in DOMAIN p |-> FrameAt(SubSeq(p, 1, i - 1), p[i])])
-----------------------------------------------------------------------------
(***************************************************************************)
(* continuation_guards: what holds behind a statement that may leave       *)
(***************************************************************************)
Below(p, kinds) == {q \in PathsOf(body, <<>>) : IsPrefix(p, q) /\ Kind(q) \in kinds}

RECURSIVE terminates(_)
terminates(s) == CASE s.k = "return" -> TRUE
                   [] s.k = "block"  -> \E i \in DOMAIN s.sub : terminates(s.sub[i])
                   [] s.k = "if" /\ Len(s.sub) = 2 -> terminates(s.sub[1]) /\ terminates(s.sub[2])
                   [] OTHER -> FALSE

\* The branches of an if / else-if cascade, each with the guard under which it
\* is taken; the last one stands for "no branch taken" if there is no else.
RECURSIVE Cascade(_, _)
Cascade(p, prefix) ==
    LET s    == At(body, p)
        this == [guard |-> And(prefix, s.c), exits |-> terminates(s.sub[1]), at |-> {Append(p, 1)}]
        rest == And(prefix, negate(s.c))
    IN  IF Len(s.sub) = 2 /\ s.sub[2].k = "if" THEN {this} \cup Cascade(Append(p, 2), rest)
        ELSE {this, [guard |-> rest,
                     exits |-> Len(s.sub) = 2 /\ terminates(s.sub[2]),
                     at    |-> IF Len(s.sub) = 2 THEN {Append(p, 2)} ELSE {}]}

RECURSIVE CascadeConditions(_)
CascadeConditions(s) ==
    {s.c} \cup IF Len(s.sub) = 2 /\ s.sub[2].k = "if" THEN CascadeConditions(s.sub[2]) ELSE {}

Returns(places) == UNION {Below(q, {"return"}) : q \in places}

Continuation(p, guard, modeled) == {[after |-> p, before |-> None, guard |-> guard, modeled |-> modeled]}

if_continuation(p) ==
    LET branches == Cascade(p, True)
        leaving  == {b \in branches : b.exits}
    IN  IF leaving = {} \/ ~\A c \in CascadeConditions(At(body, p)) : proof_safe(c) THEN {}
        ELSE Continuation(p, Or({b.guard : b \in branches \ leaving}),
                          Returns(UNION {b.at : b \in leaving}))

\* The text between a case label and the next one; of stacked labels all but
\* the last have an empty text.
Segment(q, j) == {i \in DOMAIN Sub(q) : i >= j /\ \A l \in j+1..i : Sub(q)[l].k # "case"}
Exits(q, j)   == \E i \in Segment(q, j) : Below(Append(q, i), {"return", "goto"}) # {}
LabelsOf(q)   == {i \in DOMAIN Sub(q) : Sub(q)[i].k = "case"}

switch_continuation(p) ==
    LET q         == Append(p, 1)
        returning == {Last(Sub(q)[j].c.vals) : j \in {i \in LabelsOf(q) : Sub(q)[i].c.vals # <<>> /\ Exits(q, i)}}
        defaultReturns == \E j \in LabelsOf(q) : Sub(q)[j].c.vals = <<>> /\ Exits(q, j)
        continuing == ValuesIn(q) \ returning
    IN  IF \/ "x" \notin Params
           \/ returning = {} /\ ~defaultReturns
           \/ defaultReturns /\ continuing = {}
        THEN {}
        ELSE Continuation(p, IF defaultReturns THEN Is("x", continuing) ELSE Not(Is("x", returning)),
                          Returns({q}))

\* MUTANT: the guard left by a goto does not end at its label.
goto_continuation_mutant(g) ==
    {[after |-> g, before |-> None, modeled |-> {g},
      guard |-> negate(Conjunction(<<True>> \o [i \in DOMAIN LexicalFrames(g) |-> LexicalFrames(g)[i].guard]))] :
         l \in {l \in Labels : Earlier(g, l)}}

\* A forward goto skips everything up to its label when its branch is taken.
goto_continuation(g) ==
    {[after |-> g, before |-> l, modeled |-> {g},
      guard |-> negate(Conjunction(<<True>> \o [i \in DOMAIN LexicalFrames(g) |-> LexicalFrames(g)[i].guard]))] :
         l \in {l \in Labels : Earlier(g, l)}}

TopLevel(kinds) == {<<i>> : i \in {i \in DOMAIN body.sub : body.sub[i].k \in kinds}}

Transitions ==
    UNION {if_continuation(p) : p \in TopLevel({"if"})}
    \cup UNION {switch_continuation(p) : p \in TopLevel({"switch"})}
    \cup UNION {Continuation(p, False, {p}) : p \in TopLevel({"return"})}
    \cup UNION {goto_continuation(g) : g \in Below(<<>>, {"goto"})}

Modeled == UNION {t.modeled : t \in Transitions}

\* Which transitions guard the place q: those behind it, outermost the latest.
ActiveAt(q) == {t \in Transitions : /\ Earlier(t.after, q) /\ ~IsPrefix(t.after, q)
                                    /\ t.before = None \/ ~Earlier(t.before, q)}
Latest(t, u) == Earlier(u.after, t.after) /\ t # u

\* extract_function: the accesses in the order of the source, the guards of
\* the transitions in front of the frames around them.
Extracted ==
    LET inOrder == SetToSortSeq(Below(<<>>, {"op"}), LAMBDA p, q : p # q /\ Earlier(p, q))
    IN  [i \in DOMAIN inOrder |->
            LET active == SetToSortSeq(ActiveAt(inOrder[i]), Latest)
            IN  [site |-> inOrder[i],
                 st   |-> [j \in DOMAIN active |-> Branch(active[j].guard)] \o LexicalFrames(inOrder[i])]]
-----------------------------------------------------------------------------
(***************************************************************************)
(* formalize.py: _bounded_loop and _nest                                   *)
(***************************************************************************)
NoCount == -1

\* for (i = start; i < bound or i <= bound; i += stride); the body is not looked at.
BoundedLoop(s) ==
    LET distance == s.c.bound - s.c.start + (IF s.c.upTo THEN 1 ELSE 0)
        count    == IF distance <= 0 THEN 0 ELSE (distance + s.c.stride - 1) \div s.c.stride
    IN  IF s.k # "for" \/ count > LoopCap THEN NoCount ELSE count

RECURSIVE Nest(_, _)
Nest(flat, depth) ==
    IF flat = <<>> THEN <<>>
    ELSE IF Len(flat[1].st) <= depth
    THEN <<[k |-> "op", site |-> flat[1].site, guard |-> True, count |-> 0, body |-> <<>>]>>
         \o Nest(Tail(flat), depth)
    ELSE LET frame == flat[1].st[depth + 1]
             same  == {n \in DOMAIN flat : \A i \in 1..n : /\ Len(flat[i].st) > depth
                                                           /\ flat[i].st[depth + 1] = frame}
             n     == CHOOSE m \in same : \A l \in same : l <= m
         IN  <<[k     |-> frame.k,
                site  |-> <<>>,
                guard |-> frame.guard,
                count |-> IF frame.k = "loop" THEN BoundedLoop(frame.loop) ELSE 0,
                body  |-> Nest(SubSeq(flat, 1, n), depth + 1)]>>
             \o Nest(SubSeq(flat, n + 1, Len(flat)), depth)
-----------------------------------------------------------------------------
(***************************************************************************)
(* trace_match.py: _formal_variants, one per choice of branches.  Loops    *)
(* are left to another oracle.                                             *)
(***************************************************************************)
\* MUTANT: a branch is always taken.
RECURSIVE VariantsMutant(_)
VariantsMutant(nodes) ==
    IF nodes = <<>> THEN {<<>>}
    ELSE LET n     == Head(nodes)
             heads == CASE n.k = "op"   -> {<<n.site>>}
                        [] n.k = "cond" -> VariantsMutant(n.body)
                        [] n.k = "loop" -> {<<>>}
         IN  {h \o t : h \in heads, t \in VariantsMutant(Tail(nodes))}

RECURSIVE Variants(_)
Variants(nodes) ==
    IF nodes = <<>> THEN {<<>>}
    ELSE LET n     == Head(nodes)
             heads == CASE n.k = "op"   -> {<<n.site>>}
                        [] n.k = "cond" -> Variants(n.body) \cup {<<>>}
                        [] n.k = "loop" -> {<<>>}
         IN  {h \o t : h \in heads, t \in Variants(Tail(nodes))}
-----------------------------------------------------------------------------
(***************************************************************************)
(* build_control_accounting                                                *)
(***************************************************************************)
LoopKinds == {"for", "while", "do"}
AncestorsOf(p, kinds) == {q \in PathsOf(body, <<>>) : IsStrictPrefix(q, p) /\ Kind(q) \in kinds}

loop_has_register_access(p) ==
    AncestorsOf(p, LoopKinds) # {} /\ Below(Enclosing(p, LoopKinds), {"op"}) # {}

parameter_guarded_return(p) ==
    AncestorsOf(p, {"if"}) = {} \/ proof_safe(At(body, Enclosing(p, {"if"})).c)

ForwardInCfg(g) == \E edge \in cfg.edges : edge[1] = g /\ Earlier(g, edge[2])

Unsupported(p) ==
    CASE Kind(p) = "goto"     -> ~(p \in Modeled /\ ForwardInCfg(p))
      [] Kind(p) = "continue" -> loop_has_register_access(p)
      [] Kind(p) = "break"    -> /\ Kind(Enclosing(p, LoopKinds \cup {"switch"})) # "switch"
                                 /\ loop_has_register_access(p)
      [] Kind(p) = "return"   -> /\ p \notin Modeled /\ parameter_guarded_return(p)
                                 /\ \E q \in Below(<<>>, {"op"}) : Earlier(p, q)
      [] OTHER                -> FALSE

Census == LET sites == {p \in Transfers : Unsupported(p)}
          IN  [sites |-> sites, complete |-> sites = {} /\ (Transfers = {} \/ cfg.complete)]
-----------------------------------------------------------------------------
NoCensus == [sites |-> {}, complete |-> FALSE]

FInit == /\ Init
         /\ ops = <<>> /\ ris = <<>> /\ census = NoCensus /\ stage = "extract"

Extract    == /\ stage = "extract" /\ stage' = "nest"
              /\ ops' = Extracted
              /\ UNCHANGED <<body, cfg, ris, census>>
Formalize  == /\ stage = "nest" /\ stage' = "cfg"
              /\ ris' = Nest(ops, 0)
              /\ UNCHANGED <<body, cfg, ops, census>>
BuildCfg   == /\ stage = "cfg" /\ stage' = "account"
              /\ Next
              /\ UNCHANGED <<ops, ris, census>>
Account    == /\ stage = "account" /\ stage' = "done"
              /\ census' = Census
              /\ UNCHANGED <<body, cfg, ops, ris>>

FNext == Extract \/ Formalize \/ BuildCfg \/ Account
FSpec == FInit /\ [][FNext]_fvars
-----------------------------------------------------------------------------
(***************************************************************************)
(* What C executes, and what the RIS says is executed                      *)
(***************************************************************************)
Ran(trace, out) == [trace |-> trace, out |-> out]

Iterations(c) == Cardinality({i \in c.start .. (c.bound + 1) :
                          /\ (i - c.start) % (c.stride + c.moved) = 0
                          /\ IF c.upTo THEN i <= c.bound ELSE i < c.bound})

RECURSIVE Exec(_, _, _), ExecFrom(_, _, _, _), Repeat(_, _, _, _)
ExecFrom(s, p, i, e) ==
    IF i > Len(s.sub) THEN Ran(<<>>, "next")
    ELSE LET first == Exec(s.sub[i], Append(p, i), e)
             label == {j \in i+1..Len(s.sub) : s.sub[j].k = "label"}
             rest  == CASE first.out = "next" -> ExecFrom(s, p, i + 1, e)
                        [] first.out = "goto" /\ label # {} ->
                               ExecFrom(s, p, CHOOSE j \in label : TRUE, e)
                        [] OTHER -> Ran(<<>>, first.out)
         IN  Ran(first.trace \o rest.trace, rest.out)

Repeat(s, p, n, e) ==
    IF n = 0 THEN Ran(<<>>, "next")
    ELSE LET once == Exec(s, p, e)
         IN  IF once.out \in {"next", "continue"}
             THEN LET more == Repeat(s, p, n - 1, e) IN Ran(once.trace \o more.trace, more.out)
             ELSE Ran(once.trace, IF once.out = "break" THEN "next" ELSE once.out)

Exec(s, p, e) ==
    CASE s.k = "block"  -> ExecFrom(s, p, 1, e)
      [] s.k \in {"label", "case"} -> ExecFrom(s, p, 1, e)
      [] s.k = "op"     -> Ran(<<p>>, "next")
      [] s.k = "if"     -> IF Holds(s.c, e) THEN Exec(s.sub[1], Append(p, 1), e)
                           ELSE IF Len(s.sub) = 2 THEN Exec(s.sub[2], Append(p, 2), e)
                           ELSE Ran(<<>>, "next")
      [] s.k = "for"    -> Repeat(s.sub[1], Append(p, 1), Iterations(s.c), e)
      [] s.k = "switch" ->
             LET cases  == {j \in DOMAIN s.sub[1].sub : s.sub[1].sub[j].k = "case"}
                 taken  == {j \in cases : e.x \in ToSet(s.sub[1].sub[j].c.vals)}
                 start  == IF taken # {} THEN taken ELSE {j \in cases : s.sub[1].sub[j].c.vals = <<>>}
                 ran    == IF start = {} THEN Ran(<<>>, "next")
                           ELSE ExecFrom(s.sub[1], Append(p, 1), CHOOSE j \in start : TRUE, e)
             IN  Ran(ran.trace, IF ran.out = "break" THEN "next" ELSE ran.out)
      [] OTHER          -> Ran(<<>>, s.k)        \* return, goto, break, continue

SourceTrace(e) == Exec(body, <<>>, e).trace

RECURSIVE RisTrace(_, _), Times(_, _)
Times(n, t) == IF n = 0 THEN <<>> ELSE t \o Times(n - 1, t)
RisTrace(nodes, e) ==
    IF nodes = <<>> THEN <<>>
    ELSE LET n == Head(nodes)
         IN  (CASE n.k = "op"   -> <<n.site>>
                [] n.k = "cond" -> IF Holds(n.guard, e) THEN RisTrace(n.body, e) ELSE <<>>
                [] n.k = "loop" -> Times(n.count, RisTrace(n.body, e)))
             \o RisTrace(Tail(nodes), e)

RECURSIVE Uncounted(_)
Uncounted(nodes) == \E i \in DOMAIN nodes : nodes[i].count = NoCount \/ Uncounted(nodes[i].body)
Counted == ~Uncounted(ris) /\ Below(<<>>, {"while", "do"}) = {}

Accesses(sites) == [i \in DOMAIN sites |-> At(body, sites[i]).c.acc]

\* When the census is complete, the nested conditions and loops of the RIS
\* let exactly the accesses happen that C makes, in the same order and the same
\* number, whatever the conditions are.
RisIsSource ==
    stage = "done" /\ census.complete /\ Counted =>
        \A e \in Env : Accesses(RisTrace(ris, e)) = Accesses(SourceTrace(e))

\* trace_match.py will find what the source does outside its loops among the
\* variants of the module, whatever the conditions are: a driver that behaves
\* like the source is not rejected for the branches it took.
VariantsCover ==
    stage = "done" /\ census.complete /\ Counted =>
        \A e \in Env :
            Accesses(SelectSeq(SourceTrace(e), LAMBDA p : AncestorsOf(p, LoopKinds) = {}))
                \in {Accesses(v) : v \in Variants(ris)}

\* ast_model.py:446 says that the guards dominate the statements behind a transfer
\* they cover: an access that happens has the guards that are put on it.
GuardsDominate ==
    stage = "done" /\ census.complete /\ Counted =>
        \A e \in Env : \A p \in ToSet(SourceTrace(e)) : \A t \in ActiveAt(p) : Holds(t.guard, e)

\* ast_model.py:451 says that behind the label of a forward goto the paths merge
\* again: an access behind it that happens is in the RIS.
JoinsMerge ==
    stage = "done" /\ census.complete /\ Counted =>
        \A e \in Env : \A p \in ToSet(SourceTrace(e)) :
            (\E l \in Labels : ~Earlier(p, l)) => p \in ToSet(RisTrace(ris, e))

\* formalize.py:158 says that the bound of a loop is proved: a loop with a count
\* begins its body that often.
CountsAreProved ==
    stage = "done" =>
        \A p \in Below(<<>>, {"for"}) :
            BoundedLoop(At(body, p)) \in {NoCount, Iterations(At(body, p).c)}
=============================================================================
