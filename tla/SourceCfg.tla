----------------------------- MODULE SourceCfg -----------------------------
(***************************************************************************)
(* How extractor/control.py turns a function body into a statement CFG: a  *)
(* recursion over the syntax tree that builds each statement in front of   *)
(* the block control falls through to, leaving gotos for the end.  It is   *)
(* compared with the flow of C, defined from the place of a statement in   *)
(* the tree and not by a recursion over it.                                *)
(*                                                                         *)
(* A statement is [k: its kind, sub: its sub-statements], named by its     *)
(* path from the body.  Expressions are left out; one label is enough.     *)
(***************************************************************************)
EXTENDS Integers, Sequences, SequencesExt, FiniteSets

CONSTANT Programs     \* the function bodies to consider: "block" statements

VARIABLES body,       \* the function body
          cfg         \* what _function_cfg returned, or NoCfg before the call

vars == <<body, cfg>>

Entry == <<-1>>
Exit  == <<0>>
None  == <<-2>>
NoCfg == [edges |-> {}, unresolved |-> {}, complete |-> FALSE]
-----------------------------------------------------------------------------
(***************************************************************************)
(* The builder                                                             *)
(***************************************************************************)
Built(entry, edges, gotos, labels, unresolved) ==
    [entry |-> entry, edges |-> edges, gotos |-> gotos, labels |-> labels,
     unresolved |-> unresolved]

\* add_edge: no target, no edge, but a record of the block.
Edge(from, to)   == IF to = None THEN {} ELSE {<<from, to>>}
Missing(from, to) == IF to = None THEN {from} ELSE {}

Block(p, targets) ==
    Built(p, UNION {Edge(p, t) : t \in targets}, {}, {},
          UNION {Missing(p, t) : t \in targets})

\* The part built for sub-statements, with the block p in front of it.
Around(p, parts, edges) ==
    Built(p, edges \cup UNION {r.edges : r \in parts}, UNION {r.gotos : r \in parts},
          UNION {r.labels : r \in parts}, UNION {r.unresolved : r \in parts})

RECURSIVE Build(_, _, _, _, _), BuildAll(_, _, _, _, _, _)

\* The last of several statements is built first; each is the successor of the
\* one before it.
BuildAll(subs, p, i, succ, brk, cont) ==
    IF i > Len(subs) THEN Built(succ, {}, {}, {}, {})
    ELSE LET rest == BuildAll(subs, p, i + 1, succ, brk, cont)
             this == Build(subs[i], Append(p, i), rest.entry, brk, cont)
         IN  Around(this.entry, {this, rest}, {})

\* The condition is the first child of a while or an if, and the last of a do,
\* so that the "body" taken for a do is its condition, an expression, built as
\* a plain block.  A case label is a plain block too: nothing below it is built.
Build(s, p, succ, brk, cont) ==
    CASE s.k = "block"    -> BuildAll(s.sub, p, 1, succ, brk, cont)
      [] s.k = "label"    -> LET rest == BuildAll(s.sub, p, 1, succ, brk, cont)
                             IN  [Around(p, {rest}, {<<p, rest.entry>>})
                                     EXCEPT !.labels = @ \cup {p}]
      [] s.k = "goto"     -> Built(p, {}, {p}, {}, {})
      [] s.k = "return"   -> Block(p, {Exit})
      [] s.k = "break"    -> Block(p, {brk})
      [] s.k = "continue" -> Block(p, {cont})
      [] s.k = "if"       -> LET then == Build(s.sub[1], Append(p, 1), succ, brk, cont)
                                 else == IF Len(s.sub) = 1 THEN Built(succ, {}, {}, {}, {})
                                         ELSE Build(s.sub[2], Append(p, 2), succ, brk, cont)
                             IN  Around(p, {then, else}, {<<p, then.entry>>, <<p, else.entry>>})
      [] s.k \in {"while", "for"} -> LET do == Build(s.sub[1], Append(p, 1), p, succ, p)
                             IN  Around(p, {do}, {<<p, do.entry>>, <<p, succ>>})
      [] s.k = "do"       -> LET do == Block(Append(p, 2), {p})
                             IN  Around(p, {do}, {<<p, do.entry>>, <<p, succ>>})
      [] s.k = "switch"   -> LET cases == Build(s.sub[1], Append(p, 1), succ, succ, cont)
                             IN  Around(p, {cases}, {<<p, cases.entry>>, <<p, succ>>})
      [] OTHER            -> Block(p, {succ})

Earlier(p, q) == IsPrefix(p, q)
                 \/ \E i \in DOMAIN p \cap DOMAIN q :
                        SubSeq(p, 1, i - 1) = SubSeq(q, 1, i - 1) /\ p[i] < q[i]

\* MUTANT: a goto is resolved when it is built, from the labels built so far.
FunctionCfgMutant(s) ==
    LET b    == Build(s, <<>>, Exit, None, None)
        lost == {g \in b.gotos : \A l \in b.labels : Earlier(l, g)}
        unresolved == b.unresolved \cup lost
    IN  [edges      |-> b.edges \cup {<<Entry, b.entry>>}
                        \cup ((b.gotos \ lost) \X b.labels),
         unresolved |-> unresolved,
         complete   |-> unresolved = {}]

\* The gotos are resolved last, by name: here there is one label.
FunctionCfg(s) ==
    LET b       == Build(s, <<>>, Exit, None, None)
        lost    == {g \in b.gotos : b.labels = {}}
        unresolved == b.unresolved \cup lost
    IN  [edges      |-> b.edges \cup {<<Entry, b.entry>>}
                        \cup ((b.gotos \ lost) \X b.labels),
         unresolved |-> unresolved,
         complete   |-> unresolved = {}]

Init == body \in Programs /\ cfg = NoCfg
Next == cfg = NoCfg /\ cfg' = FunctionCfg(body) /\ UNCHANGED body
Spec == Init /\ [][Next]_vars
-----------------------------------------------------------------------------
(***************************************************************************)
(* The flow of C                                                           *)
(***************************************************************************)
RECURSIVE PathsOf(_, _)
PathsOf(s, p) == {p} \cup UNION {PathsOf(s.sub[i], Append(p, i)) : i \in DOMAIN s.sub}

RECURSIVE At(_, _)
At(s, p) == IF p = <<>> THEN s ELSE At(s.sub[Head(p)], Tail(p))

Kind(p)       == At(body, p).k
Kids(p)       == Len(At(body, p).sub)
Statements    == {p \in PathsOf(body, <<>>) : Kind(p) # "block"}
Enclosing(p, kinds) ==      \* the nearest statement of these kinds around p
    LET around == {q \in PathsOf(body, <<>>) : IsStrictPrefix(q, p) /\ Kind(q) \in kinds}
    IN  CHOOSE q \in around : \A r \in around : Len(r) <= Len(q)

\* Where control is after p has completed, and where it starts p.  A while is
\* entered at its condition and a do at its body; the block of a do is its
\* condition.
RECURSIVE After(_), Start(_)
After(p) ==
    IF p = <<>> THEN Exit
    ELSE LET up == Front(p) IN
         CASE Kind(up) = "block" /\ Last(p) < Kids(up) -> Start(Append(up, Last(p) + 1))
           [] Kind(up) \in {"while", "for", "do"}          -> up
           [] OTHER                                   -> After(up)
Start(p) ==
    CASE Kind(p) = "block" -> IF Kids(p) = 0 THEN After(p) ELSE Start(Append(p, 1))
      [] Kind(p) = "do"    -> Start(Append(p, 1))
      [] OTHER             -> p

Labels == {p \in Statements : Kind(p) = "label"}
Cases(p) == {q \in Statements : Kind(q) = "case" /\ Front(Front(q)) = p}

FlowTo(p) ==
    CASE Kind(p) = "return"   -> {Exit}
      [] Kind(p) = "goto"     -> Labels
      [] Kind(p) = "break"    -> {After(Enclosing(p, {"while", "for", "do", "switch"}))}
      [] Kind(p) = "continue" -> {Enclosing(p, {"while", "for", "do"})}
      [] Kind(p) = "if"       -> {Start(Append(p, 1)),
                                  IF Kids(p) = 1 THEN After(p) ELSE Start(Append(p, 2))}
      [] Kind(p) \in {"while", "for", "do"} -> {Start(Append(p, 1)), After(p)}
      [] Kind(p) \in {"label", "case"} -> {Start(Append(p, 1))}
      [] Kind(p) = "switch"   -> Cases(p) \cup {After(p)}
      [] OTHER                -> {After(p)}

Flow == {<<Entry, Start(<<>>)>>} \cup UNION {{p} \X FlowTo(p) : p \in Statements}
Transfers == {p \in Statements : Kind(p) \in {"goto", "return", "break", "continue"}}
-----------------------------------------------------------------------------
\* The CFG of a body made of sequences, branches, for and while loops, labels
\* and transfers has exactly the edges along which control can pass, and reports
\* no transfer as unresolved.
CfgIsFlow ==
    cfg # NoCfg /\ (\A p \in Statements : Kind(p) \notin {"do", "switch"}) =>
        cfg.edges = Flow /\ cfg.complete

=============================================================================
