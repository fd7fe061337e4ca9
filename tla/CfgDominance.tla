---------------------------- MODULE CfgDominance ----------------------------
(***************************************************************************)
(* The two analyses extractor/control.py runs on a statement CFG: which    *)
(* blocks the root reaches, by a worklist, and which blocks dominate each  *)
(* of them, by sweeps that stop when one changes nothing.  The order in    *)
(* which a sweep visits blocks is that of a Python set: any order.  With   *)
(* the edges reversed and the exit as the root these are can_exit and the  *)
(* postdominators.                                                         *)
(***************************************************************************)
CONSTANTS Node,    \* the blocks of a function
          Root,    \* the entry block (the exit block for postdominators)
          Graph    \* the edge sets a function's CFG may have

ASSUME RootAssumption  == Root \in Node
ASSUME GraphAssumption == Graph \subseteq SUBSET (Node \X Node)

VARIABLES edge,     \* the edges of the CFG; never changed here
          phase,    \* "reach", then "sweep", then "done"
          visited,  \* `reachable`
          work,     \* the blocks on the worklist; a list whose repetitions
                    \* are skipped when they are popped
          dom,      \* `dominators`, a map on `visited`
          todo,     \* blocks this sweep has not come to
          changed   \* whether this sweep has changed a set

vars == <<edge, phase, visited, work, dom, todo, changed>>

Succ(n) == {m \in Node : <<n, m>> \in edge}
Pred(n) == {m \in visited : <<m, n>> \in edge}

TypeOK == /\ edge \subseteq Node \X Node
          /\ phase \in {"reach", "sweep", "done"}
          /\ visited \subseteq Node /\ work \subseteq Node
          /\ todo \subseteq visited \ {Root} /\ changed \in BOOLEAN
          /\ phase = "reach" => todo = {}
          /\ phase # "reach" => dom \in [visited -> SUBSET visited]

Init == /\ edge \in Graph
        /\ phase = "reach" /\ visited = {} /\ work = {Root}
        /\ dom = <<>> /\ todo = {} /\ changed = FALSE

\* MUTANT: the worklist is replaced, not extended.
VisitMutant(n) ==
    /\ phase = "reach" /\ n \in work
    /\ visited' = visited \cup {n}
    /\ work' = Succ(n) \ visited'
    /\ UNCHANGED <<edge, phase, dom, todo, changed>>

Visit(n) ==
    /\ phase = "reach" /\ n \in work
    /\ visited' = visited \cup {n}
    /\ work' = (work \cup Succ(n)) \ visited'
    /\ UNCHANGED <<edge, phase, dom, todo, changed>>

\* MUTANT: the root is swept too.
StartSweepsMutant1 ==
    /\ phase = "reach" /\ work = {}
    /\ dom' = [n \in visited |-> IF n = Root THEN {Root} ELSE visited]
    /\ todo' = visited
    /\ phase' = "sweep"
    /\ UNCHANGED <<edge, visited, work, changed>>

StartSweeps ==
    /\ phase = "reach" /\ work = {}
    /\ dom' = [n \in visited |-> IF n = Root THEN {Root} ELSE visited]
    /\ todo' = visited \ {Root}
    /\ phase' = "sweep"
    /\ UNCHANGED <<edge, visited, work, changed>>

\* {node} with what all predecessors have in common.
Meet(n) == {n} \cup {d \in visited : Pred(n) # {} /\ \A p \in Pred(n) : d \in dom[p]}

\* MUTANT: the flag tells of the last block only.
UpdateMutant(n) ==
    /\ phase = "sweep" /\ n \in todo
    /\ dom' = [dom EXCEPT ![n] = Meet(n)]
    /\ changed' = (Meet(n) # dom[n])
    /\ todo' = todo \ {n}
    /\ UNCHANGED <<edge, phase, visited, work>>

Update(n) ==
    /\ phase = "sweep" /\ n \in todo
    /\ dom' = [dom EXCEPT ![n] = Meet(n)]
    /\ changed' = (changed \/ Meet(n) # dom[n])
    /\ todo' = todo \ {n}
    /\ UNCHANGED <<edge, phase, visited, work>>

SweepAgain ==
    /\ phase = "sweep" /\ todo = {} /\ changed
    /\ todo' = visited \ {Root}
    /\ changed' = FALSE
    /\ UNCHANGED <<edge, phase, visited, work, dom>>

Finish ==
    /\ phase = "sweep" /\ todo = {} /\ ~changed
    /\ phase' = "done"
    /\ UNCHANGED <<edge, visited, work, dom, todo, changed>>

Next == \/ \E n \in Node : Visit(n) \/ Update(n)
        \/ StartSweeps \/ SweepAgain \/ Finish

\* A sequential loop: it goes on as long as it can.
Spec == Init /\ [][Next]_vars /\ WF_vars(Next)
-----------------------------------------------------------------------------
(***************************************************************************)
(* What the results mean, said with sets closed under the edges and not    *)
(* with an algorithm.                                                      *)
(***************************************************************************)
Closed(S) == \A n \in S : Succ(n) \subseteq S

\* n is on a path from the root.
Reaches(n) == \A S \in SUBSET Node : Root \in S /\ Closed(S) => n \in S

\* No path from the root to n avoids d: what the root reaches without passing
\* through d is inside some set n is not in.
Dominates(d, n) ==
    n = d \/ \E S \in SUBSET (Node \ {d}) :
                 /\ Root # d => Root \in S
                 /\ \A m \in S : Succ(m) \subseteq S \cup {d}
                 /\ n \notin S

\* What the worklist leaves in `reachable` is what the root reaches.
ReachExact == phase = "done" => visited = {n \in Node : Reaches(n)}

\* When the sweeps end, the set of a block holds exactly the blocks that
\* dominate it, in whatever order the sweeps came to the blocks.
DomExact ==
    phase = "done" =>
        \A n \in visited : dom[n] = {d \in visited : Dominates(d, n)}

\* A sweep only removes blocks from a set, never one that dominates.
DomShrinks == [][phase = "sweep" => \A n \in visited : dom'[n] \subseteq dom[n]]_vars
=============================================================================
