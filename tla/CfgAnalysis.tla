---------------------------- MODULE CfgAnalysis ----------------------------
(***************************************************************************)
(* _function_cfg of extractor/control.py once the edges are there: the     *)
(* dominators from the entry, then the postdominators from the exit over   *)
(* the reversed edges, then what is read off them: immediate dominators,   *)
(* joins, back edges and loop headers.                                     *)
(***************************************************************************)
EXTENDS CfgDominance, FiniteSets, Integers

CONSTANT Exit

ASSUME ExitAssumption   == Exit \in Node /\ Exit # Root
\* The blocks are made one per statement of a source file.
ASSUME FiniteAssumption == IsFiniteSet(Node)

VARIABLES bphase, canExit, bwork, postdominators, btodo, bchanged

forward  == <<phase, visited, work, dom, todo, changed>>
backward == <<bphase, canExit, bwork, postdominators, btodo, bchanged>>
avars    == <<edge, forward, backward>>

Reversed(E) == {<<e[2], e[1]>> : e \in E}

Bwd == INSTANCE CfgDominance
           WITH Root <- Exit, Graph <- {Reversed(g) : g \in Graph},
                edge <- Reversed(edge), phase <- bphase, visited <- canExit,
                work <- bwork, dom <- postdominators, todo <- btodo, changed <- bchanged

AInit == /\ Init
         /\ bphase = "reach" /\ canExit = {} /\ bwork = {Exit}
         /\ postdominators = <<>> /\ btodo = {} /\ bchanged = FALSE

\* MUTANT: no postdominators for a function that never returns.
ANextMutant == \/ Next /\ UNCHANGED backward
               \/ /\ phase = "done" /\ Exit \in visited
                  /\ UNCHANGED <<edge, forward>> /\ Bwd!Next

ANext == \/ Next /\ UNCHANGED backward
         \/ phase = "done" /\ UNCHANGED <<edge, forward>> /\ Bwd!Next
ASpec == AInit /\ [][ANext]_avars /\ WF_avars(ANext)
-----------------------------------------------------------------------------
Done == phase = "done" /\ bphase = "done"

Strict(n, among, relation) == IF n \in among THEN relation[n] \ {n} ELSE {}

\* MUTANT: the candidate with the fewest dominators of its own.
ImmediateMutant(n, among, relation) ==
    LET candidates == Strict(n, among, relation)
    IN  {d \in candidates : \A c \in candidates :
             Cardinality(relation[d]) <= Cardinality(relation[c])}

\* What `immediate` may return: max() keeps any of the candidates with the
\* most dominators of its own, and there are none for the root or for a block
\* the analysis did not visit.
Immediate(n, among, relation) ==
    LET candidates == Strict(n, among, relation)
    IN  {d \in candidates : \A c \in candidates :
             Cardinality(relation[d]) >= Cardinality(relation[c])}

IDom(n)  == Immediate(n, visited, dom)
IPost(n) == Immediate(n, canExit, postdominators)

\* MUTANT: an edge back to a block that the source dominates.
BackedgesMutant == {e \in edge : e[2] \in visited /\ e[1] \in dom[e[2]]}

Backedges   == {e \in edge : e[1] \in visited /\ e[2] \in dom[e[1]]}
LoopHeaders == {e[2] : e \in Backedges}

\* MUTANT: two predecessors are not enough.
JoinsMutant == {n \in Node : Cardinality(Pred(n)) > 2}

Joins == {n \in Node : Cardinality(Pred(n)) > 1}
-----------------------------------------------------------------------------
\* immediate() has nothing to choose from: a block has at most one immediate
\* dominator and one immediate postdominator, and every other strict one
\* (post)dominates that.
ImmediateUnique ==
    Done => \A n \in Node :
        /\ \A d \in IDom(n) : Strict(n, visited, dom) = dom[d]
        /\ \A d \in IPost(n) : Strict(n, canExit, postdominators) = postdominators[d]
        /\ n \in visited \ {Root} => Cardinality(IDom(n)) = 1
        /\ n \in canExit \ {Exit} => Cardinality(IPost(n)) = 1

\* The blocks from which tail is reached without passing head.
NaturalLoop(tail, head) ==
    {n \in visited : \A S \in SUBSET Node :
        tail \in S /\ (\A m \in S \ {head} : Pred(m) \subseteq S) => n \in S}

\* A back edge closes a loop that is entered at its header only.
LoopHasOneEntry ==
    Done => \A e \in Backedges : \A n \in NaturalLoop(e[1], e[2]) :
        /\ e[2] \in dom[n]
        /\ n # e[2] => Pred(n) \subseteq NaturalLoop(e[1], e[2])

\* A block at which no two paths meet belongs to its predecessor: the
\* predecessor is its immediate dominator.
NoJoinNoChoice ==
    Done => \A n \in visited \ (Joins \cup {Root}) : IDom(n) = Pred(n)

\* What immediate(), the back edges and the joins are read off the sets for:
\* there is one answer, and it is the one the paths of the graph give.
ReadOffUnique == ImmediateUnique /\ LoopHasOneEntry /\ NoJoinNoChoice

\* Both analyses end, whether or not the function can return.
BothTerminate == <>Done
=============================================================================
