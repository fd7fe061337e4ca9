------------------------- MODULE CfgAnalysisProofs -------------------------
(***************************************************************************)
(* What _function_cfg reads off the dominator sets, on every graph.  The   *)
(* two analyses are the one CfgDominanceProofs is about, forward and over  *)
(* the reversed edges; each leaves sets in line, and in such sets the      *)
(* candidate immediate() keeps is the only one there can be.               *)
(***************************************************************************)
EXTENDS CfgAnalysis, CfgDominanceProofs, FiniteSetTheorems, WellFoundedInduction

USE ExitAssumption, FiniteAssumption

BwdP == INSTANCE CfgDominanceProofs
            WITH Root <- Exit, Graph <- {Reversed(g) : g \in Graph},
                 edge <- Reversed(edge), phase <- bphase, visited <- canExit,
                 work <- bwork, dom <- postdominators, todo <- btodo, changed <- bchanged

LEMMA ReversedGraphs == {Reversed(g) : g \in Graph} \subseteq SUBSET (Node \X Node)
<1>1. ASSUME NEW g \in Graph, NEW e \in g PROVE <<e[2], e[1]>> \in Node \X Node
  BY GraphAssumption
<1> QED BY <1>1 DEF Reversed

\* Each analysis runs as if it were alone.
LEMMA ForwardSafe == ASpec => Safe
<1>1. AInit => Init
  BY DEF AInit
<1>2. [ANext]_avars => [Next]_vars
  BY DEF ANext, avars, forward, vars
<1> QED BY <1>1, <1>2, PTL DEF ASpec, Safe

LEMMA BackwardSafe == ASpec => BwdP!Safe
<1>1. AInit => BwdP!Init
  BY DEF AInit, Init, BwdP!Init
<1>2. [ANext]_avars => [BwdP!Next]_BwdP!vars
  <2> SUFFICES ASSUME [ANext]_avars PROVE [BwdP!Next]_BwdP!vars
    OBVIOUS
  <2>1. CASE Next /\ UNCHANGED backward
    <3>1. edge' = edge
      BY <2>1 DEF Next, Visit, Update, StartSweeps, SweepAgain, Finish
    <3> QED BY <2>1, <3>1 DEF backward, BwdP!vars, Reversed
  <2>2. CASE Bwd!Next
    BY <2>2 DEF Bwd!Next, BwdP!Next, Bwd!Visit, BwdP!Visit, Bwd!Update, BwdP!Update,
                Bwd!StartSweeps, BwdP!StartSweeps, Bwd!SweepAgain, BwdP!SweepAgain,
                Bwd!Finish, BwdP!Finish, Bwd!Succ, BwdP!Succ, Bwd!Meet, BwdP!Meet,
                Bwd!Pred, BwdP!Pred
  <2>3. CASE UNCHANGED avars
    BY <2>3 DEF avars, backward, BwdP!vars, Reversed
  <2> QED BY <2>1, <2>2, <2>3 DEF ANext
<1> QED BY <1>1, <1>2, PTL DEF ASpec, BwdP!Safe

\* can_exit holds the blocks from which the exit is reached, and the
\* postdominators of a block are those every path from it to the exit passes.
THEOREM PostdominatorsAreExact == ASpec => [](Bwd!ReachExact /\ Bwd!DomExact)
<1>1. BwdP!Safe => []BwdP!ReachExact
  BY BwdP!ReachExactSafe, ReversedGraphs
<1>2. BwdP!Safe => []BwdP!DomExact
  BY BwdP!DomExactSafe, ReversedGraphs
<1>3. BwdP!ReachExact /\ BwdP!DomExact => Bwd!ReachExact /\ Bwd!DomExact
  BY DEF Bwd!ReachExact, BwdP!ReachExact, Bwd!Reaches, BwdP!Reaches, Bwd!Closed, BwdP!Closed,
         Bwd!Succ, BwdP!Succ, Bwd!DomExact, BwdP!DomExact, Bwd!Dominates, BwdP!Dominates
<1> QED BY <1>1, <1>2, <1>3, BackwardSafe, PTL

\* So when both have ended both sets are in line.
BothInLine == Done => /\ Settled /\ InLine(visited, dom, Root)
                      /\ InLine(canExit, postdominators, Exit)

LEMMA BothInLineInvariant == ASpec => []BothInLine
<1>1. SettledInv /\ BwdP!SettledInv => BothInLine
  BY DEF SettledInv, BwdP!SettledInv, BothInLine, Done, InLine, BwdP!InLine
<1>2. ASpec => []SettledInv
  BY ForwardSafe, SettledInvariant, PTL
<1>3. BwdP!Safe => []BwdP!SettledInv
  BY BwdP!SettledInvariant, ReversedGraphs
<1> QED BY <1>1, <1>2, <1>3, BackwardSafe, PTL
-----------------------------------------------------------------------------
\* In sets that are in line a candidate with the most dominators of its own
\* has all other candidates among them.
LEMMA CandidateIsNearest ==
    ASSUME NEW V, NEW D, NEW r, InLine(V, D, r), NEW n, NEW d \in Immediate(n, V, D)
    PROVE  Strict(n, V, D) = D[d]
<1>1. n \in V /\ d \in D[n] /\ d # n /\ d \in V /\ D[d] \subseteq V
  BY DEF Immediate, Strict, InLine
<1>2. D[d] \subseteq Strict(n, V, D)
  BY <1>1 DEF Strict, InLine
<1>3. ASSUME NEW c \in Strict(n, V, D) PROVE c \in D[d]
  <2> SUFFICES ASSUME c \notin D[d] PROVE FALSE
    OBVIOUS
  <2>1. c \in D[n] /\ c \in V /\ c \in D[c] /\ D[c] \subseteq V
    BY <1>1 DEF Strict, InLine
  <2>2. D[d] \subseteq D[c] /\ D[d] # D[c]
    BY <1>1, <2>1 DEF InLine
  <2>3. IsFiniteSet(D[c])
    BY <2>1, FS_Subset DEF InLine
  <2>4. Cardinality(D[d]) \in Nat /\ Cardinality(D[c]) \in Nat
        /\ Cardinality(D[d]) <= Cardinality(D[c]) /\ Cardinality(D[d]) # Cardinality(D[c])
    BY <2>2, <2>3, FS_Subset, FS_CardinalityType
  <2>5. Cardinality(D[d]) >= Cardinality(D[c])
    BY DEF Immediate
  <2> QED BY <2>4, <2>5
<1> QED BY <1>2, <1>3

LEMMA ImmediateExists ==
    ASSUME NEW V, NEW D, NEW r, InLine(V, D, r), NEW n \in V \ {r}
    PROVE  Cardinality(Immediate(n, V, D)) = 1
<1> DEFINE C == Strict(n, V, D)
           T == {V \ D[c] : c \in C}
<1>1. /\ IsFiniteSet(V) /\ r \in C /\ C \subseteq V /\ C \subseteq D[n]
  <2>1. V \subseteq Node
    BY DEF InLine
  <2> QED BY <2>1, FS_Subset DEF InLine, Strict
<1>2. T \subseteq SUBSET V /\ T # {}
  BY <1>1
<1>3. IsWellFoundedOn(StrictSubsetOrdering(V), SUBSET V)
  BY <1>1, FS_StrictSubsetOrderingWellFounded, FS_FiniteSubsetsOfFinite
<1>4. PICK t \in T : \A u \in T : <<u, t>> \notin StrictSubsetOrdering(V)
  <2> HIDE DEF T
  <2> QED BY <1>2, <1>3, WFMin
<1>5. PICK d \in C : t = V \ D[d]
  OBVIOUS
<1>6. ASSUME NEW c \in C PROVE D[c] \subseteq D[d]
  <2>1. c \in D[n] /\ d \in D[n] /\ c \in V /\ d \in V
    BY <1>1
  <2>2. D[c] \subseteq V /\ D[d] \subseteq V
    BY <2>1 DEF InLine
  <2>3. CASE d \in D[c]
    <3>1. D[d] \subseteq D[c]
      BY <2>1, <2>3 DEF InLine
    <3>2. <<V \ D[c], V \ D[d]>> \notin StrictSubsetOrdering(V)
      BY <1>4, <1>5
    <3> QED BY <2>2, <3>1, <3>2 DEF StrictSubsetOrdering
  <2>4. CASE c \in D[d]
    BY <2>1, <2>4 DEF InLine
  <2> QED BY <2>1, <2>3, <2>4 DEF InLine
<1>7. d \in Immediate(n, V, D)
  <2>1. IsFiniteSet(D[d])
    BY <1>1, FS_Subset DEF InLine
  <2>2. \A c \in C : Cardinality(D[d]) >= Cardinality(D[c])
    <3> SUFFICES ASSUME NEW c \in C PROVE Cardinality(D[d]) >= Cardinality(D[c])
      OBVIOUS
    <3>1. IsFiniteSet(D[c]) /\ Cardinality(D[c]) <= Cardinality(D[d])
      BY <1>6, <2>1, FS_Subset
    <3> QED BY <2>1, <3>1, FS_CardinalityType
  <2> QED BY <2>2 DEF Immediate
<1>8. \A e \in Immediate(n, V, D) : e = d
  <2> SUFFICES ASSUME NEW e \in Immediate(n, V, D) PROVE e = d
    OBVIOUS
  <2>1. e \in C /\ C = D[e] /\ C = D[d]
    BY <1>7, CandidateIsNearest DEF Immediate
  <2> QED BY <1>1, <2>1 DEF InLine
<1>9. Immediate(n, V, D) = {d}
  BY <1>7, <1>8
<1> QED BY <1>9, FS_Singleton
-----------------------------------------------------------------------------
LEMMA UniqueImmediate == BothInLine => ImmediateUnique
<1> SUFFICES ASSUME BothInLine, Done, NEW n \in Node
             PROVE  /\ \A d \in IDom(n) : Strict(n, visited, dom) = dom[d]
                    /\ \A d \in IPost(n) : Strict(n, canExit, postdominators) = postdominators[d]
                    /\ n \in visited \ {Root} => Cardinality(IDom(n)) = 1
                    /\ n \in canExit \ {Exit} => Cardinality(IPost(n)) = 1
  BY DEF ImmediateUnique
<1> QED BY CandidateIsNearest, ImmediateExists DEF BothInLine, IDom, IPost

LEMMA OneEntry == BothInLine => LoopHasOneEntry
<1> SUFFICES ASSUME BothInLine, Done, NEW e \in Backedges, NEW n \in NaturalLoop(e[1], e[2])
             PROVE  /\ e[2] \in dom[n]
                    /\ n # e[2] => Pred(n) \subseteq NaturalLoop(e[1], e[2])
  BY DEF LoopHasOneEntry
<1> DEFINE Under == {m \in visited : e[2] \in dom[m]}
<1>1. Settled
  BY DEF BothInLine
<1>2. Under \in SUBSET Node /\ e[1] \in Under
  BY <1>1 DEF Settled, TypeOK, Backedges
<1>3. \A m \in Under \ {e[2]} : Pred(m) \subseteq Under
  <2> SUFFICES ASSUME NEW m \in Under \ {e[2]}, NEW p \in Pred(m) PROVE p \in Under
    OBVIOUS
  <2>1. m # Root
    BY <1>1 DEF Settled, DomInv
  <2>2. dom[m] = Meet(m)
    BY <1>1, <2>1 DEF Settled, SweepInv
  <2> QED BY <2>2 DEF Meet, Pred
<1>4. e[2] \in dom[n]
  BY <1>2, <1>3 DEF NaturalLoop
<1>5. n # e[2] => Pred(n) \subseteq NaturalLoop(e[1], e[2])
  BY DEF NaturalLoop, Pred
<1> QED BY <1>4, <1>5

LEMMA NoChoice == BothInLine => NoJoinNoChoice
<1> SUFFICES ASSUME BothInLine, Done, NEW n \in visited \ (Joins \cup {Root})
             PROVE  IDom(n) = Pred(n)
  BY DEF NoJoinNoChoice
<1>1. Settled /\ InLine(visited, dom, Root) /\ n \in Node /\ visited \subseteq Node
  BY DEF BothInLine, Settled, TypeOK
<1>2. PICK p : Pred(n) = {p}
  <2>1. Pred(n) # {}
    BY <1>1, HasPred DEF Settled, ReachInv
  <2>2. IsFiniteSet(Pred(n))
    BY <1>1, FS_Subset DEF Pred
  <2>3. ~(Cardinality(Pred(n)) > 1)
    BY <1>1 DEF Joins
  <2>4. Cardinality(Pred(n)) = 1
    BY <2>1, <2>2, <2>3, FS_CardinalityType, FS_EmptySet
  <2> QED BY <2>2, <2>4, FS_Singleton
<1>3. p \in visited /\ <<p, n>> \in edge
  BY <1>2 DEF Pred
<1>4. p # n
  <2> SUFFICES ASSUME p = n PROVE FALSE
    OBVIOUS
  <2>1. Closed(visited \ {n})
    BY <1>1, <1>2 DEF Closed, Pred, Succ, Settled, ReachInv
  <2>2. visited \ {n} \in SUBSET Node /\ Root \in visited \ {n}
    BY <1>1 DEF InLine
  <2> QED BY <1>1, <2>1, <2>2 DEF Settled, ReachInv, Reaches
<1>5. dom[n] = {n} \cup dom[p]
  <2>1. dom[n] = Meet(n)
    BY <1>1 DEF Settled, SweepInv
  <2>2. dom[p] \subseteq visited
    BY <1>1, <1>3 DEF InLine
  <2> QED BY <1>2, <2>1, <2>2 DEF Meet
<1>6. p \in dom[p] /\ n \notin dom[p]
  BY <1>1, <1>3, <1>4, <1>5 DEF InLine
<1>7. Strict(n, visited, dom) = dom[p]
  BY <1>5, <1>6 DEF Strict
<1>8. p \in IDom(n)
  <2> SUFFICES ASSUME NEW c \in dom[p] PROVE Cardinality(dom[p]) >= Cardinality(dom[c])
    BY <1>6, <1>7 DEF IDom, Immediate
  <2>1. dom[c] \subseteq dom[p] /\ IsFiniteSet(dom[p])
    BY <1>1, <1>3, FS_Subset DEF InLine
  <2>2. IsFiniteSet(dom[c]) /\ Cardinality(dom[c]) <= Cardinality(dom[p])
    BY <2>1, FS_Subset
  <2> QED BY <2>1, <2>2, FS_CardinalityType
<1>9. ASSUME NEW d \in IDom(n) PROVE d = p
  <2>1. dom[d] = dom[p] /\ d \in dom[p]
    BY <1>1, <1>7, <1>9, CandidateIsNearest DEF IDom, Immediate
  <2> QED BY <1>1, <1>3, <1>6, <2>1 DEF InLine
<1> QED BY <1>2, <1>8, <1>9

(***************************************************************************)
(* On every graph and for every order of the sweeps: immediate() of        *)
(* extractor/control.py has one answer, a loop closed by a back edge is    *)
(* entered at its header only, and a block at which no paths meet hangs    *)
(* under its only predecessor.                                             *)
(***************************************************************************)
THEOREM ReadOffIsUnique == ASpec => []ReadOffUnique
<1>1. BothInLine => ReadOffUnique
  BY UniqueImmediate, OneEntry, NoChoice DEF ReadOffUnique
<1> QED BY <1>1, BothInLineInvariant, PTL
=============================================================================
