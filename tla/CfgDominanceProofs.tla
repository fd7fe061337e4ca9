------------------------ MODULE CfgDominanceProofs ------------------------
(***************************************************************************)
(* The dominator sets of extractor/control.py are exact on every graph and *)
(* for every order in which the sweeps come to the blocks.                 *)
(*                                                                         *)
(* One half is an invariant: a dominator is never removed, because a block *)
(* that dominates n and is not n dominates all predecessors of n.  The     *)
(* other half needs the end of the sweeps only: the sets then satisfy the  *)
(* dominance equations, and if d is in the set of n the blocks whose sets  *)
(* lack d form a region closed under the edges that avoid d, which holds   *)
(* the root and not n.                                                     *)
(***************************************************************************)
EXTENDS CfgDominance, TLAPS

USE RootAssumption, GraphAssumption

\* What the worklist knows: it has left no successor behind, and has met only
\* blocks the root reaches.
ReachInv ==
    /\ phase = "reach" => \A n \in visited : Succ(n) \subseteq visited \cup work
    /\ phase = "reach" => Root \in visited \cup work
    /\ phase # "reach" => Closed(visited) /\ Root \in visited
    /\ \A n \in visited \cup work : Reaches(n)

\* The root's own set is fixed, and no dominator was lost.
DomInv ==
    phase # "reach" =>
        /\ dom[Root] = {Root}
        /\ \A n \in visited, d \in visited : Dominates(d, n) => d \in dom[n]

\* A block this sweep has passed satisfies its equation, unless some set has
\* changed since the sweep began.
SweepInv ==
    /\ phase = "sweep" /\ ~changed =>
           \A n \in visited \ ({Root} \cup todo) : dom[n] = Meet(n)
    /\ phase = "done" =>
           \A n \in visited \ {Root} : dom[n] = Meet(n)
\* Safety needs no fairness.
Safe == Init /\ [][Next]_vars
-----------------------------------------------------------------------------
LEMMA TypeInvariant == Safe => []TypeOK
<1>1. Init => TypeOK
  BY DEF Init, TypeOK
<1>2. TypeOK /\ [Next]_vars => TypeOK'
  <2> SUFFICES ASSUME TypeOK, [Next]_vars PROVE TypeOK'
    OBVIOUS
  <2> USE DEF TypeOK
  <2>1. ASSUME NEW n \in Node, Visit(n) PROVE TypeOK'
    BY <2>1 DEF Visit, Succ
  <2>2. ASSUME NEW n \in Node, Update(n) PROVE TypeOK'
    <3>1. Meet(n) \subseteq visited
      BY <2>2 DEF Update, Meet
    <3> QED BY <2>2, <3>1 DEF Update
  <2>3. CASE StartSweeps
    BY <2>3 DEF StartSweeps
  <2>4. CASE SweepAgain
    BY <2>4 DEF SweepAgain
  <2>5. CASE Finish
    BY <2>5 DEF Finish
  <2>6. CASE UNCHANGED vars
    BY <2>6 DEF vars
  <2> QED BY <2>1, <2>2, <2>3, <2>4, <2>5, <2>6 DEF Next
<1> QED BY <1>1, <1>2, PTL DEF Safe

\* The algorithm's state has its type on every graph.
THEOREM TypeCorrect == Spec => []TypeOK
BY TypeInvariant, PTL DEF Spec, Safe

LEMMA ReachInvariant == Safe => []ReachInv
<1> USE DEF ReachInv, Closed
<1>1. Init => ReachInv
  BY DEF Init, Reaches
<1>2. TypeOK /\ ReachInv /\ [Next]_vars => ReachInv'
  <2> SUFFICES ASSUME TypeOK, ReachInv, [Next]_vars PROVE ReachInv'
    OBVIOUS
  <2> USE DEF TypeOK
  <2>0. edge' = edge
    BY DEF Next, Visit, Update, StartSweeps, SweepAgain, Finish, vars
  <2>a. /\ \A n \in Node : Succ(n)' = Succ(n)
        /\ \A n \in Node : Reaches(n)' <=> Reaches(n)
    BY <2>0 DEF Succ, Reaches
  <2>1. ASSUME NEW n \in Node, Visit(n) PROVE ReachInv'
    <3>1. \A m \in Succ(n) : Reaches(m)
      BY <2>1 DEF Visit, Reaches, Succ
    <3>2. \A m \in visited' \cup work' : Reaches(m)
      BY <2>1, <3>1 DEF Visit
    <3> QED BY <2>1, <2>a, <3>2 DEF Visit, Succ
  <2>2. ASSUME NEW n \in Node, Update(n) PROVE ReachInv'
    BY <2>2, <2>a DEF Update
  <2>3. CASE StartSweeps
    BY <2>3, <2>a DEF StartSweeps
  <2>4. CASE SweepAgain
    BY <2>4, <2>a DEF SweepAgain
  <2>5. CASE Finish
    BY <2>5, <2>a DEF Finish
  <2>6. CASE UNCHANGED vars
    BY <2>6, <2>a DEF vars
  <2> QED BY <2>1, <2>2, <2>3, <2>4, <2>5, <2>6 DEF Next
<1> QED BY <1>1, <1>2, TypeInvariant, PTL DEF Safe

LEMMA ReachExactSafe == Safe => []ReachExact
<1>1. TypeOK /\ ReachInv => ReachExact
  <2> SUFFICES ASSUME TypeOK, ReachInv, phase = "done"
               PROVE  visited = {n \in Node : Reaches(n)}
    BY DEF ReachExact
  <2>1. \A n \in visited : n \in Node /\ Reaches(n)
    BY DEF TypeOK, ReachInv
  <2>2. \A n \in Node : Reaches(n) => n \in visited
    BY DEF TypeOK, ReachInv, Reaches
  <2> QED BY <2>1, <2>2
<1> QED BY <1>1, TypeInvariant, ReachInvariant, PTL

\* The blocks found reachable are those on a path from the entry.
THEOREM ReachIsExact == Spec => []ReachExact
BY ReachExactSafe, PTL DEF Spec, Safe
-----------------------------------------------------------------------------
\* A block other than the root that dominates n dominates its predecessors.
LEMMA DominatesPred ==
    ASSUME TypeOK, NEW n \in visited \ {Root}, NEW d \in visited, d # n,
           Dominates(d, n), NEW p \in Pred(n)
    PROVE  Dominates(d, p)
<1>1. PICK S \in SUBSET (Node \ {d}) :
          /\ Root # d => Root \in S
          /\ \A m \in S : Succ(m) \subseteq S \cup {d}
          /\ n \notin S
  BY DEF Dominates
<1>2. n \in Succ(p)
  BY DEF Pred, Succ, TypeOK
<1>3. p \notin S
  BY <1>1, <1>2
<1> QED BY <1>1, <1>3 DEF Dominates

\* A visited block other than the root has a visited predecessor.
LEMMA HasPred ==
    ASSUME TypeOK, Closed(visited), Root \in visited,
           \A n \in visited : Reaches(n), NEW n \in visited \ {Root}
    PROVE  Pred(n) # {}
<1> SUFFICES ASSUME Pred(n) = {} PROVE FALSE
  OBVIOUS
<1>1. Closed(visited \ {n})
  BY DEF Closed, Pred, Succ, TypeOK
<1>2. visited \ {n} \in SUBSET Node /\ Root \in visited \ {n}
  BY DEF TypeOK
<1> QED BY <1>1, <1>2 DEF Reaches

LEMMA DomInvariant == Safe => []DomInv
<1> USE DEF DomInv
<1>1. Init => DomInv
  BY DEF Init
<1>2. TypeOK /\ ReachInv /\ DomInv /\ [Next]_vars => DomInv'
  <2> SUFFICES ASSUME TypeOK, ReachInv, DomInv, [Next]_vars PROVE DomInv'
    OBVIOUS
  <2>0. edge' = edge
    BY DEF Next, Visit, Update, StartSweeps, SweepAgain, Finish, vars
  <2>a. \A d, n : Dominates(d, n)' <=> Dominates(d, n)
    BY <2>0 DEF Succ, Dominates
  <2>1. ASSUME NEW n \in Node, Visit(n) PROVE DomInv'
    BY <2>1 DEF Visit
  <2>2. ASSUME NEW n \in Node, Update(n) PROVE DomInv'
    <3>1. n \in visited \ {Root}
      BY <2>2 DEF Update, TypeOK
    <3>2. Pred(n) # {}
      BY <2>2, <3>1, HasPred DEF Update, ReachInv
    <3>3. ASSUME NEW d \in visited, Dominates(d, n) PROVE d \in Meet(n)
      <4>1. CASE d = n
        BY <4>1, <3>1 DEF Meet
      <4>2. CASE d # n
        <5>1. \A p \in Pred(n) : Dominates(d, p)
          BY <3>1, <3>3, <4>2, DominatesPred
        <5>2. \A p \in Pred(n) : d \in dom[p]
          BY <2>2, <5>1 DEF Update, Pred
        <5> QED BY <3>2, <5>2 DEF Meet
      <4> QED BY <4>1, <4>2
    <3>4. dom' = [dom EXCEPT ![n] = Meet(n)] /\ visited' = visited /\ phase' = phase
      BY <2>2 DEF Update
    <3>5. dom \in [visited -> SUBSET visited]
      BY <2>2 DEF Update, TypeOK
    <3> QED BY <2>2, <2>a, <3>1, <3>3, <3>4, <3>5 DEF Update, ReachInv
  <2>3. CASE StartSweeps
    BY <2>3, <2>a DEF StartSweeps, ReachInv, TypeOK, Dominates
  <2>4. CASE SweepAgain
    BY <2>4, <2>a DEF SweepAgain
  <2>5. CASE Finish
    BY <2>5, <2>a DEF Finish
  <2>6. CASE UNCHANGED vars
    BY <2>6, <2>a DEF vars
  <2> QED BY <2>1, <2>2, <2>3, <2>4, <2>5, <2>6 DEF Next
<1> QED BY <1>1, <1>2, TypeInvariant, ReachInvariant, PTL DEF Safe

LEMMA SweepInvariant == Safe => []SweepInv
<1> USE DEF SweepInv
<1>1. Init => SweepInv
  BY DEF Init
<1>2. TypeOK /\ ReachInv /\ SweepInv /\ [Next]_vars => SweepInv'
  <2> SUFFICES ASSUME TypeOK, ReachInv, SweepInv, [Next]_vars PROVE SweepInv'
    OBVIOUS
  <2>1. ASSUME NEW n \in Node, Visit(n) PROVE SweepInv'
    BY <2>1 DEF Visit
  <2>2. ASSUME NEW n \in Node, Update(n) PROVE SweepInv'
    <3> SUFFICES ASSUME ~changed' PROVE SweepInv'
      BY <2>2 DEF Update
    <3>1. dom[n] = Meet(n) /\ ~changed
      BY <2>2 DEF Update
    <3>2. dom' = dom
      BY <2>2, <3>1 DEF Update, TypeOK
    <3>3. \A m : Meet(m)' = Meet(m)
      BY <2>2, <3>2 DEF Update, Meet, Pred
    <3> QED BY <2>2, <3>1, <3>2, <3>3 DEF Update
  <2>3. CASE StartSweeps
    BY <2>3 DEF StartSweeps
  <2>4. CASE SweepAgain
    BY <2>4 DEF SweepAgain
  <2>5. CASE Finish
    BY <2>5 DEF Finish, Meet, Pred
  <2>6. CASE UNCHANGED vars
    BY <2>6 DEF vars, Meet, Pred
  <2> QED BY <2>1, <2>2, <2>3, <2>4, <2>5, <2>6 DEF Next
<1> QED BY <1>1, <1>2, TypeInvariant, ReachInvariant, PTL DEF Safe
Settled == TypeOK /\ ReachInv /\ DomInv /\ SweepInv /\ phase = "done"

\* The blocks whose sets lack d: what the root reaches without passing d.
Region(d) == {m \in visited : d \notin dom[m]}

LEMMA RegionIsClosed ==
    ASSUME Settled, NEW d \in visited
    PROVE  /\ Region(d) \in SUBSET (Node \ {d})
           /\ Root # d => Root \in Region(d)
           /\ \A m \in Region(d) : Succ(m) \subseteq Region(d) \cup {d}
<1> USE DEF Region, Settled
<1>1. Region(d) \in SUBSET (Node \ {d})
  <2>1. d \in dom[d]
    BY DEF DomInv, SweepInv, Meet
  <2> QED BY <2>1 DEF TypeOK
<1>2. Root # d => Root \in Region(d)
  BY DEF DomInv, ReachInv
<1>3. \A m \in Region(d) : Succ(m) \subseteq Region(d) \cup {d}
  <2> SUFFICES ASSUME NEW m \in Region(d), NEW k \in Succ(m), k # d, d \in dom[k]
               PROVE  FALSE
    BY DEF ReachInv, Closed
  <2>1. k \in visited /\ m \in Pred(k)
    BY DEF ReachInv, Closed, Pred, Succ
  <2>2. CASE k = Root
    BY <2>2 DEF DomInv
  <2>3. CASE k # Root
    BY <2>1, <2>3 DEF SweepInv, Meet
  <2> QED BY <2>2, <2>3
<1> QED BY <1>1, <1>2, <1>3

LEMMA SetsAreDominators ==
    ASSUME Settled, NEW n \in visited
    PROVE  dom[n] = {d \in visited : Dominates(d, n)}
<1>1. dom[n] \subseteq visited
  BY DEF Settled, TypeOK
<1>2. \A d \in visited : Dominates(d, n) => d \in dom[n]
  BY DEF Settled, DomInv
<1>3. ASSUME NEW d \in dom[n] PROVE Dominates(d, n)
  <2>1. n \notin Region(d)
    BY DEF Region
  <2> QED BY <1>1, <2>1, RegionIsClosed DEF Dominates
<1> QED BY <1>1, <1>2, <1>3

LEMMA DomExactSafe == Safe => []DomExact
<1>1. TypeOK /\ ReachInv /\ DomInv /\ SweepInv => DomExact
  BY SetsAreDominators DEF Settled, DomExact
<1> QED BY <1>1, TypeInvariant, ReachInvariant, DomInvariant, SweepInvariant, PTL

\* When the sweeps end, the sets are the dominators, whatever the graph and
\* whatever the order of the sweeps.
THEOREM DomIsExact == Spec => []DomExact
BY DomExactSafe, PTL DEF Spec, Safe
-----------------------------------------------------------------------------
(* The dominators of a block are in line: what is read off the sets relies *)
(* on this.                                                                *)

\* D gives the dominators of the blocks in V: they are a chain that begins
\* with r and ends with the block, and each is the chain of a dominator
\* continued.
InLine(V, D, r) ==
    /\ V \subseteq Node /\ r \in V /\ D \in [V -> SUBSET V] /\ D[r] = {r}
    /\ \A n \in V : n \in D[n] /\ r \in D[n]
    /\ \A n \in V : \A d \in D[n] : D[d] \subseteq D[n]
    /\ \A n \in V : \A d \in D[n] : n \in D[d] => d = n
    /\ \A n \in V : \A c, d \in D[n] : c \in D[d] \/ d \in D[c]

LEMMA DominatorsInLine ==
    ASSUME Settled
    PROVE  InLine(visited, dom, Root)
<1>1. /\ visited \subseteq Node /\ Root \in visited /\ dom \in [visited -> SUBSET visited]
      /\ dom[Root] = {Root}
  BY DEF Settled, TypeOK, ReachInv, DomInv
<1>2. \A n \in visited : n \in dom[n] /\ Root \in dom[n]
  <2>1. ASSUME NEW n \in visited PROVE Dominates(n, n) /\ Dominates(Root, n)
    <3>1. /\ {} \in SUBSET (Node \ {Root}) /\ n \notin {}
          /\ \A m \in {} : Succ(m) \subseteq {} \cup {Root}
      OBVIOUS
    <3> QED BY <3>1 DEF Dominates
  <2> QED BY <1>1, <2>1, SetsAreDominators
<1>3. ASSUME NEW n \in visited, NEW S \in SUBSET Node, Root \in S, Closed(S)
      PROVE  n \in S
  BY <1>3 DEF Settled, ReachInv, Reaches
<1>4. ASSUME NEW n \in visited, NEW d \in dom[n], NEW e \in dom[d]
      PROVE  e \in dom[n]
  <2> SUFFICES ASSUME e # Root, d # Root, e # d, e # n, e \notin dom[n] PROVE FALSE
    BY <1>1, <1>2, <1>4
  <2> DEFINE S == Region(d) \cap Region(e)
  <2>1. d \in visited /\ e \in visited
    BY <1>1
  <2>2. S \in SUBSET (Node \ {e}) /\ Root \in S /\ n \notin S
    BY <2>1, RegionIsClosed DEF Region
  <2>3. d \notin Region(e)
    BY DEF Region
  <2>4. \A m \in S : Succ(m) \subseteq S \cup {e}
    BY <2>1, <2>3, RegionIsClosed
  <2>5. Dominates(e, n)
    BY <2>2, <2>4 DEF Dominates
  <2> QED BY <2>1, <2>5, SetsAreDominators
<1>5. ASSUME NEW n \in visited, NEW d \in dom[n], n \in dom[d]
      PROVE  d = n
  <2> SUFFICES ASSUME d # n PROVE FALSE
    OBVIOUS
  <2> DEFINE S == Region(d) \cap Region(n)
  <2>1. d \in visited /\ d # Root /\ n # Root
    BY <1>1, <1>5
  <2>2. d \notin Region(n) /\ n \notin Region(d)
    BY <1>5 DEF Region
  <2>3. S \in SUBSET Node /\ Root \in S
    BY <2>1, RegionIsClosed
  <2>4. Closed(S)
    BY <2>1, <2>2, RegionIsClosed DEF Closed
  <2> QED BY <1>3, <2>2, <2>3, <2>4
<1>6. ASSUME NEW n \in visited, NEW c \in dom[n], NEW d \in dom[n]
      PROVE  c \in dom[d] \/ d \in dom[c]
  <2> SUFFICES ASSUME c \notin dom[d], d \notin dom[c] PROVE FALSE
    OBVIOUS
  <2> DEFINE S == Region(c) \cup Region(d)
  <2>1. c \in visited /\ d \in visited /\ c # d
    BY <1>1, <1>2
  <2>2. c \in Region(d) /\ d \in Region(c) /\ n \notin S
    BY <2>1 DEF Region
  <2>3. S \in SUBSET Node /\ Root \in S
    BY <2>1, RegionIsClosed
  <2>4. Closed(S)
    BY <2>1, <2>2, RegionIsClosed DEF Closed
  <2> QED BY <1>3, <2>2, <2>3, <2>4
<1> QED BY <1>1, <1>2, <1>4, <1>5, <1>6 DEF InLine

\* The same along every behaviour, with the equations the sets satisfy, for
\* whoever reads the result.
SettledInv == phase = "done" => Settled /\ InLine(visited, dom, Root)

LEMMA SettledInvariant == Safe => []SettledInv
<1>1. TypeOK /\ ReachInv /\ DomInv /\ SweepInv => SettledInv
  BY DominatorsInLine DEF Settled, SettledInv
<1> QED BY <1>1, TypeInvariant, ReachInvariant, DomInvariant, SweepInvariant, PTL
-----------------------------------------------------------------------------
\* A set is never smaller than its equation allows, so an update can only
\* remove blocks from it.
ShrinkInv == phase = "sweep" => \A n \in visited \ {Root} : Meet(n) \subseteq dom[n]

LEMMA ShrinkInvariant == Safe => []ShrinkInv
<1> USE DEF ShrinkInv
<1>1. Init => ShrinkInv
  BY DEF Init
<1>2. TypeOK /\ ShrinkInv /\ [Next]_vars => ShrinkInv'
  <2> SUFFICES ASSUME TypeOK, ShrinkInv, [Next]_vars PROVE ShrinkInv'
    OBVIOUS
  <2>1. ASSUME NEW n \in Node, Visit(n) PROVE ShrinkInv'
    BY <2>1 DEF Visit
  <2>2. ASSUME NEW n \in Node, Update(n) PROVE ShrinkInv'
    <3>1. /\ n \in visited \ {Root} /\ dom \in [visited -> SUBSET visited]
          /\ visited' = visited /\ edge' = edge
          /\ dom' = [dom EXCEPT ![n] = Meet(n)]
      BY <2>2 DEF Update, TypeOK
    <3>2. Meet(n) \subseteq dom[n]
      BY <2>2, <3>1 DEF Update
    <3>3. \A m \in visited : dom'[m] \subseteq dom[m]
      BY <3>1, <3>2
    <3>4. \A m \in visited : Meet(m)' \subseteq Meet(m)
      BY <3>1, <3>3 DEF Meet, Pred
    <3> QED BY <2>2, <3>1, <3>4 DEF Update
  <2>3. CASE StartSweeps
    BY <2>3 DEF StartSweeps, Meet, Pred
  <2>4. CASE SweepAgain
    BY <2>4 DEF SweepAgain, Meet, Pred
  <2>5. CASE Finish
    BY <2>5 DEF Finish
  <2>6. CASE UNCHANGED vars
    BY <2>6 DEF vars, Meet, Pred
  <2> QED BY <2>1, <2>2, <2>3, <2>4, <2>5, <2>6 DEF Next
<1> QED BY <1>1, <1>2, TypeInvariant, PTL DEF Safe

\* No sweep ever adds a block to a set.
THEOREM DomOnlyShrinks == Spec => DomShrinks
<1>1. TypeOK /\ ShrinkInv /\ [Next]_vars
      => [phase = "sweep" => \A n \in visited : dom'[n] \subseteq dom[n]]_vars
  <2> SUFFICES ASSUME TypeOK, ShrinkInv, Next, phase = "sweep", NEW m \in visited
               PROVE  dom'[m] \subseteq dom[m]
    OBVIOUS
  <2>1. ASSUME NEW n \in Node, Update(n) PROVE dom'[m] \subseteq dom[m]
    <3>1. n \in visited \ {Root} /\ dom \in [visited -> SUBSET visited]
      BY <2>1 DEF Update, TypeOK
    <3> QED BY <2>1, <3>1 DEF Update, ShrinkInv
  <2> QED BY <2>1 DEF Next, Visit, StartSweeps, SweepAgain, Finish
<1> QED BY <1>1, TypeInvariant, ShrinkInvariant, PTL DEF Spec, Safe, DomShrinks
=============================================================================
