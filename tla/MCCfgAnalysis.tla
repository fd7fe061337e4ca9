--------------------------- MODULE MCCfgAnalysis ---------------------------
(***************************************************************************)
(* All CFGs with three blocks between entry and exit.  The entry has one   *)
(* successor, the exit none, and a statement at most two (a branch).       *)
(***************************************************************************)
EXTENDS CfgAnalysis

CONSTANTS entry, exit, b2, b3, b4

Inner   == {b2, b3, b4}
Blocks  == Inner \cup {entry, exit}
Targets == {T \in SUBSET (Inner \cup {exit}) : Cardinality(T) <= 2}

\* The first statement is b2: the others are this one with the names exchanged.
Cfgs == { {<<n, m>> \in Inner \X Blocks : m \in next[n]} \cup {<<entry, b2>>} :
          next \in [Inner -> Targets] }
=============================================================================
