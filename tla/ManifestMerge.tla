---------------------------- MODULE ManifestMerge ----------------------------
(***************************************************************************)
(* How an extraction of several translation units puts their results       *)
(* together: module names (extractor.py _assign_multi_module_names),       *)
(* constants, callbacks and numbers of macros (first one wins, with a      *)
(* warning; a struct wins without one and is left out), and the rows of    *)
(* SVF's alias analysis (alias.py).                                        *)
(*                                                                         *)
(* A name is the sequence of the words that "__" joins in it.              *)
(***************************************************************************)
EXTENDS Integers, Sequences, FiniteSetsExt, SequencesExt, TLC

\* A function definition: its C name, whether it is static, and the word its
\* file name gives (two files may give the same word).
Func(name, static, stem) == [name |-> name, static |-> static, stem |-> stem]

Named(funcs, name)  == {i \in DOMAIN funcs : funcs[i].name = name}
LinkConflicts(funcs) ==
    {f.name : f \in {g \in Range(funcs) :
        Cardinality({i \in Named(funcs, g.name) : ~funcs[i].static}) > 1}}
Duplicate(funcs, i) == funcs[i].static /\ Cardinality(Named(funcs, funcs[i].name)) > 1
Reserved(funcs)     == {funcs[i].name : i \in {j \in DOMAIN funcs : ~Duplicate(funcs, j)}}

\* The names that are there from the start; a duplicate has none.
Unnamed == <<>>
OwnNames(funcs) == [i \in DOMAIN funcs |-> IF Duplicate(funcs, i) THEN Unnamed ELSE funcs[i].name]

\* The duplicates of one name are named one after the other, in the order of the
\* units; which name comes first is left open (the code sorts them).
Turns(funcs, names) ==
    LET waiting == {i \in DOMAIN funcs : names[i] = Unnamed}
        begun   == {i \in waiting : \E j \in Named(funcs, funcs[i].name) :
                                       Duplicate(funcs, j) /\ names[j] # Unnamed}
        next    == IF begun # {} THEN begun ELSE waiting
    IN  {i \in next : \A j \in next : funcs[j].name = funcs[i].name => i <= j}

\* MUTANT: what a duplicate is named is not remembered.
AssignedMutant(funcs, names) == Reserved(funcs)

Assigned(funcs, names) == Reserved(funcs) \cup Range(names)

\* The base name, or the first of base__2, base__3, ... that is free.
Candidate(base, assigned) ==
    IF base \notin assigned THEN base
    ELSE LET suffix(k) == base \o <<ToString(k)>>
         IN  suffix(Min({k \in 2..(Cardinality(assigned) + 2) : suffix(k) \notin assigned}))

\* The name that duplicate i gets when it is its turn.
OwnName(funcs, names, i) == Candidate(<<funcs[i].stem>> \o funcs[i].name, Assigned(funcs, names))
-----------------------------------------------------------------------------
\* The first unit that has a value for a key wins; the others are warned about.
Keys(parts)   == UNION {DOMAIN p : p \in Range(parts)}
Merged(parts) == [k \in Keys(parts) |-> parts[Min({i \in DOMAIN parts : k \in DOMAIN parts[i]})][k]]

\* MUTANT: a conflict is only noticed with the unit before.
WarnedMutant(parts) ==
    {k \in Keys(parts) :
        \E i \in 2..Len(parts) : /\ k \in DOMAIN parts[i] /\ k \in DOMAIN parts[i-1]
                                 /\ parts[i][k] # parts[i-1][k]}

Warned(parts) == {k \in Keys(parts) : \E p \in Range(parts) : k \in DOMAIN p /\ p[k] # Merged(parts)[k]}
-----------------------------------------------------------------------------
\* A row of SVF's symbol table names a file (or none) and a line; lvalue says
\* which pointer a source assigns on a line. A row that its own file cannot
\* explain is looked up in every source.
None == "none"
AssignedOn(lvalue, line) == {s \in DOMAIN lvalue : lvalue[s][line] # None}
\* MUTANT: the first source with an assignment on that line is taken.
AliasOfMutant(row, lvalue) ==
    LET here == AssignedOn(lvalue, row.line)
    IN  IF row.file \in here THEN {<<row.file, lvalue[row.file][row.line]>>}
        ELSE IF here # {} THEN LET s == CHOOSE x \in here : TRUE IN {<<s, lvalue[s][row.line]>>}
        ELSE {}

AliasOf(row, lvalue) ==
    LET here == AssignedOn(lvalue, row.line)
    IN  IF row.file \in here THEN {<<row.file, lvalue[row.file][row.line]>>}
        ELSE IF Cardinality(here) = 1 THEN {<<s, lvalue[s][row.line]>> : s \in here}
        ELSE {}
Aliases(rows, lvalue) == UNION {AliasOf(row, lvalue) : row \in rows}
=============================================================================
