-------------------------- MODULE MCCallSummaries --------------------------
(***************************************************************************)
(* Three functions with at most two sites each and every call relation,    *)
(* recursion included.  A function with one site may be a simple wrapper.  *)
(***************************************************************************)
EXTENDS CallSummaries

CONSTANTS fa, fb, fc

Funcs == {fa, fb, fc}
Sites == Funcs \X {1, 2}

Own == {[f \in Funcs |-> {f} \X (1 .. n[f])] : n \in [Funcs -> 0 .. 2]}
Calls == {c \in [Funcs -> SUBSET Funcs] : \A f \in Funcs : f \notin c[f]}

AllSources ==
    { [own |-> own, calls |-> calls, callbacks |-> callbacks, valued |-> valued,
       simple |-> IF wrap THEN {f \in Funcs : Cardinality(own[f]) = 1} ELSE {}] :
      own \in Own, calls \in Calls, callbacks \in SUBSET {fa, fb},
      valued \in {{}, Funcs}, wrap \in BOOLEAN }
=============================================================================
