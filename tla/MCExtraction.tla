----------------------------- MODULE MCExtraction -----------------------------
(***************************************************************************)
(* Two sources, alone or in a manifest; contexts from a database for one   *)
(* of them or from .cmd files; static and external functions of few names. *)
(***************************************************************************)
EXTENDS Extraction

McContents == [f \in File |->
    CASE f[1] = "source" -> {"old", "new"}
      [] f[1] = "manifest" -> {"one", "both"}
      [] f[1] = "database" -> {"absent", "flags"}
      [] f[1] = "tools" -> {"absent", "present"}
      [] f[1] = "kbuild" -> {"absent", "there"}
      [] f[1] = "tree" -> {"flags of the tree", "other flags of the tree"}
      [] f[1] = "cmd" -> {"absent", "unparsable", "other flags"}]

\* At first: the text of the sources, and whether there is a build root.
At(text, kbuild, database, tools) == [f \in File |->
    CASE f[1] = "source" -> text
      [] f = Manifest    -> "both"
      [] f = Kbuild      -> kbuild
      [] f[1] = "tree"   -> "flags of the tree"
      [] f[1] = "cmd"    -> IF kbuild = "there" /\ f[2] = "b" THEN "unparsable" ELSE "absent"
      [] f = Database    -> database
      [] f = Tools       -> tools]
McInitially == {At("old", kbuild, database, tools) :
    kbuild \in {"absent", "there"}, database \in {"absent", "flags"}, tools \in {"absent", "present"}}
McEdited == {At("new", "there", "absent", "present")}
McListed  == [one |-> <<"a">>, both |-> <<"a", "b">>]
McCovered == [flags |-> {"a"}]

\* Functions of a.c and b.c, and of a second b.c in another directory.
Funcs == [name : {<<"init">>, <<"b", "init">>, <<"b", "init", "2">>}, static : BOOLEAN, stem : {"b"}]
         \cup {Func(<<"init">>, TRUE, "a")}
Three == {<<f, g, h>> : f \in Funcs, g \in {Func(<<"init">>, TRUE, "b"), Func(<<"init">>, FALSE, "b")}, h \in Funcs}
Parts == {[k |-> 1], [k |-> 2], [l |-> 1]}
Rows  == {[file |-> f, true |-> t, line |-> l] : f \in {"a", "b", None}, t \in {"a", "b"}, l \in 1..2}

Plain == [funcs |-> <<Func(<<"init">>, FALSE, "a")>>, constants |-> <<>>,
          rows |-> {}, lvalue |-> [s \in Source |-> [line \in 1..2 |-> None]]]
\* Only when both sources were edited, all that units may define is tried.
McPrograms(texts) == IF texts # <<"new", "new">> THEN {Plain} ELSE
    {[Plain EXCEPT !.funcs = funcs] : funcs \in Three}
    \cup {[Plain EXCEPT !.constants = <<p, q, r>>] : p \in Parts, q \in Parts, r \in Parts}
    \cup {[Plain EXCEPT !.rows = {row}, !.lvalue = [s \in Source |-> [line \in 1..2 |->
                 IF line = 1 \/ s = "b" THEN "base" ELSE None]]] :
             row \in {r \in Rows : r.file \in {None, r.true}}}
=============================================================================
