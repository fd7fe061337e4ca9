---------------------------- MODULE MCTraceMatch ----------------------------
(***************************************************************************)
(* Logs of up to five lines with two functions and two accesses; modules   *)
(* with one or two branches; up to two expected calls, or none.            *)
(***************************************************************************)
EXTENDS TraceMatch

R == <<"R", 0>>
W == <<"W", 4>>
McAccess == {R, W}
McName   == {"set", "ack", "-"}

Mark(f)   == [fn |-> TRUE, name |-> f, op |-> R]
Made(a)   == [fn |-> FALSE, name |-> "-", op |-> a]
Traces(n) == UNION {[1..k -> McAccess] : k \in 0..n}
Lines(t)  == [i \in DOMAIN t |-> Made(t[i])]

Logs == {Lines(a) \o <<Mark(f)>> \o Lines(b) : a \in Traces(1), f \in {"set"}, b \in Traces(3)}
        \cup {<<Mark(f)>> \o Lines(a) \o <<Mark(g)>> \o Lines(b) :
                 f \in {"set", "ack"}, g \in {"set", "ack"}, a \in Traces(2), b \in Traces(2)}
        \cup {Lines(a) : a \in Traces(2)}

ModulesOf(sets, acks) ==
    {[n \in McName |-> IF n = "set" THEN s ELSE IF n = "ack" THEN a ELSE {}] : s \in sets, a \in acks}
Modules == ModulesOf({{<<W>>}, {<<>>, <<R, W>>}, {<<R>>, <<W, W>>}, {<<W, R, W>>}}, {{<<R>>}, {<<>>}})
Texts   == ModulesOf({{<<W>>}, {<<R, W>>}, {<<W, R, W>>}}, {{<<R>>}, {}})

Calls == {<<<<"set", "set">>>>, <<<<"set", "set">>, <<"ack", "ack">>>>,
          <<<<"set", "set">>, <<"set", "set">>>>, <<<<"ack", "set">>>>, <<>>}

McRequests ==
    [mode : {"calls"}, log : Logs, variants : Modules, untraceable : {{}}, calls : Calls, exercised : {{}}]
    \cup [mode : {"calls"}, log : {<<Mark("set"), Made(W)>>}, variants : Modules,
          untraceable : {{"set"}}, calls : Calls, exercised : {{}}]
    \cup [mode : {"modules"}, log : Logs, variants : Texts, untraceable : {{}}, calls : {<<>>},
          exercised : {{}, {"set"}}]
    \cup [mode : {"modules"}, log : {<<>>, <<Mark("ack"), Made(R)>>}, variants : Texts,
          untraceable : {{}}, calls : {<<>>}, exercised : {{"ack"}}]
=============================================================================
