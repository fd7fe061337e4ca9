--------------------------- MODULE MCFunctionRis ---------------------------
(***************************************************************************)
(* Function bodies of one or two statements and a tail: branches and       *)
(* cascades over parameters p, q and a variable s read from a register,    *)
(* counting loops, switches over a parameter x, at most one label.         *)
(***************************************************************************)
EXTENDS FunctionRis

Stmt(kind, c, sub) == [k |-> kind, c |-> c, sub |-> sub]
NoC           == [none |-> 0]
Plain(kind)   == Stmt(kind, NoC, <<>>)
Seq_(subs)    == Stmt("block", NoC, subs)
Label(s)      == Stmt("label", NoC, <<s>>)
If(g, then)   == Stmt("if", g, <<then>>)
IfElse(g, then, else) == Stmt("if", g, <<then, else>>)
Op(register)  == Stmt("op", [acc |-> register], <<>>)
Ret           == Plain("return")
Goto          == Plain("goto")

p_ == Var("p")
q_ == Var("q")
s_ == Var("s")
Values == [p : BOOLEAN, q : BOOLEAN, s : BOOLEAN, x : 1..3]

-----------------------------------------------------------------------------
Guards  == {p_, Not(p_), And(p_, q_)}
Arms(r) == {Op(r), Ret, Goto, Seq_(<<Op(r), Ret>>), Seq_(<<Op(r), Goto>>)}
Stay(r) == {Op(r), Goto, Seq_(<<Op(r), Goto>>)}

Branches ==
    {If(g, a) : g \in Guards, a \in Arms(11)}
    \cup {IfElse(g, a, b) : g \in Guards, a \in Arms(11), b \in Arms(12)}
    \cup {If(s_, a) : a \in Stay(11)}
    \cup {IfElse(p_, a, If(q_, b)) : a \in Arms(11), b \in Arms(12)}
    \cup {IfElse(p_, a, IfElse(q_, b, c)) : a \in Arms(11), b \in Arms(12), c \in {Op(13), Ret}}
    \cup {If(p_, Seq_(<<If(q_, a), b>>)) : a \in Arms(11), b \in {Op(12), Ret}}

For(start, bound, stride, upTo, b) ==
    Stmt("for", [start |-> start, bound |-> bound, stride |-> stride, upTo |-> upTo, moved |-> 0], <<b>>)
LoopBodies ==
    {Op(16), If(p_, Op(16)), IfElse(p_, Op(16), Op(17)),
     Seq_(<<If(s_, Plain("continue")), Op(16)>>),
     Seq_(<<If(p_, Plain("break")), Op(16)>>),
     Seq_(<<Op(16), If(p_, Ret)>>)}
Loops == {For(a, b, c, u, t) : a \in 0..1, b \in 0..3, c \in 1..2, u \in BOOLEAN, t \in LoopBodies}

Case(values, seg) == <<Stmt("case", [vals |-> values], <<Head(seg)>>)>> \o Tail(seg)
Seg(r)            == {<<Op(r), Plain("break")>>, <<Op(r), Ret>>, <<Ret>>, <<Plain("break")>>}
Switch(parts)     == Stmt("switch", NoC, <<Seq_(parts)>>)
Switches ==
    {Switch(Case(<<1>>, a) \o Case(<<2>>, b)) : a \in Seg(11), b \in Seg(12)}
    \cup {Switch(Case(<<1>>, a) \o Case(<<2>>, b) \o Case(<<>>, c)) :
              a \in Seg(11), b \in Seg(12), c \in Seg(13)}

Seconds == {If(q_, a) : a \in Arms(18)} \cup {For(0, 2, 1, FALSE, Op(16))}
Tails   == {<<Op(14)>>, <<Op(14), Label(Op(15))>>, <<Label(Op(15))>>}

-----------------------------------------------------------------------------
\* Bodies of while loops, for the CFG: two statements with transfers in them.
InLoop == {Plain(k) : k \in {"break", "continue"}} \cup {Op(11), Ret, Goto}
Parts  == InLoop \cup {Label(t) : t \in InLoop} \cup {If(p_, t) : t \in InLoop}
                 \cup {IfElse(p_, Op(12), t) : t \in InLoop}
Whiles == {Stmt("while", NoC, <<b>>) : b \in {Seq_(<<>>)} \cup {Seq_(<<a>>) : a \in Parts}
                                            \cup {Seq_(<<a, b>>) : a \in Parts, b \in Parts}}
LastParts == {Op(14), Ret, Label(Op(15))}

-----------------------------------------------------------------------------
Has(s, kind)   == \E p \in PathsOf(s, <<>>) : At(s, p).k = kind
Count(s, kind) == Cardinality({p \in PathsOf(s, <<>>) : At(s, p).k = kind})

\* A C function: labels are distinct, and a goto has a label to go to.
IsC(s) == Count(s, "label") <= 1 /\ (Has(s, "goto") => Has(s, "label"))

Functions(firsts) ==
    {f \in {Seq_(<<a>> \o t) : a \in firsts, t \in Tails}
           \cup {Seq_(<<a, b>> \o t) : a \in firsts, b \in Seconds, t \in Tails} : IsC(f)}

\* Functions that leave early in one way: by returns or by gotos, not by both.
OneWayOut ==
    {f \in Functions(Branches \cup Loops \cup Switches) : ~(Has(f, "goto") /\ Has(f, "return"))}
    \cup {f \in {Seq_(<<w, t>>) : w \in Whiles, t \in LastParts} : IsC(f)}

-----------------------------------------------------------------------------
\* What OneWayOut leaves out: a condition of several parts that begins with a
\* negation, both ways out in one function, a body that moves the loop's variable.
NegatedFirst == {Seq_(<<If(And(Not(p_), q_), a), Op(14)>>) : a \in {Ret, Seq_(<<Op(11), Ret>>)}}
TwoWaysOut ==
    {f \in Functions({If(p_, a) : a \in Arms(11)}) : Has(f, "goto") /\ Has(f, "return")}
MovedTwice ==
    {Seq_(<<Stmt("for", [start |-> 0, bound |-> b, stride |-> 1, upTo |-> FALSE, moved |-> 1], <<Op(16)>>)>>) :
        b \in 1..3}
=============================================================================
