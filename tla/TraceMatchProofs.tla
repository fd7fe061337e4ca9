-------------------------- MODULE TraceMatchProofs --------------------------
(***************************************************************************)
(* What TRACE_MATCH_OK means, for every log, every set of modules and      *)
(* every list of expected calls.                                           *)
(***************************************************************************)
EXTENDS TraceMatch, FiniteSetTheorems, TLAPS

LEMMA RequestTypes ==
    ASSUME NEW r \in Requests
    PROVE  /\ r.mode \in {"calls", "modules"}
           /\ r.log \in Seq(LogEntry)
           /\ r.variants \in [Name -> SUBSET Seq(Access)]
           /\ r.calls \in Seq(Name \X Name)
           /\ Checkable(r) \subseteq Loaded(r) /\ Loaded(r) \subseteq Name
BY RequestAssumption DEF Checkable, Loaded

LEMMA JobsOfModules ==
    ASSUME NEW r \in Requests,
           NEW s \in [1..Cardinality(Checkable(r)) -> Checkable(r) \X Checkable(r)]
    PROVE  s \in Seq(Name \X Name)
<1>1. Cardinality(Checkable(r)) \in Nat
  BY RequestTypes, NameAssumption, FS_Subset, FS_CardinalityType
<1>2. s \in [1..Cardinality(Checkable(r)) -> Name \X Name]
  BY RequestTypes
<1> QED BY <1>1, <1>2

LEMMA TypeCorrectInit == Init => TypeOK
<1> SUFFICES ASSUME Init PROVE TypeOK
  OBVIOUS
<1>1. LogTypes
  BY DEF Init, LogTypes
<1>2. JobTypes
  BY DEF Init, JobTypes
<1>3. MatchTypes
  BY DEF Init, MatchTypes
<1> QED BY <1>1, <1>2, <1>3 DEF Init, TypeOK

LEMMA TypeCorrectStep == TypeOK /\ [Next]_vars => TypeOK'
<1> SUFFICES ASSUME TypeOK, [Next]_vars PROVE TypeOK'
  OBVIOUS
<1>0. LogTypes /\ JobTypes /\ MatchTypes
  BY DEF TypeOK
<1>1. CASE ReadLine
  <2> DEFINE e == request.log[line]
  <2>0. JobTypes' /\ MatchTypes'
    BY <1>0, <1>1 DEF ReadLine, JobTypes, MatchTypes, matchVars
  <2>1. e \in LogEntry
    BY <1>0, <1>1, RequestTypes DEF ReadLine, LogTypes
  <2>2. segments' \in Seq(Segment) /\ traced' \in Seq(Access)
    <3>1. CASE e.fn
      <4>1. [function |-> e.name, ops |-> <<>>] \in Segment
        BY <2>1 DEF Segment, LogEntry
      <4>2. segments' = Append(segments, [function |-> e.name, ops |-> <<>>]) /\ traced' = traced
        BY <1>1, <3>1 DEF ReadLine
      <4>3. segments \in Seq(Segment) /\ traced \in Seq(Access)
        BY <1>0 DEF LogTypes
      <4> QED BY <4>1, <4>2, <4>3
    <3>2. CASE ~e.fn
      <4>1. /\ traced' = Append(traced, e.op)
            /\ segments' = [i \in DOMAIN segments |->
                                IF i = Len(segments)
                                THEN [segments[i] EXCEPT !.ops = Append(@, e.op)]
                                ELSE segments[i]]
        BY <1>1, <3>2 DEF ReadLine
      <4>2. segments \in Seq(Segment) /\ traced \in Seq(Access)
        BY <1>0 DEF LogTypes
      <4>3. \A i \in DOMAIN segments : segments'[i] \in Segment
        <5> TAKE i \in DOMAIN segments
        <5>1. segments[i] \in Segment
          BY <4>2
        <5>2. Append(segments[i].ops, e.op) \in Seq(Access)
          BY <2>1, <5>1 DEF Segment, LogEntry
        <5>3. [segments[i] EXCEPT !.ops = Append(@, e.op)] \in Segment
          BY <5>1, <5>2 DEF Segment
        <5>4. segments'[i] \in {segments[i], [segments[i] EXCEPT !.ops = Append(@, e.op)]}
          BY <4>1, <4>2
        <5> QED BY <5>1, <5>3, <5>4
      <4>4. traced' \in Seq(Access)
        BY <2>1, <4>1, <4>2 DEF LogEntry
      <4>5. /\ Len(segments) \in Nat
            /\ segments' \in [1..Len(segments) -> Segment]
        <5>1. segments' = [i \in DOMAIN segments |-> segments'[i]]
          BY <4>1
        <5>2. Len(segments) \in Nat /\ DOMAIN segments = 1..Len(segments)
          BY <4>2
        <5> QED BY <4>3, <5>1, <5>2
      <4>6. segments' \in Seq(Segment)
        BY <4>5
      <4> QED BY <4>4, <4>6
    <3> QED BY <2>1, <3>1, <3>2
  <2>3. LogTypes'
    BY <1>0, <1>1, <2>2 DEF ReadLine, LogTypes
  <2> QED BY <1>1, <2>0, <2>3 DEF ReadLine, TypeOK
<1>2. CASE Refuse \/ NothingTraced \/ Vacuous \/ Report
  <2>1. LogTypes' /\ JobTypes' /\ MatchTypes'
    BY <1>0, <1>2 DEF Refuse, NothingTraced, Vacuous, Report, Verdict,
                      LogTypes, JobTypes, MatchTypes, logVars, matchVars
  <2> QED BY <1>2, <2>1 DEF Refuse, NothingTraced, Vacuous, Report, Verdict, TypeOK
<1>3. CASE StartCalls \/ StartModules
  <2>1. LogTypes' /\ MatchTypes'
    BY <1>0, <1>3 DEF StartCalls, StartModules, LogTypes, MatchTypes, logVars, matchVars
  <2>2. jobs' \in Seq(Name \X Name)
    <3>1. request \in Requests
      BY <1>0 DEF LogTypes
    <3>2. CASE StartCalls
      BY <3>1, <3>2, RequestTypes DEF StartCalls
    <3>3. CASE StartModules
      <4>1. jobs' \in [1..Cardinality(Checkable(request)) -> Checkable(request) \X Checkable(request)]
        BY <3>3 DEF StartModules
      <4> QED BY <3>1, <4>1, JobsOfModules
    <3> QED BY <1>3, <3>2, <3>3
  <2>3. JobTypes'
    BY <1>0, <1>3, <2>2 DEF StartCalls, StartModules, JobTypes
  <2> QED BY <1>3, <2>1, <2>3 DEF StartCalls, StartModules, TypeOK
<1>4. CASE FindCall \/ FindModule
  <2>1. LogTypes'
    BY <1>0, <1>4 DEF FindCall, FindModule, LogTypes, logVars
  <2>2. NonEmpty(request, Head(jobs)[1]) \subseteq Seq(Access)
    <3>1. Head(jobs)[1] \in Name
      BY <1>0, <1>4 DEF FindCall, FindModule, JobTypes
    <3>2. request.variants \in [Name -> SUBSET Seq(Access)]
      BY <1>0, RequestTypes DEF LogTypes
    <3> QED BY <3>1, <3>2 DEF NonEmpty
  <2>3. \A i \in DOMAIN segments : segments[i].ops \in Seq(Access)
    <3>1. \A i \in DOMAIN segments : segments[i] \in Segment
      BY <1>0 DEF LogTypes
    <3> QED BY <3>1 DEF Segment
  <2>4. actual' \in Seq(Access)
    BY <1>0, <1>4, <2>3 DEF FindCall, FindModule, LogTypes, MatchTypes
  <2>5. cursor' \in Nat \ {0}
    <3>1. Len(segments) \in Nat /\ DOMAIN segments \subseteq Nat \ {0}
      BY <1>0 DEF LogTypes
    <3> QED BY <1>0, <1>4, <3>1 DEF FindCall, FindModule, JobTypes
  <2>6. candidates' \subseteq Seq(Access)
    BY <1>0, <1>4, <2>2 DEF FindCall, FindModule, JobTypes
  <2>7. JobTypes' /\ MatchTypes'
    BY <1>0, <1>4, <2>4, <2>5, <2>6 DEF FindCall, FindModule, JobTypes, MatchTypes
  <2>8. phase' \in {"variant", "judge"}
    BY <1>4 DEF FindCall, FindModule
  <2> QED BY <1>4, <2>1, <2>7, <2>8 DEF FindCall, FindModule, TypeOK
<1>5. CASE NextVariant
  <2>1. LogTypes' /\ JobTypes' /\ MatchTypes'
    BY <1>0, <1>5 DEF NextVariant, LogTypes, JobTypes, MatchTypes, logVars
  <2> QED BY <1>5, <2>1 DEF NextVariant, TypeOK
<1>6. CASE MatchItem \/ SkipItem \/ MissItem
  <2>1. LogTypes' /\ JobTypes'
    BY <1>0, <1>6 DEF MatchItem, SkipItem, MissItem, LogTypes, JobTypes, logVars
  <2>2. missing' \in Seq(Access)
    <3>1. CASE MissItem
      <4>1. expected[pos] \in Access
        BY <1>0, <3>1 DEF MissItem, MatchTypes
      <4> QED BY <1>0, <3>1, <4>1 DEF MissItem, MatchTypes
    <3> QED BY <1>0, <1>6, <3>1 DEF MatchItem, SkipItem, MatchTypes
  <2>3. MatchTypes'
    BY <1>0, <1>6, <2>2 DEF MatchItem, SkipItem, MissItem, MatchTypes
  <2> QED BY <1>6, <2>1, <2>3 DEF MatchItem, SkipItem, MissItem, TypeOK
<1>7. CASE EndVariant \/ EndVariants
  <2>1. LogTypes' /\ JobTypes' /\ MatchTypes'
    BY <1>0, <1>7 DEF EndVariant, EndVariants, LogTypes, JobTypes, MatchTypes, logVars, matchVars
  <2>2. best' \in BOOLEAN
    BY <1>7 DEF EndVariant, EndVariants, TypeOK
  <2> QED BY <1>7, <2>1, <2>2 DEF EndVariant, EndVariants, TypeOK
<1>8. CASE Judge
  <2>1. LogTypes' /\ MatchTypes'
    BY <1>0, <1>8 DEF Judge, LogTypes, MatchTypes, logVars, matchVars
  <2>2. JobTypes'
    BY <1>0, <1>8 DEF Judge, JobTypes
  <2> QED BY <1>8, <2>1, <2>2 DEF Judge, TypeOK
<1>9. CASE UNCHANGED vars
  BY <1>9 DEF vars, logVars, matchVars, TypeOK, LogTypes, JobTypes, MatchTypes
<1> QED BY <1>1, <1>2, <1>3, <1>4, <1>5, <1>6, <1>7, <1>8, <1>9 DEF Next

\* The state stays within its types: TypeOK of the run, for all constants.
THEOREM TypeCorrect == Spec => []TypeOK
BY TypeCorrectInit, TypeCorrectStep, PTL DEF Spec

-----------------------------------------------------------------------------
(***************************************************************************)
(* The matcher of one variant                                              *)
(***************************************************************************)
\* So far as nothing was found missing, the accesses before pos are in the trace
\* before the cursor, and no way to find all of them uses less of the trace.
Found    == \E f \in [1 .. pos - 1 -> 1 .. at - 1] : Follows(f, expected, actual)
Earliest == \A f \in [DOMAIN expected -> DOMAIN actual] :
                Follows(f, expected, actual) /\ pos <= Len(expected) => at <= f[pos]

MatchInv == phase = "match" =>
                /\ pos <= Len(expected) + 1 /\ at <= Len(actual) + 1
                /\ IF missing = <<>> THEN Found /\ Earliest ELSE ~Embeds(expected, actual)
-----------------------------------------------------------------------------
(***************************************************************************)
(* The jobs                                                                *)
(***************************************************************************)
Matching  == {"variant", "match", "judge"}
Target    == IF request.mode = "calls" THEN segments[cursor - 1].ops ELSE traced
Processed == Len(request.calls) - Len(jobs)

\* The variants in hand are those of the first job, the trace is the one it is
\* to be found in, and best tells whether it was.
JobInv ==
    /\ phase \in Matching => jobs # <<>>
    /\ phase \in {"variant", "match"} =>
           actual = Target /\ candidates \subseteq NonEmpty(request, Head(jobs)[1])
    /\ phase = "match" => expected \in NonEmpty(request, Head(jobs)[1])
    /\ phase \in Matching /\ best => Passes(Head(jobs)[1], Target)

\* The first n calls have been given to segments before b.
Given(n, b) == \E g \in [1..n -> DOMAIN segments] : Served(g) /\ \A i \in 1..n : g[i] < b

CallInv ==
    request.mode = "calls" /\ phase \in Matching \cup {"find"} =>
        /\ Len(jobs) <= Len(request.calls)
        /\ \A i \in 1..Len(jobs) : jobs[i] = request.calls[Processed + i]
        /\ phase \in {"variant", "match"} \/ (phase = "judge" /\ best) =>
               cursor - 1 \in DOMAIN segments /\ segments[cursor - 1].function = Head(jobs)[2]
        /\ failures = 0 /\ (phase = "judge" => best) =>
               Given(Processed, IF phase = "find" THEN cursor ELSE cursor - 1)

\* A module is still to be looked for, or it was found.
ModuleInv ==
    request.mode = "modules" /\ phase \in Matching \cup {"find"} /\ failures = 0 =>
        \A m \in Checkable(request) : (\E i \in DOMAIN jobs : jobs[i] = <<m, m>>) \/ Passes(m, traced)

VerdictInv == (verdict = "none" <=> phase # "done") /\ OkMeansRealised
-----------------------------------------------------------------------------
LEMMA MatchStep == TypeOK /\ MatchInv /\ [Next]_vars => MatchInv'
<1> SUFFICES ASSUME TypeOK, MatchInv, [Next]_vars, phase' = "match"
             PROVE  /\ pos' <= Len(expected') + 1 /\ at' <= Len(actual') + 1
                    /\ IF missing' = <<>> THEN Found' /\ Earliest' ELSE ~Embeds(expected', actual')
  BY DEF MatchInv, Found, Earliest, Follows, InOrder, Embeds
<1>0. MatchTypes
  BY DEF TypeOK
<1>types. /\ Len(expected) \in Nat /\ DOMAIN expected = 1..Len(expected)
          /\ Len(actual) \in Nat /\ DOMAIN actual = 1..Len(actual)
          /\ pos \in Nat \ {0} /\ at \in Nat \ {0}
  BY <1>0 DEF MatchTypes
<1>1. CASE NextVariant
  <2>1. /\ pos' = 1 /\ at' = 1 /\ missing' = <<>> /\ actual' = actual
        /\ expected' \in Seq(Access)
    BY <1>1, TypeCorrectStep DEF NextVariant, TypeOK, MatchTypes
  <2>2. Found'
    <3>1. PICK f \in [1..0 -> 1..0] : TRUE
      <4>1. [i \in 1..0 |-> i] \in [1..0 -> 1..0]
        OBVIOUS
      <4> QED BY <4>1
    <3>2. DOMAIN f = {}
      OBVIOUS
    <3>3. Follows(f, expected', actual')
      <4>1. InOrder(f)
        BY <3>2 DEF InOrder
      <4>2. \A i \in DOMAIN f : actual'[f[i]] = expected'[i]
        BY <3>2
      <4> QED BY <4>1, <4>2 DEF Follows
    <3>4. pos' - 1 = 0 /\ at' - 1 = 0
      BY <2>1
    <3>5. f \in [1 .. pos' - 1 -> 1 .. at' - 1]
      BY <3>4
    <3> QED BY <3>3, <3>5 DEF Found
  <2>3. Earliest'
    <3> SUFFICES ASSUME NEW f \in [DOMAIN expected' -> DOMAIN actual'], pos' <= Len(expected')
                 PROVE  at' <= f[pos']
      BY DEF Earliest
    <3> QED BY <1>types, <2>1
  <2> QED BY <1>types, <2>1, <2>2, <2>3
<1>2. CASE MatchItem
  <2>1. /\ phase = "match" /\ pos <= Len(expected) /\ at <= Len(actual) /\ actual[at] = expected[pos]
        /\ pos' = pos + 1 /\ at' = at + 1
        /\ expected' = expected /\ actual' = actual /\ missing' = missing
    BY <1>2 DEF MatchItem
  <2>2. ASSUME missing = <<>> PROVE Found' /\ Earliest'
    <3>1. PICK f \in [1 .. pos - 1 -> 1 .. at - 1] : Follows(f, expected, actual)
      BY <2>1, <2>2 DEF MatchInv, Found
    <3>2. Found'
      <4> DEFINE g == [i \in 1..pos |-> IF i = pos THEN at ELSE f[i]]
      <4>1. g \in [1 .. pos' - 1 -> 1 .. at' - 1]
        BY <1>types, <2>1
      <4>2. Follows(g, expected', actual')
        <5>1. \A i \in 1..pos - 1 : f[i] \in 1..at - 1 /\ actual[f[i]] = expected[i] /\ g[i] = f[i]
          BY <1>types, <3>1 DEF Follows
        <5>2. g[pos] = at /\ DOMAIN g = 1..pos
          BY <1>types
        <5>3. \A i, j \in 1..pos - 1 : i < j => f[i] < f[j]
          BY <3>1 DEF Follows, InOrder
        <5> HIDE DEF g
        <5>4. InOrder(g)
          <6> SUFFICES ASSUME NEW i \in 1..pos, NEW j \in 1..pos, i < j PROVE g[i] < g[j]
            BY <5>2 DEF InOrder
          <6>1. i \in 1..pos - 1 /\ (j = pos \/ j \in 1..pos - 1)
            BY <1>types
          <6>2. g[i] = f[i] /\ f[i] < at
            BY <1>types, <5>1, <6>1
          <6>3. CASE j = pos
            BY ONLY <5>2, <6>2, <6>3
          <6>4. CASE j \in 1..pos - 1
            <7>1. g[j] = f[j]
              BY ONLY <5>1, <6>4
            <7>2. f[i] < f[j]
              BY ONLY <5>3, <6>1, <6>4, i < j
            <7> QED BY ONLY <6>2, <7>1, <7>2
          <6> QED BY ONLY <6>1, <6>3, <6>4
        <5>5. \A i \in DOMAIN g : actual[g[i]] = expected[i]
          BY <1>types, <2>1, <5>1, <5>2
        <5> QED BY <2>1, <5>4, <5>5 DEF Follows
      <4> QED BY <4>1, <4>2 DEF Found
    <3>3. Earliest'
      <4> SUFFICES ASSUME NEW h \in [DOMAIN expected' -> DOMAIN actual'],
                          Follows(h, expected', actual'), pos' <= Len(expected')
                   PROVE  at' <= h[pos']
        BY DEF Earliest
      <4>1. at <= h[pos]
        BY <2>1, <2>2 DEF MatchInv, Earliest
      <4>2. h[pos] < h[pos + 1]
        <5>1. DOMAIN h = 1..Len(expected)
          BY <1>types, <2>1
        <5>2. pos \in 1..Len(expected) /\ pos + 1 \in 1..Len(expected) /\ pos < pos + 1
          BY <1>types, <2>1
        <5>3. InOrder(h)
          BY DEF Follows
        <5> QED BY ONLY <5>1, <5>2, <5>3 DEF InOrder
      <4>3. h[pos] \in Nat /\ h[pos + 1] \in Nat
        <5>1. pos \in DOMAIN h /\ pos + 1 \in DOMAIN h
          BY <1>types, <2>1
        <5>2. DOMAIN actual' \in SUBSET Nat
          BY <1>types, <2>1
        <5> QED BY ONLY <5>1, <5>2, h \in [DOMAIN expected' -> DOMAIN actual']
      <4> QED BY <1>types, <2>1, <4>1, <4>2, <4>3
    <3> QED BY <3>2, <3>3
  <2> QED BY <1>types, <2>1, <2>2 DEF MatchInv
<1>3. CASE SkipItem
  <2>1. /\ phase = "match" /\ pos <= Len(expected) /\ at <= Len(actual) /\ actual[at] # expected[pos]
        /\ pos' = pos /\ at' = at + 1
        /\ expected' = expected /\ actual' = actual /\ missing' = missing
    BY <1>3 DEF SkipItem
  <2>2. ASSUME missing = <<>> PROVE Found' /\ Earliest'
    <3>1. Found'
      <4>1. PICK f \in [1 .. pos - 1 -> 1 .. at - 1] : Follows(f, expected, actual)
        BY <2>1, <2>2 DEF MatchInv, Found
      <4>2. f \in [1 .. pos' - 1 -> 1 .. at' - 1]
        BY <1>types, <2>1
      <4> QED BY <2>1, <4>1, <4>2 DEF Found
    <3>2. Earliest'
      <4> SUFFICES ASSUME NEW h \in [DOMAIN expected' -> DOMAIN actual'],
                          Follows(h, expected', actual'), pos' <= Len(expected')
                   PROVE  at' <= h[pos']
        BY DEF Earliest
      <4>1. at <= h[pos]
        BY <2>1, <2>2 DEF MatchInv, Earliest
      <4>2. actual[h[pos]] = expected[pos] /\ h[pos] \in Nat
        BY <1>types, <2>1 DEF Follows
      <4> QED BY <1>types, <2>1, <4>1, <4>2
    <3> QED BY <3>1, <3>2
  <2> QED BY <1>types, <2>1, <2>2 DEF MatchInv
<1>4. CASE MissItem
  <2>1. /\ phase = "match" /\ pos <= Len(expected) /\ at > Len(actual)
        /\ missing' = Append(missing, expected[pos]) /\ pos' = pos + 1
        /\ expected' = expected /\ actual' = actual /\ at' = at
    BY <1>4 DEF MissItem
  <2>2. missing' # <<>>
    BY <1>0, <1>types, <2>1 DEF MatchTypes
  <2>3. ~Embeds(expected, actual)
    <3>1. CASE missing = <<>>
      <4> SUFFICES ASSUME NEW h \in [DOMAIN expected -> DOMAIN actual], Follows(h, expected, actual)
                   PROVE  FALSE
        BY DEF Embeds
      <4>1. at <= h[pos]
        BY <2>1, <3>1 DEF MatchInv, Earliest
      <4>2. h[pos] \in 1..Len(actual)
        BY <1>types, <2>1
      <4> QED BY <1>types, <2>1, <4>1, <4>2
    <3>2. CASE missing # <<>>
      BY <2>1, <3>2 DEF MatchInv
    <3> QED BY <3>1, <3>2
  <2>4. at <= Len(actual) + 1
    BY <2>1 DEF MatchInv
  <2> QED BY <1>types, <2>1, <2>2, <2>3, <2>4
<1>5. CASE UNCHANGED vars
  BY <1>5 DEF vars, matchVars, MatchInv, Found, Earliest
<1>6. CASE \/ ReadLine \/ Refuse \/ NothingTraced \/ Vacuous \/ StartCalls \/ StartModules
           \/ FindCall \/ FindModule \/ EndVariant \/ EndVariants \/ Judge \/ Report
  BY <1>6 DEF ReadLine, Refuse, NothingTraced, Vacuous, StartCalls, StartModules, Verdict,
              FindCall, FindModule, EndVariant, EndVariants, Judge, Report
<1> QED BY <1>1, <1>2, <1>3, <1>4, <1>5, <1>6 DEF Next

LEMMA MatchExact == TypeOK /\ MatchInv => MatchIsExact
<1> SUFFICES ASSUME TypeOK, MatchInv, phase = "match", pos > Len(expected)
             PROVE  missing = <<>> <=> Embeds(expected, actual)
  BY DEF MatchIsExact
<1>1. /\ Len(expected) \in Nat /\ DOMAIN expected = 1..Len(expected)
      /\ Len(actual) \in Nat /\ DOMAIN actual = 1..Len(actual)
      /\ pos \in Nat \ {0} /\ at \in Nat \ {0}
  BY DEF TypeOK, MatchTypes
<1>2. pos - 1 = Len(expected) /\ 1 .. at - 1 \subseteq DOMAIN actual
  BY <1>1 DEF MatchInv
<1>3. missing = <<>> => Embeds(expected, actual)
  BY <1>1, <1>2 DEF MatchInv, Found, Embeds
<1> QED BY <1>3 DEF MatchInv

\* subsequence_match never goes back in the trace and still finds the expected
\* accesses whenever they are there, for all traces.
THEOREM SubsequenceExact == Spec => []MatchIsExact
<1>1. Init => MatchInv
  BY DEF Init, MatchInv
<1>2. Spec => []MatchInv
  BY <1>1, MatchStep, TypeCorrect, PTL DEF Spec
<1> QED BY <1>2, TypeCorrect, MatchExact, PTL
-----------------------------------------------------------------------------
LEMMA JobStep == TypeOK /\ MatchIsExact /\ JobInv /\ [Next]_vars => JobInv'
<1> SUFFICES ASSUME TypeOK, MatchIsExact, JobInv, [Next]_vars PROVE JobInv'
  OBVIOUS
<1>0. LogTypes /\ JobTypes /\ MatchTypes /\ best \in BOOLEAN
  BY DEF TypeOK
<1>1. CASE FindCall
  <2>1. PICK i \in DOMAIN segments \cup {0} :
            IF i = 0 THEN phase' = "judge"
            ELSE /\ cursor' = i + 1 /\ phase' = "variant" /\ actual' = segments[i].ops
                 /\ candidates' = NonEmpty(request, Head(jobs)[1])
    BY <1>1 DEF FindCall
  <2>2. /\ best' = FALSE /\ jobs' = jobs /\ jobs # <<>> /\ request.mode = "calls"
        /\ request' = request /\ segments' = segments
    BY <1>1 DEF FindCall, logVars
  <2>3. i \in Nat
    BY <1>0 DEF LogTypes
  <2>4. i # 0 => actual' = Target'
    BY <2>1, <2>2, <2>3 DEF Target
  <2> QED BY <2>1, <2>2, <2>4 DEF JobInv, Matching, NonEmpty
<1>2. CASE FindModule
  <2>1. request.mode # "calls"
    BY <1>2 DEF FindModule
  <2> QED BY <1>2, <2>1 DEF FindModule, JobInv, Matching, Target, NonEmpty, logVars
<1>3. CASE NextVariant
  BY <1>3 DEF NextVariant, JobInv, Matching, Target, NonEmpty, Passes, logVars
<1>4. CASE MatchItem \/ SkipItem \/ MissItem
  BY <1>4 DEF MatchItem, SkipItem, MissItem, JobInv, Matching, Target, NonEmpty, Passes, logVars
<1>5. CASE EndVariant
  <2>1. missing = <<>> => Embeds(expected, actual)
    BY <1>5 DEF EndVariant, MatchIsExact
  <2>2. missing = <<>> => Passes(Head(jobs)[1], Target)
    <3>1. expected \in NonEmpty(request, Head(jobs)[1]) /\ actual = Target
      BY <1>5 DEF EndVariant, JobInv
    <3> QED BY <2>1, <3>1 DEF Passes
  <2>3. best => Passes(Head(jobs)[1], Target)
    BY <1>5 DEF EndVariant, JobInv, Matching
  <2>4. best' => Passes(Head(jobs)[1], Target)
    BY <1>5, <2>2, <2>3 DEF EndVariant
  <2>5. Passes(Head(jobs)[1], Target)' = Passes(Head(jobs)[1], Target)
    BY <1>5 DEF EndVariant, Passes, NonEmpty, Target, logVars
  <2>6. /\ jobs # <<>> /\ jobs' = jobs /\ phase' = "variant"
        /\ actual' = Target' /\ candidates' \subseteq NonEmpty(request, Head(jobs)[1])'
    BY <1>5 DEF EndVariant, JobInv, Matching, NonEmpty, Target, logVars, matchVars
  <2> QED BY <2>4, <2>5, <2>6 DEF JobInv
<1>6. CASE EndVariants
  BY <1>6 DEF EndVariants, JobInv, Matching, Target, Passes, NonEmpty, logVars, matchVars
<1>7. CASE UNCHANGED vars
  BY <1>7 DEF vars, logVars, matchVars, JobInv, Matching, Target, Passes, NonEmpty
<1>8. CASE \/ ReadLine \/ Refuse \/ NothingTraced \/ Vacuous \/ StartCalls \/ StartModules
           \/ Judge \/ Report
  <2>1. phase' \notin Matching
    BY <1>8 DEF ReadLine, Refuse, NothingTraced, Vacuous, StartCalls, StartModules, Judge, Report,
                Verdict, Matching
  <2> QED BY <2>1 DEF JobInv, Matching
<1> QED BY <1>1, <1>2, <1>3, <1>4, <1>5, <1>6, <1>7, <1>8 DEF Next

LEMMA ModuleStep == TypeOK /\ JobInv /\ ModuleInv /\ [Next]_vars => ModuleInv'
<1> SUFFICES ASSUME TypeOK, JobInv, ModuleInv, [Next]_vars,
                    request'.mode = "modules", phase' \in Matching \cup {"find"}, failures' = 0,
                    NEW m \in Checkable(request')
             PROVE  (\E i \in DOMAIN jobs' : jobs'[i] = <<m, m>>) \/ Passes(m, traced)'
  BY DEF ModuleInv
<1>0. LogTypes /\ JobTypes /\ failures \in Nat
  BY DEF TypeOK
<1>1. request' = request
  BY DEF Next, vars, ReadLine, Refuse, NothingTraced, Vacuous, StartCalls, StartModules, FindCall,
         FindModule, NextVariant, MatchItem, SkipItem, MissItem, EndVariant, EndVariants, Judge,
         Report, Verdict
<1>2. CASE Judge
  <2>1. /\ failures = 0 /\ best /\ jobs # <<>> /\ jobs' = Tail(jobs) /\ phase = "judge"
        /\ traced' = traced
    BY <1>0, <1>2 DEF Judge, logVars
  <2>2. CASE Passes(m, traced)
    BY <1>1, <2>1, <2>2 DEF Passes, NonEmpty
  <2>3. CASE \E i \in DOMAIN jobs : jobs[i] = <<m, m>>
    <3>1. PICK i \in DOMAIN jobs : jobs[i] = <<m, m>>
      BY <2>3
    <3>2. CASE i = 1
      <4>1. Head(jobs)[1] = m
        BY <1>0, <3>1, <3>2, <2>1 DEF JobTypes
      <4>2. Passes(m, traced)
        BY <1>1, <2>1, <4>1 DEF JobInv, Matching, Target
      <4> QED BY <1>1, <2>1, <4>2 DEF Passes, NonEmpty
    <3>3. CASE i # 1
      <4>1. i - 1 \in DOMAIN Tail(jobs) /\ Tail(jobs)[i - 1] = jobs[i]
        BY <1>0, <2>1, <3>1, <3>3 DEF JobTypes
      <4> QED BY <2>1, <3>1, <4>1
    <3> QED BY <3>2, <3>3
  <2> QED BY <1>1, <2>1, <2>2, <2>3 DEF ModuleInv, Matching
<1>3. CASE StartModules
  <2>1. <<m, m>> \in {jobs'[i] : i \in DOMAIN jobs'}
    BY <1>1, <1>3 DEF StartModules
  <2> QED BY <2>1
<1>4. CASE \/ FindModule \/ NextVariant \/ MatchItem \/ SkipItem \/ MissItem \/ EndVariant \/ EndVariants
           \/ UNCHANGED vars
  <2>1. /\ phase \in Matching \cup {"find"}
        /\ jobs' = jobs /\ traced' = traced /\ failures' = failures
    BY <1>4 DEF FindModule, NextVariant, MatchItem, SkipItem, MissItem, EndVariant, EndVariants,
                vars, logVars, Matching
  <2> QED BY <1>1, <2>1 DEF ModuleInv, Passes, NonEmpty
<1>5. ~(ReadLine \/ Refuse \/ NothingTraced \/ Vacuous \/ StartCalls \/ FindCall \/ Report)
  BY <1>1 DEF ReadLine, Refuse, NothingTraced, Vacuous, StartCalls, FindCall, Report, Verdict, Matching
<1> QED BY <1>2, <1>3, <1>4, <1>5 DEF Next
-----------------------------------------------------------------------------
LEMMA ServedUnchanged ==
    ASSUME NEW g, UNCHANGED <<request, segments>>, Served(g)
    PROVE  Served(g)'
BY DEF Served, Realises, Passes, NonEmpty

LEMMA CallStep == TypeOK /\ JobInv /\ CallInv /\ [Next]_vars => CallInv'
<1> SUFFICES ASSUME TypeOK, JobInv, CallInv, [Next]_vars,
                    request'.mode = "calls", phase' \in Matching \cup {"find"}
             PROVE  CallInv'
  BY DEF CallInv
<1>0. /\ Len(jobs) \in Nat /\ DOMAIN jobs = 1..Len(jobs) /\ jobs \in Seq(Name \X Name)
      /\ Len(segments) \in Nat /\ DOMAIN segments = 1..Len(segments)
      /\ cursor \in Nat \ {0} /\ failures \in Nat
  BY DEF TypeOK, LogTypes, JobTypes
<1>1. request' = request /\ request.mode = "calls"
  BY DEF Next, vars, ReadLine, Refuse, NothingTraced, Vacuous, StartCalls, StartModules, FindCall,
         FindModule, NextVariant, MatchItem, SkipItem, MissItem, EndVariant, EndVariants, Judge,
         Report, Verdict
<1>2. request.calls \in Seq(Name \X Name) /\ Len(request.calls) \in Nat
  BY RequestTypes DEF TypeOK, LogTypes
<1>3. CASE StartCalls
  <2>1. /\ phase' = "find" /\ jobs' = request.calls /\ segments' = segments
        /\ cursor' = cursor /\ failures' = failures
    BY <1>3 DEF StartCalls, logVars
  <2>2. Processed' = 0
    BY <1>1, <1>2, <2>1 DEF Processed
  <2>3. Given(Processed, cursor)'
    <3>1. PICK g \in [1..0 -> DOMAIN segments] : TRUE
      <4>1. [i \in 1..0 |-> i] \in [1..0 -> DOMAIN segments]
        OBVIOUS
      <4> QED BY <4>1
    <3>2. DOMAIN g = {} /\ 1..0 = {}
      OBVIOUS
    <3>3. Served(g)'
      BY <3>2 DEF Served, InOrder
    <3>4. g \in [1..Processed' -> DOMAIN segments'] /\ \A i \in 1..Processed' : g[i] < cursor'
      BY <2>1, <2>2, <3>2
    <3> QED BY <3>3, <3>4 DEF Given
  <2>4. \A i \in 1..Len(jobs') : jobs'[i] = request'.calls[0 + i]
    BY <1>1, <1>2, <2>1
  <2> QED BY <1>1, <1>2, <2>1, <2>2, <2>3, <2>4 DEF CallInv, Matching
<1>4. CASE FindCall
  <2>1. PICK i \in DOMAIN segments \cup {0} :
            IF i = 0 THEN phase' = "judge"
            ELSE /\ cursor' = i + 1 /\ phase' = "variant" /\ cursor <= i
                 /\ segments[i].function = Head(jobs)[2]
    BY <1>4 DEF FindCall
  <2>2. /\ best' = FALSE /\ jobs' = jobs /\ jobs # <<>> /\ segments' = segments
        /\ failures' = failures /\ phase = "find"
    BY <1>4 DEF FindCall, logVars
  <2>3. Processed' = Processed
    BY <1>1, <2>2 DEF Processed
  <2>4. /\ Len(jobs') <= Len(request'.calls)
        /\ \A j \in 1..Len(jobs') : jobs'[j] = request'.calls[Processed' + j]
    BY <1>1, <2>2, <2>3 DEF CallInv, Matching
  <2>5. CASE i = 0
    BY <2>1, <2>2, <2>4, <2>5 DEF CallInv, Matching
  <2>6. CASE i # 0
    <3>1. i \in Nat /\ cursor' - 1 = i /\ phase' = "variant"
      BY <1>0, <2>1, <2>6
    <3>2. failures = 0 => Given(Processed, cursor)
      BY <1>1, <2>2 DEF CallInv, Matching
    <3>3. ASSUME failures' = 0 PROVE Given(Processed, cursor - 1)'
      <4>1. PICK g \in [1..Processed -> DOMAIN segments] :
                Served(g) /\ \A j \in 1..Processed : g[j] < cursor
        BY <2>2, <3>2, <3>3 DEF Given
      <4>2. Served(g)'
        BY <1>1, <2>2, <4>1, ServedUnchanged
      <4>3. \A j \in 1..Processed' : g[j] < cursor' - 1
        BY <1>0, <2>1, <2>3, <2>6, <3>1, <4>1
      <4> QED BY <2>2, <2>3, <4>2, <4>3 DEF Given
    <3>4. cursor' - 1 \in DOMAIN segments' /\ segments'[cursor' - 1].function = Head(jobs')[2]
      BY <2>1, <2>2, <2>6, <3>1
    <3> QED BY <2>4, <3>1, <3>3, <3>4 DEF CallInv
  <2> QED BY <2>5, <2>6
<1>5. CASE Judge
  <2>1. /\ jobs # <<>> /\ jobs' = Tail(jobs) /\ phase = "judge" /\ phase' = "find"
        /\ segments' = segments /\ cursor' = cursor
        /\ failures' = IF best THEN failures ELSE failures + 1
    BY <1>5 DEF Judge, logVars
  <2>2. /\ Len(jobs) <= Len(request.calls)
        /\ \A i \in 1..Len(jobs) : jobs[i] = request.calls[Processed + i]
    BY <1>1, <2>1 DEF CallInv, Matching
  <2>3. Len(jobs') = Len(jobs) - 1 /\ Len(jobs) > 0
    BY <1>0, <2>1
  <2>4. Processed' = Processed + 1 /\ Processed \in Nat
    BY <1>0, <1>1, <1>2, <2>2, <2>3 DEF Processed
  <2>5. \A i \in 1..Len(jobs') : jobs'[i] = request'.calls[Processed' + i]
    <3> TAKE i \in 1..Len(jobs')
    <3>1. jobs'[i] = jobs[i + 1] /\ i + 1 \in 1..Len(jobs)
      BY <1>0, <2>1, <2>3
    <3>2. Processed + (i + 1) = Processed' + i
      BY <1>0, <2>3, <2>4
    <3> QED BY <1>1, <2>2, <3>1, <3>2
  <2>6. ASSUME failures' = 0 PROVE Given(Processed, cursor)'
    <3>1. failures = 0 /\ best
      BY <1>0, <2>1, <2>6
    <3>2. /\ cursor - 1 \in DOMAIN segments /\ segments[cursor - 1].function = Head(jobs)[2]
          /\ Given(Processed, cursor - 1)
      BY <1>1, <2>1, <3>1 DEF CallInv, Matching
    <3>3. Passes(Head(jobs)[1], segments[cursor - 1].ops)
      BY <1>1, <2>1, <3>1 DEF JobInv, Matching, Target
    <3>4. Head(jobs) = request.calls[Processed + 1]
      BY <1>0, <2>1, <2>2, <2>3
    <3>5. PICK g \in [1..Processed -> DOMAIN segments] :
              Served(g) /\ \A i \in 1..Processed : g[i] < cursor - 1
      BY <3>2 DEF Given
    <3> DEFINE h == [i \in 1..Processed + 1 |-> IF i = Processed + 1 THEN cursor - 1 ELSE g[i]]
    <3>6. h \in [1..Processed + 1 -> DOMAIN segments]
      BY <3>2, <3>5, <2>4
    <3>7. \A i \in 1..Processed : h[i] = g[i] /\ h[i] < cursor - 1 /\ h[i] \in Nat
      BY <1>0, <2>4, <3>5
    <3>8. h[Processed + 1] = cursor - 1 /\ DOMAIN h = 1..Processed + 1
      BY <2>4
    <3>9. Realises(h[Processed + 1], request.calls[Processed + 1])
      BY <3>2, <3>3, <3>4, <3>8 DEF Realises
    <3>10. \A i \in 1..Processed : Realises(h[i], request.calls[i])
      BY <3>5, <3>7 DEF Served
    <3>11. \A i, j \in 1..Processed : i < j => h[i] < h[j]
      BY <3>5, <3>7 DEF Served, InOrder
    <3> HIDE DEF h
    <3>12. InOrder(h)
      BY <2>4, <3>7, <3>8, <3>11 DEF InOrder
    <3>13. Served(h)
      <4>1. \A i \in DOMAIN h : i = Processed + 1 \/ i \in 1..Processed
        BY <2>4, <3>8
      <4>2. \A i \in DOMAIN h : Realises(h[i], request.calls[i])
        BY <3>9, <3>10, <4>1
      <4> QED BY <3>12, <4>2 DEF Served
    <3>14. \A i \in 1..Processed + 1 : h[i] < cursor
      <4>1. \A i \in 1..Processed + 1 : i = Processed + 1 \/ i \in 1..Processed
        BY <2>4
      <4>2. \A i \in 1..Processed : h[i] < cursor
        BY <1>0, <3>7
      <4>3. h[Processed + 1] < cursor
        BY <1>0, <3>8
      <4> QED BY <4>1, <4>2, <4>3
    <3>15. PICK f \in [1..Processed + 1 -> DOMAIN segments] :
              Served(f) /\ \A i \in 1..Processed + 1 : f[i] < cursor
      BY <3>6, <3>13, <3>14
    <3>16. Served(f)'
      BY <1>1, <2>1, <3>15, ServedUnchanged
    <3>17. f \in [1..Processed' -> DOMAIN segments'] /\ \A i \in 1..Processed' : f[i] < cursor'
      BY <2>1, <2>4, <3>15
    <3> QED BY <3>16, <3>17 DEF Given
  <2>7. failures' = 0 => Given(Processed, IF phase = "find" THEN cursor ELSE cursor - 1)'
    BY <2>1, <2>6
  <2>8. Len(jobs') <= Len(request'.calls) /\ phase' \notin {"variant", "match", "judge"}
    BY <1>0, <1>1, <1>2, <2>1, <2>2, <2>3
  <2> QED BY <2>5, <2>7, <2>8 DEF CallInv
<1>6. CASE \/ NextVariant \/ MatchItem \/ SkipItem \/ MissItem \/ EndVariant \/ EndVariants
           \/ UNCHANGED vars
  <2>1. /\ phase \in Matching \cup {"find"}
        /\ jobs' = jobs /\ segments' = segments /\ failures' = failures /\ cursor' = cursor
        /\ phase = "find" <=> phase' = "find"
        /\ phase' \in {"variant", "match"} \/ phase' = "find" =>
               phase \in {"variant", "match"} \/ phase = "find"
        /\ phase' = "judge" => \/ phase = "variant" /\ best' = best
                               \/ phase = "judge" /\ best' = best
    BY <1>6 DEF NextVariant, MatchItem, SkipItem, MissItem, EndVariant, EndVariants,
                vars, logVars, Matching
  <2>2. Processed' = Processed
    BY <1>1, <2>1 DEF Processed
  <2>3. /\ Len(jobs') <= Len(request'.calls)
        /\ \A i \in 1..Len(jobs') : jobs'[i] = request'.calls[Processed' + i]
    BY <1>1, <2>1, <2>2 DEF CallInv
  <2>4. phase' \in {"variant", "match"} \/ (phase' = "judge" /\ best') =>
            cursor' - 1 \in DOMAIN segments' /\ segments'[cursor' - 1].function = Head(jobs')[2]
    BY <1>1, <2>1 DEF CallInv, Matching
  <2>5. ASSUME failures' = 0, phase' = "judge" => best'
        PROVE  Given(Processed, IF phase = "find" THEN cursor ELSE cursor - 1)'
    <3>1. Given(Processed, IF phase = "find" THEN cursor ELSE cursor - 1)
      BY <1>1, <2>1, <2>5 DEF CallInv, Matching
    <3>2. PICK g \in [1..Processed -> DOMAIN segments] :
              /\ Served(g)
              /\ \A i \in 1..Processed : g[i] < (IF phase = "find" THEN cursor ELSE cursor - 1)
      BY <3>1 DEF Given
    <3>3. Served(g)'
      BY <1>1, <2>1, <3>2, ServedUnchanged
    <3>4. \A i \in 1..Processed' : g[i] < (IF phase' = "find" THEN cursor' ELSE cursor' - 1)
      BY <2>1, <2>2, <3>2
    <3> QED BY <2>1, <2>2, <3>3, <3>4 DEF Given
  <2> QED BY <2>3, <2>4, <2>5 DEF CallInv
<1>7. ~(ReadLine \/ Refuse \/ NothingTraced \/ Vacuous \/ StartModules \/ FindModule \/ Report)
  BY <1>1 DEF ReadLine, Refuse, NothingTraced, Vacuous, StartModules, FindModule, Report, Verdict, Matching
<1> QED BY <1>3, <1>4, <1>5, <1>6, <1>7 DEF Next

LEMMA VerdictStep ==
    TypeOK /\ ModuleInv /\ CallInv /\ VerdictInv /\ [Next]_vars => VerdictInv'
<1> SUFFICES ASSUME TypeOK, ModuleInv, CallInv, VerdictInv, [Next]_vars PROVE VerdictInv'
  OBVIOUS
<1>1. CASE Report
  <2>1. /\ phase = "find" /\ jobs = <<>> /\ phase' = "done"
        /\ verdict' = IF failures = 0 THEN "ok" ELSE "fail"
        /\ request' = request /\ traced' = traced /\ segments' = segments
    BY <1>1 DEF Report, Verdict, logVars
  <2>2. ASSUME failures = 0, request.mode = "calls" PROVE CallsRealised
    <3>1. Len(request.calls) \in Nat /\ DOMAIN request.calls = 1..Len(request.calls)
      BY RequestTypes DEF TypeOK, LogTypes
    <3>2. Processed = Len(request.calls)
      BY <2>1, <3>1 DEF Processed
    <3>3. Given(Len(request.calls), cursor)
      BY <2>1, <2>2, <3>2 DEF CallInv, Matching
    <3> QED BY <3>1, <3>3 DEF Given, CallsRealised
  <2>3. ASSUME failures = 0, request.mode # "calls", NEW m \in Checkable(request)
        PROVE  Passes(m, traced)
    <3>1. request.mode = "modules"
      BY <2>3, RequestTypes DEF TypeOK, LogTypes
    <3>2. DOMAIN jobs = {}
      BY <2>1
    <3> QED BY <2>1, <2>3, <3>1, <3>2 DEF ModuleInv, Matching
  <2>4. OkMeansRealised'
    BY <2>1, <2>2, <2>3 DEF OkMeansRealised, CallsRealised, Served, Realises, Passes, NonEmpty
  <2> QED BY <2>1, <2>4 DEF VerdictInv
<1>2. CASE Vacuous
  <2>1. /\ phase' = "done" /\ verdict' = "ok" /\ request' = request /\ traced' = traced
        /\ Checkable(request) = {} /\ request.mode # "calls"
    BY <1>2 DEF Vacuous, Verdict, logVars
  <2> QED BY <2>1 DEF VerdictInv, OkMeansRealised
<1>3. CASE Refuse \/ NothingTraced
  BY <1>3 DEF Refuse, NothingTraced, Verdict, VerdictInv, OkMeansRealised
<1>4. CASE UNCHANGED vars
  <2>1. UNCHANGED <<request, traced, segments, verdict, phase>>
    BY <1>4 DEF vars, logVars
  <2> QED BY <2>1 DEF VerdictInv, OkMeansRealised, CallsRealised, Served, Realises, Passes, NonEmpty
<1>5. CASE \/ ReadLine \/ StartCalls \/ StartModules \/ FindCall \/ FindModule \/ NextVariant
           \/ MatchItem \/ SkipItem \/ MissItem \/ EndVariant \/ EndVariants \/ Judge
  <2>1. phase # "done" /\ phase' # "done" /\ verdict' = verdict
    BY <1>5 DEF ReadLine, StartCalls, StartModules, FindCall, FindModule, NextVariant, MatchItem,
                SkipItem, MissItem, EndVariant, EndVariants, Judge
  <2> QED BY <2>1 DEF VerdictInv, OkMeansRealised
<1> QED BY <1>1, <1>2, <1>3, <1>4, <1>5 DEF Next

\* TRACE_MATCH_OK is printed only when every expected call is a segment of its
\* own, in the order expected, with the accesses of some branch of its module;
\* for all logs, modules and calls.
THEOREM VerdictSound == Spec => []OkMeansRealised
<1>1. Init => JobInv /\ ModuleInv /\ CallInv /\ VerdictInv
  BY DEF Init, JobInv, ModuleInv, CallInv, VerdictInv, OkMeansRealised, Matching
<1>2. /\ TypeOK /\ MatchIsExact /\ JobInv /\ ModuleInv /\ CallInv /\ VerdictInv
      /\ [Next]_vars
      => (JobInv /\ ModuleInv /\ CallInv /\ VerdictInv)'
  BY JobStep, ModuleStep, CallStep, VerdictStep
<1>3. VerdictInv => OkMeansRealised
  BY DEF VerdictInv
<1> QED BY <1>1, <1>2, <1>3, TypeCorrect, SubsequenceExact, PTL DEF Spec
-----------------------------------------------------------------------------
(***************************************************************************)
(* False alarms                                                            *)
(***************************************************************************)
\* A variant that is in the trace and was compared has been noticed.
TriedInv ==
    /\ phase = "variant" =>
           \A v \in NonEmpty(request, Head(jobs)[1]) \ candidates : Embeds(v, actual) => best
    /\ phase = "match" =>
           \A v \in NonEmpty(request, Head(jobs)[1]) \ (candidates \cup {expected}) :
               Embeds(v, actual) => best

LEMMA TriedStep == TypeOK /\ MatchIsExact /\ TriedInv /\ [Next]_vars => TriedInv'
<1> SUFFICES ASSUME TypeOK, MatchIsExact, TriedInv, [Next]_vars PROVE TriedInv'
  OBVIOUS
<1>1. CASE FindCall
  <2>1. phase' = "judge" \/ (phase' = "variant" /\ candidates' = NonEmpty(request, Head(jobs)[1]))
    BY <1>1 DEF FindCall
  <2>2. request' = request /\ jobs' = jobs
    BY <1>1 DEF FindCall
  <2> QED BY <2>1, <2>2 DEF TriedInv, NonEmpty
<1>2. CASE FindModule
  BY <1>2 DEF FindModule, TriedInv, NonEmpty
<1>3. CASE NextVariant
  <2>1. /\ phase = "variant" /\ phase' = "match" /\ candidates = candidates' \cup {expected'}
        /\ UNCHANGED <<request, jobs, actual, best>>
    BY <1>3 DEF NextVariant
  <2> QED BY <2>1 DEF TriedInv, NonEmpty, Embeds, Follows, InOrder
<1>4. CASE MatchItem \/ SkipItem \/ MissItem
  <2>1. phase = "match" /\ UNCHANGED <<phase, request, jobs, candidates, expected, actual, best>>
    BY <1>4 DEF MatchItem, SkipItem, MissItem
  <2> QED BY <2>1 DEF TriedInv, NonEmpty, Embeds, Follows, InOrder
<1>5. CASE EndVariant
  <2>1. /\ phase = "match" /\ phase' = "variant" /\ pos > Len(expected)
        /\ best' = (best \/ missing = <<>>)
        /\ UNCHANGED <<request, jobs, candidates, expected, actual>>
    BY <1>5 DEF EndVariant, matchVars
  <2>2. Embeds(expected, actual) => best'
    BY <2>1 DEF MatchIsExact
  <2>3. \A v \in NonEmpty(request, Head(jobs)[1]) \ candidates : Embeds(v, actual) => best'
    BY <2>1, <2>2 DEF TriedInv
  <2> QED BY <2>1, <2>3 DEF TriedInv, NonEmpty, Embeds, Follows, InOrder
<1>6. CASE UNCHANGED vars
  BY <1>6 DEF vars, matchVars, TriedInv, NonEmpty, Embeds, Follows, InOrder
<1>7. CASE \/ ReadLine \/ Refuse \/ NothingTraced \/ Vacuous \/ StartCalls \/ StartModules
           \/ EndVariants \/ Judge \/ Report
  <2>1. phase' \notin {"variant", "match"}
    BY <1>7 DEF ReadLine, Refuse, NothingTraced, Vacuous, StartCalls, StartModules, EndVariants,
                Judge, Report, Verdict
  <2> QED BY <2>1 DEF TriedInv
<1> QED BY <1>1, <1>2, <1>3, <1>4, <1>5, <1>6, <1>7 DEF Next

\* If the calls can be given to segments and no function ran twice, the matcher
\* finds just these segments, and nothing fails.
AlarmInv ==
    request.mode = "calls" =>
        /\ phase = "parse" => cursor = 1 /\ failures = 0
        /\ RanOnce /\ phase \in Matching \cup {"find"} =>
               \A g \in [DOMAIN request.calls -> DOMAIN segments] : Served(g) =>
                   /\ failures = 0
                   /\ phase = "find" => cursor = IF Processed = 0 THEN 1 ELSE g[Processed] + 1
                   /\ phase \in Matching => cursor = g[Processed + 1] + 1
                   /\ phase = "judge" => best

\* The call that is looked for next, of calls that can be given to segments.
LEMMA NextCall ==
    ASSUME TypeOK, CallInv, request.mode = "calls", phase \in Matching \cup {"find"}, jobs # <<>>,
           NEW g \in [DOMAIN request.calls -> DOMAIN segments], Served(g)
    PROVE  /\ Processed \in Nat /\ Processed + 1 \in DOMAIN request.calls
           /\ g[Processed + 1] \in 1..Len(segments)
           /\ Processed # 0 => Processed \in DOMAIN request.calls /\ g[Processed] < g[Processed + 1]
           /\ segments[g[Processed + 1]].function = Head(jobs)[2]
           /\ Passes(Head(jobs)[1], segments[g[Processed + 1]].ops)
<1>1. /\ Len(jobs) \in Nat /\ Len(jobs) > 0 /\ jobs[1] = Head(jobs)
      /\ Len(segments) \in Nat /\ DOMAIN segments = 1..Len(segments)
  BY DEF TypeOK, JobTypes, LogTypes
<1>2. Len(request.calls) \in Nat /\ DOMAIN request.calls = 1..Len(request.calls)
  BY RequestTypes DEF TypeOK, LogTypes
<1>3. /\ Len(jobs) <= Len(request.calls)
      /\ \A i \in 1..Len(jobs) : jobs[i] = request.calls[Processed + i]
  BY DEF CallInv
<1>4. /\ Processed \in Nat /\ Processed + 1 \in DOMAIN request.calls
      /\ Processed # 0 => Processed \in DOMAIN request.calls
  BY <1>1, <1>2, <1>3 DEF Processed
<1>5. Head(jobs) = request.calls[Processed + 1]
  BY <1>1, <1>3
<1>6. Realises(g[Processed + 1], request.calls[Processed + 1])
  BY <1>4 DEF Served
<1>7. Processed # 0 => g[Processed] < g[Processed + 1]
  BY <1>4 DEF Served, InOrder
<1> QED BY <1>1, <1>4, <1>5, <1>6, <1>7 DEF Realises

LEMMA AlarmStep ==
    TypeOK /\ JobInv /\ CallInv /\ TriedInv /\ AlarmInv /\ [Next]_vars => AlarmInv'
<1> SUFFICES ASSUME TypeOK, JobInv, CallInv, TriedInv, AlarmInv, [Next]_vars, request'.mode = "calls"
             PROVE  AlarmInv'
  BY DEF AlarmInv
<1>0. request' = request /\ request.mode = "calls"
  BY DEF Next, vars, ReadLine, Refuse, NothingTraced, Vacuous, StartCalls, StartModules, FindCall,
         FindModule, NextVariant, MatchItem, SkipItem, MissItem, EndVariant, EndVariants, Judge,
         Report, Verdict
<1>1. CASE ReadLine
  BY <1>0, <1>1 DEF ReadLine, AlarmInv, Matching
<1>2. CASE StartCalls
  <2>1. /\ cursor' = 1 /\ failures' = 0 /\ phase' = "find" /\ jobs' = request.calls
    BY <1>0, <1>2 DEF StartCalls, AlarmInv
  <2>2. Processed' = 0
    <3>1. Len(request.calls) \in Nat
      BY RequestTypes DEF TypeOK, LogTypes
    <3> QED BY <1>0, <2>1, <3>1 DEF Processed
  <2> QED BY <2>1, <2>2 DEF AlarmInv, Matching
<1>3. CASE Refuse \/ NothingTraced \/ Vacuous \/ Report
  <2>1. phase' = "done"
    BY <1>3 DEF Refuse, NothingTraced, Vacuous, Report, Verdict
  <2> QED BY <2>1 DEF AlarmInv, Matching
<1>4. ASSUME FindCall \/ Judge \/ phase \in Matching, phase \in Matching \cup {"find"},
             RanOnce', UNCHANGED segments, phase' \in Matching \cup {"find"},
             NEW g \in [DOMAIN request'.calls -> DOMAIN segments'], Served(g)'
      PROVE  /\ failures' = 0
             /\ phase' = "find" => cursor' = IF Processed' = 0 THEN 1 ELSE g[Processed'] + 1
             /\ phase' \in Matching => cursor' = g[Processed' + 1] + 1
             /\ phase' = "judge" => best'
  <2>1. /\ RanOnce /\ g \in [DOMAIN request.calls -> DOMAIN segments] /\ Served(g)
    BY <1>0, <1>4 DEF RanOnce, Served, Realises, Passes, NonEmpty
  <2>2. /\ failures = 0
        /\ phase = "find" => cursor = IF Processed = 0 THEN 1 ELSE g[Processed] + 1
        /\ phase \in Matching => cursor = g[Processed + 1] + 1
        /\ phase = "judge" => best
    BY <1>0, <1>4, <2>1 DEF AlarmInv
  <2>3. jobs # <<>>
    BY <1>4 DEF FindCall, Judge, JobInv
  <2>4. /\ Processed \in Nat /\ Processed + 1 \in DOMAIN request.calls
        /\ g[Processed + 1] \in 1..Len(segments)
        /\ Processed # 0 => Processed \in DOMAIN request.calls /\ g[Processed] < g[Processed + 1]
        /\ segments[g[Processed + 1]].function = Head(jobs)[2]
        /\ Passes(Head(jobs)[1], segments[g[Processed + 1]].ops)
    BY <1>0, <1>4, <2>1, <2>3, NextCall
  <2>5. Len(segments) \in Nat /\ DOMAIN segments = 1..Len(segments) /\ cursor \in Nat
    BY DEF TypeOK, LogTypes, JobTypes
  <2>6. CASE FindCall
    <3>1. phase = "find" /\ jobs' = jobs /\ failures' = failures /\ Processed' = Processed
      BY <1>0, <2>6 DEF FindCall, Processed
    <3>2. g[Processed + 1] >= cursor
      <4>1. CASE Processed = 0
        BY <2>2, <2>4, <3>1, <4>1
      <4>2. CASE Processed # 0
        <5>1. g[Processed] \in 1..Len(segments)
          BY <2>1, <2>4, <2>5, <4>2
        <5> QED BY <2>2, <2>4, <2>5, <3>1, <4>2, <5>1
      <4> QED BY <4>1, <4>2
    <3> DEFINE fits == {i \in DOMAIN segments : i >= cursor /\ segments[i].function = Head(jobs)[2]}
    <3>3. fits = {g[Processed + 1]}
      <4>1. g[Processed + 1] \in fits
        BY <2>4, <2>5, <3>2
      <4>2. \A i \in fits : i = g[Processed + 1]
        BY <2>1, <2>4, <2>5 DEF RanOnce
      <4> QED BY <4>1, <4>2
    <3>4. cursor' = g[Processed + 1] + 1 /\ phase' = "variant"
      <4>1. IF fits = {} THEN TRUE
            ELSE \E i \in fits : cursor' = i + 1 /\ phase' = "variant"
        BY <2>6 DEF FindCall
      <4> HIDE DEF fits
      <4> QED BY <3>3, <4>1
    <3> QED BY <2>2, <3>1, <3>4 DEF Matching
  <2>7. CASE Judge
    <3>1. /\ phase = "judge" /\ phase' = "find" /\ cursor' = cursor /\ jobs' = Tail(jobs)
          /\ failures' = IF best THEN failures ELSE failures + 1
      BY <2>7 DEF Judge
    <3>2. Processed' = Processed + 1
      <4>1. Len(jobs') = Len(jobs) - 1 /\ Len(jobs) \in Nat
        BY <2>3, <3>1 DEF TypeOK, JobTypes
      <4>2. Len(request.calls) \in Nat
        BY RequestTypes DEF TypeOK, LogTypes
      <4> QED BY <1>0, <4>1, <4>2 DEF Processed
    <3> QED BY <2>2, <2>4, <3>1, <3>2 DEF Matching
  <2>8. CASE EndVariants
    <3>1. /\ phase = "variant" /\ candidates = {} /\ phase' = "judge"
          /\ UNCHANGED <<jobs, cursor, failures, best>>
      BY <2>8 DEF EndVariants
    <3>2. Processed' = Processed
      BY <1>0, <3>1 DEF Processed
    <3>3. actual = segments[g[Processed + 1]].ops
      BY <1>0, <2>2, <2>4, <2>5, <3>1 DEF JobInv, Target, Matching
    <3>4. best
      BY <2>4, <3>1, <3>3 DEF TriedInv, Passes
    <3> QED BY <2>2, <3>1, <3>2, <3>4 DEF Matching
  <2>9. CASE NextVariant \/ MatchItem \/ SkipItem \/ MissItem \/ EndVariant
    <3>1. /\ phase \in {"variant", "match"} /\ phase' \in {"variant", "match"}
          /\ UNCHANGED <<jobs, cursor, failures>>
      BY <2>9 DEF NextVariant, MatchItem, SkipItem, MissItem, EndVariant
    <3>2. Processed' = Processed
      BY <1>0, <3>1 DEF Processed
    <3> QED BY <2>2, <3>1, <3>2 DEF Matching
  <2>10. CASE UNCHANGED vars
    <3>1. UNCHANGED <<phase, jobs, cursor, failures, best>>
      BY <2>10 DEF vars
    <3>2. Processed' = Processed
      BY <1>0, <3>1 DEF Processed
    <3> QED BY <2>2, <3>1, <3>2
  <2>11. ~(ReadLine \/ Refuse \/ NothingTraced \/ Vacuous \/ StartCalls \/ StartModules \/ FindModule
           \/ Report)
    BY <1>0, <1>4, <2>3 DEF ReadLine, Refuse, NothingTraced, Vacuous, StartCalls, StartModules, FindModule,
                      Report, Verdict, Matching
  <2> QED BY <2>6, <2>7, <2>8, <2>9, <2>10, <2>11 DEF Next
<1>5. CASE \/ FindCall \/ NextVariant \/ MatchItem \/ SkipItem \/ MissItem \/ EndVariant \/ EndVariants
           \/ Judge
  <2>1. /\ FindCall \/ Judge \/ phase \in Matching
        /\ phase \in Matching \cup {"find"} /\ UNCHANGED segments /\ phase' # "parse"
    BY <1>5 DEF FindCall, NextVariant, MatchItem, SkipItem, MissItem, EndVariant, EndVariants, Judge,
                logVars, Matching
  <2> QED BY <1>4, <2>1 DEF AlarmInv
<1>6. CASE UNCHANGED vars
  <2>1. UNCHANGED <<request, phase, jobs, cursor, failures, best, segments>>
    BY <1>6 DEF vars, logVars
  <2>2. Processed' = Processed /\ RanOnce' = RanOnce
    BY <2>1 DEF Processed, RanOnce
  <2>3. \A g : Served(g)' = Served(g)
    BY <2>1 DEF Served, Realises, Passes, NonEmpty
  <2> QED BY <2>1, <2>2, <2>3 DEF AlarmInv
<1>7. ~(StartModules \/ FindModule)
  BY <1>0 DEF StartModules, FindModule
<1> QED BY <1>1, <1>2, <1>3, <1>5, <1>6, <1>7 DEF Next

LEMMA AlarmVerdict ==
    TypeOK /\ AlarmInv /\ VerdictInv /\ FailMeansMissing /\ [Next]_vars => FailMeansMissing'
<1> SUFFICES ASSUME TypeOK, AlarmInv, VerdictInv, FailMeansMissing, [Next]_vars,
                    verdict' = "fail", request'.mode = "calls", RanOnce',
                    segments' # <<>>, CallsRealised'
             PROVE  \E i \in DOMAIN request'.calls : request'.calls[i][1] \in request'.untraceable
  BY DEF FailMeansMissing
<1>0. /\ request' = request
      /\ UNCHANGED segments => CallsRealised /\ RanOnce
  BY DEF Next, vars, ReadLine, Refuse, NothingTraced, Vacuous, StartCalls, StartModules, FindCall,
         FindModule, NextVariant, MatchItem, SkipItem, MissItem, EndVariant, EndVariants, Judge,
         Report, Verdict, CallsRealised, Served, Realises, Passes, NonEmpty, RanOnce
<1>1. CASE Report
  <2>1. /\ phase = "find" /\ segments' = segments /\ failures # 0
    BY <1>1 DEF Report, Verdict, logVars
  <2>2. PICK g \in [DOMAIN request.calls -> DOMAIN segments] : Served(g)
    BY <1>0, <2>1 DEF CallsRealised
  <2> QED BY <1>0, <2>1, <2>2 DEF AlarmInv
<1>2. CASE Refuse
  <2>1. /\ segments' = segments
        /\ \/ \E i \in DOMAIN request.calls : request.calls[i][1] \notin Loaded(request)
           \/ \E i \in DOMAIN request.calls : request.calls[i][1] \in request.untraceable
    BY <1>2 DEF Refuse, Verdict, logVars
  <2>2. PICK g \in [DOMAIN request.calls -> DOMAIN segments] : Served(g)
    BY <1>0, <2>1 DEF CallsRealised
  <2>3. \A i \in DOMAIN request.calls : NonEmpty(request, request.calls[i][1]) # {}
    BY <2>2 DEF Served, Realises, Passes
  <2>4. \A i \in DOMAIN request.calls : request.calls[i][1] \in Name
    BY RequestTypes DEF TypeOK, LogTypes
  <2> QED BY <1>0, <2>1, <2>3, <2>4 DEF Loaded
<1>3. CASE UNCHANGED vars
  <2>1. UNCHANGED <<request, verdict, segments>>
    BY <1>3 DEF vars, logVars
  <2> QED BY <1>0, <2>1 DEF FailMeansMissing
<1>4. ~(NothingTraced \/ Vacuous)
  BY <1>0 DEF NothingTraced, Vacuous
<1>5. CASE \/ ReadLine \/ StartCalls \/ StartModules \/ FindCall \/ FindModule \/ NextVariant
           \/ MatchItem \/ SkipItem \/ MissItem \/ EndVariant \/ EndVariants \/ Judge
  <2>1. phase # "done" /\ verdict' = verdict
    BY <1>5 DEF ReadLine, StartCalls, StartModules, FindCall, FindModule, NextVariant, MatchItem,
                SkipItem, MissItem, EndVariant, EndVariants, Judge
  <2> QED BY <2>1 DEF VerdictInv
<1> QED BY <1>1, <1>2, <1>3, <1>4, <1>5 DEF Next

\* TRACE_MATCH_FAIL is no false alarm when no function ran twice: the greedy
\* search then finds the segments of all calls, if there are such; for all logs,
\* modules and calls.
THEOREM FailureIsReal == Spec => []FailMeansMissing
<1>1. Init => /\ JobInv /\ ModuleInv /\ CallInv /\ VerdictInv
              /\ TriedInv /\ AlarmInv /\ FailMeansMissing
  BY DEF Init, JobInv, ModuleInv, CallInv, VerdictInv, OkMeansRealised, TriedInv, AlarmInv,
         FailMeansMissing, Matching
<1>2. /\ TypeOK /\ MatchIsExact /\ JobInv /\ ModuleInv /\ CallInv /\ VerdictInv
      /\ TriedInv /\ AlarmInv /\ FailMeansMissing
      /\ [Next]_vars
      => (JobInv /\ ModuleInv /\ CallInv /\ VerdictInv /\ TriedInv /\ AlarmInv /\ FailMeansMissing)'
  BY JobStep, ModuleStep, CallStep, VerdictStep, TriedStep, AlarmStep, AlarmVerdict
<1> QED BY <1>1, <1>2, TypeCorrect, SubsequenceExact, PTL DEF Spec
=============================================================================
