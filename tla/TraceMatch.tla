----------------------------- MODULE TraceMatch -----------------------------
(***************************************************************************)
(* tools/trace_match.py: whether the register accesses a driver made in    *)
(* the guest are those of its RIS.  The log is cut into segments, one per  *)
(* call of an instrumented function; an expected call takes the next       *)
(* segment of its function and passes when one of its module's variants    *)
(* (one per choice of branches) is a subsequence of the segment.  Without  *)
(* a list of expected calls each module is looked for in the whole trace.  *)
(*                                                                         *)
(* A request is what the command line and the files say: the log, the      *)
(* modules, those with addresses that cannot be traced, and the calls      *)
(* expected (mode "calls") or the modules to check (mode "modules").       *)
(***************************************************************************)
EXTENDS Integers, Sequences, FiniteSets

CONSTANTS Access,      \* a kind of access at an offset: <<"R", 0>>
          Name,        \* of formal modules and of runtime functions
          IrqNames,    \* the names legacy_report takes for interrupt paths
          Requests

LogEntry == [fn : BOOLEAN, name : Name, op : Access]
Segment  == [function : Name, ops : Seq(Access)]

ASSUME NameAssumption == IsFiniteSet(Name)

\* A module read from the text of a RIS has one variant.
ASSUME RequestAssumption ==
    \A r \in Requests :
        /\ r.mode \in {"calls", "modules"}
        /\ r.log \in Seq(LogEntry)
        /\ r.variants \in [Name -> SUBSET Seq(Access)]
        /\ r.untraceable \subseteq Name
        /\ r.calls \in Seq(Name \X Name)
        /\ r.exercised \subseteq Name

VARIABLES request,
          phase,       \* where main() is
          line,        \* parse_trace: the next line of the log
          traced,      \* all accesses of the log
          segments,    \* the same by calls of runtime functions
          jobs,        \* what is left to match: calls, or modules
          cursor,      \* the next segment
          candidates,  \* the variants of this job not compared yet (their order
                       \* is left out: whether one of them passes does not depend on it)
          expected, actual, pos, at, missing,   \* subsequence_match
          best,        \* whether a variant of this job has passed
          failures,    \* jobs that did not pass
          verdict

logVars   == <<line, traced, segments>>
matchVars == <<expected, actual, pos, at, missing>>
vars == <<request, phase, logVars, jobs, cursor, candidates, matchVars, best, failures, verdict>>

\* Formal modules that have accesses in some branch: the others are not loaded.
NonEmpty(r, m) == r.variants[m] \ {<<>>}
Loaded(r)      == {m \in Name : NonEmpty(r, m) # {}}

\* legacy_report: interrupt paths are not checked, others if they are asked for.
Checkable(r) == {m \in Loaded(r) \ IrqNames : r.exercised = {} \/ m \in r.exercised}

Init == /\ request \in Requests /\ phase = "parse"
        /\ line = 1 /\ traced = <<>> /\ segments = <<>>
        /\ jobs = <<>> /\ cursor = 1 /\ candidates = {}
        /\ expected = <<>> /\ actual = <<>> /\ pos = 1 /\ at = 1 /\ missing = <<>>
        /\ best = FALSE /\ failures = 0 /\ verdict = "none"

\* parse_trace: a function mark opens a segment; an access before the first one
\* counts as traced but belongs to no call.
ReadLine ==
    /\ phase = "parse" /\ line <= Len(request.log)
    /\ line' = line + 1
    /\ LET entry == request.log[line] IN
       IF entry.fn
       THEN /\ segments' = Append(segments, [function |-> entry.name, ops |-> <<>>])
            /\ UNCHANGED traced
       ELSE /\ traced' = Append(traced, entry.op)
            /\ segments' = [i \in DOMAIN segments |->
                                IF i = Len(segments)
                                THEN [segments[i] EXCEPT !.ops = Append(@, entry.op)]
                                ELSE segments[i]]
    /\ UNCHANGED <<request, phase, jobs, cursor, candidates, matchVars, best, failures, verdict>>

Verdict(v) == /\ phase' = "done" /\ verdict' = v
              /\ UNCHANGED <<request, logVars, jobs, cursor, candidates, matchVars, best, failures>>

\* exact_call_report and legacy_report refuse what they cannot judge.
Refuse ==
    /\ phase = "parse" /\ line > Len(request.log) /\ request.mode = "calls"
    /\ \/ \E i \in DOMAIN request.calls : request.calls[i][1] \notin Loaded(request)
       \/ \E i \in DOMAIN request.calls : request.calls[i][1] \in request.untraceable
       \/ segments = <<>>
    /\ Verdict("fail")

NothingTraced ==
    /\ phase = "parse" /\ line > Len(request.log) /\ request.mode = "modules"
    /\ Checkable(request) # {} /\ traced = <<>>
    /\ Verdict("fail")

Vacuous ==
    /\ phase = "parse" /\ line > Len(request.log) /\ request.mode = "modules"
    /\ Checkable(request) = {}
    /\ Verdict("ok")

StartCalls ==
    /\ phase = "parse" /\ line > Len(request.log) /\ request.mode = "calls"
    /\ segments # <<>>
    /\ \A i \in DOMAIN request.calls : request.calls[i][1] \in Loaded(request) \ request.untraceable
    /\ phase' = "find" /\ jobs' = request.calls
    /\ UNCHANGED <<request, logVars, cursor, candidates, matchVars, best, failures, verdict>>

StartModules ==
    /\ phase = "parse" /\ line > Len(request.log) /\ request.mode = "modules"
    /\ Checkable(request) # {} /\ traced # <<>>
    /\ phase' = "find"
    /\ jobs' \in {s \in [1..Cardinality(Checkable(request)) -> Checkable(request) \X Checkable(request)] :
                      {s[i] : i \in DOMAIN s} = {<<m, m>> : m \in Checkable(request)}}
    /\ UNCHANGED <<request, logVars, cursor, candidates, matchVars, best, failures, verdict>>

\* MUTANT: the search for each call starts at the first segment.
FindCallMutant ==
    /\ phase = "find" /\ request.mode = "calls" /\ jobs # <<>>
    /\ LET fits == {i \in DOMAIN segments : segments[i].function = Head(jobs)[2]}
       IN  IF fits = {}
           THEN /\ cursor' = Len(segments) + 1 /\ phase' = "judge"
                /\ UNCHANGED <<candidates, actual>>
           ELSE \E i \in fits :
                /\ \A j \in fits : i <= j
                /\ cursor' = i + 1 /\ phase' = "variant"
                /\ candidates' = NonEmpty(request, Head(jobs)[1])
                /\ actual' = segments[i].ops
    /\ best' = FALSE
    /\ UNCHANGED <<request, logVars, jobs, expected, pos, at, missing, failures, verdict>>

\* The next segment of the function that was expected to be called, if any.
FindCall ==
    /\ phase = "find" /\ request.mode = "calls" /\ jobs # <<>>
    /\ LET fits == {i \in DOMAIN segments : i >= cursor /\ segments[i].function = Head(jobs)[2]}
       IN  IF fits = {}
           THEN /\ cursor' = Len(segments) + 1 /\ phase' = "judge"
                /\ UNCHANGED <<candidates, actual>>
           ELSE \E i \in fits :
                /\ \A j \in fits : i <= j
                /\ cursor' = i + 1 /\ phase' = "variant"
                /\ candidates' = NonEmpty(request, Head(jobs)[1])
                /\ actual' = segments[i].ops
    /\ best' = FALSE
    /\ UNCHANGED <<request, logVars, jobs, expected, pos, at, missing, failures, verdict>>

FindModule ==
    /\ phase = "find" /\ request.mode = "modules" /\ jobs # <<>>
    /\ candidates' = NonEmpty(request, Head(jobs)[1])
    /\ actual' = traced /\ best' = FALSE /\ phase' = "variant"
    /\ UNCHANGED <<request, logVars, jobs, cursor, expected, pos, at, missing, failures, verdict>>

\* MUTANT: the accesses missing from one variant are held against the next.
NextVariantMutant ==
    /\ phase = "variant"
    /\ \E v \in candidates : expected' = v /\ candidates' = candidates \ {v}
    /\ pos' = 1 /\ at' = 1 /\ missing' = missing /\ phase' = "match"
    /\ UNCHANGED <<request, logVars, jobs, cursor, actual, best, failures, verdict>>

\* MUTANT: positions start at zero.
NextVariantZero ==
    /\ phase = "variant"
    /\ \E v \in candidates : expected' = v /\ candidates' = candidates \ {v}
    /\ pos' = 0 /\ at' = 0 /\ missing' = <<>> /\ phase' = "match"
    /\ UNCHANGED <<request, logVars, jobs, cursor, actual, best, failures, verdict>>

NextVariant ==
    /\ phase = "variant"
    /\ \E v \in candidates : expected' = v /\ candidates' = candidates \ {v}
    /\ pos' = 1 /\ at' = 1 /\ missing' = <<>> /\ phase' = "match"
    /\ UNCHANGED <<request, logVars, jobs, cursor, actual, best, failures, verdict>>

\* MUTANT: an access that was used is not passed.
MatchItemMutant ==
    /\ phase = "match" /\ pos <= Len(expected)
    /\ at <= Len(actual) /\ actual[at] = expected[pos]
    /\ pos' = pos + 1 /\ at' = at
    /\ UNCHANGED <<request, phase, logVars, jobs, cursor, candidates, expected, actual, missing,
                   best, failures, verdict>>

\* subsequence_match: one access is compared, passed over, or found missing.
MatchItem ==
    /\ phase = "match" /\ pos <= Len(expected)
    /\ at <= Len(actual) /\ actual[at] = expected[pos]
    /\ pos' = pos + 1 /\ at' = at + 1
    /\ UNCHANGED <<request, phase, logVars, jobs, cursor, candidates, expected, actual, missing,
                   best, failures, verdict>>

\* MUTANT: the cursor stays where it is.
SkipItemMutant ==
    /\ phase = "match" /\ pos <= Len(expected)
    /\ at <= Len(actual) /\ actual[at] # expected[pos]
    /\ UNCHANGED vars

SkipItem ==
    /\ phase = "match" /\ pos <= Len(expected)
    /\ at <= Len(actual) /\ actual[at] # expected[pos]
    /\ at' = at + 1
    /\ UNCHANGED <<request, phase, logVars, jobs, cursor, candidates, expected, actual, pos,
                   missing, best, failures, verdict>>

MissItem ==
    /\ phase = "match" /\ pos <= Len(expected) /\ at > Len(actual)
    /\ missing' = Append(missing, expected[pos]) /\ pos' = pos + 1
    /\ UNCHANGED <<request, phase, logVars, jobs, cursor, candidates, expected, actual, at,
                   best, failures, verdict>>

\* The best variant counts: one without missing accesses, if there is one.
EndVariant ==
    /\ phase = "match" /\ pos > Len(expected)
    /\ best' = (best \/ missing = <<>>) /\ phase' = "variant"
    /\ UNCHANGED <<request, logVars, jobs, cursor, candidates, matchVars, failures, verdict>>

EndVariants ==
    /\ phase = "variant" /\ candidates = {}
    /\ phase' = "judge"
    /\ UNCHANGED <<request, logVars, jobs, cursor, candidates, matchVars, best, failures, verdict>>


Judge ==
    /\ phase = "judge" /\ jobs # <<>>
    /\ failures' = IF best THEN failures ELSE failures + 1
    /\ jobs' = Tail(jobs) /\ phase' = "find"
    /\ UNCHANGED <<request, logVars, cursor, candidates, matchVars, best, verdict>>

Report == /\ phase = "find" /\ jobs = <<>>
          /\ Verdict(IF failures = 0 THEN "ok" ELSE "fail")

Next == \/ ReadLine \/ Refuse \/ NothingTraced \/ Vacuous \/ StartCalls \/ StartModules
        \/ FindCall \/ FindModule \/ NextVariant \/ MatchItem \/ SkipItem \/ MissItem
        \/ EndVariant \/ EndVariants \/ Judge \/ Report
Spec == Init /\ [][Next]_vars /\ WF_vars(Next)
-----------------------------------------------------------------------------
(***************************************************************************)
(* What a verdict means                                                    *)
(***************************************************************************)
InOrder(f)       == \A i, j \in DOMAIN f : i < j => f[i] < f[j]
Follows(f, e, a) == InOrder(f) /\ \A i \in DOMAIN f : a[f[i]] = e[i]
Embeds(e, a)     == \E f \in [DOMAIN e -> DOMAIN a] : Follows(f, e, a)

LogTypes   == /\ request \in Requests
              /\ line \in Nat \ {0} /\ traced \in Seq(Access)
              /\ segments \in Seq(Segment)
JobTypes   == /\ jobs \in Seq(Name \X Name) /\ cursor \in Nat \ {0}
              /\ candidates \subseteq Seq(Access)
MatchTypes == /\ expected \in Seq(Access) /\ actual \in Seq(Access) /\ missing \in Seq(Access)
              /\ pos \in Nat \ {0} /\ at \in Nat \ {0}
TypeOK     == /\ LogTypes /\ JobTypes /\ MatchTypes
              /\ phase \in {"parse", "find", "variant", "match", "judge", "done"}
              /\ best \in BOOLEAN /\ failures \in Nat /\ verdict \in {"none", "ok", "fail"}

\* subsequence_match goes through the trace once and never back, and yet finds
\* the expected accesses in it exactly when they are there in this order.
MatchIsExact ==
    phase = "match" /\ pos > Len(expected) => (missing = <<>> <=> Embeds(expected, actual))

Passes(m, a) == \E v \in NonEmpty(request, m) : Embeds(v, a)

\* Expected calls may be given to segments that follow one another as the
\* calls do, each a call of the right function that makes the accesses of some
\* branch of the module.
Realises(i, call) == segments[i].function = call[2] /\ Passes(call[1], segments[i].ops)
Served(g)         == InOrder(g) /\ \A i \in DOMAIN g : Realises(g[i], request.calls[i])
CallsRealised     == \E g \in [DOMAIN request.calls -> DOMAIN segments] : Served(g)

\* "TRACE_MATCH_OK" is printed only for logs in which every expected call (or
\* every module that was to be checked) is realised, and no segment serves two
\* calls.
OkMeansRealised ==
    verdict = "ok" =>
        IF request.mode = "calls" THEN CallsRealised
        ELSE \A m \in Checkable(request) : Passes(m, traced)

\* When no function ran twice, "TRACE_MATCH_FAIL" is not a false alarm: some
\* call is not realised, or cannot be judged, as no log without a function mark
\* is, even if no call was expected (a list of separators only).
RanOnce == \A i, j \in DOMAIN segments : i # j => segments[i].function # segments[j].function
FailMeansMissing ==
    verdict = "fail" /\ request.mode = "calls" /\ RanOnce
    => \/ ~CallsRealised
       \/ segments = <<>>
       \/ \E i \in DOMAIN request.calls : request.calls[i][1] \in request.untraceable

Terminates == <>(phase = "done")
=============================================================================
