------------------------------ MODULE Extraction ------------------------------
(***************************************************************************)
(* A process that calls extract_ris (extractor.py) again and again while   *)
(* others edit its inputs: the cache and its key, the compile context      *)
(* (compile_context.py, tu.py), the alias analysis and its modes           *)
(* (alias.py), and the parts of several units put together.                *)
(*                                                                         *)
(* A file has a content and a modification time; an edit between any two   *)
(* steps of a call gives it a new one. What libclang, clang and SVF make   *)
(* of a content is left out: a result names the contents it was made from. *)
(***************************************************************************)
EXTENDS ManifestMerge

CONSTANTS Source,       \* C files
          Contents,     \* what each file may contain,
          Initially,    \* what they may contain at first
          Listed,       \* the sources a manifest of some content lists
          Covered,      \* the sources a compile database of some content covers
          Programs(_),  \* what units of some contents may define
          MaxEdits, MaxCalls

Modes    == {"off", "auto", "required"}
C(s)     == <<"source", s>>
Cmd(s)   == <<"cmd", s>>
Manifest == <<"manifest", "">>
Database == <<"database", "">>
Tools    == <<"tools", "">>
\* The build root: kernel/build or REHARNESS_KERNEL_BUILD. Without it, what the
\* linux tree as a build root has for a source, from either kind of file.
Kbuild   == <<"kbuild", "">>
Tree(s)  == <<"tree", s>>
File     == {C(s) : s \in Source} \cup {Cmd(s) : s \in Source} \cup {Tree(s) : s \in Source}
            \cup {Manifest, Database, Tools, Kbuild}

\* The .cmd files of the build root are there only when it is.
ASSUME ContentsAssumption ==
    /\ DOMAIN Contents = File
    /\ \A is \in Initially :
          /\ DOMAIN is = File /\ \A f \in File : is[f] \in Contents[f]
          /\ is[Kbuild] = "absent" => \A s \in Source : is[Cmd(s)] = "absent"
    /\ \A m \in Contents[Manifest] : Listed[m] \in Seq(Source) \ {<<>>}
    /\ \A d \in Contents[Database] \ {"absent"} : Covered[d] \subseteq Source

\* The file a row of SVF names may be none, and is otherwise a source.
ASSUME SourceAssumption == IsFiniteSet(Source) /\ None \notin Source

\* Units define functions and constants; a row of SVF names the file it comes from
\* or none.
ASSUME ProgramsAssumption ==
    \A m \in Contents[Manifest] :
        \A texts \in [DOMAIN Listed[m] -> UNION {Contents[f] : f \in File}] :
            \A program \in Programs(texts) :
                /\ program.funcs \in Seq([name : Seq(STRING), static : BOOLEAN, stem : STRING])
                /\ \A i \in DOMAIN program.funcs : program.funcs[i].name # Unnamed
                /\ program.constants \in Seq(Range(program.constants))
                /\ DOMAIN program.lvalue = Source
                /\ \A row \in program.rows : row.file \in {None, row.true}

VARIABLES disk,      \* content and modification time of each file
          edits, calls,
          pc, call,  \* the call that is running: its options and sources
          key,       \* its cache key, so far
          work,      \* its result, so far
          built,     \* what the units of this call define, and what came of it
          cache,     \* key and result of earlier calls
          answer,    \* what the last call returned
          calm       \* no file was edited since the last call began
vars == <<disk, edits, calls, pc, call, key, work, built, cache, answer, calm>>

NoWork == [text |-> <<>>, parsed |-> <<>>, context |-> <<>>, bitcode |-> <<>>, alias |-> "off"]
NoKey  == [sources |-> <<>>, mtimes |-> <<>>, identity |-> <<>>, rest |-> <<>>]
NoCall == [context |-> "off", alias |-> "off", sources |-> <<>>]
NotBuilt == [program |-> <<>>]
Failed   == [NoWork EXCEPT !.alias = "error"]

Init ==
    /\ \E is \in Initially : disk = [f \in File |-> [is |-> is[f], at |-> 1]]
    /\ edits = 0 /\ calls = 0 /\ pc = "idle" /\ call = NoCall /\ key = NoKey /\ work = NoWork
    /\ built = NotBuilt /\ cache = {} /\ answer = Failed /\ calm = TRUE

\* Files appear and change. They are not removed: the time of an absent file is
\* 0 whenever it was removed, and tells no two removals apart.
Edit(f) ==
    /\ edits < MaxEdits
    /\ f \in {Cmd(s) : s \in Source} => disk[Kbuild].is # "absent"
    /\ \E c \in Contents[f] \ {disk[f].is, "absent"} :
          disk' = [disk EXCEPT ![f] = [is |-> c, at |-> edits + 2]]
    /\ edits' = edits + 1 /\ calm' = FALSE
    /\ UNCHANGED <<calls, pc, call, key, work, built, cache, answer>>
-----------------------------------------------------------------------------
(***************************************************************************)
(* A call                                                                  *)
(***************************************************************************)
Returns(result) == pc' = "returned" /\ answer' = result /\ key' = NoKey /\ work' = NoWork
Mtime(f)  == IF disk[f].is = "absent" THEN 0 ELSE disk[f].at
Next1(seq) == call.sources[Len(seq) + 1]

\* resolve_compile_context: the database, then what the build root has.
Resolved(s, built_by) ==
    IF call.context = "off" THEN "fallback"
    ELSE IF disk[Database].is # "absent" /\ s \in Covered[disk[Database].is] THEN disk[Database].is
    ELSE IF disk[built_by].is \notin {"absent", "unparsable"} THEN disk[built_by].is
    ELSE "fallback"
Refused(s, built_by) ==
    call.context = "required" /\ Resolved(s, built_by) = "fallback" /\ disk[built_by].is = "absent"

\* The parse and the cache key know one build root only, the bitcode two.
BitcodeRoot(s) == IF disk[Kbuild].is = "absent" THEN Tree(s) ELSE Cmd(s)

\* The manifest is read; what it says is part of the key.
Request ==
    /\ pc \in {"idle", "returned"} /\ calls < MaxCalls /\ calls' = calls + 1
    /\ \E context, alias \in Modes :
          call' = [context |-> context, alias |-> alias, sources |-> Listed[disk[Manifest].is]]
    /\ pc' = "stat" /\ key' = NoKey /\ work' = NoWork /\ answer' = Failed /\ calm' = TRUE
    /\ UNCHANGED <<disk, edits, built, cache>>

StatSource ==
    /\ pc = "stat" /\ Len(key.mtimes) < Len(call.sources)
    /\ key' = [key EXCEPT !.mtimes = Append(@, Mtime(C(Next1(@))))]
    /\ UNCHANGED <<disk, edits, calls, pc, call, work, built, cache, answer, calm>>

\* compile_context_identity and alias_configuration_key.
Identity(s) == IF call.context = "off" THEN <<>> ELSE <<Mtime(Database), Mtime(Cmd(s))>>

\* MUTANT: a call that requires aliases takes what an auto call has stored.
RestMutant == <<call.context, IF call.alias = "off" THEN 0 ELSE Mtime(Tools)>>

Rest == <<call.context, call.alias, IF call.alias = "off" THEN 0 ELSE Mtime(Tools)>>

StatContext ==
    /\ pc = "stat" /\ Len(key.mtimes) = Len(call.sources) /\ Len(key.identity) < Len(call.sources)
    /\ key' = [key EXCEPT !.identity = Append(@, Identity(Next1(@)))]
    /\ UNCHANGED <<disk, edits, calls, pc, call, work, built, cache, answer, calm>>

Keyed ==
    /\ pc = "stat" /\ Len(key.identity) = Len(call.sources)
    /\ key' = [key EXCEPT !.sources = call.sources, !.rest = Rest]
    /\ pc' = "lookup"
    /\ UNCHANGED <<disk, edits, calls, call, work, built, cache, answer, calm>>

Hit ==
    /\ pc = "lookup" /\ \E entry \in cache : entry.key = key /\ Returns(entry.result)
    /\ UNCHANGED <<disk, edits, calls, call, built, cache, calm>>

Miss ==
    /\ pc = "lookup" /\ \A entry \in cache : entry.key # key
    /\ pc' = "read"
    /\ UNCHANGED <<disk, edits, calls, call, key, work, built, cache, answer, calm>>

\* The text of a source is read; then libclang reads the file again.
Read ==
    /\ pc = "read" /\ Len(work.text) < Len(call.sources)
    /\ work' = [work EXCEPT !.text = Append(@, disk[C(Next1(@))].is)]
    /\ pc' = "parse"
    /\ UNCHANGED <<disk, edits, calls, call, key, built, cache, answer, calm>>

Parse ==
    /\ pc = "parse"
    /\ LET s == Next1(work.parsed) IN
       /\ ~Refused(s, Cmd(s))
       /\ work' = [work EXCEPT !.parsed = Append(@, disk[C(s)].is), !.context = Append(@, Resolved(s, Cmd(s)))]
    /\ pc' = IF Len(work.parsed) + 1 < Len(call.sources) THEN "read"
             ELSE IF call.alias = "off" THEN "build" ELSE "bitcode"
    /\ UNCHANGED <<disk, edits, calls, call, key, built, cache, answer, calm>>

Refuse ==
    /\ pc = "parse" /\ Refused(Next1(work.parsed), Cmd(Next1(work.parsed))) /\ Returns(Failed)
    /\ UNCHANGED <<disk, edits, calls, call, built, cache, calm>>

\* find_mmio_aliases: clang reads each source once more, in a context resolved by
\* now and from its own build root; then the units are linked and analysed. Each
\* tool may fail or run into its timeout.
Bitcode ==
    /\ pc = "bitcode" /\ disk[Tools].is # "absent" /\ Len(work.bitcode) < Len(call.sources)
    /\ LET s == Next1(work.bitcode) IN
       /\ ~Refused(s, BitcodeRoot(s))
       /\ work' = [work EXCEPT !.bitcode = Append(@, <<disk[C(s)].is, Resolved(s, BitcodeRoot(s))>>)]
    /\ UNCHANGED <<disk, edits, calls, pc, call, key, built, cache, answer, calm>>

Analysed ==
    /\ pc = "bitcode" /\ Len(work.bitcode) = Len(call.sources)
    /\ work' = [work EXCEPT !.alias = "success"] /\ pc' = "build"
    /\ UNCHANGED <<disk, edits, calls, call, key, built, cache, answer, calm>>

\* A result of several units says of every failure the same.
Reported(status) == IF Len(call.sources) > 1 THEN "degraded" ELSE status
Failure(status) ==
    /\ \/ call.alias = "required" /\ Returns(Failed)
       \/ /\ call.alias = "auto" /\ pc' = "build"
          /\ work' = [work EXCEPT !.alias = Reported(status), !.bitcode = <<>>]
          /\ UNCHANGED <<answer, key>>
    /\ UNCHANGED <<disk, edits, calls, call, built, cache, calm>>
ToolsMissing   == pc = "bitcode" /\ work.bitcode = <<>> /\ disk[Tools].is = "absent" /\ Failure("missing_tools")
AnalysisFailed == pc = "bitcode" /\ disk[Tools].is # "absent" /\ Failure("failed")

\* The script that sets the environment of the tools runs into its timeout outside
\* of find_mmio_aliases' try: extract_ris catches that, and the status is what it
\* was before the analysis.
EnvironmentFailed ==
    pc = "bitcode" /\ work.bitcode = <<>> /\ disk[Tools].is # "absent" /\ Failure("off")

\* What the units define is put together; two external functions of one name
\* end the call.
AfterNames(names) == IF Unnamed \in Range(names) THEN "name" ELSE "store"
Build ==
    /\ pc = "build"
    /\ \E program \in Programs(work.parsed) :
          \/ LinkConflicts(program.funcs) # {} /\ Returns(Failed) /\ built' = built
          \/ /\ LinkConflicts(program.funcs) = {}
             /\ built' = [program |-> program, names |-> OwnNames(program.funcs),
                            constants |-> Merged(program.constants), warned |-> Warned(program.constants),
                            aliases |-> IF work.alias = "success" THEN Aliases(program.rows, program.lvalue) ELSE {}]
             /\ pc' = AfterNames(built'.names) /\ UNCHANGED <<answer, key, work>>
    /\ UNCHANGED <<disk, edits, calls, call, cache, calm>>

\* Every static function whose name another function has too gets one of its own.
Name ==
    /\ pc = "name"
    /\ \E i \in Turns(built.program.funcs, built.names) :
          built' = [built EXCEPT !.names[i] = OwnName(built.program.funcs, built.names, i)]
    /\ pc' = AfterNames(built'.names)
    /\ UNCHANGED <<disk, edits, calls, call, key, work, cache, answer, calm>>

\* MUTANT: the key is what the files are when the result is stored.
StoreMutant ==
    /\ pc = "store"
    /\ cache' = cache \cup {[key |-> [key EXCEPT !.mtimes = [i \in DOMAIN call.sources |-> Mtime(C(call.sources[i]))]],
                             result |-> work]}
    /\ built' = NotBuilt /\ Returns(work)
    /\ UNCHANGED <<disk, edits, calls, call, calm>>

Store ==
    /\ pc = "store"
    /\ cache' = cache \cup {[key |-> key, result |-> work]}
    /\ built' = NotBuilt /\ Returns(work)
    /\ UNCHANGED <<disk, edits, calls, call, calm>>

Step == \/ Request \/ StatSource \/ StatContext \/ Keyed \/ Hit \/ Miss \/ Read \/ Parse \/ Refuse
        \/ Bitcode \/ Analysed \/ ToolsMissing \/ AnalysisFailed \/ EnvironmentFailed \/ Build \/ Name \/ Store
Next == Step \/ \E f \in File : Edit(f)
Spec == Init /\ [][Next]_vars
-----------------------------------------------------------------------------
Answered == pc = "returned" /\ answer # Failed

\* The build root of the bitcode of s is that of its parse, or does not matter.
OneRoot(s) ==
    call.context = "off" \/ Resolved(s, Cmd(s)) # "fallback" \/ disk[Kbuild] = [is |-> "there", at |-> 1]

\* A cached result is as good as a new one: if no file changed while the call
\* ran, whether it was a hit or a miss, the result is made from the files as they
\* are, in the context they now have, however earlier calls raced with edits; a
\* call that would now be refused gets none. A bitcode has that context unless the parse fell back while there was a second
\* build root (OneContext, BitcodeIsFresh).
Fresh ==
    Answered /\ calm =>
        LET sources == Listed[disk[Manifest].is] IN
        /\ answer.text = [i \in DOMAIN sources |-> disk[C(sources[i])].is] /\ answer.parsed = answer.text
        /\ answer.context = [i \in DOMAIN sources |-> Resolved(sources[i], Cmd(sources[i]))]
        /\ \A i \in DOMAIN sources : ~Refused(sources[i], Cmd(sources[i]))
        /\ answer.alias = "success" => \A i \in DOMAIN sources :
              /\ answer.bitcode[i][1] = answer.parsed[i]
              /\ OneRoot(sources[i]) => answer.bitcode[i][2] = answer.context[i]
        /\ IF disk[Tools].is = "absent"
           THEN answer.alias = IF call.alias = "off" THEN "off" ELSE Reported("missing_tools")
           ELSE answer.alias # "missing_tools"

\* A mode is honoured whatever was stored before: "required" aliases are the
\* linked result of all units, "off" is off. The status "off" of an analysis that
\* failed occurs with one source only (AutoIsReported).
ModesHonoured ==
    Answered =>
        /\ call.alias = "required" => answer.alias = "success"
        /\ call.alias = "off" => answer.alias = "off"
        /\ answer.alias = "off" /\ Len(call.sources) > 1 => call.alias = "off"
        /\ answer.alias = "success" => Len(answer.bitcode) = Len(call.sources)
        /\ call.context = "off" => Range(answer.context) = {"fallback"}

\* No two functions of a manifest end up as one module, and an external function
\* keeps the name the linker knows.
NamesUnique ==
    pc = "store" =>
        LET funcs == built.program.funcs IN
        /\ \A i, j \in DOMAIN funcs : built.names[i] = built.names[j] => i = j
        /\ \A i \in DOMAIN funcs : ~funcs[i].static => built.names[i] = funcs[i].name

\* The order of the sources changes a constant only with a warning.
OrderOnlyWithWarning ==
    pc = "store" =>
        \A k \in DOMAIN built.constants :
            k \notin built.warned => built.constants[k] = Merged(Reverse(built.program.constants))[k]

\* A row of SVF that comes from an assignment in a source, with its file named or
\* left out, never makes a pointer of another source an alias.
AliasesTrue ==
    pc = "store" =>
        \A row \in built.program.rows : \A a \in AliasOf(row, built.program.lvalue) :
            row.true \in AssignedOn(built.program.lvalue, row.line) => a[1] = row.true

\* Merging the units of a manifest makes nothing one that was two.
MergeIsFaithful == NamesUnique /\ OrderOnlyWithWarning /\ AliasesTrue

\* alias.py:162 says that the analysis does not look at another program than the
\* parse: with no file edited, bitcode and parse have the same context.
OneContext ==
    Answered /\ edits = 0 /\ answer.alias = "success" =>
        \A i \in DOMAIN answer.bitcode : answer.bitcode[i][2] = answer.context[i]

\* docs/zero-shot-generalization-v1.md:43 says that the times of the .cmd files in
\* the cache key prevent results of an old context: the bitcode's is the one it
\* would have now, also where that comes from the linux tree.
BitcodeIsFresh ==
    Answered /\ calm /\ answer.alias = "success" /\ disk[Kbuild].is = "absent" =>
        \A i \in DOMAIN answer.bitcode :
            answer.bitcode[i][2] = Resolved(call.sources[i], BitcodeRoot(call.sources[i]))

\* tests/test_extractor.py:2654 says that auto mode reports a failure of the tools:
\* no call that asked for aliases is told that they were off.
AutoIsReported == Answered /\ call.alias = "auto" => answer.alias # "off"

\* alias.py:447 says that only rows without a file are looked up by line: a row
\* that names its source makes no pointer of another source an alias.
NamedRowsStay ==
    pc = "store" =>
        \A a \in built.aliases : \E row \in built.program.rows : row.file \in {None, a[1]}

\* PROMPT.md:17 says that "required" must fail when no context is found.
RequiredHasContext ==
    Answered /\ call.context = "required" => "fallback" \notin Range(answer.context)
=============================================================================
