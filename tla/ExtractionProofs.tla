--------------------------- MODULE ExtractionProofs ---------------------------
(***************************************************************************)
(* ModesHonoured, Fresh and MergeIsFaithful of Extraction, for every set   *)
(* of sources and contents and for any number of calls and edits. What     *)
(* they do not claim, the bitcode of a second build root and the status of *)
(* a failed environment, the code does not keep (OneContext,               *)
(* BitcodeIsFresh and AutoIsReported are violated).                        *)
(*                                                                         *)
(* The argument is about a key and a result, of the running call or in the *)
(* cache: wherever the key still says what the files say now, the result   *)
(* was made from what they contain now. An edit takes a time that no key   *)
(* holds, so it can only make this vacuous.                                *)
(***************************************************************************)
EXTENDS Extraction, SequenceTheorems, FiniteSetTheorems, WellFoundedInduction, TLAPS

Content == UNION {Contents[f] : f \in File}
Context == Content \cup {"fallback"}
Disk    == {d \in [File -> [is : Content, at : Nat \ {0}]] :
               /\ \A f \in File : d[f].is \in Contents[f]
               /\ d[Kbuild].is = "absent" => \A s \in Source : d[Cmd(s)].is = "absent"}
Call    == [context : Modes, alias : Modes, sources : Seq(Source)]
Identities == {<<>>} \cup Nat \X Nat
Key     == [sources : Seq(Source), mtimes : Seq(Nat), identity : Seq(Identities),
            rest : {<<>>} \cup Modes \X Modes \X Nat]
Status  == {"off", "success", "failed", "missing_tools", "degraded"}
Work    == [text : Seq(Content), parsed : Seq(Content), context : Seq(Context),
            bitcode : Seq(Content \X Context), alias : Status]
Places  == {"idle", "returned", "stat", "lookup", "read", "parse", "bitcode", "build", "name", "store"}

\* Mtime, Resolved, Refused, OneRoot, Identity and Reported, of a disk and a call that are named.
MtimeOn(d, f) == IF d[f].is = "absent" THEN 0 ELSE d[f].at
ResolvedOn(d, c, s, b) ==
    IF c.context = "off" THEN "fallback"
    ELSE IF d[Database].is # "absent" /\ s \in Covered[d[Database].is] THEN d[Database].is
    ELSE IF d[b].is \notin {"absent", "unparsable"} THEN d[b].is
    ELSE "fallback"
ContextOn(d, c, s) == ResolvedOn(d, c, s, Cmd(s))
RefusedOn(d, c, s) ==
    c.context = "required" /\ ContextOn(d, c, s) = "fallback" /\ d[Cmd(s)].is = "absent"
OneRootOn(d, c, s) ==
    c.context = "off" \/ ContextOn(d, c, s) # "fallback" \/ d[Kbuild] = [is |-> "there", at |-> 1]
ReportedOn(c, status) == IF Len(c.sources) > 1 THEN "degraded" ELSE status
IdentityOn(d, c, s) ==
    IF c.context = "off" THEN <<>> ELSE <<MtimeOn(d, Database), MtimeOn(d, Cmd(s))>>
RestOn(d, c) == <<c.context, c.alias, IF c.alias = "off" THEN 0 ELSE MtimeOn(d, Tools)>>

Edited(d, e, d2) ==
    \E f \in File :
        /\ f \in {Cmd(s) : s \in Source} => d[Kbuild].is # "absent"
        /\ \E is \in Contents[f] \ {"absent"} : d2 = [d EXCEPT ![f] = [is |-> is, at |-> e + 1]]

\* No time in a key is later than e.
Bounded(k, e) ==
    /\ \A i \in DOMAIN k.mtimes : k.mtimes[i] <= e
    /\ \A i \in DOMAIN k.identity : k.identity[i] # <<>> => k.identity[i][1] <= e /\ k.identity[i][2] <= e
    /\ k.rest # <<>> => k.rest[3] <= e

SameText(d, c, k, i)    == i \in DOMAIN k.mtimes /\ k.mtimes[i] = MtimeOn(d, C(c.sources[i]))
SameContext(d, c, k, i) == i \in DOMAIN k.identity /\ k.identity[i] = IdentityOn(d, c, c.sources[i])

\* A result is from the files as they are, where the key is.
Fits(d, c, k, w) ==
    \A i \in DOMAIN c.sources :
        /\ SameText(d, c, k, i) =>
              /\ i \in DOMAIN w.text => w.text[i] = d[C(c.sources[i])].is
              /\ i \in DOMAIN w.parsed => w.parsed[i] = d[C(c.sources[i])].is
        /\ SameContext(d, c, k, i) =>
              /\ i \in DOMAIN w.context =>
                    w.context[i] = ContextOn(d, c, c.sources[i]) /\ ~RefusedOn(d, c, c.sources[i])
              /\ i \in DOMAIN w.bitcode /\ OneRootOn(d, c, c.sources[i]) =>
                    w.bitcode[i][2] = ContextOn(d, c, c.sources[i])
        /\ SameText(d, c, k, i) =>
              (i \in DOMAIN w.bitcode => w.bitcode[i][1] = d[C(c.sources[i])].is)

ToolsSay(d, c, alias) ==
    IF d[Tools].is = "absent" THEN alias = IF c.alias = "off" THEN "off" ELSE ReportedOn(c, "missing_tools")
    ELSE alias # "missing_tools"
ToolsFit(d, c, k, w) == k.rest = RestOn(d, c) => ToolsSay(d, c, w.alias)

\* What a call that asked for c may store.
Honoured(c, w) ==
    /\ Len(w.text) = Len(c.sources) /\ Len(w.parsed) = Len(c.sources) /\ Len(w.context) = Len(c.sources)
    /\ c.alias = "required" => w.alias = "success"
    /\ c.alias = "off" => w.alias = "off"
    /\ w.alias = "off" /\ Len(c.sources) > 1 => c.alias = "off"
    /\ w.alias = "success" => Len(w.bitcode) = Len(c.sources)
    /\ c.context = "off" => \A i \in DOMAIN w.context : w.context[i] = "fallback"

KeyOf(c, k) ==
    /\ k.sources = c.sources /\ c.sources # <<>>
    /\ Len(k.mtimes) = Len(c.sources) /\ Len(k.identity) = Len(c.sources)
    /\ k.rest # <<>> /\ k.rest[1] = c.context /\ k.rest[2] = c.alias

CallOf(k) == [context |-> k.rest[1], alias |-> k.rest[2], sources |-> k.sources]

\* Everything known of a stored key and result.
Kept(d, e, k, w) ==
    /\ k \in Key /\ w \in Work /\ Bounded(k, e) /\ KeyOf(CallOf(k), k)
    /\ Honoured(CallOf(k), w) /\ Fits(d, CallOf(k), k, w) /\ ToolsFit(d, CallOf(k), k, w)

\* As long as no file changed, the key of the running call says what is there.
Current(d, c, k) ==
    /\ c.sources = Listed[d[Manifest].is]
    /\ \A i \in DOMAIN k.mtimes : SameText(d, c, k, i)
    /\ \A i \in DOMAIN k.identity : SameContext(d, c, k, i)
    /\ k.rest # <<>> => k.rest = RestOn(d, c)

TypeOK ==
    /\ disk \in Disk /\ edits \in Nat /\ calls \in Nat /\ pc \in Places /\ call \in Call
    /\ key \in Key /\ work \in Work /\ calm \in BOOLEAN
    /\ \A f \in File : disk[f].at <= edits + 1
    /\ Bounded(key, edits + 1)

CacheInv == \A entry \in cache : Kept(disk, edits + 1, entry.key, entry.result)

\* How far a call has come, by where it is.
Progress ==
    LET n == Len(call.sources) IN
    /\ pc \notin {"idle", "returned"} => n > 0
    /\ pc = "stat" => /\ work = NoWork /\ key.rest = <<>>
                      /\ Len(key.mtimes) <= n /\ Len(key.identity) <= n
                      /\ Len(key.identity) > 0 => Len(key.mtimes) = n
    /\ pc \in {"lookup", "read", "parse", "bitcode", "build", "name", "store"} => KeyOf(call, key)
    /\ pc = "lookup" => work = NoWork
    /\ pc \in {"read", "parse"} =>
          /\ work.bitcode = <<>> /\ work.alias = "off" /\ Len(work.parsed) < n
          /\ Len(work.context) = Len(work.parsed)
          /\ Len(work.text) = Len(work.parsed) + (IF pc = "parse" THEN 1 ELSE 0)
    /\ pc = "bitcode" =>
          /\ Len(work.text) = n /\ Len(work.parsed) = n /\ Len(work.context) = n
          /\ call.alias # "off" /\ Len(work.bitcode) <= n
          /\ work.bitcode # <<>> => disk[Tools].is # "absent"
    /\ pc \notin {"idle", "returned"} /\ call.context = "off" =>
          \A i \in DOMAIN work.context : work.context[i] = "fallback"
    /\ pc \in {"build", "name", "store"} => Honoured(call, work) /\ ToolsFit(disk, call, key, work)

Running == pc \notin {"idle", "returned"} =>
    Fits(disk, call, key, work) /\ (calm => Current(disk, call, key))

AnswerInv == pc = "returned" /\ answer # Failed => answer \in Work /\ Honoured(call, answer) /\ call.sources # <<>>

Inv == TypeOK /\ CacheInv /\ Progress /\ Running /\ AnswerInv /\ Fresh

(***************************************************************************)
(* Disks                                                                   *)
(***************************************************************************)
LEMMA FileNames ==
  /\ Manifest \in File /\ Database \in File /\ Tools \in File /\ Kbuild \in File
  /\ \A s \in Source : C(s) \in File /\ Cmd(s) \in File /\ Tree(s) \in File
BY DEF File

LEMMA OnDisk ==
  /\ \A f \in File : Mtime(f) = MtimeOn(disk, f)
  /\ \A s \in Source : \A b \in File : Resolved(s, b) = ResolvedOn(disk, call, s, b)
  /\ \A s \in Source : OneRoot(s) = OneRootOn(disk, call, s)
  /\ \A s \in Source : Refused(s, Cmd(s)) = RefusedOn(disk, call, s)
  /\ \A s \in Source : Identity(s) = IdentityOn(disk, call, s)
  /\ Rest = RestOn(disk, call)
  /\ \A status : Reported(status) = ReportedOn(call, status)
BY FileNames DEF Mtime, MtimeOn, Resolved, ResolvedOn, Refused, RefusedOn, OneRoot, OneRootOn, ContextOn, Identity, IdentityOn,
                 Rest, RestOn, Reported, ReportedOn

LEMMA Times ==
  ASSUME NEW d \in Disk, NEW f \in File
  PROVE  MtimeOn(d, f) \in Nat /\ MtimeOn(d, f) <= d[f].at
BY DEF Disk, MtimeOn

LEMMA Contexts ==
  ASSUME NEW d \in Disk, NEW c, NEW s \in Source
  PROVE  /\ \A b \in File : ResolvedOn(d, c, s, b) \in Context
         /\ IdentityOn(d, c, s) \in Identities
         /\ d[C(s)].is \in Content
<1> USE DEF Identities
<1>1. ASSUME NEW f \in File PROVE d[f].is \in Content
  BY DEF Disk, Content
<1>2. \A b \in File : ResolvedOn(d, c, s, b) \in Context
  BY <1>1, FileNames DEF ResolvedOn, Context
<1>3. IdentityOn(d, c, s) \in Identities
  BY Times, FileNames DEF IdentityOn
<1> QED BY <1>1, <1>2, <1>3, FileNames

\* An edit takes a time that no key holds: where a key still fits, the file is
\* the one it was.
LEMMA EditDisk ==
  ASSUME NEW d \in Disk, NEW e \in Nat, \A g \in File : d[g].at <= e,
         NEW d2, Edited(d, e, d2)
  PROVE  /\ d2 \in Disk
         /\ \A g \in File : d2[g].at <= e + 1
         /\ \A g \in File : \A t \in Nat : t <= e /\ t = MtimeOn(d2, g) => d2[g] = d[g]
         /\ \A g \in File : d[g].is # "absent" => d2[g].is # "absent"
         /\ \A g \in File : d2[g] = d[g] \/ d2[g].at = e + 1
<1>a. PICK f \in File :
        /\ f \in {Cmd(s) : s \in Source} => d[Kbuild].is # "absent"
        /\ \E is \in Contents[f] \ {"absent"} : d2 = [d EXCEPT ![f] = [is |-> is, at |-> e + 1]]
  BY DEF Edited
<1>b. PICK is \in Contents[f] \ {"absent"} : d2 = [d EXCEPT ![f] = [is |-> is, at |-> e + 1]]
  BY <1>a
<1>1. d2 \in [File -> [is : Content, at : Nat \ {0}]]
  BY <1>b DEF Disk, Content
<1>2. d2[f] = [is |-> is, at |-> e + 1] /\ \A g \in File \ {f} : d2[g] = d[g]
  BY <1>b DEF Disk
<1>3. d2 \in Disk
  <2>1. ASSUME d2[Kbuild].is = "absent", NEW s \in Source PROVE d2[Cmd(s)].is = "absent"
    <3>1. d2[Kbuild] = d[Kbuild]
      BY <1>2, <2>1, FileNames
    <3>2. f # Cmd(s) /\ d[Cmd(s)].is = "absent"
      BY <1>a, <2>1, <3>1 DEF Disk
    <3> QED BY <1>2, <3>2, FileNames
  <2> QED BY <1>1, <1>2, <2>1 DEF Disk
<1>4. MtimeOn(d2, f) = e + 1
  BY <1>2 DEF MtimeOn
<1>5. \A g \in File : d2[g].at <= e + 1
  <2> TAKE g \in File
  <2>1. d[g].at \in Nat /\ d[g].at <= e
    BY DEF Disk
  <2> QED BY <1>2, <2>1
<1>6. \A g \in File : \A t \in Nat : t <= e /\ t = MtimeOn(d2, g) => d2[g] = d[g]
  BY <1>2, <1>4
<1>7. \A g \in File : /\ d[g].is # "absent" => d2[g].is # "absent"
                      /\ d2[g] = d[g] \/ d2[g].at = e + 1
  BY <1>2
<1> QED BY <1>3, <1>5, <1>6, <1>7

LEMMA EditIdentity ==
  ASSUME NEW d \in Disk, NEW e \in Nat, NEW d2 \in Disk, NEW c \in Call, NEW s \in Source,
         \A g \in File : \A t \in Nat : t <= e /\ t = MtimeOn(d2, g) => d2[g] = d[g],
         NEW i \in Identities, i # <<>> => i[1] <= e /\ i[2] <= e,
         i = IdentityOn(d2, c, s)
  PROVE  /\ i = IdentityOn(d, c, s) /\ ContextOn(d2, c, s) = ContextOn(d, c, s)
         /\ RefusedOn(d2, c, s) = RefusedOn(d, c, s)
<1> USE DEF Identities, ContextOn, RefusedOn
<1>1. CASE c.context = "off"
  BY <1>1 DEF IdentityOn, ResolvedOn
<1>2. CASE c.context # "off"
  <2>1. i = <<MtimeOn(d2, Database), MtimeOn(d2, Cmd(s))>>
    BY <1>2 DEF IdentityOn
  <2>2. MtimeOn(d2, Database) \in Nat /\ MtimeOn(d2, Cmd(s)) \in Nat
    BY Times, FileNames
  <2>3. MtimeOn(d2, Database) <= e /\ MtimeOn(d2, Cmd(s)) <= e
    BY <2>1
  <2>4. d2[Database] = d[Database] /\ d2[Cmd(s)] = d[Cmd(s)]
    BY <2>2, <2>3, FileNames
  <2> QED BY <1>2, <2>4 DEF IdentityOn, ResolvedOn, MtimeOn
<1> QED BY <1>1, <1>2

LEMMA EditFits ==
  ASSUME NEW d \in Disk, NEW e \in Nat \ {0}, NEW d2 \in Disk, NEW c \in Call, NEW k \in Key, NEW w,
         \A g \in File : \A t \in Nat : t <= e /\ t = MtimeOn(d2, g) => d2[g] = d[g],
         \A g \in File : d2[g] = d[g] \/ d2[g].at = e + 1,
         Bounded(k, e), Fits(d, c, k, w)
  PROVE  Fits(d2, c, k, w)
<1> SUFFICES ASSUME NEW i \in DOMAIN c.sources
             PROVE  LET f == C(c.sources[i]) IN
                    /\ SameText(d2, c, k, i) => SameText(d, c, k, i) /\ d2[f] = d[f]
                    /\ SameContext(d2, c, k, i) =>
                          /\ SameContext(d, c, k, i)
                          /\ ContextOn(d2, c, c.sources[i]) = ContextOn(d, c, c.sources[i])
                          /\ RefusedOn(d2, c, c.sources[i]) = RefusedOn(d, c, c.sources[i])
                          /\ OneRootOn(d2, c, c.sources[i]) => OneRootOn(d, c, c.sources[i])
  BY Zenon DEF Fits
<1>1. c.sources[i] \in Source
  BY DEF Call
<1>2. ASSUME SameText(d2, c, k, i)
      PROVE  SameText(d, c, k, i) /\ d2[C(c.sources[i])] = d[C(c.sources[i])]
  <2>1. i \in DOMAIN k.mtimes /\ k.mtimes[i] \in Nat /\ k.mtimes[i] <= e
    BY <1>2 DEF SameText, Key, Bounded
  <2>2. k.mtimes[i] = MtimeOn(d2, C(c.sources[i]))
    BY <1>2 DEF SameText
  <2>3. d2[C(c.sources[i])] = d[C(c.sources[i])]
    BY <1>1, <2>1, <2>2, FileNames
  <2> QED BY <2>1, <2>2, <2>3 DEF SameText, MtimeOn
<1>3. ASSUME SameContext(d2, c, k, i)
      PROVE  /\ SameContext(d, c, k, i)
             /\ ContextOn(d2, c, c.sources[i]) = ContextOn(d, c, c.sources[i])
             /\ RefusedOn(d2, c, c.sources[i]) = RefusedOn(d, c, c.sources[i])
             /\ OneRootOn(d2, c, c.sources[i]) => OneRootOn(d, c, c.sources[i])
  <2>1. /\ i \in DOMAIN k.identity /\ k.identity[i] \in Identities
        /\ k.identity[i] # <<>> => k.identity[i][1] <= e /\ k.identity[i][2] <= e
    BY <1>3 DEF SameContext, Key, Bounded
  <2>2. k.identity[i] = IdentityOn(d2, c, c.sources[i])
    BY <1>3 DEF SameContext
  <2>3. /\ k.identity[i] = IdentityOn(d, c, c.sources[i])
        /\ ContextOn(d2, c, c.sources[i]) = ContextOn(d, c, c.sources[i])
        /\ RefusedOn(d2, c, c.sources[i]) = RefusedOn(d, c, c.sources[i])
    BY <1>1, <2>1, <2>2, EditIdentity
  <2>4. d2[Kbuild] = [is |-> "there", at |-> 1] => d[Kbuild] = d2[Kbuild]
    BY FileNames
  <2> QED BY <2>1, <2>3, <2>4 DEF SameContext, OneRootOn
<1> QED BY <1>2, <1>3

LEMMA EditTools ==
  ASSUME NEW d \in Disk, NEW e \in Nat, NEW d2 \in Disk, NEW c \in Call, NEW k \in Key, NEW w,
         \A g \in File : \A t \in Nat : t <= e /\ t = MtimeOn(d2, g) => d2[g] = d[g],
         Bounded(k, e), ToolsFit(d, c, k, w), c.alias = "off" => w.alias = "off"
  PROVE  ToolsFit(d2, c, k, w)
<1>1. CASE c.alias = "off"
  BY <1>1 DEF ToolsFit, ToolsSay
<1>2. CASE c.alias # "off"
  <2> SUFFICES ASSUME k.rest = RestOn(d2, c)
               PROVE  k.rest = RestOn(d, c) /\ d2[Tools] = d[Tools]
    BY DEF ToolsFit, ToolsSay
  <2>1. k.rest[3] = MtimeOn(d2, Tools) /\ k.rest # <<>>
    BY <1>2 DEF RestOn
  <2>2. k.rest[3] \in Nat /\ k.rest[3] <= e
    BY <2>1, Times, FileNames DEF Bounded
  <2>3. d2[Tools] = d[Tools]
    BY <2>1, <2>2, FileNames
  <2> QED BY <2>3 DEF RestOn, MtimeOn
<1> QED BY <1>1, <1>2

LEMMA CallOfKey ==
  ASSUME NEW c \in Call, NEW k \in Key, KeyOf(c, k)
  PROVE  CallOf(k) = c /\ CallOf(k) \in Call
BY DEF Call, Key, KeyOf, CallOf

LEMMA LaterBound ==
  ASSUME NEW k \in Key, NEW e \in Nat, Bounded(k, e)
  PROVE  Bounded(k, e + 1)
BY DEF Key, Bounded, Identities

(***************************************************************************)
(* The steps of a call                                                     *)
(***************************************************************************)
LEMMA InitInv == Init => Inv
<1> SUFFICES ASSUME Init PROVE Inv
  OBVIOUS
<1>1. disk \in Disk /\ \A f \in File : disk[f].at = 1
  <2>1. PICK is \in Initially : disk = [f \in File |-> [is |-> is[f], at |-> 1]]
    BY DEF Init
  <2>2. \A f \in File : is[f] \in Contents[f] /\ is[f] \in Content
    BY ContentsAssumption DEF Content
  <2>3. is[Kbuild] = "absent" => \A s \in Source : is[Cmd(s)] = "absent"
    BY ContentsAssumption
  <2> QED BY <2>1, <2>2, <2>3, FileNames DEF Disk
<1>2. TypeOK
  BY <1>1 DEF Init, TypeOK, Places, Call, NoCall, Modes, Key, NoKey, Work, NoWork, Status, Bounded
<1> QED BY <1>2 DEF Init, Inv, CacheInv, Progress, Running, AnswerInv, Fresh, Answered

\* A step that leaves the files, the cache and the answer alone and does not
\* end the call.
LEMMA QuietStep ==
  ASSUME Inv, UNCHANGED <<disk, edits, cache>>, pc' # "returned",
         TypeOK', Progress', Running'
  PROVE  Inv'
BY DEF Inv, CacheInv, AnswerInv, Fresh, Answered

LEMMA RequestStep == Inv /\ Request => Inv'
<1> SUFFICES ASSUME Inv, Request PROVE Inv'
  OBVIOUS
<1> USE DEF Inv
<1>1. PICK context \in Modes, alias \in Modes :
        call' = [context |-> context, alias |-> alias, sources |-> Listed[disk[Manifest].is]]
  BY DEF Request
<1>2. Listed[disk[Manifest].is] \in Seq(Source) \ {<<>>}
  BY FileNames, ContentsAssumption DEF TypeOK, Disk
<1>3. UNCHANGED <<disk, edits, cache>> /\ pc' = "stat" /\ key' = NoKey /\ work' = NoWork /\ calm' = TRUE
      /\ calls' = calls + 1
  BY DEF Request
<1>4. TypeOK'
  BY <1>1, <1>2, <1>3 DEF TypeOK, Places, Call, Key, NoKey, Work, NoWork, Status, Bounded
<1>5. Progress'
  BY <1>1, <1>2, <1>3 DEF Progress, NoWork, NoKey
<1>6. Running'
  BY <1>1, <1>2, <1>3 DEF Running, Fits, Current, SameText, SameContext, NoWork, NoKey
<1> QED BY <1>3, <1>4, <1>5, <1>6, QuietStep

LEMMA StatSourceStep == Inv /\ StatSource => Inv'
<1> SUFFICES ASSUME Inv, StatSource PROVE Inv'
  OBVIOUS
<1> USE DEF Inv
<1> DEFINE n == Len(key.mtimes) + 1
           t == Mtime(C(call.sources[n]))
<1>1. /\ UNCHANGED <<disk, edits, cache, calls, pc, call, work, calm>> /\ pc = "stat"
      /\ key' = [key EXCEPT !.mtimes = Append(@, t)] /\ n <= Len(call.sources)
  BY DEF StatSource, Next1, TypeOK, Key
<1>2. n \in DOMAIN call.sources /\ call.sources[n] \in Source
  BY <1>1 DEF TypeOK, Key, Call
<1>3. t = MtimeOn(disk, C(call.sources[n])) /\ t \in Nat /\ t <= edits + 1
  <2>1. t \in Nat /\ t <= disk[C(call.sources[n])].at
    BY <1>2, OnDisk, Times, FileNames DEF TypeOK
  <2>2. disk[C(call.sources[n])].at <= edits + 1 /\ disk[C(call.sources[n])].at \in Nat
    BY <1>2, FileNames DEF TypeOK, Disk
  <2> QED BY <1>2, <2>1, <2>2, OnDisk, FileNames DEF TypeOK
<1> HIDE DEF t
<1>4. /\ key' \in Key /\ key'.mtimes \in Seq(Nat) /\ Len(key'.mtimes) = n
      /\ key'.identity = key.identity /\ key'.rest = key.rest
      /\ key'.mtimes[n] = t /\ \A i \in 1..n-1 : key'.mtimes[i] = key.mtimes[i]
  <2>1. /\ Append(key.mtimes, t) \in Seq(Nat) /\ Len(Append(key.mtimes, t)) = n
        /\ Append(key.mtimes, t)[n] = t /\ \A i \in 1..n-1 : Append(key.mtimes, t)[i] = key.mtimes[i]
    BY <1>3 DEF TypeOK, Key
  <2>2. key' \in Key /\ key'.mtimes = Append(key.mtimes, t) /\ key'.identity = key.identity /\ key'.rest = key.rest
    BY <1>1, <2>1 DEF TypeOK, Key
  <2> QED BY <2>1, <2>2
<1>5. DOMAIN key.mtimes = 1..n-1 /\ DOMAIN key'.mtimes = 1..n
  BY <1>4 DEF TypeOK, Key
<1>6. Bounded(key', edits + 1)
  <2>1. Bounded(key, edits + 1)
    BY DEF TypeOK
  <2>2. \A i \in DOMAIN key'.mtimes : key'.mtimes[i] <= edits + 1
    <3> SUFFICES ASSUME NEW i \in 1..n PROVE key'.mtimes[i] <= edits + 1
      BY <1>5
    <3>1. CASE i = n
      BY <1>3, <1>4, <3>1
    <3>2. CASE i # n
      <4>1. i \in 1..n-1 /\ i \in DOMAIN key.mtimes
        BY <1>5, <3>2
      <4> QED BY <1>4, <2>1, <4>1, Zenon DEF Bounded
    <3> QED BY <3>1, <3>2
  <2> QED BY <1>4, <2>1, <2>2, Zenon DEF Bounded
<1>7. TypeOK'
  BY <1>1, <1>4, <1>6 DEF TypeOK
<1>8. Progress'
  BY <1>1, <1>4 DEF Progress
<1>9. Running'
  <2>1. Fits(disk, call, key', work)
    BY <1>1 DEF Fits, Progress, NoWork
  <2>2. ASSUME calm PROVE Current(disk, call, key')
    <3>1. Current(disk, call, key)
      BY <1>1, <2>2 DEF Running
    <3>2. ASSUME NEW i \in 1..n PROVE SameText(disk, call, key', i)
      <4>1. CASE i = n
        BY <1>3, <1>4, <1>5, <4>1 DEF SameText
      <4>2. CASE i # n
        <5>1. i \in 1..n-1 /\ i \in DOMAIN key.mtimes /\ i \in DOMAIN key'.mtimes
          BY <1>5, <4>2
        <5>2. SameText(disk, call, key, i)
          BY <3>1, <5>1, Zenon DEF Current
        <5> QED BY <1>4, <5>1, <5>2, Zenon DEF SameText
      <4> QED BY <4>1, <4>2
    <3> QED BY <1>4, <1>5, <3>1, <3>2, Zenon DEF Current, SameContext
  <2> QED BY <1>1, <2>1, <2>2 DEF Running
<1> QED BY <1>1, <1>7, <1>8, <1>9, QuietStep

LEMMA Appending ==
  ASSUME NEW S, NEW s \in Seq(S), NEW t \in S
  PROVE  /\ Append(s, t) \in Seq(S) /\ Len(Append(s, t)) = Len(s) + 1
         /\ DOMAIN s = 1..Len(s) /\ DOMAIN Append(s, t) = 1..Len(s) + 1 /\ Len(s) \in Nat
         /\ Append(s, t)[Len(s) + 1] = t /\ \A i \in 1..Len(s) : Append(s, t)[i] = s[i]
OBVIOUS

LEMMA StatContextStep == Inv /\ StatContext => Inv'
<1> SUFFICES ASSUME Inv, StatContext PROVE Inv'
  OBVIOUS
<1> USE DEF Inv
<1> DEFINE n == Len(key.identity) + 1
           t == Identity(call.sources[n])
<1>1. /\ UNCHANGED <<disk, edits, cache, calls, pc, call, work, calm>> /\ pc = "stat"
      /\ key' = [key EXCEPT !.identity = Append(@, t)] /\ n <= Len(call.sources)
      /\ Len(key.mtimes) = Len(call.sources)
  BY DEF StatContext, Next1, TypeOK, Key
<1>2. n \in DOMAIN call.sources /\ call.sources[n] \in Source
  BY <1>1 DEF TypeOK, Key, Call
<1>3. /\ t = IdentityOn(disk, call, call.sources[n]) /\ t \in Identities
      /\ t # <<>> => t[1] <= edits + 1 /\ t[2] <= edits + 1
  <2>1. t = IdentityOn(disk, call, call.sources[n])
    BY <1>2, OnDisk
  <2>2. \A f \in File : MtimeOn(disk, f) \in Nat /\ MtimeOn(disk, f) <= edits + 1
    <3> TAKE f \in File
    <3>1. MtimeOn(disk, f) \in Nat /\ MtimeOn(disk, f) <= disk[f].at
      BY Times DEF TypeOK
    <3>2. disk[f].at <= edits + 1 /\ disk[f].at \in Nat
      BY DEF TypeOK, Disk
    <3> QED BY <3>1, <3>2 DEF TypeOK
  <2>3. t \in Identities
    BY <1>2, <2>1, Contexts DEF TypeOK
  <2>4. CASE call.context = "off"
    BY <2>1, <2>3, <2>4 DEF IdentityOn
  <2>5. CASE call.context # "off"
    <3>1. t = <<MtimeOn(disk, Database), MtimeOn(disk, Cmd(call.sources[n]))>>
      BY <2>1, <2>5 DEF IdentityOn
    <3>2. /\ MtimeOn(disk, Database) <= edits + 1
          /\ MtimeOn(disk, Cmd(call.sources[n])) <= edits + 1
      BY <1>2, <2>2, FileNames
    <3> HIDE DEF t
    <3> QED BY <2>1, <2>3, <3>1, <3>2 DEF Identities
  <2> QED BY <2>4, <2>5
<1> HIDE DEF t
<1>4. /\ key' \in Key /\ Len(key'.identity) = n
      /\ key'.mtimes = key.mtimes /\ key'.rest = key.rest
      /\ key'.identity[n] = t /\ \A i \in 1..n-1 : key'.identity[i] = key.identity[i]
      /\ DOMAIN key.identity = 1..n-1 /\ DOMAIN key'.identity = 1..n
  <2>1. key.identity \in Seq(Identities)
    BY DEF TypeOK, Key
  <2>2. /\ Append(key.identity, t) \in Seq(Identities) /\ Len(Append(key.identity, t)) = n
        /\ Append(key.identity, t)[n] = t /\ \A i \in 1..n-1 : Append(key.identity, t)[i] = key.identity[i]
        /\ DOMAIN key.identity = 1..n-1 /\ DOMAIN Append(key.identity, t) = 1..n
    BY <1>3, <2>1, Appending
  <2>3. key' \in Key /\ key'.identity = Append(key.identity, t) /\ key'.mtimes = key.mtimes /\ key'.rest = key.rest
    BY <1>1, <2>2 DEF TypeOK, Key
  <2> QED BY <2>2, <2>3
<1>5. Bounded(key', edits + 1)
  <2>1. \A i \in DOMAIN key'.identity :
          key'.identity[i] # <<>> => key'.identity[i][1] <= edits + 1 /\ key'.identity[i][2] <= edits + 1
    <3> TAKE i \in DOMAIN key'.identity
    <3>1. CASE i = n
      <4>1. key'.identity[i] = t
        BY <1>4, <3>1
      <4> QED BY <1>3, <4>1, Zenon
    <3>2. CASE i # n
      <4>1. i \in DOMAIN key.identity /\ key'.identity[i] = key.identity[i]
        BY <1>4, <3>2 DEF TypeOK, Key
      <4> QED BY <4>1 DEF TypeOK, Bounded
    <3> QED BY <3>1, <3>2
  <2> QED BY <1>4, <2>1 DEF TypeOK, Bounded
<1>6. TypeOK'
  BY <1>1, <1>4, <1>5 DEF TypeOK
<1>7. Progress'
  BY <1>1, <1>4 DEF Progress
<1>8. Running'
  <2>1. Fits(disk, call, key', work)
    BY <1>1 DEF Fits, Progress, NoWork
  <2>2. ASSUME calm PROVE Current(disk, call, key')
    <3>1. Current(disk, call, key)
      BY <1>1, <2>2 DEF Running
    <3>2. ASSUME NEW i \in DOMAIN key'.identity PROVE SameContext(disk, call, key', i)
      <4>1. CASE i = n
        <5>1. key'.identity[i] = t
          BY <1>4, <4>1
        <5>2. t = IdentityOn(disk, call, call.sources[i])
          BY <1>3, <4>1
        <5> QED BY <5>1, <5>2, Zenon DEF SameContext
      <4>2. CASE i # n
        <5>1. i \in DOMAIN key.identity /\ key'.identity[i] = key.identity[i]
          BY <1>4, <4>2 DEF TypeOK, Key
        <5> QED BY <3>1, <5>1 DEF Current, SameContext
      <4> QED BY <4>1, <4>2
    <3> QED BY <1>4, <3>1, <3>2 DEF Current, SameText
  <2> QED BY <1>1, <2>1, <2>2 DEF Running
<1> QED BY <1>1, <1>6, <1>7, <1>8, QuietStep

LEMMA KeyedStep == Inv /\ Keyed => Inv'
<1> SUFFICES ASSUME Inv, Keyed PROVE Inv'
  OBVIOUS
<1> USE DEF Inv
<1>1. /\ UNCHANGED <<disk, edits, cache, calls, call, work, calm>> /\ pc = "stat" /\ pc' = "lookup"
      /\ key' = [key EXCEPT !.sources = call.sources, !.rest = Rest]
      /\ Len(key.mtimes) = Len(call.sources) /\ Len(key.identity) = Len(call.sources)
  <2>1. Len(key.mtimes) = Len(call.sources)
    BY DEF Keyed, Progress, TypeOK, Call
  <2> QED BY <2>1 DEF Keyed
<1>2. /\ Rest = RestOn(disk, call) /\ Rest \in Modes \X Modes \X Nat /\ Rest # <<>>
      /\ Rest[1] = call.context /\ Rest[2] = call.alias /\ Rest[3] <= edits + 1
  <2>1. MtimeOn(disk, Tools) \in Nat /\ MtimeOn(disk, Tools) <= disk[Tools].at
    BY Times, FileNames DEF TypeOK
  <2>2. disk[Tools].at <= edits + 1 /\ disk[Tools].at \in Nat
    BY FileNames DEF TypeOK, Disk
  <2>3. Rest = RestOn(disk, call)
    BY OnDisk
  <2>4. MtimeOn(disk, Tools) <= edits + 1
    BY <2>1, <2>2 DEF TypeOK
  <2> QED BY <2>1, <2>3, <2>4 DEF RestOn, TypeOK, Call
<1>3. /\ key' \in Key /\ key'.mtimes = key.mtimes /\ key'.identity = key.identity
      /\ key'.rest = Rest /\ key'.sources = call.sources
  BY <1>1, <1>2 DEF TypeOK, Key, Call
<1>4. Bounded(key', edits + 1)
  BY <1>2, <1>3 DEF TypeOK, Bounded
<1>5. TypeOK'
  BY <1>1, <1>3, <1>4 DEF TypeOK, Places
<1>6. Progress'
  BY <1>1, <1>2, <1>3 DEF Progress, KeyOf, TypeOK, Call
<1>7. Running'
  <2>1. Fits(disk, call, key', work)
    BY <1>1 DEF Fits, Progress, NoWork
  <2>2. calm => Current(disk, call, key')
    BY <1>1, <1>2, <1>3 DEF Running, Current, SameText, SameContext
  <2> QED BY <1>1, <2>1, <2>2 DEF Running
<1> QED BY <1>1, <1>5, <1>6, <1>7, QuietStep

LEMMA MissStep == Inv /\ Miss => Inv'
<1> SUFFICES ASSUME Inv, Miss PROVE Inv'
  OBVIOUS
<1> USE DEF Inv
<1>1. UNCHANGED <<disk, edits, cache, calls, call, work, key, calm>> /\ pc = "lookup" /\ pc' = "read"
  BY DEF Miss
<1>2. TypeOK'
  BY <1>1 DEF TypeOK, Places
<1>3. Progress'
  BY <1>1 DEF Progress, NoWork, TypeOK, Call
<1>4. Running'
  BY <1>1 DEF Running
<1> QED BY <1>1, <1>2, <1>3, <1>4, QuietStep

LEMMA ReadStep == Inv /\ Read => Inv'
<1> SUFFICES ASSUME Inv, Read PROVE Inv'
  OBVIOUS
<1> USE DEF Inv
<1> DEFINE n == Len(work.text) + 1
           s == call.sources[n]
           t == disk[C(s)].is
<1>1. /\ UNCHANGED <<disk, edits, cache, calls, key, call, calm>> /\ pc = "read" /\ pc' = "parse"
      /\ work' = [work EXCEPT !.text = Append(@, t)] /\ n <= Len(call.sources)
  BY DEF Read, Next1, TypeOK, Work
<1>2. n \in DOMAIN call.sources /\ s \in Source
  BY <1>1 DEF TypeOK, Work, Call
<1>3. t \in Content
  BY <1>2, Contexts DEF TypeOK
<1> HIDE DEF s, t
<1>4. /\ work' \in Work /\ work'.parsed = work.parsed /\ work'.context = work.context
      /\ work'.bitcode = work.bitcode /\ work'.alias = work.alias /\ work'.text = Append(work.text, t)
  BY <1>1, <1>3, Appending DEF TypeOK, Work
<1>5. /\ Len(work'.text) = n /\ work'.text[n] = t /\ DOMAIN work'.text = 1..n
      /\ \A i \in 1..n-1 : i \in DOMAIN work.text /\ work'.text[i] = work.text[i]
  BY <1>3, <1>4, Appending DEF TypeOK, Work
<1>6. TypeOK'
  BY <1>1, <1>4 DEF TypeOK, Places
<1>7. Progress'
  BY <1>1, <1>4, <1>5 DEF Progress, TypeOK, Work
<1>8. Fits(disk, call, key, work')
  <2>1. Fits(disk, call, key, work)
    BY <1>1 DEF Running
  <2>2. ASSUME NEW i \in DOMAIN work'.text, SameText(disk, call, key, i), i \in DOMAIN call.sources
        PROVE  work'.text[i] = disk[C(call.sources[i])].is
    <3>1. CASE i = n
      BY <1>5, <3>1 DEF s, t
    <3>2. CASE i # n
      <4>1. i \in DOMAIN work.text /\ work'.text[i] = work.text[i]
        BY <1>5, <3>2 DEF TypeOK, Work
      <4> QED BY <2>1, <2>2, <4>1 DEF Fits
    <3> QED BY <3>1, <3>2
  <2> QED BY <1>4, <2>1, <2>2, Zenon DEF Fits
<1>9. Running'
  BY <1>1, <1>8 DEF Running
<1> QED BY <1>1, <1>6, <1>7, <1>9, QuietStep

LEMMA ParseStep == Inv /\ Parse => Inv'
<1> SUFFICES ASSUME Inv, Parse PROVE Inv'
  OBVIOUS
<1> USE DEF Inv
<1> DEFINE n == Len(work.parsed) + 1
           s == call.sources[n]
           t == disk[C(s)].is
           r == Resolved(s, Cmd(s))
<1>1. /\ UNCHANGED <<disk, edits, cache, calls, key, call, calm>> /\ pc = "parse"
      /\ work' = [work EXCEPT !.parsed = Append(@, t), !.context = Append(@, r)]
      /\ n <= Len(call.sources) /\ ~Refused(s, Cmd(s))
      /\ pc' = IF n < Len(call.sources) THEN "read" ELSE IF call.alias = "off" THEN "build" ELSE "bitcode"
  BY DEF Parse, Next1, TypeOK, Work, Call, Progress
<1>2. n \in DOMAIN call.sources /\ s \in Source
  BY <1>1 DEF TypeOK, Work, Call
<1>3. t \in Content /\ r \in Context /\ r = ContextOn(disk, call, s)
  BY <1>2, Contexts, OnDisk, FileNames DEF TypeOK, ContextOn
<1>4. (call.context = "off" => r = "fallback") /\ ~RefusedOn(disk, call, s)
  BY <1>1, <1>2, <1>3, OnDisk DEF ContextOn, ResolvedOn
<1> HIDE DEF s, t, r
<1>5. /\ work' \in Work /\ work'.parsed = Append(work.parsed, t) /\ work'.context = Append(work.context, r)
      /\ work'.bitcode = work.bitcode /\ work'.alias = work.alias /\ work'.text = work.text
  <2>1. Append(work.parsed, t) \in Seq(Content) /\ Append(work.context, r) \in Seq(Context)
    BY <1>3, Appending DEF TypeOK, Work
  <2> QED BY <1>1, <2>1 DEF TypeOK, Work
<1>6. /\ Len(work'.parsed) = n /\ work'.parsed[n] = t /\ DOMAIN work'.parsed = 1..n
      /\ \A i \in 1..n-1 : i \in DOMAIN work.parsed /\ work'.parsed[i] = work.parsed[i]
  BY <1>3, <1>5, Appending DEF TypeOK, Work
<1>7. /\ Len(work'.context) = n /\ work'.context[n] = r /\ DOMAIN work'.context = 1..n
      /\ \A i \in 1..n-1 : i \in DOMAIN work.context /\ work'.context[i] = work.context[i]
  <2>1. Len(work.context) = Len(work.parsed) /\ Len(work.parsed) \in Nat
    BY <1>1 DEF Progress, TypeOK, Work
  <2> QED BY <1>3, <1>5, <2>1, Appending DEF TypeOK, Work
<1>8. TypeOK'
  BY <1>1, <1>5 DEF TypeOK, Places
<1>9. Progress'
  <2>1. /\ n \in Nat /\ Len(call.sources) \in Nat /\ Len(work.text) = n
        /\ work.bitcode = <<>> /\ work.alias = "off" /\ KeyOf(call, key)
    BY <1>1 DEF Progress, TypeOK, Work, Call
  <2>2. call.context = "off" => \A i \in DOMAIN work'.context : work'.context[i] = "fallback"
    <3> SUFFICES ASSUME call.context = "off", NEW i \in DOMAIN work'.context
                 PROVE  work'.context[i] = "fallback"
      OBVIOUS
    <3>1. CASE i = n
      BY <1>4, <1>7, <3>1
    <3>2. CASE i # n
      BY <1>1, <1>7, <3>2, <2>1 DEF Progress
    <3> QED BY <3>1, <3>2
  <2>3. pc' = "build" => Honoured(call, work') /\ ToolsFit(disk, call, key, work')
    <3> SUFFICES ASSUME pc' = "build"
                 PROVE  Honoured(call, work') /\ ToolsFit(disk, call, key, work')
      OBVIOUS
    <3>1. call.alias = "off" /\ n = Len(call.sources)
      BY <1>1, <2>1
    <3>2. Honoured(call, work')
      BY <1>5, <1>6, <1>7, <2>1, <2>2, <3>1 DEF Honoured
    <3> QED BY <1>5, <2>1, <3>1, <3>2 DEF ToolsFit, ToolsSay
  <2>4. Len(work'.bitcode) = 0
    BY <1>5, <2>1
  <2>5. pc' \in {"read", "build", "bitcode"} /\ (pc' = "read" => n < Len(call.sources))
        /\ (pc' = "bitcode" => n = Len(call.sources) /\ call.alias # "off")
    BY <1>1, <2>1
  <2>6. Len(call'.sources) > 0 /\ KeyOf(call', key')
    BY <1>1, <2>1 DEF Progress
  <2> HIDE DEF n
  <2> QED BY <1>1, <1>5, <1>6, <1>7, <2>1, <2>2, <2>3, <2>4, <2>5, <2>6 DEF Progress
<1>10. Fits(disk, call, key, work')
  <2>1. Fits(disk, call, key, work)
    BY <1>1 DEF Running
  <2>4. n \in Nat
    BY DEF TypeOK, Work
  <2>2. ASSUME NEW i \in DOMAIN work'.parsed, SameText(disk, call, key, i), i \in DOMAIN call.sources
        PROVE  work'.parsed[i] = disk[C(call.sources[i])].is
    <3>1. CASE i = n
      BY <1>6, <3>1 DEF s, t
    <3>2. CASE i # n
      <4>1. i \in DOMAIN work.parsed /\ work'.parsed[i] = work.parsed[i]
        BY <1>6, <3>2 DEF TypeOK, Work
      <4> QED BY <2>1, <2>2, <4>1 DEF Fits
    <3> QED BY <3>1, <3>2
  <2>3. ASSUME NEW i \in DOMAIN work'.context, SameContext(disk, call, key, i), i \in DOMAIN call.sources
        PROVE  work'.context[i] = ContextOn(disk, call, call.sources[i]) /\ ~RefusedOn(disk, call, call.sources[i])
    <3>1. CASE i = n
      BY <1>3, <1>4, <1>7, <3>1 DEF s
    <3>2. CASE i # n
      <4> HIDE DEF n
      <4>1. i \in DOMAIN work.context /\ work'.context[i] = work.context[i]
        BY ONLY <1>7, <2>4, <3>2, i \in DOMAIN work'.context
      <4> QED BY ONLY <2>1, SameContext(disk, call, key, i), i \in DOMAIN call.sources, <4>1, Zenon DEF Fits
    <3> QED BY <3>1, <3>2
  <2> QED BY <1>5, <2>1, <2>2, <2>3, Zenon DEF Fits
<1>11. Running'
  BY <1>1, <1>10 DEF Running
<1> QED
  <2>1. pc' # "returned"
    BY <1>1
  <2> QED BY <1>1, <1>8, <1>9, <1>11, <2>1, QuietStep

\* The two build roots agree where the parse did not fall back.
LEMMA RootAgrees ==
  ASSUME NEW d \in Disk, NEW c, NEW s \in Source, OneRootOn(d, c, s)
  PROVE  ResolvedOn(d, c, s, IF d[Kbuild].is = "absent" THEN Tree(s) ELSE Cmd(s)) = ContextOn(d, c, s)
<1>1. CASE d[Kbuild].is # "absent"
  BY <1>1 DEF ContextOn
<1>2. CASE d[Kbuild].is = "absent"
  <2>1. d[Cmd(s)].is = "absent"
    BY <1>2 DEF Disk
  <2> QED BY <1>2, <2>1 DEF OneRootOn, ContextOn, ResolvedOn
<1> QED BY <1>1, <1>2

LEMMA BitcodeStep == Inv /\ Bitcode => Inv'
<1> SUFFICES ASSUME Inv, Bitcode PROVE Inv'
  OBVIOUS
<1> USE DEF Inv
<1> DEFINE n == Len(work.bitcode) + 1
           s == call.sources[n]
           t == <<disk[C(s)].is, Resolved(s, BitcodeRoot(s))>>
<1>1. /\ UNCHANGED <<disk, edits, cache, calls, key, call, calm, pc>> /\ pc = "bitcode"
      /\ work' = [work EXCEPT !.bitcode = Append(@, t)] /\ n <= Len(call.sources)
      /\ disk[Tools].is # "absent"
  BY DEF Bitcode, Next1, TypeOK, Work
<1>2. n \in DOMAIN call.sources /\ s \in Source
  BY <1>1 DEF TypeOK, Work, Call
<1>3. /\ t \in Content \X Context /\ t[1] = disk[C(s)].is
      /\ OneRootOn(disk, call, s) => t[2] = ContextOn(disk, call, s)
  <2>1. BitcodeRoot(s) \in File
    BY <1>2, FileNames DEF BitcodeRoot
  <2>2. t = <<disk[C(s)].is, ResolvedOn(disk, call, s, BitcodeRoot(s))>>
    BY <1>2, <2>1, OnDisk
  <2>3. t \in Content \X Context
    BY <1>2, <2>1, <2>2, Contexts DEF TypeOK
  <2>4. OneRootOn(disk, call, s) => ResolvedOn(disk, call, s, BitcodeRoot(s)) = ContextOn(disk, call, s)
    BY <1>2, RootAgrees DEF TypeOK, BitcodeRoot
  <2> QED BY <2>2, <2>3, <2>4
<1> HIDE DEF s, t
<1>4. /\ work' \in Work /\ work'.parsed = work.parsed /\ work'.context = work.context
      /\ work'.text = work.text /\ work'.alias = work.alias /\ work'.bitcode = Append(work.bitcode, t)
  BY <1>1, <1>3, Appending DEF TypeOK, Work
<1>5. /\ Len(work'.bitcode) = n /\ work'.bitcode[n] = t /\ DOMAIN work'.bitcode = 1..n
      /\ \A i \in 1..n-1 : i \in DOMAIN work.bitcode /\ work'.bitcode[i] = work.bitcode[i]
  BY <1>3, <1>4, Appending DEF TypeOK, Work
<1>6. TypeOK'
  BY <1>1, <1>4 DEF TypeOK, Places
<1>7. Progress'
  BY <1>1, <1>4, <1>5 DEF Progress, TypeOK, Work
<1>8. Fits(disk, call, key, work')
  <2>1. Fits(disk, call, key, work)
    BY <1>1 DEF Running
  <2>2. ASSUME NEW i \in DOMAIN work'.bitcode, i \in DOMAIN call.sources
        PROVE  /\ SameText(disk, call, key, i) => work'.bitcode[i][1] = disk[C(call.sources[i])].is
               /\ SameContext(disk, call, key, i) /\ OneRootOn(disk, call, call.sources[i]) =>
                     work'.bitcode[i][2] = ContextOn(disk, call, call.sources[i])
    <3>1. CASE i = n
      BY <1>3, <1>5, <3>1 DEF s
    <3>2. CASE i # n
      <4>1. i \in DOMAIN work.bitcode /\ work'.bitcode[i] = work.bitcode[i]
        BY <1>5, <3>2 DEF TypeOK, Work
      <4> QED BY <2>1, <2>2, <4>1, Zenon DEF Fits
    <3> QED BY <3>1, <3>2
  <2> QED BY <1>4, <2>1, <2>2, Zenon DEF Fits
<1>9. Running'
  BY <1>1, <1>8 DEF Running
<1> QED BY <1>1, <1>6, <1>7, <1>9, QuietStep

\* The alias analysis is over, with a result or, where that is allowed, without.
LEMMA AliasStep ==
  ASSUME Inv, pc = "bitcode", pc' = "build", UNCHANGED <<disk, edits, cache, calls, key, call, calm>>,
         NEW status \in Status, NEW bitcode \in {work.bitcode, <<>>},
         work' = [work EXCEPT !.alias = status, !.bitcode = bitcode],
         status = "off" => Len(call.sources) = 1, call.alias = "required" => status = "success",
         status = "success" => Len(bitcode) = Len(call.sources),
         ToolsSay(disk, call, status)
  PROVE  Inv'
<1> USE DEF Inv
<1> DEFINE Linked == Seq(Content \X Context)
<1>0. bitcode \in Linked
  <2>1. <<>> \in Linked
    OBVIOUS
  <2> QED BY <2>1 DEF TypeOK, Work
<1>1. /\ work' \in Work /\ work'.text = work.text /\ work'.parsed = work.parsed
      /\ work'.context = work.context /\ work'.bitcode = bitcode /\ work'.alias = status
  <2> Work = [text : Seq(Content), parsed : Seq(Content), context : Seq(Context),
              bitcode : Linked, alias : Status]
    BY DEF Work
  <2> HIDE DEF Linked
  <2> QED BY <1>0 DEF TypeOK
<1>2. TypeOK'
  BY <1>1 DEF TypeOK, Places
<1>3. Honoured(call, work') /\ ToolsFit(disk, call, key, work')
  <2>1. /\ Len(work.text) = Len(call.sources) /\ Len(work.parsed) = Len(call.sources)
        /\ Len(work.context) = Len(call.sources) /\ call.alias # "off"
        /\ call.context = "off" => \A i \in DOMAIN work.context : work.context[i] = "fallback"
    BY DEF Progress
  <2>2. Honoured(call, work')
    <3>1. ~(work'.alias = "off" /\ Len(call.sources) > 1)
      <4>1. Len(call.sources) = 1 => ~(Len(call.sources) > 1)
        BY ONLY TRUE
      <4> QED BY ONLY <1>1, <4>1, status = "off" => Len(call.sources) = 1
    <3> QED BY ONLY <1>1, <2>1, <3>1, call.alias = "required" => status = "success",
                    status = "success" => Len(bitcode) = Len(call.sources), Zenon DEF Honoured
  <2> QED BY <1>1, <2>2, Zenon DEF ToolsFit
<1>4. Progress'
  BY <1>1, <1>3 DEF Progress, TypeOK, Work
<1>5. Fits(disk, call, key, work')
  <2>1. Fits(disk, call, key, work)
    BY DEF Running
  <2>2. \A i : i \in DOMAIN work'.bitcode => i \in DOMAIN work.bitcode /\ work'.bitcode = work.bitcode
    BY <1>1
  <2> QED BY <1>1, <2>1, <2>2, Zenon DEF Fits
<1>6. Running'
  BY <1>5 DEF Running
<1> QED BY <1>2, <1>4, <1>6, QuietStep

LEMMA FailStep ==
  ASSUME Inv, Returns(Failed), UNCHANGED <<disk, edits, cache, calls, call, calm>>
  PROVE  Inv'
<1> USE DEF Inv, Returns
<1>1. TypeOK'
  BY DEF TypeOK, Places, Key, NoKey, Work, NoWork, Status, Bounded
<1> QED BY <1>1 DEF CacheInv, Progress, Running, AnswerInv, Fresh, Answered

LEMMA AnalysedStep == Inv /\ Analysed => Inv'
<1> SUFFICES ASSUME Inv, Analysed PROVE Inv'
  OBVIOUS
<1>1. disk[Tools].is # "absent"
  BY DEF Inv, Analysed, Progress
<1>2. work' = [work EXCEPT !.alias = "success", !.bitcode = work.bitcode]
  BY DEF Analysed, Inv, TypeOK, Work
<1>3. \A b \in {work.bitcode, <<>>} : b = work.bitcode => Len(b) = Len(call.sources)
  BY DEF Analysed
<1>4. "success" \in Status /\ ToolsSay(disk, call, "success")
  BY <1>1 DEF Status, ToolsSay
<1> QED BY <1>1, <1>2, <1>3, <1>4, AliasStep DEF Analysed

LEMMA FailureStep ==
  ASSUME Inv, pc = "bitcode", NEW status \in {"failed", "missing_tools", "off"}, Failure(status),
         status = "missing_tools" <=> disk[Tools].is = "absent"
  PROVE  Inv'
<1>1. CASE call.alias = "required"
  BY <1>1, FailStep DEF Failure
<1>2. CASE call.alias # "required"
  <2> DEFINE said == Reported(status)
  <2>1. /\ call.alias = "auto" /\ pc' = "build"
        /\ work' = [work EXCEPT !.alias = said, !.bitcode = <<>>] /\ key' = key
        /\ UNCHANGED <<disk, edits, cache, calls, call, calm>>
    BY <1>2 DEF Failure
  <2>2. said \in Status /\ said # "success"
    BY DEF Status, Reported
  <2>3. said = "off" => Len(call.sources) = 1
    <3>1. Len(call.sources) \in Nat /\ Len(call.sources) > 0
      <4>1. call.sources \in Seq(Source)
        BY DEF Inv, TypeOK, Call
      <4>2. Len(call.sources) > 0
        BY DEF Inv, Progress
      <4> QED BY <4>1, <4>2
    <3> HIDE DEF said
    <3>2. Len(call.sources) > 1 => said = "degraded"
      BY DEF said, Reported
    <3>3. Len(call.sources) > 1 => said # "off"
      <4>1. "degraded" # "off"
        OBVIOUS
      <4> QED BY ONLY <3>2, <4>1, Zenon
    <3>4. Len(call.sources) = 1 \/ Len(call.sources) > 1
      <4>1. \A n \in Nat : n > 0 => n = 1 \/ n > 1
        BY ONLY TRUE
      <4> QED BY ONLY <3>1, <4>1, Zenon
    <3> QED BY ONLY <3>3, <3>4, Zenon
  <2>4. ToolsSay(disk, call, said)
    BY <2>1 DEF ToolsSay, Reported, ReportedOn
  <2> HIDE DEF said
  <2> QED BY <1>2, <2>1, <2>2, <2>3, <2>4, AliasStep
<1> QED BY <1>1, <1>2

LEMMA BuildStep == Inv /\ Build => Inv'
<1> SUFFICES ASSUME Inv, Build PROVE Inv'
  OBVIOUS
<1>1. UNCHANGED <<disk, edits, calls, call, cache, calm>> /\ pc = "build"
  BY DEF Build
<1>2. CASE Returns(Failed)
  BY <1>1, <1>2, FailStep
<1>3. CASE ~Returns(Failed)
  <2> USE DEF Inv
  <2>1. pc' \in {"name", "store"} /\ key' = key /\ work' = work
    BY <1>3 DEF Build, AfterNames
  <2>2. TypeOK'
    BY <1>1, <2>1 DEF TypeOK, Places
  <2>3. Progress'
    BY <1>1, <2>1 DEF Progress
  <2>4. Running'
    BY <1>1, <2>1 DEF Running
  <2> QED BY <1>1, <2>1, <2>2, <2>3, <2>4, QuietStep
<1> QED BY <1>2, <1>3

LEMMA NameStep == Inv /\ Name => Inv'
<1> SUFFICES ASSUME Inv, Name PROVE Inv'
  OBVIOUS
<1> USE DEF Inv
<1>1. UNCHANGED <<disk, edits, calls, call, key, work, cache, calm>> /\ pc = "name" /\ pc' \in {"name", "store"}
  BY DEF Name, AfterNames
<1>2. TypeOK'
  BY <1>1 DEF TypeOK, Places
<1>3. Progress'
  BY <1>1 DEF Progress
<1>4. Running'
  BY <1>1 DEF Running
<1> QED BY <1>1, <1>2, <1>3, <1>4, QuietStep

LEMMA SameFiles ==
  ASSUME UNCHANGED <<disk, call>>
  PROVE  /\ \A s, b : Resolved(s, b)' = Resolved(s, b) /\ Refused(s, b)' = Refused(s, b)
         /\ \A s : OneRoot(s)' = OneRoot(s)
         /\ \A status : Reported(status)' = Reported(status)
BY DEF Resolved, Refused, OneRoot, Reported

\* What is answered has been stored, or was when an equal call asked.
LEMMA AnswerStep ==
  ASSUME Inv, NEW w, Kept(disk, edits + 1, key, w), KeyOf(call, key),
         calm => Current(disk, call, key), w # Failed,
         Returns(w), UNCHANGED <<disk, edits, calls, call, calm>>, CacheInv'
  PROVE  Inv'
<1> USE DEF Inv, Returns
<1>1. TypeOK'
  BY DEF TypeOK, Places, Key, NoKey, Work, NoWork, Status, Bounded
<1>2. CallOf(key) = call
  BY CallOfKey DEF TypeOK
<1>3. w \in Work /\ Honoured(call, w) /\ Fits(disk, call, key, w) /\ ToolsFit(disk, call, key, w)
  BY <1>2 DEF Kept
<1>4. AnswerInv' /\ Progress' /\ Running'
  BY <1>3 DEF AnswerInv, Progress, Running, KeyOf
<1>5. Fresh'
  <2> DEFINE sources == Listed[disk[Manifest].is]
  <2> SUFFICES ASSUME calm
      PROVE /\ w.text = [i \in DOMAIN sources |-> disk[C(sources[i])].is] /\ w.parsed = w.text
            /\ w.context = [i \in DOMAIN sources |-> Resolved(sources[i], Cmd(sources[i]))]
            /\ \A i \in DOMAIN sources : ~Refused(sources[i], Cmd(sources[i]))
            /\ w.alias = "success" => \A i \in DOMAIN sources :
                  /\ w.bitcode[i][1] = w.parsed[i]
                  /\ OneRoot(sources[i]) => w.bitcode[i][2] = w.context[i]
            /\ ToolsSay(disk, call, w.alias)
    <3>1. /\ \A s, b : Resolved(s, b)' = Resolved(s, b) /\ Refused(s, b)' = Refused(s, b)
          /\ \A s : OneRoot(s)' = OneRoot(s)
          /\ \A status : Reported(status)' = ReportedOn(call, status)
      BY SameFiles DEF Reported, ReportedOn
    <3> QED BY <3>1, Zenon DEF Fresh, Answered, ToolsSay
  <2>1. Current(disk, call, key) /\ sources = call.sources
    BY DEF Current
  <2>2. DOMAIN sources = 1..Len(sources) /\ Len(sources) \in Nat /\ \A i \in DOMAIN sources : sources[i] \in Source
    BY <2>1 DEF TypeOK, Call
  <2> HIDE DEF sources
  <2>3. /\ DOMAIN w.text = DOMAIN sources /\ DOMAIN w.parsed = DOMAIN sources
        /\ DOMAIN w.context = DOMAIN sources
        /\ w.alias = "success" => DOMAIN w.bitcode = DOMAIN sources
    BY <1>3, <2>1, <2>2 DEF Honoured, Work
  <2>4. \A i \in DOMAIN sources : SameText(disk, call, key, i) /\ SameContext(disk, call, key, i)
    <3>1. DOMAIN key.mtimes = DOMAIN sources /\ DOMAIN key.identity = DOMAIN sources
      BY <2>1, <2>2 DEF KeyOf, TypeOK, Key
    <3> QED BY <2>1, <3>1 DEF Current
  <2>5. \A i \in DOMAIN sources :
          /\ w.text[i] = disk[C(sources[i])].is /\ w.parsed[i] = disk[C(sources[i])].is
          /\ w.context[i] = Resolved(sources[i], Cmd(sources[i])) /\ ~Refused(sources[i], Cmd(sources[i]))
          /\ w.alias = "success" => /\ w.bitcode[i][1] = w.parsed[i]
                                    /\ OneRoot(sources[i]) => w.bitcode[i][2] = w.context[i]
    <3> TAKE i \in DOMAIN sources
    <3>1. /\ Resolved(sources[i], Cmd(sources[i])) = ContextOn(disk, call, sources[i])
          /\ Refused(sources[i], Cmd(sources[i])) = RefusedOn(disk, call, sources[i])
          /\ OneRoot(sources[i]) = OneRootOn(disk, call, sources[i])
      BY <2>2, OnDisk, FileNames DEF ContextOn
    <3> QED BY <1>3, <2>1, <2>3, <2>4, <3>1, Zenon DEF Fits
  <2>6. /\ w.text = [i \in DOMAIN sources |-> disk[C(sources[i])].is]
        /\ w.parsed = [i \in DOMAIN sources |-> disk[C(sources[i])].is]
        /\ w.context = [i \in DOMAIN sources |-> Resolved(sources[i], Cmd(sources[i]))]
    BY <1>3, <2>3, <2>5 DEF Work
  <2>7. ToolsSay(disk, call, w.alias)
    BY <1>3, <2>1 DEF ToolsFit, Current, KeyOf
  <2> QED BY <2>5, <2>6, <2>7
<1> QED BY <1>1, <1>4, <1>5

LEMMA StoreStep == Inv /\ Store => Inv'
<1> SUFFICES ASSUME Inv, Store PROVE Inv'
  OBVIOUS
<1>1. /\ UNCHANGED <<disk, edits, calls, call, calm>> /\ pc = "store" /\ Returns(work)
      /\ cache' = cache \cup {[key |-> key, result |-> work]}
  BY DEF Store
<1>2. KeyOf(call, key) /\ CallOf(key) = call
  BY <1>1, CallOfKey DEF Inv, TypeOK, Progress
<1>3. Kept(disk, edits + 1, key, work)
  BY <1>1, <1>2 DEF Inv, Kept, TypeOK, Progress, Running
<1>4. work # Failed
  BY DEF Inv, TypeOK, Work, Status, Failed
<1>5. calm => Current(disk, call, key)
  BY <1>1 DEF Inv, Running
<1>6. CacheInv'
  BY <1>1, <1>3 DEF Inv, CacheInv
<1> QED BY <1>1, <1>2, <1>3, <1>4, <1>5, <1>6, AnswerStep

LEMMA HitStep == Inv /\ Hit => Inv'
<1> SUFFICES ASSUME Inv, Hit PROVE Inv'
  OBVIOUS
<1>1. UNCHANGED <<disk, edits, calls, call, calm, cache>> /\ pc = "lookup"
  BY DEF Hit
<1>2. PICK entry \in cache : entry.key = key /\ Returns(entry.result)
  BY DEF Hit
<1>3. Kept(disk, edits + 1, key, entry.result)
  BY <1>2 DEF Inv, CacheInv
<1>4. KeyOf(call, key)
  BY <1>1 DEF Inv, Progress
<1>5. entry.result # Failed
  BY <1>3 DEF Kept, Work, Status, Failed
<1>6. calm => Current(disk, call, key)
  BY <1>1 DEF Inv, Running
<1>7. CacheInv'
  BY <1>1 DEF Inv, CacheInv
<1> QED BY <1>1, <1>2, <1>3, <1>4, <1>5, <1>6, <1>7, AnswerStep

LEMMA EditStep == Inv /\ (\E f \in File : Edit(f)) => Inv'
<1> SUFFICES ASSUME Inv, NEW f \in File, Edit(f) PROVE Inv'
  OBVIOUS
<1> DEFINE e == edits + 1
<1>1. /\ UNCHANGED <<calls, pc, call, key, work, cache, answer>> /\ calm' = FALSE /\ edits' = e
  BY DEF Edit
<1>2. Edited(disk, e, disk')
  <2>1. e + 1 = edits + 2
    BY DEF Inv, TypeOK
  <2> QED BY <2>1 DEF Edit, Edited
<1>3. e \in Nat \ {0} /\ disk \in Disk /\ \A g \in File : disk[g].at <= e
  BY DEF Inv, TypeOK
<1> HIDE DEF e
<1>4. /\ disk' \in Disk
      /\ \A g \in File : disk'[g].at <= e + 1
      /\ \A g \in File : \A t \in Nat : t <= e /\ t = MtimeOn(disk', g) => disk'[g] = disk[g]
      /\ \A g \in File : disk[g].is # "absent" => disk'[g].is # "absent"
      /\ \A g \in File : disk'[g] = disk[g] \/ disk'[g].at = e + 1
  BY <1>2, <1>3, EditDisk
<1>5. TypeOK'
  <2>1. Bounded(key, e) /\ key \in Key
    BY DEF Inv, TypeOK, e
  <2>2. Bounded(key, e + 1)
    BY <1>3, <2>1, LaterBound
  <2> QED BY <1>1, <1>3, <1>4, <2>2 DEF Inv, TypeOK
<1>6. CacheInv'
  <2> SUFFICES ASSUME NEW entry \in cache PROVE Kept(disk', e + 1, entry.key, entry.result)
    BY <1>1 DEF CacheInv
  <2> DEFINE k == entry.key
             w == entry.result
             c == CallOf(k)
  <2>1. Kept(disk, e, k, w)
    BY DEF Inv, CacheInv, e
  <2> HIDE DEF k, w
  <2>2. c \in Call
    BY <2>1 DEF Kept, KeyOf, Key, CallOf, Call
  <2>3. k \in Key /\ Bounded(k, e) /\ Fits(disk, c, k, w) /\ ToolsFit(disk, c, k, w)
        /\ w \in Work /\ KeyOf(c, k) /\ Honoured(c, w)
    BY <2>1 DEF Kept
  <2> HIDE DEF c
  <2>4. Fits(disk', c, k, w)
    BY <1>3, <1>4, <2>2, <2>3, EditFits
  <2>5. ToolsFit(disk', c, k, w)
    <3>1. c.alias = "off" => w.alias = "off"
      BY <2>3 DEF Honoured
    <3> QED BY <1>3, <1>4, <2>2, <2>3, <3>1, EditTools
  <2>6. Bounded(k, e + 1)
    BY <1>3, <2>3, LaterBound
  <2> QED BY <2>3, <2>4, <2>5, <2>6, Zenon DEF Kept, c, k, w
<1>7. call \in Call /\ key \in Key /\ Bounded(key, e)
  BY DEF Inv, TypeOK, e
<1>8. Progress'
  <2>1. ASSUME pc \in {"build", "name", "store"} PROVE ToolsFit(disk', call, key, work)
    <3>1. ToolsFit(disk, call, key, work) /\ (call.alias = "off" => work.alias = "off")
      BY <2>1 DEF Inv, Progress, Honoured
    <3> QED BY <1>3, <1>4, <1>7, <3>1, EditTools
  <2>2. disk[Tools].is # "absent" => disk'[Tools].is # "absent"
    BY <1>4, FileNames
  <2> QED BY <1>1, <2>1, <2>2 DEF Inv, Progress
<1>9. Running'
  <2>1. ASSUME pc \notin {"idle", "returned"} PROVE Fits(disk', call, key, work)
    <3>1. Fits(disk, call, key, work)
      BY <2>1 DEF Inv, Running
    <3> QED BY <1>3, <1>4, <1>7, <3>1, EditFits
  <2> QED BY <1>1, <2>1 DEF Running
<1>10. AnswerInv' /\ Fresh'
  BY <1>1 DEF Inv, AnswerInv, Fresh
<1> QED BY <1>5, <1>6, <1>8, <1>9, <1>10 DEF Inv

LEMMA NextInv == Inv /\ [Next]_vars => Inv'
<1> SUFFICES ASSUME Inv, [Next]_vars PROVE Inv'
  OBVIOUS
<1>1. CASE Step
  <2>1. CASE Refuse
    BY <2>1, FailStep DEF Refuse
  <2>2. CASE ToolsMissing
    BY <2>2, FailureStep DEF ToolsMissing
  <2>3. CASE AnalysisFailed \/ EnvironmentFailed
    BY <2>3, FailureStep DEF AnalysisFailed, EnvironmentFailed
  <2> QED BY <1>1, <2>1, <2>2, <2>3, RequestStep, StatSourceStep, StatContextStep, KeyedStep, HitStep,
             MissStep, ReadStep, ParseStep, BitcodeStep, AnalysedStep, BuildStep, NameStep, StoreStep DEF Step
<1>2. CASE \E f \in File : Edit(f)
  BY <1>2, EditStep
<1>3. CASE UNCHANGED vars
  <2> USE DEF Inv, vars
  <2>1. TypeOK' /\ AnswerInv'
    BY <1>3 DEF TypeOK, AnswerInv
  <2>4. CacheInv'
    BY <1>3 DEF CacheInv
  <2>2. Progress'
    BY <1>3 DEF Progress
  <2>5. Running'
    BY <1>3 DEF Running
  <2>3. Fresh'
    <3>1. /\ \A s, b : Resolved(s, b)' = Resolved(s, b) /\ Refused(s, b)' = Refused(s, b)
          /\ \A s : OneRoot(s)' = OneRoot(s)
          /\ \A status : Reported(status)' = Reported(status)
      BY <1>3, SameFiles
    <3> QED BY <1>3, <3>1, Zenon DEF Fresh, Answered
  <2> QED BY <2>1, <2>2, <2>3, <2>4, <2>5
<1> QED BY <1>1, <1>2, <1>3 DEF Next

THEOREM Invariance == Spec => []Inv
BY InitInv, NextInv, PTL DEF Spec

(***************************************************************************)
(* A process may extract as often as it likes while its inputs are edited: *)
(* if nothing changed during a call, its texts, parses and contexts are    *)
(* those a first call would find, and so are the sources of its bitcode;   *)
(* the contexts of the bitcode where it has the build root of the parse    *)
(* (extractor.py extract_ris and its cache). What would now be refused is  *)
(* not answered from the cache either.                                     *)
(***************************************************************************)
THEOREM CacheIsFresh == Spec => []Fresh
<1>1. Inv => Fresh
  BY DEF Inv
<1> QED BY <1>1, Invariance, PTL

(***************************************************************************)
(* The modes of a call hold for its result, whatever the cache held and    *)
(* however the tools and the files changed: required aliases are those of  *)
(* all units, off is off, and of several sources only off is called so     *)
(* (alias.py, compile_context.py).                                         *)
(***************************************************************************)
THEOREM ModesAlwaysHonoured == Spec => []ModesHonoured
<1>1. Inv => ModesHonoured
  <2> SUFFICES ASSUME Inv, Answered PROVE ModesHonoured
    BY DEF ModesHonoured
  <2>1. answer \in Work /\ Honoured(call, answer) /\ call.sources # <<>> /\ call \in Call
    BY DEF Inv, AnswerInv, Answered, TypeOK
  <2>2. ASSUME call.context = "off" PROVE Range(answer.context) = {"fallback"}
    <3>1. \A i \in DOMAIN answer.context : answer.context[i] = "fallback"
      BY <2>1, <2>2 DEF Honoured
    <3>2. 1 \in DOMAIN answer.context
      BY <2>1 DEF Honoured, Work, Call
    <3> QED BY <3>1, <3>2 DEF Range
  <2> QED BY <2>1, <2>2 DEF ModesHonoured, Honoured
<1> QED BY <1>1, Invariance, PTL

(***************************************************************************)
(* Putting units together                                                  *)
(***************************************************************************)

\* Numerals of different numbers are different.
NumeralsDiffer == \A j, k \in Nat : ToString(j) = ToString(k) => j = k

\* A name is that of one function, and what is made up is nobody's name.
NamesInv(funcs, names) ==
    /\ DOMAIN names = DOMAIN funcs
    /\ \A i \in DOMAIN funcs : ~Duplicate(funcs, i) => names[i] = funcs[i].name
    /\ \A i, j \in DOMAIN funcs : names[i] = names[j] /\ names[i] # Unnamed => i = j

Function == [name : Seq(STRING), static : BOOLEAN, stem : STRING]
WellNamed(funcs) == funcs \in Seq(Function) /\ \A i \in DOMAIN funcs : funcs[i].name # Unnamed

LEMMA LeastIn ==
  ASSUME NEW S \in SUBSET Nat, S # {}
  PROVE  Min(S) \in S
<1>1. \E n \in S : \A m \in S : n <= m
  <2>1. \E x \in S : \A y \in S : <<y, x>> \notin OpToRel(<, Nat)
    BY NatLessThanWellFounded, WFMin
  <2>2. \E x \in S : \A y \in S : ~ (y < x)
    BY <2>1, Zenon DEF OpToRel
  <2> QED BY <2>2
<1> QED BY <1>1 DEF Min

LEMMA TwoMembers ==
  ASSUME NEW S, IsFiniteSet(S), NEW a \in S, NEW b \in S, a # b
  PROVE  Cardinality(S) > 1
<1>1. IsFiniteSet({a}) /\ Cardinality({a}) = 1
  BY FS_Singleton
<1>2. IsFiniteSet({a} \cup {b}) /\ Cardinality({a} \cup {b}) = 2
  <2>1. b \notin {a}
    OBVIOUS
  <2>2. Cardinality({a} \cup {b}) = IF b \in {a} THEN Cardinality({a}) ELSE Cardinality({a}) + 1
    BY <1>1, FS_AddElement
  <2>3. IsFiniteSet({a} \cup {b})
    BY <1>1, FS_AddElement
  <2> QED BY <1>1, <2>1, <2>2, <2>3
<1>3. 2 <= Cardinality(S)
  <2>1. {a} \cup {b} \in SUBSET S
    OBVIOUS
  <2>2. ASSUME NEW T \in SUBSET S PROVE Cardinality(T) <= Cardinality(S)
    BY FS_Subset, Zenon
  <2> QED BY ONLY <2>1, <2>2, <1>2, Zenon
<1>4. Cardinality(S) \in Nat
  BY FS_CardinalityType, Zenon
<1> QED BY ONLY <1>3, <1>4

\* There is always a free name, and it is a name.
LEMMA CandidateIsFree ==
  ASSUME NumeralsDiffer, NEW base \in Seq(STRING), base # <<>>, NEW A, IsFiniteSet(A)
  PROVE  Candidate(base, A) \notin A /\ Candidate(base, A) # Unnamed
<1> DEFINE n == Cardinality(A)
           suffix(k) == base \o <<ToString(k)>>
           K == {k \in 2 .. (n + 2) : suffix(k) \notin A}
<1>1. n \in Nat
  BY FS_CardinalityType
<1>2. \A k \in Nat : suffix(k)[Len(base) + 1] = ToString(k) /\ suffix(k) # <<>>
  <2> TAKE k \in Nat
  <2> DEFINE S == STRING \cup {ToString(k)}
  <2>1. base \in Seq(S) /\ <<ToString(k)>> \in Seq(S)
    BY SeqMonotonic
  <2> HIDE DEF S
  <2> QED BY <2>1
<1>3. K # {}
  <2> SUFFICES ASSUME K = {} PROVE FALSE
    OBVIOUS
  <2> DEFINE f == [k \in 2 .. (n + 2) |-> suffix(k)]
  <2>1. f \in [2 .. (n + 2) -> A]
    BY <1>1
  <2>2. IsFiniteSet(2 .. (n + 2)) /\ Cardinality(2 .. (n + 2)) = n + 1
    <3> HIDE DEF n
    <3>1. 2 \in Int /\ n + 2 \in Int /\ ~(2 > n + 2) /\ (n + 2) - 2 + 1 = n + 1
      BY <1>1
    <3>2. IsFiniteSet(2 .. (n + 2))
      BY <3>1, FS_Interval
    <3>3. Cardinality(2 .. (n + 2)) = IF 2 > n + 2 THEN 0 ELSE (n + 2) - 2 + 1
      BY <3>1, FS_Interval
    <3> QED BY <3>1, <3>2, <3>3
  <2>3. PICK x, y \in 2 .. (n + 2) : x # y /\ f[x] = f[y]
    <3> DEFINE I == 2 .. (n + 2)
    <3> HIDE DEF f, n, I
    <3>1. Cardinality(A) < Cardinality(I)
      BY <1>1, <2>2 DEF n, I
    <3>2. f \in [I -> A] /\ IsFiniteSet(I)
      BY <2>1, <2>2 DEF I
    <3>3. \E x, y \in I : x # y /\ f[x] = f[y]
      BY <3>1, <3>2, FS_PigeonHole
    <3> QED BY <3>3 DEF I
  <2>4. x \in Nat /\ y \in Nat /\ ToString(x) = ToString(y)
    BY <1>1, <1>2, <2>3
  <2> QED BY <2>3, <2>4 DEF NumeralsDiffer
<1>4. Min(K) \in K
  <2>1. K \in SUBSET Nat
    BY <1>1
  <2> HIDE DEF K
  <2> QED BY <1>3, <2>1, LeastIn
<1>5. CASE base \in A
  <2>1. Candidate(base, A) = suffix(Min(K))
    BY <1>5 DEF Candidate
  <2>2. Min(K) \in Nat /\ suffix(Min(K)) \notin A
    BY <1>1, <1>4
  <2> HIDE DEF K
  <2> QED BY <1>2, <2>1, <2>2 DEF Unnamed
<1>6. CASE base \notin A
  BY <1>6 DEF Candidate, Unnamed
<1> QED BY <1>5, <1>6

LEMMA ImageFinite ==
  ASSUME NEW D, IsFiniteSet(D), NEW f, DOMAIN f = D
  PROVE  IsFiniteSet({f[x] : x \in D})
<1> DEFINE T == {f[x] : x \in D}
           g == [x \in D |-> f[x]]
<1>1. g \in Surjection(D, T)
  BY DEF Surjection
<1> QED BY <1>1, FS_Surjection

LEMMA AssignedFinite ==
  ASSUME NEW funcs, WellNamed(funcs), NEW names, DOMAIN names = DOMAIN funcs
  PROVE  IsFiniteSet(Assigned(funcs, names))
<1> DEFINE D == DOMAIN funcs
           f == [i \in D |-> funcs[i].name]
<1>1. IsFiniteSet(D)
  BY FS_Interval DEF WellNamed
<1>2. IsFiniteSet({f[i] : i \in D})
  BY <1>1, ImageFinite
<1>3. Reserved(funcs) \subseteq {f[i] : i \in D}
  BY DEF Reserved
<1>4. IsFiniteSet(Reserved(funcs))
  BY <1>2, <1>3, FS_Subset
<1>5. IsFiniteSet(Range(names))
  BY <1>1, ImageFinite DEF Range
<1> QED BY <1>4, <1>5, FS_Union DEF Assigned

\* Functions that keep their names have different ones, when the linker accepts
\* them.
LEMMA OwnNamesInv ==
  ASSUME NEW funcs, WellNamed(funcs), LinkConflicts(funcs) = {}
  PROVE  NamesInv(funcs, OwnNames(funcs))
<1> DEFINE D == DOMAIN funcs
           names == OwnNames(funcs)
<1>1. IsFiniteSet(D)
  BY FS_Interval DEF WellNamed
<1>2. ASSUME NEW i \in D, NEW j \in D, i # j, funcs[i].name = funcs[j].name,
             ~Duplicate(funcs, i), ~Duplicate(funcs, j)
      PROVE  FALSE
  <2> DEFINE N == Named(funcs, funcs[i].name)
             E == {k \in N : ~funcs[k].static}
  <2>1. i \in N /\ j \in N /\ N \subseteq D
    BY <1>2 DEF Named
  <2>2. IsFiniteSet(N) /\ IsFiniteSet(E)
    BY <1>1, <2>1, FS_Subset
  <2>3. Cardinality(N) > 1
    <3> HIDE DEF N
    <3> QED BY <1>2, <2>1, <2>2, TwoMembers
  <2>4. i \in E /\ j \in E
    BY <1>2, <2>1, <2>3 DEF Duplicate
  <2>5. Cardinality(E) > 1
    <3> HIDE DEF E
    <3> QED BY <1>2, <2>2, <2>4, TwoMembers
  <2>6. funcs[i].name \in LinkConflicts(funcs)
    BY <2>5 DEF LinkConflicts, Range
  <2> QED BY <2>6
<1>3. \A i \in D : names[i] = IF Duplicate(funcs, i) THEN Unnamed ELSE funcs[i].name
  BY DEF OwnNames
<1> QED BY <1>2, <1>3 DEF NamesInv, OwnNames

\* A duplicate gets a name that nothing has.
LEMMA TurnKeeps ==
  ASSUME NumeralsDiffer, NEW funcs, WellNamed(funcs), NEW names, NamesInv(funcs, names),
         NEW i \in Turns(funcs, names)
  PROVE  NamesInv(funcs, [names EXCEPT ![i] = OwnName(funcs, names, i)])
<1> DEFINE name == OwnName(funcs, names, i)
           base == <<funcs[i].stem>> \o funcs[i].name
<1>1. i \in DOMAIN funcs /\ names[i] = Unnamed
  BY DEF Turns
<1>2. Duplicate(funcs, i)
  BY <1>1 DEF NamesInv, WellNamed
<1>3. base \in Seq(STRING) /\ base # <<>>
  <2>1. funcs[i] \in Function
    BY <1>1 DEF WellNamed
  <2>2. funcs[i].stem \in STRING /\ funcs[i].name \in Seq(STRING)
    BY <2>1 DEF Function
  <2> QED BY <2>2
<1>4. name \notin Assigned(funcs, names) /\ name # Unnamed
  <2>1. IsFiniteSet(Assigned(funcs, names))
    BY AssignedFinite DEF NamesInv
  <2> HIDE DEF base
  <2>2. name = Candidate(base, Assigned(funcs, names))
    BY DEF OwnName, base
  <2> QED BY <1>3, <2>1, <2>2, CandidateIsFree
<1>5. \A j \in DOMAIN funcs : name # names[j]
  BY <1>4 DEF Assigned, Range, NamesInv
<1> HIDE DEF name
<1> DEFINE new == [names EXCEPT ![i] = name]
<1>6. DOMAIN new = DOMAIN funcs /\ new[i] = name /\ \A j \in DOMAIN funcs \ {i} : new[j] = names[j]
  BY <1>1 DEF NamesInv
<1> HIDE DEF new
<1>7. NamesInv(funcs, new)
  BY <1>1, <1>2, <1>4, <1>5, <1>6 DEF NamesInv
<1> QED BY <1>7 DEF new, name

LEMMA FirstWins ==
  ASSUME NEW parts, NEW S, parts \in Seq(S), NEW k \in Keys(parts)
  PROVE  \E p \in Range(parts) : k \in DOMAIN p /\ Merged(parts)[k] = p[k]
<1> DEFINE I == {i \in DOMAIN parts : k \in DOMAIN parts[i]}
<1>1. I \in SUBSET Nat /\ I # {}
  BY DEF Keys, Range
<1>2. Min(I) \in I
  <2> HIDE DEF I
  <2> QED BY <1>1, LeastIn
<1>3. Merged(parts)[k] = parts[Min(I)][k]
  BY DEF Merged
<1> DEFINE i == Min(I)
<1> HIDE DEF i
<1>4. i \in DOMAIN parts /\ k \in DOMAIN parts[i] /\ Merged(parts)[k] = parts[i][k]
  BY <1>2, <1>3 DEF i
<1> QED BY <1>4 DEF Range

\* Without a warning the units agree, so it is all the same which comes first.
LEMMA OrderIsFree ==
  ASSUME NEW parts, NEW S, parts \in Seq(S), NEW k \in Keys(parts), k \notin Warned(parts)
  PROVE  Merged(parts)[k] = Merged(Reverse(parts))[k]
<1> DEFINE back == Reverse(parts)
<1>1. back = [i \in 1 .. Len(parts) |-> parts[(Len(parts) - i) + 1]]
  BY DEF Reverse
<1>2. back \in Seq(S) /\ Range(back) = Range(parts)
  <2>1. back \in Seq(S) /\ DOMAIN back = DOMAIN parts
    BY <1>1
  <2>3. Len(parts) \in Nat /\ DOMAIN parts = 1 .. Len(parts)
    OBVIOUS
  <2>2. \A i \in DOMAIN parts : /\ (Len(parts) - i) + 1 \in DOMAIN parts
                                /\ back[i] = parts[(Len(parts) - i) + 1]
                                /\ parts[i] = back[(Len(parts) - i) + 1]
    BY ONLY <1>1, <2>1, <2>3
  <2> HIDE DEF back
  <2>4. ASSUME NEW x PROVE x \in Range(back) <=> x \in Range(parts)
    BY ONLY <2>1, <2>2, Zenon DEF Range
  <2> QED BY <2>1, <2>4
<1> HIDE DEF back
<1>3. k \in Keys(back)
  BY <1>2 DEF Keys
<1>4. PICK p \in Range(back) : k \in DOMAIN p /\ Merged(back)[k] = p[k]
  BY <1>2, <1>3, FirstWins
<1>5. p[k] = Merged(parts)[k]
  BY <1>2, <1>4 DEF Warned
<1> QED BY <1>4, <1>5 DEF back

LEMMA RowIsTrue ==
  ASSUME NEW row, NEW lvalue, DOMAIN lvalue = Source, row.file \in {None, row.true},
         row.true \in AssignedOn(lvalue, row.line), NEW a \in AliasOf(row, lvalue)
  PROVE  a[1] = row.true
<1> DEFINE here == AssignedOn(lvalue, row.line)
<1>1. here \subseteq Source /\ None \notin here
  BY SourceAssumption DEF AssignedOn
<1>2. CASE row.file \in here
  <2>1. a = <<row.file, lvalue[row.file][row.line]>>
    BY <1>2 DEF AliasOf
  <2> QED BY <1>1, <1>2, <2>1
<1>3. CASE row.file \notin here
  <2>1. Cardinality(here) = 1 /\ \E s \in here : a = <<s, lvalue[s][row.line]>>
    BY <1>3 DEF AliasOf
  <2>2. IsFiniteSet(here)
    BY <1>1, SourceAssumption, FS_Subset
  <2>3. PICK x : here = {x}
    <3> HIDE DEF here
    <3> QED BY <2>1, <2>2, FS_Singleton
  <2> QED BY <2>1, <2>3
<1> QED BY <1>2, <1>3

\* What the units of the running call define, and how far their names have come.
WellDefined(program) ==
    /\ WellNamed(program.funcs)
    /\ program.constants \in Seq(Range(program.constants))
    /\ DOMAIN program.lvalue = Source
    /\ \A row \in program.rows : row.file \in {None, row.true}

MergeInv ==
    /\ pc \notin {"idle", "returned"} => \E m \in Contents[Manifest] : call.sources = Listed[m]
    /\ pc \in {"name", "store"} =>
          /\ WellDefined(built.program)
          /\ built = [program |-> built.program, names |-> built.names, constants |-> Merged(built.program.constants),
                      warned |-> Warned(built.program.constants), aliases |-> built.aliases]
          /\ NamesInv(built.program.funcs, built.names)
    /\ pc = "store" => Unnamed \notin Range(built.names)

LEMMA MergeInit == Init => MergeInv
BY DEF Init, MergeInv

LEMMA BuildMerges == Inv /\ MergeInv /\ Build => MergeInv'
<1> SUFFICES ASSUME Inv, MergeInv, Build PROVE MergeInv'
  OBVIOUS
<1>1. pc = "build" /\ call' = call
  BY DEF Build
<1>2. PICK program \in Programs(work.parsed) :
        \/ LinkConflicts(program.funcs) # {} /\ Returns(Failed) /\ built' = built
        \/ /\ LinkConflicts(program.funcs) = {}
           /\ built' = [program |-> program, names |-> OwnNames(program.funcs),
                        constants |-> Merged(program.constants), warned |-> Warned(program.constants),
                        aliases |-> IF work.alias = "success" THEN Aliases(program.rows, program.lvalue) ELSE {}]
           /\ pc' = AfterNames(built'.names)
  BY DEF Build
<1>3. CASE pc' = "returned"
  BY <1>3 DEF MergeInv
<1>4. CASE pc' # "returned"
  <2>1. PICK m \in Contents[Manifest] : call.sources = Listed[m]
    BY <1>1 DEF MergeInv
  <2>2. work.parsed \in [DOMAIN Listed[m] -> Content]
    <3>1. work.parsed \in Seq(Content) /\ Len(work.parsed) = Len(call.sources) /\ call.sources \in Seq(Source)
      BY <1>1 DEF Inv, TypeOK, Work, Call, Progress, Honoured
    <3> QED BY <2>1, <3>1
  <2>3. WellDefined(program)
    BY <2>2, ProgramsAssumption DEF Content, WellDefined, WellNamed, Function
  <2>4. /\ LinkConflicts(program.funcs) = {} /\ built'.program = program
        /\ built'.names = OwnNames(program.funcs) /\ pc' = AfterNames(built'.names)
        /\ built' = [program |-> built'.program, names |-> built'.names, constants |-> Merged(built'.program.constants),
                     warned |-> Warned(built'.program.constants), aliases |-> built'.aliases]
    BY <1>2, <1>4 DEF Returns
  <2>5. NamesInv(built'.program.funcs, built'.names)
    BY <2>3, <2>4, OwnNamesInv DEF WellDefined
  <2> QED BY <1>1, <2>1, <2>3, <2>4, <2>5 DEF MergeInv, AfterNames
<1> QED BY <1>3, <1>4

LEMMA NameMerges == NumeralsDiffer /\ MergeInv /\ Name => MergeInv'
<1> SUFFICES ASSUME NumeralsDiffer, MergeInv, Name PROVE MergeInv'
  OBVIOUS
<1>1. pc = "name" /\ call' = call /\ pc' = AfterNames(built'.names)
  BY DEF Name
<1>2. PICK i \in Turns(built.program.funcs, built.names) :
        built' = [built EXCEPT !.names[i] = OwnName(built.program.funcs, built.names, i)]
  BY DEF Name
<1> DEFINE b == built
           names == [b.names EXCEPT ![i] = OwnName(b.program.funcs, b.names, i)]
<1>3. b = [program |-> b.program, names |-> b.names, constants |-> Merged(b.program.constants),
           warned |-> Warned(b.program.constants), aliases |-> b.aliases]
  BY <1>1 DEF MergeInv
<1>4. built' = [b EXCEPT !.names = names]
  BY <1>2
<1> HIDE DEF b, names
<1>5. /\ built'.program = b.program /\ built'.names = names
      /\ built' = [program |-> built'.program, names |-> built'.names, constants |-> Merged(built'.program.constants),
                   warned |-> Warned(built'.program.constants), aliases |-> built'.aliases]
  BY <1>3, <1>4
<1>6. NamesInv(b.program.funcs, names)
  BY <1>1, <1>2, TurnKeeps DEF MergeInv, WellDefined, b, names
<1>7. WellDefined(b.program)
  BY <1>1 DEF MergeInv, b
<1> QED BY <1>1, <1>5, <1>6, <1>7 DEF MergeInv, AfterNames

LEMMA MergeKept == NumeralsDiffer /\ Inv /\ MergeInv /\ [Next]_vars => MergeInv'
<1> SUFFICES ASSUME NumeralsDiffer, Inv, MergeInv, [Next]_vars PROVE MergeInv'
  OBVIOUS
<1>1. CASE Request
  <2>1. call'.sources = Listed[disk[Manifest].is] /\ pc' = "stat" /\ disk[Manifest].is \in Contents[Manifest]
    BY <1>1, FileNames DEF Request, Inv, TypeOK, Disk
  <2> QED BY <2>1 DEF MergeInv
<1>2. CASE Build
  BY <1>2, BuildMerges
<1>3. CASE Name
  BY <1>3, NameMerges
<1>4. CASE \E f \in File : Edit(f)
  BY <1>4 DEF Edit, MergeInv
<1>5. CASE UNCHANGED vars
  BY <1>5 DEF vars, MergeInv
<1>6. CASE StatSource \/ StatContext \/ Keyed \/ Miss \/ Read \/ Parse \/ Bitcode \/ Analysed
  <2>1. pc \notin {"idle", "returned"} /\ call' = call /\ pc' \notin {"name", "store"}
    BY <1>6 DEF StatSource, StatContext, Keyed, Miss, Read, Parse, Bitcode, Analysed
  <2> QED BY <2>1 DEF MergeInv
<1>7. CASE Hit \/ Refuse \/ Store
  BY <1>7 DEF Hit, Refuse, Store, Returns, MergeInv
<1>8. CASE ToolsMissing \/ AnalysisFailed \/ EnvironmentFailed
  <2>1. pc \notin {"idle", "returned"} /\ call' = call /\ pc' \notin {"name", "store"}
    BY <1>8 DEF ToolsMissing, AnalysisFailed, EnvironmentFailed, Failure, Returns
  <2> QED BY <2>1 DEF MergeInv
<1> QED BY <1>1, <1>2, <1>3, <1>4, <1>5, <1>6, <1>7, <1>8 DEF Next, Step

LEMMA MergedFaithfully == MergeInv => MergeIsFaithful
<1> SUFFICES ASSUME MergeInv, pc = "store" PROVE MergeIsFaithful
  BY DEF MergeIsFaithful, NamesUnique, OrderOnlyWithWarning, AliasesTrue
<1> DEFINE program == built.program
<1>1. WellDefined(program) /\ NamesInv(program.funcs, built.names) /\ Unnamed \notin Range(built.names)
  BY DEF MergeInv
<1>2. built.constants = Merged(program.constants) /\ built.warned = Warned(program.constants)
  BY DEF MergeInv
<1>3. NamesUnique
  <2>1. \A i \in DOMAIN program.funcs : built.names[i] # Unnamed
    BY <1>1 DEF NamesInv, Range
  <2>2. \A i \in DOMAIN program.funcs : ~program.funcs[i].static => ~Duplicate(program.funcs, i)
    BY DEF Duplicate
  <2> QED BY <1>1, <2>1, <2>2 DEF NamesUnique, NamesInv
<1>4. OrderOnlyWithWarning
  <2>1. DOMAIN built.constants = Keys(program.constants)
    BY <1>2 DEF Merged
  <2> QED BY <1>1, <1>2, <2>1, OrderIsFree DEF OrderOnlyWithWarning, WellDefined
<1>5. AliasesTrue
  BY <1>1, RowIsTrue DEF AliasesTrue, WellDefined
<1> QED BY <1>3, <1>4, <1>5 DEF MergeIsFaithful

\* Whatever the units define: no two functions end up as one module, an external
\* one keeps its name, the order of the units decides no constant, callback or
\* number of a macro unnoticed, and a row of SVF from a line on which its own source assigns
\* makes no pointer of another source an alias, with its file named or left out
\* (extractor.py _assign_multi_module_names and _merge_facts, alias.py). Rows of
\* other lines may (NamedRowsStay is violated), and structs are not included.
THEOREM MergesAreFaithful ==
  ASSUME NumeralsDiffer
  PROVE  Spec => []MergeIsFaithful
<1>1. Init => MergeInv
  BY MergeInit
<1>2. Inv /\ MergeInv /\ [Next]_vars => MergeInv'
  BY MergeKept
<1>3. MergeInv => MergeIsFaithful
  BY MergedFaithfully
<1> QED BY <1>1, <1>2, <1>3, Invariance, PTL DEF Spec
=============================================================================
