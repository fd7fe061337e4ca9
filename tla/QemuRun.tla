------------------------------ MODULE QemuRun ------------------------------
(***************************************************************************)
(* qemu_run.sh: pack a guest around one module, boot it, judge its serial  *)
(* log.  The guest's init runs beside a watchdog it starts first; the host *)
(* kills QEMU after a timeout.  rootfs, initramfs and log have fixed names *)
(* outside the caller's own directory, so two callers share them.          *)
(***************************************************************************)
EXTENDS Integers, FiniteSets

CONSTANTS Caller,     \* the scripts that run qemu_run.sh, each for its module
          Profile     \* the subsystem profiles of run_e2e.sh to consider

\* A profile says whether there is an exerciser, whether its value trace is
\* judged (edu), and whether the probe pattern contains "registered".
ASSUME ProfileAssumption ==
    Profile \subseteq [exerciser: BOOLEAN, value: BOOLEAN, registered: BOOLEAN]
ASSUME CallerAssumption == IsFiniteSet(Caller) /\ Caller # {}

VARIABLES stand,      \* where each script stands
          profile,    \* what each script was started for
          rootfs,     \* $ROOTFS_DIR: the modules in it and whose init it is
          initramfs,  \* $INITRAMFS, packed from it
          file,       \* the number of the file $OUT names, 0: none
          content,    \* the lines of every file $OUT ever named
          guest,      \* each script's QEMU: where init stands and what it boots
          fd,         \* the file each QEMU writes to
          status      \* the exit status, -1 while the script runs

vmVars == <<stand, profile, rootfs, initramfs, file, content, guest, fd, status>>

Nobody == "nobody"
Text   == {"kernel", "probed", "oops", "exerciser ok", "trace ok", "done"}
Line   == [by: Caller, text: Text]
Image  == [modules: SUBSET Caller, init: Caller \cup {Nobody}]
Empty  == [modules |-> {}, init |-> Nobody]
Files  == 1 .. Cardinality(Caller)
Off    == [at |-> "off", image |-> Empty, bound |-> FALSE]

VmInit == /\ stand = [c \in Caller |-> "mkdir"] /\ profile \in [Caller -> Profile]
          /\ rootfs = Empty /\ initramfs = Empty
          /\ file = 0 /\ content = [f \in Files |-> {}]
          /\ guest = [c \in Caller |-> Off] /\ fd = [c \in Caller |-> 0]
          /\ status = [c \in Caller |-> -1]
-----------------------------------------------------------------------------
Goto(c, from, to) == stand[c] = from /\ stand' = [stand EXCEPT ![c] = to]

host   == <<profile, file, content, guest, fd, status>>
images == <<rootfs, initramfs>>

MakeRootfs(c) == /\ Goto(c, "mkdir", "copy") /\ rootfs' = Empty
                 /\ UNCHANGED <<initramfs, host>>

CopyModule(c) == /\ Goto(c, "copy", "init")
                 /\ rootfs' = [rootfs EXCEPT !.modules = @ \cup {c}]
                 /\ UNCHANGED <<initramfs, host>>

WriteInit(c) == /\ Goto(c, "init", "pack")
                /\ rootfs' = [rootfs EXCEPT !.init = c]
                /\ UNCHANGED <<initramfs, host>>

Pack(c) == /\ Goto(c, "pack", "remove") /\ initramfs' = rootfs
           /\ UNCHANGED <<rootfs, host>>

RemoveLog(c) == /\ Goto(c, "remove", "boot") /\ file' = 0
                /\ UNCHANGED <<profile, content, guest, fd, status, images>>

\* The redirection makes a file, or truncates the one that is there; QEMU
\* then reads the packed image.  A kernel without an init panics.
Boot(c) ==
    /\ Goto(c, "boot", "running")
    /\ LET f == IF file = 0 THEN 1 + Cardinality({d \in Caller : fd[d] # 0}) ELSE file
       IN  /\ file' = f
           /\ fd' = [fd EXCEPT ![c] = f]
           /\ content' = [content EXCEPT ![f] = {[by |-> c, text |-> "kernel"]} \cup
                  IF initramfs.init = Nobody THEN {[by |-> c, text |-> "oops"]} ELSE {}]
    /\ guest' = [guest EXCEPT ![c] =
           [at |-> IF initramfs.init = Nobody THEN "hung" ELSE "insmod",
            image |-> initramfs, bound |-> FALSE]]
    /\ UNCHANGED <<profile, status, images>>

Prints(c, texts) ==
    content' = [content EXCEPT ![fd[c]] = @ \cup {[by |-> c, text |-> t] : t \in texts}]

GuestGoes(c, from, to) ==
    /\ stand[c] = "running" /\ guest[c].at = from
    /\ guest' = [guest EXCEPT ![c].at = to]
    /\ UNCHANGED <<stand, profile, file, fd, status, images>>

\* The init of the image that was booted is written for one caller's profile.
Booted(c) == profile[guest[c].image.init]

AfterDmesg(c) == IF Booted(c).exerciser THEN "exerciser" ELSE "rmmod"

\* insmod: the driver binds and may say so; or it does not, is missing or was
\* rejected; or it oopses, which kills insmod and lets init go on, or hangs.
Insmod(c) ==
    \/ /\ guest[c].image.init \in guest[c].image.modules
       /\ stand[c] = "running" /\ guest[c].at = "insmod"
       /\ guest' = [guest EXCEPT ![c].at = AfterDmesg(c), ![c].bound = TRUE]
       /\ \E says \in {{}, {"probed"}} : Prints(c, says)
       /\ UNCHANGED <<stand, profile, file, fd, status, images>>
    \/ GuestGoes(c, "insmod", AfterDmesg(c)) /\ content' = content
    \/ /\ guest[c].image.init \in guest[c].image.modules
       /\ \E next \in {AfterDmesg(c), "hung"} : GuestGoes(c, "insmod", next)
       /\ Prints(c, {"oops"})

\* The exerciser opens the driver's device node: it can only succeed on a
\* driver that is bound.
Exerciser(c) ==
    \/ /\ guest[c].bound /\ GuestGoes(c, "exerciser", "rmmod")
       /\ Prints(c, {"exerciser ok"} \cup (IF Booted(c).value THEN {"trace ok"} ELSE {}))
    \/ GuestGoes(c, "exerciser", "rmmod") /\ content' = content
    \/ /\ guest[c].bound
       /\ \E next \in {"rmmod", "hung"} : GuestGoes(c, "exerciser", next)
       /\ Prints(c, {"oops"})

Rmmod(c) ==
    \/ GuestGoes(c, "rmmod", "done") /\ Prints(c, {"done"})
    \/ /\ guest[c].bound
       /\ GuestGoes(c, "rmmod", "hung") /\ Prints(c, {"oops"})

\* MUTANT: no watchdog and no timeout.
QemuEndsMutant(c) ==
    /\ guest[c].at = "done"
    /\ Goto(c, "running", "judge")
    /\ UNCHANGED <<profile, file, content, guest, fd, status, images>>

\* QEMU ends: init powered the guest off, the watchdog did after 15 s, or the
\* host's timeout killed it.
QemuEnds(c) ==
    /\ Goto(c, "running", "judge")
    /\ UNCHANGED <<profile, file, content, guest, fd, status, images>>
-----------------------------------------------------------------------------
\* What grep finds in the log the fixed name leads to.
Log(c) == IF file = 0 THEN {} ELSE {l.text : l \in content[file]}

ProbeSeen(c) == "probed" \in Log(c) \/ (profile[c].registered /\ "kernel" \in Log(c))
\* MUTANT: a value trace vouches for the exerciser's status.
ExerciserOkMutant(c) == profile[c].value => "trace ok" \in Log(c)

ExerciserOk(c) == /\ profile[c].exerciser => "exerciser ok" \in Log(c)
                  /\ profile[c].value => "trace ok" \in Log(c)

\* MUTANT: the marks of success are looked for first.
JudgeMutant1(c) ==
    /\ Goto(c, "judge", "end")
    /\ status' = [status EXCEPT ![c] =
           IF "done" \in Log(c) /\ ProbeSeen(c) /\ ExerciserOk(c) THEN 0
           ELSE IF "oops" \in Log(c) THEN 2
           ELSE IF ~ExerciserOk(c) THEN 3 ELSE 1]
    /\ UNCHANGED <<profile, file, content, guest, fd, images>>

Judge(c) ==
    /\ Goto(c, "judge", "end")
    /\ status' = [status EXCEPT ![c] =
           IF "oops" \in Log(c) THEN 2
           ELSE IF "done" \in Log(c) /\ ProbeSeen(c) /\ ExerciserOk(c) THEN 0
           ELSE IF ~ExerciserOk(c) THEN 3 ELSE 1]
    /\ UNCHANGED <<profile, file, content, guest, fd, images>>

Script(c) == \/ MakeRootfs(c) \/ CopyModule(c) \/ WriteInit(c) \/ Pack(c)
             \/ RemoveLog(c) \/ Boot(c) \/ QemuEnds(c) \/ Judge(c)
Guest(c)  == Insmod(c) \/ Exerciser(c) \/ Rmmod(c)

VmNext == \E c \in Caller : Script(c) \/ Guest(c)

\* The script goes on, and the host's timeout makes QEMU end; nothing is
\* assumed of the guest.
VmSpec == VmInit /\ [][VmNext]_vmVars /\ \A c \in Caller : WF_vmVars(Script(c))
-----------------------------------------------------------------------------
\* Status 0 is only given when init came to its end, and, where there is an
\* exerciser or a pattern only the driver prints, to a driver that was bound; the
\* kernel itself prints "registered" (SuccessMeansBound).
SuccessIsClean ==
    \A c \in Caller : status[c] = 0 =>
        /\ guest[c].at = "done"
        /\ profile[c].exerciser \/ ~profile[c].registered => guest[c].bound

\* An oops the guest printed is what the status says, whatever the guest did
\* after it.
OopsIsReported ==
    \A c \in Caller :
        stand[c] = "end" /\ (\E f \in Files : [by |-> c, text |-> "oops"] \in content[f])
            => status[c] = 2

\* The status the script leaves with is true of the guest it ran.
VerdictIsTrue == SuccessIsClean /\ OopsIsReported

\* qemu_run.sh:158 says of every status 0 that the probe of the module succeeded:
\* the guest's driver was bound.
SuccessMeansBound == \A c \in Caller : status[c] = 0 => guest[c].bound

\* A script ends whatever its guest does.
Terminates == \A c \in Caller : <>(stand[c] = "end")
=============================================================================
