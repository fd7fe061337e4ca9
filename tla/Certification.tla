--------------------------- MODULE Certification ---------------------------
(***************************************************************************)
(* What the end-to-end pipeline (run_e2e.sh) promises about the driver it  *)
(* announces, without its stages, its texts or its retries: a candidate    *)
(* module is revised, a boot of that candidate may become evidence, and    *)
(* only evidence of an accepted boot of the candidate itself certifies it. *)
(***************************************************************************)
CONSTANTS Candidate,   \* the modules there may be
          NoEvidence   \* no accepted boot so far

VARIABLES draft,       \* the candidate
          evidence,    \* the accepted boot that was kept, or NoEvidence
          verdict      \* "open" while the pipeline works on the candidate

vars == <<draft, evidence, verdict>>

Boot(d) == [drv |-> d, ok |-> TRUE]

Init == draft \in Candidate /\ evidence = NoEvidence /\ verdict = "open"

Revise == /\ verdict = "open"
          /\ draft' \in Candidate
          /\ UNCHANGED <<evidence, verdict>>

\* Evidence is a boot of the candidate as it is now, and it is taken once.
Observe == /\ verdict = "open" /\ evidence = NoEvidence
           /\ evidence' = Boot(draft)
           /\ UNCHANGED <<draft, verdict>>

Certify == /\ verdict = "open" /\ evidence = Boot(draft)
           /\ verdict' = "ok"
           /\ UNCHANGED <<draft, evidence>>

\* "untraced" is said only of a candidate some text of which did boot.
Reject == /\ verdict = "open"
          /\ verdict' \in {"failed", "untraced", "interrupted"}
          /\ verdict' = "untraced" => evidence # NoEvidence
          /\ UNCHANGED <<draft, evidence>>

\* A new attempt keeps the candidate; old evidence may linger until the
\* attempt discards it, and must be discarded before it certifies anything.
Restart == /\ verdict # "open"
           /\ verdict' = "open"
           /\ evidence' = NoEvidence
           /\ UNCHANGED draft

Next == Revise \/ Observe \/ Certify \/ Reject \/ Restart

Spec == Init /\ [][Next]_vars
=============================================================================
