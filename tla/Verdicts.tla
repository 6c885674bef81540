------------------------------ MODULE Verdicts ------------------------------
(***************************************************************************)
(* What a mutation campaign promises whoever reads results.json: the       *)
(* mutants of the plan are judged one by one, in its order, each once; a   *)
(* verdict that is written stands until a campaign begins afresh; a mutant *)
(* is killed only by a detector it adds to the program, or by one that the *)
(* campaign did not see fire before it; and the file parses only when      *)
(* every mutant has been judged.                                           *)
(***************************************************************************)
EXTENDS Naturals, Sequences

CONSTANTS
    Plan,     \* the mutants, in order
    Detectors,
    Adds,     \* Adds[m]: the detectors that m trips and the program without it does not
    Nobody

VARIABLES
    verdicts,   \* the results array
    published,  \* whether it has its closing bracket
    missed      \* what the unmutated program trips, unseen by this campaign

Spared == {"survived", "not_reached", "build_failed", "harness_error"}

\* The verdicts a mutant may get.
Sound(m) ==
    {[mutant |-> m, outcome |-> o, by |-> Nobody] : o \in Spared}
        \cup {[mutant |-> m, outcome |-> "killed", by |-> d] : d \in Adds[m] \cup missed}

Init == verdicts = <<>> /\ published = FALSE /\ missed = {}

Begin == verdicts' = <<>> /\ published' = FALSE /\ missed' \in SUBSET Detectors

Judge ==
    /\ ~published /\ Len(verdicts) < Len(Plan)
    /\ \E v \in Sound(Plan[Len(verdicts) + 1]) : verdicts' = Append(verdicts, v)
    /\ UNCHANGED <<published, missed>>

Publish ==
    /\ ~published /\ Len(verdicts) = Len(Plan)
    /\ published' = TRUE
    /\ UNCHANGED <<verdicts, missed>>

Next == Begin \/ Judge \/ Publish

Spec == Init /\ [][Next]_<<verdicts, published, missed>>
=============================================================================
