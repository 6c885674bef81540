------------------------------ MODULE MCScore ------------------------------
(* Four mutants, two of each detector, with every outcome each may have.   *)
EXTENDS Score
MCExpected == [m \in Ids |-> IF m \in {"m1", "m2"} THEN "pda-forge" ELSE "signer-skip"]
=============================================================================
