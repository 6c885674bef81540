----------------------------- MODULE MCCampaign -----------------------------
(***************************************************************************)
(* Small campaigns for Campaign: `sig' weakens a Signer, `pda' drops the   *)
(* comparison of a PDA's key, `math' wraps an addition in another file and *)
(* `broken' does not build.  The unmutated program trips cu-dos, as        *)
(* escrow-demo does.                                                       *)
(***************************************************************************)
EXTENDS Campaign

MCMutants == {"sig", "pda", "math", "broken"}
MCFileOf == [m \in MCMutants |-> IF m = "math" THEN "state.rs" ELSE "lib.rs"]
MCDetectors == {"account-swap", "cu-dos", "pda-forge", "signer-skip", "unchecked-math"}
MCRank == [d \in MCDetectors |->
    CASE d = "account-swap" -> 1 [] d = "cu-dos" -> 2 [] d = "pda-forge" -> 3
      [] d = "signer-skip" -> 4 [] d = "unchecked-math" -> 5]

\* A vault whose key is not compared may be another user's, too.
MCPlanted == [m \in MCMutants |->
    CASE m = "sig"  -> {"signer-skip", "cu-dos"}
      [] m = "pda"  -> {"account-swap", "pda-forge"}
      [] OTHER      -> {}]

\* `pda' is in a struct that no handler names.
InHandlers == [m \in MCMutants |->
    CASE m = "math" -> "withdraw" [] m = "pda" -> NoFn [] OTHER -> "deposit"]

WholePlan == <<"sig", "math", "broken", "pda">>
=============================================================================
