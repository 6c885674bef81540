------------------------------- MODULE Ledger -------------------------------
(***************************************************************************)
(* The accounts of one TestContext, and the helpers of                     *)
(* solinv-core/src/invariants/util.rs that every detector manipulates them *)
(* with.  An account keeps only what a detector or a program can tell      *)
(* apart: its owner program, the discriminator at the head of its data,    *)
(* the context it is bound to (its user, market or epoch) and a value      *)
(* standing for the rest of its data and for its lamports.                 *)
(***************************************************************************)

CONSTANTS
    Keys,           \* account addresses
    Owners,         \* programs that may own an account
    Discs,          \* discriminators
    Contexts,       \* contexts an account may belong to
    Vals,           \* values of the mutable part of an account
    SystemProgram,  \* Pubkey::default()
    ZeroVal,        \* no data beyond the discriminator, no lamports
    Empty,          \* data too short to hold a discriminator or a context
    Missing         \* get_account() returns Err

Account ==
    [owner : Owners, disc : Discs \cup {Empty},
     ctx : Contexts \cup {Empty}, val : Vals]

Ledgers == [Keys -> Account \cup {Missing}]

ASSUME LedgerAssumption ==
    /\ SystemProgram \in Owners
    /\ ZeroVal \in Vals
    /\ Missing \notin Account

Present(l, k) == l[k] # Missing

\* What save_accounts returns for the keys in K: the accounts that exist.
\* Keys whose account is missing are filtered out.
SaveAccounts(l, K) == [k \in {j \in K : Present(l, j)} |-> l[k]]

\* Two lists of accounts hash alike exactly when they hold the same accounts:
\* the 64-bit hash is taken to be free of collisions.
HashAccountsNow(l, K) == SaveAccounts(l, K)

\* Mutant: an account that the send closed is not written back.
RestoreSurvivors(l, saves) ==
    [k \in Keys |-> IF k \in DOMAIN saves /\ Present(l, k) THEN saves[k] ELSE l[k]]

\* restore_accounts writes back what was saved and touches nothing else.
RestoreAccounts(l, saves) ==
    [k \in Keys |-> IF k \in DOMAIN saves THEN saves[k] ELSE l[k]]

\* The account cleanup_temp_account leaves at a temporary key.
Inert ==
    [owner |-> SystemProgram, disc |-> Empty, ctx |-> Empty, val |-> ZeroVal]

CleanupTempAccounts(l, K) ==
    [k \in Keys |-> IF k \in K THEN Inert ELSE l[k]]

=============================================================================
