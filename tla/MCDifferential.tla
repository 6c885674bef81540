--------------------------- MODULE MCDifferential ---------------------------
(***************************************************************************)
(* A swap for Differential: a pool of two reserves, with a header of one   *)
(* byte on the Anchor side, and the balance the swaps draw on.             *)
(***************************************************************************)
EXTENDS Differential, TLC

MCPairSeq == <<"pool", "src">>
MCOffset == [s \in {"anchor", "pinocchio"} |->
    [q \in {"pool", "src"} |-> IF s = "anchor" /\ q = "pool" THEN 1 ELSE 0]]
MCBodySize == [q \in {"pool", "src"} |-> IF q = "pool" THEN 2 ELSE 1]
MCSetup ==
    [anchor |-> [pool |-> <<<<9, 1, 1>>>>, src |-> <<<<2>>>>],
     pinocchio |-> [pool |-> <<<<1, 1>>>>, src |-> <<<<2>>>>]]
MCProbeSeq == <<1, 2>>

MCTargets ==
    {[anchor |-> "original", pinocchio |-> p] : p \in {"lean", "dear", "recoded", "builtin", "lenient",
                                                    "skewed", "draining", "closing"}}
        \cup {[anchor |-> "terse", pinocchio |-> "builtin"]}
MCLater == [anchor |-> {}, pinocchio |-> {"lean", NoCode}]
MCFaults == {<<"action", "pinocchio">>, <<"probe", "anchor">>, <<"probe", "pinocchio">>}
MCEquivalent == {<<"original", "lean">>}

\* Toolchains are only compared with each other.
BuildsAlike == Permutations(Builds)

Header(s) == IF s = "anchor" THEN <<9>> ELSE <<>>

\* Takes `amount' from the balance into the pool; each program its own way.
MCExec(s, program, at, amount) ==
    LET there == at["pool"] # <<>> /\ at["src"] # <<>>
        x == at["pool"][1][Len(Header(s)) + 1]
        y == at["pool"][1][Len(Header(s)) + 2]
        v == at["src"][1][1]
        takes == v >= amount
        cost == CASE program = "dear" -> 3 [] program \in {"original", "terse", "draining"} -> 2 [] OTHER -> 1
        refuse(code, variant) ==
            [ok |-> FALSE, code |-> code, variant |-> variant, cu |-> <<>>, post |-> at]
        left == IF takes THEN v - amount ELSE v
        y2 == CASE program = "draining" -> 0 [] program = "skewed" -> 2 [] OTHER -> y
    IN  IF ~there THEN refuse(<<>>, "UninitializedAccount")
        ELSE IF takes \/ program = "lenient" THEN
            [ok |-> TRUE, code |-> <<>>, variant |-> "", cu |-> <<cost>>,
             post |-> [pool |-> <<Header(s) \o <<IF takes THEN x + amount ELSE x, y2>>>>,
                       src |-> IF program = "closing" /\ left = 0 THEN <<>> ELSE <<<<left>>>>]]
        ELSE CASE program = "recoded" -> refuse(<<"6002", "any">>, "")
               [] program = "builtin" -> refuse(<<>>, "InvalidArgument")
               [] program = "terse"   -> refuse(<<>>, "AccountDataTooSmall")
               [] OTHER               -> refuse(<<"6001", "any">>, "")

\* Not below the product that setup() left, where the pool can be read.
MCHolds(s, at) ==
    at["pool"] # <<>> =>
        at["pool"][1][Len(Header(s)) + 1] * at["pool"][1][Len(Header(s)) + 2] >= 1

\* What the swaps can make of the accounts of a side: they take from the
\* balance what they add to the pool.
PoolAndBalance(s) ==
    UNION {{[pool |-> <<Header(s) \o <<3 - v, y>>>>, src |-> src] : src \in {<<>>, <<<<v>>>>}} :
             v \in 0..2, y \in 0..2}

ASSUME ProgramsAreClosed == Closed([s \in Sides |-> PoolAndBalance(s)])

ASSUME EquivalentAreAlike ==
    \A e \in Equivalent :
        Alike(e[1], e[2], {at \in PoolAndBalance("anchor") \X PoolAndBalance("pinocchio") :
                              /\ at[1]["src"] = at[2]["src"]
                              /\ at[1]["pool"] = <<Header("anchor") \o at[2]["pool"][1]>>})
=============================================================================
