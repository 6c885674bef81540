----------------------------- MODULE Disclosure -----------------------------
(***************************************************************************)
(* The report of a divergence: solinv-disclose.  An artifact names bytes   *)
(* (by length and SHA-256, taken to name one sequence of bytes) and may    *)
(* carry them as base64; a bundle holds the inputs of a comparison; a      *)
(* claim is the bundle with what diverged; a report is a claim stamped by  *)
(* the tool that made it.  An Option is the empty tuple or a tuple of one. *)
(***************************************************************************)
EXTENDS Naturals, Sequences

SCHEMA_VERSION == 2

\* repro.rs, Artifact: `names' is what len and sha256 declare, `text' what the
\* base64 decodes to; text that is no canonical base64 decodes to nothing.
ArtifactDigest(bytes) == [carrier |-> "digest", names |-> bytes, text |-> <<>>]
ArtifactInline(bytes) == [carrier |-> "inline", names |-> bytes, text |-> <<bytes>>]

IsCarried(a) == a.carrier = "inline"

\* Mutant: what is carried is taken for what is named.
IntactIfDecoded(a) == IsCarried(a) => a.text # <<>>
IsIntact(a) == IsCarried(a) => a.text = <<a.names>>

\* Artifact::bytes: the carried bytes, if they are what the artifact names.
Bytes(a) == IF IsIntact(a) THEN a.text ELSE <<>>

-----------------------------------------------------------------------------
(* ReproBundle.  meta stands for owner, lamports, executable and rent_epoch *)
(* of an account, which a restored account needs together.                 *)

HasMeta(acct) == acct.meta # <<>>
IsComplete(acct) == IsCarried(acct.pre) /\ IsIntact(acct.pre) /\ HasMeta(acct)

IsReplayable(action) == action.target # <<>> /\ action.data # <<>>

IsStated(context) == context.runtime /\ context.clock # <<>>

\* A policy is off, or on with the keys a reader is told to supply.
CoversSigners(context, actions) ==
    \/ ~context.policy.verified
    \/ \A i \in DOMAIN actions : actions[i].signers \subseteq context.policy.keys

\* The artifacts of a bundle, with the names a list of gaps gives them.
Artifacts(b) ==
    {<<<<"program", b.programs[i].side>>, b.programs[i].code>> : i \in DOMAIN b.programs}
        \cup {<<b.accounts[i].label, b.accounts[i].pre>> : i \in DOMAIN b.accounts}

IntegrityFailures(b) == {a[1] : a \in {x \in Artifacts(b) : ~IsIntact(x[2])}}

DefinesAComparison(b) ==
    Len(b.programs) >= 2 /\ b.features /\ b.actions # <<>>

Missing(b) ==
    {g \in {<<"programs">>, <<"features">>, <<"actions">>} :
        \/ g = <<"programs">> /\ Len(b.programs) < 2
        \/ g = <<"features">> /\ ~b.features
        \/ g = <<"actions">> /\ b.actions = <<>>}

\* Mutant: an account without its metadata is not listed.
NotCarriedBytes(b) ==
    {a[1] : a \in {x \in Artifacts(b) : ~IsCarried(x[2])}}
        \cup {b.actions[i].label : i \in {j \in DOMAIN b.actions : ~IsReplayable(b.actions[j])}}

NotCarried(b) ==
    {a[1] : a \in {x \in Artifacts(b) : ~IsCarried(x[2])}}
        \cup {b.accounts[i].label : i \in {j \in DOMAIN b.accounts : ~HasMeta(b.accounts[j])}}
        \cup {b.actions[i].label : i \in {j \in DOMAIN b.actions : ~IsReplayable(b.actions[j])}}
        \cup {g \in {<<"pre-state">>, <<"context">>, <<"stated context">>, <<"signer policy">>} :
                \/ g = <<"pre-state">> /\ b.accounts = <<>>
                \/ g = <<"context">> /\ b.context = <<>>
                \/ /\ b.context # <<>>
                   /\ \/ g = <<"stated context">> /\ ~IsStated(b.context[1])
                      \/ /\ g = <<"signer policy">> /\ IsStated(b.context[1])
                         /\ ~CoversSigners(b.context[1], b.actions)}

Carried(b) ==
    /\ \A i \in DOMAIN b.programs : IsCarried(b.programs[i].code)
    /\ b.accounts # <<>> /\ \A i \in DOMAIN b.accounts : IsComplete(b.accounts[i])
    /\ \A i \in DOMAIN b.actions : IsReplayable(b.actions[i])
    /\ b.context # <<>>
    /\ IsStated(b.context[1]) /\ CoversSigners(b.context[1], b.actions)

Completeness(b) ==
    IF IntegrityFailures(b) # {}   THEN "Corrupt"
    ELSE IF ~DefinesAComparison(b) THEN "Incomplete"
    ELSE IF Carried(b)             THEN "InputsCarried"
    ELSE "IdentifiedOnly"

-----------------------------------------------------------------------------
(* Divergence.                                                             *)

\* divergence.rs:188.  A cost missing on one side only is a fault.
IsFault(d) ==
    IF d.kind # "cu" THEN TRUE
    ELSE IF d.left # <<>> /\ d.right # <<>> THEN d.right[1] > d.left[1]
    ELSE (d.left = <<>>) # (d.right = <<>>)

\* Mutant: only the reason of the left side is looked at.
LeftHasBuildScopedToken(d) ==
    /\ d.kind = "parity" /\ d.left.reason # <<>>
    /\ d.left.reason[1].form = "builtin"

\* A builtin error is rendered by Debug: its text is the build's.
HasBuildScopedToken(d) ==
    /\ d.kind = "parity"
    /\ \E side \in {d.left, d.right} :
          side.reason # <<>> /\ side.reason[1].form = "builtin"

-----------------------------------------------------------------------------
(* DivergenceReport.                                                       *)

HasFault(r) == \E i \in DOMAIN r.claim.divergences : IsFault(r.claim.divergences[i])

\* Serialize, and from_json: a document of another schema is neither written
\* nor read.  Bytes that do not parse are the empty tuple.
CanonicalJson(r) == IF r.claim.schema = SCHEMA_VERSION THEN <<r>> ELSE <<>>
FromJson(doc) ==
    IF doc # <<>> /\ doc[1].claim.schema = SCHEMA_VERSION THEN doc ELSE <<>>

\* A digest stands for the bytes it is of: here the claim, without the stamp.
ClaimDigest(r) == r.claim

ClaimDigestIsPortable(r) ==
    ~\E i \in DOMAIN r.claim.divergences : HasBuildScopedToken(r.claim.divergences[i])

\* to_markdown: the verdict, the grade with the gaps it lists, and each
\* divergence marked a fault or recorded.
Markdown(r) ==
    LET b == r.claim.bundle
        grade == Completeness(b)
    IN  [verdict |-> IF HasFault(r) THEN "DIVERGED" ELSE "no divergence",
         digest |-> ClaimDigest(r),
         portable |-> ClaimDigestIsPortable(r),
         grade |-> grade,
         gaps |-> CASE grade = "InputsCarried"  -> {}
                    [] grade = "IdentifiedOnly" -> NotCarried(b)
                    [] grade = "Incomplete"     -> Missing(b)
                    [] grade = "Corrupt"        -> IntegrityFailures(b),
         carried |-> {a[1] : a \in {x \in Artifacts(b) : IsCarried(x[2]) /\ IsIntact(x[2])}},
         corrupt |-> IntegrityFailures(b),
         faults |-> {i \in DOMAIN r.claim.divergences : IsFault(r.claim.divergences[i])}]

=============================================================================
