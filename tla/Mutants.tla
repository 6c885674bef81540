------------------------------- MODULE Mutants -------------------------------
(***************************************************************************)
(* The plan of a campaign: solinv-mutate/src/operator.rs and mutant.rs.  A *)
(* source file is the sequence of what the expressions find in it, in the  *)
(* order of its bytes: a declaration of a function, with the Context it    *)
(* takes (or ""), a declaration of a struct, or a site an operator         *)
(* rewrites.                                                               *)
(***************************************************************************)
EXTENDS Naturals, Sequences, FiniteSets

\* catalog(): in its order, what each operator rewrites and who should notice.
Catalog ==
    LET Op(id, killer) == [id |-> id, expected_killer |-> killer] IN
    <<Op("signer-check-drop", "signer-skip"),
      Op("signer-type-weaken", "signer-skip"),
      Op("owner-check-drop", "owner-skip"),
      Op("discriminator-check-drop", "discriminator-skip"),
      Op("pda-key-check-drop", "pda-forge"),
      Op("native-guard-neutralize", "precondition-skip"),
      Op("guard-drop", "precondition-skip"),
      Op("checked-to-wrapping", "unchecked-math"),
      Op("saturating-to-wrapping", "unchecked-math"),
      Op("canonical-bump-assert-drop", "bump-seed-canonicalization")>>

Declared(line, kind, name, context) ==
    [line |-> line, kind |-> kind, name |-> name, context |-> context]
Site(line, op, what) == [line |-> line, kind |-> op, name |-> what, context |-> ""]

\* The function whose signature takes the struct as its context; the first.
HandlerTakingContext(source, struct) ==
    LET takes == {i \in DOMAIN source : source[i].kind = "fn" /\ source[i].context = struct}
    IN  IF takes = {} THEN "" ELSE source[CHOOSE i \in takes : \A j \in takes : i <= j].name

\* Mutant: the first function of the file.
FirstFn(source, i) ==
    LET above == {j \in 1..(i - 1) : source[j].kind = "fn"}
    IN  IF above = {} THEN "" ELSE source[CHOOSE j \in above : \A k \in above : j <= k].name

\* The innermost declaration above the site: a function is its own answer, a
\* struct that of the handler it is the context of.
EnclosingFn(source, i) ==
    LET above == {j \in 1..(i - 1) : source[j].kind \in {"fn", "struct"}}
        decl  == source[CHOOSE j \in above : \A k \in above : k <= j]
    IN  CASE above = {}         -> ""
          [] decl.kind = "fn"   -> decl.name
          [] OTHER              -> HandlerTakingContext(source, decl.name)

\* One mutant for each operator and each place it matches, numbered per
\* operator.  (`what' names the check that is gone.)
MutantAt(source, op, i) ==
    [operator |-> op.id, line |-> source[i].line,
     occurrence |-> Cardinality({j \in 1..(i - 1) : source[j].kind = op.id}),
     expected_killer |-> op.expected_killer, what |-> source[i].name,
     enclosing_fn |-> EnclosingFn(source, i)]

Generate(source) ==
    {MutantAt(source, Catalog[p[1]], p[2]) :
        p \in {p \in (DOMAIN Catalog) \X (DOMAIN source) : source[p[2]].kind = Catalog[p[1]].id}}

\* The unmutated program.
NoMutant ==
    [operator |-> "", line |-> 0, occurrence |-> 0, expected_killer |-> "",
     what |-> <<>>, enclosing_fn |-> ""]

=============================================================================
