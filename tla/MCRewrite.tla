----------------------------- MODULE MCRewrite -----------------------------
EXTENDS Rewrite

MCPlaces == <<"accounts[0]", "accounts[1]", "accounts[2]">>
MCAlphabet ==
    <<"", "ADMIN", "OTHER_ID", "PROGRAM", "_gone", "a", "accounts", "accounts[0]", "accounts[1]", "accounts[2]",
      "authority", "expect", "false", "id", "mint", "program_id", "s", "state", "true", "user", "vault", "z">>
MCIdents == {"a", "accounts", "authority", "expect", "id", "mint", "program_id", "s", "state", "user", "vault", "z"}
MCUnused == {"_gone"}

Fn(params, pre) == [params |-> params, pre |-> pre, arms |-> <<>>]
Arm(variant, body) == [variant |-> variant, body |-> body]
Only(tests) == Part({}, <<tests>>)

Signs == "is_signer"
RequireSigner == Fn(<<"a">>, <<If(<<Only(Lacks(Signs, Account("a")))>>)>>)

\* One fn, its accounts destructured, helpers of its own.
Deposit ==
    ("deposit" :> Fn(<<"accounts">>,
        <<LetSlice(<<"user", "vault", "_">>),
          Call("require_signer", <<Account("user")>>),
          If(<<Only(Differs(Owner("vault"), Value("PROGRAM"))), Only(Lacks("is_writable", Account("vault")))>>),
          Use(Account("user")), Use(Account("vault"))>>))
    @@ ("require_signer" :> RequireSigner)

\* An enum of instructions, each arm indexing the slice.
Process ==
    ("process" :> [params |-> <<"accounts">>,
        pre |-> <<Let("authority", 1), Call("require_signer", <<Account("authority")>>)>>,
        arms |-> <<Arm("Trade", <<Let("vault", 2),
                        Call("check", <<Account("vault"), Key("authority"), Yes>>), Use(Account("vault")), Use(Account("authority"))>>),
                   Arm("Close", <<Let("vault", 2), Let("user", 3),
                        If(<<Only(Differs(Key("user"), Key("authority")))>>),
                        If(<<Only(Differs(Owner("vault"), Value("PROGRAM")))>>),
                        Use(Account("vault")), Use(Account("user"))>>)>>])
    @@ ("require_signer" :> RequireSigner)
    @@ ("check" :> Fn(<<"state", "s", "expect">>,
          <<If(<<Only(Differs(Owner("state"), Value("PROGRAM"))), Part({"expect"}, <<Lacks("is_writable", Account("state"))>>)>>),
            Call("require_admin", <<Value("ADMIN"), Value("s")>>)>>))
    @@ ("require_admin" :> Fn(<<"a", "id">>, <<If(<<Only(Differs(Value("a"), Value("id")))>>)>>))

\* A dispatcher that hands the slice on, the accounts taken one after the other.
Dispatch ==
    ("process" :> [params |-> <<"accounts">>, pre |-> <<>>,
        arms |-> <<Arm("Deposit", <<Call("deposit", <<Account("accounts")>>)>>),
                   Arm("Close", <<Call("close", <<Account("accounts")>>)>>)>>])
    @@ ("deposit" :> Fn(<<"accounts">>,
          <<NextAccount("user"), NextAccount("vault"),
            If(<<Only(Lacks(Signs, Account("user")))>>),
            Call("owned", <<Account("vault"), Value("PROGRAM")>>), Use(Account("user")), Use(Account("vault"))>>))
    @@ ("close" :> Fn(<<"accounts">>,
          <<Let("vault", 1), Call("owned", <<Account("vault"), Value("PROGRAM")>>), Let("user", 2),
            If(<<Only(Differs(Key("user"), Value("ADMIN")))>>), Use(Account("user")), Use(Account("vault"))>>))
    @@ ("owned" :> Fn(<<"a", "s">>, <<If(<<Only(Differs(Owner("a"), Value("s")))>>)>>))

MCPrograms == {Deposit, Process, Dispatch}
MCNewName == <<"z", "_gone">>
=============================================================================
