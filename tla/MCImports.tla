------------------------------ MODULE MCImports ------------------------------
(* Contents of microblocks for Imports: for each kind what makes a chain, what extends
   it, and what is refused by the layout or by the updater. *)
EXTENDS Imports

Plain(type) == [type |-> type]
Holding(type, value) == [type |-> type, value |-> value]
Key(scheme, key) == Holding("ACCOUNT_PUBLIC_KEY", [scheme |-> scheme, key |-> key])

Sealed(sections) == Append(sections, Plain("SIGNATURE"))

Symmetric == Permutations(Clients)

MCOpenings == [
    account |-> {Sealed(<<Key(0, "k"), Holding("ACCOUNT_TOKEN_ISSUANCE", InitialOffer)>>)},
    organization |-> {Sealed(<<Holding("ORG_CREATION", "alice"), Plain("CUSTOM")>>)},
    application |-> {Sealed(<<Holding("APP_CREATION", 2), Holding("APP_DESCRIPTION", "a")>>)},
    node |-> {Sealed(<<Holding("VN_CREATION", 2), Holding("VN_COMETBFT_PUBLIC_KEY_DECLARATION", "k"),
                       Holding("VN_RPC_ENDPOINT", "a")>>)},
    protocol |-> {}]

MCExtensions == [
    account |-> {Sealed(<<Key(1, "l"), Plain("ACCOUNT_TRANSFER")>>)},
    organization |-> {Sealed(<<Holding("ORG_DESCRIPTION", "a")>>),
                      Sealed(<<Holding("ORG_CREATION", "bob"), Plain("CUSTOM")>>)},
    application |-> {},
    node |-> {Sealed(<<Holding("VN_RPC_ENDPOINT", "b")>>), Sealed(<<Holding("VN_APPROVAL", TRUE)>>)},
    protocol |-> {Sealed(<<Holding("PROTOCOL_UPDATE", 2)>>)}]
=============================================================================
