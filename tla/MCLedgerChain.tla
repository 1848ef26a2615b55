----------------------------- MODULE MCLedgerChain -----------------------------
(* Contents of microblocks for the runs of LedgerChain: every section is accepted in
   some ledger and, where its callback can throw, refused in another one. *)
EXTENDS LedgerChain

NewActor(i, n) == [type |-> "actor", id |-> i, name |-> n]
Subscription(i) == [type |-> "subscription", actor |-> i, sig |-> "s", pke |-> "s"]
NewChannel(i, n, c) == [type |-> "channel", id |-> i, name |-> n, creator |-> c]
SharedSecret(h, g) == [type |-> "secret", host |-> h, guest |-> g]
Invited(g, c) == [type |-> "invitation", guest |-> g, channel |-> c]
Posted(c) == [type |-> "data", channel |-> c]

MCContents == {
    <<[type |-> "creation"], NewActor(1, "a")>>,
    <<NewActor(1, "a"), NewActor(2, "b")>>,
    <<NewActor(2, "a")>>,
    <<NewActor(2, "b"), Subscription(2)>>,
    <<Subscription(1)>>,
    <<[type |-> "sigSchemes", schemes |-> {"t"}]>>,
    <<[type |-> "pkeSchemes", schemes |-> {"t"}], [type |-> "signature"]>>,
    <<[type |-> "writer", account |-> "w"]>>,
    <<NewChannel(1, "a", 2), Posted(1)>>,
    <<NewChannel(1, "b", 1)>>,
    <<NewChannel(2, "a", 1)>>,
    <<SharedSecret(1, 2), Invited(2, 1)>>,
    <<SharedSecret(2, 1)>>,
    <<Posted(1)>>}

MCFewContents == {
    <<NewActor(1, "a"), NewActor(2, "b")>>,
    <<SharedSecret(1, 2)>>,
    <<[type |-> "signature"]>>}
=============================================================================
