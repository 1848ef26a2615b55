---------------------------- MODULE MCLedgerBuilder ----------------------------
(* Requests for the runs of LedgerBuilder: the flow of an operator and a user, and
   requests that are refused at each of their parts. *)
EXTENDS LedgerBuilder

Ask(actors, author, channels, assign, data, endorser) ==
    [actors |-> actors, author |-> author, channels |-> channels, assign |-> assign,
     data |-> data, endorser |-> endorser]

MCRequests == {
    Ask(<<"a", "b">>, "a", <<"a">>, <<<<"a", "a">>, <<"b", "a">>>>, {"a"}, <<"b">>),
    Ask(<<>>, "a", <<"b">>, <<<<"b", "a">>>>, {"b", "a"}, <<>>),
    Ask(<<"b">>, "b", <<"a">>, <<>>, {"a"}, <<"a">>),
    Ask(<<>>, "b", <<>>, <<<<"b", "a">>, <<"a", "a">>>>, {"a"}, <<>>)}

BuilderSymmetry == Permutations(Builders) \cup Permutations(Identities)
================================================================================
