----------------------- MODULE MCBalanceAvailability -----------------------
(* Constant values for the runs of BalanceAvailability.                    *)
EXTENDS BalanceAvailability, TLC

\* No cliff and two days of vesting; a cliff of one day and three days.
MCTerms == {<<0, 2>>, <<1, 3>>}
\* Three days: a lock that was slashed on the first day has released more than the
\* second day allows.
MCOneTerm == {<<0, 3>>}

MCSymmetry == Permutations(Nodes)
=============================================================================
