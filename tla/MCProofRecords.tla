---------------------------- MODULE MCProofRecords ----------------------------
(* Records of a few fields, and the settings that make the interesting leaves. *)
EXTENDS ProofRecords

CONSTANTS p1, p2

Word == <<"string", <<"a", "b", "c">>>>
Letter == <<"string", <<"z">>>>
Number == <<"number", 1>>

MCObjects ==
    {Word,
     <<"object", << <<"n", <<"array", <<Word, <<"null">>>> >> >>, <<"m", Letter>> >> >>,
     <<"array", <<Letter, Word, <<"array", <<>> >>, Number, Letter>> >>}

Exactly(path) == [path |-> path, wildcard |-> FALSE]
AllBelow(path) == [path |-> path, wildcard |-> TRUE]

\* Everything, one array, and single fields; the longest record is left as it is.
MCPatterns(json) ==
    CASE json[1] = "string" -> {Exactly(<<>>)}
      [] json[1] = "object" -> {AllBelow(<<>>), AllBelow(<< <<"key", "n">> >>),
                                Exactly(<< <<"key", "n">>, <<"index", 0>> >>)}
      [] json[1] = "array" -> {}

Stars == <<"*">>
Part(start, end) == [start |-> start, end |-> end, replacement |-> Stars]
\* Two that become one, one that ends beyond the text, and one before another.
MCMasks == {<<Part(1, 2), Part(0, 1)>>, <<Part(2, 9), Part(0, 1)>>}

Shown == [shown |-> TRUE, text |-> <<>>]
Replaced == [shown |-> FALSE, text |-> Stars]
MCRegexMasks == {[lengths |-> <<1, 2>>, substitution |-> <<Shown, Replaced>>],
                 [lengths |-> <<3>>, substitution |-> <<Shown>>]}

Symmetry == Permutations(Proofs)
=============================================================================
