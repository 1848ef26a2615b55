-------------------------------- MODULE Lists --------------------------------
(* What loops make of lists. *)
EXTENDS Integers, Sequences

\* Those of a list that are in a set, in the order of the list.
Among(list, set) ==
    LET from[n \in 0 .. Len(list)] ==
          IF n = 0 THEN <<>>
          ELSE IF list[n] \in set THEN Append(from[n - 1], list[n]) ELSE from[n - 1]
    IN from[Len(list)]
=============================================================================
