------------------------------ MODULE MerkleTrees ------------------------------
(* Merkle trees over the leaves of a channel (merkleTree.ts).  Hashes are the terms they
   are computed from.  Rows and nodes are counted from 1. *)
EXTENDS Lists

Absent == <<>>
NullNode == <<"null">>

-----------------------------------------------------------------------------
(* The tree of a channel. *)

\* How many nodes of a row stand for leaves: one for two of the row below.
RowWidths(n) ==
    LET widths[row \in 1 .. n] == IF row = 1 THEN n ELSE (widths[row - 1] + 1) \div 2
    IN widths

\* The row of one node is the last.
Height(n) ==
    IF n = 0 THEN 0
    ELSE CHOOSE row \in 1 .. n : /\ RowWidths(n)[row] = 1
                                 /\ \A lower \in 1 .. row - 1 : RowWidths(n)[lower] # 1

PaddedWidth(n) == IF n > 1 /\ n % 2 = 1 THEN n + 1 ELSE n

BuildTreeStructure(leaves) ==
    LET widths == RowWidths(Len(leaves))
    IN [row \in 1 .. Height(Len(leaves)) |->
          [i \in 1 .. PaddedWidth(widths[row]) |->
             CASE i > widths[row] -> NullNode
               [] i <= widths[row] /\ row = 1 -> leaves[i]
               [] OTHER -> Absent]]

MergeNodes(top, left, right) == <<"node", top, left, right>>

\* What a row is given by the one below, where both children are there.
MergedRow(row, below, top) ==
    LET Both(i) == 2 * i \in DOMAIN below /\ below[2 * i - 1] # Absent /\ below[2 * i] # Absent
    IN [i \in DOMAIN row |-> IF Both(i) THEN MergeNodes(top, below[2 * i - 1], below[2 * i]) ELSE row[i]]

\* From the bottom up.
ComputeRootHash(tree) ==
    LET computed[row \in 1 .. Len(tree)] ==
          IF row = 1 THEN tree[1] ELSE MergedRow(tree[row], computed[row - 1], row = Len(tree))
    IN computed

RootOf(tree) == tree[Len(tree)][1]

\* Mutant: the sibling of every node is on its right.
NextNode(i) == i + 1

Sibling(i) == IF i % 2 = 1 THEN i + 1 ELSE i - 1

\* The nodes of every row of which all leaves are unknown.
UnknownRows(n, unknown) ==
    LET rows[row \in 1 .. Height(n)] ==
          IF row = 1 THEN unknown \cap 1 .. n
          ELSE {i \in 1 .. RowWidths(n)[row] : {2 * i - 1, 2 * i} \subseteq rows[row - 1]}
    IN rows

\* The topmost of these.
Singles(unknownRow) == {i \in unknownRow : Sibling(i) \notin unknownRow}

\* Where hashes are needed, row by row.
GetWitnessPositions(n, unknown) ==
    LET rows == UnknownRows(n, unknown)
        upTo[row \in 0 .. Height(n)] ==
          IF row = 0 THEN <<>>
          ELSE upTo[row - 1] \o Among([i \in 1 .. RowWidths(n)[row] |-> <<row, i>>], {row} \X Singles(rows[row]))
    IN upTo[Height(n)]

CanGetWitnesses(tree, n, unknown) ==
    LET positions == GetWitnessPositions(n, unknown)
    IN /\ \A i \in DOMAIN tree[1] : i \in unknown \/ tree[1][i] # Absent
       /\ \A k \in DOMAIN positions : tree[positions[k][1]][positions[k][2]] # Absent

GetWitnesses(tree, n, unknown) ==
    LET positions == GetWitnessPositions(n, unknown)
    IN [k \in DOMAIN positions |-> tree[positions[k][1]][positions[k][2]]]

UnknownOf(leaves) == {i \in DOMAIN leaves : leaves[i] = Absent}

CanSetWitnesses(leaves, witnesses) ==
    Len(witnesses) = Len(GetWitnessPositions(Len(leaves), UnknownOf(leaves)))

SetWitnesses(tree, leaves, witnesses) ==
    LET positions == GetWitnessPositions(Len(leaves), UnknownOf(leaves))
        At(row, i) == {k \in DOMAIN positions : positions[k] = <<row, i>>}
    IN [row \in DOMAIN tree |->
          [i \in DOMAIN tree[row] |->
             IF At(row, i) = {} THEN tree[row][i]
             ELSE witnesses[CHOOSE k \in At(row, i) : TRUE]]]

=============================================================================
