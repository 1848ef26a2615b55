------------------------------ MODULE Witnesses ------------------------------
(* What the tree of a channel shows of its leaves: a tree that grows, and leaves of it
   that are hidden. *)
EXTENDS MerkleTrees, Inputs

CONSTANT MaxLeaves   \* bound: leaves of a tree

ASSUME WitnessesAssumption == MaxLeaves \in Nat \ {0}

NothingHidden == input = [of |-> "tree", leaves |-> 1, hidden |-> {}]

AddLeaf ==
    /\ input.of = "tree"
    /\ input.leaves < MaxLeaves
    /\ input' = [input EXCEPT !.leaves = @ + 1]

HideLeaf ==
    /\ input.of = "tree"
    /\ \E i \in 1 .. input.leaves \ input.hidden : input' = [input EXCEPT !.hidden = @ \cup {i}]

WitnessesSpec == NothingHidden /\ [][AddLeaf \/ HideLeaf]_input

RootWith(leaves, witnesses) ==
    RootOf(ComputeRootHash(SetWitnesses(BuildTreeStructure(leaves), leaves, witnesses)))

\* Leaves of which some are given.
Shown(n, given) == [i \in 1 .. n |-> IF i \in DOMAIN given THEN given[i] ELSE Absent]

\* The witnesses can be read and are as many as are asked for, the other leaves give the root with
\* them, and no others do, with these witnesses or one of them changed.
LeavesVerify(n, hidden) ==
    LET leaves == [i \in 1 .. n |-> <<"leaf", i>>]
        tree == ComputeRootHash(BuildTreeStructure(leaves))
        witnesses == GetWitnesses(tree, n, hidden)
        forged == <<"leaf", 0>>
        known == [i \in 1 .. n \ hidden |-> leaves[i]]
    IN /\ CanGetWitnesses(tree, n, hidden)
       /\ CanSetWitnesses(Shown(n, known), witnesses)
       /\ RootWith(Shown(n, known), witnesses) = RootOf(tree)
       /\ \A given \in [1 .. n \ hidden -> {leaves[i] : i \in 1 .. n} \cup {forged}] :
          \A others \in {witnesses} \cup {[witnesses EXCEPT ![k] = forged] : k \in DOMAIN witnesses} :
            RootWith(Shown(n, given), others) = RootOf(tree) => given = known

\* Whichever leaves are hidden, the others verify, and nothing in their place (merkleTree.ts:40-145).
WitnessesVerify == input.of = "tree" => LeavesVerify(input.leaves, input.hidden)
=============================================================================
