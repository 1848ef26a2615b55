----------------------------- MODULE StateProofs -----------------------------
(* The proofs a node gives of its state (StateChecker.ts): that a microblock is in a
   virtual blockchain, and which value an entry of a radix tree has (radixChecker.ts).
   Hashes are the terms they are computed from.  Rows and nodes are counted from 1. *)
EXTENDS Integers, Sequences, Inputs

CONSTANTS KeyDigits, KeyLength,   \* keys of a radix tree are sequences of digits
          MaxMicroblocks          \* bound: microblocks of a chain that is proved

ASSUME StateProofsAssumption == KeyLength \in Nat \ {0} /\ MaxMicroblocks \in Nat \ {0}

-----------------------------------------------------------------------------
(* The proof that a microblock is in a virtual blockchain of the node. *)

\* n >>> bits
Shifted(n, bits) ==
    LET left[b \in 0 .. bits] == IF b = 0 THEN n ELSE left[b - 1] \div 2
    IN left[bits]

\* How often a number is halved until nothing is left: 32 - clz32(n).
BitLength(n) == CHOOSE bits \in 0 .. n : /\ Shifted(n, bits) = 0
                                         /\ \A fewer \in 0 .. bits - 1 : Shifted(n, fewer) # 0

\* Mutant: the leading zeros of the number itself.
HeightOfNumber(height) == 1 + BitLength(height)

\* 33 - clz32(height - 1)
StateTreeHeight(height) == 1 + BitLength(height - 1)

CanVerifyMicroblock(height, witnesses) == Len(witnesses) = StateTreeHeight(height) - 1

MergeHashes(left, right) == <<"merged", left, right>>

\* Bit by bit of the leaf's index, the witness is on the left or on the right.
MicroblockRoot(leafIndex, hash, witnesses) ==
    LET upTo[row \in 0 .. Len(witnesses)] ==
          IF row = 0 THEN hash
          ELSE IF Shifted(leafIndex, row - 1) % 2 = 1
               THEN MergeHashes(witnesses[row], upTo[row - 1])
               ELSE MergeHashes(upTo[row - 1], witnesses[row])
    IN upTo[Len(witnesses)]

\* The node's tree: each row is half of the one below, filled up with a null node.
NodeOrNull(row, i) == IF i \in DOMAIN row THEN row[i] ELSE <<"null">>

Halved(row) ==
    [i \in 1 .. (Len(row) + 1) \div 2 |-> MergeHashes(row[2 * i - 1], NodeOrNull(row, 2 * i))]

NodeRows(hashes) ==
    LET rows[depth \in 0 .. Len(hashes) - 1] ==
          IF depth = 0 THEN hashes ELSE Halved(rows[depth - 1])
    IN rows

\* Where one node is left, the root.
RootDepth(hashes) ==
    CHOOSE depth \in 0 .. Len(hashes) - 1 :
      /\ Len(NodeRows(hashes)[depth]) = 1
      /\ \A lower \in 0 .. depth - 1 : Len(NodeRows(hashes)[lower]) # 1

NodeRoot(hashes) == NodeRows(hashes)[RootDepth(hashes)][1]

\* The siblings it gives for a microblock.
NodeWitnesses(hashes, leafIndex) ==
    LET rows == NodeRows(hashes)
        Place(depth) == Shifted(leafIndex, depth)
    IN [row \in 1 .. RootDepth(hashes) |->
          NodeOrNull(rows[row - 1], IF Place(row - 1) % 2 = 1 THEN Place(row - 1) ELSE Place(row - 1) + 2)]

-----------------------------------------------------------------------------
(* Radix proofs.  A node has its children by the next digit of the key, or what is left of
   the only key below it, with its value. *)

Keys == [1 .. KeyLength -> KeyDigits]

NoValue == <<"none">>

RadixHash(node) == <<"radix", node>>

\* The walk of radixChecker.ts, one node of the proof for every digit of the key; where the
\* proof has none left it throws.
Verify(key, value, proof) ==
    LET NodeHash(depth) == IF depth = 0 THEN NoValue ELSE proof[depth].children[key[depth]]
        Leads(depth) == proof[depth + 1].children[key[depth + 1]] # NoValue
        from[left \in 0 .. KeyLength] ==
          LET depth == KeyLength - left
              node == proof[depth + 1]
          IN IF left = 0 THEN NodeHash(depth) = value
             ELSE /\ depth + 1 \in DOMAIN proof
                  /\ depth > 0 => NodeHash(depth) = RadixHash(node)
                  /\ CASE node.branch /\ Leads(depth) -> from[left - 1]
                       [] node.branch /\ ~Leads(depth) -> value = NoValue
                       [] OTHER -> IF node.rest = SubSeq(key, depth + 1, KeyLength)
                                   THEN value # NoValue /\ node.value = value
                                   ELSE value = NoValue
    IN from[KeyLength]

VerifyRadixProof(key, value, proof, root) == Verify(key, value, proof) /\ RadixHash(proof[1]) = root

\* The node's tree over some entries: those that share the first digits of a key, what
\* stands for them in the node above, and the nodes on the way to the key.
Below(entries, key, depth) == {k \in DOMAIN entries : \A i \in 1 .. depth : k[i] = key[i]}

IsLeaf(entries, key, depth) == \E k \in DOMAIN entries : Below(entries, key, depth) = {k}

RadixNode(entries, key, depth, slots) ==
    IF IsLeaf(entries, key, depth)
    THEN LET only == CHOOSE k \in DOMAIN entries : Below(entries, key, depth) = {k}
         IN [branch |-> FALSE, rest |-> SubSeq(only, depth + 1, KeyLength), value |-> entries[only]]
    ELSE [branch |-> TRUE, children |-> [digit \in KeyDigits |-> slots[[key EXCEPT ![depth + 1] = digit]]]]

RadixSlots(entries) ==
    LET slots[left \in 0 .. KeyLength] ==
          [key \in Keys |->
             IF Below(entries, key, KeyLength - left) = {} THEN NoValue
             ELSE IF left = 0 THEN entries[key]
             ELSE RadixHash(RadixNode(entries, key, KeyLength - left, slots[left - 1]))]
    IN slots

RadixRoot(entries) == RadixSlots(entries)[KeyLength][CHOOSE key \in Keys : TRUE]

RadixProof(entries, key) ==
    LET slots == RadixSlots(entries)
    IN [step \in {s \in 1 .. KeyLength : /\ Below(entries, key, s - 1) # {}
                                         /\ s = 1 \/ ~IsLeaf(entries, key, s - 2)} |->
          RadixNode(entries, key, step - 1, slots[KeyLength - step])]

-----------------------------------------------------------------------------
(* A chain and a radix tree that grow. *)

NothingProved ==
    \/ input = [of |-> "chain", height |-> 1]
    \/ input = [of |-> "radix", keys |-> {}]

AddMicroblock ==
    /\ input.of = "chain"
    /\ input.height < MaxMicroblocks
    /\ input' = [input EXCEPT !.height = @ + 1]

AddEntry ==
    /\ input.of = "radix"
    /\ \E key \in Keys \ input.keys : input' = [input EXCEPT !.keys = @ \cup {key}]

StateProofsSpec == NothingProved /\ [][AddMicroblock \/ AddEntry]_input

\* Of a chain: each microblock with its siblings, as many as the height asks for, and none in
\* the place of another, whichever microblock the siblings are of.
ChainVerifies(height) ==
    LET hashes == [i \in 1 .. height |-> <<"microblock", i>>]
        root == NodeRoot(hashes)
    IN \A other \in DOMAIN hashes :
         LET witnesses == NodeWitnesses(hashes, other - 1)
         IN /\ CanVerifyMicroblock(height, witnesses)
            /\ MicroblockRoot(other - 1, hashes[other], witnesses) = root
            /\ \A i, place \in DOMAIN hashes :
                 MicroblockRoot(place - 1, hashes[i], witnesses) = root => i = place

\* Of a radix tree: the value of each key that is there, and that the others are not, and of
\* no key anything else with the nodes that were given for another.
RadixVerifies(keys) ==
    LET entries == [key \in keys |-> <<"value", key>>]
        root == RadixRoot(entries)
        ValueAt(key) == IF key \in keys THEN entries[key] ELSE NoValue
    IN \A other \in Keys :
         LET proof == RadixProof(entries, other)
         IN /\ VerifyRadixProof(other, ValueAt(other), proof, root)
            /\ \A key \in Keys : \A value \in {<<"value", k>> : k \in Keys} \cup {NoValue} :
                 VerifyRadixProof(key, value, proof, root) => value = ValueAt(key)

\* What a node proves of its state is accepted and nothing else, of a chain and of a radix
\* tree that has any entries (StateChecker.ts:44-81, 119-135, radixChecker.ts:12-52).
StateProofsVerify ==
    /\ input.of = "chain" => ChainVerifies(input.height)
    /\ input.of = "radix" /\ input.keys # {} => RadixVerifies(input.keys)
=============================================================================
