----------------------------- MODULE ChainReads -----------------------------
(* What reading the state of a virtual blockchain promises.  The node's chains
   only grow.  A read that asks the node gives a height its chain had at some time
   between the start of the read and its end, or gives up.  A state may also be
   recalled without a read: it is then one the chain had at some time. *)
EXTENDS Integers

CONSTANTS Callers,    \* concurrent users of one provider
          Chains,     \* virtual blockchains of the node
          MaxHeight   \* bound: the height at which a chain stops growing

VARIABLES chain,      \* height of each chain on the node, 0 when it does not exist
          reading,    \* per caller: the chain being read and its height at the start
          seen        \* per caller and chain: the height returned last

NoRead == [active |-> FALSE]

Read(c, h) == [active |-> TRUE, chain |-> c, since |-> h]

Init == /\ chain = [c \in Chains |-> 0]
        /\ reading = [r \in Callers |-> NoRead]
        /\ seen = [r \in Callers |-> [c \in Chains |-> 0]]

Grow(c) == /\ chain[c] < MaxHeight
           /\ chain' = [chain EXCEPT ![c] = chain[c] + 1]
           /\ UNCHANGED <<reading, seen>>

Begin(r, c) == /\ ~reading[r].active
               /\ reading' = [reading EXCEPT ![r] = Read(c, chain[c])]
               /\ UNCHANGED <<chain, seen>>

Return(r) == /\ reading[r].active
             /\ \E h \in reading[r].since .. chain[reading[r].chain] :
                   seen' = [seen EXCEPT ![r] = [seen[r] EXCEPT ![reading[r].chain] = h]]
             /\ reading' = [reading EXCEPT ![r] = NoRead]
             /\ UNCHANGED chain

GiveUp(r) == /\ reading[r].active
             /\ reading' = [reading EXCEPT ![r] = NoRead]
             /\ UNCHANGED <<chain, seen>>

Recall(r, c) == /\ \E h \in 1 .. chain[c] :
                      seen' = [seen EXCEPT ![r] = [seen[r] EXCEPT ![c] = h]]
                /\ UNCHANGED <<chain, reading>>

Next == \/ \E c \in Chains : Grow(c)
        \/ \E r \in Callers : \/ \E c \in Chains : Begin(r, c) \/ Recall(r, c)
                              \/ Return(r)
                              \/ GiveUp(r)

Spec == Init /\ [][Next]_<<chain, reading, seen>>
=============================================================================
