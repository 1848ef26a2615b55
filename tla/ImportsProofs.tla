----------------------------- MODULE ImportsProofs -----------------------------
(* Imports, for any number of clients, any contents of microblocks and any delivery;
   and, for microblocks of any length, that the walks of the structure checkers accept
   the layouts. *)
EXTENDS Imports, Layouts, SumsProofs, FiniteSetTheorems, SequenceTheorems

-----------------------------------------------------------------------------
(* The inductive invariant *)

\* A microblock that a client made, one of the first so many.
IsMicroblock(mb, count) ==
    /\ mb = [id |-> mb.id, kind |-> mb.kind, height |-> mb.height, previous |-> mb.previous,
             prices |-> mb.prices, sections |-> mb.sections]
    /\ mb.id \in 2 .. count
    /\ mb.kind \in Kinds
    /\ mb.height \in Nat \ {0}
    /\ mb.sections \in Openings[mb.kind] \cup Extensions[mb.kind]

\* A client that holds a microblock.
Holds(x) == x.stage \in {"built", "sealed", "unsure", "published", "told"}

HasMicroblock(c) == Holds(client[c])

IsClient(x) == \/ x = Idle
               \/ x = Loaded(x.chain, x.height)
               \/ /\ x = [stage |-> x.stage, chain |-> x.chain, height |-> x.height, mb |-> x.mb]
                  /\ Holds(x)

Typed == /\ made \in Nat \ {0}
         /\ \A mb \in pool : IsMicroblock(mb, made)
         /\ client = [c \in Clients |-> client[c]]
         /\ \A c \in Clients : IsClient(client[c])
         /\ \A c \in Clients : HasMicroblock(c) => IsMicroblock(client[c].mb, made)
         /\ stored = [c \in Clients |-> stored[c]]

\* The node's microblocks came out of the pool, the first one of the protocol apart.
Known == pool \cup {ProtocolGenesis}

\* A chain of microblocks out of a pool is linked, its microblocks are of its kind and have
\* the layout of their place.
IsChain(id, chain, from) ==
    /\ chain = [kind |-> chain.kind, blocks |-> chain.blocks, state |-> chain.state]
    /\ chain.kind \in Kinds
    /\ chain.blocks \in Seq(from \cup {ProtocolGenesis})
    /\ chain.blocks # <<>>
    /\ chain.blocks[1].id = id
    /\ \A h \in DOMAIN chain.blocks :
         LET mb == chain.blocks[h]
         IN /\ mb.height = h
            /\ mb.kind = chain.kind
            /\ h > 1 => mb.previous = chain.blocks[h - 1].id
            /\ mb \in from => CheckMicroblockStructure(mb.kind, TypesOf(mb), h = 1)

Linked == /\ chains = [id \in DOMAIN chains |-> chains[id]]
          /\ Protocol \in DOMAIN chains
          /\ \A id \in DOMAIN chains : id \in Nat \ {0} /\ IsChain(id, chains[id], pool)

\* Identifiers, which stand for hashes, belong to one microblock, and until it is sealed
\* only its client has it.
Identified ==
    /\ \A mb, nb \in Known : mb.id = nb.id => mb = nb
    /\ \A c \in Clients : HasMicroblock(c) =>
         \A mb \in pool : mb.id = client[c].mb.id => mb = client[c].mb /\ client[c].stage # "built"
    /\ \A c, d \in Clients : /\ HasMicroblock(c) /\ HasMicroblock(d)
                             /\ client[c].mb.id = client[d].mb.id
                             => c = d

\* What a client loaded is in a chain, and its microblock follows it.
IsPlaced(x) ==
    /\ x.stage = "loaded" => x.chain # 0
    /\ x.stage # "idle" /\ x.chain # 0 =>
         /\ x.chain \in DOMAIN chains
         /\ x.height \in DOMAIN chains[x.chain].blocks
    /\ Holds(x) =>
         /\ x.height \in Nat
         /\ x.mb.height = x.height + 1
         /\ x.chain = 0 => x.height = 0
         /\ x.chain # 0 => /\ x.mb.kind = chains[x.chain].kind
                           /\ x.mb.previous = chains[x.chain].blocks[x.height].id

Placed == \A c \in Clients : IsPlaced(client[c])

\* A sealed microblock has the prices its client keeps.
Priced == \A c \in Clients : HasMicroblock(c) /\ client[c].stage # "built" =>
                               client[c].mb.prices = stored[c]

\* height is that of the last microblock that declares this, 0 when none does.
LastAt(blocks, type, height) ==
    /\ height \in 0 .. Len(blocks)
    /\ height # 0 => Declares(blocks[height], type)
    /\ \A h \in height + 1 .. Len(blocks) : ~Declares(blocks[h], type)

\* value is the one declared last, or the first one.
LastIs(blocks, type, first, value) ==
    \E height \in 0 .. Len(blocks) :
      /\ LastAt(blocks, type, height)
      /\ value = IF height = 0 THEN first ELSE LastValue(blocks[height], type)

\* A state is about what its chain declared last.
IsStateOf(state, chain) ==
    /\ chain.kind = "account" =>
         /\ state = [scheme |-> state.scheme, keyHeight |-> state.keyHeight]
         /\ LastAt(chain.blocks, "ACCOUNT_PUBLIC_KEY", state.keyHeight)
         /\ state.keyHeight # 0 =>
              state.scheme = LastValue(chain.blocks[state.keyHeight], "ACCOUNT_PUBLIC_KEY").scheme
    /\ chain.kind = "organization" =>
         LastAt(chain.blocks, "ORG_DESCRIPTION", state.descriptionHeight)
    /\ chain.kind = "application" =>
         LastAt(chain.blocks, "APP_DESCRIPTION", state.descriptionHeight)
    /\ chain.kind = "node" =>
         /\ LastAt(chain.blocks, "VN_COMETBFT_PUBLIC_KEY_DECLARATION", state.keyHeight)
         /\ LastAt(chain.blocks, "VN_RPC_ENDPOINT", state.rpcHeight)
         /\ LastIs(chain.blocks, "VN_APPROVAL", FALSE, state.approved)
    /\ chain.kind = "protocol" =>
         LastIs(chain.blocks, "PROTOCOL_UPDATE", 1, state.variables)

InForce == \A id \in DOMAIN chains : IsStateOf(chains[id].state, chains[id])

Inductive == /\ Typed /\ Linked /\ Identified /\ Placed /\ Priced
             /\ ImportedOnce /\ ToldIsAnchored /\ InForce

-----------------------------------------------------------------------------
(* Layouts *)

LEMMA LeastExists ==
    ASSUME NEW n \in Nat, NEW S \in SUBSET (0 .. n), S # {}
    PROVE  Min(S) \in S /\ \A y \in S : Min(S) <= y
    <1> DEFINE Least(x) == x \in S /\ \A y \in S : x =< y
               Below == {k \in 0 .. n : \A y \in 0 .. k : y \notin S}
    <1>1. \E x : Least(x)
        <2> SUFFICES ASSUME \A x : ~Least(x) PROVE FALSE
            OBVIOUS
        <2>1. 0 \in Below  BY ~Least(0)
        <2>2. ASSUME NEW k \in 0 .. n - 1, k \in Below PROVE k + 1 \in Below
            <3>1. \A y \in S : k + 1 <= y  BY <2>2
            <3>2. k + 1 \notin S  BY <3>1
            <3> QED  BY <2>2, <3>2
        <2>3. 0 .. n \subseteq Below
            <3> HIDE DEF Below, Least
            <3> QED  BY <2>1, <2>2, IntervalInduction
        <2> QED  BY <2>3
    <1>2. Min(S) = CHOOSE x \in S : \A y \in S : x =< y  BY DEF Min
    <1> QED  BY <1>1, <1>2

LEMMA GreatestExists ==
    ASSUME NEW n \in Nat, NEW S \in SUBSET (0 .. n), S # {}
    PROVE  Max(S) \in S /\ \A y \in S : y <= Max(S)
    <1> DEFINE Greatest(x) == x \in S /\ \A y \in S : x >= y
               Above == {k \in 0 .. n : \A y \in n - k .. n : y \notin S}
    <1>1. \E x : Greatest(x)
        <2> SUFFICES ASSUME \A x : ~Greatest(x) PROVE FALSE
            OBVIOUS
        <2>1. 0 \in Above  BY ~Greatest(n)
        <2>2. ASSUME NEW k \in 0 .. n - 1, k \in Above PROVE k + 1 \in Above
            <3>1. \A y \in S : y <= n - (k + 1)  BY <2>2
            <3>2. n - (k + 1) \notin S  BY <3>1
            <3> QED  BY <2>2, <3>2
        <2>3. 0 .. n \subseteq Above
            <3> HIDE DEF Above, Greatest
            <3> QED  BY <2>1, <2>2, IntervalInduction
        <2> QED  BY <2>3
    <1>2. Max(S) = CHOOSE x \in S : \A y \in S : x >= y  BY DEF Max
    <1> QED  BY <1>1, <1>2

\* A walk over the types of a microblock.
IsWalk(walk, types) ==
    /\ walk = [types |-> types, pointer |-> walk.pointer, count |-> walk.count, valid |-> walk.valid]
    /\ walk.pointer \in 0 .. Len(types)
    /\ walk.valid \in BOOLEAN

LEMMA LeadingTypes ==
    ASSUME NEW types, Len(types) \in Nat, NEW walk, IsWalk(walk, types), NEW wanted
    PROVE  /\ Leading(walk, wanted) \in 0 .. Len(types) - walk.pointer
           /\ \A i \in walk.pointer + 1 .. walk.pointer + Leading(walk, wanted) : types[i] \in wanted
           /\ \/ walk.pointer + Leading(walk, wanted) = Len(types)
              \/ types[walk.pointer + Leading(walk, wanted) + 1] \notin wanted
    <1> DEFINE n == Len(types)
               p == walk.pointer
               others == {i \in p + 1 .. n : types[i] \notin wanted}
               end == IF others = {} THEN n ELSE Min(others) - 1
    <1>1. walk.types = types /\ p \in 0 .. n /\ n \in Nat  BY DEF IsWalk
    <1>2. Leading(walk, wanted) = end - p  BY <1>1 DEF Leading
    <1>3. /\ end \in p .. n /\ \A i \in p + 1 .. end : i \notin others
          /\ end = n \/ end + 1 \in others
        <2>1. CASE others = {}  BY <1>1, <2>1
        <2>2. CASE others # {}
            <3>1. others \in SUBSET (0 .. n)  BY <1>1
            <3>2. Min(others) \in others /\ \A y \in others : Min(others) <= y
                BY <2>2, <3>1, LeastExists
            <3>3. end = Min(others) - 1 /\ Min(others) \in p + 1 .. n  BY <2>2, <3>2
            <3> HIDE DEF end, others, p, n
            <3> QED  BY <1>1, <3>2, <3>3
        <2> QED  BY <2>1, <2>2
    <1>4. \A i \in p + 1 .. end : i \in p + 1 .. n  BY <1>1, <1>3
    <1>6. end = n \/ types[end + 1] \notin wanted  BY <1>3
    <1> HIDE DEF end
    <1>5. end - p \in 0 .. n - p /\ p + (end - p) = end  BY <1>1, <1>3
    <1> QED  BY <1>2, <1>3, <1>4, <1>5, <1>6

LEMMA AdvancedWalk ==
    ASSUME NEW types, Len(types) \in Nat, NEW walk, IsWalk(walk, types),
           NEW count \in 0 .. Len(types) - walk.pointer, NEW holds
    PROVE  LET next == Advanced(walk, count, holds)
           IN /\ IsWalk(next, types)
              /\ next.pointer = walk.pointer + count
              /\ next.count = count
              /\ next.valid <=> walk.valid /\ holds
    <1> DEFINE pointer == walk.pointer
               valid == walk.valid /\ holds
               next == Advanced(walk, count, holds)
    <1>1. /\ walk = [types |-> types, pointer |-> pointer, count |-> walk.count, valid |-> walk.valid]
          /\ pointer \in 0 .. Len(types)
        BY DEF IsWalk
    <1>2. next = [types |-> types, pointer |-> pointer + count, count |-> count, valid |-> valid]
        BY <1>1 DEF Advanced
    <1>3. valid \in BOOLEAN  OBVIOUS
    <1> HIDE DEF valid, next, pointer
    <1>4. next.types = types /\ next.pointer = pointer + count /\ next.count = count /\ next.valid = valid
        BY <1>2
    <1>5. pointer + count \in 0 .. Len(types)  BY <1>1 DEF pointer
    <1>6. IsWalk(next, types)  BY <1>2, <1>3, <1>4, <1>5 DEF IsWalk
    <1>7. next.valid <=> walk.valid /\ holds  BY <1>4 DEF valid
    <1> QED  BY <1>4, <1>6, <1>7 DEF next, pointer

\* What is known of a walk after expects, and after group.
LEMMA Expected ==
    ASSUME NEW types, Len(types) \in Nat, NEW walk, IsWalk(walk, types), NEW constraint, NEW type
    PROVE  LET next == Expects(walk, constraint, type)
           IN /\ IsWalk(next, types)
              /\ next.count \in Nat /\ next.pointer = walk.pointer + next.count
              /\ \A i \in walk.pointer + 1 .. next.pointer : types[i] = type
              /\ next.pointer = Len(types) \/ types[next.pointer + 1] # type
              /\ next.valid <=> walk.valid /\ Satisfies(constraint, next.count)
    <1> DEFINE count == Leading(walk, {type})
    <1>1. /\ count \in 0 .. Len(types) - walk.pointer
          /\ \A i \in walk.pointer + 1 .. walk.pointer + count : types[i] \in {type}
          /\ walk.pointer + count = Len(types) \/ types[walk.pointer + count + 1] \notin {type}
        BY LeadingTypes
    <1>2. Expects(walk, constraint, type) = Advanced(walk, count, Satisfies(constraint, count))
        BY DEF Expects
    <1>3. count \in Nat
        <2>1. walk.pointer \in 0 .. Len(types)  BY DEF IsWalk
        <2> QED  BY <1>1, <2>1
    <1> HIDE DEF count
    <1> QED  BY <1>1, <1>2, <1>3, AdvancedWalk

LEMMA Grouped ==
    ASSUME NEW types, Len(types) \in Nat, NEW walk, IsWalk(walk, types), NEW constraint, NEW list
    PROVE  LET next == Group(walk, constraint, list)
           IN /\ IsWalk(next, types)
              /\ walk.pointer <= next.pointer
              /\ next.count = next.pointer - walk.pointer
              /\ \A i \in walk.pointer + 1 .. next.pointer : types[i] \in DOMAIN list
              /\ next.pointer = Len(types) \/ types[next.pointer + 1] \notin DOMAIN list
              /\ next.valid <=>
                   /\ walk.valid
                   /\ Satisfies(constraint, next.count)
                   /\ \A type \in DOMAIN list :
                        Satisfies(list[type], Cardinality({i \in walk.pointer + 1 .. next.pointer :
                                                             types[i] = type}))
    <1> DEFINE count == Leading(walk, DOMAIN list)
               Matching(type) == {i \in walk.pointer + 1 .. walk.pointer + count : types[i] = type}
               each == \A type \in DOMAIN list : Satisfies(list[type], Cardinality(Matching(type)))
               holds == Satisfies(constraint, count) /\ each
    <1>1. /\ count \in 0 .. Len(types) - walk.pointer
          /\ \A i \in walk.pointer + 1 .. walk.pointer + count : types[i] \in DOMAIN list
          /\ \/ walk.pointer + count = Len(types)
             \/ types[walk.pointer + count + 1] \notin DOMAIN list
        BY LeadingTypes
    <1>2. walk.types = types /\ walk.pointer \in 0 .. Len(types)  BY DEF IsWalk
    <1>3. Group(walk, constraint, list) = Advanced(walk, count, holds)  BY <1>2 DEF Group
    <1> HIDE DEF count
    <1>4. LET next == Advanced(walk, count, holds)
          IN /\ IsWalk(next, types)
             /\ next.pointer = walk.pointer + count
             /\ next.count = count
             /\ next.valid <=> walk.valid /\ Satisfies(constraint, count) /\ each
        <2>1. holds <=> Satisfies(constraint, count) /\ each  OBVIOUS
        <2> HIDE DEF each, holds
        <2> QED  BY <1>1, <2>1, AdvancedWalk
    <1>5. walk.pointer <= walk.pointer + count /\ (walk.pointer + count) - walk.pointer = count
        BY <1>1, <1>2
    <1> QED  BY <1>1, <1>3, <1>4, <1>5

LEMMA StartWalks ==
    ASSUME NEW types, Len(types) \in Nat
    PROVE  IsWalk(Start(types), types) /\ Start(types).pointer = 0
    BY DEF Start, IsWalk

LEMMA SignedEnds ==
    ASSUME NEW types, Len(types) \in Nat, NEW walk, IsWalk(walk, types), Signed(walk)
    PROVE  /\ walk.valid /\ walk.pointer \in 0 .. Len(types)
           /\ \A i \in walk.pointer + 1 .. Len(types) : types[i] \in {"AUXILIARY_SIGNATURE", "SIGNATURE"}
    <1> DEFINE aux == Expects(walk, "ANY", "AUXILIARY_SIGNATURE")
               end == Expects(aux, "ONE", "SIGNATURE")
    <1>1. /\ IsWalk(aux, types)
          /\ aux.count \in Nat /\ aux.pointer = walk.pointer + aux.count
          /\ \A i \in walk.pointer + 1 .. aux.pointer : types[i] = "AUXILIARY_SIGNATURE"
          /\ aux.valid => walk.valid
        BY Expected
    <1> HIDE DEF aux
    <1>2. /\ IsWalk(end, types)
          /\ end.count \in Nat /\ end.pointer = aux.pointer + end.count
          /\ \A i \in aux.pointer + 1 .. end.pointer : types[i] = "SIGNATURE"
          /\ end.valid => aux.valid
        BY <1>1, Expected
    <1> HIDE DEF end
    <1>3. end.valid /\ end.pointer = Len(types)
        <2>1. EndsHere(end)  BY DEF Signed, aux, end
        <2> QED  BY <1>2, <2>1 DEF EndsHere, IsWalk
    <1>4. walk.pointer \in 0 .. Len(types)  BY DEF IsWalk
    <1>5. walk.valid  BY <1>1, <1>2, <1>3
    <1>6. ASSUME NEW i \in walk.pointer + 1 .. Len(types)
          PROVE  types[i] \in {"AUXILIARY_SIGNATURE", "SIGNATURE"}
        <2>1. i \in walk.pointer + 1 .. aux.pointer \/ i \in aux.pointer + 1 .. end.pointer
            BY <1>1, <1>2, <1>3, <1>4
        <2> QED  BY <1>1, <1>2, <2>1
    <1> QED  BY <1>4, <1>5, <1>6

\* A count of at most one, and of one.
LEMMA AtMostOneIn ==
    ASSUME NEW m \in Nat, NEW n \in Nat, NEW S \in SUBSET (m .. n), Cardinality(S) <= 1
    PROVE  \A i, j \in S : i = j
    <1> SUFFICES ASSUME NEW i \in S, NEW j \in S, i # j PROVE FALSE
        OBVIOUS
    <1>1. IsFiniteSet(m .. n)  BY FS_Interval
    <1>2. IsFiniteSet(S)  BY <1>1, FS_Subset
    <1>3. Cardinality({i}) = 1 /\ IsFiniteSet({i})  BY FS_Singleton
    <1>4. Cardinality({i} \cup {j}) = 2  BY <1>3, FS_AddElement
    <1>5. Cardinality({i} \cup {j}) <= Cardinality(S)  BY <1>2, FS_Subset
    <1>6. Cardinality(S) \in Nat  BY <1>2, FS_CardinalityType
    <1> QED  BY <1>4, <1>5, <1>6

LEMMA OneIn ==
    ASSUME NEW S, Cardinality(S) = 1
    PROVE  S # {}
    BY FS_EmptySet

Once(types, type) ==
    \A i, j \in 1 .. Len(types) : types[i] = type /\ types[j] = type => i = j

Absent(types, type) == \A i \in 1 .. Len(types) : types[i] # type

Present(types, type) == \E i \in 1 .. Len(types) : types[i] = type

\* A type that can only be in one stretch of a microblock, which has at most one of it.
LEMMA OnceInStretch ==
    ASSUME NEW types, Len(types) \in Nat, NEW type, NEW m \in 0 .. Len(types), NEW n \in m .. Len(types),
           \A i \in 1 .. Len(types) : types[i] = type => i \in m + 1 .. n,
           Cardinality({i \in m + 1 .. n : types[i] = type}) <= 1
    PROVE  Once(types, type)
    <1> DEFINE S == {i \in m + 1 .. n : types[i] = type}
    <1>1. \A i, j \in S : i = j
        <2>1. S \in SUBSET (m + 1 .. n) /\ m + 1 \in Nat /\ n \in Nat  OBVIOUS
        <2>2. Cardinality(S) <= 1  OBVIOUS
        <2> HIDE DEF S
        <2> QED  BY <2>1, <2>2, AtMostOneIn
    <1> QED  BY <1>1 DEF Once

LEMMA PresentInStretch ==
    ASSUME NEW types, Len(types) \in Nat, NEW type, NEW m \in 0 .. Len(types), NEW n \in m .. Len(types),
           Cardinality({i \in m + 1 .. n : types[i] = type}) = 1
    PROVE  Present(types, type)
    <1>1. {i \in m + 1 .. n : types[i] = type} # {}  BY OneIn
    <1> QED  BY <1>1 DEF Present

LEMMA SatisfiesAtMostOne ==
    ASSUME NEW count, NEW constraint \in {"ZERO", "ONE", "AT_MOST_ONE"}, Satisfies(constraint, count)
    PROVE  count <= 1 /\ (constraint = "ONE" => count = 1)
    <1>1. CASE constraint = "ZERO"
        <2>1. count = 0  BY <1>1 DEF Satisfies
        <2> QED  BY <1>1, <2>1
    <1>2. CASE constraint = "ONE"
        <2>1. count = 1  BY <1>2 DEF Satisfies
        <2> QED  BY <2>1
    <1>3. CASE constraint = "AT_MOST_ONE"
        <2>1. count <= 1  BY <1>3 DEF Satisfies
        <2> QED  BY <1>3, <2>1
    <1> QED  BY <1>1, <1>2, <1>3

LEMMA AccountLayout ==
    ASSUME NEW types, Len(types) \in Nat, NEW first \in BOOLEAN, CheckAccount(types, first)
    PROVE  /\ Once(types, "ACCOUNT_PUBLIC_KEY")
           /\ first => Present(types, "ACCOUNT_PUBLIC_KEY")
    <1> DEFINE n == Len(types)
               start == Start(types)
    <1>1. IsWalk(start, types) /\ start.pointer = 0  BY StartWalks
    <1> HIDE DEF start
    <1>2. CASE first
        <2> DEFINE key == Expects(start, "ONE", "ACCOUNT_PUBLIC_KEY")
                   list == [ACCOUNT_TOKEN_ISSUANCE |-> "AT_MOST_ONE",
                            ACCOUNT_CREATION |-> "AT_MOST_ONE", CUSTOM |-> "ANY"]
                   group == Group(key, "ONE", list)
        <2>1. Signed(group)  BY <1>2 DEF CheckAccount, start
        <2>2. DOMAIN list = {"ACCOUNT_TOKEN_ISSUANCE", "ACCOUNT_CREATION", "CUSTOM"}  OBVIOUS
        <2> HIDE DEF list
        <2>3. /\ IsWalk(key, types) /\ key.count \in Nat /\ key.pointer = key.count
              /\ \A i \in 1 .. key.pointer : types[i] = "ACCOUNT_PUBLIC_KEY"
              /\ key.valid => Satisfies("ONE", key.count)
            BY <1>1, Expected
        <2> HIDE DEF key
        <2>4. /\ IsWalk(group, types) /\ key.pointer <= group.pointer
              /\ \A i \in key.pointer + 1 .. group.pointer : types[i] \in DOMAIN list
              /\ group.valid => key.valid
            BY <2>3, Grouped
        <2> HIDE DEF group
        <2>5. /\ group.valid /\ group.pointer \in 0 .. n
              /\ \A i \in group.pointer + 1 .. n : types[i] \in {"AUXILIARY_SIGNATURE", "SIGNATURE"}
            BY <2>1, <2>4, SignedEnds
        <2>6. key.pointer = 1  BY <2>3, <2>4, <2>5 DEF Satisfies
        <2>7. \A i \in 1 .. n : i = 1 \/ i \in 2 .. group.pointer \/ i \in group.pointer + 1 .. n
            BY <2>5
        <2>8. types[1] = "ACCOUNT_PUBLIC_KEY" /\ 1 \in 1 .. n  BY <2>3, <2>4, <2>5, <2>6
        <2>9. \A i \in 1 .. n : types[i] = "ACCOUNT_PUBLIC_KEY" => i = 1
            BY <2>2, <2>4, <2>5, <2>6, <2>7
        <2> QED  BY <2>8, <2>9 DEF Once, Present
    <1>3. CASE ~first
        <2> DEFINE settlement == Expects(start, "AT_MOST_ONE", "ACCOUNT_ESCROW_SETTLEMENT")
                   key == Expects(settlement, "AT_MOST_ONE", "ACCOUNT_PUBLIC_KEY")
                   list == [type \in AccountTransactions |-> "ANY"]
                   group == Group(key, "AT_LEAST_ONE", list)
        <2>1. CASE settlement.count = 1 /\ Signed(settlement)
            <3>1. /\ IsWalk(settlement, types)
                  /\ settlement.pointer = settlement.count
                  /\ settlement.count \in Nat
                  /\ \A i \in 1 .. settlement.pointer : types[i] = "ACCOUNT_ESCROW_SETTLEMENT"
                BY <1>1, Expected
            <3> HIDE DEF settlement
            <3>2. \A i \in settlement.pointer + 1 .. n : types[i] \in {"AUXILIARY_SIGNATURE", "SIGNATURE"}
                BY <2>1, <3>1, SignedEnds
            <3>3. \A i \in 1 .. n : i \in 1 .. settlement.pointer \/ i \in settlement.pointer + 1 .. n
                BY <3>1
            <3> QED  BY <1>3, <3>1, <3>2, <3>3 DEF Once
        <2>2. CASE Signed(group)
            <3>1. /\ IsWalk(settlement, types)
                  /\ settlement.pointer = settlement.count
                  /\ settlement.count \in Nat
                  /\ \A i \in 1 .. settlement.pointer : types[i] = "ACCOUNT_ESCROW_SETTLEMENT"
                BY <1>1, Expected
            <3> HIDE DEF settlement
            <3>2. /\ IsWalk(key, types) /\ key.count \in Nat
                  /\ key.pointer = settlement.pointer + key.count
                  /\ key.valid => Satisfies("AT_MOST_ONE", key.count)
                BY <3>1, Expected
            <3> HIDE DEF key
            <3>3. DOMAIN list = AccountTransactions  OBVIOUS
            <3> HIDE DEF list
            <3>4. /\ IsWalk(group, types) /\ key.pointer <= group.pointer
                  /\ \A i \in key.pointer + 1 .. group.pointer : types[i] \in DOMAIN list
                  /\ group.valid => key.valid
                BY <3>2, Grouped
            <3> HIDE DEF group
            <3>5. /\ group.valid /\ group.pointer \in 0 .. n
                  /\ \A i \in group.pointer + 1 .. n : types[i] \in {"AUXILIARY_SIGNATURE", "SIGNATURE"}
                BY <2>2, <3>4, SignedEnds
            <3>6. key.count <= 1  BY <3>2, <3>4, <3>5 DEF Satisfies
            <3>7. \A i \in 1 .. n : \/ i \in 1 .. settlement.pointer
                                    \/ i \in settlement.pointer + 1 .. key.pointer
                                    \/ i \in key.pointer + 1 .. group.pointer
                                    \/ i \in group.pointer + 1 .. n
                BY <3>1, <3>2, <3>4, <3>5
            <3>8. \A i \in 1 .. n : types[i] = "ACCOUNT_PUBLIC_KEY" =>
                                      i \in settlement.pointer + 1 .. key.pointer
                BY <3>1, <3>3, <3>4, <3>5, <3>7 DEF AccountTransactions
            <3>9. \A i, j \in settlement.pointer + 1 .. key.pointer : i = j
                BY <3>1, <3>2, <3>6
            <3> QED  BY <1>3, <3>8, <3>9 DEF Once
        <2> QED  BY <1>3, <2>1, <2>2 DEF CheckAccount, start
    <1> QED  BY <1>2, <1>3

\* Both kinds of microblocks that describe something: a creation in the first one only.
LEMMA DescribedLayout ==
    ASSUME NEW types, Len(types) \in Nat, NEW first \in BOOLEAN,
           NEW creation \in {"ORG_CREATION", "APP_CREATION"},
           NEW description \in {"ORG_DESCRIPTION", "APP_DESCRIPTION"},
           CheckDescribed(types, first, creation, description)
    PROVE  /\ Once(types, description)
           /\ ~first => Absent(types, creation)
    <1> DEFINE n == Len(types)
               start == Start(types)
               made1 == Expects(start, IF first THEN "ONE" ELSE "ZERO", creation)
               list == [type \in {description, "CUSTOM"} |->
                          IF type = "CUSTOM" THEN "ANY" ELSE "AT_MOST_ONE"]
               group == Group(made1, "AT_LEAST_ONE", list)
    <1>1. IsWalk(start, types) /\ start.pointer = 0  BY StartWalks
    <1>2. Signed(group)  BY DEF CheckDescribed
    <1> HIDE DEF start
    <1>3. DOMAIN list = {description, "CUSTOM"} /\ list[description] = "AT_MOST_ONE"  OBVIOUS
    <1> HIDE DEF list
    <1>4. /\ IsWalk(made1, types) /\ made1.count \in Nat /\ made1.pointer = made1.count
          /\ \A i \in 1 .. made1.pointer : types[i] = creation
          /\ made1.valid => Satisfies(IF first THEN "ONE" ELSE "ZERO", made1.count)
        BY <1>1, Expected
    <1> HIDE DEF made1
    <1>5. /\ IsWalk(group, types) /\ made1.pointer <= group.pointer
          /\ \A i \in made1.pointer + 1 .. group.pointer : types[i] \in DOMAIN list
          /\ group.valid => made1.valid
          /\ group.valid => Satisfies(list[description],
               Cardinality({i \in made1.pointer + 1 .. group.pointer : types[i] = description}))
        BY <1>3, <1>4, Grouped
    <1> HIDE DEF group
    <1>6. /\ group.valid /\ group.pointer \in 0 .. n
          /\ \A i \in group.pointer + 1 .. n : types[i] \in {"AUXILIARY_SIGNATURE", "SIGNATURE"}
        BY <1>2, <1>5, SignedEnds
    <1>7. \A i \in 1 .. n : \/ i \in 1 .. made1.pointer
                            \/ i \in made1.pointer + 1 .. group.pointer
                            \/ i \in group.pointer + 1 .. n
        BY <1>4, <1>5, <1>6
    <1>8. Once(types, description)
        <2>1. \A i \in 1 .. n : types[i] = description => i \in made1.pointer + 1 .. group.pointer
            BY <1>4, <1>6, <1>7
        <2>2. Cardinality({i \in made1.pointer + 1 .. group.pointer : types[i] = description}) <= 1
            BY <1>3, <1>5, <1>6 DEF Satisfies
        <2>3. made1.pointer \in 0 .. n /\ group.pointer \in made1.pointer .. n
            BY <1>4, <1>5, <1>6
        <2> QED  BY <2>1, <2>2, <2>3, OnceInStretch
    <1>9. ASSUME ~first PROVE Absent(types, creation)
        <2>1. made1.count = 0  BY <1>4, <1>5, <1>6, <1>9 DEF Satisfies
        <2>2. \A i \in 1 .. n : i \in made1.pointer + 1 .. group.pointer \/ i \in group.pointer + 1 .. n
            BY <1>4, <1>7, <2>1
        <2> QED  BY <1>3, <1>5, <1>6, <2>2 DEF Absent
    <1> QED  BY <1>8, <1>9

\* The declarations of a validator node, from any walk on.
LEMMA DeclarationsLayout ==
    ASSUME NEW types, Len(types) \in Nat, NEW first \in BOOLEAN, NEW walk, IsWalk(walk, types),
           \A i \in 1 .. walk.pointer : types[i] \in {"VN_APPROVAL", "VN_SLASHING_CANCELLATION"},
           Signed(Group(Expects(walk, IF first THEN "ONE" ELSE "ZERO", "VN_CREATION"), "AT_LEAST_ONE",
                  [VN_COMETBFT_PUBLIC_KEY_DECLARATION |-> IF first THEN "ONE" ELSE "ZERO",
                   VN_RPC_ENDPOINT                    |-> IF first THEN "ONE" ELSE "AT_MOST_ONE",
                   CUSTOM                             |-> "ANY"]))
    PROVE  /\ Once(types, "VN_COMETBFT_PUBLIC_KEY_DECLARATION")
           /\ Once(types, "VN_RPC_ENDPOINT")
           /\ first => /\ Present(types, "VN_COMETBFT_PUBLIC_KEY_DECLARATION")
                       /\ Present(types, "VN_RPC_ENDPOINT")
           /\ ~first => Absent(types, "VN_CREATION")
    <1> DEFINE n == Len(types)
               created == Expects(walk, IF first THEN "ONE" ELSE "ZERO", "VN_CREATION")
               list == [VN_COMETBFT_PUBLIC_KEY_DECLARATION |-> IF first THEN "ONE" ELSE "ZERO",
                        VN_RPC_ENDPOINT |-> IF first THEN "ONE" ELSE "AT_MOST_ONE",
                        CUSTOM |-> "ANY"]
               group == Group(created, "AT_LEAST_ONE", list)
               Stretch(type) == {i \in created.pointer + 1 .. group.pointer : types[i] = type}
    <1>1. Signed(group)  OBVIOUS
    <1>2. /\ DOMAIN list = {"VN_COMETBFT_PUBLIC_KEY_DECLARATION", "VN_RPC_ENDPOINT", "CUSTOM"}
          /\ list["VN_COMETBFT_PUBLIC_KEY_DECLARATION"] = IF first THEN "ONE" ELSE "ZERO"
          /\ list["VN_RPC_ENDPOINT"] = IF first THEN "ONE" ELSE "AT_MOST_ONE"
        OBVIOUS
    <1> HIDE DEF list
    <1>3. /\ IsWalk(created, types) /\ created.count \in Nat
          /\ created.pointer = walk.pointer + created.count
          /\ \A i \in walk.pointer + 1 .. created.pointer : types[i] = "VN_CREATION"
          /\ created.valid => Satisfies(IF first THEN "ONE" ELSE "ZERO", created.count)
        BY Expected
    <1> HIDE DEF created
    <1>4. /\ IsWalk(group, types) /\ created.pointer <= group.pointer
          /\ \A i \in created.pointer + 1 .. group.pointer : types[i] \in DOMAIN list
          /\ group.valid => created.valid
          /\ group.valid => \A type \in DOMAIN list : Satisfies(list[type], Cardinality(Stretch(type)))
        BY <1>3, Grouped
    <1> HIDE DEF group
    <1>5. /\ group.valid /\ group.pointer \in 0 .. n
          /\ \A i \in group.pointer + 1 .. n : types[i] \in {"AUXILIARY_SIGNATURE", "SIGNATURE"}
        BY <1>1, <1>4, SignedEnds
    <1>6. walk.pointer \in 0 .. n  BY DEF IsWalk
    <1>7. \A i \in 1 .. n : \/ i \in 1 .. walk.pointer
                            \/ i \in walk.pointer + 1 .. created.pointer
                            \/ i \in created.pointer + 1 .. group.pointer
                            \/ i \in group.pointer + 1 .. n
        BY <1>3, <1>4, <1>5, <1>6
    <1>8. created.pointer \in 0 .. n /\ group.pointer \in created.pointer .. n
        BY <1>3, <1>4, <1>5, <1>6
    <1>9. ASSUME NEW type \in {"VN_COMETBFT_PUBLIC_KEY_DECLARATION", "VN_RPC_ENDPOINT"}
          PROVE  Once(types, type) /\ (first => Present(types, type))
        <2>1. \A i \in 1 .. n : types[i] = type => i \in created.pointer + 1 .. group.pointer
            BY <1>3, <1>5, <1>7
        <2>2. /\ Cardinality(Stretch(type)) <= 1
              /\ first => Cardinality(Stretch(type)) = 1
            <3> DEFINE count == Cardinality(Stretch(type))
            <3>1. list[type] \in IF first THEN {"ONE"} ELSE {"ZERO", "AT_MOST_ONE"}  BY <1>2
            <3>2. Satisfies(list[type], count)  BY <1>2, <1>4, <1>5
            <3> HIDE DEF count, list
            <3>3. list[type] \in {"ZERO", "ONE", "AT_MOST_ONE"} /\ (first => list[type] = "ONE")
                BY <3>1
            <3>4. count <= 1 /\ (list[type] = "ONE" => count = 1)
                BY <3>2, <3>3, SatisfiesAtMostOne
            <3> QED  BY <3>3, <3>4 DEF count
        <2> QED  BY <1>8, <2>1, <2>2, OnceInStretch, PresentInStretch
    <1>10. ASSUME ~first PROVE Absent(types, "VN_CREATION")
        <2>1. created.count = 0  BY <1>3, <1>4, <1>5, <1>10 DEF Satisfies
        <2>2. \A i \in 1 .. n : \/ i \in 1 .. walk.pointer
                                \/ i \in created.pointer + 1 .. group.pointer
                                \/ i \in group.pointer + 1 .. n
            BY <1>3, <1>6, <1>7, <2>1
        <2> QED  BY <1>2, <1>4, <1>5, <2>2 DEF Absent
    <1> QED  BY <1>9, <1>10

LEMMA NodeLayout ==
    ASSUME NEW types, Len(types) \in Nat, NEW first \in BOOLEAN, CheckNode(types, first)
    PROVE  /\ Once(types, "VN_COMETBFT_PUBLIC_KEY_DECLARATION")
           /\ Once(types, "VN_RPC_ENDPOINT")
           /\ first => /\ Present(types, "VN_COMETBFT_PUBLIC_KEY_DECLARATION")
                       /\ Present(types, "VN_RPC_ENDPOINT")
           /\ ~first => Absent(types, "VN_CREATION")
    <1> DEFINE n == Len(types)
               start == Start(types)
               approval == Expects(start, "AT_MOST_ONE", "VN_APPROVAL")
               cancellation == Expects(approval, "AT_MOST_ONE", "VN_SLASHING_CANCELLATION")
               Declarations(walk) ==
                 Group(Expects(walk, IF first THEN "ONE" ELSE "ZERO", "VN_CREATION"), "AT_LEAST_ONE",
                  [VN_COMETBFT_PUBLIC_KEY_DECLARATION |-> IF first THEN "ONE" ELSE "ZERO",
                   VN_RPC_ENDPOINT                    |-> IF first THEN "ONE" ELSE "AT_MOST_ONE",
                   CUSTOM                             |-> "ANY"])
    <1>1. IsWalk(start, types) /\ start.pointer = 0  BY StartWalks
    <1>2. \/ first /\ Signed(Declarations(start))
          \/ ~first /\ Signed(approval)
          \/ ~first /\ Signed(cancellation)
          \/ ~first /\ Signed(Declarations(cancellation))
        <2> HIDE DEF approval, cancellation, Declarations, start
        <2>1. Signed(CASE first -> Declarations(start)
                       [] ~first /\ approval.count = 1 -> approval
                       [] ~first /\ approval.count # 1 /\ cancellation.count = 1 -> cancellation
                       [] OTHER -> Declarations(cancellation))
            BY DEF CheckNode, approval, cancellation, Declarations, start
        <2> QED  BY <2>1
    <1> HIDE DEF start
    <1>3. /\ IsWalk(approval, types) /\ approval.count \in Nat /\ approval.pointer = approval.count
          /\ \A i \in 1 .. approval.pointer : types[i] = "VN_APPROVAL"
        BY <1>1, Expected
    <1> HIDE DEF approval
    <1>4. /\ IsWalk(cancellation, types) /\ cancellation.count \in Nat
          /\ cancellation.pointer = approval.pointer + cancellation.count
          /\ \A i \in approval.pointer + 1 .. cancellation.pointer : types[i] = "VN_SLASHING_CANCELLATION"
        BY <1>3, Expected
    <1> HIDE DEF cancellation
    <1>5. \A i \in 1 .. cancellation.pointer : types[i] \in {"VN_APPROVAL", "VN_SLASHING_CANCELLATION"}
        <2>1. \A i \in 1 .. cancellation.pointer :
                i \in 1 .. approval.pointer \/ i \in approval.pointer + 1 .. cancellation.pointer
            BY <1>3, <1>4
        <2> QED  BY <1>3, <1>4, <2>1
    <1>6. CASE first /\ Signed(Declarations(start))
        <2>1. \A i \in 1 .. start.pointer : types[i] \in {"VN_APPROVAL", "VN_SLASHING_CANCELLATION"}
            BY <1>1
        <2> QED  BY <1>1, <1>6, <2>1, DeclarationsLayout
    <1>7. CASE ~first /\ Signed(Declarations(cancellation))
        BY <1>4, <1>5, <1>7, DeclarationsLayout
    <1>8. ASSUME NEW walk, IsWalk(walk, types), Signed(walk), ~first,
                 \A i \in 1 .. walk.pointer : types[i] \in {"VN_APPROVAL", "VN_SLASHING_CANCELLATION"}
          PROVE  /\ Once(types, "VN_COMETBFT_PUBLIC_KEY_DECLARATION")
                 /\ Once(types, "VN_RPC_ENDPOINT")
                 /\ Absent(types, "VN_CREATION")
        <2>1. walk.pointer \in 0 .. n
              /\ \A i \in walk.pointer + 1 .. n : types[i] \in {"AUXILIARY_SIGNATURE", "SIGNATURE"}
            BY <1>8, SignedEnds
        <2>2. \A i \in 1 .. n : i \in 1 .. walk.pointer \/ i \in walk.pointer + 1 .. n  BY <2>1
        <2> QED  BY <1>8, <2>1, <2>2 DEF Once, Absent
    <1>9. CASE ~first /\ Signed(approval)  BY <1>3, <1>8, <1>9
    <1>10. CASE ~first /\ Signed(cancellation)  BY <1>4, <1>5, <1>8, <1>10
    <1> QED  BY <1>2, <1>6, <1>7, <1>9, <1>10

-----------------------------------------------------------------------------
(* The clients *)

LEMMA MoreKnown ==
    ASSUME NEW A, NEW B, A \subseteq B, NEW s \in Seq(A)
    PROVE  s \in Seq(B)
    <1>1. \A i \in 1 .. Len(s) : s[i] \in B  OBVIOUS
    <1> QED  BY <1>1

\* Any step of a client: what it holds now is a new microblock, the one it had, or the
\* one it had that it has sealed.
LEMMA ClientMoves ==
    ASSUME Inductive, NEW c \in Clients, NEW x,
           client' = [client EXCEPT ![c] = x],
           chains' = chains,
           made' \in {made, made + 1},
           stored' = [d \in Clients |-> stored'[d]],
           \A d \in Clients \ {c} : stored'[d] = stored[d],
           IsClient(x), IsPlaced(x),
           Holds(x) => IsMicroblock(x.mb, made'),
           \/ pool' = pool
           \/ Holds(x) /\ x.stage # "built" /\ pool' = pool \cup {x.mb},
           Holds(x) =>
             \/ x.stage = "built" /\ x.mb.id = made + 1
             \/ /\ HasMicroblock(c) /\ x.mb.id = client[c].mb.id
                /\ x.stage # "built"
                /\ client[c].stage # "built" => x.mb = client[c].mb,
           Holds(x) /\ x.stage # "built" => x.mb.prices = stored'[c],
           x.stage = "told" => Anchored(x.mb)
    PROVE  Inductive'
    <1> USE DEF Inductive
    <1>1. /\ client' = [d \in Clients |-> client'[d]]
          /\ client'[c] = x
          /\ \A d \in Clients \ {c} : client'[d] = client[d]
        BY DEF Typed
    <1>2. made \in Nat \ {0} /\ made' \in Nat \ {0} /\ made <= made'  BY DEF Typed
    <1>3. \A mb : IsMicroblock(mb, made) => IsMicroblock(mb, made')  BY <1>2 DEF IsMicroblock
    <1>4. \A d \in Clients \ {c} : HasMicroblock(d)' <=> HasMicroblock(d)
        BY <1>1 DEF HasMicroblock
    <1>5. HasMicroblock(c)' <=> Holds(x)  BY <1>1 DEF HasMicroblock
    <1>6. \A mb \in pool' : mb \in pool \/ (Holds(x) /\ x.stage # "built" /\ mb = x.mb)
        OBVIOUS
    <1>7. Typed'
        <2>1. \A mb \in pool' : IsMicroblock(mb, made')  BY <1>3, <1>6 DEF Typed
        <2>2. \A d \in Clients : IsClient(client'[d])  BY <1>1 DEF Typed
        <2>3. ASSUME NEW d \in Clients, HasMicroblock(d)' PROVE IsMicroblock(client'[d].mb, made')
            <3>1. CASE d = c  BY <1>1, <1>5, <2>3, <3>1
            <3>2. CASE d # c  BY <1>1, <1>3, <1>4, <2>3, <3>2 DEF Typed
            <3> QED  BY <3>1, <3>2
        <2> QED  BY <1>1, <1>2, <2>1, <2>2, <2>3 DEF Typed
    <1>8. \A mb \in pool' : mb.id \in Nat /\ mb.id > 1
        <2>1. \A mb : IsMicroblock(mb, made') => mb.id \in 2 .. made'  BY DEF IsMicroblock
        <2> QED  BY <1>2, <1>7, <2>1 DEF Typed
    <1>9. ProtocolGenesis.id = 1  BY DEF ProtocolGenesis, Protocol
    <1>10. Linked'
        <2>1. ASSUME NEW id \in DOMAIN chains PROVE IsChain(id, chains[id], pool')
            <3> DEFINE chain == chains[id]
            <3>1. IsChain(id, chain, pool)  BY DEF Linked
            <3> HIDE DEF chain
            <3>2. chain.blocks \in Seq(pool' \cup {ProtocolGenesis})
                <4>1. chain.blocks \in Seq(pool \cup {ProtocolGenesis})  BY <3>1 DEF IsChain
                <4>2. pool \cup {ProtocolGenesis} \subseteq pool' \cup {ProtocolGenesis}  OBVIOUS
                <4> QED  BY <4>1, <4>2, MoreKnown
            <3>3. ASSUME NEW h \in DOMAIN chain.blocks, chain.blocks[h] \in pool'
                  PROVE  chain.blocks[h] \in pool
                <4>1. chain.blocks[h] \in pool \cup {ProtocolGenesis}  BY <3>1 DEF IsChain
                <4> QED  BY <1>8, <1>9, <3>3, <4>1
            <3>4. IsChain(id, chain, pool')  BY <3>1, <3>2, <3>3 DEF IsChain
            <3> QED  BY <3>4 DEF chain
        <2> QED  BY <2>1 DEF Linked
    <1>11. Identified'
        <2>1. ASSUME NEW mb \in pool, Holds(x), mb.id = x.mb.id
              PROVE  mb = x.mb /\ x.stage # "built"
            <3>1. mb.id # made + 1
                <4>1. mb.id \in 2 .. made  BY DEF Typed, IsMicroblock
                <4> QED  BY <1>2, <4>1
            <3> QED  BY <2>1, <3>1 DEF Identified
        <2>2. \A mb, nb \in Known' : mb.id = nb.id => mb = nb
            BY <1>6, <1>8, <1>9, <2>1 DEF Known, Identified
        <2>3. ASSUME NEW d \in Clients, d # c, HasMicroblock(d), Holds(x)
              PROVE  client[d].mb.id # x.mb.id
            <3>1. client[d].mb.id # made + 1
                <4>1. client[d].mb.id \in 2 .. made  BY <2>3 DEF Typed, IsMicroblock
                <4> QED  BY <1>2, <4>1
            <3> QED  BY <2>3, <3>1 DEF Identified
        <2>4. ASSUME NEW d \in Clients, HasMicroblock(d)',
                     NEW mb \in pool', mb.id = client'[d].mb.id
              PROVE  mb = client'[d].mb /\ client'[d].stage # "built"
            <3>1. CASE d = c  BY <1>1, <1>5, <1>6, <2>1, <2>4, <3>1
            <3>2. CASE d # c
                <4>1. HasMicroblock(d) /\ client'[d] = client[d]  BY <1>1, <1>4, <2>4, <3>2
                <4>2. mb \in pool  BY <1>6, <2>3, <2>4, <3>2, <4>1
                <4> QED  BY <2>4, <4>1, <4>2 DEF Identified
            <3> QED  BY <3>1, <3>2
        <2>5. ASSUME NEW d \in Clients, NEW e \in Clients, HasMicroblock(d)', HasMicroblock(e)',
                     client'[d].mb.id = client'[e].mb.id, d # e
              PROVE  FALSE
            <3>1. CASE d = c  BY <1>1, <1>4, <1>5, <2>3, <2>5, <3>1
            <3>2. CASE e = c  BY <1>1, <1>4, <1>5, <2>3, <2>5, <3>2
            <3>3. CASE d # c /\ e # c  BY <1>1, <1>4, <2>5, <3>3 DEF Identified
            <3> QED  BY <3>1, <3>2, <3>3
        <2> QED  BY <2>2, <2>4, <2>5 DEF Identified
    <1>12. Placed'
        <2>1. \A y : IsPlaced(y) => IsPlaced(y)'  BY DEF IsPlaced
        <2> QED  BY <1>1, <2>1 DEF Placed
    <1>13. Priced'  BY <1>1, <1>4, <1>5 DEF Priced
    <1>14. ImportedOnce'  BY DEF ImportedOnce
    <1>15. ToldIsAnchored'
        <2>1. \A d \in Clients \ {c} : client'[d].stage = "told" =>
                 \E id \in DOMAIN chains' : \E mb \in ToSet(chains'[id].blocks) : mb.id = client'[d].mb.id
            BY <1>1 DEF ToldIsAnchored
        <2>2. client'[c].stage = "told" =>
                 \E id \in DOMAIN chains' : \E mb \in ToSet(chains'[id].blocks) : mb.id = client'[c].mb.id
            BY <1>1 DEF Anchored
        <2> QED  BY <2>1, <2>2 DEF ToldIsAnchored
    <1>16. InForce'  BY DEF InForce
    <1> QED  BY <1>7, <1>10, <1>11, <1>12, <1>13, <1>14, <1>15, <1>16

\* What a client with a microblock is.
LEMMA ClientHolding ==
    ASSUME Inductive, NEW c \in Clients, HasMicroblock(c)
    PROVE  /\ client[c] = [stage |-> client[c].stage, chain |-> client[c].chain,
                           height |-> client[c].height, mb |-> client[c].mb]
           /\ IsMicroblock(client[c].mb, made)
           /\ IsPlaced(client[c])
           /\ client[c].stage # "built" => client[c].mb.prices = stored[c]
    <1>1. IsClient(client[c]) /\ IsMicroblock(client[c].mb, made)  BY DEF Inductive, Typed
    <1>2. client[c] # Idle /\ client[c] # Loaded(client[c].chain, client[c].height)
        BY DEF HasMicroblock, Holds, Idle, Loaded
    <1> QED  BY <1>1, <1>2 DEF IsClient, Inductive, Placed, Priced

\* Seal, and the steps that only move a sealed microblock to another stage.
LEMMA SealedMoves ==
    ASSUME Inductive, NEW c \in Clients, HasMicroblock(c),
           NEW stage \in {"sealed", "unsure", "published", "told"}, NEW mb, NEW x,
           x = [stage |-> stage, chain |-> client[c].chain, height |-> client[c].height, mb |-> mb],
           client' = [client EXCEPT ![c] = x],
           UNCHANGED <<chains, made>>,
           \/ /\ client[c].stage # "built" /\ mb = client[c].mb
              /\ UNCHANGED stored
           \/ /\ client[c].stage = "built" /\ mb = [client[c].mb EXCEPT !.prices = ProtocolVariables(c)]
              /\ stored' = [stored EXCEPT ![c] = ProtocolVariables(c)],
           pool' \in {pool, pool \cup {mb}},
           stage = "told" => Anchored(mb)
    PROVE  Inductive'
    <1> DEFINE prices == mb.prices
    <1>1. /\ IsMicroblock(client[c].mb, made)
          /\ IsPlaced(client[c])
          /\ client[c].stage # "built" => client[c].mb.prices = stored[c]
        BY ClientHolding
    <1>2. /\ mb = [id |-> client[c].mb.id, kind |-> client[c].mb.kind, height |-> client[c].mb.height,
                   previous |-> client[c].mb.previous, prices |-> prices,
                   sections |-> client[c].mb.sections]
          /\ stored' = [d \in Clients |-> stored'[d]]
          /\ \A d \in Clients \ {c} : stored'[d] = stored[d]
          /\ prices = stored'[c]
        <2>1. stored = [d \in Clients |-> stored[d]]  BY DEF Inductive, Typed
        <2>2. client[c].mb = [id |-> client[c].mb.id, kind |-> client[c].mb.kind,
                              height |-> client[c].mb.height, previous |-> client[c].mb.previous,
                              prices |-> client[c].mb.prices, sections |-> client[c].mb.sections]
            BY <1>1 DEF IsMicroblock
        <2>3. CASE client[c].stage # "built"  BY <1>1, <2>1, <2>2, <2>3
        <2>4. CASE client[c].stage = "built"  BY <2>1, <2>2, <2>4
        <2> QED  BY <2>3, <2>4
    <1> HIDE DEF prices
    <1>3. IsMicroblock(mb, made)  BY <1>1, <1>2 DEF IsMicroblock
    <1>4. IsMicroblock(mb, made')  BY <1>3 DEF IsMicroblock
    <1>5. x.stage = stage /\ x.chain = client[c].chain /\ x.height = client[c].height /\ x.mb = mb
        OBVIOUS
    <1>6. Holds(x) /\ Holds(client[c]) /\ x.stage # "built" /\ x.stage # "loaded" /\ x.stage # "idle"
        BY <1>5 DEF Holds, HasMicroblock
    <1>7. client[c].stage # "idle"  BY <1>6 DEF Holds
    <1>8. IsClient(x)  BY <1>5, <1>6 DEF IsClient
    <1>9. IsPlaced(x)  BY <1>1, <1>2, <1>5, <1>6, <1>7 DEF IsPlaced
    <1>10. mb.id = client[c].mb.id /\ (client[c].stage # "built" => mb = client[c].mb)  BY <1>2
    <1>11. mb.prices = stored'[c]  BY <1>2 DEF prices
    <1> QED  BY ClientMoves, <1>2, <1>4, <1>5, <1>6, <1>8, <1>9, <1>10, <1>11

LEMMA ClientStepInductive ==
    ASSUME Inductive, NEW c \in Clients,
           \/ \E kind \in Kinds : \E sections \in Openings[kind] :
                CreateGenesisMicroblock(c, kind, sections)
           \/ \E id \in DOMAIN chains : Load(c, id)
           \/ \E sections \in AllOf(Extensions) : CreateMicroblock(c, sections)
           \/ Seal(c)
           \/ Publish(c)
           \/ PublishFails(c)
           \/ AwaitMicroblockAnchoring(c)
           \/ AwaitFails(c)
           \/ Leave(c)
    PROVE  Inductive'
    <1>1. /\ made \in Nat \ {0} /\ made + 1 \in 2 .. made + 1
          /\ client = [d \in Clients |-> client[d]]
          /\ stored = [d \in Clients |-> stored[d]]
        BY DEF Inductive, Typed
    <1>2. ASSUME NEW kind \in Kinds, NEW sections \in Openings[kind],
                 CreateGenesisMicroblock(c, kind, sections)
          PROVE  Inductive'
        <2> DEFINE mb == [id |-> made + 1, kind |-> kind, height |-> 1, previous |-> 0,
                          prices |-> 0, sections |-> sections]
                   x == Built(0, 0, mb)
        <2>1. x.stage = "built" /\ x.chain = 0 /\ x.height = 0 /\ x.mb = mb /\ Holds(x)
            BY DEF Built, Holds
        <2>2. IsClient(x)  BY <2>1 DEF IsClient, Built
        <2>3. IsPlaced(x)  BY <2>1 DEF IsPlaced
        <2>4. made' = made + 1  BY <1>2 DEF CreateGenesisMicroblock
        <2>5. IsMicroblock(mb, made')  BY <1>1, <2>4 DEF IsMicroblock
        <2>6. client' = [client EXCEPT ![c] = x] /\ UNCHANGED <<chains, pool, stored>>
            BY <1>2 DEF CreateGenesisMicroblock
        <2>7. x.mb.id = made + 1  BY <2>1
        <2> HIDE DEF x, mb
        <2> QED  BY ClientMoves, <1>1, <2>1, <2>2, <2>3, <2>4, <2>5, <2>6, <2>7
    <1>3. ASSUME NEW id \in DOMAIN chains, Load(c, id)
          PROVE  Inductive'
        <2> DEFINE x == Loaded(id, Len(chains[id].blocks))
        <2>1. /\ x.stage = "loaded" /\ x.chain = id /\ x.height = Len(chains[id].blocks)
              /\ ~Holds(x)
            BY DEF Loaded, Holds
        <2>2. IsClient(x)  BY <2>1 DEF IsClient
        <2>3. IsPlaced(x)
            <3>1. /\ id # 0
                  /\ Len(chains[id].blocks) \in DOMAIN chains[id].blocks
                <4>1. id \in Nat \ {0} /\ chains[id].blocks \in Seq(Known) /\ chains[id].blocks # <<>>
                    BY DEF Inductive, Linked, IsChain, Known
                <4> QED  BY <4>1
            <3> QED  BY <2>1, <3>1 DEF IsPlaced
        <2>4. /\ client' = [client EXCEPT ![c] = x]
              /\ UNCHANGED <<chains, pool, made>>
              /\ stored' = IF id = Protocol THEN [stored EXCEPT ![c] = VariablesInForce] ELSE stored
            BY <1>3 DEF Load
        <2>5. /\ stored' = [d \in Clients |-> stored'[d]]
              /\ \A d \in Clients \ {c} : stored'[d] = stored[d]
            BY <1>1, <2>4
        <2> HIDE DEF x
        <2> QED  BY ClientMoves, <2>1, <2>2, <2>3, <2>4, <2>5
    <1>4. ASSUME NEW sections, CreateMicroblock(c, sections)
          PROVE  Inductive'
        <2> DEFINE id == client[c].chain
                   height == client[c].height
                   mb == ExtendingMicroblock(id, height, sections)
                   x == Built(id, height, mb)
        <2>1. x.stage = "built" /\ x.chain = id /\ x.height = height /\ x.mb = mb /\ Holds(x)
            BY DEF Built, Holds
        <2>2. IsClient(x)  BY <2>1 DEF IsClient, Built
        <2>3. /\ id # 0 /\ id \in DOMAIN chains /\ height \in DOMAIN chains[id].blocks
              /\ height \in Nat \ {0}
              /\ chains[id].kind \in Kinds
            <3>1. client[c].stage = "loaded" /\ IsPlaced(client[c])
                BY <1>4 DEF CreateMicroblock, Inductive, Placed
            <3>2. id # 0 /\ id \in DOMAIN chains /\ height \in DOMAIN chains[id].blocks
                BY <3>1 DEF IsPlaced
            <3>3. chains[id].blocks \in Seq(Known) /\ chains[id].kind \in Kinds
                BY <3>2 DEF Inductive, Linked, IsChain, Known
            <3> QED  BY <3>2, <3>3
        <2>4. mb = [id |-> made + 1, kind |-> chains[id].kind, height |-> height + 1,
                    previous |-> chains[id].blocks[height].id, prices |-> 0, sections |-> sections]
            BY DEF ExtendingMicroblock
        <2>5. /\ made' = made + 1
              /\ client' = [client EXCEPT ![c] = x]
              /\ UNCHANGED <<chains, pool, stored>>
              /\ sections \in Extensions[chains[id].kind]
            BY <1>4 DEF CreateMicroblock
        <2> HIDE DEF mb, id, height
        <2>6. IsPlaced(x)  BY <2>1, <2>3, <2>4 DEF IsPlaced
        <2>7. IsMicroblock(mb, made')  BY <1>1, <2>3, <2>4, <2>5 DEF IsMicroblock
        <2>8. x.mb.id = made + 1  BY <2>1, <2>4
        <2> HIDE DEF x
        <2> QED  BY ClientMoves, <1>1, <2>1, <2>2, <2>5, <2>6, <2>7, <2>8
    <1>5. CASE Seal(c)
        <2> DEFINE mb == [client[c].mb EXCEPT !.prices = ProtocolVariables(c)]
                   x == [stage |-> "sealed", chain |-> client[c].chain, height |-> client[c].height,
                         mb |-> mb]
        <2>1. client[c].stage = "built" /\ HasMicroblock(c)  BY <1>5 DEF Seal, HasMicroblock, Holds
        <2>2. client[c] = [stage |-> client[c].stage, chain |-> client[c].chain,
                           height |-> client[c].height, mb |-> client[c].mb]
            BY <2>1, ClientHolding
        <2>3. client' = [client EXCEPT ![c] = x]
            <3>1. client' = [client EXCEPT ![c].stage = "sealed", ![c].mb.prices = ProtocolVariables(c)]
                BY <1>5 DEF Seal
            <3>2. client'[c] = x /\ \A d \in Clients \ {c} : client'[d] = client[d]
                BY <1>1, <2>2, <3>1
            <3>3. client' = [d \in Clients |-> client'[d]]  BY <1>1, <3>1
            <3> HIDE DEF x
            <3> QED  BY <1>1, <3>2, <3>3
        <2>4. /\ stored' = [stored EXCEPT ![c] = ProtocolVariables(c)]
              /\ UNCHANGED <<chains, pool, made>>
            BY <1>5 DEF Seal
        <2> HIDE DEF mb
        <2>5. mb = [client[c].mb EXCEPT !.prices = ProtocolVariables(c)]  BY DEF mb
        <2> QED  BY SealedMoves, <2>1, <2>3, <2>4, <2>5
    <1>6. ASSUME NEW stage \in {"sealed", "unsure", "published", "told"},
                 client[c].stage \in {"sealed", "unsure", "published"},
                 client' = [client EXCEPT ![c].stage = stage],
                 UNCHANGED <<chains, stored, made>>,
                 pool' \in {pool, pool \cup {client[c].mb}},
                 stage = "told" => Anchored(client[c].mb)
          PROVE  Inductive'
        <2> DEFINE x == [stage |-> stage, chain |-> client[c].chain, height |-> client[c].height,
                         mb |-> client[c].mb]
        <2>1. HasMicroblock(c) /\ client[c].stage # "built"  BY <1>6 DEF HasMicroblock, Holds
        <2>2. client[c] = [stage |-> client[c].stage, chain |-> client[c].chain,
                           height |-> client[c].height, mb |-> client[c].mb]
            BY <2>1, ClientHolding
        <2>3. client' = [client EXCEPT ![c] = x]
            <3>1. client'[c] = x /\ \A d \in Clients \ {c} : client'[d] = client[d]
                BY <1>1, <1>6, <2>2
            <3>2. client' = [d \in Clients |-> client'[d]]  BY <1>1, <1>6
            <3> HIDE DEF x
            <3> QED  BY <1>1, <3>1, <3>2
        <2> QED  BY SealedMoves, <1>6, <2>1, <2>3
    <1>7. CASE Publish(c)  BY <1>6, <1>7 DEF Publish
    <1>8. CASE PublishFails(c)  BY <1>6, <1>8 DEF PublishFails
    <1>9. CASE AwaitMicroblockAnchoring(c)  BY <1>6, <1>9 DEF AwaitMicroblockAnchoring
    <1>10. CASE AwaitFails(c)  BY <1>6, <1>10 DEF AwaitFails
    <1>11. CASE Leave(c)
        <2>1. /\ client' = [client EXCEPT ![c] = Idle]
              /\ UNCHANGED <<chains, pool, stored, made>>
            BY <1>11 DEF Leave
        <2>2. Idle.stage = "idle" /\ ~Holds(Idle)  BY DEF Idle, Holds
        <2>3. IsClient(Idle) /\ IsPlaced(Idle)  BY <2>2 DEF IsClient, IsPlaced
        <2> QED  BY ClientMoves, <1>1, <2>1, <2>2, <2>3
    <1> QED  BY <1>2, <1>3, <1>4, <1>5, <1>7, <1>8, <1>9, <1>10, <1>11

-----------------------------------------------------------------------------
(* What a microblock does to a state *)

LEMMA LastAtAppended ==
    ASSUME NEW S, NEW blocks \in Seq(S), NEW mb, mb.height = Len(blocks) + 1,
           NEW type, NEW height, LastAt(blocks, type, height)
    PROVE  LastAt(Append(blocks, mb), type, HeightIf(mb, type, height))
    <1> DEFINE new == Append(blocks, mb)
               n == Len(blocks)
    <1>1. /\ n \in Nat /\ Len(new) = n + 1
          /\ \A h \in 1 .. n : new[h] = blocks[h]
          /\ new[n + 1] = mb
        OBVIOUS
    <1> HIDE DEF new, n
    <1>2. /\ height \in 0 .. n
          /\ height # 0 => Declares(blocks[height], type)
          /\ \A h \in height + 1 .. n : ~Declares(blocks[h], type)
        BY DEF LastAt, n
    <1>3. CASE Declares(mb, type)
        <2>1. HeightIf(mb, type, height) = n + 1  BY <1>3 DEF HeightIf, n
        <2>2. n + 1 \in 0 .. n + 1 /\ \A h \in (n + 1) + 1 .. n + 1 : FALSE  BY <1>1
        <2> QED  BY <1>1, <1>3, <2>1, <2>2 DEF LastAt, new
    <1>4. CASE ~Declares(mb, type)
        <2>1. HeightIf(mb, type, height) = height  BY <1>4 DEF HeightIf
        <2>2. height # 0 => height \in 1 .. n /\ Declares(new[height], type)  BY <1>1, <1>2
        <2>3. ASSUME NEW h \in height + 1 .. n + 1 PROVE ~Declares(new[h], type)
            <3>1. h = n + 1 \/ (h \in height + 1 .. n /\ h \in 1 .. n)  BY <1>1, <1>2
            <3> QED  BY <1>1, <1>2, <1>4, <3>1
        <2>4. height \in 0 .. n + 1  BY <1>1, <1>2
        <2> QED  BY <1>1, <2>1, <2>2, <2>3, <2>4 DEF LastAt, new
    <1> QED  BY <1>3, <1>4

LEMMA LastIsAppended ==
    ASSUME NEW S, NEW blocks \in Seq(S), NEW mb, mb.height = Len(blocks) + 1,
           NEW type, NEW first, NEW value, LastIs(blocks, type, first, value)
    PROVE  LastIs(Append(blocks, mb), type, first, Assigned(mb, type, value))
    <1> DEFINE new == Append(blocks, mb)
    <1>1. PICK height \in 0 .. Len(blocks) :
            /\ LastAt(blocks, type, height)
            /\ value = IF height = 0 THEN first ELSE LastValue(blocks[height], type)
        BY DEF LastIs
    <1>2. LastAt(new, type, HeightIf(mb, type, height))  BY <1>1, LastAtAppended
    <1>3. /\ Len(blocks) \in Nat /\ new[Len(blocks) + 1] = mb
          /\ \A h \in 1 .. Len(blocks) : new[h] = blocks[h]
        OBVIOUS
    <1> HIDE DEF new
    <1>4. HeightIf(mb, type, height) \in 0 .. Len(new)  BY <1>2 DEF LastAt
    <1>5. CASE Declares(mb, type)
        <2>1. HeightIf(mb, type, height) = Len(blocks) + 1 /\ Assigned(mb, type, value) = LastValue(mb, type)
            BY <1>5 DEF HeightIf, Assigned
        <2>2. Len(blocks) + 1 # 0  BY <1>3
        <2> QED  BY <1>2, <1>3, <1>4, <2>1, <2>2 DEF LastIs, new
    <1>6. CASE ~Declares(mb, type)
        <2>1. HeightIf(mb, type, height) = height /\ Assigned(mb, type, value) = value
            BY <1>6 DEF HeightIf, Assigned
        <2>2. height # 0 => new[height] = blocks[height]  BY <1>1, <1>3
        <2> QED  BY <1>1, <1>2, <1>4, <2>1, <2>2 DEF LastIs, new
    <1> QED  BY <1>5, <1>6

LEMMA UpdatedIsState ==
    ASSUME NEW S, NEW kind \in Kinds, NEW blocks \in Seq(S), NEW state, NEW mb,
           mb.height = Len(blocks) + 1,
           IsStateOf(state, [kind |-> kind, blocks |-> blocks, state |-> state])
    PROVE  IsStateOf(Updated(kind, state, mb),
                     [kind |-> kind, blocks |-> Append(blocks, mb), state |-> Updated(kind, state, mb)])
    <1> DEFINE old == [kind |-> kind, blocks |-> blocks, state |-> state]
               next == Updated(kind, state, mb)
               appended == Append(blocks, mb)
               new == [kind |-> kind, blocks |-> appended, state |-> next]
    <1>1. old.kind = kind /\ old.blocks = blocks /\ new.kind = kind /\ new.blocks = appended
        OBVIOUS
    <1>2. IsStateOf(state, old)  OBVIOUS
    <1> SUFFICES IsStateOf(next, new)
        OBVIOUS
    <1>3. /\ \A type, height : LastAt(blocks, type, height) =>
               LastAt(appended, type, HeightIf(mb, type, height))
          /\ \A type, first, value : LastIs(blocks, type, first, value) =>
               LastIs(appended, type, first, Assigned(mb, type, value))
        BY LastAtAppended, LastIsAppended
    <1>4. /\ Len(blocks) \in Nat /\ appended[Len(blocks) + 1] = mb
          /\ \A h \in 1 .. Len(blocks) : appended[h] = blocks[h]
        OBVIOUS
    <1> HIDE DEF appended, old, new
    <1>5. CASE kind = "account"
        <2> DEFINE key == "ACCOUNT_PUBLIC_KEY"
        <2>1. /\ LastAt(blocks, key, state.keyHeight)
              /\ state.keyHeight # 0 => state.scheme = LastValue(blocks[state.keyHeight], key).scheme
            BY <1>1, <1>2, <1>5 DEF IsStateOf
        <2>2. next = [scheme    |-> IF Declares(mb, key) THEN LastValue(mb, key).scheme ELSE state.scheme,
                      keyHeight |-> HeightIf(mb, key, state.keyHeight)]
            BY <1>5 DEF Updated, UpdatedAccount
        <2> HIDE DEF key, next
        <2>3. next = [scheme |-> next.scheme, keyHeight |-> next.keyHeight]  BY <2>2
        <2>4. LastAt(appended, key, next.keyHeight)  BY <1>3, <2>1, <2>2
        <2>5. ASSUME next.keyHeight # 0
              PROVE  next.scheme = LastValue(appended[next.keyHeight], key).scheme
            <3>1. CASE Declares(mb, key)  BY <1>4, <2>2, <3>1 DEF HeightIf
            <3>2. CASE ~Declares(mb, key)
                <4>1. next.keyHeight = state.keyHeight /\ next.scheme = state.scheme
                    BY <2>2, <3>2 DEF HeightIf
                <4>2. state.keyHeight \in 1 .. Len(blocks)  BY <1>4, <2>1, <2>5, <4>1 DEF LastAt
                <4> QED  BY <1>4, <2>1, <2>5, <4>1, <4>2
            <3> QED  BY <3>1, <3>2
        <2> QED  BY <1>1, <1>5, <2>3, <2>4, <2>5 DEF IsStateOf, key
    <1>6. CASE kind = "organization"
        <2>1. LastAt(blocks, "ORG_DESCRIPTION", state.descriptionHeight)
            BY <1>1, <1>2, <1>6 DEF IsStateOf
        <2>2. next.descriptionHeight = HeightIf(mb, "ORG_DESCRIPTION", state.descriptionHeight)
            BY <1>6 DEF Updated, UpdatedOrganization
        <2> HIDE DEF next
        <2> QED  BY <1>1, <1>3, <1>6, <2>1, <2>2 DEF IsStateOf
    <1>7. CASE kind = "application"
        <2>1. LastAt(blocks, "APP_DESCRIPTION", state.descriptionHeight)
            BY <1>1, <1>2, <1>7 DEF IsStateOf
        <2>2. next.descriptionHeight = HeightIf(mb, "APP_DESCRIPTION", state.descriptionHeight)
            BY <1>7 DEF Updated, UpdatedApplication
        <2> HIDE DEF next
        <2> QED  BY <1>1, <1>3, <1>7, <2>1, <2>2 DEF IsStateOf
    <1>8. CASE kind = "node"
        <2>1. /\ LastAt(blocks, "VN_COMETBFT_PUBLIC_KEY_DECLARATION", state.keyHeight)
              /\ LastAt(blocks, "VN_RPC_ENDPOINT", state.rpcHeight)
              /\ LastIs(blocks, "VN_APPROVAL", FALSE, state.approved)
            BY <1>1, <1>2, <1>8 DEF IsStateOf
        <2>2. /\ next.keyHeight = HeightIf(mb, "VN_COMETBFT_PUBLIC_KEY_DECLARATION", state.keyHeight)
              /\ next.rpcHeight = HeightIf(mb, "VN_RPC_ENDPOINT", state.rpcHeight)
              /\ next.approved = Assigned(mb, "VN_APPROVAL", state.approved)
            BY <1>8 DEF Updated, UpdatedNode
        <2> HIDE DEF next
        <2> QED  BY <1>1, <1>3, <1>8, <2>1, <2>2 DEF IsStateOf
    <1>9. CASE kind = "protocol"
        <2>1. LastIs(blocks, "PROTOCOL_UPDATE", 1, state.variables)
            BY <1>1, <1>2, <1>9 DEF IsStateOf
        <2>2. next.variables = Assigned(mb, "PROTOCOL_UPDATE", state.variables)
            BY <1>9 DEF Updated, UpdatedProtocol
        <2> HIDE DEF next
        <2> QED  BY <1>1, <1>3, <1>9, <2>1, <2>2 DEF IsStateOf
    <1> QED  BY <1>5, <1>6, <1>7, <1>8, <1>9 DEF Kinds

LEMMA InitialIsState ==
    ASSUME NEW kind \in Kinds
    PROVE  IsStateOf(InitialState(kind), [kind |-> kind, blocks |-> <<>>, state |-> InitialState(kind)])
    <1> DEFINE state == InitialState(kind)
               chain == [kind |-> kind, blocks |-> <<>>, state |-> state]
    <1> SUFFICES IsStateOf(state, chain)
        OBVIOUS
    <1>1. \A type : LastAt(<<>>, type, 0)  BY DEF LastAt
    <1>2. \A type, first : LastIs(<<>>, type, first, first)  BY <1>1 DEF LastIs
    <1>3. chain.kind = kind /\ chain.blocks = <<>>  OBVIOUS
    <1> HIDE DEF chain
    <1>4. /\ kind = "account" => state = [scheme |-> 0, keyHeight |-> 0]
          /\ kind \in {"organization", "application"} => state.descriptionHeight = 0
          /\ kind = "node" => state.keyHeight = 0 /\ state.rpcHeight = 0 /\ state.approved = FALSE
          /\ kind = "protocol" => state.variables = 1
        BY DEF InitialState, InitialAccountState, InitialOrganizationState, InitialApplicationState,
               InitialNodeState, InitialProtocolState
    <1> HIDE DEF state
    <1>5. kind = "account" => /\ state = [scheme |-> state.scheme, keyHeight |-> state.keyHeight]
                              /\ state.keyHeight = 0
        BY <1>4
    <1>6. CASE kind = "account"  BY <1>1, <1>3, <1>5, <1>6 DEF IsStateOf
    <1>7. CASE kind \in {"organization", "application"}  BY <1>1, <1>3, <1>4, <1>7 DEF IsStateOf
    <1>8. CASE kind = "node"
        <2>1. LastIs(<<>>, "VN_APPROVAL", FALSE, state.approved)  BY <1>2, <1>4, <1>8
        <2> QED  BY <1>1, <1>3, <1>4, <1>8, <2>1 DEF IsStateOf
    <1>9. CASE kind = "protocol"
        <2>1. LastIs(<<>>, "PROTOCOL_UPDATE", 1, state.variables)  BY <1>2, <1>4, <1>9
        <2> QED  BY <1>3, <1>9, <2>1 DEF IsStateOf
    <1> QED  BY <1>6, <1>7, <1>8, <1>9 DEF Kinds

-----------------------------------------------------------------------------
(* The node *)

\* A microblock that the node takes makes a chain or is the next one of its chain, and
\* is in no chain yet.
LEMMA ImportPlace ==
    ASSUME Linked, Identified, Typed, ImportedOnce,
           NEW mb \in pool, ~NodeHasChain(mb), Accepted(mb)
    PROVE  /\ mb.height = 1 => ChainOf(mb) = mb.id /\ mb.id \notin DOMAIN chains
           /\ mb.height # 1 =>
                /\ ChainOf(mb) \in DOMAIN chains
                /\ mb.kind = chains[ChainOf(mb)].kind
                /\ mb.height = Len(chains[ChainOf(mb)].blocks) + 1
                /\ mb.previous = chains[ChainOf(mb)].blocks[Len(chains[ChainOf(mb)].blocks)].id
           /\ \A id \in DOMAIN chains : \A h \in DOMAIN chains[id].blocks : chains[id].blocks[h].id # mb.id
    <1> DEFINE at == ChainOf(mb)
    <1>1. mb.height \in Nat \ {0} /\ mb \in Known  BY DEF Typed, IsMicroblock, Known
    <1>2. \A id \in DOMAIN chains :
            /\ chains[id].blocks \in Seq(Known) /\ chains[id].blocks # <<>>
            /\ chains[id].blocks[1].id = id
            /\ \A h \in DOMAIN chains[id].blocks :
                 /\ chains[id].blocks[h] \in Known
                 /\ chains[id].blocks[h].height = h
                 /\ h > 1 => chains[id].blocks[h].previous = chains[id].blocks[h - 1].id
        BY DEF Linked, IsChain, Known
    <1>3. ASSUME mb.height # 1
          PROVE  /\ at \in DOMAIN chains
                 /\ mb.kind = chains[at].kind
                 /\ mb.height = Len(chains[at].blocks) + 1
                 /\ mb.previous = chains[at].blocks[Len(chains[at].blocks)].id
        <2>1. mb.height > 1  BY <1>1, <1>3
        <2>2. \E id \in DOMAIN chains : \E b \in ToSet(chains[id].blocks) : b.id = mb.previous
            BY <2>1 DEF Accepted, PreviousKnown, ToSet
        <2>3. at \in DOMAIN chains  BY <1>3, <2>2 DEF ChainOf
        <2>4. Fits(mb)  BY <2>1 DEF Accepted
        <2> QED  BY <2>3, <2>4 DEF Fits, Last
    <1>4. ASSUME mb.height = 1 PROVE at = mb.id /\ mb.id \notin DOMAIN chains
        BY <1>4 DEF ChainOf, NodeHasChain
    <1> HIDE DEF at
    <1>5. ASSUME NEW id \in DOMAIN chains, NEW h \in DOMAIN chains[id].blocks, chains[id].blocks[h].id = mb.id
          PROVE  FALSE
        <2>1. chains[id].blocks[h] = mb /\ mb.height = h
            BY <1>1, <1>2, <1>5 DEF Identified
        <2>2. CASE mb.height = 1  BY <1>2, <1>4, <1>5, <2>1, <2>2
        <2>3. CASE mb.height # 1
            <3> DEFINE n == Len(chains[at].blocks)
            <3>1. n \in Nat \ {0} /\ n \in DOMAIN chains[at].blocks  BY <1>2, <1>3, <2>3
            <3>2. h = n + 1 /\ h > 1 /\ h - 1 \in DOMAIN chains[id].blocks
                <4>1. chains[id].blocks \in Seq(Known)  BY <1>2
                <4>2. h = n + 1  BY <1>3, <2>1, <2>3
                <4> QED  BY <3>1, <4>1, <4>2
            <3>3. chains[id].blocks[h - 1].id = chains[at].blocks[n].id
                BY <1>2, <1>3, <2>1, <2>3, <3>2
            <3>4. id = at  BY <1>3, <2>3, <3>1, <3>2, <3>3 DEF ImportedOnce
            <3>5. h <= n
                <4>1. chains[id].blocks \in Seq(Known)  BY <1>2
                <4> QED  BY <3>4, <4>1
            <3> QED  BY <3>1, <3>2, <3>5
        <2> QED  BY <2>2, <2>3
    <1> QED  BY <1>3, <1>4, <1>5 DEF at

LEMMA ImportInductive ==
    ASSUME Inductive, NEW mb \in pool, Import(mb)
    PROVE  Inductive'
    <1> USE DEF Inductive
    <1> DEFINE at == ChainOf(mb)
               blocks == IF mb.height = 1 THEN <<>> ELSE chains[at].blocks
               state == IF mb.height = 1 THEN InitialState(mb.kind) ELSE chains[at].state
               new == [kind |-> mb.kind, blocks |-> Append(blocks, mb), state |-> Updated(mb.kind, state, mb)]
    <1>1. /\ ~NodeHasChain(mb) /\ Accepted(mb)
          /\ chains' = [id \in DOMAIN chains \cup {at} |-> IF id = at THEN Appended(mb) ELSE chains[id]]
          /\ UNCHANGED <<pool, client, stored, made>>
        BY DEF Import
    <1>2. /\ mb.height = 1 => at = mb.id /\ mb.id \notin DOMAIN chains
          /\ mb.height # 1 =>
               /\ at \in DOMAIN chains
               /\ mb.kind = chains[at].kind
               /\ mb.height = Len(chains[at].blocks) + 1
               /\ mb.previous = chains[at].blocks[Len(chains[at].blocks)].id
          /\ \A id \in DOMAIN chains : \A h \in DOMAIN chains[id].blocks : chains[id].blocks[h].id # mb.id
        BY <1>1, ImportPlace
    <1>3. mb \in Known /\ mb.height \in Nat \ {0} /\ mb.kind \in Kinds /\ mb.id \in Nat \ {0}
        <2>1. IsMicroblock(mb, made)  BY DEF Typed
        <2>2. made \in Nat \ {0}  BY DEF Typed
        <2> QED  BY <2>1, <2>2 DEF IsMicroblock, Known
    <1>4. Appended(mb) = new
        <2>1. CASE mb.height = 1  BY <2>1 DEF Appended
        <2>2. CASE mb.height # 1  BY <1>2, <2>2 DEF Appended
        <2> QED  BY <2>1, <2>2
    <1>5. /\ blocks \in Seq(Known) /\ mb.height = Len(blocks) + 1
          /\ blocks = <<>> => at = mb.id
          /\ blocks # <<>> => blocks[1].id = at
          /\ at \in Nat \ {0}
        <2>1. CASE mb.height = 1  BY <1>2, <1>3, <2>1
        <2>2. CASE mb.height # 1
            <3>1. at \in Nat \ {0} /\ IsChain(at, chains[at], pool)  BY <1>2, <2>2 DEF Linked
            <3> QED  BY <1>2, <2>2, <3>1 DEF IsChain, Known
        <2> QED  BY <2>1, <2>2
    <1>6. IsStateOf(state, [kind |-> mb.kind, blocks |-> blocks, state |-> state])
        <2>1. CASE mb.height = 1  BY <1>3, <2>1, InitialIsState
        <2>2. CASE mb.height # 1
            <3>1. chains[at] = [kind |-> mb.kind, blocks |-> blocks, state |-> state]
                BY <1>2, <2>2 DEF Linked, IsChain
            <3>2. IsStateOf(chains[at].state, chains[at])  BY <1>2, <2>2 DEF InForce
            <3>3. chains[at].state = state  BY <2>2
            <3> QED  BY <3>1, <3>2, <3>3
        <2> QED  BY <2>1, <2>2
    <1>7. IsStateOf(Updated(mb.kind, state, mb), new)  BY <1>3, <1>5, <1>6, UpdatedIsState
    <1>8. \A h \in DOMAIN blocks : at \in DOMAIN chains /\ h \in DOMAIN chains[at].blocks
                                   /\ blocks[h] = chains[at].blocks[h] /\ mb.kind = chains[at].kind
        <2>1. CASE mb.height = 1  BY <2>1
        <2>2. CASE mb.height # 1  BY <1>2, <2>2
        <2> QED  BY <2>1, <2>2
    <1>9. blocks # <<>> => mb.previous = blocks[Len(blocks)].id
        <2>1. CASE mb.height = 1  BY <2>1
        <2>2. CASE mb.height # 1  BY <1>2, <2>2
        <2> QED  BY <2>1, <2>2
    <1>10. /\ at \in DOMAIN chains => DOMAIN chains' = DOMAIN chains
           /\ DOMAIN chains' = DOMAIN chains \cup {at}
           /\ chains'[at] = new
           /\ \A id \in DOMAIN chains : id # at => chains'[id] = chains[id]
           /\ chains' = [id \in DOMAIN chains' |-> chains'[id]]
        BY <1>1, <1>4
    <1>11. at \in DOMAIN chains => blocks = chains[at].blocks /\ mb.kind = chains[at].kind
        BY <1>2
    <1> HIDE DEF at, blocks, state
    <1>12. /\ new.kind = mb.kind /\ new.blocks = Append(blocks, mb) /\ new.state = Updated(mb.kind, state, mb)
           /\ Len(blocks) \in Nat
           /\ Len(new.blocks) = Len(blocks) + 1
           /\ DOMAIN new.blocks = 1 .. Len(blocks) + 1
           /\ DOMAIN blocks = 1 .. Len(blocks)
           /\ new.blocks[Len(blocks) + 1] = mb
           /\ \A h \in DOMAIN blocks : new.blocks[h] = blocks[h]
        BY <1>5
    <1>13. new = [kind |-> new.kind, blocks |-> new.blocks, state |-> new.state]
           /\ new.blocks \in Seq(Known) /\ new.blocks # <<>>
        BY <1>3, <1>5
    <1> HIDE DEF new
    <1>14. ASSUME NEW id \in DOMAIN chains
           PROVE  /\ id \in DOMAIN chains' /\ chains'[id].kind = chains[id].kind
                  /\ \A h \in DOMAIN chains[id].blocks : /\ h \in DOMAIN chains'[id].blocks
                                                         /\ chains'[id].blocks[h] = chains[id].blocks[h]
        <2>1. CASE id = at
            <3>1. blocks = chains[id].blocks /\ mb.kind = chains[id].kind  BY <1>11, <2>1
            <3>2. \A h \in DOMAIN blocks : h \in DOMAIN new.blocks  BY <1>12
            <3> QED  BY <1>10, <1>12, <2>1, <3>1, <3>2
        <2>2. CASE id # at  BY <1>10, <2>2
        <2> QED  BY <2>1, <2>2
    <1>15. Typed'  BY <1>1 DEF Typed, HasMicroblock
    <1>16. Linked'
        <2>1. ASSUME NEW id \in DOMAIN chains' PROVE id \in Nat \ {0} /\ IsChain(id, chains'[id], pool)
            <3>1. CASE id = at
                <4>1. chains'[id] = new  BY <1>10, <3>1
                <4>2. new.blocks[1].id = at
                    <5>1. CASE blocks = <<>>  BY <1>5, <1>12, <5>1
                    <5>2. CASE blocks # <<>>
                        <6>1. 1 \in DOMAIN blocks  BY <1>5, <5>2
                        <6> QED  BY <1>5, <1>12, <5>2, <6>1
                    <5> QED  BY <5>1, <5>2
                <4>3. ASSUME NEW h \in DOMAIN new.blocks
                      PROVE  /\ new.blocks[h].height = h
                             /\ new.blocks[h].kind = mb.kind
                             /\ h > 1 => new.blocks[h].previous = new.blocks[h - 1].id
                             /\ new.blocks[h] \in pool =>
                                  CheckMicroblockStructure(new.blocks[h].kind, TypesOf(new.blocks[h]), h = 1)
                    <5>1. CASE h \in DOMAIN blocks
                        <6>1. /\ at \in DOMAIN chains /\ h \in DOMAIN chains[at].blocks
                              /\ new.blocks[h] = chains[at].blocks[h] /\ mb.kind = chains[at].kind
                            BY <1>8, <1>12, <5>1
                        <6>2. h > 1 => /\ h - 1 \in DOMAIN blocks
                                       /\ new.blocks[h - 1] = chains[at].blocks[h - 1]
                            BY <1>8, <1>12, <5>1
                        <6>3. IsChain(at, chains[at], pool)  BY <6>1 DEF Linked
                        <6> QED  BY <6>1, <6>2, <6>3 DEF IsChain
                    <5>2. CASE h \notin DOMAIN blocks
                        <6>1. h = Len(blocks) + 1 /\ h = mb.height /\ new.blocks[h] = mb
                            BY <1>5, <1>12, <5>2
                        <6>2. h > 1 => mb.previous = new.blocks[h - 1].id
                            <7>1. SUFFICES ASSUME h > 1 PROVE mb.previous = new.blocks[h - 1].id
                                OBVIOUS
                            <7>2. blocks # <<>> /\ h - 1 = Len(blocks) /\ Len(blocks) \in DOMAIN blocks
                                BY <1>12, <6>1, <7>1
                            <7> QED  BY <1>9, <1>12, <7>2
                        <6>3. CheckMicroblockStructure(mb.kind, TypesOf(mb), h = 1)
                            BY <1>1, <6>1 DEF Accepted
                        <6> QED  BY <6>1, <6>2, <6>3
                    <5> QED  BY <5>1, <5>2
                <4>4. IsChain(at, new, pool)
                    BY <1>3, <1>12, <1>13, <4>2, <4>3 DEF IsChain, Known
                <4> QED  BY <1>5, <3>1, <4>1, <4>4
            <3>2. CASE id # at
                <4>1. id \in DOMAIN chains /\ chains'[id] = chains[id]  BY <1>10, <2>1, <3>2
                <4> QED  BY <4>1 DEF Linked
            <3> QED  BY <3>1, <3>2
        <2>2. Protocol \in DOMAIN chains'  BY <1>10 DEF Linked
        <2>3. pool' = pool  BY <1>1
        <2> QED  BY <1>10, <2>1, <2>2, <2>3 DEF Linked
    <1>17. Identified'  BY <1>1 DEF Identified, HasMicroblock, Known
    <1>18. Placed'
        <2>1. ASSUME NEW y, IsPlaced(y) PROVE IsPlaced(y)'
            <3>1. ASSUME y.stage # "idle", y.chain # 0
                  PROVE  /\ y.chain \in DOMAIN chains' /\ y.height \in DOMAIN chains'[y.chain].blocks
                         /\ chains'[y.chain].kind = chains[y.chain].kind
                         /\ chains'[y.chain].blocks[y.height] = chains[y.chain].blocks[y.height]
                <4>1. y.chain \in DOMAIN chains /\ y.height \in DOMAIN chains[y.chain].blocks
                    BY <2>1, <3>1 DEF IsPlaced
                <4> QED  BY <1>14, <4>1
            <3>2. Holds(y) => y.stage # "idle"  BY DEF Holds
            <3> QED  BY <2>1, <3>1, <3>2 DEF IsPlaced
        <2> QED  BY <1>1, <2>1 DEF Placed
    <1>19. Priced'  BY <1>1 DEF Priced, HasMicroblock
    <1>20. ImportedOnce'
        <2>1. ASSUME NEW id \in DOMAIN chains', NEW h \in DOMAIN chains'[id].blocks
              PROVE  \/ /\ id \in DOMAIN chains /\ h \in DOMAIN chains[id].blocks
                        /\ chains'[id].blocks[h] = chains[id].blocks[h]
                     \/ /\ id = at /\ h = Len(blocks) + 1
                        /\ chains'[id].blocks[h] = mb
            <3>1. CASE id = at
                <4>1. h \in DOMAIN blocks \/ h = Len(blocks) + 1  BY <1>10, <1>12, <2>1, <3>1
                <4>2. h \in DOMAIN blocks => /\ at \in DOMAIN chains /\ h \in DOMAIN chains[at].blocks
                                             /\ new.blocks[h] = chains[at].blocks[h]
                    BY <1>8, <1>12
                <4> QED  BY <1>10, <1>12, <3>1, <4>1, <4>2
            <3>2. CASE id # at  BY <1>10, <2>1, <3>2
            <3> QED  BY <3>1, <3>2
        <2>2. \A id \in DOMAIN chains' : \A h \in DOMAIN chains'[id].blocks :
                /\ chains'[id].blocks[h].height = h
                /\ h > 1 => chains'[id].blocks[h].previous = chains'[id].blocks[h - 1].id
            BY <1>16 DEF Linked, IsChain
        <2>3. ASSUME NEW id \in DOMAIN chains', NEW other \in DOMAIN chains',
                     NEW h \in DOMAIN chains'[id].blocks, NEW k \in DOMAIN chains'[other].blocks,
                     chains'[id].blocks[h].id = chains'[other].blocks[k].id
              PROVE  id = other /\ h = k
            <3>1. CASE chains'[id].blocks[h].id = mb.id
                BY <1>2, <2>1, <2>3, <3>1
            <3>2. CASE chains'[id].blocks[h].id # mb.id
                <4>1. /\ id \in DOMAIN chains /\ h \in DOMAIN chains[id].blocks
                      /\ chains'[id].blocks[h] = chains[id].blocks[h]
                      /\ other \in DOMAIN chains /\ k \in DOMAIN chains[other].blocks
                      /\ chains'[other].blocks[k] = chains[other].blocks[k]
                    BY <2>1, <2>3, <3>2
                <4> QED  BY <2>3, <4>1 DEF ImportedOnce
            <3> QED  BY <3>1, <3>2
        <2> QED  BY <2>2, <2>3 DEF ImportedOnce
    <1>21. ToldIsAnchored'
        <2>1. ASSUME NEW c \in Clients, client[c].stage = "told"
              PROVE  \E id \in DOMAIN chains' : \E nb \in ToSet(chains'[id].blocks) : nb.id = client[c].mb.id
            <3>1. PICK id \in DOMAIN chains : \E nb \in ToSet(chains[id].blocks) : nb.id = client[c].mb.id
                BY <2>1 DEF ToldIsAnchored
            <3>2. PICK h \in DOMAIN chains[id].blocks : chains[id].blocks[h].id = client[c].mb.id
                BY <3>1 DEF ToSet
            <3>3. /\ id \in DOMAIN chains' /\ h \in DOMAIN chains'[id].blocks
                  /\ chains'[id].blocks[h].id = client[c].mb.id
                BY <1>14, <3>2
            <3> QED  BY <3>3 DEF ToSet
        <2> QED  BY <1>1, <2>1 DEF ToldIsAnchored
    <1>22. InForce'
        <2>1. IsStateOf(new.state, new)  BY <1>7, <1>12
        <2>2. ASSUME NEW id \in DOMAIN chains' PROVE IsStateOf(chains'[id].state, chains'[id])
            <3>1. CASE id = at  BY <1>10, <2>1, <3>1
            <3>2. CASE id # at  BY <1>10, <2>2, <3>2 DEF InForce
            <3> QED  BY <3>1, <3>2
        <2> QED  BY <2>2 DEF InForce
    <1> QED  BY <1>15, <1>16, <1>17, <1>18, <1>19, <1>20, <1>21, <1>22

LEMMA InitInductive ==
    ASSUME Init
    PROVE  Inductive
    <1> DEFINE kind == "protocol"
               state == InitialState(kind)
               chain == [kind |-> kind, blocks |-> <<ProtocolGenesis>>,
                         state |-> Updated(kind, state, ProtocolGenesis)]
    <1>1. /\ chains = [id \in {Protocol} |-> chain]
          /\ pool = {} /\ made = 1
          /\ client = [c \in Clients |-> Idle]
          /\ stored = [c \in Clients |-> 0]
        BY DEF Init
    <1>2. /\ ProtocolGenesis.id = 1 /\ ProtocolGenesis.kind = kind /\ ProtocolGenesis.height = 1
          /\ Protocol = 1
        BY DEF ProtocolGenesis, Protocol
    <1>3. IsStateOf(chain.state, chain)
        <2>1. kind \in Kinds  BY DEF Kinds
        <2> DEFINE none == <<>>
                   next == Updated(kind, state, ProtocolGenesis)
        <2>2. none \in Seq(Known) /\ Len(none) = 0 /\ Append(none, ProtocolGenesis) = <<ProtocolGenesis>>
            OBVIOUS
        <2>3. IsStateOf(state, [kind |-> kind, blocks |-> none, state |-> state])
            BY <2>1, InitialIsState
        <2> HIDE DEF kind, state, none
        <2>4. ProtocolGenesis.height = Len(none) + 1  BY <1>2, <2>2
        <2>5. IsStateOf(next, [kind |-> kind, blocks |-> Append(none, ProtocolGenesis), state |-> next])
            BY <2>1, <2>2, <2>3, <2>4, UpdatedIsState
        <2> HIDE DEF next
        <2>6. IsStateOf(next, [kind |-> kind, blocks |-> <<ProtocolGenesis>>, state |-> next])
            BY <2>2, <2>5
        <2> QED  BY <2>6 DEF next
    <1>4. \A c \in Clients : client[c] = Idle /\ ~HasMicroblock(c)
        BY <1>1 DEF HasMicroblock, Holds, Idle
    <1>5. Typed  BY <1>1, <1>4 DEF Typed, IsClient
    <1>6. DOMAIN chains = {1} /\ chains[1] = chain /\ chains = [id \in DOMAIN chains |-> chains[id]]
        BY <1>1, <1>2
    <1>7. /\ chain.blocks = <<ProtocolGenesis>> /\ chain.kind = kind
          /\ DOMAIN chain.blocks = {1} /\ chain.blocks[1] = ProtocolGenesis
        OBVIOUS
    <1>8. chain = [kind |-> chain.kind, blocks |-> chain.blocks, state |-> chain.state]
        OBVIOUS
    <1>9. <<ProtocolGenesis>> \in Seq({} \cup {ProtocolGenesis}) /\ <<ProtocolGenesis>> # <<>>
        OBVIOUS
    <1>10. kind \in Kinds  BY DEF Kinds
    <1> HIDE DEF chain, state, kind
    <1>11. Linked
        <2>1. IsChain(1, chain, {})  BY <1>2, <1>7, <1>8, <1>9, <1>10 DEF IsChain
        <2> QED  BY <1>1, <1>2, <1>6, <2>1 DEF Linked
    <1>12. Identified  BY <1>1, <1>4 DEF Identified, Known
    <1>13. Placed  BY <1>4 DEF Placed, IsPlaced, Holds, Idle
    <1>14. Priced  BY <1>4 DEF Priced
    <1>15. ImportedOnce  BY <1>2, <1>6, <1>7 DEF ImportedOnce
    <1>16. ToldIsAnchored  BY <1>4 DEF ToldIsAnchored, Idle
    <1>17. InForce  BY <1>3, <1>6 DEF InForce
    <1> QED  BY <1>5, <1>11, <1>12, <1>13, <1>14, <1>15, <1>16, <1>17 DEF Inductive

LEMMA NextInductive ==
    ASSUME Inductive, [Next]_vars
    PROVE  Inductive'
    <1>1. CASE UNCHANGED vars
        <2>1. UNCHANGED <<chains, pool, client, stored, made>>  BY <1>1 DEF vars
        <2> QED  BY <2>1 DEF Inductive, Typed, HasMicroblock, Linked, Identified, Known, Placed, IsPlaced,
                            Priced, ImportedOnce, ToldIsAnchored, InForce
    <1>2. CASE Next  BY <1>2, ClientStepInductive, ImportInductive DEF Next
    <1> QED  BY <1>1, <1>2

\* In every reachable state the invariant holds.
THEOREM ImportsInvariant == Spec => []Inductive
    <1>1. Init => Inductive  BY InitInductive
    <1>2. Inductive /\ [Next]_vars => Inductive'  BY NextInductive
    <1> QED  BY <1>1, <1>2, PTL DEF Spec

\* However often a microblock is published, lost, repeated or delayed, it is in one place
\* of one chain, and every chain is linked by the previous hashes.
THEOREM MicroblocksImportedOnce == Spec => []ImportedOnce
    <1>1. Inductive => ImportedOnce  BY DEF Inductive
    <1> QED  BY <1>1, ImportsInvariant, PTL

\* A client that awaitMicroblockAnchoring told its microblock is anchored finds it in a
\* chain for good.
THEOREM ToldMicroblocksStay == Spec => []ToldIsAnchored
    <1>1. Inductive => ToldIsAnchored  BY DEF Inductive
    <1> QED  BY <1>1, ImportsInvariant, PTL

LEMMA FreshAccepted ==
    ASSUME Inductive
    PROVE  FreshIsAccepted
    <1> USE DEF Inductive
    <1> SUFFICES ASSUME NEW c \in Clients,
                        client[c].stage \in {"sealed", "published", "unsure"},
                        client[c].chain # 0 => Len(chains[client[c].chain].blocks) = client[c].height,
                        stored[c] = VariablesInForce,
                        CheckMicroblockStructure(client[c].mb.kind, TypesOf(client[c].mb),
                                                 client[c].height = 0),
                        ~UpdateThrows(client[c].mb.kind, client[c].mb)
                 PROVE  Accepted(client[c].mb)
        BY DEF FreshIsAccepted
    <1> DEFINE mb == client[c].mb
               id == client[c].chain
               height == client[c].height
    <1>1. HasMicroblock(c) /\ client[c].stage # "built" /\ client[c].stage # "idle"
        BY DEF HasMicroblock, Holds
    <1>2. IsPlaced(client[c]) /\ mb.prices = stored[c]  BY <1>1, ClientHolding
    <1>3. /\ height \in Nat /\ mb.height = height + 1
          /\ id = 0 => height = 0
          /\ id # 0 => /\ id \in DOMAIN chains /\ height \in DOMAIN chains[id].blocks
                       /\ mb.kind = chains[id].kind
                       /\ mb.previous = chains[id].blocks[height].id
        BY <1>1, <1>2 DEF IsPlaced, HasMicroblock
    <1>4. CheckMicroblockStructure(mb.kind, TypesOf(mb), mb.height = 1)
        <2>1. (height = 0) = (mb.height = 1)  BY <1>3
        <2> QED  BY <2>1
    <1>5. mb.prices = VariablesInForce  BY <1>2
    <1>6. ASSUME mb.height > 1 PROVE PreviousKnown(mb) /\ Fits(mb)
        <2>1. id # 0  BY <1>3, <1>6
        <2>2. PreviousKnown(mb)  BY <1>3, <2>1 DEF PreviousKnown
        <2>3. ChainOf(mb) = id
            <3> DEFINE Has(other) == \E b \in ToSet(chains[other].blocks) : b.id = mb.previous
            <3>1. Has(id)  BY <1>3, <2>1 DEF ToSet
            <3>2. ASSUME NEW other \in DOMAIN chains, Has(other) PROVE other = id
                <4>1. PICK k \in DOMAIN chains[other].blocks : chains[other].blocks[k].id = mb.previous
                    BY <3>2 DEF ToSet
                <4> QED  BY <1>3, <2>1, <4>1 DEF ImportedOnce
            <3>3. ChainOf(mb) = CHOOSE other \in DOMAIN chains : Has(other)
                <4>1. mb.height # 1  BY <1>3, <1>6
                <4> QED  BY <4>1 DEF ChainOf
            <3> HIDE DEF Has
            <3> QED  BY <1>3, <2>1, <3>1, <3>2, <3>3
        <2>4. Len(chains[id].blocks) = height  BY <2>1
        <2> QED  BY <1>3, <2>1, <2>2, <2>3, <2>4 DEF Fits, Last
    <1> QED  BY <1>4, <1>5, <1>6 DEF Accepted

\* The checks of MicroblockConsistencyChecker and of appendMicroBlock refuse nothing that
\* createMicroblock and setGasAndSeal make, except for what its client chose to put in, for
\* a microblock that came first, or for prices that are not in force any more.
THEOREM FreshMicroblocksAccepted == Spec => []FreshIsAccepted
    <1>1. Inductive => FreshIsAccepted  BY FreshAccepted
    <1> QED  BY <1>1, ImportsInvariant, PTL

-----------------------------------------------------------------------------
(* The readers *)

\* A microblock out of the pool has a client's contents.
LEMMA PoolContents ==
    ASSUME Typed, NEW mb \in pool
    PROVE  /\ Len(mb.sections) \in Nat /\ DOMAIN mb.sections = 1 .. Len(mb.sections)
           /\ Len(TypesOf(mb)) = Len(mb.sections)
           /\ \A i \in 1 .. Len(mb.sections) :
                /\ TypesOf(mb)[i] = mb.sections[i].type
                /\ mb.sections[i].type \in Read => mb.sections[i].value # NotFound
                /\ mb.sections[i].type = "ACCOUNT_PUBLIC_KEY" =>
                     mb.sections[i].value = [scheme |-> mb.sections[i].value.scheme,
                                             key |-> mb.sections[i].value.key]
    <1> DEFINE sections == mb.sections
               n == Len(sections)
    <1>1. mb.kind \in Kinds /\ sections \in Openings[mb.kind] \cup Extensions[mb.kind]
        BY DEF Typed, IsMicroblock
    <1>2. /\ n \in Nat /\ DOMAIN sections = 1 .. n
          /\ \A i \in DOMAIN sections :
               /\ sections[i].type \in Read => sections[i].value # NotFound
               /\ sections[i].type = "ACCOUNT_PUBLIC_KEY" =>
                    sections[i].value = [scheme |-> sections[i].value.scheme, key |-> sections[i].value.key]
        BY <1>1, ContentsAssumption
    <1>3. TypesOf(mb) = [i \in 1 .. n |-> sections[i].type]  BY <1>2 DEF TypesOf
    <1> HIDE DEF n
    <1>4. Len(TypesOf(mb)) = n  BY <1>2, <1>3
    <1> QED  BY <1>2, <1>3, <1>4 DEF n

\* The microblocks of a chain have the layout of their kind and place.
LEMMA ChainLayout ==
    ASSUME Typed, Linked, NEW id \in DOMAIN chains, NEW h \in DOMAIN chains[id].blocks,
           chains[id].kind # "protocol"
    PROVE  LET mb == chains[id].blocks[h]
               types == TypesOf(mb)
               kind == chains[id].kind
           IN /\ mb \in pool
              /\ kind = "account" =>
                   /\ Once(types, "ACCOUNT_PUBLIC_KEY")
                   /\ h = 1 => Present(types, "ACCOUNT_PUBLIC_KEY")
              /\ kind = "organization" =>
                   /\ Once(types, "ORG_DESCRIPTION")
                   /\ h # 1 => Absent(types, "ORG_CREATION")
              /\ kind = "application" =>
                   /\ Once(types, "APP_DESCRIPTION")
                   /\ h # 1 => Absent(types, "APP_CREATION")
              /\ kind = "node" =>
                   /\ Once(types, "VN_COMETBFT_PUBLIC_KEY_DECLARATION")
                   /\ Once(types, "VN_RPC_ENDPOINT")
                   /\ h = 1 => /\ Present(types, "VN_COMETBFT_PUBLIC_KEY_DECLARATION")
                               /\ Present(types, "VN_RPC_ENDPOINT")
                   /\ h # 1 => Absent(types, "VN_CREATION")
    <1> DEFINE mb == chains[id].blocks[h]
               types == TypesOf(mb)
               kind == chains[id].kind
               first == (h = 1)
    <1>1. /\ mb \in pool \cup {ProtocolGenesis} /\ mb.kind = kind
          /\ mb \in pool => CheckMicroblockStructure(mb.kind, types, first)
        BY DEF Linked, IsChain
    <1>2. mb # ProtocolGenesis  BY <1>1 DEF ProtocolGenesis
    <1>3. CheckMicroblockStructure(kind, types, first)  BY <1>1, <1>2
    <1>4. Len(types) \in Nat
        <2>1. mb \in pool  BY <1>1, <1>2
        <2> HIDE DEF mb
        <2> QED  BY <2>1, PoolContents
    <1>5. first \in BOOLEAN  OBVIOUS
    <1> HIDE DEF types, kind, first
    <1>6. ASSUME kind = "account"
          PROVE  Once(types, "ACCOUNT_PUBLIC_KEY") /\ (first => Present(types, "ACCOUNT_PUBLIC_KEY"))
        <2>1. CheckAccount(types, first)  BY <1>3, <1>6 DEF CheckMicroblockStructure
        <2> QED  BY <1>4, <1>5, <2>1, AccountLayout
    <1>7. ASSUME kind = "organization"
          PROVE  Once(types, "ORG_DESCRIPTION") /\ (~first => Absent(types, "ORG_CREATION"))
        <2>1. CheckOrganization(types, first)  BY <1>3, <1>7 DEF CheckMicroblockStructure
        <2> QED  BY <1>4, <1>5, <2>1, DescribedLayout DEF CheckOrganization
    <1>8. ASSUME kind = "application"
          PROVE  Once(types, "APP_DESCRIPTION") /\ (~first => Absent(types, "APP_CREATION"))
        <2>1. CheckApplication(types, first)  BY <1>3, <1>8 DEF CheckMicroblockStructure
        <2> QED  BY <1>4, <1>5, <2>1, DescribedLayout DEF CheckApplication
    <1>9. ASSUME kind = "node"
          PROVE  /\ Once(types, "VN_COMETBFT_PUBLIC_KEY_DECLARATION")
                 /\ Once(types, "VN_RPC_ENDPOINT")
                 /\ first => /\ Present(types, "VN_COMETBFT_PUBLIC_KEY_DECLARATION")
                             /\ Present(types, "VN_RPC_ENDPOINT")
                 /\ ~first => Absent(types, "VN_CREATION")
        <2>1. CheckNode(types, first)  BY <1>3, <1>9 DEF CheckMicroblockStructure
        <2> QED  BY <1>4, <1>5, <2>1, NodeLayout
    <1> QED  BY <1>1, <1>2, <1>6, <1>7, <1>8, <1>9 DEF types, kind, first

LEMMA LatestDeclared ==
    ASSUME NEW S, NEW chain, chain.blocks \in Seq(S), NEW type, NEW height,
           LastAt(chain.blocks, type, height)
    PROVE  LastDeclared(chain, type) = IF height = 0 THEN NotFound
                                       ELSE LastValue(chain.blocks[height], type)
    <1> DEFINE n == Len(chain.blocks)
               heights == {h \in DOMAIN chain.blocks : Declares(chain.blocks[h], type)}
    <1>1. n \in Nat /\ DOMAIN chain.blocks = 1 .. n  OBVIOUS
    <1>2. /\ height \in 0 .. n
          /\ height # 0 => Declares(chain.blocks[height], type)
          /\ \A h \in height + 1 .. n : ~Declares(chain.blocks[h], type)
        BY DEF LastAt
    <1>3. LastDeclared(chain, type) = IF heights = {} THEN NotFound
                                      ELSE LastValue(chain.blocks[Max(heights)], type)
        BY DEF LastDeclared
    <1>4. heights \in SUBSET (0 .. n)  BY <1>1
    <1>5. \A h \in heights : h \in 1 .. height  BY <1>1, <1>2
    <1>6. height # 0 => height \in heights  BY <1>1, <1>2
    <1> HIDE DEF heights, n
    <1>7. CASE height = 0
        <2>1. heights = {}  BY <1>5, <1>7
        <2> QED  BY <1>3, <1>7, <2>1
    <1>8. CASE height # 0
        <2>1. Max(heights) \in heights /\ \A h \in heights : h <= Max(heights)
            BY <1>1, <1>4, <1>6, <1>8, GreatestExists
        <2>2. Max(heights) = height  BY <1>1, <1>2, <1>5, <1>6, <1>8, <2>1
        <2> QED  BY <1>3, <1>6, <1>8, <2>2
    <1> QED  BY <1>7, <1>8

\* A section that is there once is the first and the last of its type.
LEMMA OnceIsLast ==
    ASSUME Typed, NEW mb \in pool, NEW type, Declares(mb, type), Once(TypesOf(mb), type)
    PROVE  /\ FirstValue(mb, type) = LastValue(mb, type)
           /\ \E i \in 1 .. Len(mb.sections) : /\ mb.sections[i].type = type
                                               /\ LastValue(mb, type) = mb.sections[i].value
    <1> DEFINE n == Len(mb.sections)
               S == Positions(mb, type)
    <1>1. /\ n \in Nat /\ DOMAIN mb.sections = 1 .. n /\ Len(TypesOf(mb)) = n
          /\ \A i \in 1 .. n : TypesOf(mb)[i] = mb.sections[i].type
        BY PoolContents
    <1>2. S = {i \in 1 .. n : mb.sections[i].type = type}  BY <1>1 DEF Positions
    <1>3. S # {}  BY DEF Declares
    <1>4. \A i, j \in S : i = j  BY <1>1, <1>2 DEF Once
    <1>5. S \in SUBSET (0 .. n)  BY <1>1, <1>2
    <1>6. FirstValue(mb, type) = mb.sections[Min(S)].value /\ LastValue(mb, type) = mb.sections[Max(S)].value
        BY DEF FirstValue, LastValue
    <1> HIDE DEF S, n
    <1>7. Min(S) \in S /\ Max(S) \in S  BY <1>1, <1>3, <1>5, LeastExists, GreatestExists
    <1>8. Min(S) = Max(S)  BY <1>4, <1>7
    <1> QED  BY <1>2, <1>6, <1>7, <1>8 DEF n

\* What a reader finds at the height of the last declaration.
LEMMA FoundIsLatest ==
    ASSUME Typed, Linked, NEW id \in DOMAIN chains, chains[id].kind # "protocol",
           NEW type \in Read, NEW height, LastAt(chains[id].blocks, type, height),
           \A h \in DOMAIN chains[id].blocks : Once(TypesOf(chains[id].blocks[h]), type)
    PROVE  /\ Lookup(chains[id], height, type) = LastDeclared(chains[id], type)
           /\ height # 0 =>
                /\ Lookup(chains[id], height, type) # NotFound
                /\ Lookup(chains[id], height, type) = LastValue(chains[id].blocks[height], type)
                /\ type = "ACCOUNT_PUBLIC_KEY" =>
                     LET value == Lookup(chains[id], height, type)
                     IN value = [scheme |-> value.scheme, key |-> value.key]
    <1> DEFINE chain == chains[id]
               mb == chain.blocks[height]
    <1>1. chain.blocks \in Seq(pool \cup {ProtocolGenesis})  BY DEF Linked, IsChain
    <1>2. LastDeclared(chain, type) = IF height = 0 THEN NotFound ELSE LastValue(mb, type)
        BY <1>1, LatestDeclared
    <1>3. height \in 0 .. Len(chain.blocks) /\ (height # 0 => Declares(mb, type))  BY DEF LastAt
    <1>4. CASE height = 0
        <2>1. height \notin DOMAIN chain.blocks  BY <1>1, <1>4
        <2> QED  BY <1>2, <1>4, <2>1 DEF Lookup
    <1>5. CASE height # 0
        <2>1. height \in DOMAIN chain.blocks  BY <1>1, <1>3, <1>5
        <2>2. mb \in pool /\ Once(TypesOf(mb), type)  BY <2>1, ChainLayout
        <2>3. Lookup(chain, height, type) = FirstValue(mb, type)  BY <1>3, <1>5, <2>1 DEF Lookup
        <2> HIDE DEF mb
        <2>4. /\ FirstValue(mb, type) = LastValue(mb, type)
              /\ \E i \in 1 .. Len(mb.sections) : /\ mb.sections[i].type = type
                                                  /\ LastValue(mb, type) = mb.sections[i].value
            BY <1>3, <1>5, <2>2, OnceIsLast
        <2>5. /\ LastValue(mb, type) # NotFound
              /\ type = "ACCOUNT_PUBLIC_KEY" =>
                   LastValue(mb, type) = [scheme |-> LastValue(mb, type).scheme,
                                          key |-> LastValue(mb, type).key]
            BY <2>2, <2>4, PoolContents
        <2> QED  BY <1>2, <1>5, <2>3, <2>4, <2>5 DEF mb
    <1> QED  BY <1>4, <1>5

\* What the first microblock declares has a height.
LEMMA FirstIsDeclared ==
    ASSUME Typed, Linked, NEW id \in DOMAIN chains, chains[id].kind # "protocol",
           NEW type, Present(TypesOf(chains[id].blocks[1]), type),
           NEW height, LastAt(chains[id].blocks, type, height)
    PROVE  height # 0
    <1> DEFINE mb == chains[id].blocks[1]
    <1>1. chains[id].blocks \in Seq(pool \cup {ProtocolGenesis}) /\ chains[id].blocks # <<>>
        BY DEF Linked, IsChain
    <1>2. 1 \in DOMAIN chains[id].blocks /\ 1 \in 1 .. Len(chains[id].blocks)  BY <1>1
    <1>3. mb \in pool  BY <1>2, ChainLayout
    <1>4. Declares(mb, type)
        <2> HIDE DEF mb
        <2>1. PICK i \in 1 .. Len(mb.sections) : TypesOf(mb)[i] = type
            BY <1>3, PoolContents DEF Present, mb
        <2> QED  BY <1>3, <2>1, PoolContents DEF Declares, Positions
    <1> QED  BY <1>2, <1>4 DEF LastAt

\* The last value of a type that the readers give is none of their errors.
LEMMA LastIsFound ==
    ASSUME Typed, NEW mb \in pool, NEW type \in Read, Declares(mb, type)
    PROVE  LastValue(mb, type) # NotFound
    <1> DEFINE n == Len(mb.sections)
               S == Positions(mb, type)
    <1>1. n \in Nat /\ DOMAIN mb.sections = 1 .. n  BY PoolContents
    <1>2. S = {i \in 1 .. n : mb.sections[i].type = type}  BY <1>1 DEF Positions
    <1>3. S # {} /\ S \in SUBSET (0 .. n)  BY <1>1, <1>2 DEF Declares
    <1>4. LastValue(mb, type) = mb.sections[Max(S)].value  BY DEF LastValue
    <1> HIDE DEF S, n
    <1>5. Max(S) \in S  BY <1>1, <1>3, GreatestExists
    <1>6. Max(S) \in 1 .. Len(mb.sections) /\ mb.sections[Max(S)].type = type
        BY <1>2, <1>5 DEF n
    <1> QED  BY <1>4, <1>6, PoolContents

LEMMA InductiveFindsLatest ==
    ASSUME Inductive
    PROVE  ReadersFindLatest
    <1> USE DEF Inductive
    <1> DEFINE Latest(id, type) == LastDeclared(chains[id], type)
               Agrees(id) ==
                 LET chain == chains[id]
                 IN CASE chain.kind = "account" ->
                           PublicKey(chain) = Latest(id, "ACCOUNT_PUBLIC_KEY") /\ PublicKey(chain) # NotFound
                      [] chain.kind = "organization" ->
                           OrganizationDescription(chain) = Latest(id, "ORG_DESCRIPTION")
                      [] chain.kind = "application" ->
                           ApplicationDescription(chain) = Latest(id, "APP_DESCRIPTION")
                      [] chain.kind = "node" ->
                           /\ CometbftPublicKey(chain) = Latest(id, "VN_COMETBFT_PUBLIC_KEY_DECLARATION")
                           /\ RpcEndpoint(chain) = Latest(id, "VN_RPC_ENDPOINT")
                           /\ NotFound \notin {CometbftPublicKey(chain), RpcEndpoint(chain)}
                           /\ chain.state.approved = IF Latest(id, "VN_APPROVAL") = NotFound THEN FALSE
                                                     ELSE Latest(id, "VN_APPROVAL")
                      [] chain.kind = "protocol" ->
                           Latest(id, "PROTOCOL_UPDATE") \in {NotFound, chain.state.variables}
    <1> SUFFICES ASSUME NEW id \in DOMAIN chains PROVE Agrees(id)
        BY DEF ReadersFindLatest
    <1> DEFINE chain == chains[id]
               state == chain.state
               kind == chain.kind
               blocks == chain.blocks
               Latest1(type) == LastDeclared(chain, type)
    <1>1. /\ kind \in Kinds /\ blocks \in Seq(pool \cup {ProtocolGenesis}) /\ blocks # <<>>
          /\ IsStateOf(state, chain)
        BY DEF Linked, IsChain, InForce
    <1>2. 1 \in DOMAIN blocks  BY <1>1
    <1> HIDE DEF Latest1
    <1>3. ASSUME kind = "account"
          PROVE  PublicKey(chain) = Latest1("ACCOUNT_PUBLIC_KEY") /\ PublicKey(chain) # NotFound
        <2> DEFINE type == "ACCOUNT_PUBLIC_KEY"
                   value == Lookup(chain, state.keyHeight, type)
        <2>1. /\ LastAt(blocks, type, state.keyHeight)
              /\ state.keyHeight # 0 => state.scheme = LastValue(blocks[state.keyHeight], type).scheme
            BY <1>1, <1>3 DEF IsStateOf
        <2>2. \A h \in DOMAIN blocks : Once(TypesOf(blocks[h]), type)
            BY <1>3, ChainLayout
        <2>3. Present(TypesOf(blocks[1]), type)  BY <1>2, <1>3, ChainLayout
        <2>4. state.keyHeight # 0  BY <1>3, <2>1, <2>3, FirstIsDeclared
        <2>5. type \in Read /\ kind # "protocol"  BY <1>3 DEF Read
        <2>6. /\ value = Latest1(type) /\ value # NotFound
              /\ value = LastValue(blocks[state.keyHeight], type)
              /\ value = [scheme |-> value.scheme, key |-> value.key]
            BY <2>1, <2>2, <2>4, <2>5, FoundIsLatest DEF Latest1
        <2>7. PublicKey(chain) = IF value = NotFound THEN NotFound
                                 ELSE [scheme |-> state.scheme, key |-> value.key]
            BY DEF PublicKey
        <2> HIDE DEF value
        <2> QED  BY <2>1, <2>4, <2>6, <2>7
    <1>4. ASSUME kind = "organization"
          PROVE  OrganizationDescription(chain) = Latest1("ORG_DESCRIPTION")
        <2>1. LastAt(blocks, "ORG_DESCRIPTION", state.descriptionHeight)
            BY <1>1, <1>4 DEF IsStateOf
        <2>2. \A h \in DOMAIN blocks : Once(TypesOf(blocks[h]), "ORG_DESCRIPTION")
            BY <1>4, ChainLayout
        <2> QED  BY <1>4, <2>1, <2>2, FoundIsLatest DEF OrganizationDescription, Latest1, Read
    <1>5. ASSUME kind = "application"
          PROVE  ApplicationDescription(chain) = Latest1("APP_DESCRIPTION")
        <2>1. LastAt(blocks, "APP_DESCRIPTION", state.descriptionHeight)
            BY <1>1, <1>5 DEF IsStateOf
        <2>2. \A h \in DOMAIN blocks : Once(TypesOf(blocks[h]), "APP_DESCRIPTION")
            BY <1>5, ChainLayout
        <2> QED  BY <1>5, <2>1, <2>2, FoundIsLatest DEF ApplicationDescription, Latest1, Read
    <1>6. ASSUME kind = "node"
          PROVE  /\ CometbftPublicKey(chain) = Latest1("VN_COMETBFT_PUBLIC_KEY_DECLARATION")
                 /\ RpcEndpoint(chain) = Latest1("VN_RPC_ENDPOINT")
                 /\ NotFound \notin {CometbftPublicKey(chain), RpcEndpoint(chain)}
                 /\ state.approved = IF Latest1("VN_APPROVAL") = NotFound THEN FALSE
                                     ELSE Latest1("VN_APPROVAL")
        <2>1. /\ LastAt(blocks, "VN_COMETBFT_PUBLIC_KEY_DECLARATION", state.keyHeight)
              /\ LastAt(blocks, "VN_RPC_ENDPOINT", state.rpcHeight)
              /\ LastIs(blocks, "VN_APPROVAL", FALSE, state.approved)
            BY <1>1, <1>6 DEF IsStateOf
        <2>2. ASSUME NEW type \in {"VN_COMETBFT_PUBLIC_KEY_DECLARATION", "VN_RPC_ENDPOINT"},
                     NEW height, LastAt(blocks, type, height)
              PROVE  Lookup(chain, height, type) = Latest1(type) /\ Lookup(chain, height, type) # NotFound
            <3>1. \A h \in DOMAIN blocks : Once(TypesOf(blocks[h]), type)  BY <1>6, ChainLayout
            <3>2. Present(TypesOf(blocks[1]), type)  BY <1>2, <1>6, ChainLayout
            <3>3. height # 0  BY <1>6, <2>2, <3>2, FirstIsDeclared
            <3>4. type \in Read  BY DEF Read
            <3> QED  BY <1>6, <2>2, <3>1, <3>3, <3>4, FoundIsLatest DEF Latest1
        <2>3. state.approved = IF Latest1("VN_APPROVAL") = NotFound THEN FALSE ELSE Latest1("VN_APPROVAL")
            <3> DEFINE type == "VN_APPROVAL"
            <3>1. PICK height \in 0 .. Len(blocks) :
                    /\ LastAt(blocks, type, height)
                    /\ state.approved = IF height = 0 THEN FALSE ELSE LastValue(blocks[height], type)
                BY <2>1 DEF LastIs
            <3>2. Latest1(type) = IF height = 0 THEN NotFound ELSE LastValue(blocks[height], type)
                BY <1>1, <3>1, LatestDeclared DEF Latest1
            <3>3. height # 0 => LastValue(blocks[height], type) # NotFound
                <4> SUFFICES ASSUME height # 0 PROVE LastValue(blocks[height], type) # NotFound
                    OBVIOUS
                <4>1. height \in DOMAIN blocks /\ Declares(blocks[height], type)
                    BY <1>1, <3>1 DEF LastAt
                <4>2. blocks[height] \in pool  BY <1>6, <4>1, ChainLayout
                <4>3. type \in Read  BY DEF Read
                <4> QED  BY <4>1, <4>2, <4>3, LastIsFound
            <3> HIDE DEF type
            <3>4. state.approved = IF Latest1(type) = NotFound THEN FALSE ELSE Latest1(type)
                BY <3>1, <3>2, <3>3
            <3> QED  BY <3>4 DEF type
        <2> QED  BY <2>1, <2>2, <2>3 DEF CometbftPublicKey, RpcEndpoint
    <1>7. ASSUME kind = "protocol"
          PROVE  Latest1("PROTOCOL_UPDATE") \in {NotFound, state.variables}
        <2>1. LastIs(blocks, "PROTOCOL_UPDATE", 1, state.variables)  BY <1>1, <1>7 DEF IsStateOf
        <2>2. PICK height \in 0 .. Len(blocks) :
                /\ LastAt(blocks, "PROTOCOL_UPDATE", height)
                /\ state.variables = IF height = 0 THEN 1 ELSE LastValue(blocks[height], "PROTOCOL_UPDATE")
            BY <2>1 DEF LastIs
        <2>3. Latest1("PROTOCOL_UPDATE") = IF height = 0 THEN NotFound
                                           ELSE LastValue(blocks[height], "PROTOCOL_UPDATE")
            BY <1>1, <2>2, LatestDeclared DEF Latest1
        <2> QED  BY <2>2, <2>3
    <1> HIDE DEF chain, state, kind, blocks
    <1>8. chain = chains[id] /\ kind = chain.kind /\ state = chain.state
        BY DEF chain, kind, state
    <1>9. CASE kind = "account"  BY <1>3, <1>8, <1>9 DEF Latest1
    <1>10. CASE kind = "organization"  BY <1>4, <1>8, <1>10 DEF Latest1
    <1>11. CASE kind = "application"  BY <1>5, <1>8, <1>11 DEF Latest1
    <1>12. CASE kind = "node"  BY <1>6, <1>8, <1>12 DEF Latest1
    <1>13. CASE kind = "protocol"  BY <1>7, <1>8, <1>13 DEF Latest1
    <1> QED  BY <1>1, <1>9, <1>10, <1>11, <1>12, <1>13 DEF Kinds

\* Whatever microblocks came in between, the heights and fields that a state keeps lead the
\* readers to what the chain declared last, and keys and endpoints are always found.
THEOREM ReadersAreRight == Spec => []ReadersFindLatest
    <1>1. Inductive => ReadersFindLatest  BY InductiveFindsLatest
    <1> QED  BY <1>1, ImportsInvariant, PTL

-----------------------------------------------------------------------------
(* Owners *)

\* A chain is left alone by a step of the node, or gets a microblock of its kind that
\* creates nothing.
LEMMA ImportKeeps ==
    ASSUME Inductive, NEW mb \in pool, Import(mb), NEW id \in DOMAIN chains
    PROVE  /\ id \in DOMAIN chains'
           /\ \/ chains'[id] = chains[id]
              \/ LET chain == chains[id]
                 IN /\ chains'[id] = [kind |-> chain.kind, blocks |-> Append(chain.blocks, mb),
                                      state |-> Updated(chain.kind, chain.state, mb)]
                    /\ chain.kind = "organization" => ~Declares(mb, "ORG_CREATION")
                    /\ chain.kind = "application" => ~Declares(mb, "APP_CREATION")
                    /\ chain.kind = "node" => ~Declares(mb, "VN_CREATION")
    <1> USE DEF Inductive
    <1> DEFINE at == ChainOf(mb)
               types == TypesOf(mb)
    <1>1. /\ Accepted(mb) /\ ~NodeHasChain(mb)
          /\ chains' = [other \in DOMAIN chains \cup {at} |->
                          IF other = at THEN Appended(mb) ELSE chains[other]]
        BY DEF Import
    <1>2. /\ mb.height = 1 => at \notin DOMAIN chains
          /\ mb.height # 1 => mb.kind = chains[at].kind
        BY <1>1, ImportPlace
    <1>3. CASE id # at
        <2> HIDE DEF at
        <2> QED  BY <1>1, <1>3
    <1>4. CASE id = at
        <2>1. mb.height # 1 /\ mb.kind = chains[id].kind  BY <1>2, <1>4
        <2>2. Appended(mb) = [kind |-> mb.kind, blocks |-> Append(chains[id].blocks, mb),
                              state |-> Updated(mb.kind, chains[id].state, mb)]
            BY <1>4, <2>1 DEF Appended
        <2>3. CheckMicroblockStructure(mb.kind, types, FALSE)
            <3>1. CheckMicroblockStructure(mb.kind, types, mb.height = 1)  BY <1>1 DEF Accepted
            <3>2. (mb.height = 1) = FALSE  BY <2>1
            <3> QED  BY <3>1, <3>2
        <2> HIDE DEF at, types
        <2>4. Len(types) \in Nat  BY PoolContents DEF types
        <2>5. ASSUME NEW type, Absent(types, type) PROVE ~Declares(mb, type)
            BY <2>5, PoolContents DEF Absent, Declares, Positions, types
        <2>6. mb.kind = "organization" => ~Declares(mb, "ORG_CREATION")
            BY <2>3, <2>4, <2>5, DescribedLayout DEF CheckMicroblockStructure, CheckOrganization
        <2>7. mb.kind = "application" => ~Declares(mb, "APP_CREATION")
            BY <2>3, <2>4, <2>5, DescribedLayout DEF CheckMicroblockStructure, CheckApplication
        <2>8. mb.kind = "node" => ~Declares(mb, "VN_CREATION")
            BY <2>3, <2>4, <2>5, NodeLayout DEF CheckMicroblockStructure
        <2>9. id \in DOMAIN chains' /\ chains'[id] = Appended(mb)  BY <1>1, <1>4
        <2> QED  BY <2>1, <2>2, <2>6, <2>7, <2>8, <2>9
    <1> QED  BY <1>3, <1>4

\* What the owner of a chain is found by does not change.
LEMMA OwnersKept ==
    ASSUME Inductive, NEW mb \in pool, Import(mb), NEW id \in DOMAIN chains
    PROVE  /\ id \in DOMAIN chains'
           /\ chains'[id].kind = chains[id].kind
           /\ IsPrefix(chains[id].blocks, chains'[id].blocks)
           /\ chains[id].kind = "organization" => chains'[id].state.owner = chains[id].state.owner
           /\ chains[id].kind \notin {"account", "organization"} =>
                OrganizationOf(chains'[id]) = OrganizationOf(chains[id])
    <1> USE DEF Inductive
    <1> DEFINE chain == chains[id]
               next == [kind |-> chain.kind, blocks |-> Append(chain.blocks, mb),
                        state |-> Updated(chain.kind, chain.state, mb)]
    <1>1. /\ chain.kind \in Kinds /\ chain.blocks \in Seq(pool \cup {ProtocolGenesis})
          /\ chain.blocks # <<>>
        BY DEF Linked, IsChain
    <1>2. IsPrefix(chain.blocks, chain.blocks)  BY <1>1 DEF IsPrefix
    <1>3. CASE chains'[id] = chain  BY <1>2, <1>3, ImportKeeps
    <1>4. CASE chains'[id] # chain
        <2>1. /\ id \in DOMAIN chains'
              /\ chains'[id] = next
              /\ chain.kind = "organization" => ~Declares(mb, "ORG_CREATION")
              /\ chain.kind = "application" => ~Declares(mb, "APP_CREATION")
              /\ chain.kind = "node" => ~Declares(mb, "VN_CREATION")
            BY <1>4, ImportKeeps
        <2>2. mb \in pool \cup {ProtocolGenesis}  OBVIOUS
        <2> HIDE DEF chain
        <2>3. /\ next.kind = chain.kind /\ next.blocks = Append(chain.blocks, mb)
              /\ next.state = Updated(chain.kind, chain.state, mb)
            OBVIOUS
        <2> HIDE DEF next
        <2>4. IsPrefix(chain.blocks, next.blocks)
            <3> DEFINE s == chain.blocks
            <3>1. s \in Seq(pool \cup {ProtocolGenesis})  BY <1>1
            <3> HIDE DEF s
            <3>2. Len(s) <= Len(Append(s, mb)) /\ SubSeq(s, 1, Len(s)) = SubSeq(Append(s, mb), 1, Len(s))
                BY <2>2, <3>1
            <3> QED  BY <2>3, <3>2 DEF IsPrefix, s
        <2>5. chain.kind = "organization" => next.state.owner = chain.state.owner
            BY <2>1, <2>3 DEF Updated, UpdatedOrganization, Assigned
        <2>6. chain.kind \notin {"account", "organization"} => OrganizationOf(next) = OrganizationOf(chain)
            <3>1. CASE chain.kind = "application"
                BY <2>1, <2>3, <3>1 DEF OrganizationOf, Updated, UpdatedApplication, Assigned
            <3>2. CASE chain.kind = "node"
                BY <2>1, <2>3, <3>2 DEF OrganizationOf, Updated, UpdatedNode, Assigned
            <3>3. CASE chain.kind = "protocol"
                <4>1. 1 \in DOMAIN chain.blocks /\ 1 \in DOMAIN next.blocks /\ next.blocks[1] = chain.blocks[1]
                    BY <1>1, <2>2, <2>3
                <4> QED  BY <2>3, <3>3, <4>1 DEF OrganizationOf, Lookup
            <3> QED  BY <1>1, <3>1, <3>2, <3>3 DEF Kinds
        <2> QED  BY <2>1, <2>3, <2>4, <2>5, <2>6 DEF chain
    <1> QED  BY <1>3, <1>4

LEMMA StepKeepsOwners ==
    ASSUME Inductive, [Next]_vars, NEW id \in DOMAIN chains
    PROVE  /\ id \in DOMAIN chains'
           /\ chains[id].kind = chains'[id].kind
           /\ IsPrefix(chains[id].blocks, chains'[id].blocks)
           /\ OwnerOf(chains, id) \in {NotFound, OwnerOf(chains', id)}
    <1>1. CASE chains' = chains
        <2>1. chains[id].blocks \in Seq(pool \cup {ProtocolGenesis})  BY DEF Inductive, Linked, IsChain
        <2>2. IsPrefix(chains[id].blocks, chains[id].blocks)  BY <2>1 DEF IsPrefix
        <2> QED  BY <1>1, <2>2
    <1>2. CASE \E mb \in pool : Import(mb)
        <2>1. PICK mb \in pool : Import(mb)  BY <1>2
        <2>2. ASSUME NEW other \in DOMAIN chains
              PROVE  /\ other \in DOMAIN chains'
                     /\ chains'[other].kind = chains[other].kind
                     /\ IsPrefix(chains[other].blocks, chains'[other].blocks)
                     /\ chains[other].kind = "organization" =>
                          chains'[other].state.owner = chains[other].state.owner
                     /\ chains[other].kind \notin {"account", "organization"} =>
                          OrganizationOf(chains'[other]) = OrganizationOf(chains[other])
            BY <2>1, OwnersKept
        <2>3. OwnerOf(chains, id) \in {NotFound, OwnerOf(chains', id)}
            <3>1. CASE chains[id].kind = "account"  BY <2>2, <3>1 DEF OwnerOf
            <3>2. CASE chains[id].kind = "organization"  BY <2>2, <3>2 DEF OwnerOf
            <3>3. CASE chains[id].kind \notin {"account", "organization"}
                <4> DEFINE organization == OrganizationOf(chains[id])
                <4>1. OrganizationOf(chains'[id]) = organization  BY <2>2, <3>3
                <4>2. /\ OwnerOf(chains, id) =
                           IF organization \in DOMAIN chains /\ chains[organization].kind = "organization"
                           THEN chains[organization].state.owner ELSE NotFound
                      /\ OwnerOf(chains', id) =
                           IF organization \in DOMAIN chains' /\ chains'[organization].kind = "organization"
                           THEN chains'[organization].state.owner ELSE NotFound
                    BY <2>2, <3>3, <4>1 DEF OwnerOf
                <4> HIDE DEF organization
                <4> QED  BY <2>2, <4>2
            <3> QED  BY <3>1, <3>2, <3>3
        <2> QED  BY <2>2, <2>3
    <1> QED
        BY <1>1, <1>2 DEF Next, vars, CreateGenesisMicroblock, Load, CreateMicroblock, Seal, Publish,
           PublishFails, AwaitMicroblockAnchoring, AwaitFails, Leave

\* A chain keeps its kind, its microblocks and, once getVirtualBlockchainOwnerId finds one,
\* its owner, with whom isAccountIdAllowedToWrite compares.
THEOREM OwnersAreFixed == Spec => OwnerFixed
    <1>1. Inductive /\ [Next]_vars =>
            \A id \in DOMAIN chains :
              /\ id \in DOMAIN chains'
              /\ chains[id].kind = chains'[id].kind
              /\ IsPrefix(chains[id].blocks, chains'[id].blocks)
              /\ OwnerOf(chains, id) \in {NotFound, OwnerOf(chains', id)}
        BY StepKeepsOwners
    <1> QED  BY <1>1, ImportsInvariant, PTL DEF Spec, OwnerFixed

-----------------------------------------------------------------------------
(* What the walks accept, for microblocks of any length *)

Signatures == {"AUXILIARY_SIGNATURE", "SIGNATURE"}

\* From position n on there are the signatures.
SignedFrom(types, n) ==
    /\ n \in 0 .. Len(types) - 1
    /\ types[Len(types)] = "SIGNATURE"
    /\ \A i \in n + 1 .. Len(types) - 1 : types[i] = "AUXILIARY_SIGNATURE"

\* The types from p + 1 to n.
Stretch(body, types, p, n) ==
    /\ p \in 0 .. n
    /\ \E S : body \in Seq(S)
    /\ Len(body) = n - p
    /\ \A i \in 1 .. n - p : body[i] = types[p + i]

LEMMA SignedFromIsSignature ==
    ASSUME NEW types, Len(types) \in Nat, NEW n, SignedFrom(types, n)
    PROVE  n \in 0 .. Len(types) - 1 /\ types[n + 1] \in Signatures
    <1>1. n + 1 = Len(types) \/ n + 1 \in n + 1 .. Len(types) - 1  BY DEF SignedFrom
    <1> QED  BY <1>1 DEF SignedFrom, Signatures

\* A walk ends well exactly if what is left are the signatures.
LEMMA SignedExactly ==
    ASSUME NEW types, Len(types) \in Nat, NEW walk, IsWalk(walk, types)
    PROVE  Signed(walk) <=> walk.valid /\ SignedFrom(types, walk.pointer)
    <1> DEFINE n == Len(types)
               p == walk.pointer
               aux == Expects(walk, "ANY", "AUXILIARY_SIGNATURE")
               end == Expects(aux, "ONE", "SIGNATURE")
    <1>1. p \in 0 .. n /\ n \in Nat  BY DEF IsWalk
    <1>2. /\ IsWalk(aux, types)
          /\ aux.count \in Nat /\ aux.pointer = p + aux.count
          /\ \A i \in p + 1 .. aux.pointer : types[i] = "AUXILIARY_SIGNATURE"
          /\ aux.pointer = n \/ types[aux.pointer + 1] # "AUXILIARY_SIGNATURE"
          /\ aux.valid <=> walk.valid
        <2>1. Satisfies("ANY", aux.count)  BY DEF Satisfies
        <2> HIDE DEF aux
        <2>2. aux = Expects(walk, "ANY", "AUXILIARY_SIGNATURE")  BY DEF aux
        <2> QED  BY <2>1, <2>2, Expected
    <1>3. EndsHere(end) <=> end.valid /\ end.pointer = n
        <2>1. IsWalk(end, types)  BY <1>2, Expected
        <2>2. end.types = types  BY <2>1 DEF IsWalk
        <2> QED  BY <2>2 DEF EndsHere
    <1>4. Signed(walk) <=> EndsHere(end)  BY DEF Signed
    <1> DEFINE q == aux.pointer
    <1>5. q \in 0 .. n  BY <1>2 DEF IsWalk
    <1> HIDE DEF aux
    <1>6. /\ end.count \in Nat /\ end.pointer = q + end.count
          /\ \A i \in q + 1 .. end.pointer : types[i] = "SIGNATURE"
          /\ end.pointer = n \/ types[end.pointer + 1] # "SIGNATURE"
          /\ end.valid <=> aux.valid /\ end.count = 1
        <2>1. Satisfies("ONE", end.count) <=> end.count = 1  BY DEF Satisfies
        <2> HIDE DEF end
        <2>2. end = Expects(aux, "ONE", "SIGNATURE")  BY DEF end
        <2> QED  BY <1>2, <2>1, <2>2, Expected DEF q
    <1>7. end.pointer \in 0 .. n
        <2>1. IsWalk(end, types)  BY <1>2, Expected
        <2> QED  BY <2>1 DEF IsWalk
    <1> HIDE DEF end, n, p, q
    <1>8. ASSUME end.valid, end.pointer = n PROVE walk.valid /\ SignedFrom(types, p)
        <2>1. q = n - 1 /\ n \in q + 1 .. end.pointer  BY <1>5, <1>6, <1>8, <1>1
        <2>2. p \in 0 .. n - 1  BY <1>1, <1>2, <2>1 DEF q
        <2>3. types[n] = "SIGNATURE"  BY <1>6, <2>1
        <2>4. \A i \in p + 1 .. n - 1 : types[i] = "AUXILIARY_SIGNATURE"  BY <1>2, <2>1 DEF q
        <2> QED  BY <1>2, <1>6, <1>8, <2>2, <2>3, <2>4 DEF SignedFrom, n
    <1>9. ASSUME walk.valid, SignedFrom(types, p) PROVE end.valid /\ end.pointer = n
        <2>1. /\ p \in 0 .. n - 1 /\ types[n] = "SIGNATURE"
              /\ \A i \in p + 1 .. n - 1 : types[i] = "AUXILIARY_SIGNATURE"
            BY <1>9 DEF SignedFrom, n
        <2>2. p <= q  BY <1>1, <1>2 DEF q
        <2>3. q # n
            <3> SUFFICES ASSUME q = n PROVE FALSE  OBVIOUS
            <3>1. n \in p + 1 .. q  BY <1>1, <2>1
            <3> QED  BY <1>2, <2>1, <3>1 DEF q
        <2>4. types[q + 1] # "AUXILIARY_SIGNATURE"  BY <1>2, <2>3 DEF q
        <2>5. q + 1 \notin p + 1 .. n - 1  BY <2>1, <2>4
        <2>6. q = n - 1  BY <1>1, <1>5, <2>1, <2>2, <2>3, <2>5
        <2>7. end.pointer # q
            <3> SUFFICES ASSUME end.pointer = q PROVE FALSE  OBVIOUS
            <3>1. end.pointer + 1 = n /\ end.pointer # n  BY <2>6, <1>1
            <3> QED  BY <1>6, <2>1, <3>1
        <2>8. end.pointer = n /\ end.count = 1  BY <1>1, <1>5, <1>6, <1>7, <2>6, <2>7
        <2> QED  BY <1>2, <1>6, <1>9, <2>8
    <1> QED  BY <1>3, <1>4, <1>8, <1>9 DEF p

-----------------------------------------------------------------------------
(* Stretches *)

LEMMA StretchOver ==
    ASSUME NEW types, NEW n \in Nat, NEW p, NEW body, Stretch(body, types, p, n), NEW T
    PROVE  IsOver(body, T) <=> \A i \in p + 1 .. n : types[i] \in T
    <1>1. p \in 0 .. n /\ DOMAIN body = 1 .. n - p  BY DEF Stretch
    <1>2. IsOver(body, T) <=> \A i \in 1 .. n - p : body[i] \in T  BY <1>1 DEF IsOver, ToSet
    <1>3. (\A i \in 1 .. n - p : body[i] \in T) <=> \A i \in p + 1 .. n : types[i] \in T
        <2>1. ASSUME \A i \in 1 .. n - p : body[i] \in T, NEW i \in p + 1 .. n PROVE types[i] \in T
            <3>1. i - p \in 1 .. n - p /\ p + (i - p) = i  BY <1>1
            <3>2. body[i - p] = types[i]  BY <3>1 DEF Stretch
            <3> QED  BY <2>1, <3>1, <3>2
        <2>2. ASSUME \A i \in p + 1 .. n : types[i] \in T, NEW i \in 1 .. n - p PROVE body[i] \in T
            <3>1. p + i \in p + 1 .. n  BY <1>1
            <3>2. body[i] = types[p + i]  BY DEF Stretch
            <3> QED  BY <2>2, <3>1, <3>2
        <2> QED  BY <2>1, <2>2
    <1> QED  BY <1>2, <1>3

\* Where a type is.
Places(types, p, n, type) == {i \in p + 1 .. n : types[i] = type}

LEMMA StretchCount ==
    ASSUME NEW types, NEW n \in Nat, NEW p, NEW body, Stretch(body, types, p, n), NEW type
    PROVE  Count(body, type) = Cardinality(Places(types, p, n, type))
    <1> DEFINE A == {i \in 1 .. n - p : body[i] = type}
               B == {i \in p + 1 .. n : types[i] = type}
               f == [i \in A |-> i + p]
    <1>1. /\ p \in 0 .. n /\ DOMAIN body = 1 .. n - p
          /\ \A i \in 1 .. n - p : body[i] = types[p + i]
        BY DEF Stretch
    <1>2. Count(body, type) = Cardinality(A)  BY <1>1 DEF Count
    <1>3. f \in [A -> B]
        <2> SUFFICES ASSUME NEW i \in A PROVE i + p \in B  OBVIOUS
        <2>1. i + p \in p + 1 .. n /\ p + i = i + p  BY <1>1
        <2>2. types[i + p] = type  BY <1>1, <2>1
        <2> QED  BY <2>1, <2>2
    <1>4. \A i, j \in A : f[i] = f[j] => i = j  BY <1>1
    <1>5. \A j \in B : \E i \in A : f[i] = j
        <2> SUFFICES ASSUME NEW j \in B PROVE j - p \in A /\ f[j - p] = j  OBVIOUS
        <2>1. j - p \in 1 .. n - p /\ p + (j - p) = j /\ (j - p) + p = j  BY <1>1
        <2>2. body[j - p] = types[j]  BY <1>1, <2>1
        <2> QED  BY <2>1, <2>2
    <1>6. f \in Bijection(A, B)
        <2> HIDE DEF A, B, f
        <2> QED  BY <1>3, <1>4, <1>5 DEF Bijection, Injection, Surjection, IsInjective
    <1>7. IsFiniteSet(A)
        <2>1. IsFiniteSet(1 .. n - p)  BY <1>1, FS_Interval
        <2> QED  BY <2>1, FS_Subset
    <1>8. Cardinality(B) = Cardinality(A)
        <2> HIDE DEF A, B, f
        <2>1. ExistsBijection(A, B)  BY <1>6 DEF ExistsBijection
        <2> QED  BY <1>7, <2>1, FS_Bijection
    <1>9. B = Places(types, p, n, type)  BY DEF Places
    <1> HIDE DEF A, B
    <1> QED  BY <1>2, <1>8, <1>9

LEMMA StretchEmpty ==
    ASSUME NEW types, NEW n \in Nat, NEW p, NEW body, Stretch(body, types, p, n)
    PROVE  body = <<>> <=> p = n
    BY DEF Stretch

\* The content before n, and what follows its first section.
LEMMA ContentStretches ==
    ASSUME NEW S, NEW types \in Seq(S), NEW n \in 0 .. Len(types) - 1
    PROVE  LET content == SubSeq(types, 1, n)
           IN /\ content \in Seq(S) /\ Len(content) = n
              /\ \A i \in 1 .. n : content[i] = types[i]
              /\ Stretch(content, types, 0, n)
              /\ content # <<>> <=> n >= 1
              /\ n >= 1 => /\ Head(content) = types[1]
                           /\ Stretch(Tail(content), types, 1, n)
    <1> DEFINE content == SubSeq(types, 1, n)
    <1>1. n \in Int /\ \A i \in 1 .. n : types[i] \in S  OBVIOUS
    <1>2. /\ content \in Seq(S)
          /\ Len(content) = IF 1 <= n THEN n - 1 + 1 ELSE 0
          /\ \A i \in 1 .. n - 1 + 1 : content[i] = types[1 + i - 1]
        BY <1>1, SubSeqProperties
    <1> HIDE DEF content
    <1>3. Len(content) = n /\ \A i \in 1 .. n : content[i] = types[i]  BY <1>2
    <1>4. Stretch(content, types, 0, n)  BY <1>2, <1>3 DEF Stretch
    <1>5. content # <<>> <=> n >= 1  BY <1>2, <1>3
    <1>6. ASSUME n >= 1 PROVE Head(content) = types[1] /\ Stretch(Tail(content), types, 1, n)
        <2>1. Head(content) = content[1]  BY <1>2, <1>5, <1>6
        <2>2. /\ Tail(content) \in Seq(S) /\ Len(Tail(content)) = n - 1
              /\ \A i \in 1 .. n - 1 : Tail(content)[i] = content[i + 1]
            BY <1>2, <1>3, <1>5, <1>6, HeadTailProperties
        <2>3. \A i \in 1 .. n - 1 : content[i + 1] = types[1 + i]  BY <1>3
        <2> QED  BY <1>3, <1>6, <2>1, <2>2, <2>3 DEF Stretch
    <1> QED  BY <1>2, <1>3, <1>4, <1>5, <1>6 DEF content

\* A group that may go up to n.
LEMMA GroupedBefore ==
    ASSUME NEW types, Len(types) \in Nat, NEW n \in 0 .. Len(types) - 1,
           NEW walk, IsWalk(walk, types), NEW constraint, NEW list, types[n + 1] \notin DOMAIN list,
           NEW body, Stretch(body, types, walk.pointer, n)
    PROVE  LET next == Group(walk, constraint, list)
           IN /\ IsWalk(next, types)
              /\ next.valid /\ next.pointer = n <=>
                   /\ walk.valid
                   /\ IsOver(body, DOMAIN list)
                   /\ Satisfies(constraint, Len(body))
                   /\ \A type \in DOMAIN list : Satisfies(list[type], Count(body, type))
    <1> DEFINE next == Group(walk, constraint, list)
               p == walk.pointer
               q == next.pointer
               N(end, type) == Cardinality(Places(types, p, end, type))
    <1>1. /\ IsWalk(next, types)
          /\ p <= q
          /\ next.count = q - p
          /\ \A i \in p + 1 .. q : types[i] \in DOMAIN list
          /\ q = Len(types) \/ types[q + 1] \notin DOMAIN list
          /\ next.valid <=> /\ walk.valid
                            /\ Satisfies(constraint, next.count)
                            /\ \A type \in DOMAIN list : Satisfies(list[type], N(q, type))
        BY Grouped DEF Places
    <1>2. p \in 0 .. Len(types) /\ q \in 0 .. Len(types)  BY <1>1 DEF IsWalk
    <1>3. p \in 0 .. n /\ Len(body) = n - p  BY DEF Stretch
    <1>4. IsOver(body, DOMAIN list) <=> \A i \in p + 1 .. n : types[i] \in DOMAIN list
        BY StretchOver
    <1>5. \A type : Count(body, type) = N(n, type)  BY StretchCount
    <1> HIDE DEF next, p, q, N
    <1>6. q <= n
        <2> SUFFICES ASSUME ~(q <= n) PROVE FALSE  OBVIOUS
        <2>1. n + 1 \in p + 1 .. q  BY <1>2, <1>3
        <2> QED  BY <1>1, <2>1
    <1>7. q = n <=> \A i \in p + 1 .. n : types[i] \in DOMAIN list
        <2>1. ASSUME q # n PROVE \E i \in p + 1 .. n : types[i] \notin DOMAIN list
            <3>1. q + 1 \in p + 1 .. n /\ q # Len(types)  BY <1>1, <1>2, <1>3, <1>6, <2>1
            <3> QED  BY <1>1, <3>1
        <2> QED  BY <1>1, <2>1
    <1>8. q = n => next.count = Len(body)  BY <1>1, <1>3
    <1>9. next.valid /\ q = n <=>
            /\ walk.valid
            /\ IsOver(body, DOMAIN list)
            /\ Satisfies(constraint, Len(body))
            /\ \A type \in DOMAIN list : Satisfies(list[type], Count(body, type))
        BY <1>1, <1>4, <1>5, <1>7, <1>8
    <1> QED  BY <1>1, <1>9 DEF next, p, q

-----------------------------------------------------------------------------
(* How the checkers open *)

\* What a group asks of the types it goes over.
OfGroup(body, constraint, list) ==
    /\ IsOver(body, DOMAIN list)
    /\ Satisfies(constraint, Len(body))
    /\ \A type \in DOMAIN list : Satisfies(list[type], Count(body, type))

AtStart(walk, types) == IsWalk(walk, types) /\ walk.pointer = 0

\* A walk over the first sections, as long as they are of a type.
CountsFirst(next, types, n, walk, constraint, type) ==
    /\ IsWalk(next, types)
    /\ next.count \in Nat /\ next.pointer = next.count
    /\ next.pointer \in 0 .. n
    /\ \A i \in 1 .. next.pointer : types[i] = type
    /\ types[next.pointer + 1] # type
    /\ next.valid <=> walk.valid /\ Satisfies(constraint, next.count)

\* A type expected at the start, that is not the next one after n.
LEMMA ExpectedFirst ==
    ASSUME NEW types, Len(types) \in Nat, NEW n \in 0 .. Len(types) - 1,
           NEW walk, AtStart(walk, types),
           NEW constraint, NEW type, types[n + 1] # type
    PROVE  CountsFirst(Expects(walk, constraint, type), types, n, walk, constraint, type)
    <1> DEFINE next == Expects(walk, constraint, type)
               p == walk.pointer
               q == next.pointer
    <1>1. /\ IsWalk(next, types)
          /\ next.count \in Nat /\ q = p + next.count
          /\ \A i \in p + 1 .. q : types[i] = type
          /\ q = Len(types) \/ types[q + 1] # type
          /\ next.valid <=> walk.valid /\ Satisfies(constraint, next.count)
        BY Expected DEF AtStart
    <1>2. p = 0 /\ q \in 0 .. Len(types)  BY <1>1 DEF IsWalk, AtStart
    <1> HIDE DEF next, q, p
    <1>3. q = next.count /\ \A i \in 1 .. q : types[i] = type  BY <1>1, <1>2
    <1>4. q <= n
        <2> SUFFICES ASSUME ~(q <= n) PROVE FALSE  OBVIOUS
        <2>1. n + 1 \in 1 .. q  BY <1>2
        <2> QED  BY <1>3, <2>1
    <1>5. q \in 0 .. n /\ q # Len(types)  BY <1>2, <1>4
    <1>6. CountsFirst(next, types, n, walk, constraint, type)
        BY <1>1, <1>3, <1>5 DEF q, CountsFirst
    <1> QED  BY <1>6 DEF next

\* One, at the start.
LEMMA OpeningExpected ==
    ASSUME NEW types, Len(types) \in Nat, NEW n \in 0 .. Len(types) - 1, NEW type, types[n + 1] # type
    PROVE  LET next == Expects(Start(types), "ONE", type)
           IN /\ IsWalk(next, types)
              /\ next.valid => next.pointer = 1
              /\ next.valid <=> n >= 1 /\ types[1] = type /\ types[2] # type
    <1> DEFINE start == Start(types)
               next == Expects(start, "ONE", type)
    <1>1. AtStart(start, types) /\ start.valid  BY StartWalks DEF Start, AtStart
    <1> HIDE DEF start
    <1>2. /\ IsWalk(next, types)
          /\ next.count \in Nat /\ next.pointer = next.count
          /\ next.pointer \in 0 .. n
          /\ \A i \in 1 .. next.pointer : types[i] = type
          /\ types[next.pointer + 1] # type
          /\ next.valid <=> Satisfies("ONE", next.count)
        <2>1. CountsFirst(next, types, n, start, "ONE", type)  BY <1>1, ExpectedFirst
        <2> QED  BY <1>1, <2>1 DEF CountsFirst
    <1>3. Satisfies("ONE", next.count) <=> next.count = 1  BY DEF Satisfies
    <1> DEFINE q == next.pointer
    <1> HIDE DEF next, q
    <1>4. q \in 0 .. n /\ (\A i \in 1 .. q : types[i] = type) /\ types[q + 1] # type  BY <1>2 DEF q
    <1>5. q = 1 <=> n >= 1 /\ types[1] = type /\ types[2] # type
        <2>1. ASSUME q = 1 PROVE n >= 1 /\ types[1] = type /\ types[2] # type
            <3>1. 1 \in 1 .. q /\ q + 1 = 2  BY <2>1
            <3> QED  BY <1>4, <2>1, <3>1
        <2>2. ASSUME n >= 1, types[1] = type, types[2] # type PROVE q = 1
            <3>1. q # 0  BY <1>4, <2>2
            <3>2. ~(q >= 2)  BY <1>4, <2>2
            <3> QED  BY <1>4, <3>1, <3>2
        <2> QED  BY <2>1, <2>2
    <1> QED  BY <1>2, <1>3, <1>5 DEF start, next, q

\* At most one of a type, at the start.
MayStart(next, types, n, walk, type) ==
    /\ IsWalk(next, types)
    /\ next.count \in Nat /\ next.pointer = next.count
    /\ next.count = 0 => (next.valid <=> walk.valid) /\ types[1] # type
    /\ next.count = 1 => (next.valid <=> walk.valid) /\ n >= 1 /\ types[1] = type
    /\ next.count \notin {0, 1} => ~next.valid /\ n >= 2 /\ types[1] = type /\ types[2] = type

LEMMA MaybeExpected ==
    ASSUME NEW types, Len(types) \in Nat, NEW n \in 0 .. Len(types) - 1, NEW type, types[n + 1] # type,
           NEW walk, AtStart(walk, types)
    PROVE  MayStart(Expects(walk, "AT_MOST_ONE", type), types, n, walk, type)
    <1> DEFINE next == Expects(walk, "AT_MOST_ONE", type)
    <1>1. /\ IsWalk(next, types)
          /\ next.count \in Nat /\ next.pointer = next.count
          /\ next.pointer \in 0 .. n
          /\ \A i \in 1 .. next.pointer : types[i] = type
          /\ types[next.pointer + 1] # type
          /\ next.valid <=> walk.valid /\ Satisfies("AT_MOST_ONE", next.count)
        <2>1. CountsFirst(next, types, n, walk, "AT_MOST_ONE", type)  BY ExpectedFirst
        <2> QED  BY <2>1 DEF CountsFirst
    <1>2. Satisfies("AT_MOST_ONE", next.count) <=> next.count <= 1  BY DEF Satisfies
    <1> HIDE DEF next
    <1>3. next.count = 0 => (next.valid <=> walk.valid) /\ types[1] # type  BY <1>1, <1>2
    <1>4. next.count = 1 => (next.valid <=> walk.valid) /\ n >= 1 /\ types[1] = type
        <2> HAVE next.count = 1
        <2>1. 1 \in 1 .. next.pointer  BY <1>1
        <2> QED  BY <1>1, <1>2, <2>1
    <1>5. next.count \notin {0, 1} => ~next.valid /\ n >= 2 /\ types[1] = type /\ types[2] = type
        <2> HAVE next.count \notin {0, 1}
        <2>1. 1 \in 1 .. next.pointer /\ 2 \in 1 .. next.pointer  BY <1>1
        <2> QED  BY <1>1, <1>2, <2>1
    <1>6. MayStart(next, types, n, walk, type)  BY <1>1, <1>3, <1>4, <1>5 DEF MayStart
    <1> QED  BY <1>6 DEF next

\* A section that opens, and a group.
OpenedBy(content, type, constraint, list) ==
    /\ content # <<>> /\ Head(content) = type
    /\ OfGroup(Tail(content), constraint, list)

OpensAndGroups(next, types, n, type, constraint, list) ==
    /\ IsWalk(next, types)
    /\ next.valid /\ next.pointer = n <=> OpenedBy(SubSeq(types, 1, n), type, constraint, list)

OnlyGroups(next, types, n, walk, constraint, list) ==
    /\ IsWalk(next, types)
    /\ next.valid /\ next.pointer = n <=>
         walk.valid /\ OfGroup(SubSeq(types, 1, n), constraint, list)

\* A type that opens the content, then a group.
LEMMA OpenedGroup ==
    ASSUME NEW S, NEW types \in Seq(S), NEW n \in 0 .. Len(types) - 1, NEW type, types[n + 1] # type,
           NEW constraint, NEW list, types[n + 1] \notin DOMAIN list, type \notin DOMAIN list
    PROVE  OpensAndGroups(Group(Expects(Start(types), "ONE", type), constraint, list),
                          types, n, type, constraint, list)
    <1> DEFINE opening == Expects(Start(types), "ONE", type)
               next == Group(opening, constraint, list)
               content == SubSeq(types, 1, n)
               body == Tail(content)
    <1>1. /\ IsWalk(opening, types)
          /\ opening.valid => opening.pointer = 1
          /\ opening.valid <=> n >= 1 /\ types[1] = type /\ types[2] # type
        BY OpeningExpected
    <1>2. /\ content # <<>> <=> n >= 1
          /\ n >= 1 => Head(content) = types[1] /\ Stretch(body, types, 1, n)
        BY ContentStretches
    <1> HIDE DEF opening, content
    <1>3. IsWalk(next, types) /\ (next.valid => opening.valid)  BY <1>1, Grouped
    <1>4. CASE opening.valid
        <2>1. opening.pointer = 1 /\ Stretch(body, types, 1, n) /\ n >= 1 /\ types[1] = type
            BY <1>1, <1>2, <1>4
        <2>2. next.valid /\ next.pointer = n <=> OfGroup(body, constraint, list)
            <3>1. Len(types) \in Nat /\ Stretch(body, types, opening.pointer, n)  BY <2>1
            <3> HIDE DEF body
            <3>2. next.valid /\ next.pointer = n <=>
                    /\ opening.valid
                    /\ IsOver(body, DOMAIN list)
                    /\ Satisfies(constraint, Len(body))
                    /\ \A t \in DOMAIN list : Satisfies(list[t], Count(body, t))
                BY <1>1, <3>1, GroupedBefore
            <3> QED  BY <1>4, <3>2 DEF OfGroup
        <2> HIDE DEF next, body
        <2> QED  BY <1>2, <1>3, <2>1, <2>2 DEF OpensAndGroups, OpenedBy, opening, next, content, body
    <1>5. CASE ~opening.valid
        <2>1. ASSUME n >= 1, types[1] = type PROVE ~IsOver(body, DOMAIN list)
            <3>1. types[2] = type  BY <1>1, <1>5, <2>1
            <3>2. n # 1  BY <3>1
            <3>3. 2 \in 1 + 1 .. n /\ n \in Nat  BY <2>1, <3>2
            <3>4. Stretch(body, types, 1, n)  BY <1>2, <2>1
            <3>5. IsOver(body, DOMAIN list) => types[2] \in DOMAIN list
                <4> HIDE DEF body
                <4> QED  BY <3>3, <3>4, StretchOver
            <3> QED  BY <3>1, <3>5
        <2>2. ~next.valid  BY <1>3, <1>5
        <2> HIDE DEF next, body
        <2> QED  BY <1>2, <1>3, <2>1, <2>2 DEF OfGroup, OpensAndGroups, OpenedBy, opening, next, content, body
    <1> QED  BY <1>4, <1>5

\* A group without the type that opens a first microblock.
LEMMA UnopenedGroup ==
    ASSUME NEW S, NEW types \in Seq(S), NEW n \in 0 .. Len(types) - 1, NEW type, types[n + 1] # type,
           NEW constraint, NEW list, types[n + 1] \notin DOMAIN list, type \notin DOMAIN list,
           NEW walk, AtStart(walk, types)
    PROVE  OnlyGroups(Group(Expects(walk, "ZERO", type), constraint, list),
                      types, n, walk, constraint, list)
    <1> DEFINE none == Expects(walk, "ZERO", type)
               next == Group(none, constraint, list)
               content == SubSeq(types, 1, n)
    <1>0. Len(types) \in Nat  OBVIOUS
    <1>1. /\ IsWalk(none, types)
          /\ none.count \in Nat /\ none.pointer = none.count
          /\ none.pointer \in 0 .. n
          /\ \A i \in 1 .. none.pointer : types[i] = type
          /\ none.valid <=> walk.valid /\ Satisfies("ZERO", none.count)
        <2>1. CountsFirst(none, types, n, walk, "ZERO", type)  BY <1>0, ExpectedFirst
        <2> QED  BY <2>1 DEF CountsFirst
    <1>2. Satisfies("ZERO", none.count) <=> none.count = 0  BY DEF Satisfies
    <1>3. Stretch(content, types, 0, n)  BY ContentStretches
    <1> HIDE DEF none, content
    <1>4. IsWalk(next, types) /\ (next.valid => none.valid)  BY <1>1, Grouped
    <1>5. CASE none.count = 0
        <2>1. none.pointer = 0 /\ (none.valid <=> walk.valid)  BY <1>1, <1>2, <1>5
        <2>2. Stretch(content, types, none.pointer, n)  BY <1>3, <2>1
        <2>3. next.valid /\ next.pointer = n <=> none.valid /\ OfGroup(content, constraint, list)
            <3>1. next.valid /\ next.pointer = n <=>
                    /\ none.valid
                    /\ IsOver(content, DOMAIN list)
                    /\ Satisfies(constraint, Len(content))
                    /\ \A t \in DOMAIN list : Satisfies(list[t], Count(content, t))
                BY <1>0, <1>1, <2>2, GroupedBefore
            <3> QED  BY <3>1 DEF OfGroup
        <2> HIDE DEF next
        <2> QED  BY <1>4, <2>1, <2>3 DEF OnlyGroups, none, next, content
    <1>6. CASE none.count # 0
        <2>1. 1 \in 1 .. none.pointer /\ 1 \in 0 + 1 .. n  BY <1>1, <1>6
        <2>2. types[1] = type  BY <1>1, <2>1
        <2>3. ~IsOver(content, DOMAIN list)  BY <1>3, <2>1, <2>2, StretchOver
        <2>4. ~next.valid  BY <1>1, <1>2, <1>4, <1>6
        <2> HIDE DEF next
        <2> QED  BY <1>4, <2>3, <2>4 DEF OfGroup, OnlyGroups, none, next, content
    <1> QED  BY <1>5, <1>6

LEMMA LoneContent ==
    ASSUME NEW S, NEW types \in Seq(S), NEW n \in 0 .. Len(types) - 1, NEW type
    PROVE  SubSeq(types, 1, n) = <<type>> <=> n = 1 /\ types[1] = type
    <1> DEFINE content == SubSeq(types, 1, n)
    <1>1. content \in Seq(S) /\ Len(content) = n /\ \A i \in 1 .. n : content[i] = types[i]
        BY ContentStretches
    <1> HIDE DEF content
    <1>2. ASSUME content = <<type>> PROVE n = 1 /\ types[1] = type
        <2>1. Len(content) = 1 /\ content[1] = type  BY <1>2
        <2> QED  BY <1>1, <2>1
    <1>3. ASSUME n = 1, types[1] = type PROVE content = <<type>>
        <2>1. content[1] = type /\ Len(content) = 1  BY <1>1, <1>3
        <2>2. type \in S
            <3>1. types[1] \in S  BY <1>3
            <3> QED  BY <1>3, <3>1
        <2>3. <<type>> \in Seq(S) /\ Len(<<type>>) = 1 /\ <<type>>[1] = type  BY <2>2
        <2> QED  BY <1>1, <2>1, <2>3
    <1> QED  BY <1>2, <1>3 DEF content

\* Of one type there are no more sections than there are.
LEMMA CountIn ==
    ASSUME NEW types, NEW n \in Nat, NEW p, NEW body, Stretch(body, types, p, n), NEW type
    PROVE  Count(body, type) \in 0 .. Len(body)
    <1> DEFINE A == Places(types, p, n, type)
    <1>1. p \in 0 .. n /\ Len(body) = n - p  BY DEF Stretch
    <1>2. IsFiniteSet(p + 1 .. n) /\ Cardinality(p + 1 .. n) = IF p + 1 > n THEN 0 ELSE n - (p + 1) + 1
        <2>1. p + 1 \in Int /\ n \in Int  BY <1>1
        <2> QED  BY <2>1, FS_Interval
    <1>3. Cardinality(p + 1 .. n) = n - p  BY <1>1, <1>2
    <1>4. Cardinality(A) <= Cardinality(p + 1 .. n) /\ IsFiniteSet(A)
        <2>1. A \in SUBSET (p + 1 .. n)  BY DEF Places
        <2> QED  BY <1>2, <2>1, FS_Subset
    <1>5. Cardinality(A) \in Nat  BY <1>4, FS_CardinalityType
    <1>6. Count(body, type) = Cardinality(A)  BY StretchCount
    <1> HIDE DEF A
    <1> QED  BY <1>1, <1>3, <1>4, <1>5, <1>6

-----------------------------------------------------------------------------
(* Each checker follows its layout *)

\* Wherever the signatures may begin, a walk comes there exactly if what is before them
\* is content of the kind.
Follows(walk, kind, types, first) ==
    /\ IsWalk(walk, types)
    /\ \A n \in 0 .. Len(types) - 1 :
         types[n + 1] \in Signatures =>
           (walk.valid /\ walk.pointer = n <=> Content(kind, SubSeq(types, 1, n), first))

LEMMA FollowsLayout ==
    ASSUME NEW S, NEW types \in Seq(S), NEW kind, NEW first, NEW walk, Follows(walk, kind, types, first)
    PROVE  Signed(walk) <=> Layout(kind, types, first)
    <1>1. Len(types) \in Nat /\ IsWalk(walk, types)  BY DEF Follows
    <1>2. Signed(walk) <=> walk.valid /\ SignedFrom(types, walk.pointer)  BY <1>1, SignedExactly
    <1>3. Layout(kind, types, first) <=>
            \E n \in 0 .. Len(types) - 1 : SignedFrom(types, n) /\ Content(kind, SubSeq(types, 1, n), first)
        BY DEF Layout, SignedFrom
    <1>4. \A n : SignedFrom(types, n) => n \in 0 .. Len(types) - 1 /\ types[n + 1] \in Signatures
        BY <1>1, SignedFromIsSignature
    <1>5. ASSUME walk.valid, SignedFrom(types, walk.pointer)
          PROVE  \E n \in 0 .. Len(types) - 1 : /\ SignedFrom(types, n)
                                                /\ Content(kind, SubSeq(types, 1, n), first)
        BY <1>4, <1>5 DEF Follows
    <1>6. ASSUME NEW n \in 0 .. Len(types) - 1, SignedFrom(types, n), Content(kind, SubSeq(types, 1, n), first)
          PROVE  walk.valid /\ SignedFrom(types, walk.pointer)
        <2>1. types[n + 1] \in Signatures  BY <1>4, <1>6
        <2>2. walk.valid /\ walk.pointer = n  BY <1>6, <2>1 DEF Follows
        <2> QED  BY <1>6, <2>2
    <1> QED  BY <1>2, <1>3, <1>5, <1>6

LEMMA StretchSize ==
    ASSUME NEW types, NEW n \in Nat, NEW p, NEW body, Stretch(body, types, p, n)
    PROVE  Len(body) \in Nat /\ (body # <<>> <=> Len(body) >= 1)
    BY DEF Stretch

LEMMA DescribedGroup ==
    ASSUME NEW types, NEW n \in Nat, NEW p, NEW body, Stretch(body, types, p, n),
           NEW description, description # "CUSTOM"
    PROVE  OfGroup(body, "AT_LEAST_ONE",
                   [type \in {description, "CUSTOM"} |-> IF type = "CUSTOM" THEN "ANY" ELSE "AT_MOST_ONE"])
             <=> body # <<>> /\ IsOver(body, {description, "CUSTOM"}) /\ Count(body, description) <= 1
    <1> DEFINE list == [type \in {description, "CUSTOM"} |->
                          IF type = "CUSTOM" THEN "ANY" ELSE "AT_MOST_ONE"]
    <1>1. /\ DOMAIN list = {description, "CUSTOM"}
          /\ list["CUSTOM"] = "ANY" /\ list[description] = "AT_MOST_ONE"
        OBVIOUS
    <1> HIDE DEF list
    <1>2. Satisfies("ANY", Count(body, "CUSTOM"))  BY DEF Satisfies
    <1>3. Satisfies("AT_MOST_ONE", Count(body, description)) <=> Count(body, description) <= 1
        BY DEF Satisfies
    <1>4. Satisfies("AT_LEAST_ONE", Len(body)) <=> body # <<>>
        <2>1. Satisfies("AT_LEAST_ONE", Len(body)) <=> Len(body) >= 1  BY DEF Satisfies
        <2> QED  BY <2>1, StretchSize
    <1>5. (\A type \in DOMAIN list : Satisfies(list[type], Count(body, type)))
            <=> Count(body, description) <= 1
        BY <1>1, <1>2, <1>3
    <1>6. OfGroup(body, "AT_LEAST_ONE", list)
            <=> body # <<>> /\ IsOver(body, {description, "CUSTOM"}) /\ Count(body, description) <= 1
        BY <1>1, <1>4, <1>5 DEF OfGroup
    <1> QED  BY <1>6 DEF list

\* A first microblock, and one that is not.
LEMMA OpenedFollows ==
    ASSUME NEW S, NEW types \in Seq(S), NEW first, NEW kind, NEW type, NEW constraint, NEW list,
           type \notin Signatures \cup DOMAIN list, Signatures \cap DOMAIN list = {},
           \A n \in 0 .. Len(types) - 1 :
             Content(kind, SubSeq(types, 1, n), first)
               <=> OpenedBy(SubSeq(types, 1, n), type, constraint, list)
    PROVE  Follows(Group(Expects(Start(types), "ONE", type), constraint, list), kind, types, first)
    <1> DEFINE walk == Group(Expects(Start(types), "ONE", type), constraint, list)
    <1>1. IsWalk(walk, types)
        <2> DEFINE opening == Expects(Start(types), "ONE", type)
        <2>1. IsWalk(opening, types)  BY StartWalks, Expected
        <2> HIDE DEF opening
        <2> QED  BY <2>1, Grouped DEF opening
    <1>2. ASSUME NEW n \in 0 .. Len(types) - 1, types[n + 1] \in Signatures
          PROVE  OpensAndGroups(walk, types, n, type, constraint, list)
        <2>1. types[n + 1] # type /\ types[n + 1] \notin DOMAIN list /\ type \notin DOMAIN list  BY <1>2
        <2> QED  BY <2>1, OpenedGroup
    <1> HIDE DEF walk
    <1>3. Follows(walk, kind, types, first)  BY <1>1, <1>2 DEF Follows, OpensAndGroups
    <1> QED  BY <1>3 DEF walk

LEMMA UnopenedFollows ==
    ASSUME NEW S, NEW types \in Seq(S), NEW first, NEW kind, NEW type, NEW constraint, NEW list,
           type \notin Signatures \cup DOMAIN list, Signatures \cap DOMAIN list = {},
           \A n \in 0 .. Len(types) - 1 :
             Content(kind, SubSeq(types, 1, n), first) <=> OfGroup(SubSeq(types, 1, n), constraint, list)
    PROVE  Follows(Group(Expects(Start(types), "ZERO", type), constraint, list), kind, types, first)
    <1> DEFINE start == Start(types)
               walk == Group(Expects(start, "ZERO", type), constraint, list)
    <1>1. AtStart(start, types) /\ start.valid  BY StartWalks DEF Start, AtStart
    <1> HIDE DEF start
    <1>2. IsWalk(walk, types)
        <2> DEFINE none == Expects(start, "ZERO", type)
        <2>1. IsWalk(none, types)  BY <1>1, Expected DEF AtStart
        <2> HIDE DEF none
        <2> QED  BY <2>1, Grouped DEF none
    <1>3. ASSUME NEW n \in 0 .. Len(types) - 1, types[n + 1] \in Signatures
          PROVE  OnlyGroups(walk, types, n, start, constraint, list)
        <2>1. types[n + 1] # type /\ types[n + 1] \notin DOMAIN list /\ type \notin DOMAIN list  BY <1>3
        <2> QED  BY <1>1, <2>1, UnopenedGroup
    <1> HIDE DEF walk
    <1>4. Follows(walk, kind, types, first)  BY <1>1, <1>2, <1>3 DEF Follows, OnlyGroups
    <1> QED  BY <1>4 DEF walk, start

LEMMA DescribedAgrees ==
    ASSUME NEW S, NEW types \in Seq(S), NEW first \in BOOLEAN, NEW kind \in {"organization", "application"},
           NEW creation, NEW description, creation = Opening(kind),
           description = IF kind = "organization" THEN "ORG_DESCRIPTION" ELSE "APP_DESCRIPTION"
    PROVE  CheckDescribed(types, first, creation, description) <=> Layout(kind, types, first)
    <1> DEFINE list == [type \in {description, "CUSTOM"} |->
                          IF type = "CUSTOM" THEN "ANY" ELSE "AT_MOST_ONE"]
               walk == Group(Expects(Start(types), IF first THEN "ONE" ELSE "ZERO", creation),
                             "AT_LEAST_ONE", list)
    <1>1. CheckDescribed(types, first, creation, description) <=> Signed(walk)  BY DEF CheckDescribed
    <1>2. description # "CUSTOM" /\ creation \notin {description, "CUSTOM"} \cup Signatures
          /\ Signatures \cap {description, "CUSTOM"} = {}
        BY DEF Opening, Signatures
    <1>3. DOMAIN list = {description, "CUSTOM"}  OBVIOUS
    <1>4. \A body : Body(kind, body, first)
            <=> body # <<>> /\ IsOver(body, {description, "CUSTOM"}) /\ Count(body, description) <= 1
        BY DEF Body
    <1>5. \A content : Content(kind, content, first)
            <=> IF first THEN content # <<>> /\ Head(content) = creation /\ Body(kind, Tail(content), first)
                ELSE Body(kind, content, first)
        BY DEF Content
    <1>6. ASSUME NEW n \in Nat, NEW p, NEW body, Stretch(body, types, p, n)
          PROVE  OfGroup(body, "AT_LEAST_ONE", list) <=> Body(kind, body, first)
        BY <1>2, <1>4, <1>6, DescribedGroup
    <1> HIDE DEF list
    <1>7. ASSUME NEW n \in 0 .. Len(types) - 1
          PROVE  LET content == SubSeq(types, 1, n)
                 IN Content(kind, content, first)
                      <=> IF first THEN OpenedBy(content, creation, "AT_LEAST_ONE", list)
                          ELSE OfGroup(content, "AT_LEAST_ONE", list)
        <2> DEFINE content == SubSeq(types, 1, n)
        <2>1. /\ Stretch(content, types, 0, n)
              /\ content # <<>> => Stretch(Tail(content), types, 1, n)
            BY ContentStretches
        <2>2. n \in Nat  OBVIOUS
        <2> HIDE DEF content
        <2>3. OfGroup(content, "AT_LEAST_ONE", list) <=> Body(kind, content, first)  BY <1>6, <2>1, <2>2
        <2>4. content # <<>> =>
                (OfGroup(Tail(content), "AT_LEAST_ONE", list) <=> Body(kind, Tail(content), first))
            BY <1>6, <2>1, <2>2
        <2> QED  BY <1>5, <2>3, <2>4 DEF OpenedBy, content
    <1>8. creation \notin Signatures \cup DOMAIN list /\ Signatures \cap DOMAIN list = {}  BY <1>2, <1>3
    <1>9. Follows(walk, kind, types, first)
        <2>1. CASE first
            <3>1. walk = Group(Expects(Start(types), "ONE", creation), "AT_LEAST_ONE", list)  BY <2>1
            <3> HIDE DEF walk
            <3> QED  BY <1>7, <1>8, <2>1, <3>1, OpenedFollows
        <2>2. CASE ~first
            <3>1. walk = Group(Expects(Start(types), "ZERO", creation), "AT_LEAST_ONE", list)  BY <2>2
            <3> HIDE DEF walk
            <3> QED  BY <1>7, <1>8, <2>2, <3>1, UnopenedFollows
        <2> QED  BY <2>1, <2>2
    <1> HIDE DEF walk
    <1> QED  BY <1>1, <1>9, FollowsLayout

LEMMA LedgerAgrees ==
    ASSUME NEW S, NEW types \in Seq(S), NEW first \in BOOLEAN
    PROVE  CheckLedger(types, first) <=> Layout("ledger", types, first)
    <1> DEFINE creation == "APP_LEDGER_CREATION"
               list == [type \in LedgerSections |-> "ANY"]
               walk == Group(Expects(Start(types), IF first THEN "ONE" ELSE "ZERO", creation), "ANY", list)
    <1>1. CheckLedger(types, first) <=> Signed(walk)  BY DEF CheckLedger
    <1>2. DOMAIN list = LedgerSections /\ \A type \in LedgerSections : list[type] = "ANY"  OBVIOUS
    <1> HIDE DEF list
    <1>3. creation \notin Signatures \cup DOMAIN list /\ Signatures \cap DOMAIN list = {}
        BY <1>2 DEF Signatures, LedgerSections
    <1>4. \A body : OfGroup(body, "ANY", list) <=> Body("ledger", body, first)
        <2>1. \A count : Satisfies("ANY", count)  BY DEF Satisfies
        <2>2. \A body : Body("ledger", body, first) <=> IsOver(body, LedgerSections)  BY DEF Body
        <2> QED  BY <1>2, <2>1, <2>2 DEF OfGroup
    <1>5. \A content : Content("ledger", content, first)
            <=> IF first THEN OpenedBy(content, creation, "ANY", list) ELSE OfGroup(content, "ANY", list)
        BY <1>4 DEF Content, Opening, OpenedBy
    <1>6. Follows(walk, "ledger", types, first)
        <2>1. CASE first
            <3>1. walk = Group(Expects(Start(types), "ONE", creation), "ANY", list)  BY <2>1
            <3> HIDE DEF walk, creation
            <3> QED  BY <1>3, <1>5, <2>1, <3>1, OpenedFollows
        <2>2. CASE ~first
            <3>1. walk = Group(Expects(Start(types), "ZERO", creation), "ANY", list)  BY <2>2
            <3> HIDE DEF walk, creation
            <3> QED  BY <1>3, <1>5, <2>2, <3>1, UnopenedFollows
        <2> QED  BY <2>1, <2>2
    <1> HIDE DEF walk
    <1> QED  BY <1>1, <1>6, FollowsLayout

\* One of a type in a stretch of one section.
LEMMA OnlyOne ==
    ASSUME NEW types, NEW n \in Nat, NEW p, NEW body, Stretch(body, types, p, n), NEW type
    PROVE  /\ Len(body) <= 1 /\ Count(body, type) = 1 => n = p + 1 /\ types[p + 1] = type
           /\ n = p + 1 /\ types[p + 1] = type => Count(body, type) = 1
    <1> DEFINE A == Places(types, p, n, type)
    <1>1. p \in 0 .. n /\ Len(body) = n - p  BY DEF Stretch
    <1>2. Count(body, type) = Cardinality(A)  BY StretchCount
    <1>3. Count(body, type) \in 0 .. Len(body)  BY CountIn
    <1>4. ASSUME Len(body) <= 1, Count(body, type) = 1 PROVE n = p + 1 /\ types[p + 1] = type
        <2>1. A # {}  BY <1>2, <1>4, OneIn
        <2>2. PICK i \in p + 1 .. n : types[i] = type  BY <2>1 DEF Places
        <2>3. n = p + 1 /\ i = p + 1  BY <1>1, <1>4
        <2> QED  BY <2>2, <2>3
    <1>5. ASSUME n = p + 1, types[p + 1] = type PROVE Count(body, type) = 1
        <2>1. A = {p + 1}  BY <1>1, <1>5 DEF Places
        <2>2. Cardinality({p + 1}) = 1  BY FS_Singleton
        <2> HIDE DEF A
        <2> QED  BY <1>2, <2>1, <2>2
    <1> QED  BY <1>4, <1>5

LEMMA ProtocolAgrees ==
    ASSUME NEW S, NEW types \in Seq(S), NEW first \in BOOLEAN
    PROVE  CheckProtocol(types, first) <=> Layout("protocol", types, first)
    <1> DEFINE type == "PROTOCOL_CREATION"
               list == [PROTOCOL_UPDATE |-> "ONE", CUSTOM |-> "ANY"]
               creation == Expects(Start(types), "ONE", type)
               update == Group(Expects(Start(types), "ZERO", type), "AT_MOST_ONE", list)
    <1>1. CheckProtocol(types, first) <=> IF first THEN Signed(creation) ELSE Signed(update)
        BY DEF CheckProtocol
    <1>2. /\ DOMAIN list = {"PROTOCOL_UPDATE", "CUSTOM"}
          /\ list["PROTOCOL_UPDATE"] = "ONE" /\ list["CUSTOM"] = "ANY"
        OBVIOUS
    <1> HIDE DEF list
    <1>3. /\ type \notin Signatures \cup DOMAIN list /\ Signatures \cap DOMAIN list = {}
        BY <1>2 DEF Signatures
    <1>4. CASE first
        <2>1. IsWalk(creation, types)  BY StartWalks, Expected
        <2>2. ASSUME NEW n \in 0 .. Len(types) - 1, types[n + 1] \in Signatures
              PROVE  creation.valid /\ creation.pointer = n <=> Content("protocol", SubSeq(types, 1, n), first)
            <3> DEFINE content == SubSeq(types, 1, n)
            <3>1. /\ creation.valid => creation.pointer = 1
                  /\ creation.valid <=> n >= 1 /\ types[1] = type /\ types[2] # type
                <4>1. types[n + 1] # type  BY <1>3, <2>2
                <4> HIDE DEF type
                <4> QED  BY <4>1, OpeningExpected
            <3>2. creation.valid /\ creation.pointer = n <=> n = 1 /\ types[1] = type
                <4>1. n = 1 => types[2] # type  BY <1>3, <2>2
                <4> HIDE DEF creation
                <4> QED  BY <3>1, <4>1
            <3>3. Content("protocol", content, first)
                    <=> content # <<>> /\ Head(content) = type /\ Tail(content) = <<>>
                BY <1>4 DEF Content, Body, Opening
            <3>4. /\ content # <<>> <=> n >= 1
                  /\ n >= 1 => Head(content) = types[1] /\ Stretch(Tail(content), types, 1, n)
                BY ContentStretches
            <3> HIDE DEF content, creation
            <3>5. n >= 1 => (Tail(content) = <<>> <=> n = 1)
                <4>1. \A body : Stretch(body, types, 1, n) => (body = <<>> <=> 1 = n)  BY StretchEmpty
                <4> QED  BY <3>4, <4>1
            <3>6. Content("protocol", content, first) <=> n = 1 /\ types[1] = type
                BY <3>3, <3>4, <3>5
            <3> QED  BY <3>2, <3>6 DEF content
        <2> HIDE DEF creation
        <2>3. Follows(creation, "protocol", types, first)  BY <2>1, <2>2 DEF Follows
        <2> QED  BY <1>1, <1>4, <2>3, FollowsLayout
    <1>5. CASE ~first
        <2>1. ASSUME NEW n \in 0 .. Len(types) - 1
              PROVE  Content("protocol", SubSeq(types, 1, n), first)
                       <=> OfGroup(SubSeq(types, 1, n), "AT_MOST_ONE", list)
            <3> DEFINE content == SubSeq(types, 1, n)
            <3>1. Content("protocol", content, first) <=> content = <<"PROTOCOL_UPDATE">>
                BY <1>5 DEF Content, Body
            <3>2. content = <<"PROTOCOL_UPDATE">> <=> n = 1 /\ types[1] = "PROTOCOL_UPDATE"
                BY LoneContent
            <3>3. Stretch(content, types, 0, n) /\ Len(content) = n  BY ContentStretches
            <3> HIDE DEF content
            <3>4. OfGroup(content, "AT_MOST_ONE", list) <=>
                    /\ IsOver(content, DOMAIN list) /\ Len(content) <= 1
                    /\ Count(content, "PROTOCOL_UPDATE") = 1
                <4>1. \A count : /\ Satisfies("ANY", count)
                                 /\ Satisfies("ONE", count) <=> count = 1
                                 /\ Satisfies("AT_MOST_ONE", count) <=> count <= 1
                    BY DEF Satisfies
                <4> QED  BY <1>2, <4>1 DEF OfGroup
            <3>5. IsOver(content, DOMAIN list) <=> \A i \in 0 + 1 .. n : types[i] \in DOMAIN list
                BY <3>3, StretchOver
            <3>6. /\ Len(content) <= 1 /\ Count(content, "PROTOCOL_UPDATE") = 1
                       => n = 0 + 1 /\ types[0 + 1] = "PROTOCOL_UPDATE"
                  /\ n = 0 + 1 /\ types[0 + 1] = "PROTOCOL_UPDATE"
                       => Count(content, "PROTOCOL_UPDATE") = 1
                BY <3>3, OnlyOne
            <3> QED  BY <1>2, <3>1, <3>2, <3>3, <3>4, <3>5, <3>6 DEF content
        <2> HIDE DEF type
        <2>2. Follows(update, "protocol", types, first)  BY <1>3, <2>1, UnopenedFollows
        <2> HIDE DEF update
        <2> QED  BY <1>1, <1>5, <2>2, FollowsLayout
    <1> QED  BY <1>4, <1>5

-----------------------------------------------------------------------------

LEMMA AccountFirstAgrees ==
    ASSUME NEW S, NEW types \in Seq(S)
    PROVE  CheckAccount(types, TRUE) <=> Layout("account", types, TRUE)
    <1> DEFINE type == "ACCOUNT_PUBLIC_KEY"
               list == [ACCOUNT_TOKEN_ISSUANCE |-> "AT_MOST_ONE", ACCOUNT_CREATION |-> "AT_MOST_ONE",
                        CUSTOM |-> "ANY"]
               walk == Group(Expects(Start(types), "ONE", type), "ONE", list)
               Types == {"ACCOUNT_TOKEN_ISSUANCE", "ACCOUNT_CREATION", "CUSTOM"}
    <1>1. CheckAccount(types, TRUE) <=> Signed(walk)  BY DEF CheckAccount
    <1>2. /\ DOMAIN list = Types
          /\ \A t \in Types : list[t] \in {"AT_MOST_ONE", "ANY"}
        OBVIOUS
    <1> HIDE DEF list
    <1>3. type \notin Signatures \cup DOMAIN list /\ Signatures \cap DOMAIN list = {}
        BY <1>2 DEF Signatures
    <1>4. ASSUME NEW n \in 0 .. Len(types) - 1
          PROVE  Content("account", SubSeq(types, 1, n), TRUE)
                   <=> OpenedBy(SubSeq(types, 1, n), type, "ONE", list)
        <2> DEFINE content == SubSeq(types, 1, n)
        <2>1. Content("account", content, TRUE)
                <=> content # <<>> /\ Head(content) = type /\ Len(content) = 2 /\ content[2] \in Types
            BY DEF Content, Opening
        <2>2. /\ Len(content) = n /\ \A i \in 1 .. n : content[i] = types[i]
              /\ content # <<>> <=> n >= 1
              /\ n >= 1 => Stretch(Tail(content), types, 1, n)
            BY ContentStretches
        <2> HIDE DEF content
        <2>3. ASSUME n >= 1
              PROVE  OfGroup(Tail(content), "ONE", list) <=> Len(content) = 2 /\ content[2] \in Types
            <3> DEFINE body == Tail(content)
            <3>1. Stretch(body, types, 1, n) /\ n \in Nat  BY <2>2, <2>3
            <3>2. Len(body) = n - 1  BY <3>1 DEF Stretch
            <3> HIDE DEF body
            <3>3. IsOver(body, DOMAIN list) <=> \A i \in 1 + 1 .. n : types[i] \in DOMAIN list
                BY <3>1, StretchOver
            <3>4. Satisfies("ONE", Len(body)) <=> n = 2
                <4>1. Satisfies("ONE", Len(body)) <=> Len(body) = 1  BY DEF Satisfies
                <4> QED  BY <2>3, <3>2, <4>1
            <3>5. ASSUME n = 2, NEW t \in DOMAIN list PROVE Satisfies(list[t], Count(body, t))
                <4>1. Count(body, t) \in 0 .. Len(body)  BY <3>1, CountIn
                <4>2. Count(body, t) <= 1  BY <3>2, <3>5, <4>1
                <4>3. Satisfies("AT_MOST_ONE", Count(body, t)) /\ Satisfies("ANY", Count(body, t))
                    BY <4>2 DEF Satisfies
                <4> QED  BY <1>2, <4>3
            <3>6. OfGroup(body, "ONE", list) <=> n = 2 /\ types[2] \in Types
                BY <1>2, <3>3, <3>4, <3>5 DEF OfGroup
            <3> QED  BY <2>2, <3>6 DEF body
        <2> QED  BY <2>1, <2>2, <2>3 DEF OpenedBy, content
    <1> HIDE DEF type
    <1>5. Follows(walk, "account", types, TRUE)  BY <1>3, <1>4, OpenedFollows
    <1> HIDE DEF walk
    <1> QED  BY <1>1, <1>5, FollowsLayout


\* A walk that is at n.
At(walk, types, n) == IsWalk(walk, types) /\ walk.valid /\ walk.pointer = n

\* Where a group, and an expected type, may and may not lead.
LEMMA GroupAt ==
    ASSUME NEW types, Len(types) \in Nat, NEW n \in 0 .. Len(types) - 1,
           NEW walk, IsWalk(walk, types), NEW constraint, NEW list, types[n + 1] \notin DOMAIN list,
           NEW body, Stretch(body, types, walk.pointer, n)
    PROVE  At(Group(walk, constraint, list), types, n) <=> walk.valid /\ OfGroup(body, constraint, list)
    <1> DEFINE next == Group(walk, constraint, list)
    <1>1. /\ IsWalk(next, types)
          /\ next.valid /\ next.pointer = n <=>
               /\ walk.valid
               /\ IsOver(body, DOMAIN list)
               /\ Satisfies(constraint, Len(body))
               /\ \A type \in DOMAIN list : Satisfies(list[type], Count(body, type))
        BY GroupedBefore
    <1> HIDE DEF next
    <1>2. At(next, types, n) <=> walk.valid /\ OfGroup(body, constraint, list)  BY <1>1 DEF At, OfGroup
    <1> QED  BY <1>2 DEF next

LEMMA InvalidGroup ==
    ASSUME NEW types, Len(types) \in Nat, NEW n, NEW walk, IsWalk(walk, types), ~walk.valid,
           NEW constraint, NEW list
    PROVE  ~At(Group(walk, constraint, list), types, n)
    <1>1. ~Group(walk, constraint, list).valid  BY Grouped
    <1> QED  BY <1>1 DEF At

LEMMA ExpectsWalks ==
    ASSUME NEW types, Len(types) \in Nat, NEW walk, IsWalk(walk, types), NEW constraint, NEW type
    PROVE  IsWalk(Expects(walk, constraint, type), types)
    BY Expected

LEMMA GroupWalks ==
    ASSUME NEW types, Len(types) \in Nat, NEW walk, IsWalk(walk, types), NEW constraint, NEW list
    PROVE  IsWalk(Group(walk, constraint, list), types)
    BY Grouped

LEMMA InvalidExpects ==
    ASSUME NEW types, Len(types) \in Nat, NEW walk, IsWalk(walk, types), ~walk.valid,
           NEW constraint, NEW type
    PROVE  ~Expects(walk, constraint, type).valid
    BY Expected

\* A later microblock of an account: a settlement alone, or transactions after a new key.
LEMMA AccountLaterAgrees ==
    ASSUME NEW S, NEW types \in Seq(S)
    PROVE  CheckAccount(types, FALSE) <=> Layout("account", types, FALSE)
    <1> DEFINE lone == "ACCOUNT_ESCROW_SETTLEMENT"
               changed == "ACCOUNT_PUBLIC_KEY"
               list == [type \in AccountTransactions |-> "ANY"]
               settlement == Expects(Start(types), "AT_MOST_ONE", lone)
               key == Expects(settlement, "AT_MOST_ONE", changed)
               walk == IF settlement.count = 1 THEN settlement ELSE Group(key, "AT_LEAST_ONE", list)
    <1>1. CheckAccount(types, FALSE) <=> Signed(walk)  BY DEF CheckAccount
    <1>2. DOMAIN list = AccountTransactions /\ \A type \in AccountTransactions : list[type] = "ANY"
        OBVIOUS
    <1> HIDE DEF list
    <1>3. /\ {lone, changed} \cap (Signatures \cup DOMAIN list) = {} /\ lone # changed
          /\ Signatures \cap DOMAIN list = {}
        BY <1>2 DEF Signatures, AccountTransactions
    <1>4. \A body : Body("account", body, FALSE) <=> IsOver(body, DOMAIN list) /\ body # <<>>
        BY <1>2 DEF Body
    <1>5. ASSUME NEW n \in Nat, NEW p, NEW body, Stretch(body, types, p, n)
          PROVE  OfGroup(body, "AT_LEAST_ONE", list) <=> Body("account", body, FALSE)
        <2>1. \A count : Satisfies("ANY", count) /\ (Satisfies("AT_LEAST_ONE", count) <=> count >= 1)
            BY DEF Satisfies
        <2>2. body # <<>> <=> Len(body) >= 1  BY <1>5, StretchSize
        <2> QED  BY <1>2, <1>4, <2>1, <2>2 DEF OfGroup
    <1>6. \A content : Content("account", content, FALSE)
            <=> \/ content = <<lone>>
                \/ Body("account", IF content # <<>> /\ Head(content) = changed THEN Tail(content)
                                   ELSE content, FALSE)
        BY DEF Content, Opening
    <1> DEFINE start == Start(types)
    <1>7. AtStart(start, types) /\ start.valid /\ Len(types) \in Nat  BY StartWalks DEF Start, AtStart
    <1> HIDE DEF start
    <1>8. IsWalk(settlement, types) /\ IsWalk(key, types) /\ IsWalk(walk, types)
        <2>1. IsWalk(settlement, types)  BY <1>7, ExpectsWalks DEF AtStart, start
        <2>2. IsWalk(key, types)  BY <1>7, <2>1, ExpectsWalks
        <2>3. IsWalk(Group(key, "AT_LEAST_ONE", list), types)  BY <1>7, <2>2, GroupWalks
        <2> QED  BY <2>1, <2>2, <2>3
    <1>9. ASSUME NEW n \in 0 .. Len(types) - 1, types[n + 1] \in Signatures
          PROVE  At(walk, types, n) <=> Content("account", SubSeq(types, 1, n), FALSE)
        <2> DEFINE content == SubSeq(types, 1, n)
        <2>1. /\ Stretch(content, types, 0, n)
              /\ content # <<>> <=> n >= 1
              /\ n >= 1 => Head(content) = types[1] /\ Stretch(Tail(content), types, 1, n)
            BY ContentStretches
        <2>2. content = <<lone>> <=> n = 1 /\ types[1] = lone  BY LoneContent
        <2>3. types[n + 1] \notin {lone, changed} \cup DOMAIN list /\ n \in Nat
            BY <1>3, <1>9
        <2>4. /\ settlement.count \in Nat
              /\ settlement.pointer = settlement.count
              /\ settlement.count = 0 => (settlement.valid <=> start.valid) /\ types[1] # lone
              /\ settlement.count = 1 => (settlement.valid <=> start.valid) /\ n >= 1 /\ types[1] = lone
              /\ settlement.count \notin {0, 1} => ~settlement.valid /\ n >= 2 /\ types[1] = lone
            <3>1. MayStart(settlement, types, n, start, lone)  BY <1>7, <2>3, MaybeExpected DEF start
            <3> QED  BY <3>1 DEF MayStart
        <2> HIDE DEF content, lone, changed, settlement
        <2>5. ASSUME types[1] \in DOMAIN list \/ n = 0 \/ types[1] = lone
              PROVE  content # <<>> => Head(content) # changed
            BY <1>3, <2>1, <2>5
        <2>6. ASSUME types[1] = lone, n >= 1
              PROVE  Content("account", content, FALSE) <=> n = 1
            <3>1. 1 \in 0 + 1 .. n /\ types[1] \notin DOMAIN list  BY <1>3, <2>6
            <3>2. ~IsOver(content, DOMAIN list)  BY <2>1, <2>3, <3>1, StretchOver
            <3>3. ~Body("account", content, FALSE)  BY <1>4, <3>2
            <3>4. Head(content) # changed  BY <2>1, <2>5, <2>6
            <3> QED  BY <1>6, <2>2, <2>6, <3>3, <3>4
        <2>7. CASE settlement.count = 1
            <3>1. walk = settlement  BY <2>7
            <3>2. At(walk, types, n) <=> n = 1  BY <1>7, <1>8, <2>4, <2>7, <3>1 DEF At
            <3> QED  BY <2>4, <2>6, <2>7, <3>2 DEF content
        <2>8. CASE settlement.count \notin {0, 1}
            <3>1. walk = Group(key, "AT_LEAST_ONE", list)  BY <2>8
            <3>2. ~key.valid  BY <1>7, <1>8, <2>4, <2>8, InvalidExpects
            <3> HIDE DEF key, walk
            <3>3. ~At(walk, types, n)  BY <1>7, <1>8, <3>1, <3>2, InvalidGroup
            <3>4. types[1] = lone /\ n >= 2 /\ n \in Nat  BY <2>3, <2>4, <2>8
            <3>5. n >= 1 /\ n # 1  BY <3>4
            <3>6. ~Content("account", content, FALSE)  BY <2>6, <3>4, <3>5
            <3> QED  BY <3>3, <3>6 DEF content
        <2>9. CASE settlement.count = 0
            <3>1. walk = Group(key, "AT_LEAST_ONE", list)  BY <2>9
            <3>2. AtStart(settlement, types) /\ settlement.valid  BY <1>7, <1>8, <2>4, <2>9 DEF AtStart
            <3>3. /\ key.count \in Nat /\ key.pointer = key.count
                  /\ key.count = 0 => (key.valid <=> settlement.valid) /\ types[1] # changed
                  /\ key.count = 1 => (key.valid <=> settlement.valid) /\ n >= 1 /\ types[1] = changed
                  /\ key.count \notin {0, 1} => ~key.valid /\ n >= 2 /\ types[1] = changed /\ types[2] = changed
                <4>1. MayStart(key, types, n, settlement, changed)  BY <1>7, <2>3, <3>2, MaybeExpected
                <4> QED  BY <4>1 DEF MayStart
            <3> HIDE DEF key, walk
            <3>4. Content("account", content, FALSE)
                    <=> Body("account", IF n >= 1 /\ types[1] = changed THEN Tail(content)
                                        ELSE content, FALSE)
                BY <1>6, <2>1, <2>2, <2>4, <2>9
            <3>5. CASE key.count = 0
                <4>1. key.valid /\ Stretch(content, types, key.pointer, n)  BY <2>1, <3>2, <3>3, <3>5
                <4>2. At(walk, types, n) <=> OfGroup(content, "AT_LEAST_ONE", list)
                    BY <1>7, <1>8, <2>3, <3>1, <4>1, GroupAt
                <4>3. OfGroup(content, "AT_LEAST_ONE", list) <=> Body("account", content, FALSE)
                    BY <1>5, <2>1, <2>3
                <4> QED  BY <3>3, <3>4, <3>5, <4>2, <4>3 DEF content
            <3>6. CASE key.count = 1
                <4> DEFINE body == Tail(content)
                <4>1. key.valid /\ Stretch(body, types, key.pointer, n)  BY <2>1, <3>2, <3>3, <3>6
                <4>2. Stretch(body, types, 1, n)  BY <2>1, <3>3, <3>6
                <4>3. Content("account", content, FALSE) <=> Body("account", body, FALSE)
                    BY <3>3, <3>4, <3>6
                <4> HIDE DEF body
                <4>4. At(walk, types, n) <=> OfGroup(body, "AT_LEAST_ONE", list)
                    BY <1>7, <1>8, <2>3, <3>1, <4>1, GroupAt
                <4>5. OfGroup(body, "AT_LEAST_ONE", list) <=> Body("account", body, FALSE)
                    BY <1>5, <2>3, <4>2
                <4> QED  BY <4>3, <4>4, <4>5 DEF content
            <3>7. CASE key.count \notin {0, 1}
                <4> DEFINE body == Tail(content)
                <4>0. n >= 1 /\ types[1] = changed
                    <5>1. n >= 2 /\ n \in Nat /\ types[1] = changed  BY <2>3, <3>3, <3>7
                    <5> QED  BY <5>1
                <4>1. Stretch(body, types, 1, n) /\ 2 \in 1 + 1 .. n /\ types[2] = changed
                    BY <2>1, <3>3, <3>7
                <4>2. Content("account", content, FALSE) <=> Body("account", body, FALSE)
                    BY <3>4, <4>0
                <4> HIDE DEF body
                <4>3. types[2] \notin DOMAIN list  BY <1>3, <4>1
                <4>4. ~IsOver(body, DOMAIN list)  BY <2>3, <4>1, <4>3, StretchOver
                <4>5. ~Content("account", content, FALSE)  BY <1>4, <4>2, <4>4
                <4>6. ~At(walk, types, n)  BY <1>7, <1>8, <3>1, <3>3, <3>7, InvalidGroup
                <4> QED  BY <4>5, <4>6 DEF content
            <3> QED  BY <3>3, <3>5, <3>6, <3>7
        <2> QED  BY <2>4, <2>7, <2>8, <2>9
    <1> HIDE DEF walk
    <1>10. Follows(walk, "account", types, FALSE)  BY <1>8, <1>9 DEF Follows, At
    <1> QED  BY <1>1, <1>10, FollowsLayout


\* The declarations of a node.
NodeList(first) ==
    [VN_COMETBFT_PUBLIC_KEY_DECLARATION |-> IF first THEN "ONE" ELSE "ZERO",
     VN_RPC_ENDPOINT                    |-> IF first THEN "ONE" ELSE "AT_MOST_ONE",
     CUSTOM                             |-> "ANY"]

LEMMA NodeListed ==
    ASSUME NEW first \in BOOLEAN
    PROVE  DOMAIN NodeList(first) = {"VN_COMETBFT_PUBLIC_KEY_DECLARATION", "VN_RPC_ENDPOINT", "CUSTOM"}
    BY DEF NodeList

LEMMA NodeGroup ==
    ASSUME NEW types, NEW n \in Nat, NEW p, NEW body, Stretch(body, types, p, n), NEW first \in BOOLEAN
    PROVE  OfGroup(body, "AT_LEAST_ONE", NodeList(first)) <=> Body("node", body, first)
    <1> DEFINE list == NodeList(first)
               declared == Count(body, "VN_COMETBFT_PUBLIC_KEY_DECLARATION")
               endpoints == Count(body, "VN_RPC_ENDPOINT")
    <1>1. /\ list["VN_COMETBFT_PUBLIC_KEY_DECLARATION"] = IF first THEN "ONE" ELSE "ZERO"
          /\ list["VN_RPC_ENDPOINT"] = IF first THEN "ONE" ELSE "AT_MOST_ONE"
          /\ list["CUSTOM"] = "ANY"
        BY DEF NodeList
    <1>2. DOMAIN list = {"VN_COMETBFT_PUBLIC_KEY_DECLARATION", "VN_RPC_ENDPOINT", "CUSTOM"}
        BY NodeListed
    <1> HIDE DEF list
    <1>3. Body("node", body, first) <=>
            /\ body # <<>>
            /\ IsOver(body, {"VN_COMETBFT_PUBLIC_KEY_DECLARATION", "VN_RPC_ENDPOINT", "CUSTOM"})
            /\ IF first THEN declared = 1 /\ endpoints = 1 ELSE declared = 0 /\ endpoints <= 1
        BY DEF Body
    <1>4. \A count : /\ Satisfies("ANY", count)
                     /\ Satisfies("ZERO", count) <=> count = 0
                     /\ Satisfies("ONE", count) <=> count = 1
                     /\ Satisfies("AT_MOST_ONE", count) <=> count <= 1
                     /\ Satisfies("AT_LEAST_ONE", count) <=> count >= 1
        BY DEF Satisfies
    <1>5. body # <<>> <=> Len(body) >= 1  BY StretchSize
    <1> HIDE DEF declared, endpoints
    <1>6. (\A type \in DOMAIN list : Satisfies(list[type], Count(body, type)))
            <=> IF first THEN declared = 1 /\ endpoints = 1 ELSE declared = 0 /\ endpoints <= 1
        <2>1. (\A type \in DOMAIN list : Satisfies(list[type], Count(body, type)))
                <=> /\ Satisfies(IF first THEN "ONE" ELSE "ZERO", declared)
                    /\ Satisfies(IF first THEN "ONE" ELSE "AT_MOST_ONE", endpoints)
            BY <1>1, <1>2, <1>4 DEF declared, endpoints
        <2> QED  BY <1>4, <2>1
    <1>7. OfGroup(body, "AT_LEAST_ONE", list) <=> Body("node", body, first)
        BY <1>2, <1>3, <1>4, <1>5, <1>6 DEF OfGroup
    <1> QED  BY <1>7 DEF list

LEMMA NodeFirstAgrees ==
    ASSUME NEW S, NEW types \in Seq(S)
    PROVE  CheckNode(types, TRUE) <=> Layout("node", types, TRUE)
    <1> DEFINE type == "VN_CREATION"
               list == NodeList(TRUE)
               walk == Group(Expects(Start(types), "ONE", type), "AT_LEAST_ONE", list)
    <1>1. CheckNode(types, TRUE) <=> Signed(walk)  BY DEF CheckNode, NodeList
    <1>2. type \notin Signatures \cup DOMAIN list /\ Signatures \cap DOMAIN list = {}
        <2>1. DOMAIN NodeList(TRUE) = {"VN_COMETBFT_PUBLIC_KEY_DECLARATION", "VN_RPC_ENDPOINT", "CUSTOM"}
            BY NodeListed
        <2> QED  BY <2>1 DEF Signatures
    <1>3. \A content : Content("node", content, TRUE)
            <=> content # <<>> /\ Head(content) = type /\ Body("node", Tail(content), TRUE)
        BY DEF Content, Opening
    <1> HIDE DEF type, list
    <1>4. ASSUME NEW n \in 0 .. Len(types) - 1
          PROVE  Content("node", SubSeq(types, 1, n), TRUE)
                   <=> OpenedBy(SubSeq(types, 1, n), type, "AT_LEAST_ONE", list)
        <2> DEFINE content == SubSeq(types, 1, n)
        <2>1. content # <<>> => Stretch(Tail(content), types, 1, n)  BY ContentStretches
        <2>2. n \in Nat  OBVIOUS
        <2> HIDE DEF content
        <2>3. content # <<>> =>
                (OfGroup(Tail(content), "AT_LEAST_ONE", list) <=> Body("node", Tail(content), TRUE))
            BY <2>1, <2>2, NodeGroup DEF list
        <2> QED  BY <1>3, <2>3 DEF OpenedBy, content
    <1>5. Follows(walk, "node", types, TRUE)  BY <1>2, <1>4, OpenedFollows
    <1> HIDE DEF walk
    <1> QED  BY <1>1, <1>5, FollowsLayout

\* A later microblock of a node: an approval or a cancellation alone, or declarations.
LEMMA NodeLaterAgrees ==
    ASSUME NEW S, NEW types \in Seq(S)
    PROVE  CheckNode(types, FALSE) <=> Layout("node", types, FALSE)
    <1> DEFINE approved == "VN_APPROVAL"
               cancelled == "VN_SLASHING_CANCELLATION"
               creation == "VN_CREATION"
               list == NodeList(FALSE)
               start == Start(types)
               approval == Expects(start, "AT_MOST_ONE", approved)
               cancellation == Expects(approval, "AT_MOST_ONE", cancelled)
               none == Expects(cancellation, "ZERO", creation)
               declarations == Group(none, "AT_LEAST_ONE", list)
               walk == IF approval.count = 1 THEN approval
                       ELSE IF cancellation.count = 1 THEN cancellation ELSE declarations
    <1>1. CheckNode(types, FALSE) <=> Signed(walk)  BY DEF CheckNode, NodeList
    <1>2. /\ {approved, cancelled, creation} \cap (Signatures \cup DOMAIN list) = {}
          /\ approved # cancelled
          /\ Signatures \cap DOMAIN list = {}
        BY NodeListed DEF Signatures
    <1>3. \A content : Content("node", content, FALSE)
            <=> content \in {<<approved>>, <<cancelled>>} \/ Body("node", content, FALSE)
        BY DEF Content
    <1> HIDE DEF approved, cancelled, creation, list
    <1>4. \A body : OfGroup(body, "AT_LEAST_ONE", list) => IsOver(body, DOMAIN list)  BY DEF OfGroup
    <1>5. AtStart(start, types) /\ start.valid /\ Len(types) \in Nat  BY StartWalks DEF Start, AtStart
    <1> HIDE DEF start
    <1>6. /\ IsWalk(approval, types) /\ IsWalk(cancellation, types)
          /\ IsWalk(none, types) /\ IsWalk(declarations, types)
          /\ IsWalk(walk, types)
        <2>1. IsWalk(approval, types)  BY <1>5, ExpectsWalks DEF AtStart
        <2>2. IsWalk(cancellation, types)  BY <1>5, <2>1, ExpectsWalks
        <2>3. IsWalk(none, types)  BY <1>5, <2>2, ExpectsWalks
        <2>4. IsWalk(declarations, types)  BY <1>5, <2>3, GroupWalks
        <2> HIDE DEF approval, cancellation, none, declarations
        <2> QED  BY <2>1, <2>2, <2>3, <2>4
    <1>7. ASSUME NEW n \in 0 .. Len(types) - 1, types[n + 1] \in Signatures
          PROVE  At(walk, types, n) <=> Content("node", SubSeq(types, 1, n), FALSE)
        <2> DEFINE content == SubSeq(types, 1, n)
        <2>1. Stretch(content, types, 0, n)  BY ContentStretches
        <2>2. /\ content = <<approved>> <=> n = 1 /\ types[1] = approved
              /\ content = <<cancelled>> <=> n = 1 /\ types[1] = cancelled
            BY LoneContent
        <2>3. /\ types[n + 1] \notin {approved, cancelled, creation} \cup DOMAIN list
              /\ creation \notin DOMAIN list /\ n \in Nat
            BY <1>2, <1>7
        <2> HIDE DEF content
        <2>4. OfGroup(content, "AT_LEAST_ONE", list) <=> Body("node", content, FALSE)
            BY <2>1, <2>3, NodeGroup DEF list
        <2>5. ASSUME types[1] \in {approved, cancelled}, n >= 1
              PROVE  Content("node", content, FALSE) <=> n = 1
            <3>1. 1 \in 0 + 1 .. n /\ types[1] \notin DOMAIN list  BY <1>2, <2>5
            <3>2. ~IsOver(content, DOMAIN list)  BY <2>1, <2>3, <3>1, StretchOver
            <3>3. ~Body("node", content, FALSE)  BY <1>4, <2>4, <3>2
            <3> QED  BY <1>3, <2>2, <2>5, <3>3
        <2>6. MayStart(approval, types, n, start, approved)  BY <1>5, <2>3, MaybeExpected
        <2> HIDE DEF approval
        <2>7. CASE approval.count = 1
            <3>1. walk = approval  BY <2>7
            <3>2. At(walk, types, n) <=> n = 1  BY <1>5, <1>6, <2>6, <2>7, <3>1 DEF At, MayStart
            <3>3. n >= 1 /\ types[1] = approved  BY <2>6, <2>7 DEF MayStart
            <3> QED  BY <2>5, <3>2, <3>3 DEF content
        <2>8. ASSUME types[1] \in {approved, cancelled}, n >= 2 PROVE ~Content("node", content, FALSE)
            <3>1. n >= 1 /\ n # 1  BY <2>3, <2>8
            <3> QED  BY <2>5, <2>8, <3>1
        <2>9. CASE approval.count \notin {0, 1}
            <3>1. walk = IF cancellation.count = 1 THEN cancellation ELSE declarations  BY <2>9
            <3>2. ~approval.valid /\ n >= 2 /\ types[1] = approved  BY <2>6, <2>9 DEF MayStart
            <3>3. ~cancellation.valid  BY <1>5, <1>6, <3>2, InvalidExpects
            <3>4. ~none.valid
                <4> HIDE DEF cancellation
                <4> QED  BY <1>5, <1>6, <3>3, InvalidExpects
            <3>5. ~At(declarations, types, n)
                <4> HIDE DEF none
                <4> QED  BY <1>5, <1>6, <3>4, InvalidGroup
            <3>6. ~At(cancellation, types, n)  BY <3>3 DEF At
            <3> HIDE DEF walk, cancellation, declarations
            <3>7. ~At(walk, types, n)  BY <3>1, <3>5, <3>6
            <3> QED  BY <2>8, <3>2, <3>7 DEF content
        <2>10. CASE approval.count = 0
            <3>1. walk = IF cancellation.count = 1 THEN cancellation ELSE declarations  BY <2>10
            <3>2. AtStart(approval, types) /\ approval.valid /\ types[1] # approved
                BY <1>5, <1>6, <2>6, <2>10 DEF AtStart, MayStart
            <3>3. MayStart(cancellation, types, n, approval, cancelled)  BY <1>5, <2>3, <3>2, MaybeExpected
            <3> HIDE DEF cancellation
            <3>4. CASE cancellation.count = 1
                <4>1. walk = cancellation  BY <3>1, <3>4
                <4>2. At(walk, types, n) <=> n = 1  BY <1>6, <3>2, <3>3, <3>4, <4>1 DEF At, MayStart
                <4>3. n >= 1 /\ types[1] = cancelled  BY <3>3, <3>4 DEF MayStart
                <4> QED  BY <2>5, <4>2, <4>3 DEF content
            <3>5. CASE cancellation.count \notin {0, 1}
                <4>1. walk = declarations  BY <3>1, <3>5
                <4>2. ~cancellation.valid /\ n >= 2 /\ types[1] = cancelled  BY <3>3, <3>5 DEF MayStart
                <4>3. ~none.valid  BY <1>5, <1>6, <4>2, InvalidExpects
                <4> HIDE DEF none, walk
                <4>4. ~At(walk, types, n)  BY <1>5, <1>6, <4>1, <4>3, InvalidGroup
                <4> QED  BY <2>8, <4>2, <4>4 DEF content
            <3>6. CASE cancellation.count = 0
                <4>1. walk = declarations  BY <3>1, <3>6
                <4>2. AtStart(cancellation, types) /\ cancellation.valid /\ types[1] # cancelled
                    BY <1>6, <3>2, <3>3, <3>6 DEF AtStart, MayStart
                <4>3. OnlyGroups(declarations, types, n, cancellation, "AT_LEAST_ONE", list)
                    BY <2>3, <4>2, UnopenedGroup
                <4> HIDE DEF declarations, walk
                <4>4. At(walk, types, n) <=> OfGroup(content, "AT_LEAST_ONE", list)
                    BY <4>1, <4>2, <4>3 DEF OnlyGroups, At, content
                <4>5. Content("node", content, FALSE) <=> Body("node", content, FALSE)
                    BY <1>3, <2>2, <3>2, <4>2
                <4> QED  BY <2>4, <4>4, <4>5 DEF content
            <3> QED  BY <3>4, <3>5, <3>6
        <2> QED  BY <2>7, <2>9, <2>10
    <1> HIDE DEF walk
    <1>8. Follows(walk, "node", types, FALSE)  BY <1>6, <1>7 DEF Follows, At
    <1> QED  BY <1>1, <1>8, FollowsLayout


\* Of what is neither opening nor signature, there is as much in the microblock as in
\* the stretch between.
LEMMA PlacesBetween ==
    ASSUME NEW types, Len(types) \in Nat, DOMAIN types = 1 .. Len(types),
           NEW n, SignedFrom(types, n), NEW p \in 0 .. n, NEW type, type \notin Signatures,
           \A i \in 1 .. p : types[i] # type
    PROVE  {i \in DOMAIN types : types[i] = type} = Places(types, p, n, type)
    <1>1. n \in 0 .. Len(types) - 1  BY DEF SignedFrom
    <1>2. \A i \in n + 1 .. Len(types) : types[i] # type
        <2> SUFFICES ASSUME NEW i \in n + 1 .. Len(types) PROVE types[i] # type  OBVIOUS
        <2>1. CASE i = Len(types)  BY <2>1 DEF SignedFrom, Signatures
        <2>2. CASE i # Len(types)
            <3>1. i \in n + 1 .. Len(types) - 1
                <4> DEFINE last == Len(types)
                <4>1. last \in Nat  OBVIOUS
                <4>2. n \in 0 .. last - 1  BY <1>1
                <4>3. i \in n + 1 .. last  OBVIOUS
                <4>4. i # last  BY <2>2
                <4> HIDE DEF last
                <4>5. i \in n + 1 .. last - 1  BY <4>1, <4>2, <4>3, <4>4
                <4> QED  BY <4>5 DEF last
            <3> QED  BY <3>1 DEF SignedFrom, Signatures
        <2> QED  BY <2>1, <2>2
    <1>3. \A i \in DOMAIN types : types[i] = type => i \in p + 1 .. n  BY <1>1, <1>2
    <1>4. \A i \in p + 1 .. n : i \in DOMAIN types  BY <1>1
    <1> QED  BY <1>3, <1>4 DEF Places

LEMMA NodeDeclares ==
    ASSUME NEW S, NEW types \in Seq(S), NEW first \in BOOLEAN, Layout("node", types, first)
    PROVE  ~NodeThrows([height   |-> IF first THEN 1 ELSE 2,
                        sections |-> [i \in DOMAIN types |-> [type |-> types[i]]]])
    <1> DEFINE type == "VN_COMETBFT_PUBLIC_KEY_DECLARATION"
               mb == [height   |-> IF first THEN 1 ELSE 2,
                      sections |-> [i \in DOMAIN types |-> [type |-> types[i]]]]
               A == {i \in DOMAIN types : types[i] = type}
    <1>1. NodeThrows(mb) <=> Cardinality(A) # IF first THEN 1 ELSE 0
        <2>1. Positions(mb, type) = A  BY DEF Positions
        <2>2. mb.height = 1 <=> first  OBVIOUS
        <2> HIDE DEF mb, A
        <2> QED  BY <2>1, <2>2 DEF NodeThrows
    <1>2. PICK n \in 0 .. Len(types) - 1 : SignedFrom(types, n) /\ Content("node", SubSeq(types, 1, n), first)
        BY DEF Layout, SignedFrom
    <1> DEFINE content == SubSeq(types, 1, n)
    <1>3. /\ Stretch(content, types, 0, n)
          /\ content # <<>> <=> n >= 1
          /\ n >= 1 => Head(content) = types[1] /\ Stretch(Tail(content), types, 1, n)
        BY ContentStretches
    <1>4. Len(types) \in Nat /\ DOMAIN types = 1 .. Len(types) /\ n \in Nat  OBVIOUS
    <1>5. type \notin Signatures \cup {"VN_APPROVAL", "VN_SLASHING_CANCELLATION", "VN_CREATION"}
        BY DEF Signatures
    <1>6. \A body : Body("node", body, first) => Count(body, type) = IF first THEN 1 ELSE 0
        BY DEF Body
    <1>7. IF first THEN content # <<>> /\ Head(content) = "VN_CREATION" /\ Body("node", Tail(content), first)
          ELSE \/ content \in {<<"VN_APPROVAL">>, <<"VN_SLASHING_CANCELLATION">>}
               \/ Body("node", content, first)
        BY <1>2 DEF Content, Opening
    <1>8. ASSUME content \in {<<"VN_APPROVAL">>, <<"VN_SLASHING_CANCELLATION">>}
          PROVE  n = 1 /\ types[1] \in {"VN_APPROVAL", "VN_SLASHING_CANCELLATION"}
        BY <1>8, LoneContent
    <1> HIDE DEF type, A, mb, content
    <1>9. ASSUME NEW p \in 0 .. n, \A i \in 1 .. p : types[i] # type
          PROVE  A = Places(types, p, n, type)
        BY <1>2, <1>4, <1>5, <1>9, PlacesBetween DEF A
    <1>10. CASE first
        <2> DEFINE body == Tail(content)
        <2>1. n >= 1 /\ types[1] # type  BY <1>3, <1>5, <1>7, <1>10
        <2>2. A = Places(types, 1, n, type)
            <3>1. 1 \in 0 .. n /\ \A i \in 1 .. 1 : types[i] # type  BY <1>4, <2>1
            <3> QED  BY <1>9, <3>1
        <2>3. Stretch(body, types, 1, n) /\ Body("node", body, first)  BY <1>3, <1>7, <1>10, <2>1
        <2> HIDE DEF body
        <2>4. Count(body, type) = Cardinality(Places(types, 1, n, type))  BY <1>4, <2>3, StretchCount
        <2>5. Cardinality(A) = 1  BY <1>6, <1>10, <2>2, <2>3, <2>4
        <2> QED  BY <1>1, <1>10, <2>5 DEF mb
    <1>11. CASE ~first /\ Body("node", content, first)
        <2>1. A = Places(types, 0, n, type)
            <3>1. 0 \in 0 .. n /\ \A i \in 1 .. 0 : types[i] # type  BY <1>4
            <3> QED  BY <1>9, <3>1
        <2>2. Count(content, type) = Cardinality(Places(types, 0, n, type))  BY <1>3, <1>4, StretchCount
        <2>3. Cardinality(A) = 0  BY <1>6, <1>11, <2>1, <2>2
        <2> QED  BY <1>1, <1>11, <2>3 DEF mb
    <1>12. CASE ~first /\ content \in {<<"VN_APPROVAL">>, <<"VN_SLASHING_CANCELLATION">>}
        <2>1. n = 1 /\ types[1] # type  BY <1>5, <1>8, <1>12
        <2>2. A = Places(types, 1, n, type)
            <3>1. 1 \in 0 .. n /\ \A i \in 1 .. 1 : types[i] # type  BY <2>1
            <3> QED  BY <1>9, <3>1
        <2>3. A = {}  BY <2>1, <2>2 DEF Places
        <2>4. Cardinality(A) = 0  BY <2>3, FS_EmptySet
        <2> QED  BY <1>1, <1>12, <2>4 DEF mb
    <1> QED  BY <1>7, <1>10, <1>11, <1>12

\* The walk of each checker and its layout, for sequences of any types.
LEMMA WalksAgree ==
    ASSUME NEW S, NEW types \in Seq(S), NEW kind \in LayoutKinds, NEW first \in BOOLEAN
    PROVE  WalkAgrees(kind, types, first)
    <1>1. CheckMicroblockStructure(kind, types, first) <=> Layout(kind, types, first)
        <2>1. CASE kind = "account"
            <3>1. CheckAccount(types, first) <=> Layout("account", types, first)
                <4>1. CASE first
                    <5>1. first = TRUE  BY <4>1
                    <5> QED  BY <5>1, AccountFirstAgrees
                <4>2. CASE ~first
                    <5>1. first = FALSE  BY <4>2
                    <5> QED  BY <5>1, AccountLaterAgrees
                <4> QED  BY <4>1, <4>2
            <3> QED  BY <2>1, <3>1 DEF CheckMicroblockStructure
        <2>2. CASE kind = "organization"
            <3>1. CheckDescribed(types, first, "ORG_CREATION", "ORG_DESCRIPTION")
                    <=> Layout("organization", types, first)
                BY DescribedAgrees DEF Opening
            <3> QED  BY <2>2, <3>1 DEF CheckMicroblockStructure, CheckOrganization
        <2>3. CASE kind = "application"
            <3>1. CheckDescribed(types, first, "APP_CREATION", "APP_DESCRIPTION")
                    <=> Layout("application", types, first)
                BY DescribedAgrees DEF Opening
            <3> QED  BY <2>3, <3>1 DEF CheckMicroblockStructure, CheckApplication
        <2>4. CASE kind = "node"
            <3>1. CheckNode(types, first) <=> Layout("node", types, first)
                <4>1. CASE first
                    <5>1. first = TRUE  BY <4>1
                    <5> QED  BY <5>1, NodeFirstAgrees
                <4>2. CASE ~first
                    <5>1. first = FALSE  BY <4>2
                    <5> QED  BY <5>1, NodeLaterAgrees
                <4> QED  BY <4>1, <4>2
            <3> QED  BY <2>4, <3>1 DEF CheckMicroblockStructure
        <2>5. CASE kind = "protocol"
            BY <2>5, ProtocolAgrees DEF CheckMicroblockStructure
        <2>6. CASE kind = "ledger"
            BY <2>6, LedgerAgrees DEF CheckMicroblockStructure
        <2> QED  BY <2>1, <2>2, <2>3, <2>4, <2>5, <2>6 DEF LayoutKinds, Kinds
    <1>2. kind = "node" /\ Layout(kind, types, first) =>
            ~NodeThrows([height   |-> IF first THEN 1 ELSE 2,
                         sections |-> [i \in DOMAIN types |-> [type |-> types[i]]]])
        BY NodeDeclares
    <1> QED  BY <1>1, <1>2 DEF WalkAgrees

LayoutInput ==
    /\ input.of = "layout"
    /\ input = [of |-> "layout", kind |-> input.kind, first |-> input.first, types |-> input.types]
    /\ input.kind \in LayoutKinds
    /\ input.first \in BOOLEAN
    /\ input.types \in Seq(UNION {Alphabet(kind) : kind \in LayoutKinds})

\* However many sections a microblock has, the walk of the structure checker of its kind
\* accepts exactly the sequences of sections that its layout describes, and what it
\* accepts of a node has the declarations that the updater of the node's state counts
\* (StructureChecker.ts:75-137 and the six checkers).
THEOREM LayoutsAreChecked == LayoutSpec => []LayoutAgrees
    <1>1. NoSections => LayoutInput
        <2> SUFFICES ASSUME NEW kind \in LayoutKinds, NEW first \in BOOLEAN,
                            input = [of |-> "layout", kind |-> kind, first |-> first, types |-> <<>>]
                     PROVE  LayoutInput
            BY DEF NoSections
        <2> QED  BY DEF LayoutInput
    <1>2. LayoutInput /\ [AddSection]_input => LayoutInput'
        <2> SUFFICES ASSUME LayoutInput, [AddSection]_input PROVE LayoutInput'
            OBVIOUS
        <2>1. CASE UNCHANGED input  BY <2>1 DEF LayoutInput
        <2>2. CASE AddSection
            <3> DEFINE S == UNION {Alphabet(kind) : kind \in LayoutKinds}
            <3>1. PICK type \in Alphabet(input.kind) : input' = [input EXCEPT !.types = Append(@, type)]
                BY <2>2 DEF AddSection
            <3>2. type \in S  BY DEF LayoutInput
            <3>3. /\ input.of = "layout" /\ input.kind \in LayoutKinds /\ input.first \in BOOLEAN
                  /\ input = [of |-> "layout", kind |-> input.kind, first |-> input.first,
                              types |-> input.types]
                  /\ input.types \in Seq(S)
                BY DEF LayoutInput
            <3> HIDE DEF S
            <3>4. Append(input.types, type) \in Seq(S)  BY <3>2, <3>3
            <3>5. input' = [of |-> "layout", kind |-> input.kind, first |-> input.first,
                            types |-> Append(input.types, type)]
                BY <3>1, <3>3
            <3> QED  BY <3>3, <3>4, <3>5 DEF LayoutInput, S
        <2> QED  BY <2>1, <2>2
    <1>3. LayoutInput => LayoutAgrees  BY WalksAgree DEF LayoutInput, LayoutAgrees
    <1> QED  BY <1>1, <1>2, <1>3, PTL DEF LayoutSpec
=============================================================================
