--------------------------- MODULE LedgerChainProofs ---------------------------
(* Type correctness of the ledger's chain, and the uniqueness of its names, for any
   number of appends in progress and any microblocks. *)
EXTENDS LedgerChain, ApplicationLedgerProofs

-----------------------------------------------------------------------------
(* The chain *)

\* An append in progress with what is left to do.
Progress == [stage : {"protocol", "updating"}, block : Block, next : Nat \ {0}]

LEMMA NextSectionTyped ==
    ASSUME TypeOK, NEW p \in Appenders, HasSection(p)
    PROVE  NextSection(p) \in Section
    <1>1. append[p] \in {Idle} \cup Progress  BY DEF TypeOK, Progress
    <1>2. append[p] \in Progress  BY <1>1 DEF HasSection, Idle
    <1> DEFINE sections == append[p].block.sections
               next == append[p].next
    <1>3. sections \in Contents  BY <1>2 DEF Progress, Block
    <1>4. sections \in Seq(Section)  BY <1>3, ContentsAssumption
    <1>5. next \in Nat \ {0}  BY <1>2 DEF Progress
    <1>6. next <= Len(sections)  BY DEF HasSection
    <1> HIDE DEF sections, next
    <1>7. sections[next] \in Section  BY <1>4, <1>5, <1>6
    <1> QED  BY <1>7 DEF NextSection, sections, next

Inductive == TypeOK /\ NamesAndCreators

\* Between the state of an append and its next one, only its own entry changes.
LEMMA ProgressChanges ==
    ASSUME TypeOK, NEW p \in Appenders, NEW a,
           \/ a = Idle
           \/ a \in Progress /\ a.next <= Len(a.block.sections) + 1,
           append' = [append EXCEPT ![p] = a]
    PROVE  /\ append' \in [Appenders -> {Idle} \cup Progress]
           /\ \A q \in Appenders :
                append'[q].stage # "idle" => append'[q].next <= Len(append'[q].block.sections) + 1
    <1>1. append \in [Appenders -> {Idle} \cup Progress]  BY DEF TypeOK, Progress
    <1>2. append' \in [Appenders -> {Idle} \cup Progress]  BY <1>1
    <1>3. ASSUME NEW q \in Appenders, append'[q].stage # "idle"
          PROVE  append'[q].next <= Len(append'[q].block.sections) + 1
        <2>1. CASE q = p
            <3>1. append'[q] = a  BY <1>1, <2>1
            <3>2. a # Idle  BY <1>3, <3>1 DEF Idle
            <3> QED  BY <3>1, <3>2
        <2>2. CASE q # p
            <3>1. append'[q] = append[q]  BY <1>1, <2>2
            <3> QED  BY <1>3, <3>1 DEF TypeOK
        <2> QED  BY <2>1, <2>2
    <1> QED  BY <1>2, <1>3

LEMMA SectionRun ==
    ASSUME Inductive, NEW p \in Appenders, HasSection(p),
           ledger' = Effect(ledger, NextSection(p), append[p].block.height)
    PROVE  ledger' \in State /\ WellNamed(ledger')
    <1>1. append[p] \in {Idle} \cup Progress  BY DEF Inductive, TypeOK, Progress
    <1>2. append[p] \in Progress  BY <1>1 DEF HasSection, Idle
    <1>3. append[p].block.height \in Nat  BY <1>2 DEF Progress, Block
    <1>4. NextSection(p) \in Section  BY NextSectionTyped DEF Inductive
    <1>5. ledger \in State /\ WellNamed(ledger)
        BY DEF Inductive, TypeOK, NamesAndCreators, WellNamed
    <1> QED  BY <1>3, <1>4, <1>5, SectionWellFormed, EffectTyped, EffectWellNamed

LEMMA InductiveInit == Init => Inductive
    <1> SUFFICES ASSUME Init PROVE Inductive
        OBVIOUS
    <1>1. InitialState \in State  BY DEF InitialState, State
    <1>2. WellNamed(InitialState)
        BY DEF WellNamed, UniqueActors, UniqueChannels, CreatorsExist, InitialState
    <1>3. blocks \in Seq(Block)  BY DEF Init
    <1>4. append \in [Appenders -> {Idle} \cup Progress]  BY DEF Init
    <1>5. \A p \in Appenders : append[p].stage = "idle"  BY DEF Init, Idle
    <1>6. fresh \in 0 .. MaxBlocks  BY MaxBlocksAssumption DEF Init
    <1>7. TypeOK  BY <1>1, <1>3, <1>4, <1>5, <1>6 DEF Init, TypeOK, Progress
    <1> QED  BY <1>2, <1>7 DEF Init, Inductive, NamesAndCreators, WellNamed

LEMMA InductiveNext == Inductive /\ [Next]_vars => Inductive'
    <1> SUFFICES ASSUME Inductive, [Next]_vars PROVE Inductive'
        OBVIOUS
    <1> USE DEF Inductive
    <1>1. CASE UNCHANGED vars
        BY <1>1 DEF vars, TypeOK, NamesAndCreators, UniqueActors, UniqueChannels, CreatorsExist
    <1>2. ASSUME NEW p \in Appenders, NEW sections \in Contents, NEW height \in 1 .. MaxBlocks,
                 NEW previous \in 0 .. MaxBlocks, BeginAppend(p, sections, height, previous)
          PROVE  Inductive'
        <2> DEFINE block == [id |-> fresh + 1, height |-> height,
                             previous |-> previous, sections |-> sections]
                   a == [stage |-> "protocol", next |-> 1, block |-> block]
        <2>1. fresh' \in 0 .. MaxBlocks /\ fresh + 1 \in 1 .. MaxBlocks
            BY <1>2, MaxBlocksAssumption DEF BeginAppend, TypeOK
        <2>2. block \in Block  BY <2>1, MaxBlocksAssumption DEF Block
        <2>3. block.sections = sections  OBVIOUS
        <2>4. append' = [append EXCEPT ![p] = a]  BY <1>2 DEF BeginAppend
        <2> HIDE DEF block
        <2>5. a \in Progress /\ a.next = 1 /\ a.block = block  BY <2>2 DEF Progress
        <2>6. Len(sections) \in Nat  BY ContentsAssumption
        <2> HIDE DEF a
        <2>7. a.next <= Len(a.block.sections) + 1  BY <2>3, <2>5, <2>6
        <2>8. /\ append' \in [Appenders -> {Idle} \cup Progress]
              /\ \A q \in Appenders : append'[q].stage # "idle" =>
                   append'[q].next <= Len(append'[q].block.sections) + 1
            BY <2>4, <2>5, <2>7, ProgressChanges
        <2>9. TypeOK'  BY <1>2, <2>1, <2>8 DEF BeginAppend, TypeOK, Progress
        <2> QED
            BY <1>2, <2>9 DEF BeginAppend, NamesAndCreators, UniqueActors, UniqueChannels, CreatorsExist
    <1>3. ASSUME NEW p \in Appenders, BeginUpdate(p)
          PROVE  Inductive'
        <2> DEFINE a == [stage |-> "updating", block |-> append[p].block, next |-> 1]
        <2>1. append[p] \in Progress  BY <1>3 DEF BeginUpdate, TypeOK, Progress, Idle
        <2>2. append[p].block \in Block  BY <2>1 DEF Progress
        <2>3. append' = [append EXCEPT ![p] = a]  BY <1>3 DEF BeginUpdate
        <2>4. a \in Progress /\ a.next = 1 /\ a.block = append[p].block  BY <2>2 DEF Progress
        <2>5. Len(append[p].block.sections) \in Nat  BY <2>2, ContentsAssumption DEF Block
        <2> HIDE DEF a
        <2>6. a.next <= Len(a.block.sections) + 1  BY <2>4, <2>5
        <2>7. /\ append' \in [Appenders -> {Idle} \cup Progress]
              /\ \A q \in Appenders : append'[q].stage # "idle" =>
                   append'[q].next <= Len(append'[q].block.sections) + 1
            BY <2>3, <2>4, <2>6, ProgressChanges
        <2>8. TypeOK'  BY <1>3, <2>7 DEF BeginUpdate, TypeOK, Progress
        <2> QED
            BY <1>3, <2>8 DEF BeginUpdate, NamesAndCreators, UniqueActors, UniqueChannels, CreatorsExist
    <1>4. ASSUME NEW p \in Appenders, ProtocolFails(p)
          PROVE  Inductive'
        <2>1. append' = [append EXCEPT ![p] = Idle]  BY <1>4 DEF ProtocolFails
        <2>2. /\ append' \in [Appenders -> {Idle} \cup Progress]
              /\ \A q \in Appenders : append'[q].stage # "idle" =>
                   append'[q].next <= Len(append'[q].block.sections) + 1
            BY <2>1, ProgressChanges
        <2>3. TypeOK'  BY <1>4, <2>2 DEF ProtocolFails, TypeOK, Progress
        <2> QED
            BY <1>4, <2>3 DEF ProtocolFails, NamesAndCreators, UniqueActors, UniqueChannels, CreatorsExist
    <1>5. ASSUME NEW p \in Appenders, UpdateSection(p)
          PROVE  Inductive'
        <2> DEFINE a == Advanced(append[p])
        <2>1. append[p] \in Progress
            BY <1>5 DEF UpdateSection, HasSection, TypeOK, Progress, Idle
        <2>2. append[p].block \in Block /\ append[p].next \in Nat \ {0}  BY <2>1 DEF Progress
        <2>3. Len(append[p].block.sections) \in Nat  BY <2>2, ContentsAssumption DEF Block
        <2>4. append' = [append EXCEPT ![p] = a]  BY <1>5 DEF UpdateSection
        <2>5. a \in Progress /\ a.next = append[p].next + 1 /\ a.block = append[p].block
            BY <2>2 DEF Progress, Advanced
        <2>6. append[p].next <= Len(append[p].block.sections)
            BY <1>5 DEF UpdateSection, HasSection
        <2> HIDE DEF a
        <2>7. a.next <= Len(a.block.sections) + 1  BY <2>2, <2>3, <2>5, <2>6
        <2>8. /\ append' \in [Appenders -> {Idle} \cup Progress]
              /\ \A q \in Appenders : append'[q].stage # "idle" =>
                   append'[q].next <= Len(append'[q].block.sections) + 1
            BY <2>4, <2>5, <2>7, ProgressChanges
        <2>9. ledger' \in State /\ WellNamed(ledger')  BY <1>5, SectionRun DEF UpdateSection
        <2>10. TypeOK'  BY <1>5, <2>8, <2>9 DEF UpdateSection, TypeOK, Progress
        <2> QED  BY <2>9, <2>10 DEF NamesAndCreators, WellNamed
    <1>6. ASSUME NEW p \in Appenders, UpdateThrows(p)
          PROVE  Inductive'
        <2>1. append' = [append EXCEPT ![p] = Idle]  BY <1>6 DEF UpdateThrows
        <2>2. /\ append' \in [Appenders -> {Idle} \cup Progress]
              /\ \A q \in Appenders : append'[q].stage # "idle" =>
                   append'[q].next <= Len(append'[q].block.sections) + 1
            BY <2>1, ProgressChanges
        <2>3. ledger' \in State /\ WellNamed(ledger')  BY <1>6, SectionRun DEF UpdateThrows
        <2>4. TypeOK'  BY <1>6, <2>2, <2>3 DEF UpdateThrows, TypeOK, Progress
        <2> QED  BY <2>3, <2>4 DEF NamesAndCreators, WellNamed
    <1>7. ASSUME NEW p \in Appenders, Record(p)
          PROVE  Inductive'
        <2>1. append' = [append EXCEPT ![p] = Idle]  BY <1>7 DEF Record
        <2>2. /\ append' \in [Appenders -> {Idle} \cup Progress]
              /\ \A q \in Appenders : append'[q].stage # "idle" =>
                   append'[q].next <= Len(append'[q].block.sections) + 1
            BY <2>1, ProgressChanges
        <2>3. append[p] \in Progress  BY <1>7 DEF Record, TypeOK, Progress, Idle
        <2>4. append[p].block \in Block  BY <2>3 DEF Progress
        <2>5. blocks' \in Seq(Block)  BY <1>7, <2>4 DEF Record, TypeOK
        <2>6. TypeOK'  BY <1>7, <2>2, <2>5 DEF Record, TypeOK, Progress
        <2> QED
            BY <1>7, <2>6 DEF Record, NamesAndCreators, UniqueActors, UniqueChannels, CreatorsExist
    <1> QED
        BY <1>1, <1>2, <1>3, <1>4, <1>5, <1>6, <1>7 DEF Next

-----------------------------------------------------------------------------

\* The types of the recorded microblocks, of the internal state and of every append
\* in progress (VirtualBlockchain.appendMicroBlock).
THEOREM LedgerTypeCorrect == Spec => []TypeOK
    <1>1. Inductive => TypeOK  BY DEF Inductive
    <1> QED  BY <1>1, InductiveInit, InductiveNext, PTL DEF Spec

\* Names stay unique and creators exist whatever the microblocks are, however many
\* appends are in progress, and also after an update that threw half-way
\* (actorCreationCallback, channelCreationCallback and createChannel).
THEOREM LedgerNames == Spec => []NamesAndCreators
    <1>1. Inductive => NamesAndCreators  BY DEF Inductive
    <1> QED  BY <1>1, InductiveInit, InductiveNext, PTL DEF Spec
-----------------------------------------------------------------------------
(* Nothing is taken back *)

LEMMA AppendsAreLonger ==
    ASSUME NEW S, NEW s \in Seq(S), NEW e \in S
    PROVE  IsPrefix(s, s) /\ IsPrefix(s, Append(s, e))
    BY DEF IsPrefix

\* Whatever the microblocks are and however many appends are in progress, also when one
\* throws half-way: recorded microblocks stay, and so do the name and the key of an actor
\* (appendMicroBlock, actorSubscriptionCallback).
THEOREM LedgerOnlyGrows == Spec => NothingTakenBack
    <1> DEFINE Kept == /\ IsPrefix(blocks, blocks')
                       /\ \A id \in DOMAIN ledger.actors :
                            /\ ledger'.actors[id].name = ledger.actors[id].name
                            /\ Subscribed(ledger, id) =>
                                 ledger'.actors[id].keyHeight = ledger.actors[id].keyHeight
    <1>1. Inductive /\ [Next]_vars => [Kept]_vars
        <2> SUFFICES ASSUME Inductive, Next PROVE Kept
            OBVIOUS
        <2> USE DEF Inductive
        <2>1. blocks \in Seq(Block) /\ ledger \in State  BY DEF TypeOK
        <2>2. IsPrefix(blocks, blocks)  BY <2>1, AppendsAreLonger
        <2>3. PICK p \in Appenders :
                \/ \E sections \in Contents, height \in 1 .. MaxBlocks, previous \in 0 .. MaxBlocks :
                     BeginAppend(p, sections, height, previous)
                \/ BeginUpdate(p)
                \/ ProtocolFails(p)
                \/ UpdateSection(p)
                \/ UpdateThrows(p)
                \/ Record(p)
            BY DEF Next
        <2>4. CASE blocks' = blocks /\ ledger' = ledger  BY <2>2, <2>4
        <2>5. CASE UpdateSection(p) \/ UpdateThrows(p)
            <3>1. /\ blocks' = blocks
                  /\ ledger' = Effect(ledger, NextSection(p), append[p].block.height)
                  /\ HasSection(p)
                BY <2>5 DEF UpdateSection, UpdateThrows
            <3>2. WellFormed(NextSection(p))  BY <3>1, NextSectionTyped, SectionWellFormed
            <3>3. KeepsActors(ledger, ledger')  BY <2>1, <3>1, <3>2, EffectKeepsActors
            <3> QED  BY <2>2, <3>1, <3>3 DEF KeepsActors
        <2>6. CASE Record(p)
            <3>1. append[p] \in Progress  BY <2>6 DEF Record, TypeOK, Progress, Idle
            <3>2. append[p].block \in Block  BY <3>1 DEF Progress
            <3>3. IsPrefix(blocks, blocks')  BY <2>1, <2>6, <3>2, AppendsAreLonger DEF Record
            <3> QED  BY <2>6, <3>3 DEF Record
        <2> QED
            BY <2>3, <2>4, <2>5, <2>6 DEF BeginAppend, BeginUpdate, ProtocolFails
    <1>2. Spec => [][Kept]_vars
        <2> HIDE DEF Kept
        <2> QED  BY <1>1, InductiveInit, InductiveNext, PTL DEF Spec
    <1> QED  BY <1>2 DEF NothingTakenBack, Kept

-----------------------------------------------------------------------------
(* Replaying the recorded microblocks *)

\* state lists the states after the first n microblocks of a chain.
IsReplay(state, chain, n) ==
    /\ state \in [0 .. n -> State]
    /\ state[0] = InitialState
    /\ \A h \in 1 .. n : state[h] = Run(state[h - 1], chain[h].sections, chain[h].height)

LEMMA BlockCanRun ==
    ASSUME NEW s \in State, NEW block \in Block
    PROVE  CanRun(s, block.sections, block.height)
    <1>1. block.sections \in Seq(Section) /\ block.height \in Nat
        BY ContentsAssumption DEF Block
    <1>2. \A k \in 1 .. Len(block.sections) : block.sections[k] \in Section  BY <1>1
    <1> QED  BY <1>1, <1>2, SectionWellFormed DEF CanRun

\* The recursive function in the definition of ReplayOf exists: one microblock at a time.
LEMMA ReplaysExist ==
    ASSUME NEW chain \in Seq(Block)
    PROVE  \E state : IsReplay(state, chain, Len(chain))
    <1> DEFINE n == Len(chain)
               S == {m \in 0 .. n : \E state : IsReplay(state, chain, m)}
    <1>1. n \in Nat /\ InitialState \in State  BY DEF InitialState, State
    <1>2. 0 \in S
        <2>1. IsReplay([k \in 0 .. 0 |-> InitialState], chain, 0)  BY <1>1 DEF IsReplay
        <2> QED  BY <1>1, <2>1
    <1>3. ASSUME NEW m \in 0 .. n - 1, m \in S PROVE m + 1 \in S
        <2>1. PICK p : IsReplay(p, chain, m)  BY <1>3
        <2> DEFINE e == Run(p[m], chain[m + 1].sections, chain[m + 1].height)
                   q == [k \in 0 .. m + 1 |-> IF k <= m THEN p[k] ELSE e]
        <2>2. m \in Nat /\ m + 1 \in 1 .. n  BY <1>1
        <2>3. p[m] \in State  BY <2>1, <2>2 DEF IsReplay
        <2>4. chain[m + 1] \in Block  BY <2>2
        <2>5. e \in State  BY <2>3, <2>4, BlockCanRun, RunSteps
        <2>6. q[m + 1] = Run(q[m], chain[m + 1].sections, chain[m + 1].height)  BY <2>2
        <2> HIDE DEF e
        <2>7. \A k \in 0 .. m : q[k] = p[k]  BY <2>2
        <2>8. q \in [0 .. m + 1 -> State]
            <3>1. \A k \in 0 .. m : p[k] \in State  BY <2>1 DEF IsReplay
            <3> QED  BY <2>2, <2>5, <3>1
        <2> HIDE DEF q
        <2>9. ASSUME NEW k \in 1 .. m + 1
              PROVE  q[k] = Run(q[k - 1], chain[k].sections, chain[k].height)
            <3>1. CASE k = m + 1  BY <2>2, <2>6, <3>1
            <3>2. CASE k \in 1 .. m
                <4>1. p[k] = Run(p[k - 1], chain[k].sections, chain[k].height)
                    BY <2>1, <3>2 DEF IsReplay
                <4>2. q[k] = p[k] /\ q[k - 1] = p[k - 1]  BY <2>7, <3>2
                <4> QED  BY <4>1, <4>2
            <3> QED  BY <2>2, <3>1, <3>2
        <2>10. q[0] = InitialState  BY <2>1, <2>2, <2>7 DEF IsReplay
        <2>11. IsReplay(q, chain, m + 1)  BY <2>8, <2>9, <2>10 DEF IsReplay
        <2> QED  BY <2>2, <2>11
    <1>4. 0 .. n \subseteq S
        <2> HIDE DEF S, n
        <2> QED  BY <1>1, <1>2, <1>3, IntervalInduction
    <1>5. n \in S  BY <1>1, <1>4
    <1> QED  BY <1>5

\* Two chains that begin with the same microblocks go through the same states.
LEMMA ReplaysAgree ==
    ASSUME NEW p, NEW q, NEW a, NEW b, NEW m \in Nat, NEW n \in Nat, m <= n,
           IsReplay(p, a, m), IsReplay(q, b, n), \A h \in 1 .. m : a[h] = b[h]
    PROVE  \A h \in 0 .. m : p[h] = q[h]
    <1> DEFINE S == {h \in 0 .. m : p[h] = q[h]}
    <1>1. 0 \in S  BY DEF IsReplay
    <1>2. ASSUME NEW h \in 0 .. m - 1, h \in S PROVE h + 1 \in S
        <2>1. h + 1 \in 1 .. m /\ h + 1 \in 1 .. n /\ (h + 1) - 1 = h  OBVIOUS
        <2>2. p[h + 1] = Run(p[h], a[h + 1].sections, a[h + 1].height)  BY <2>1 DEF IsReplay
        <2>3. q[h + 1] = Run(q[h], b[h + 1].sections, b[h + 1].height)  BY <2>1 DEF IsReplay
        <2>4. p[h] = q[h] /\ a[h + 1] = b[h + 1]  BY <1>2, <2>1
        <2> QED  BY <2>1, <2>2, <2>3, <2>4
    <1>3. 0 .. m \subseteq S
        <2> HIDE DEF S
        <2> QED  BY <1>1, <1>2, IntervalInduction
    <1> QED  BY <1>3

LEMMA ReplayOfIsReplay ==
    ASSUME NEW chain \in Seq(Block)
    PROVE  \E state : IsReplay(state, chain, Len(chain)) /\ ReplayOf(chain) = state[Len(chain)]
    <1> DEFINE n == Len(chain)
               Is(f) == f = [h \in 0 .. n |->
                               IF h = 0 THEN InitialState
                               ELSE Run(f[h - 1], chain[h].sections, chain[h].height)]
               state == CHOOSE f : Is(f)
    <1>1. n \in Nat  OBVIOUS
    <1>2. PICK p : IsReplay(p, chain, n)  BY ReplaysExist
    <1>3. Is(p)
        <2> DEFINE q == [h \in 0 .. n |-> IF h = 0 THEN InitialState
                                          ELSE Run(p[h - 1], chain[h].sections, chain[h].height)]
        <2>1. p = [h \in 0 .. n |-> p[h]]  BY <1>2 DEF IsReplay
        <2>2. ASSUME NEW h \in 0 .. n PROVE p[h] = q[h]
            <3>1. CASE h = 0  BY <1>2, <3>1 DEF IsReplay
            <3>2. CASE h # 0
                <4>1. h \in 1 .. n  BY <1>1, <3>2
                <4> QED  BY <1>2, <3>2, <4>1 DEF IsReplay
            <3> QED  BY <3>1, <3>2
        <2>3. [h \in 0 .. n |-> p[h]] = [h \in 0 .. n |-> q[h]]  BY <2>2, Zenon
        <2>4. [h \in 0 .. n |-> q[h]] = q  OBVIOUS
        <2> QED  BY <2>1, <2>3, <2>4
    <1>4. Is(state)  BY <1>3
    <1>5. ReplayOf(chain) = state[n]  BY DEF ReplayOf
    <1> HIDE DEF state
    <1>6. /\ DOMAIN state = 0 .. n
          /\ state[0] = InitialState
          /\ \A h \in 1 .. n : state[h] = Run(state[h - 1], chain[h].sections, chain[h].height)
        BY <1>1, <1>4
    <1>7. \A h \in 0 .. n : state[h] = p[h]
        <2> DEFINE S == {h \in 0 .. n : state[h] = p[h]}
        <2>1. 0 \in S  BY <1>1, <1>2, <1>6 DEF IsReplay
        <2>2. ASSUME NEW h \in 0 .. n - 1, h \in S PROVE h + 1 \in S
            <3>1. h + 1 \in 1 .. n /\ (h + 1) - 1 = h  BY <1>1
            <3>2. p[h + 1] = Run(p[h], chain[h + 1].sections, chain[h + 1].height)
                BY <1>2, <3>1 DEF IsReplay
            <3>3. state[h + 1] = Run(state[h], chain[h + 1].sections, chain[h + 1].height)
                BY <1>6, <3>1
            <3> QED  BY <1>1, <2>2, <3>1, <3>2, <3>3
        <2>3. 0 .. n \subseteq S
            <3> HIDE DEF S, n
            <3> QED  BY <1>1, <2>1, <2>2, IntervalInduction
        <2> QED  BY <2>3
    <1>8. n \in 0 .. n  BY <1>1
    <1> QED  BY <1>2, <1>5, <1>7, <1>8

\* A microblock recorded at the end is run on what the others give.
LEMMA ReplayOfAppend ==
    ASSUME NEW chain \in Seq(Block), NEW block \in Block
    PROVE  /\ ReplayOf(chain) \in State
           /\ ReplayOf(Append(chain, block)) = Run(ReplayOf(chain), block.sections, block.height)
    <1> DEFINE n == Len(chain)
               longer == Append(chain, block)
    <1>1. /\ n \in Nat /\ longer \in Seq(Block) /\ Len(longer) = n + 1
          /\ longer[n + 1] = block /\ \A h \in 1 .. n : chain[h] = longer[h]
        OBVIOUS
    <1> HIDE DEF longer
    <1>2. PICK p : IsReplay(p, chain, n) /\ ReplayOf(chain) = p[n]  BY ReplayOfIsReplay
    <1>3. PICK q : IsReplay(q, longer, n + 1) /\ ReplayOf(longer) = q[n + 1]
        BY <1>1, ReplayOfIsReplay
    <1> HIDE DEF n
    <1>4. \A h \in 0 .. n : p[h] = q[h]  BY <1>1, <1>2, <1>3, ReplaysAgree
    <1>5. q[n + 1] = Run(q[n], block.sections, block.height)
        <2>1. n + 1 \in 1 .. n + 1 /\ (n + 1) - 1 = n  BY <1>1
        <2> QED  BY <1>1, <1>3, <2>1 DEF IsReplay
    <1>6. p[n] = q[n] /\ p[n] \in State  BY <1>1, <1>2, <1>4 DEF IsReplay
    <1> QED  BY <1>2, <1>3, <1>5, <1>6 DEF longer

-----------------------------------------------------------------------------
(* One append at a time *)

\* The code that uses a ledger awaits one append before it begins the next one.
OneAppender == \E p : Appenders = {p}

\* A microblock in progress is the next one ...
AtNextHeight == \A p \in Appenders : append[p].stage # "idle" => append[p].block.height = Height + 1

\* ... and the ledger is what the recorded microblocks and its first sections give.
InStep ==
    ~failed => \A p \in Appenders :
      IF append[p].stage = "updating"
      THEN ledger = StatesOf(ReplayOf(blocks), append[p].block.sections,
                             append[p].block.height)[append[p].next - 1]
      ELSE ledger = ReplayOf(blocks)

\* The sections that a height leads to: those that a chain has there, and those that the
\* appends in progress have run so far for the microblock that will be.
SectionsRun(a, p) == {a[p].block.sections[k] : k \in 1 .. a[p].next - 1}

Running(a, height) == {p \in Appenders : a[p].stage = "updating" /\ a[p].block.height = height}

Known(chain, a, height) ==
    (IF height \in DOMAIN chain THEN ToSet(chain[height].sections) ELSE {})
    \cup UNION {SectionsRun(a, p) : p \in Running(a, height)}

LeadsToKey(id, known) == \E sec \in known : sec.type = "subscription" /\ sec.actor = id

LeadsToInvitation(inv, known) == \E sec \in known : /\ sec.type = "invitation"
                                                    /\ sec.guest = inv.actor
                                                    /\ sec.channel = inv.channel

LeadsToSecret(x, known) == \E sec \in known : /\ sec.type = "secret"
                                              /\ \/ sec.host = x.peer /\ sec.guest = x.actor
                                                 \/ sec.host = x.actor /\ sec.guest = x.peer

Mirrored(x) == [actor |-> x.peer, peer |-> x.actor, height |-> x.height]

\* Every height in a state leads to a section that says the same.
Leading(s, chain, a) ==
    /\ \A id \in DOMAIN s.actors :
         Subscribed(s, id) => LeadsToKey(id, Known(chain, a, s.actors[id].keyHeight))
    /\ \A inv \in s.invitations : LeadsToInvitation(inv, Known(chain, a, inv.height))
    /\ \A x \in s.secrets : /\ Mirrored(x) \in s.secrets
                            /\ LeadsToSecret(x, Known(chain, a, x.height))

Led == ~failed => Leading(ledger, blocks, append)

AlongTheChain == AtNextHeight /\ InStep /\ Led

LEMMA LeadingStays ==
    ASSUME NEW s, NEW chain, NEW a, NEW longer, NEW b, Leading(s, chain, a),
           \A height : Known(chain, a, height) \subseteq Known(longer, b, height)
    PROVE  Leading(s, longer, b)
    BY DEF Leading, LeadsToKey, LeadsToInvitation, LeadsToSecret

\* A section that is accepted leaves the height it was run at, where it is known.
LEMMA LeadingEffect ==
    ASSUME NEW s \in State, NEW sec, WellFormed(sec), NEW height, NEW chain, NEW a,
           Leading(s, chain, a), ~Rejected(s, sec), sec \in Known(chain, a, height)
    PROVE  Leading(Effect(s, sec, height), chain, a)
    <1> DEFINE t == Effect(s, sec, height)
    <1> SUFFICES Leading(t, chain, a)
        OBVIOUS
    <1>1. s.actors \in Seq(Actor)  BY DEF State
    <1> HIDE DEF t
    <1>2. CASE SameContents(s, t)
        BY <1>2 DEF SameContents, Leading, Subscribed, ActorDefined
    <1>3. CASE /\ sec.type = "actor"
               /\ t.actors = Append(s.actors, [name |-> sec.name, keyHeight |-> 0])
               /\ t.secrets = s.secrets /\ t.invitations = s.invitations
        <2> DEFINE actor == [name |-> sec.name, keyHeight |-> 0]
        <2>1. actor \in Actor /\ actor.keyHeight = 0  BY <1>3 DEF WellFormed, Actor
        <2>2. t.actors = Append(s.actors, actor)  BY <1>3
        <2> HIDE DEF actor
        <2>3. ASSUME NEW id \in DOMAIN t.actors, Subscribed(t, id)
              PROVE  LeadsToKey(id, Known(chain, a, t.actors[id].keyHeight))
            <3>1. id # Len(s.actors) + 1  BY <1>1, <2>1, <2>2, <2>3 DEF Subscribed
            <3>2. id \in DOMAIN s.actors /\ t.actors[id] = s.actors[id]
                BY <1>1, <2>1, <2>2, <3>1
            <3>3. Subscribed(s, id)  BY <2>3, <3>2 DEF Subscribed, ActorDefined
            <3> QED  BY <3>2, <3>3 DEF Leading
        <2> QED  BY <1>3, <2>3 DEF Leading
    <1>4. CASE /\ sec.type = "subscription"
               /\ t.actors = [s.actors EXCEPT ![sec.actor] =
                                [name |-> s.actors[sec.actor].name, keyHeight |-> height]]
               /\ t.secrets = s.secrets /\ t.invitations = s.invitations
        <2> DEFINE actor == [name |-> s.actors[sec.actor].name, keyHeight |-> height]
        <2>1. actor.keyHeight = height  OBVIOUS
        <2>2. t.actors = [s.actors EXCEPT ![sec.actor] = actor]  BY <1>4
        <2> HIDE DEF actor
        <2>3. ASSUME NEW id \in DOMAIN t.actors, Subscribed(t, id)
              PROVE  LeadsToKey(id, Known(chain, a, t.actors[id].keyHeight))
            <3>1. id \in DOMAIN s.actors  BY <1>1, <2>2
            <3>2. CASE id = sec.actor
                <4>1. t.actors[id].keyHeight = height  BY <1>1, <2>1, <2>2, <3>1, <3>2
                <4> QED  BY <1>4, <3>2, <4>1 DEF LeadsToKey
            <3>3. CASE id # sec.actor
                <4>1. t.actors[id] = s.actors[id]  BY <1>1, <2>2, <3>1, <3>3
                <4>2. Subscribed(s, id)  BY <2>3, <3>1, <4>1 DEF Subscribed, ActorDefined
                <4> QED  BY <3>1, <4>1, <4>2 DEF Leading
            <3> QED  BY <3>2, <3>3
        <2> QED  BY <1>4, <2>3 DEF Leading
    <1>5. CASE /\ sec.type = "secret"
               /\ t.secrets = WithSecret(s, sec, height).secrets
               /\ t.actors = s.actors /\ t.invitations = s.invitations
        <2> DEFINE hosts == [actor |-> sec.host, peer |-> sec.guest, height |-> height]
                   guests == [actor |-> sec.guest, peer |-> sec.host, height |-> height]
        <2>1. ~SecretRejected(s, sec) /\ ActorDefined(s, sec.host)
            BY <1>5 DEF Rejected, SecretRejected
        <2>2. t.secrets = s.secrets \cup {hosts, guests}
            <3> DEFINE more == s.secrets \cup {hosts} \cup {guests}
            <3>1. WithSecret(s, sec, height) = [s EXCEPT !.secrets = more]
                BY <2>1 DEF WithSecret
            <3> HIDE DEF hosts, guests, more
            <3>2. WithSecret(s, sec, height).secrets = more  BY <3>1 DEF State
            <3> QED  BY <1>5, <3>2 DEF more
        <2>3. Mirrored(hosts) = guests /\ Mirrored(guests) = hosts  BY DEF Mirrored
        <2>4. LeadsToSecret(hosts, Known(chain, a, height))
              /\ LeadsToSecret(guests, Known(chain, a, height))
            BY <1>5 DEF LeadsToSecret
        <2>5. hosts.height = height /\ guests.height = height  OBVIOUS
        <2> HIDE DEF hosts, guests
        <2>6. \A x \in t.secrets : /\ Mirrored(x) \in t.secrets
                                   /\ LeadsToSecret(x, Known(chain, a, x.height))
            BY <2>2, <2>3, <2>4, <2>5 DEF Leading
        <2> QED  BY <1>5, <2>6 DEF Leading, Subscribed, ActorDefined
    <1>6. CASE /\ sec.type = "invitation"
               /\ t.invitations = s.invitations
                    \cup {[actor |-> sec.guest, channel |-> sec.channel, height |-> height]}
               /\ t.actors = s.actors /\ t.secrets = s.secrets
        <2> DEFINE inv == [actor |-> sec.guest, channel |-> sec.channel, height |-> height]
        <2>1. LeadsToInvitation(inv, Known(chain, a, inv.height))
            BY <1>6 DEF LeadsToInvitation
        <2>2. t.invitations = s.invitations \cup {inv}  BY <1>6
        <2> HIDE DEF inv
        <2> QED  BY <1>6, <2>1, <2>2 DEF Leading, Subscribed, ActorDefined
    <1> QED  BY <1>2, <1>3, <1>4, <1>5, <1>6, EffectContents DEF t

\* A step of one append, in which the chain at most grows, loses no section if what the
\* append has run stays known.
LEMMA KnownGrows ==
    ASSUME NEW p \in Appenders, NEW chain, NEW a, NEW longer, NEW b, NEW height,
           \A h \in DOMAIN chain : h \in DOMAIN longer /\ longer[h] = chain[h],
           \A q \in Appenders \ {p} : b[q] = a[q],
           p \in Running(a, height) => SectionsRun(a, p) \subseteq Known(longer, b, height)
    PROVE  Known(chain, a, height) \subseteq Known(longer, b, height)
    <1> SUFFICES ASSUME NEW sec \in Known(chain, a, height)
                 PROVE  sec \in Known(longer, b, height)
        OBVIOUS
    <1>1. CASE height \in DOMAIN chain /\ sec \in ToSet(chain[height].sections)
        BY <1>1 DEF Known
    <1>2. CASE \E q \in Running(a, height) : sec \in SectionsRun(a, q)
        <2>1. PICK q \in Running(a, height) : sec \in SectionsRun(a, q)  BY <1>2
        <2>2. CASE q = p  BY <2>1, <2>2
        <2>3. CASE q # p
            <3>1. q \in Appenders \ {p} /\ b[q] = a[q]  BY <2>1, <2>3 DEF Running
            <3>2. q \in Running(b, height) /\ sec \in SectionsRun(b, q)
                BY <2>1, <3>1 DEF Running, SectionsRun
            <3> QED  BY <3>2 DEF Known
        <2> QED  BY <2>2, <2>3
    <1> QED  BY <1>1, <1>2 DEF Known

LEMMA AlongInit == Init => AlongTheChain
    <1> SUFFICES ASSUME Init PROVE AlongTheChain
        OBVIOUS
    <1>1. \A p \in Appenders : append[p].stage = "idle"  BY DEF Init, Idle
    <1>2. ReplayOf(blocks) = InitialState
        <2>1. blocks \in Seq(Block) /\ Len(blocks) = 0  BY DEF Init
        <2>2. PICK f : IsReplay(f, blocks, Len(blocks)) /\ ReplayOf(blocks) = f[Len(blocks)]
            BY <2>1, ReplayOfIsReplay
        <2> QED  BY <2>1, <2>2 DEF IsReplay
    <1>3. InStep  BY <1>1, <1>2 DEF Init, InStep
    <1>4. Leading(ledger, blocks, append)  BY DEF Init, InitialState, Leading
    <1> QED  BY <1>1, <1>3, <1>4 DEF AlongTheChain, AtNextHeight, Led

LEMMA LedStays ==
    ASSUME NEW p \in Appenders, Led, ledger' = ledger, failed' = failed,
           \A h \in DOMAIN blocks : h \in DOMAIN blocks' /\ blocks'[h] = blocks[h],
           \A q \in Appenders \ {p} : append'[q] = append[q],
           \A height : p \in Running(append, height) =>
                         SectionsRun(append, p) \subseteq Known(blocks', append', height)
    PROVE  Led'
    <1>1. \A height : Known(blocks, append, height) \subseteq Known(blocks', append', height)
        BY KnownGrows
    <1>2. Leading(ledger, blocks, append) => Leading(ledger, blocks', append')
        BY <1>1, LeadingStays
    <1> QED  BY <1>2 DEF Led

LEMMA AlongNext ==
    ASSUME OneAppender, Inductive, AlongTheChain, [Next]_vars
    PROVE  AlongTheChain'
    <1> USE DEF AlongTheChain, Inductive
    <1>1. CASE UNCHANGED vars
        BY <1>1 DEF vars, AtNextHeight, Height, InStep, Led
    <1> SUFFICES ASSUME Next PROVE AlongTheChain'
        BY <1>1
    <1>2. PICK p : Appenders = {p}  BY DEF OneAppender
    <1>3. /\ append \in [Appenders -> {Idle} \cup Progress]
          /\ blocks \in Seq(Block) /\ ledger \in State
          /\ p \in Appenders
          /\ \A q \in Appenders : q = p
          /\ \A q \in Appenders \ {p} : append'[q] = append[q]
        BY <1>2 DEF TypeOK, Progress
    <1>4. append[p].stage # "idle" =>
            /\ append[p] \in Progress /\ append[p].block \in Block
            /\ append[p].block.sections \in Seq(Section)
            /\ append[p].next \in Nat \ {0}
            /\ append[p].block.height = Height + 1
        BY <1>3, ContentsAssumption DEF Idle, Progress, Block, AtNextHeight
    <1>5. ReplayOf(blocks) \in State
        <2>1. PICK f : IsReplay(f, blocks, Len(blocks)) /\ ReplayOf(blocks) = f[Len(blocks)]
            BY <1>3, ReplayOfIsReplay
        <2>2. Len(blocks) \in 0 .. Len(blocks)  BY <1>3
        <2> QED  BY <2>1, <2>2 DEF IsReplay
    <1>6. ASSUME NEW sections \in Contents, NEW height \in 1 .. MaxBlocks,
                 NEW previous \in 0 .. MaxBlocks, BeginAppend(p, sections, height, previous)
          PROVE  AlongTheChain'
        <2> DEFINE block == [id |-> fresh + 1, height |-> height,
                             previous |-> previous, sections |-> sections]
        <2>1. /\ append'[p] = [stage |-> "protocol", next |-> 1, block |-> block]
              /\ append[p].stage = "idle"
              /\ blocks' = blocks /\ ledger' = ledger /\ failed' = failed
              /\ height = Height + 1
            BY <1>3, <1>6 DEF BeginAppend
        <2>2. append'[p].stage = "protocol" /\ append'[p].block.height = height  BY <2>1
        <2>3. AtNextHeight'  BY <1>3, <2>1, <2>2 DEF AtNextHeight, Height
        <2>4. InStep'  BY <1>3, <2>1, <2>2 DEF InStep
        <2>5. \A h : p \notin Running(append, h)  BY <2>1 DEF Running
        <2>6. Led'  BY <1>3, <2>1, <2>5, LedStays
        <2> QED  BY <2>3, <2>4, <2>6
    <1>7. ASSUME BeginUpdate(p) PROVE AlongTheChain'
        <2>1. /\ append'[p] = [stage |-> "updating", block |-> append[p].block, next |-> 1]
              /\ append[p].stage = "protocol"
              /\ blocks' = blocks /\ ledger' = ledger /\ failed' = failed
            BY <1>3, <1>7 DEF BeginUpdate
        <2>2. /\ append'[p].stage = "updating" /\ append'[p].next = 1
              /\ append'[p].block = append[p].block
            BY <2>1
        <2>3. AtNextHeight'  BY <1>3, <1>4, <2>1, <2>2 DEF AtNextHeight, Height
        <2>4. InStep'
            <3>1. CanRun(ReplayOf(blocks), append[p].block.sections, append[p].block.height)
                BY <1>4, <1>5, <2>1, BlockCanRun
            <3>2. StatesOf(ReplayOf(blocks), append[p].block.sections,
                           append[p].block.height)[0] = ReplayOf(blocks)
                BY <3>1, RunSteps
            <3> QED  BY <1>3, <2>1, <2>2, <3>2 DEF InStep
        <2>5. \A h : p \notin Running(append, h)  BY <2>1 DEF Running
        <2>6. Led'  BY <1>3, <2>1, <2>5, LedStays
        <2> QED  BY <2>3, <2>4, <2>6
    <1>8. ASSUME ProtocolFails(p) PROVE AlongTheChain'
        <2>1. /\ append'[p] = Idle /\ append[p].stage = "protocol"
              /\ blocks' = blocks /\ ledger' = ledger /\ failed' = failed
            BY <1>3, <1>8 DEF ProtocolFails
        <2>2. append'[p].stage = "idle"  BY <2>1 DEF Idle
        <2>3. AtNextHeight'  BY <1>3, <2>2 DEF AtNextHeight
        <2>4. InStep'  BY <1>3, <2>1, <2>2 DEF InStep
        <2>5. \A h : p \notin Running(append, h)  BY <2>1 DEF Running
        <2>6. Led'  BY <1>3, <2>1, <2>5, LedStays
        <2> QED  BY <2>3, <2>4, <2>6
    <1>9. ASSUME UpdateSection(p) PROVE AlongTheChain'
        <2> DEFINE block == append[p].block
                   next == append[p].next
                   sec == block.sections[next]
        <2>1. /\ append'[p] = [stage |-> "updating", block |-> block, next |-> next + 1]
              /\ append[p].stage = "updating" /\ next <= Len(block.sections)
              /\ blocks' = blocks /\ failed' = failed
              /\ ledger' = Effect(ledger, sec, block.height) /\ ~Rejected(ledger, sec)
            BY <1>3, <1>9 DEF UpdateSection, HasSection, NextSection, Advanced
        <2>2. /\ append'[p].stage = "updating" /\ append'[p].next = next + 1
              /\ append'[p].block = block
            BY <2>1
        <2>3. /\ block \in Block /\ next \in 1 .. Len(block.sections) /\ next \in Nat
              /\ block.height = Height + 1 /\ sec \in Section
            BY <1>4, <2>1
        <2>4. AtNextHeight'  BY <1>3, <2>1, <2>2, <2>3 DEF AtNextHeight, Height
        <2> HIDE DEF block, next
        <2>5. InStep'
            <3> DEFINE states == StatesOf(ReplayOf(blocks), block.sections, block.height)
            <3>1. CanRun(ReplayOf(blocks), block.sections, block.height)
                BY <1>5, <2>3, BlockCanRun
            <3>2. states[next] = Effect(states[next - 1], sec, block.height)
                BY <2>3, <3>1, RunSteps
            <3>3. ~failed => ledger = states[next - 1]  BY <1>3, <2>1 DEF InStep, block, next
            <3>4. ~failed' => ledger' = states[next]  BY <2>1, <3>2, <3>3
            <3>5. (next + 1) - 1 = next  BY <2>3
            <3> HIDE DEF states
            <3>6. ~failed' => ledger' = states[append'[p].next - 1]  BY <2>2, <3>4, <3>5
            <3> QED  BY <1>3, <2>1, <2>2, <3>6 DEF InStep, states
        <2>6. Led'
            <3>1. SectionsRun(append, p) \cup {sec} \subseteq SectionsRun(append', p)
                BY <2>2, <2>3 DEF SectionsRun, block, next
            <3>2. \A h : p \in Running(append, h) => p \in Running(append', h)
                BY <1>3, <2>2 DEF Running, block
            <3>3. p \in Running(append', block.height)  BY <1>3, <2>2 DEF Running
            <3>4. \A h : Known(blocks, append, h) \subseteq Known(blocks', append', h)
                <4>1. \A h : p \in Running(append, h) =>
                               SectionsRun(append, p) \subseteq Known(blocks', append', h)
                    BY <3>1, <3>2 DEF Known
                <4> QED  BY <1>3, <2>1, <4>1, KnownGrows
            <3>5. sec \in Known(blocks', append', block.height)  BY <3>1, <3>3 DEF Known
            <3>6. WellFormed(sec)  BY <2>3, SectionWellFormed
            <3>7. Leading(ledger, blocks, append) => Leading(ledger, blocks', append')
                BY <3>4, LeadingStays
            <3>8. Leading(ledger, blocks', append') => Leading(ledger', blocks', append')
                BY <1>3, <2>1, <3>5, <3>6, LeadingEffect
            <3> QED  BY <2>1, <3>7, <3>8 DEF Led
        <2> QED  BY <2>4, <2>5, <2>6
    <1>10. ASSUME UpdateThrows(p) PROVE AlongTheChain'
        <2>1. append'[p].stage = "idle" /\ failed'
            BY <1>3, <1>10 DEF UpdateThrows, Idle
        <2> QED  BY <1>3, <2>1 DEF AtNextHeight, InStep, Led
    <1>11. ASSUME Record(p) PROVE AlongTheChain'
        <2> DEFINE block == append[p].block
                   next == append[p].next
        <2>1. /\ append'[p] = Idle /\ append[p].stage = "updating" /\ ~HasSection(p)
              /\ blocks' = Append(blocks, block) /\ ledger' = ledger /\ failed' = failed
            BY <1>3, <1>11 DEF Record
        <2>2. append'[p].stage = "idle"  BY <2>1 DEF Idle
        <2>3. /\ block \in Block /\ block.sections \in Seq(Section) /\ next \in Nat
              /\ block.height = Height + 1
            BY <1>4, <2>1
        <2>4. next = Len(block.sections) + 1
            <3>1. next <= Len(block.sections) + 1  BY <1>3, <2>1 DEF TypeOK
            <3>2. ~(next <= Len(block.sections))  BY <2>1 DEF HasSection
            <3> QED  BY <2>3, <3>1, <3>2
        <2>5. AtNextHeight'  BY <1>3, <2>2 DEF AtNextHeight
        <2>6. InStep'
            <3>1. ~failed => ledger = Run(ReplayOf(blocks), block.sections, block.height)
                BY <1>3, <2>1, <2>3, <2>4 DEF InStep, Run
            <3>2. ReplayOf(blocks') = Run(ReplayOf(blocks), block.sections, block.height)
                BY <1>3, <2>1, <2>3, ReplayOfAppend
            <3> QED  BY <1>3, <2>1, <2>2, <3>1, <3>2 DEF InStep
        <2>7. Led'
            <3>1. /\ \A h \in DOMAIN blocks : h \in DOMAIN blocks' /\ blocks'[h] = blocks[h]
                  /\ Height + 1 \in DOMAIN blocks' /\ blocks'[Height + 1] = block
                BY <1>3, <2>1, <2>3 DEF Height
            <3>2. ASSUME NEW h, p \in Running(append, h)
                  PROVE  SectionsRun(append, p) \subseteq Known(blocks', append', h)
                <4>1. h = Height + 1  BY <2>3, <3>2 DEF Running
                <4>2. SectionsRun(append, p) \subseteq ToSet(block.sections)
                    BY <2>3, <2>4 DEF SectionsRun, ToSet
                <4> QED  BY <3>1, <4>1, <4>2 DEF Known
            <3> QED  BY <1>3, <2>1, <3>1, <3>2, LedStays
        <2> QED  BY <2>5, <2>6, <2>7
    <1> QED
        BY <1>2, <1>6, <1>7, <1>8, <1>9, <1>10, <1>11 DEF Next

\* When no append has thrown, the internal state is what a replay of the recorded
\* microblocks gives, whatever their sections are and however many there are, if one
\* append ends before the next one begins (appendMicroBlock, updateState).
THEOREM LedgerReplays ==
    ASSUME OneAppender
    PROVE  Spec => []LedgerIsReplay
    <1>1. Inductive /\ AlongTheChain => LedgerIsReplay
        BY OneAppender DEF AlongTheChain, InStep, LedgerIsReplay, Settled, OneAppender
    <1>2. Inductive /\ AlongTheChain /\ [Next]_vars => AlongTheChain'  BY AlongNext, OneAppender
    <1> QED
        BY <1>1, <1>2, AlongInit, InductiveInit, InductiveNext, PTL DEF Spec

\* Then every height kept in the state leads its reader to the section it stands for
\* (getPublicSignatureKeyByActorId, getChannelKeyFromInvitation, getExistingSharedKey).
THEOREM LedgerHeightsLead ==
    ASSUME OneAppender
    PROVE  Spec => []HeightsLeadToSections
    <1>1. AlongTheChain => HeightsLeadToSections
        <2> SUFFICES ASSUME AlongTheChain, Settled
                     PROVE  /\ \A id \in DOMAIN ledger.actors :
                                 Subscribed(ledger, id) => KeySections(id) # {}
                            /\ \A inv \in ledger.invitations : InvitationSections(inv) # {}
                            /\ \A s \in ledger.secrets :
                                 /\ Mirrored(s) \in ledger.secrets
                                 /\ \/ SecretSections(s.peer, s.actor, s.height) # {}
                                    \/ SecretSections(s.actor, s.peer, s.height) # {}
            BY DEF HeightsLeadToSections, Mirrored
        <2>1. Leading(ledger, blocks, append)  BY DEF AlongTheChain, Led, Settled
        <2>2. \A h : Known(blocks, append, h) = SectionsAt(h)
            BY DEF Settled, Known, Running, SectionsAt
        <2>3. ASSUME NEW id \in DOMAIN ledger.actors, Subscribed(ledger, id)
              PROVE  KeySections(id) # {}
            BY <2>1, <2>2, <2>3 DEF Leading, LeadsToKey, KeySections
        <2>4. ASSUME NEW inv \in ledger.invitations PROVE InvitationSections(inv) # {}
            BY <2>1, <2>2, <2>4 DEF Leading, LeadsToInvitation, InvitationSections
        <2>5. ASSUME NEW s \in ledger.secrets
              PROVE  /\ Mirrored(s) \in ledger.secrets
                     /\ \/ SecretSections(s.peer, s.actor, s.height) # {}
                        \/ SecretSections(s.actor, s.peer, s.height) # {}
            BY <2>1, <2>2, <2>5 DEF Leading, LeadsToSecret, SecretSections
        <2> QED  BY <2>3, <2>4, <2>5
    <1>2. Inductive /\ AlongTheChain /\ [Next]_vars => AlongTheChain'  BY AlongNext, OneAppender
    <1> QED
        BY <1>1, <1>2, AlongInit, InductiveInit, InductiveNext, PTL DEF Spec
=============================================================================
