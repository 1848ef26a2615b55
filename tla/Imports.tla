-------------------------------- MODULE Imports --------------------------------
(* Clients that build microblocks on chains of a node and publish them over a network
   that may lose, delay or repeat them, and the checks with which the node takes a
   microblock or refuses it.  A client may publish again what it has no answer about,
   which may have arrived all the same.  Every client keeps the state of the protocol
   it got first and computes the gas with it. *)
EXTENDS Chains, Structures

CONSTANTS Clients,
          Openings,          \* the sections a first microblock of a kind may be given,
          Extensions,        \* and a later one
          MaxMicroblocks     \* bound: microblocks made

ASSUME ImportsAssumption == MaxMicroblocks \in Nat \ {0}

\* The kinds of sections whose values the readers give, and that none of them is the
\* readers' error; the value of a public key has its two fields.
Read == {"ACCOUNT_PUBLIC_KEY", "ORG_DESCRIPTION", "APP_DESCRIPTION", "VN_RPC_ENDPOINT",
         "VN_COMETBFT_PUBLIC_KEY_DECLARATION", "VN_APPROVAL", "PROTOCOL_UPDATE"}

ASSUME ContentsAssumption ==
    \A kind \in Kinds : \A sections \in Openings[kind] \cup Extensions[kind] :
      /\ Len(sections) \in Nat /\ DOMAIN sections = 1 .. Len(sections)
      /\ \A i \in DOMAIN sections :
           LET value == sections[i].value
           IN /\ sections[i].type \in Read => value # NotFound
              /\ sections[i].type = "ACCOUNT_PUBLIC_KEY" =>
                   value = [scheme |-> value.scheme, key |-> value.key]

VARIABLES chains,    \* the node's chains, by the identifier of their first microblock
          pool,      \* serialized microblocks that have reached the node
          client,    \* per client: what it is doing
          stored,    \* per client: the protocol variables its provider keeps, 0: none
          made       \* microblocks made, which names the next one

vars == <<chains, pool, client, stored, made>>

\* The chain of the protocol is there from the start.
Protocol == 1
ProtocolGenesis == [id |-> Protocol, kind |-> "protocol", height |-> 1, previous |-> 0, prices |-> 1,
                    sections |-> <<[type |-> "PROTOCOL_CREATION", value |-> NullHash],
                                   [type |-> "SIGNATURE"]>>]

VariablesInForce == chains[Protocol].state.variables

TypesOf(mb) == [i \in DOMAIN mb.sections |-> mb.sections[i].type]

AllOf(contents) == UNION {contents[kind] : kind \in Kinds}

Idle == [stage |-> "idle"]

\* A client with a virtual blockchain object: its identifier and height, 0 when empty;
\* and with a microblock for it.
Loaded(id, height) == [stage |-> "loaded", chain |-> id, height |-> height]
Built(id, height, mb) == [stage |-> "built", chain |-> id, height |-> height, mb |-> mb]

Init == /\ chains = [id \in {Protocol} |->
                      [kind |-> "protocol", blocks |-> <<ProtocolGenesis>>,
                       state |-> Updated("protocol", InitialState("protocol"), ProtocolGenesis)]]
        /\ pool = {}
        /\ client = [c \in Clients |-> Idle]
        /\ stored = [c \in Clients |-> 0]
        /\ made = 1

-----------------------------------------------------------------------------
(* A client. *)

\* createGenesisMicroblock of a new chain.
CreateGenesisMicroblock(c, kind, sections) ==
    /\ client[c].stage = "idle"
    /\ made < MaxMicroblocks
    /\ made' = made + 1
    /\ client' = [client EXCEPT ![c] =
                    Built(0, 0, [id |-> made + 1, kind |-> kind, height |-> 1, previous |-> 0,
                                 prices |-> 0, sections |-> sections])]
    /\ UNCHANGED <<chains, pool, stored>>

\* load...VirtualBlockchain: the height the chain has now.  It refreshes what the
\* provider keeps of this chain, of the protocol's too.
Load(c, id) ==
    /\ client[c].stage = "idle"
    /\ client' = [client EXCEPT ![c] = Loaded(id, Len(chains[id].blocks))]
    /\ stored' = IF id = Protocol THEN [stored EXCEPT ![c] = VariablesInForce] ELSE stored
    /\ UNCHANGED <<chains, pool, made>>

\* Mutant: the new microblock takes the height of the last one.
MicroblockAtHeightOfLast(id, height, sections) ==
    [id |-> made + 1, kind |-> chains[id].kind, height |-> height,
     previous |-> chains[id].blocks[height].id, prices |-> 0, sections |-> sections]

\* createMicroblock, which reads the last microblock of the height loaded.
ExtendingMicroblock(id, height, sections) ==
    [id |-> made + 1, kind |-> chains[id].kind, height |-> height + 1,
     previous |-> chains[id].blocks[height].id, prices |-> 0, sections |-> sections]

CreateMicroblock(c, sections) ==
    /\ client[c].stage = "loaded"
    /\ sections \in Extensions[chains[client[c].chain].kind]
    /\ made < MaxMicroblocks
    /\ made' = made + 1
    /\ client' = [client EXCEPT ![c] =
                    Built(@.chain, @.height, ExtendingMicroblock(@.chain, @.height, sections))]
    /\ UNCHANGED <<chains, pool, stored>>

\* getProtocolState of the client's provider: it asks the node only when it has none.
ProtocolVariables(c) == IF stored[c] = 0 THEN VariablesInForce ELSE stored[c]

\* setGasAndSeal, with the gas that computeMicroblockGas finds.
Seal(c) ==
    /\ client[c].stage = "built"
    /\ client' = [client EXCEPT ![c].stage = "sealed", ![c].mb.prices = ProtocolVariables(c)]
    /\ stored' = [stored EXCEPT ![c] = ProtocolVariables(c)]
    /\ UNCHANGED <<chains, pool, made>>

\* publishMicroblock is answered, whatever becomes of the microblock ...
Publish(c) ==
    /\ client[c].stage \in {"sealed", "unsure"}
    /\ client' = [client EXCEPT ![c].stage = "published"]
    /\ \/ pool' = pool \cup {client[c].mb}
       \/ UNCHANGED pool
    /\ UNCHANGED <<chains, stored, made>>

\* ... or fails, by the timer or an error; it may have arrived, or still arrive.
PublishFails(c) ==
    /\ client[c].stage \in {"sealed", "unsure"}
    /\ client' = [client EXCEPT ![c].stage = "unsure"]
    /\ \/ pool' = pool \cup {client[c].mb}
       \/ UNCHANGED pool
    /\ UNCHANGED <<chains, stored, made>>

\* Mutant: another microblock at that height of a chain is taken for this one.
AnchoredByHeight(mb) == \E id \in DOMAIN chains :
                          /\ chains[id].kind = mb.kind
                          /\ mb.height \in DOMAIN chains[id].blocks

\* What the node says of a microblock by its hash.
Anchored(mb) == \E id \in DOMAIN chains : mb \in ToSet(chains[id].blocks)

\* awaitMicroblockAnchoring is answered once the microblock is there ...
AwaitMicroblockAnchoring(c) ==
    /\ client[c].stage = "published"
    /\ Anchored(client[c].mb)
    /\ client' = [client EXCEPT ![c].stage = "told"]
    /\ UNCHANGED <<chains, pool, stored, made>>

\* ... or the query ends by its timer.
AwaitFails(c) ==
    /\ client[c].stage = "published"
    /\ client' = [client EXCEPT ![c].stage = "unsure"]
    /\ UNCHANGED <<chains, pool, stored, made>>

\* The caller turns to something else.
Leave(c) ==
    /\ client[c].stage \in {"loaded", "unsure", "told"}
    /\ client' = [client EXCEPT ![c] = Idle]
    /\ UNCHANGED <<chains, pool, stored, made>>

-----------------------------------------------------------------------------
(* The node: MicroblockConsistencyChecker and appendMicroBlock. *)

\* The chain a microblock goes to: a new one, or the one its previous is in.
ChainOf(mb) == IF mb.height = 1 THEN mb.id
               ELSE CHOOSE id \in DOMAIN chains : \E b \in ToSet(chains[id].blocks) : b.id = mb.previous

\* The header named as previous is known and one height below.
PreviousKnown(mb) ==
    \E id \in DOMAIN chains : \E height \in DOMAIN chains[id].blocks :
      /\ chains[id].blocks[height].id = mb.previous
      /\ mb.height = height + 1

\* Mutant: the header named as previous is all that is looked at.
FitsSomewhere(mb) == mb.kind = chains[ChainOf(mb)].kind

\* appendMicroBlock: the kind, the height and the previous hash are those of the chain loaded.
Fits(mb) == LET chain == chains[ChainOf(mb)]
            IN /\ mb.kind = chain.kind
               /\ mb.height = Len(chain.blocks) + 1
               /\ mb.previous = Last(chain.blocks).id

\* checkVirtualBlockchainConsistencyOrFail and checkGasOrFail.
Accepted(mb) == /\ mb.height > 1 => PreviousKnown(mb) /\ Fits(mb)
                /\ CheckMicroblockStructure(mb.kind, TypesOf(mb), mb.height = 1)
                /\ ~UpdateThrows(mb.kind, mb)
                /\ mb.prices = VariablesInForce

\* A genesis makes a new chain whatever the node has: it is the node that knows
\* which chains it stores already.
NodeHasChain(mb) == mb.height = 1 /\ mb.id \in DOMAIN chains

Appended(mb) ==
    LET before == IF mb.height = 1
                  THEN [kind |-> mb.kind, blocks |-> <<>>, state |-> InitialState(mb.kind)]
                  ELSE chains[ChainOf(mb)]
    IN [kind |-> before.kind, blocks |-> Append(before.blocks, mb),
        state |-> Updated(mb.kind, before.state, mb)]

\* The node takes a microblock out of the pool; one it refuses changes nothing, and
\* one it took may come again.
Import(mb) ==
    /\ ~NodeHasChain(mb)
    /\ Accepted(mb)
    /\ chains' = [id \in DOMAIN chains \cup {ChainOf(mb)} |->
                    IF id = ChainOf(mb) THEN Appended(mb) ELSE chains[id]]
    /\ UNCHANGED <<pool, client, stored, made>>

Next == \/ \E c \in Clients :
             \/ \E kind \in Kinds : \E sections \in Openings[kind] :
                  CreateGenesisMicroblock(c, kind, sections)
             \/ \E id \in DOMAIN chains : Load(c, id)
             \/ \E sections \in AllOf(Extensions) : CreateMicroblock(c, sections)
             \/ Seal(c)
             \/ Publish(c)
             \/ PublishFails(c)
             \/ AwaitMicroblockAnchoring(c)
             \/ AwaitFails(c)
             \/ Leave(c)
        \/ \E mb \in pool : Import(mb)

Spec == Init /\ [][Next]_vars

-----------------------------------------------------------------------------
(* Properties *)

\* What the last section of a type in a chain holds.
LastDeclared(chain, type) ==
    LET heights == {h \in DOMAIN chain.blocks : Declares(chain.blocks[h], type)}
    IN IF heights = {} THEN NotFound ELSE LastValue(chain.blocks[Max(heights)], type)

\* The heights and fields a state keeps lead the readers (getPublicKey, getDescription,
\* getApplicationDescription, getCometbftPublicKeyDeclaration,
\* getRpcEndpointDeclaration) to what the chain declared last, whatever microblocks
\* came in between; keys and endpoints are always found.
ReadersFindLatest ==
    \A id \in DOMAIN chains :
      LET chain == chains[id]
          Latest(type) == LastDeclared(chain, type)
      IN CASE chain.kind = "account" ->
                 PublicKey(chain) = Latest("ACCOUNT_PUBLIC_KEY") /\ PublicKey(chain) # NotFound
           [] chain.kind = "organization" -> OrganizationDescription(chain) = Latest("ORG_DESCRIPTION")
           [] chain.kind = "application" -> ApplicationDescription(chain) = Latest("APP_DESCRIPTION")
           [] chain.kind = "node" ->
                 /\ CometbftPublicKey(chain) = Latest("VN_COMETBFT_PUBLIC_KEY_DECLARATION")
                 /\ RpcEndpoint(chain) = Latest("VN_RPC_ENDPOINT")
                 /\ NotFound \notin {CometbftPublicKey(chain), RpcEndpoint(chain)}
                 /\ chain.state.approved = IF Latest("VN_APPROVAL") = NotFound THEN FALSE
                                           ELSE Latest("VN_APPROVAL")
           [] chain.kind = "protocol" -> Latest("PROTOCOL_UPDATE") \in {NotFound, chain.state.variables}

\* However often a microblock is published, it is in one place of one chain, and
\* chains do not fork: of the microblocks made for one height the node has one.
ImportedOnce ==
    \A id, other \in DOMAIN chains :
      \A h \in DOMAIN chains[id].blocks, k \in DOMAIN chains[other].blocks :
        LET mb == chains[id].blocks[h]
        IN /\ mb.height = h
           /\ h > 1 => mb.previous = chains[id].blocks[h - 1].id
           /\ mb.id = chains[other].blocks[k].id => id = other /\ h = k

\* A client that was told its microblock is anchored finds it in a chain from then on:
\* awaitMicroblockAnchoring is about the microblock, not about its place.
ToldIsAnchored ==
    \A c \in Clients : client[c].stage = "told" =>
      \E id \in DOMAIN chains : \E mb \in ToSet(chains[id].blocks) : mb.id = client[c].mb.id

\* What createMicroblock and setGasAndSeal make is refused for the reasons a client
\* can know: its sections, a microblock that came first, or protocol variables its
\* provider kept although they are not in force any more.
FreshIsAccepted ==
    \A c \in Clients :
      LET mb == client[c].mb
      IN /\ client[c].stage \in {"sealed", "published", "unsure"}
         /\ client[c].chain # 0 => Len(chains[client[c].chain].blocks) = client[c].height
         /\ stored[c] = VariablesInForce
         /\ CheckMicroblockStructure(mb.kind, TypesOf(mb), client[c].height = 0)
         /\ ~UpdateThrows(mb.kind, mb)
         => Accepted(mb)

\* A chain keeps its kind and its owner (getVirtualBlockchainOwnerId, which
\* isAccountIdAllowedToWrite compares with), and loses no microblock.
OwnerFixed ==
    [][\A id \in DOMAIN chains :
         /\ id \in DOMAIN chains'
         /\ chains[id].kind = chains'[id].kind
         /\ IsPrefix(chains[id].blocks, chains'[id].blocks)
         /\ OwnerOf(chains, id) \in {NotFound, OwnerOf(chains', id)}]_vars
=============================================================================
