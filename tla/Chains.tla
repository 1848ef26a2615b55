-------------------------------- MODULE Chains --------------------------------
(* The virtual blockchains other than the application ledger: what a microblock does
   to their internal states, and what their readers look up.  A state keeps heights;
   a reader goes to the microblock at a height and takes its first section of a type.
   A chain is [kind, blocks, state], a section [type, value],
   or [type] when nothing depends on what it holds. *)
EXTENDS Integers, FiniteSetsExt, SequencesExt

CONSTANTS InitialOffer,   \* the amount every issuance must have
          NullHash,       \* the identifier that stands for none
          NotFound        \* a reader's error

Kinds == {"account", "organization", "application", "node", "protocol"}

InitialAccountState      == [scheme |-> 0, keyHeight |-> 0]
InitialOrganizationState == [owner |-> NullHash, descriptionHeight |-> 0]
InitialApplicationState  == [organization |-> NullHash, descriptionHeight |-> 0]
InitialNodeState         == [organization |-> NullHash, keyHeight |-> 0, approved |-> FALSE,
                             rpcHeight |-> 0]
InitialProtocolState     == [organization |-> NullHash, variables |-> 1]

InitialState(kind) ==
    CASE kind = "account"      -> InitialAccountState
      [] kind = "organization" -> InitialOrganizationState
      [] kind = "application"  -> InitialApplicationState
      [] kind = "node"         -> InitialNodeState
      [] kind = "protocol"     -> InitialProtocolState

\* The sections of a type, by their positions.
Positions(mb, type) == {i \in DOMAIN mb.sections : mb.sections[i].type = type}

Declares(mb, type) == Positions(mb, type) # {}

FirstValue(mb, type) == mb.sections[Min(Positions(mb, type))].value

LastValue(mb, type) == mb.sections[Max(Positions(mb, type))].value

\* What a loop over the sections leaves in a field that sections of this type assign.
Assigned(mb, type, value) == IF Declares(mb, type) THEN LastValue(mb, type) ELSE value

HeightIf(mb, type, height) == IF Declares(mb, type) THEN mb.height ELSE height

-----------------------------------------------------------------------------
(* The updaters. *)

\* Escrow settlements, unstakings and signatures are in no case of the loop.
AccountThrows(mb) ==
    \/ \E i \in Positions(mb, "ACCOUNT_TOKEN_ISSUANCE") : mb.sections[i].value # InitialOffer
    \/ \E i \in Positions(mb, "ACCOUNT_VESTING_TRANSFER") :
         LET transfer == mb.sections[i].value
         IN \/ transfer.cliffDurationDays < 0
            \/ transfer.vestingDurationDays <= 0
            \/ transfer.amount <= 0

NodeThrows(mb) ==
    Cardinality(Positions(mb, "VN_COMETBFT_PUBLIC_KEY_DECLARATION")) # IF mb.height = 1 THEN 1 ELSE 0

UpdateThrows(kind, mb) == \/ kind = "account" /\ AccountThrows(mb)
                          \/ kind = "node" /\ NodeThrows(mb)

UpdatedAccount(state, mb) ==
    [scheme    |-> IF Declares(mb, "ACCOUNT_PUBLIC_KEY")
                   THEN LastValue(mb, "ACCOUNT_PUBLIC_KEY").scheme ELSE state.scheme,
     keyHeight |-> HeightIf(mb, "ACCOUNT_PUBLIC_KEY", state.keyHeight)]

UpdatedOrganization(state, mb) ==
    [owner             |-> Assigned(mb, "ORG_CREATION", state.owner),
     descriptionHeight |-> HeightIf(mb, "ORG_DESCRIPTION", state.descriptionHeight)]

UpdatedApplication(state, mb) ==
    [organization      |-> Assigned(mb, "APP_CREATION", state.organization),
     descriptionHeight |-> HeightIf(mb, "APP_DESCRIPTION", state.descriptionHeight)]

\* Mutant: the endpoint stays the one declared first.
UpdatedNodeOnce(state, mb) ==
    [organization |-> Assigned(mb, "VN_CREATION", state.organization),
     keyHeight    |-> HeightIf(mb, "VN_COMETBFT_PUBLIC_KEY_DECLARATION", state.keyHeight),
     approved     |-> Assigned(mb, "VN_APPROVAL", state.approved),
     rpcHeight    |-> IF state.rpcHeight = 0 THEN HeightIf(mb, "VN_RPC_ENDPOINT", 0) ELSE state.rpcHeight]

UpdatedNode(state, mb) ==
    [organization |-> Assigned(mb, "VN_CREATION", state.organization),
     keyHeight    |-> HeightIf(mb, "VN_COMETBFT_PUBLIC_KEY_DECLARATION", state.keyHeight),
     approved     |-> Assigned(mb, "VN_APPROVAL", state.approved),
     rpcHeight    |-> HeightIf(mb, "VN_RPC_ENDPOINT", state.rpcHeight)]

UpdatedProtocol(state, mb) ==
    [organization |-> Assigned(mb, "PROTOCOL_CREATION", state.organization),
     variables    |-> Assigned(mb, "PROTOCOL_UPDATE", state.variables)]

Updated(kind, state, mb) ==
    CASE kind = "account"      -> UpdatedAccount(state, mb)
      [] kind = "organization" -> UpdatedOrganization(state, mb)
      [] kind = "application"  -> UpdatedApplication(state, mb)
      [] kind = "node"         -> UpdatedNode(state, mb)
      [] kind = "protocol"     -> UpdatedProtocol(state, mb)

-----------------------------------------------------------------------------
(* The readers. *)

\* The first section of a type in the microblock at a height.
Lookup(chain, height, type) ==
    IF height \in DOMAIN chain.blocks /\ Declares(chain.blocks[height], type)
    THEN FirstValue(chain.blocks[height], type) ELSE NotFound

\* The scheme comes from the state, the key from the section.
PublicKey(chain) ==
    LET value == Lookup(chain, chain.state.keyHeight, "ACCOUNT_PUBLIC_KEY")
    IN IF value = NotFound THEN NotFound ELSE [scheme |-> chain.state.scheme, key |-> value.key]

OrganizationDescription(chain) == Lookup(chain, chain.state.descriptionHeight, "ORG_DESCRIPTION")

ApplicationDescription(chain) == Lookup(chain, chain.state.descriptionHeight, "APP_DESCRIPTION")

CometbftPublicKey(chain) ==
    Lookup(chain, chain.state.keyHeight, "VN_COMETBFT_PUBLIC_KEY_DECLARATION")

RpcEndpoint(chain) == Lookup(chain, chain.state.rpcHeight, "VN_RPC_ENDPOINT")

\* The protocol chain reads its organization from its first microblock.
OrganizationOf(chain) ==
    IF chain.kind = "protocol" THEN Lookup(chain, 1, "PROTOCOL_CREATION")
                               ELSE chain.state.organization

\* getVirtualBlockchainOwnerId: an account owns itself; the others belong to the owner
\* of their organization, if that is the identifier of one.
OwnerOf(chains, id) ==
    CASE chains[id].kind = "account"      -> id
      [] chains[id].kind = "organization" -> chains[id].state.owner
      [] OTHER -> LET organization == OrganizationOf(chains[id])
                  IN IF /\ organization \in DOMAIN chains
                        /\ chains[organization].kind = "organization"
                     THEN chains[organization].state.owner ELSE NotFound
=============================================================================
