----------------------------- MODULE StoredShapes -----------------------------
(* The shapes of what is kept as bytes: sections, microblocks, the states of virtual
   blockchains, what locks an account has, and references. *)
EXTENDS Shapes

ProtocolVariablesShape ==
    LET Versions == {"protocolVersion", "feesCalculationVersion", "globalStateUpdaterVersion",
                     "applicationLedgerInternalStateUpdaterVersion",
                     "applicationInternalStateUpdaterVersion",
                     "organizationInternalStateUpdaterVersion",
                     "validatorNodeInternalStateUpdaterVersion",
                     "accountInternalStateUpdaterVersion", "protocolInternalStateUpdaterVersion",
                     "abciVersion"}
        Limits == {"minimumNodeStakingAmountInAtomics", "maximumNodeStakingAmountInAtomics",
                   "maxBlockSizeInBytes", "maxMicroblocksPerBlock"}
        Costs == {"fixedGasCost", "secp256k1SignatureGasCost", "mlDsa65SignatureGasCost",
                  "pkmsSecp256k1SignatureGasCost", "unstakingDelayInDays"}
    IN Entries([name \in Versions \cup Limits |-> PositiveInt] @@ [name \in Costs |-> NaturalInt]
               @@ [protocolVersionName |-> AnyText,
                   retentionPolicy |->
                     ListOf(Entries([retentionRatio |-> AnyNumber, maximumNumberOfDays |-> AnyNumber,
                                     dayDivisor |-> AnyNumber]))])

ProtocolUpdateEntries ==
    [protocolVersion |-> AnyNumber, protocolVersionName |-> AnyText, changeLog |-> AnyText,
     protocolVariables |-> ProtocolVariablesShape]

-----------------------------------------------------------------------------
(* Sections. *)

CommonSectionShapes ==
    [SIGNATURE                 |-> [signature |-> BytesOf, schemeId |-> Byte],
     AUXILIARY_SIGNATURE       |-> [tag |-> AnyText, signature |-> BytesOf, schemeId |-> Byte],
     ALLOWED_ADDITIONAL_WRITER |-> [allowedWriterAccountId |-> BytesOf]]

ProtocolSectionShapes ==
    [PROTOCOL_CREATION  |-> [organizationId |-> BytesOf],
     PROTOCOL_UPDATE    |-> ProtocolUpdateEntries,
     PROTOCOL_VARIABLES |-> [protocolVariables |-> AnyValue]]

AccountSectionShapes ==
    LET Transfer == [account |-> BytesOf, amount |-> NaturalInt, publicReference |-> AnyText,
                     privateReference |-> AnyText]
        Stake == [amount |-> NaturalInt, objectType |-> NaturalInt, objectIdentifier |-> BytesOf]
    IN [ACCOUNT_PUBLIC_KEY        |-> [publicKey |-> BytesOf, schemeId |-> Byte],
        ACCOUNT_TOKEN_ISSUANCE    |-> [amount |-> NaturalInt],
        ACCOUNT_CREATION          |-> [sellerAccount |-> BytesOf, amount |-> NaturalInt],
        ACCOUNT_TRANSFER          |-> Transfer,
        ACCOUNT_VESTING_TRANSFER  |-> Transfer @@ [cliffDurationDays |-> NaturalInt,
                                                   vestingDurationDays |-> NaturalInt],
        ACCOUNT_ESCROW_TRANSFER   |-> Transfer @@ [escrowIdentifier |-> BytesOf, agentAccount |-> BytesOf,
                                                   durationDays |-> NaturalInt],
        ACCOUNT_ESCROW_SETTLEMENT |-> [escrowIdentifier |-> BytesOf, confirmed |-> Flag],
        ACCOUNT_STAKE             |-> Stake,
        ACCOUNT_UNSTAKE           |-> Stake]

NodeSectionShapes ==
    [VN_CREATION                        |-> [organizationId |-> BytesOf],
     VN_COMETBFT_PUBLIC_KEY_DECLARATION |-> [cometPublicKeyType |-> AnyText, cometPublicKey |-> AnyText],
     VN_RPC_ENDPOINT                    |-> [rpcEndpoint |-> AnyText],
     VN_APPROVAL                        |-> [status |-> Flag],
     VN_SLASHING_CANCELLATION           |-> [reason |-> AnyText]]

\* A misc is a table of texts, which is taken or refused as a text is.
DescribedSectionShapes ==
    [ORG_CREATION    |-> [accountId |-> BytesOf],
     ORG_DESCRIPTION |-> [name |-> AnyText, city |-> AnyText, countryCode |-> AnyText,
                          website |-> AnyText, misc |-> Maybe(AnyText)],
     APP_CREATION    |-> [organizationId |-> BytesOf],
     APP_DESCRIPTION |-> [name |-> AnyText, logoUrl |-> AnyText, homepageUrl |-> AnyText,
                          description |-> AnyText, misc |-> Maybe(AnyText)]]

LedgerSectionShapes ==
    [APP_LEDGER_ALLOWED_SIG_SCHEMES  |-> [schemeIds |-> ListOf(Byte)],
     APP_LEDGER_ALLOWED_PKE_SCHEMES  |-> [schemeIds |-> ListOf(Byte)],
     APP_LEDGER_CREATION             |-> [applicationId |-> BytesOf],
     APP_LEDGER_ACTOR_CREATION       |-> [id |-> NaturalInt, actorType |-> NaturalInt, name |-> AnyText],
     APP_LEDGER_CHANNEL_CREATION     |-> [id |-> NaturalInt, isPrivate |-> Flag, creatorId |-> NaturalInt,
                                          name |-> AnyText],
     APP_LEDGER_SHARED_SECRET        |-> [hostId |-> NaturalInt, guestId |-> NaturalInt,
                                          encryptedSharedKey |-> BytesOf],
     APP_LEDGER_CHANNEL_INVITATION   |-> [channelId |-> NaturalInt, hostId |-> NaturalInt,
                                          guestId |-> NaturalInt, encryptedChannelKey |-> BytesOf],
     APP_LEDGER_ACTOR_SUBSCRIPTION   |-> [actorId |-> NaturalInt, actorType |-> NaturalInt,
                                          organizationId |-> BytesOf,
                                          signatureSchemeId |-> Byte, signaturePublicKey |-> BytesOf,
                                          pkeSchemeId |-> Byte, pkePublicKey |-> BytesOf],
     APP_LEDGER_PUBLIC_CHANNEL_DATA  |-> [channelId |-> NaturalInt, data |-> BytesOf],
     APP_LEDGER_PRIVATE_CHANNEL_DATA |-> [channelId |-> NaturalInt, merkleRootHash |-> BytesOf,
                                          encryptedData |-> BytesOf],
     APP_LEDGER_AUTHOR               |-> [authorId |-> NaturalInt],
     APP_LEDGER_ENDORSEMENT_REQUEST  |-> [endorserId |-> NaturalInt, message |-> AnyText]]

\* A custom section has any entries beside its type.
AnySection ==
    LET listed == Variant("type", CommonSectionShapes @@ ProtocolSectionShapes @@ AccountSectionShapes
                                  @@ NodeSectionShapes @@ DescribedSectionShapes @@ LedgerSectionShapes)
    IN [listed EXCEPT !.of = @ @@ [CUSTOM |-> EntriesAndMore([type |-> Literal("CUSTOM")])]]

-----------------------------------------------------------------------------
(* Microblocks. *)

HeaderShape ==
    Entries([magicString |-> Literal("CMTS"), microblockType |-> NaturalInt, height |-> NaturalInt,
             previousHash |-> BytesOf, timestamp |-> NaturalInt, gas |-> NaturalInt,
             gasPrice |-> NaturalInt, bodyHash |-> BytesOf, feesPayerAccount |-> BytesOf])

BodyShape == Entries([sections |-> ListOf(AnySection)])

\* The chain of a microblock, and with its header what a node tells of it.
ChainOfMicroblockShape == Entries([virtualBlockchainType |-> AnyNumber, virtualBlockchainId |-> BytesOf])

MicroblockEntries == [virtualBlockchainId |-> BytesOf, virtualBlockchainType |-> AnyNumber,
                      header |-> HeaderShape]

-----------------------------------------------------------------------------
(* States of virtual blockchains. *)

InternalStateShapes ==
    LET Heights(other) == ListOf(Entries((other :> AnyNumber) @@ [height |-> NaturalInt]))
    IN [PROTOCOL     |-> [organizationId |-> BytesOf, currentProtocolVariables |-> ProtocolVariablesShape,
                          protocolUpdates |-> ListOf(Entries(ProtocolUpdateEntries))],
        ACCOUNT      |-> [signatureSchemeId |-> AnyNumber, publicKeyHeight |-> NaturalInt],
        ORGANIZATION |-> [accountId |-> BytesOf, descriptionHeight |-> NaturalInt],
        NODE         |-> [organizationId |-> BytesOf, cometbftPublicKeyDeclarationHeight |-> NaturalInt,
                          rpcEndpointHeight |-> NaturalInt, lastKnownApprovalStatus |-> Flag],
        APPLICATION  |-> [organizationId |-> BytesOf, descriptionHeight |-> NaturalInt],
        APP_LEDGER   |-> [allowedAdditionalWriters |-> ListOf(BytesOf),
                          allowedSignatureSchemeIds |-> ListOf(AnyNumber),
                          allowedPkeSchemeIds |-> ListOf(AnyNumber), applicationId |-> BytesOf,
                          channels |-> ListOf(Entries([name |-> AnyText, isPrivate |-> Flag,
                                                       creatorId |-> AnyNumber])),
                          actors |-> ListOf(Entries([name |-> AnyText, subscribed |-> Flag,
                                                     signatureKeyHeight |-> AnyNumber,
                                                     pkeKeyHeight |-> AnyNumber,
                                                     sharedSecrets |-> Heights("peerActorId"),
                                                     invitations |-> Heights("channelId")]))]]

StateShape ==
    Variant("type", [name \in DOMAIN InternalStateShapes |->
                       [height |-> AnyNumber, expirationDay |-> AnyNumber, lastMicroblockHash |-> BytesOf,
                        merkleRootHash |-> BytesOf, internalState |-> Entries(InternalStateShapes[name])]])

-----------------------------------------------------------------------------
(* Accounts. *)

LockShape ==
    Variant("type",
            [ESCROW  |-> [lockedAmountInAtomics |-> AnyNumber,
                          parameters |-> Entries([escrowIdentifier |-> BytesOf, fundEmitterAccountId |-> BytesOf,
                                                  transferAuthorizerAccountId |-> BytesOf,
                                                  startTimestamp |-> AnyNumber, durationDays |-> AnyNumber])],
             VESTING |-> [lockedAmountInAtomics |-> AnyNumber,
                          parameters |-> Entries([initialVestedAmountInAtomics |-> AnyNumber,
                                                  cliffStartTimestamp |-> AnyNumber,
                                                  cliffDurationDays |-> AnyNumber,
                                                  vestingDurationDays |-> AnyNumber])],
             STAKING |-> [lockedAmountInAtomics |-> AnyNumber,
                          parameters |-> Entries([validatorNodeId |-> BytesOf,
                                                  plannedUnlockAmountInAtomics |-> AnyNumber,
                                                  plannedUnlockTimestamp |-> AnyNumber, slashed |-> Flag,
                                                  plannedSlashingAmountInAtomics |-> AnyNumber,
                                                  plannedSlashingTimestamp |-> AnyNumber])]])

AccountStateShape == Entries([height |-> AnyNumber, balance |-> AnyNumber, lastHistoryHash |-> BytesOf,
                              locks |-> ListOf(LockShape)])

ReferenceShape ==
    Variant("type", [BLOCK      |-> [height |-> AnyNumber],
                     MICROBLOCK |-> [microblockHash |-> Digest],
                     SECTION    |-> [microblockHash |-> Digest, sectionIndex |-> AnyNumber]])

HistoryShape ==
    ListOf(Entries([height |-> NaturalInt, previousHistoryHash |-> Digest, type |-> Byte,
                    publicReference |-> AnyText, privateReference |-> AnyText, timestamp |-> NaturalInt,
                    linkedAccount |-> Digest, amount |-> NaturalInt, chainReference |-> ReferenceShape]))
=============================================================================
