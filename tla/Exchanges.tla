------------------------------ MODULE Exchanges ------------------------------
(* What a NetworkProvider asks of its node: the requests, the answers, which answer
   each operation takes and what it gives of it.  The types of requests and answers go
   by their names; a node answers the request numbered n with the answer n + 1, or
   with an error. *)
EXTENDS StoredShapes

RequestShapes ==
    LET Of(hash) == hash :> Digest
        AtHeight == [height |-> NaturalInt]
        InChain == [virtualBlockchainId |-> Digest, height |-> AnyNumber]
    IN [GET_CHAIN_INFORMATION              |-> <<>>,
        GET_BLOCK_INFORMATION              |-> AtHeight,
        GET_BLOCK_CONTENT                  |-> AtHeight,
        GET_VIRTUAL_BLOCKCHAIN_STATE       |-> Of("virtualBlockchainId"),
        GET_VIRTUAL_BLOCKCHAIN_UPDATE      |-> Of("virtualBlockchainId") @@ Of("knownStateHash"),
        GET_MICROBLOCK_INFORMATION         |-> Of("hash"),
        AWAIT_MICROBLOCK_ANCHORING         |-> Of("hash"),
        GET_MICROBLOCK_BODYS               |-> [hashes |-> ListOf(Digest)],
        GET_ACCOUNT_STATE                  |-> Of("accountHash"),
        GET_ACCOUNT_HISTORY                |-> Of("accountHash") @@ Of("lastHistoryHash")
                                               @@ [maxRecords |-> PositiveInt],
        GET_ACCOUNT_BY_PUBLIC_KEY_HASH     |-> Of("publicKeyHash"),
        GET_VALIDATOR_NODE_BY_ADDRESS      |-> [address |-> BytesOf],
        GET_GENESIS_SNAPSHOT               |-> <<>>,
        GET_RAW_BLOCK_CONTENT              |-> AtHeight @@ [partIndex |-> NaturalInt],
        GET_BLOCK_MODIFIED_ACCOUNTS        |-> AtHeight,
        GET_ACCOUNT_UPDATES                |->
          [list |-> ListOf(Entries([accountHash |-> BytesOf, lastKnownHistoryHash |-> BytesOf,
                                    firstHistoryHash |-> Maybe(BytesOf)]))],
        GET_MICROBLOCK_INFORMATION_BY_HEIGHT  |-> InChain,
        GET_SERIALIZED_MICROBLOCK_BY_HEIGHT   |-> InChain,
        GET_MICROBLOCK_PROOF               |-> Of("hash"),
        GET_ACCOUNT_PROOF                  |-> Of("accountId")]

AnyRequest == Variant("requestType", RequestShapes)

-----------------------------------------------------------------------------
(* The answers. *)

BlockOfProofShape ==
    Entries([height |-> AnyNumber]
            @@ [hash \in {"vbRadixHash", "tokenRadixHash", "storageHash", "appHash"} |-> BytesOf])

MicroblockProofShape ==
    Entries([block |-> BlockOfProofShape,
             microblock |-> Entries([virtualBlockchainId |-> BytesOf, height |-> AnyNumber, hash |-> BytesOf]),
             virtualBlockchain |-> Entries([state |-> StateShape, merkleWitnesses |-> ListOf(BytesOf),
                                            radixProof |-> ListOf(BytesOf)])])

AccountProofShape ==
    Entries([block |-> BlockOfProofShape,
             account |-> Entries([virtualBlockchainId |-> BytesOf, state |-> AccountStateShape,
                                  radixProof |-> ListOf(BytesOf)])])

BlockAnswers ==
    LET HashesOfState == {"vbRadixHash", "tokenRadixHash", "radixHash", "storageHash", "appHash"}
        OfBlock == Entries([hash |-> Digest, vbId |-> Digest, vbType |-> Byte, height |-> NaturalInt,
                            size |-> NaturalInt, sectionCount |-> NaturalInt])
    IN [CHAIN_INFORMATION |-> [height |-> NaturalInt, lastBlockTimestamp |-> NaturalInt,
                               microblockCount |-> NaturalInt, objectCounts |-> ListOf(NaturalInt),
                               protocolVirtualBlockchainId |-> BytesOf],
        BLOCK_INFORMATION |-> [hash |-> Digest, timestamp |-> NaturalInt, proposerAddress |-> BytesOf,
                               applicationStateHashes |-> Entries([h \in HashesOfState |-> BytesOf]),
                               size |-> NaturalInt, microblockCount |-> NaturalInt],
        BLOCK_CONTENT     |-> [microblocks |-> ListOf(OfBlock)]]

ChainAnswers ==
    [VIRTUAL_BLOCKCHAIN_STATE  |-> [serializedVirtualBlockchainState |-> BytesOf],
     VIRTUAL_BLOCKCHAIN_UPDATE |-> [exists |-> Flag, changed |-> Flag,
                                    serializedVirtualBlockchainState |-> BytesOf],
     MICROBLOCK_INFORMATION    |-> MicroblockEntries,
     MICROBLOCK_ANCHORING      |-> MicroblockEntries,
     MICROBLOCK_BODYS          |-> [list |-> ListOf(Entries([microblockHash |-> Digest,
                                                             microblockBody |-> BodyShape]))]]

AccountAnswers ==
    [ACCOUNT_STATE              |-> [height |-> NaturalInt, balance |-> NaturalInt, lastHistoryHash |-> Digest,
                                     locks |-> ListOf(LockShape)],
     ACCOUNT_HISTORY            |-> [list |-> HistoryShape],
     ACCOUNT_BY_PUBLIC_KEY_HASH |-> [accountHash |-> Digest],
     VALIDATOR_NODE_BY_ADDRESS  |-> [validatorNodeHash |-> Digest]]

SynchronizationAnswers ==
    [GENESIS_SNAPSHOT        |-> [base64EncodedChunks |-> ListOf(AnyText)],
     RAW_BLOCK_CONTENT       |-> [partIndex |-> AnyNumber, numberOfParts |-> AnyNumber,
                                  serializedMicroblocks |-> ListOf(BytesOf)],
     BLOCK_MODIFIED_ACCOUNTS |-> [modifiedAccounts |-> ListOf(BytesOf)],
     ACCOUNT_UPDATES         |-> [list |-> ListOf(Entries([accountHash |-> BytesOf,
                                                           currentState |-> AccountStateShape,
                                                           historyUpdate |-> HistoryShape]))],
     SERIALIZED_MICROBLOCK_BY_HEIGHT |-> [serializedContent |-> BytesOf],
     MICROBLOCK_PROOF        |-> [proof |-> MicroblockProofShape],
     ACCOUNT_PROOF           |-> [proof |-> AccountProofShape]]

AnyAnswer == Variant("responseType", BlockAnswers @@ ChainAnswers @@ AccountAnswers
                                     @@ SynchronizationAnswers @@ [ERROR |-> [error |-> AnyText]])

\* The node: what it answers the requests with that a NetworkProvider makes.
AnswerOf ==
    [GET_CHAIN_INFORMATION               |-> "CHAIN_INFORMATION",
     GET_BLOCK_INFORMATION               |-> "BLOCK_INFORMATION",
     GET_BLOCK_CONTENT                   |-> "BLOCK_CONTENT",
     GET_VIRTUAL_BLOCKCHAIN_STATE        |-> "VIRTUAL_BLOCKCHAIN_STATE",
     GET_VIRTUAL_BLOCKCHAIN_UPDATE       |-> "VIRTUAL_BLOCKCHAIN_UPDATE",
     GET_MICROBLOCK_INFORMATION          |-> "MICROBLOCK_INFORMATION",
     AWAIT_MICROBLOCK_ANCHORING          |-> "MICROBLOCK_ANCHORING",
     GET_MICROBLOCK_BODYS                |-> "MICROBLOCK_BODYS",
     GET_ACCOUNT_STATE                   |-> "ACCOUNT_STATE",
     GET_ACCOUNT_HISTORY                 |-> "ACCOUNT_HISTORY",
     GET_ACCOUNT_BY_PUBLIC_KEY_HASH      |-> "ACCOUNT_BY_PUBLIC_KEY_HASH",
     GET_VALIDATOR_NODE_BY_ADDRESS       |-> "VALIDATOR_NODE_BY_ADDRESS",
     GET_GENESIS_SNAPSHOT                |-> "GENESIS_SNAPSHOT",
     GET_SERIALIZED_MICROBLOCK_BY_HEIGHT |-> "SERIALIZED_MICROBLOCK_BY_HEIGHT"]

-----------------------------------------------------------------------------
(* The operations of NetworkProvider: the request, the shape of what is taken, and the
   entry of it that is given, the whole when there is none. *)

Operation(request, answer) == [request |-> request, takes |-> AnyAnswer.of[answer], gives |-> "all"]
EntryOf(operation, name) == [operation EXCEPT !.gives = name]
\* Parsed without its type.
Untyped(operation) == [operation EXCEPT !.takes = Entries(MicroblockEntries)]

Operations ==
    LET Information == Operation("GET_MICROBLOCK_INFORMATION", "MICROBLOCK_INFORMATION")
    IN [awaitMicroblockAnchoring        |->
          Untyped(Operation("AWAIT_MICROBLOCK_ANCHORING", "MICROBLOCK_ANCHORING")),
        getChainInformation             |-> Operation("GET_CHAIN_INFORMATION", "CHAIN_INFORMATION"),
        getBlockInformation             |-> Operation("GET_BLOCK_INFORMATION", "BLOCK_INFORMATION"),
        getBlockContent                 |-> Operation("GET_BLOCK_CONTENT", "BLOCK_CONTENT"),
        getValidatorNodeByAddress       |->
          Operation("GET_VALIDATOR_NODE_BY_ADDRESS", "VALIDATOR_NODE_BY_ADDRESS"),
        getAccountState                 |-> Operation("GET_ACCOUNT_STATE", "ACCOUNT_STATE"),
        getAccountHistory               |-> Operation("GET_ACCOUNT_HISTORY", "ACCOUNT_HISTORY"),
        getAccountByPublicKeyHash       |->
          Operation("GET_ACCOUNT_BY_PUBLIC_KEY_HASH", "ACCOUNT_BY_PUBLIC_KEY_HASH"),
        getMicroblockInformation        |-> EntryOf(Information, "information"),
        getSerializedMicroblockByHeight |->
          EntryOf(Operation("GET_SERIALIZED_MICROBLOCK_BY_HEIGHT", "SERIALIZED_MICROBLOCK_BY_HEIGHT"),
                  "serializedContent"),
        getMicroblockBodys              |-> Operation("GET_MICROBLOCK_BODYS", "MICROBLOCK_BODYS"),
        getVirtualBlockchainUpdate      |->
          Operation("GET_VIRTUAL_BLOCKCHAIN_UPDATE", "VIRTUAL_BLOCKCHAIN_UPDATE"),
        getSerializedVirtualBlockchainState |->
          EntryOf(Operation("GET_VIRTUAL_BLOCKCHAIN_STATE", "VIRTUAL_BLOCKCHAIN_STATE"),
                  "serializedVirtualBlockchainState"),
        getGenesisSnapshot              |-> Operation("GET_GENESIS_SNAPSHOT", "GENESIS_SNAPSHOT")]

\* abciQuery: what is not a request throws, and so do an answer of no known shape and
\* an error.
Asked(request) == Encoded(AnyRequest, request)

Received(bytes) ==
    LET answer == Decoded(AnyAnswer, bytes)
    IN IF answer = Refused \/ HasLiteral(answer.of.responseType, "ERROR") THEN Refused ELSE answer

\* Mutant: what was received is given as it is.
GivenAsReceived(operation, bytes) ==
    LET answer == Received(bytes)
    IN IF operation.gives \in {"all", "information"} THEN answer
       ELSE IF answer = Refused THEN Refused ELSE Entry(answer, operation.gives)

\* What an operation gives of an answer.
Given(operation, bytes) ==
    LET answer == Received(bytes)
        taken == Parse(operation.takes, answer)
    IN CASE answer = Refused \/ taken = Refused -> Refused
         [] operation.gives = "all"             -> taken
         [] operation.gives = "information"     -> Parse(Entries(MicroblockEntries), taken)
         [] OTHER                               -> taken.of[operation.gives]
=============================================================================
