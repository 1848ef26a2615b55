-------------------------------- MODULE Values --------------------------------
(* Inputs of the parts that keep no state, grown step by step: the sections of a
   microblock for the structure checkers, objects for the serializers, which differ
   from an ordinary object in a few fields, bytes, numbers and seeds for the encodings, the
   chains and radix trees of a node for the proofs of its state, trees of leaves of which
   some are hidden, paths of links, documents whose tags stand for microblocks and data,
   answers of a node to the operations of a provider, and a provider that reads
   microblocks. *)
EXTENDS Layouts, Encodings, StateProofs, Witnesses, Documents, Exchanges, MicroblockReads

CONSTANTS MaxUnusual,    \* bound: fields of an object that are not the ordinary ones
          MaxFields      \* bound: fields of a document, and of all it refers to

-----------------------------------------------------------------------------
(* Objects of a schema: the values a field may be given, the ordinary one first. *)

Text(size) == [i \in 1 .. size |-> "a"]
Digits(size) == [i \in 1 .. size |-> ByteValues - 1]

NumbersOf(type) ==
    LET limit == Limit[Width(type)]
    IN <<Value("number", Integer(1)), Value("number", Integer(limit - 1)),
         Value("number", Integer(limit)), Value("number", Integer(-1)),
         Value("number", [n |-> 0, fraction |-> TRUE])>>

HashString(size, upper) == Value("hashString", [digits |-> Digits(size), upper |-> upper])

RECURSIVE ChoicesOf(_), ItemChoices(_)
\* An ordinary object, and those with one field that is not.
ObjectChoices(fields) ==
    LET choices == [i \in DOMAIN fields |-> ChoicesOf(fields[i])]
        ordinary == [i \in DOMAIN fields |-> Head(choices[i])]
    IN <<ordinary>> \o FlattenSeq([i \in DOMAIN fields |->
                         [k \in 1 .. Len(choices[i]) - 1 |-> [ordinary EXCEPT ![i] = choices[i][k + 1]]]])
ItemChoices(item) ==
    LET sizes == IF item.size = Unsized THEN <<1, 0, Half>> ELSE <<item.size, item.size - 1>>
    IN CASE item.type \in Unsigned -> NumbersOf(item.type)
         [] item.type = "string" -> [i \in DOMAIN sizes |-> Value("string", Text(sizes[i]))]
                                    \o <<Value("string", Append(Text(sizes[1] - 1), "e"))>>
         [] item.type = "boolean" -> <<Value("boolean", TRUE), Value("boolean", FALSE)>>
         [] item.type = "binary" -> [i \in DOMAIN sizes |-> Value("binary", Digits(sizes[i]))]
         [] item.type = "bin256" -> <<Value("binary", Digits(DigestLength)),
                                      Value("binary", Digits(DigestLength - 1))>>
         [] item.type = "hashString" -> <<HashString(DigestLength, TRUE), HashString(DigestLength, FALSE),
                                          HashString(1, TRUE)>>
         [] item.type = "object" -> LET objects == ObjectChoices(item.fields)
                                    IN [i \in DOMAIN objects |-> Value("object", objects[i])]
         [] item.type = "unspecified" -> <<Value("object", <<>>)>>
ChoicesOf(item) ==
    LET items == ItemChoices(item)
        Many(n) == [i \in 1 .. n |-> Head(items)]
        sizes == IF item.size = Unsized THEN <<1, 0, 2>> ELSE <<item.size, item.size + 1>>
    IN (IF item.array THEN [i \in DOMAIN sizes |-> Value("array", Many(sizes[i]))]
                           \o [i \in DOMAIN items |-> Value("array", [Many(sizes[1]) EXCEPT ![1] = items[i]])]
        ELSE items)
       \o <<Null, Missing>>

Tables ==
    [schema |-> Contract @@ RecordDescription @@ Account @@ VbStates @@ AppLedgerVbState
                @@ [BlockInformation |-> BlockInformation, BlockContent |-> BlockContent]
                @@ Microblock @@ WalletQrCode @@ MlKemCiphertext
                @@ ProtocolSections @@ AccountSections @@ NodeSections @@ DescribedSections
                @@ LedgerSectionSchemas,
     node   |-> NodeMessages,
     wallet |-> WalletMessages]

FieldChoices == [table \in DOMAIN Tables |->
               [name \in DOMAIN Tables[table] |->
                  [i \in DOMAIN Tables[table][name] |-> ChoicesOf(Tables[table][name][i])]]]

Chosen == [i \in DOMAIN input.picks |-> FieldChoices[input.table][input.name][i][input.picks[i]]]

\* What is read back of a value: hash strings in capitals.
RECURSIVE ReadBack(_)
ReadBack(value) ==
    CASE value.kind = "hashString" -> [value EXCEPT !.of.upper = TRUE]
      [] value.kind \in {"array", "object"} ->
           [value EXCEPT !.of = [i \in DOMAIN value.of |-> ReadBack(value.of[i])]]
      [] OTHER -> value

-----------------------------------------------------------------------------
(* Objects of a shape. *)

AnswerExamples == [type \in DOMAIN AnyAnswer.of |-> Examples(AnyAnswer.of[type])]

StoredObjects ==
    [section |-> AnySection, body |-> BodyShape, header |-> HeaderShape, chain |-> ChainOfMicroblockShape,
     information |-> Entries(MicroblockEntries), state |-> StateShape, lock |-> LockShape,
     account |-> AccountStateShape, reference |-> ReferenceShape]

-----------------------------------------------------------------------------

Init ==
    \/ NoSections
    \/ \E table \in DOMAIN Tables : \E name \in DOMAIN Tables[table] :
         input = [of |-> "object", table |-> table, name |-> name,
                  picks |-> [i \in DOMAIN Tables[table][name] |-> 1]]
    \/ NothingEncoded
    \/ NothingProved
    \/ NothingHidden
    \/ input = [of |-> "link", path |-> <<Empty>>]
    \/ \E tag \in RootTags \cup {MbTag} : input = [of |-> "link", path |-> <<tag>>]
    \/ \E given \in {{}, {"d1"}} :
         input = [of |-> "document", contents |-> NoContents, reached |-> {"root"}, given |-> given]
    \/ \E operation \in DOMAIN Operations, type \in DOMAIN AnyAnswer.of :
         input = [of |-> "exchange", operation |-> operation, type |-> type]
    \/ \E kind \in DOMAIN StoredObjects : input = [of |-> "stored", kind |-> kind]
    \/ NothingRead

Unusual(picks) == {i \in DOMAIN picks : picks[i] > 1}

PickUnusual ==
    /\ input.of = "object"
    /\ Cardinality(Unusual(input.picks)) < MaxUnusual
    /\ \E i \in DOMAIN input.picks \ Unusual(input.picks) :
         \E k \in 2 .. Len(FieldChoices[input.table][input.name][i]) :
           input' = [input EXCEPT !.picks[i] = k]

\* One part more of a path that is none yet or already is one.
AddPart ==
    /\ input.of = "link"
    /\ input.path \in PartsOfLinks
    /\ \E part \in Parts : input' = [input EXCEPT !.path = Append(@, part)]

\* In the document or in what it refers to.
AddField ==
    /\ input.of = "document"
    /\ FoldSet(LAMBDA holder, sum : sum + Len(input.contents[holder]), 0, Holders) < MaxFields
    /\ \E holder \in input.reached : \E new \in FieldsOf(holder) :
         /\ \A i \in DOMAIN input.contents[holder] : input.contents[holder][i][1] # new.field[1]
         /\ input' = [input EXCEPT !.contents[holder] = Append(@, new.field),
                                  !.reached = @ \cup {new.to}]

Next ==
    \/ ReadAny \/ AddPart \/ AddField \/ AddMicroblock \/ AddEntry \/ AddLeaf \/ HideLeaf
    \/ ChangeNumber \/ AddSection \/ PickUnusual \/ AddByte \/ Expire

Spec == Init /\ [][Next]_input

-----------------------------------------------------------------------------

\* An object that the serializer takes is valid, unless a definition is written in its
\* schema, and a valid one can be serialized unless a field is left out, has no schema or
\* is an array of a wrong size.
ValidatorAgrees(fields, object) ==
    LET Described == \A i \in DOMAIN fields : ~fields[i].inline
        Complete == \A i \in DOMAIN fields :
                      /\ fields[i].type # "unspecified"
                      /\ object[i] # Missing
                      /\ fields[i].array /\ object[i].kind = "array" =>
                           SizeFits(Len(object[i].of), fields[i].size)
    IN Described =>
         /\ CanSerialize(fields, object) => Validates(fields, object)
         /\ Complete /\ Validates(fields, object) => CanSerialize(fields, object)

StreamReadsBack(fields, object, stream) ==
    /\ EndsWithObject(fields, stream)
    /\ Unserialized(fields, stream) = ReadBack(Value("object", object)).of
    /\ \A n \in 0 .. Len(stream) - 1 : ~EndsWithObject(fields, SubSeq(stream, 1, n))
    /\ ~EndsWithObject(fields, Append(stream, 0))

MessageReadsBack(collection, type, object, message) ==
    /\ KnownMessage(collection, message)
    /\ UnserializedMessage(collection, message)
         = [type |-> type, object |-> ReadBack(Value("object", object)).of]

ObjectReadsBack(fields, object) ==
    /\ ValidatorAgrees(fields, object)
    /\ CanSerialize(fields, object) =>
         /\ StreamReadsBack(fields, object, Serialized(fields, object))
         /\ input.table # "schema" =>
              MessageReadsBack(Tables[input.table], input.name - 1, object,
                               SerializedMessage(Tables[input.table], input.name - 1, object))

\* What the serializer takes is what the validator takes, as far as ValidatorAgrees says,
\* and is read back as it was, also of a message, with its type; no fewer or more bytes
\* are taken for an object (schemaSerializer.ts:7-174, schemaValidator.ts:28-90,
\* byteStreams.ts:13-319, messageSerializer.ts:7-53).
ObjectsReadBack ==
    input.of = "object" => ObjectReadsBack(Tables[input.table][input.name], Chosen)

\* A link is taken if it is in the grammar, for what it means there, and both resolvers lead
\* from it to the same section (LinkResolver.ts:46-177, LinkedObjectResolver.ts:18-81).
LinksLead ==
    input.of = "link" =>
      LET resolved == ResolveLink(input.path)
          chains == NodeChains(NoContents)
      IN /\ resolved = IF input.path \in DOMAIN Meaning THEN Meaning[input.path] ELSE Throws
         /\ resolved[1] = "section" =>
              LET section == GetSection(chains, resolved[2])
              IN IF section = Throws THEN GetSectionContent(chains, resolved[2]) = Throws
                 ELSE GetSectionContent(chains, resolved[2]) = section[4]

\* Where what was met came from: its node leads there, and it is the closest linked object
\* around, unless it came from data or another object was inlined over it.
LeadsBack(met, nodes, seen) ==
    met.from # <<>> =>
      /\ Last(met.from) \in {entry.node : entry \in ToSet(MappedNodes(nodes, met.path))}
      /\ /\ IsLinked(Last(met.from))
         /\ \A other \in seen : other.path = met.path => other.from = met.from
         => met.enclosing = Last(met.from)

\* What was resolved, compared with what is when all that was found is given before.
ResolvedLike(done, again) ==
    /\ done.passes <= Cardinality(DOMAIN done.state.digests \ input.given) + 1
    /\ again.passes = 1 /\ again.value = done.value
    /\ \A digest \in done.state.left \cap DOMAIN done.state.digests :
         done.state.digests[digest] # done.state.data[digest]
    /\ \A met \in done.state.seen : LeadsBack(met, done.state.nodes, done.state.seen)

ResolvedFrom(document, start, done) ==
    ~done.state.thrown =>
      ResolvedLike(done, Resolve(document, [start EXCEPT !.digests = done.state.digests], 1))

\* A document is resolved in no more passes than there are digests and one, to what one pass
\* makes of it when all data that was found is given before, and no digest of which the
\* own data was found is left. What was met is under the node of what it was inlined from,
\* and the closest linked object around it is the one it came from, unless it came from
\* data or another object was inlined over it (Resolver.ts:54-162, TagProcessor.ts:59-118, DigestDataTagHandler.ts:36-76,
\* ResolverNodeMapper.ts:8-27).
ResolvedOnceForAll ==
    input.of = "document" =>
      LET document == Document(input.contents)
      IN ResolvedFrom(document, Started(input.contents, {}),
                      Resolve(document, Started(input.contents, input.given), 1))

KeptAsIs(shape, object) == Encoded(shape, object) = object

EntriesOf(object) == {name \in DOMAIN object.of : name \notin {"responseType", "unlisted"}}

\* What is kept of what an operation gives.
CanBeStored(operation, given) ==
    CASE operation = "getMicroblockInformation" ->
           /\ KeptAsIs(ChainOfMicroblockShape,
                       Value("object", [name \in {"virtualBlockchainType", "virtualBlockchainId"} |->
                                          given.of[name]]))
           /\ KeptAsIs(HeaderShape, given.of.header)
           /\ KeptAsIs(Entries(MicroblockEntries), given)
      [] operation = "getMicroblockBodys" ->
           \A k \in DOMAIN given.of.list.of : KeptAsIs(BodyShape, given.of.list.of[k].of.microblockBody)
      [] operation = "getAccountState" -> Encoded(AccountStateShape, given) # Refused
      [] OTHER -> TRUE

\* The answers that belong to a request.
Rightful(operation) ==
    {AnswerOf[Operations[operation].request]} \cup
    (IF operation = "awaitMicroblockAnchoring" THEN {"MICROBLOCK_INFORMATION"} ELSE {})

AnswerFits(operation, type, sent, given) ==
    /\ given # Refused <=> sent # Refused /\ type \in Rightful(operation)
    /\ given # Refused /\ Operations[operation].gives \in {"all", "information"} =>
         \A name \in EntriesOf(sent) : given.of[name] = sent.of[name]
    /\ given # Refused => CanBeStored(operation, given)

AskedAsMeant(request, asked) ==
    asked # Refused => /\ Decoded(AnyRequest, asked) = asked
                       /\ \A name \in EntriesOf(request) : asked.of[name] = request.of[name]

ReadBackAsKept(shape, kept) == kept # Refused => Decoded(shape, kept) = kept

\* What can be asked is asked as it was meant.  An operation gives something of exactly the
\* answers of the type that belongs to its request, awaitMicroblockAnchoring also of
\* the information on a microblock, with every entry the node put in; and what is given can
\* be kept as bytes and is read back (NetworkProvider.ts:78-269, 337-376, 392-404,
\* AbciQueryEncoder.ts:8-23, BlockchainUtils.ts:98-248, Provider.ts:139-216).
ExchangesFit ==
    /\ input.of = "stored" =>
         \A object \in Examples(StoredObjects[input.kind]) :
           ReadBackAsKept(StoredObjects[input.kind], Encoded(StoredObjects[input.kind], object))
    /\ input.of = "exchange" =>
         /\ \A request \in Examples(AnyRequest.of[Operations[input.operation].request]) :
              AskedAsMeant(request, Asked(request))
         /\ \A answer \in AnswerExamples[input.type] :
              AnswerFits(input.operation, input.type, Encoded(AnyAnswer, answer),
                         Given(Operations[input.operation], answer))

\* The expiration read back from a seed is the one it was made with
\* (VirtualBlockchainSeed.ts:18-21, 51-58).
ExpirationReadsBack ==
    input.of = "seed" =>
      ExtractExpirationDay(GenesisSeed(input.type, input.expiration, Randomness)) = input.expiration
=============================================================================
