----------------------------- MODULE ProofRecords -----------------------------
(* A record from its JSON to the chain and back, and the proofs made from it
   (RecordByChannels.ts, OnChainRecord.ts, MerkleRecord.ts, ProofRecord.ts, and what
   ApplicationLedgerVb.ts does with them). A writer sets channels and transformations and
   puts the record on the chain. A reader takes from there the channels it can decrypt,
   makes proofs of them, hides fields of a proof and exports it; an exported proof may be
   imported again, to hide more. All proofs made from one record share its leaves. *)
EXTENDS Records, TLC

CONSTANTS Objects,        \* the JSON values that are recorded
          Patterns(_),    \* the path patterns that settings are given for
          ChannelIds,     \* channels that fields are put into
          Masks,          \* masks by positions
          RegexMasks,     \* masks by a regular expression
          Proofs,         \* the proof objects
          MaxSettings,    \* bound: settings of a record
          MaxHidden       \* bound: fields that are hidden in one list of leaves

VARIABLES record,     \* what the writer prepares: [json, items, public, settings]
          chain,      \* the sections: [isPublic, pepper, items, root] of each channel
          merkle,     \* the reader's record: [isPublic, pepper, leaves] of each channel
          proofs,     \* what each proof object holds
          document,   \* the proof that was exported last
          asked       \* what was asked to be hidden in the leaves of the record and of each proof

vars == <<record, chain, merkle, proofs, document, asked>>

Nothing == <<>>   \* not there yet
SharedLeaves == "shared leaves"
Owners == Proofs \cup {SharedLeaves}

Init ==
    /\ \E json \in Objects :
         record = [json |-> json, items |-> BuildItemList(json, <<>>), public |-> {}, settings |-> 0]
    /\ chain = Nothing
    /\ merkle = Nothing
    /\ proofs = [p \in Proofs |-> Nothing]
    /\ document = Nothing
    /\ asked = [owner \in Owners |-> Nothing]

-----------------------------------------------------------------------------
(* The writer. *)

Preparing == chain = Nothing /\ record.settings < MaxSettings

\* A setting that throws may have changed some of its fields.
PrepareItems(items) ==
    /\ Preparing
    /\ record' = [record EXCEPT !.items = items, !.settings = @ + 1]
    /\ UNCHANGED <<chain, merkle, proofs, document, asked>>

PutInChannel(pattern, channel) == PrepareItems(SetChannel(record.items, pattern, channel))
MakeHashable(pattern) == PrepareItems(SetAsHashable(record.items, pattern))
MaskPositions(pattern, parts) == PrepareItems(SetMaskByPositions(record.items, pattern, parts))
MaskRegex(pattern, lengths, substitution) ==
    PrepareItems(SetMaskByRegex(record.items, pattern, lengths, substitution))

SetChannelAsPublic(channel) ==
    /\ Preparing
    /\ record' = [record EXCEPT !.public = @ \cup {channel}, !.settings = @ + 1]
    /\ UNCHANGED <<chain, merkle, proofs, document, asked>>

PepperOf(channel, isPublic) == IF isPublic THEN NullPepper ELSE <<"pepper", channel>>

LeavesFor(items, isPublic, pepper) == FlatItemsToPositionedLeaves(items, isPublic, pepper)

\* The leaves and the root of every channel, and the fields as they go on the chain.
PutOnChain ==
    /\ chain = Nothing
    /\ \A channel \in ChannelsOf(record.items) :
         CanMakeLeaves(GetFlatItems(record.items, channel), channel \in record.public)
    /\ chain' = [channel \in ChannelsOf(record.items) |->
                   LET isPublic == channel \in record.public
                       pepper == PepperOf(channel, isPublic)
                       items == GetFlatItems(record.items, channel)
                   IN [isPublic |-> isPublic, pepper |-> pepper, items |-> ToOnChainItems(items),
                       root |-> ChannelRootHash(LeavesFor(items, isPublic, pepper), isPublic)]]
    /\ UNCHANGED <<record, merkle, proofs, document, asked>>

-----------------------------------------------------------------------------
(* The reader. *)

MerkleRecordOf(channels) ==
    [channel \in channels |->
       [isPublic |-> chain[channel].isPublic, pepper |-> chain[channel].pepper,
        leaves   |-> LeavesFor(FromOnChainItems(chain[channel].items, channel),
                               chain[channel].isPublic, chain[channel].pepper)]]

\* The public channels and the private ones the reader has the keys of.
GetMicroblockMerkleRecord(readable) ==
    /\ chain # Nothing
    /\ merkle = Nothing
    /\ merkle' = MerkleRecordOf({channel \in DOMAIN chain : chain[channel].isPublic} \cup readable)
    /\ asked' = [asked EXCEPT ![SharedLeaves] = <<>>]
    /\ UNCHANGED <<record, chain, proofs, document>>

\* The hashes of the leaves a tree is given, by their index; removed ones are not there.
LeafHashes(n, leaves) ==
    [i \in 1 .. n |->
       LET At == {k \in DOMAIN leaves : leaves[k] # Absent /\ leaves[k].index = i}
       IN IF At = {} THEN Absent ELSE GetHash(leaves[CHOOSE k \in At : TRUE].leaf)]

CanBuildTree(channel) ==
    ~channel.isPublic => CanSetWitnesses(LeafHashes(channel.n, channel.leaves), channel.witnesses)

BuildTree(channel) ==
    IF channel.isPublic THEN <<>>
    ELSE LET hashes == LeafHashes(channel.n, channel.leaves)
         IN SetWitnesses(BuildTreeStructure(hashes), hashes, channel.witnesses)

FieldMap(channels) ==
    LET Known(channel) == {k \in DOMAIN channels[channel].leaves : channels[channel].leaves[k] # Absent}
        places == UNION {{<<channel, k>> : k \in Known(channel)} : channel \in DOMAIN channels}
        PathAt(place) == channels[place[1]].leaves[place[2]].path
    IN [path \in {PathAt(place) : place \in places} |->
          CHOOSE place \in places : PathAt(place) = path]

\* A proof keeps what it is made from: leaves of its own only if it was imported.
ProofOf(channels, shared) ==
    [shared   |-> shared,
     fieldMap |-> FieldMap(channels),
     channels |-> [channel \in DOMAIN channels |->
                     [isPublic |-> channels[channel].isPublic,
                      n        |-> channels[channel].n,
                      leaves   |-> IF shared THEN <<>> ELSE channels[channel].leaves,
                      tree     |-> BuildTree(channels[channel])]]]

Create(p, channels, shared) ==
    /\ proofs[p] = Nothing
    /\ \A channel \in DOMAIN channels : CanBuildTree(channels[channel])
    /\ proofs' = [proofs EXCEPT ![p] = ProofOf(channels, shared)]

FromMerkleRecord(p) ==
    /\ merkle # Nothing
    /\ Create(p, [channel \in DOMAIN merkle |->
                    [isPublic  |-> merkle[channel].isPublic, n |-> Len(merkle[channel].leaves),
                     leaves    |-> merkle[channel].leaves, witnesses |-> <<>>]], TRUE)
    /\ UNCHANGED <<record, chain, merkle, document, asked>>

ImportedChannels ==
    [channel \in DOMAIN document.channels |->
       LET proofChannel == document.channels[channel]
       IN [isPublic |-> proofChannel.isPublic, n |-> proofChannel.n,
           leaves   |-> proofChannel.fields, witnesses |-> proofChannel.witnesses]]

FromProofChannels(p) ==
    /\ document # Nothing
    /\ Create(p, ImportedChannels, FALSE)
    /\ asked' = [asked EXCEPT ![p] = document.asked]
    /\ UNCHANGED <<record, chain, merkle, document>>

-----------------------------------------------------------------------------
(* A proof. *)

LeavesOf(p, channel) ==
    IF proofs[p].shared THEN merkle[channel].leaves ELSE proofs[p].channels[channel].leaves

OwnerOf(p) == IF proofs[p].shared THEN SharedLeaves ELSE p

\* One entry of the leaves changes, for all proofs that share them.
ChangeLeaf(p, path, entry, level) ==
    LET channel == proofs[p].fieldMap[path][1]
        k == proofs[p].fieldMap[path][2]
    IN /\ IF proofs[p].shared
          THEN /\ merkle' = [merkle EXCEPT ![channel].leaves[k] = entry]
               /\ UNCHANGED proofs
          ELSE /\ proofs' = [proofs EXCEPT ![p].channels[channel].leaves[k] = entry]
               /\ UNCHANGED merkle
       /\ LET levels == asked[OwnerOf(p)]
          IN /\ Cardinality(DOMAIN levels \cup {path}) <= MaxHidden
             /\ asked' = [asked EXCEPT ![OwnerOf(p)] = (path :> level) @@ levels]
       /\ UNCHANGED <<record, chain, document>>

Known(p, path) == proofs[p] # Nothing /\ path \in DOMAIN proofs[p].fieldMap
EntryAt(p, path) == LeavesOf(p, proofs[p].fieldMap[path][1])[proofs[p].fieldMap[path][2]]

RemoveField(p, path) ==
    /\ Known(p, path)
    /\ ChangeLeaf(p, path, Absent, "removed")

SetFieldToHashed(p, path) ==
    /\ Known(p, path)
    /\ EntryAt(p, path) # Absent
    /\ CanBeHashed(EntryAt(p, path).leaf)
    /\ ChangeLeaf(p, path, [EntryAt(p, path) EXCEPT !.leaf = SetToHashed(@)], "hidden")

SetFieldToMasked(p, path) ==
    /\ Known(p, path)
    /\ EntryAt(p, path) # Absent
    /\ CanBeMasked(EntryAt(p, path).leaf)
    /\ ChangeLeaf(p, path, [EntryAt(p, path) EXCEPT !.leaf = SetToMasked(@)], "hidden")

\* The tree keeps the nodes that were computed for its root.
GetRootHash(p, channel) ==
    /\ proofs[p] # Nothing
    /\ channel \in DOMAIN proofs[p].channels
    /\ ~proofs[p].channels[channel].isPublic
    /\ proofs' = [proofs EXCEPT ![p].channels[channel].tree = ComputeRootHash(@)]
    /\ UNCHANGED <<record, chain, merkle, document, asked>>

UnknownPositions(p, channel) ==
    LET leaves == LeavesOf(p, channel)
        known == {leaves[k].index : k \in {k \in DOMAIN leaves : leaves[k] # Absent}}
    IN (1 .. proofs[p].channels[channel].n) \ known

CanExport(p) ==
    \A channel \in DOMAIN proofs[p].channels :
      LET entry == proofs[p].channels[channel]
      IN ~entry.isPublic => CanGetWitnesses(entry.tree, entry.n, UnknownPositions(p, channel))

\* The fields that are left and the hashes in place of the others. A public field is
\* written without its index, which is read back as 0.
ToProofChannels(p) ==
    [channel \in DOMAIN proofs[p].channels |->
       LET entry == proofs[p].channels[channel]
           left == SelectSeq(LeavesOf(p, channel), LAMBDA leaf : leaf # Absent)
       IN [isPublic  |-> entry.isPublic,
           n         |-> entry.n,
           fields    |-> [k \in DOMAIN left |-> IF entry.isPublic THEN [left[k] EXCEPT !.index = 0]
                                                ELSE left[k]],
           witnesses |-> IF entry.isPublic THEN <<>>
                         ELSE GetWitnesses(entry.tree, entry.n, UnknownPositions(p, channel))]]

Export(p) ==
    /\ proofs[p] # Nothing
    /\ CanExport(p)
    /\ document' = [channels |-> ToProofChannels(p), asked |-> asked[OwnerOf(p)]]
    /\ UNCHANGED <<record, chain, merkle, proofs, asked>>

-----------------------------------------------------------------------------

Next ==
    \/ \E pattern \in Patterns(record.json), channel \in ChannelIds : PutInChannel(pattern, channel)
    \/ \E channel \in ChannelIds : SetChannelAsPublic(channel)
    \/ \E pattern \in Patterns(record.json) :
         \/ MakeHashable(pattern)
         \/ \E parts \in Masks : MaskPositions(pattern, parts)
         \/ \E mask \in RegexMasks : MaskRegex(pattern, mask.lengths, mask.substitution)
    \/ PutOnChain
    \/ \E readable \in SUBSET ChannelsOf(record.items) : GetMicroblockMerkleRecord(readable)
    \/ \E p \in Proofs :
         \/ FromMerkleRecord(p)
         \/ FromProofChannels(p)
         \/ proofs[p] # Nothing /\ \E channel \in DOMAIN proofs[p].channels : GetRootHash(p, channel)
         \/ Export(p)
         \/ \E i \in DOMAIN record.items :
              LET path == record.items[i].path
              IN RemoveField(p, path) \/ SetFieldToHashed(p, path) \/ SetFieldToMasked(p, path)

Spec == Init /\ [][Next]_vars

-----------------------------------------------------------------------------

Private(channels) == {channel \in DOMAIN channels : ~channels[channel].isPublic}

\* A mask of no part leaves a text that is read as empty.
Emptied(field) == field.transformation.type = "maskable" /\ field.transformation.visible = <<>>
Recorded(field) == IF Emptied(field) THEN [field EXCEPT !.value = <<"string", <<>>>>] ELSE field

\* The record read from the chain by who has all keys is the one that was written: the JSON
\* is rebuilt from all channels, every channel has the root that is on the chain, and no two
\* fields of private channels share a salt (Record.ts, OnChainRecord.ts:43-188,
\* MerkleRecord.ts:35-158, SaltShaker.ts:21-33, ApplicationLedgerVb.ts:725-732).
RecordReadBack ==
    chain # Nothing /\ merkle = Nothing =>
      LET read == MerkleRecordOf(DOMAIN chain)
          leaves == UNION {ToSet(read[channel].leaves) : channel \in DOMAIN read}
          hidden == UNION {ToSet(read[channel].leaves) : channel \in Private(chain)}
          SaltsIn(leaf) == IF "salt" \in DOMAIN leaf THEN {leaf.salt}
                           ELSE {leaf.visible.salt, leaf.hidden.salt}
      IN /\ Rebuilt({[path |-> entry.path, value |-> GetRawValue(entry.leaf)] : entry \in leaves})
              = Rebuilt({[path |-> Recorded(field).path, value |-> Recorded(field).value] :
                           field \in ToSet(record.items)})
         /\ Rebuilt({[path |-> field.path, value |-> field.value] : field \in ToSet(record.items)})
              = AsTree(record.json)
         /\ \A channel \in DOMAIN chain :
              ChannelRootHash(read[channel].leaves, chain[channel].isPublic) = chain[channel].root
         /\ \A one, other \in hidden :
              one.path # other.path => SaltsIn(one.leaf) \cap SaltsIn(other.leaf) = {}

VerifiesAs(channel, tree) == RootOf(ComputeRootHash(tree)) = chain[channel].root

\* Whatever is removed, hashed or masked, also by another proof of the same record, a proof
\* has the root of the chain and can be exported once its roots were computed, and each
\* document made of it has that root when it is imported
\* (ProofRecord.ts:129-161, 222-229, merkleTree.ts:40-145, ApplicationLedgerVb.ts:683-715).
ProofsVerify ==
    /\ \A p \in Proofs : proofs[p] # Nothing =>
         LET Tree(channel) == proofs[p].channels[channel].tree
             private == Private(proofs[p].channels)
         IN /\ \A channel \in private : VerifiesAs(channel, Tree(channel))
            /\ (\A channel \in private : RootOf(Tree(channel)) # Absent) => CanExport(p)
    /\ document # Nothing =>
         \A channel \in Private(document.channels) :
           /\ CanBuildTree(ImportedChannels[channel])
           /\ VerifiesAs(channel, BuildTree(ImportedChannels[channel]))

\* A document shows what was left of its channels: nothing of a field that was removed, no
\* value or hidden part of one that was hashed or masked, now or in the document it was
\* imported from, and of all others what was recorded (ProofRecord.ts:206-261,
\* MerkleLeaf.ts:127-153, 211-274).
ShowsWhatIsLeft ==
    document # Nothing => \A channel \in DOMAIN document.channels :
      LET fields == ToSet(document.channels[channel].fields)
          levels == document.asked
          Removed(path) == path \in DOMAIN levels /\ levels[path] = "removed"
          recorded == {field \in ToSet(record.items) : field.channel = channel}
      IN /\ {field.path : field \in fields}
              = {field.path : field \in {f \in recorded : ~Removed(f.path)}}
         /\ \A field \in fields, original \in recorded : field.path = original.path =>
              IF field.path \in DOMAIN levels
              THEN /\ Disclosure(field.leaf) # "plain"
                   /\ DOMAIN field.leaf \cap {"value", "hidden"} = {}
              ELSE /\ Disclosure(field.leaf) = "plain"
                   /\ GetRawValue(field.leaf) = Recorded(original).value
=============================================================================
