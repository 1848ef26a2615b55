-------------------------------- MODULE Records --------------------------------
(* The data of a record: its fields in order, with their channels and transformations
   (Record.ts), what of them goes on the chain and comes back (OnChainRecord.ts), and the
   leaf each becomes in the tree of its channel (MerkleRecord.ts, MerkleLeaf.ts,
   SaltShaker.ts). JSON values are pairs of a kind and what they hold: the fields of an
   object in their order, each a pair of key and value. *)
EXTENDS MerkleTrees, FiniteSets, SequencesExt, Functions

CONSTANT SaltsPerBatch \* SaltShaker.ts takes four salts of a digest

-----------------------------------------------------------------------------
(* Fields, in the order of a depth-first walk. A part of a path is a key or an index. *)

Plain == [type |-> "none"]
Hashable == [type |-> "hashable"]
Maskable(visibleParts, hiddenParts) ==
    [type |-> "maskable", visible |-> visibleParts, hidden |-> hiddenParts]

UnsetChannel == -1
Field(path, value) ==
    [path |-> path, value |-> value, channel |-> UnsetChannel, transformation |-> Plain]

RECURSIVE BuildItemList(_, _)
BuildItemList(json, path) ==
    CASE json[1] = "array" /\ json[2] # <<>> ->
           FlattenSeq([i \in DOMAIN json[2] |->
             BuildItemList(json[2][i], Append(path, <<"index", i - 1>>))])
      [] json[1] = "object" /\ json[2] # <<>> ->
           FlattenSeq([i \in DOMAIN json[2] |->
             BuildItemList(json[2][i][2], Append(path, <<"key", json[2][i][1]>>))])
      [] OTHER -> <<Field(path, json)>>

\* The fields a pattern is for: one path, or all below one when it ends with a wildcard.
Matches(field, pattern) ==
    IF pattern.wildcard
    THEN Len(field.path) > Len(pattern.path) /\ IsPrefix(pattern.path, field.path)
    ELSE field.path = pattern.path

SetChannel(items, pattern, channel) ==
    [i \in DOMAIN items |-> IF Matches(items[i], pattern)
                            THEN [items[i] EXCEPT !.channel = channel] ELSE items[i]]

Matching(items, pattern) == {i \in DOMAIN items : Matches(items[i], pattern)}

\* Fields are transformed one after another, those before one that throws too;
\* transformations says what becomes of the fields that do not throw.
SetTransformation(items, pattern, transformations) ==
    LET throws == Matching(items, pattern) \ DOMAIN transformations
    IN [i \in DOMAIN items |->
          IF i \in DOMAIN transformations /\ \A k \in throws : i < k
          THEN [items[i] EXCEPT !.transformation = transformations[i]] ELSE items[i]]

SetAsHashable(items, pattern) ==
    LET strings == {i \in Matching(items, pattern) : items[i].value[1] = "string"}
    IN SetTransformation(items, pattern, [i \in strings |-> Hashable])

-----------------------------------------------------------------------------
(* Masks. A part of a mask is [start, end, replacement]; texts are sequences. *)

\* JavaScript's slice, for a text and positions counted from 0.
Slice(text, start, end) == SubSeq(text, start + 1, IF end < Len(text) THEN end ELSE Len(text))

PreviousEnd(parts, i) == IF i = 1 THEN 0 ELSE parts[i - 1].end

\* What is wrong with a mask whose parts are sorted.
MaskThrows(value, parts) ==
    \/ value[1] # "string"
    \/ \E i \in DOMAIN parts :
         \/ parts[i].start < 0
         \/ parts[i].start >= Len(value[2])
         \/ parts[i].end <= parts[i].start
         \/ parts[i].start < PreviousEnd(parts, i)

RECURSIVE MaskedUpTo(_, _, _)
\* Adjacent parts become one; what is between, before and after them is visible.
MaskedUpTo(text, parts, i) ==
    IF i = 0 THEN Maskable(<<>>, <<>>)
    ELSE LET before == MaskedUpTo(text, parts, i - 1)
             part == parts[i]
             hidden == Slice(text, part.start, part.end)
             masked ==
               IF i > 1 /\ part.start = PreviousEnd(parts, i)
               THEN Maskable([before.visible EXCEPT ![Len(before.visible)] = @ \o part.replacement],
                             [before.hidden EXCEPT ![Len(before.hidden)] = @ \o hidden])
               ELSE Maskable(before.visible \o <<Slice(text, PreviousEnd(parts, i), part.start),
                                                 part.replacement>>,
                             Append(before.hidden, hidden))
         IN IF i = Len(parts) /\ part.end < Len(text)
            THEN [masked EXCEPT !.visible = Append(@, Slice(text, part.end, Len(text)))]
            ELSE masked

SetMaskByPositions(items, pattern, parts) ==
    LET sorted == SortSeq(parts, LAMBDA a, b : a.start < b.start)
        masked == {i \in Matching(items, pattern) : ~MaskThrows(items[i].value, sorted)}
    IN SetTransformation(items, pattern,
         [i \in masked |-> MaskedUpTo(items[i].value[2], sorted, Len(sorted))])

\* The parts a regular expression captures, the lengths of which are given, and a
\* substitution: for every part, whether it is shown, else what replaces it.
RegexThrows(value, lengths, substitution) ==
    \/ value[1] # "string"
    \/ FoldLeft(+, 0, lengths) # Len(value[2])
    \/ Len(substitution) # Len(lengths)

RegexParts(lengths, substitution) ==
    LET EndOf(i) == FoldLeft(+, 0, SubSeq(lengths, 1, i))
        parts == [i \in DOMAIN lengths |-> [start |-> EndOf(i - 1), end |-> EndOf(i),
                                            replacement |-> substitution[i].text,
                                            shown |-> substitution[i].shown]]
    IN SelectSeq(parts, LAMBDA part : ~part.shown)

SetMaskByRegex(items, pattern, lengths, substitution) ==
    LET parts == RegexParts(lengths, substitution)
        masked == {i \in Matching(items, pattern) :
                     /\ ~RegexThrows(items[i].value, lengths, substitution)
                     /\ ~MaskThrows(items[i].value, parts)}
    IN SetTransformation(items, pattern,
         [i \in masked |-> MaskedUpTo(items[i].value[2], parts, Len(parts))])

-----------------------------------------------------------------------------
(* Channels, and what of them is on the chain. *)

ChannelsOf(items) == {items[i].channel : i \in DOMAIN items}
GetFlatItems(items, channel) == SelectSeq(items, LAMBDA field : field.channel = channel)

ToOnChainItems(items) ==
    [i \in DOMAIN items |->
       IF items[i].value[1] = "string"
       THEN [path |-> items[i].path, value |-> items[i].value, transformation |-> items[i].transformation]
       ELSE [path |-> items[i].path, value |-> items[i].value]]

FromOnChainItems(onChainItems, channel) ==
    [i \in DOMAIN onChainItems |->
       [path |-> onChainItems[i].path, value |-> onChainItems[i].value, channel |-> channel,
        transformation |-> IF "transformation" \in DOMAIN onChainItems[i]
                           THEN onChainItems[i].transformation ELSE Plain]]

-----------------------------------------------------------------------------
(* Leaves. Hashes and salts are the terms they are made from. *)

NullPepper == <<"nullPepper">>
Salt(pepper, counter) ==
    IF pepper = NullPepper THEN <<"zeros">>
    ELSE <<"salt", pepper, counter \div SaltsPerBatch, counter % SaltsPerBatch>>

SaltsOf(field) ==
    CASE field.transformation.type = "maskable" -> 2
      [] OTHER -> 1

Hash(data) == <<"sha256", data>>

\* Public fields take no salt, but in a public channel there are no others.
FlatItemToLeaf(field, isPublic, pepper, counter) ==
    LET salt == Salt(pepper, counter)
    IN CASE isPublic -> [type |-> "public", value |-> field.value]
         [] ~isPublic /\ field.transformation.type = "none" ->
              [type |-> "plain", salt |-> salt, value |-> field.value]
         [] ~isPublic /\ field.transformation.type = "hashable" ->
              [type |-> "hashableFromValue", salt |-> salt, value |-> field.value]
         [] ~isPublic /\ field.transformation.type = "maskable" ->
              [type    |-> "maskableFromAllParts",
               visible |-> [salt |-> salt, parts |-> field.transformation.visible],
               hidden  |-> [salt |-> Salt(pepper, counter + 1), parts |-> field.transformation.hidden]]

\* A public field may have no transformation.
CanMakeLeaves(items, isPublic) ==
    isPublic => \A i \in DOMAIN items : items[i].transformation = Plain

\* Mutant: the counter of salts counts fields.
LeavesOfOneSaltEach(items, isPublic, pepper) ==
    [i \in DOMAIN items |-> [leaf  |-> FlatItemToLeaf(items[i], isPublic, pepper, i - 1),
                             index |-> i, path |-> items[i].path]]

FlatItemsToPositionedLeaves(items, isPublic, pepper) ==
    LET before[i \in 0 .. Len(items)] == IF i = 0 THEN 0 ELSE before[i - 1] + SaltsOf(items[i])
    IN [i \in DOMAIN items |-> [leaf  |-> FlatItemToLeaf(items[i], isPublic, pepper, before[i - 1]),
                                index |-> i, path |-> items[i].path]]

\* What the hash of a leaf is made from, the same before and after it is hashed or masked.
GetCommitmentData(leaf) ==
    CASE leaf.type \in {"public", "plain", "hashable"} -> leaf
      [] leaf.type = "hashableFromValue" ->
           [type |-> "hashable", salt |-> leaf.salt, hash |-> Hash(leaf.value)]
      [] leaf.type = "maskableFromAllParts" ->
           [type |-> "maskable", visibleHash |-> Hash(leaf.visible), hiddenHash |-> Hash(leaf.hidden)]
      [] leaf.type = "maskableFromVisibleParts" ->
           [type |-> "maskable", visibleHash |-> Hash(leaf.visible), hiddenHash |-> leaf.hiddenHash]

GetHash(leaf) == Hash(GetCommitmentData(leaf))

CanBeHashed(leaf) == leaf.type \in {"hashable", "hashableFromValue"}
SetToHashed(leaf) ==
    [type |-> "hashable", salt |-> leaf.salt,
     hash |-> IF leaf.type = "hashable" THEN leaf.hash ELSE Hash(leaf.value)]

CanBeMasked(leaf) == leaf.type \in {"maskableFromAllParts", "maskableFromVisibleParts"}

\* Mutants: the hash of the hidden parts is made without their salt; the parts are kept.
MaskedWithoutSalt(leaf) ==
    [type |-> "maskableFromVisibleParts", visible |-> leaf.visible,
     hiddenHash |-> IF leaf.type = "maskableFromVisibleParts" THEN leaf.hiddenHash
                    ELSE Hash([leaf.hidden EXCEPT !.salt = Salt(NullPepper, 0)])]
MaskedKeepingParts(leaf) ==
    IF leaf.type = "maskableFromVisibleParts" THEN leaf
    ELSE [type |-> "maskableFromVisibleParts", visible |-> leaf.visible,
          hiddenHash |-> Hash(leaf.hidden), hidden |-> leaf.hidden]

SetToMasked(leaf) ==
    [type |-> "maskableFromVisibleParts", visible |-> leaf.visible,
     hiddenHash |-> IF leaf.type = "maskableFromVisibleParts" THEN leaf.hiddenHash ELSE Hash(leaf.hidden)]

\* Hidden parts go where every second visible part is.
GetRawValue(leaf) ==
    CASE leaf.type \in {"public", "plain", "hashableFromValue"} -> leaf.value
      [] leaf.type = "hashable" -> <<"hexa", leaf.hash>>
      [] leaf.type = "maskableFromAllParts" ->
           <<"string", FlattenSeq([i \in DOMAIN leaf.visible.parts |->
              IF i % 2 = 0 THEN leaf.hidden.parts[i \div 2] ELSE leaf.visible.parts[i]])>>
      [] leaf.type = "maskableFromVisibleParts" -> <<"string", FlattenSeq(leaf.visible.parts)>>

Disclosure(leaf) ==
    CASE leaf.type = "hashable" -> "hashed"
      [] leaf.type = "maskableFromVisibleParts" -> "masked"
      [] OTHER -> "plain"

\* The root that goes on the chain: none for a public channel.
ChannelRootHash(leaves, isPublic) ==
    IF isPublic THEN NullNode
    ELSE RootOf(ComputeRootHash(BuildTreeStructure([i \in DOMAIN leaves |-> GetHash(leaves[i].leaf)])))

-----------------------------------------------------------------------------
(* The JSON of the fields that a proof shows, as a tree of functions. *)

RECURSIVE Rebuilt(_), AsTree(_)
Rebuilt(fields) ==
    IF \E field \in fields : field.path = <<>>
    THEN (CHOOSE field \in fields : field.path = <<>>).value
    ELSE LET heads == {field.path[1] : field \in fields}
         IN <<"node", [head \in heads |->
              Rebuilt({[path |-> Tail(field.path), value |-> field.value] :
                         field \in {f \in fields : f.path[1] = head}})]>>

AsTree(json) ==
    IF json[1] \in {"array", "object"} /\ json[2] # <<>>
    THEN <<"node",
           IF json[1] = "array"
           THEN [head \in {<<"index", i - 1>> : i \in DOMAIN json[2]} |-> AsTree(json[2][head[2] + 1])]
           ELSE [head \in {<<"key", json[2][i][1]>> : i \in DOMAIN json[2]} |->
                   AsTree((CHOOSE member \in ToSet(json[2]) : member[1] = head[2])[2])]>>
    ELSE json
=============================================================================
