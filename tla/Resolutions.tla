------------------------------ MODULE Resolutions ------------------------------
(* Links to microblocks and their sections (LinkResolver.ts, LinkedObjectResolver.ts), and
   the resolution of a document whose tags stand for what is linked, for data known by its
   digest or for what is attested (Resolver.ts, TagProcessor.ts and the handlers of tags).
   JSON values are as in Records; what they are resolved to has functions for objects. A
   part of a link is a pair of its kind and the word or number it spells. *)
EXTENDS Integers, Sequences, SequencesExt, FiniteSets, Functions, TLC

-----------------------------------------------------------------------------
(* The path of a link. *)

Word(word) == <<"word", word>>
Unknown == <<"unknown">>

\* The type of virtual blockchain that each root tag stands for.
VbTypes == [vb   |-> Unknown, acc |-> "account", al  |-> "appLedger", app |-> "application",
            node |-> "node",  org |-> "organization", prot |-> "protocol"]
VbTags == {Word(tag) : tag \in DOMAIN VbTypes}
MbTag == Word("mb")
SectionTag == Word("sect")
HeightTag == Word("h")
NameTag == Word("n")
Empty == Word("")

\* What Number makes of a part: an empty one is 0, a word is no number.
NotANumber == -1
Number(part) == CASE part[1] = "number" -> part[2]
                  [] part = Empty -> 0
                  [] OTHER -> NotANumber

Throws == <<"throws">>

VbRef(path) == [id |-> path[2], type |-> VbTypes[path[1][2]]]

\* Where the reference to a microblock ends: mb/<hash>, <vb>/mb/<hash> or <vb>/mb/h/<height>.
MbEnd(path) == IF path[1] \notin VbTags THEN 2
               ELSE IF path[4] = HeightTag THEN 5 ELSE 4

MbRef(path) ==
    CASE MbEnd(path) = 2 -> [hash |-> path[2]]
      [] MbEnd(path) = 4 -> [vb |-> VbRef(path), hash |-> path[4]]
      [] MbEnd(path) = 5 -> [vb |-> VbRef(path), height |-> Number(path[5])]

MbThrows(path) ==
    \/ Len(path) < 2
    \/ path[1] \notin VbTags \cup {MbTag}
    \/ /\ path[1] \in VbTags
       /\ Len(path) > 2
       /\ \/ path[3] # MbTag
          \/ Len(path) < 4
          \/ Len(path) < MbEnd(path)
          \/ MbEnd(path) = 5 /\ Number(path[5]) < 1

\* What follows the reference to a microblock: sect/<index> or sect/n/<name>.
SectionThrows(rest) ==
    \/ rest[1] # SectionTag
    \/ Len(rest) < 2
    \/ rest[2] = NameTag /\ Len(rest) # 3
    \/ rest[2] # NameTag /\ (Number(rest[2]) < 0 \/ Len(rest) # 2)

SectRef(mb, rest) == IF rest[2] = NameTag THEN [mb |-> mb, name |-> rest[3]]
                     ELSE [mb |-> mb, index |-> Number(rest[2])]

ResolveLink(path) ==
    IF MbThrows(path) THEN Throws
    ELSE IF path[1] \in VbTags /\ Len(path) = 2 THEN <<"vb", VbRef(path)>>
    ELSE LET rest == SubSeq(path, MbEnd(path) + 1, Len(path))
         IN IF rest = <<>> THEN <<"mb", MbRef(path)>>
            ELSE IF SectionThrows(rest) THEN Throws
            ELSE <<"section", SectRef(MbRef(path), rest)>>
-----------------------------------------------------------------------------
(* What links lead to. chains[vb] are the microblocks of a virtual blockchain, each with its
   hash, the key of the account that pays its fees, its sections and its record. *)

Places(chains) == UNION {{vb} \X DOMAIN chains[vb] : vb \in DOMAIN chains}
At(chains, place) == chains[place[1]][place[2]]
Nowhere == <<>>

\* By its hash, whatever chain the reference names beside it, else by chain and height.
GetMicroblockLocation(chains, mb) ==
    IF "hash" \in DOMAIN mb
    THEN LET found == {place \in Places(chains) : Word(At(chains, place).hash) = mb.hash}
         IN IF found = {} THEN Nowhere ELSE CHOOSE place \in found : TRUE
    ELSE LET found == {place \in Places(chains) : Word(place[1]) = mb.vb.id /\ place[2] = mb.height}
         IN IF found = {} THEN Nowhere ELSE CHOOSE place \in found : TRUE

Named(section, name) == section.type = "custom" /\ \E i \in DOMAIN section.fields :
                                                     Word(section.fields[i][1]) = name

\* Mutant: the index of a named section counts the sections that have names.
FindAmongCustom(sections, sect) ==
    IF "index" \in DOMAIN sect THEN sect.index + 1
    ELSE 1 + SelectInSeq(SelectSeq(sections, LAMBDA section : section.type = "custom"),
                         LAMBDA section : Named(section, sect.name))

\* The position of a section, 0 if none has the name.
FindSection(sections, sect) ==
    IF "index" \in DOMAIN sect THEN sect.index + 1
    ELSE SelectInSeq(sections, LAMBDA section : Named(section, sect.name))

GetSection(chains, sect) ==
    LET place == GetMicroblockLocation(chains, sect.mb)
    IN IF place = Nowhere THEN Throws
       ELSE LET sections == At(chains, place).sections
                i == FindSection(sections, sect)
            IN IF i \notin DOMAIN sections THEN Throws
               ELSE <<"found", place, i, sections[i]>>

\* LinkedObjectResolver looks for a name among the custom sections only.
GetSectionContent(chains, sect) ==
    LET place == GetMicroblockLocation(chains, sect.mb)
    IN IF place = Nowhere THEN Throws
       ELSE LET all == At(chains, place).sections
                sections == IF "index" \in DOMAIN sect THEN all
                            ELSE SelectSeq(all, LAMBDA section : section.type = "custom")
                i == IF "index" \in DOMAIN sect THEN sect.index + 1
                     ELSE SelectInSeq(sections, LAMBDA section : Named(section, sect.name))
            IN IF i \notin DOMAIN sections THEN Throws ELSE sections[i]

-----------------------------------------------------------------------------
(* The state of a resolution. *)

NoNode == [type |-> "none"]
Undefined == <<"undefined">>
NoEntries == <<>>

NewResolution(chains, data, given) ==
    [chains     |-> chains,      \* what the provider and the hydrator have
     data       |-> data,        \* the data of each digest
     digests    |-> given,       \* the data that was found for digests
     links      |-> NoEntries,   \* what links were resolved to
     nodes      |-> NoEntries,   \* the nodes that are mapped to paths
     additional |-> FALSE,       \* whether a new pass is required
     thrown     |-> FALSE,       \* whether the resolution failed
     seen       |-> {},          \* what was met in this pass, and where it came from
     left       |-> {}]          \* digests that were left as they are in this pass

PathTo(path, key) == Append(path, <<"key", key>>)
PathAt(path, index) == Append(path, <<"index", index>>)

IsLinked(node) == node.type \in {"microblock", "section"}

\* The closest linked object around a path: the last one at the longest of its prefixes.
GetEnclosingNode(nodes, path) ==
    LET around == {p \in DOMAIN nodes : IsPrefix(p, path)
                                       /\ \E i \in DOMAIN nodes[p] : IsLinked(nodes[p][i])}
    IN IF around = {} THEN NoNode
       ELSE LET closest == CHOOSE p \in around : \A other \in around : Len(other) <= Len(p)
            IN Last(SelectSeq(nodes[closest], IsLinked))

\* The nodes on the way to a path, and how far from it they are.
MappedNodes(nodes, path) ==
    FlattenSeq([k \in 1 .. Len(path) |->
      LET prefix == SubSeq(path, 1, Len(path) - k + 1)
      IN IF prefix \notin DOMAIN nodes THEN <<>>
         ELSE [i \in DOMAIN nodes[prefix] |->
                 [depth |-> k - 1, path |-> prefix, node |-> nodes[prefix][i]]]])

\* A node is mapped to the path of every field of the output it stands for.
MapNode(nodes, node, output, path) ==
    IF node = NoNode \/ output[1] # "object" THEN nodes
    ELSE LET paths == {PathTo(path, field[1]) : field \in ToSet(output[2])}
         IN [p \in DOMAIN nodes \cup paths |->
               (IF p \in DOMAIN nodes THEN nodes[p] ELSE <<>>) \o (IF p \in paths THEN <<node>> ELSE <<>>)]

-----------------------------------------------------------------------------
(* Handlers of tags. What each gives: output, node, whether the output is resolved in turn
   and whether a new pass is required. *)

TagNames == {"__link__", "__digest__", "__digest_data__", "__certificate__", "__signature__",
             "__vc__", "__vp__", "__representation__"}

Outcome(output, node, resolve, s) ==
    [output |-> output, node |-> node, resolve |-> resolve, again |-> FALSE, state |-> s]
\* What a handler throws is caught, and stands for nothing.
Failed(s) == Outcome(Undefined, NoNode, FALSE, s)

LinkedMicroblock(chains, place) ==
    IF place = Nowhere THEN Throws
    ELSE <<"found", At(chains, place).record,
           [type |-> "microblock", at |-> place, publicKey |-> At(chains, place).payer]>>

LinkedSection(chains, section) ==
    IF section = Throws THEN Throws
    ELSE <<"found", <<"object", section[4].fields>>,
           [type |-> "section", at |-> section[2], index |-> section[3],
            publicKey |-> At(chains, section[2]).payer]>>

FollowLink(resolved, chains) ==
    CASE resolved[1] = "mb"      -> LinkedMicroblock(chains, GetMicroblockLocation(chains, resolved[2]))
      [] resolved[1] = "section" -> LinkedSection(chains, GetSection(chains, resolved[2]))
      [] OTHER                   -> Throws

LinkOutcome(link, followed, s) ==
    IF followed = Throws THEN Failed(s)
    ELSE Outcome(followed[2], followed[3], TRUE, [s EXCEPT !.links = (link :> followed) @@ @])

HandleLink(link, s) ==
    LinkOutcome(link, IF link \in DOMAIN s.links THEN s.links[link]
                      ELSE FollowLink(ResolveLink(link), s.chains), s)

Unsalted(data) == <<"object", SelectSeq(data[2], LAMBDA field : field[1] # "__salt__")>>

\* Data found under a digest that is not its own throws when it is asked for.
ProcessDigestTag(digest, s) ==
    IF digest \in DOMAIN s.digests /\ s.digests[digest] = s.data[digest]
    THEN Outcome(Unsalted(s.data[digest]), [type |-> "digestData", digest |-> digest], TRUE, s)
    ELSE Failed([s EXCEPT !.left = @ \cup {digest}])

NewEntries(entries, s) ==
    {entry \in ToSet(entries) : entry[1] \in DOMAIN s.data \ DOMAIN s.digests}

\* Mutant: data is kept for what comes after it.
KeepDigestData(entries, s) ==
    LET new == NewEntries(entries, s)
    IN Failed([s EXCEPT !.digests =
         @ @@ [digest \in {entry[1] : entry \in new} |-> (CHOOSE e \in new : e[1] = digest)[2]]])

\* The first data that is found under a digest is kept, its own or not.
ProcessDigestDataTag(entries, s) ==
    LET new == NewEntries(entries, s)
    IN [Failed([s EXCEPT !.digests =
          @ @@ [digest \in {entry[1] : entry \in new} |-> (CHOOSE e \in new : e[1] = digest)[2]]])
        EXCEPT !.again = new # {}]

Certified(output, valid, s) == Outcome(output, [type |-> "certificate", valid |-> valid], FALSE, s)

IsSubjectSigner(subject, enclosing) == enclosing # NoNode /\ enclosing.publicKey = subject

ProcessAttestation(attestation, path, s) ==
    LET bound == IsSubjectSigner(attestation.subject, GetEnclosingNode(s.nodes, path))
    IN Certified(<<"object", <<<<"keyAttestation", <<"attested", attestation.subject, bound>>>>>>>>,
                 attestation.signed /\ bound, s)

ProcessSignature(signature, s) ==
    Outcome(IF signature.verified THEN signature.payload ELSE <<"object", <<>>>>,
            [type |-> "signature", valid |-> signature.verified], FALSE, s)

Handle(tag, value, path, s) ==
    CASE tag = "__link__" /\ value[1] = "link" -> HandleLink(value[2], s)
      [] tag = "__digest__" /\ value[1] = "digest" -> ProcessDigestTag(value[2], s)
      [] tag = "__digest_data__" /\ value[1] = "digests" -> ProcessDigestDataTag(value[2], s)
      [] tag = "__certificate__" /\ value[1] = "x509" ->
           Certified(<<"object", <<<<"x509", value>>>>>>, TRUE, s)
      [] tag = "__certificate__" /\ value[1] = "attestation" -> ProcessAttestation(value[2], path, s)
      [] tag = "__signature__" /\ value[1] = "signature" -> ProcessSignature(value[2], s)
      [] tag \in {"__vc__", "__vp__"} /\ value[1] = "claims" ->
           Outcome(value[2], [type |-> IF tag = "__vc__" THEN "vc" ELSE "vp", valid |-> TRUE], FALSE, s)
      [] OTHER -> Failed(s)

MapOutcome(outcome, path) ==
    [outcome EXCEPT !.state.nodes = MapNode(@, outcome.node, outcome.output, path)]

Process(tag, value, path, s) == MapOutcome(Handle(tag, value, PathTo(path, tag), s), path)

-----------------------------------------------------------------------------
(* Resolution, depth first. What an object is resolved to is a function of its keys; from
   are the nodes of the objects that were inlined on the way, the last one the closest. *)

RECURSIVE AsIs(_), ResolveNode(_, _, _, _)
AsIs(json) ==
    CASE json[1] = "array" -> <<"array", [i \in DOMAIN json[2] |-> AsIs(json[2][i])]>>
      [] json[1] = "object" ->
           <<"object", [key \in {field[1] : field \in ToSet(json[2])} |->
              AsIs((CHOOSE field \in ToSet(json[2]) : field[1] = key)[2])]>>
      [] OTHER -> json

IsTag(field) == field[1] \in TagNames
IsField(field) == ~IsTag(field)

Met(s, path, from) ==
    [s EXCEPT !.seen = @ \cup {[path |-> path, from |-> from,
                                enclosing |-> GetEnclosingNode(s.nodes, path)]}]

ResolveOutcome(outcome, path, from) ==
    LET state == [outcome.state EXCEPT !.additional = @ \/ outcome.again]
    IN IF outcome.resolve /\ outcome.output # Undefined
       THEN ResolveNode(outcome.output, path, Append(from, outcome.node), state)
       ELSE [value |-> AsIs(outcome.output), state |-> state]

ResolveTag(tag, value, path, from, s) ==
    ResolveOutcome(Process(tag, value, path,
                           IF tag = "__certificate__" THEN Met(s, PathTo(path, tag), from) ELSE s),
                   path, from)

WithItem(done, item) == [value |-> <<"array", Append(done.value[2], item.value)>>, state |-> item.state]
WithField(done, key, item) ==
    [value |-> <<"object", (key :> item.value) @@ done.value[2]>>, state |-> item.state]

ResolveArray(items, path, from, s) ==
    FoldLeftDomain(LAMBDA done, i :
        WithItem(done, ResolveNode(items[i], PathAt(path, i - 1), from, done.state)),
      [value |-> <<"array", <<>>>>, state |-> s], items)

ResolveObject(fields, path, from, s) ==
    FoldLeft(LAMBDA done, field :
        WithField(done, field[1], ResolveNode(field[2], PathTo(path, field[1]), from, done.state)),
      [value |-> <<"object", NoEntries>>, state |-> s], fields)

Inlined(done, inlined) ==
    CASE inlined.value = Undefined -> [done EXCEPT !.state = inlined.state]
      [] inlined.value[1] = "object" ->
           [value |-> <<"object", inlined.value[2] @@ done.value[2]>>, state |-> inlined.state]
      [] OTHER -> [done EXCEPT !.state = [inlined.state EXCEPT !.thrown = TRUE]]

\* What its tags stand for is inlined into an object, over its own fields.
InlineTags(tags, path, from, object) ==
    FoldLeft(LAMBDA done, tag :
        IF done.state.thrown THEN done
        ELSE Inlined(done, ResolveTag(tag[1], tag[2], path, from, done.state)),
      object, tags)

ResolveNode(node, path, from, s) ==
    CASE s.thrown -> [value |-> Undefined, state |-> s]
      [] ~s.thrown /\ node[1] = "array" -> ResolveArray(node[2], path, from, s)
      [] ~s.thrown /\ node[1] = "object" ->
           InlineTags(SelectSeq(node[2], IsTag), path, from,
                      ResolveObject(SelectSeq(node[2], IsField), path, from, s))
      [] OTHER -> [value |-> node, state |-> Met(s, path, from)]

Cleared(s) == [s EXCEPT !.additional = FALSE, !.nodes = NoEntries, !.seen = {}, !.left = {}]

RECURSIVE Resolve(_, _, _)
AfterPass(root, done, pass) ==
    IF done.state.thrown \/ ~done.state.additional \/ pass > Cardinality(DOMAIN done.state.data) + 1
    THEN [value |-> done.value, state |-> done.state, passes |-> pass]
    ELSE Resolve(root, done.state, pass + 1)

\* Passes until none requires another; the model gives up after some.
Resolve(root, s, pass) == AfterPass(root, ResolveNode(root, <<>>, <<>>, Cleared(s)), pass)
=============================================================================
