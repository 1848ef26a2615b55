----------------------------- MODULE LedgerBuilder -----------------------------
(* Microblocks of one application ledger built from requests, by several builders.
   A builder works on an object of its own: loaded from the node or empty.  Every
   section it makes is added to the microblock under construction and then run on
   the object's internal state.  A built microblock is published; the node accepts
   it when it extends the chain and none of its sections is rejected.
   Keys are values: the key of a channel is named by the identity whose seed derives
   it, and an invitation holds a key that one identity can decrypt.
   A request works on private data and on heights that do not change any more, so
   it is one action, its sections in the code's order and its throw where they stop. *)
EXTENDS ApplicationLedger, FiniteSets, SequencesExt

CONSTANTS Builders,        \* builder objects in use together
          Identities,      \* key sets of users: signature, encryption, seed
          PublicChannels,  \* names of channels that requests declare as public
          Requests,        \* build requests: a set of records, see Todo
          Scheme,          \* the scheme of all keys
          MaxBlocks,       \* bound: microblocks of the chain
          MaxCalls         \* bound: calls on a builder

ASSUME SchemeAssumption == Scheme \in Schemes
\* Data has a field, be it an empty object, and every field is in a channel or in none (-1).
ASSUME RequestsAssumption ==
    \A r \in Requests : /\ r.actors \in Seq(Names) /\ r.channels \in Seq(Names)
                        /\ r.assign \in Seq(Names \X Names) /\ r.endorser \in Seq(Names)
                        /\ r.author \in Names /\ r.data \in (SUBSET Names) \ {{}}

VARIABLES chain,     \* the microblocks the node has accepted: sections, and whether no call threw
          node,      \* the node's internal state of the ledger
          builder    \* per builder: its object and its microblock, or NoBuilder

vars == <<chain, node, builder>>

ChannelKey == [seed : Identities, channel : Nat \ {0}]

NoBuilder == [height |-> -1]
\* height and ledger are the object's; updater: the state updater was made; returned: some
\* request returned the microblock; spoilt: some call threw.
\* Within a call: it threw, and the protocol state is out of reach (offline).
NewBuilder(height, ledger) ==
    [height |-> height, ledger |-> ledger, sections |-> <<>>,
     calls |-> 0, updater |-> FALSE, returned |-> FALSE, spoilt |-> FALSE,
     threw |-> FALSE, offline |-> FALSE]

Init == /\ chain = <<>>
        /\ node = InitialState
        /\ builder = [b \in Builders |-> NoBuilder]

-----------------------------------------------------------------------------
(* What a builder does to its microblock and its state.  st is the builder. *)

Fail(st) == [st EXCEPT !.threw = TRUE, !.spoilt = TRUE]

\* Mutant: a section that is rejected is not noticed.
AddUnnoticed(st, sec) ==
    LET added == [st EXCEPT !.sections = Append(st.sections, sec)]
    IN IF st.offline THEN Fail(added)
       ELSE [added EXCEPT !.ledger = Effect(st.ledger, sec, st.height + 1), !.updater = TRUE]

\* addSection, then updateStateWithSection, which throws when it cannot make the updater
\* or the section is rejected: the section stays in the microblock.
Add(st, sec) ==
    LET added == [st EXCEPT !.sections = Append(st.sections, sec)]
        updated == [added EXCEPT !.ledger = Effect(st.ledger, sec, st.height + 1), !.updater = TRUE]
    IN IF st.offline THEN Fail(added)
       ELSE IF Rejected(st.ledger, sec) THEN Fail(updated)
       ELSE updated

\* getMicroblock with the builder as its fallback for the height under construction.
SectionsAt(st, height) == CASE height \in 1 .. st.height -> chain[height].sections
                            [] height = st.height + 1 -> st.sections

ActorId(st, name) == CHOOSE a \in DOMAIN st.ledger.actors : st.ledger.actors[a].name = name
ChannelId(st, name) == CHOOSE c \in DOMAIN st.ledger.channels : st.ledger.channels[c].name = name

\* The sections of the microblock that the key height leads to, by their place in it.
Subscriptions(st, actor) ==
    LET sections == SectionsAt(st, st.ledger.actors[actor].keyHeight)
    IN {i \in DOMAIN sections : sections[i].type = "subscription" /\ sections[i].actor = actor}

IdentityAt(st, actor, i) == SectionsAt(st, st.ledger.actors[actor].keyHeight)[i].identity

\* getPublicEncryptionKeyByActorId, for a subscribed actor: whose key it is.
KeyOf(st, actor) == IdentityAt(st, actor, Min(Subscriptions(st, actor)))

ActorsOf(st, identity) ==
    {a \in DOMAIN st.ledger.actors :
       Subscribed(st.ledger, a) /\ \E i \in Subscriptions(st, a) : IdentityAt(st, a, i) = identity}

\* getActorIdByPublicSignatureKey: the first actor with the key.
ActingActor(st, identity) == Min(ActorsOf(st, identity))

InvitationsOf(st, actor, channel) ==
    {inv \in st.ledger.invitations : inv.actor = actor /\ inv.channel = channel}

\* Mutant: the creator of a channel may be invited to it.
IsInvited(st, channel, actor) == InvitationsOf(st, actor, channel) # {}

IsActorInChannel(st, channel, actor) ==
    \/ st.ledger.channels[channel].creator = actor
    \/ InvitationsOf(st, actor, channel) # {}

\* getChannelKeyFromInvitation: the last section that the first invitation leads to.
InvitedKey(st, actor, channel) ==
    LET sections == SectionsAt(st, Min({inv.height : inv \in InvitationsOf(st, actor, channel)}))
    IN sections[Max({i \in DOMAIN sections : /\ sections[i].type = "invitation"
                                             /\ sections[i].guest = actor
                                             /\ sections[i].channel = channel})].encrypted

\* getChannelKey with the keys of an identity: the key, or none when it throws.
KeysFor(st, actor, channel, identity) ==
    IF st.ledger.channels[channel].creator = actor
    THEN {[seed |-> identity, channel |-> channel]}
    ELSE {e.key : e \in {InvitedKey(st, actor, channel) : inv \in InvitationsOf(st, actor, channel)}
                        \cap [for : {identity}, key : ChannelKey]}

-----------------------------------------------------------------------------
(* The parts of a request, in terms of the names it gives. *)

CreateActor(st, name) ==
    IF ActorNamed(st.ledger, name) THEN st
    ELSE Add(st, [type |-> "actor", id |-> Len(st.ledger.actors) + 1, name |-> name])

Subscribe(st, name, identity) ==
    Add(st, [type |-> "subscription", actor |-> ActorId(st, name),
             sig |-> Scheme, pke |-> Scheme, identity |-> identity])

\* The author must be known, and is subscribed with the host's keys in a genesis
\* microblock.
CheckAuthor(st, author, host) == IF ~ActorNamed(st.ledger, author) THEN Fail(st)
                                 ELSE IF st.height = 0 THEN Subscribe(st, author, host)
                                 ELSE st

CreateChannel(st, name, author) ==
    Add(st, [type |-> "channel", id |-> Len(st.ledger.channels) + 1, name |-> name,
             creator |-> ActorId(st, author)])

\* Mutant: the key is encrypted for the host.
InviteForHost(st, guest, channel, hostActor, host) ==
    LET keys == KeysFor(st, hostActor, channel, host)
    IN IF keys = {} \/ ~Subscribed(st.ledger, guest) THEN Fail(st)
       ELSE Add(st, [type |-> "invitation", guest |-> guest, channel |-> channel, host |-> hostActor,
                     encrypted |-> [for |-> host, key |-> CHOOSE k \in keys : TRUE]])

\* The host recovers the channel's key and encrypts it for the guest.
Invite(st, guest, channel, hostActor, host) ==
    LET keys == KeysFor(st, hostActor, channel, host)
    IN IF keys = {} \/ ~Subscribed(st.ledger, guest) THEN Fail(st)
       ELSE Add(st, [type |-> "invitation", guest |-> guest, channel |-> channel, host |-> hostActor,
                     encrypted |-> [for |-> KeyOf(st, guest), key |-> CHOOSE k \in keys : TRUE]])

\* inviteActorOnChannel: a host that assigns itself is taken to be in the channel.
AssignActor(st, actorName, channelName, host) ==
    IF \/ ~ActorNamed(st.ledger, actorName)
       \/ ActorsOf(st, host) = {}
       \/ ~ChannelNamed(st.ledger, channelName)
    THEN Fail(st)
    ELSE LET guest == ActorId(st, actorName)
             channel == ChannelId(st, channelName)
             hostActor == ActingActor(st, host)
         IN IF IsActorInChannel(st, channel, guest) \/ hostActor = guest
            THEN st
            ELSE Invite(st, guest, channel, hostActor, host)

\* The data of one channel: in the clear, or under the key of the author.
PostData(st, channel, author, host) ==
    IF st.ledger.channels[channel].name \in PublicChannels
    THEN Add(st, [type |-> "data", channel |-> channel, keys |-> {}])
    ELSE LET keys == KeysFor(st, ActorId(st, author), channel, host)
         IN IF keys = {} THEN Fail(st)
            ELSE Add(st, [type |-> "data", channel |-> channel, keys |-> keys])

\* Channels in the order of their identifiers; one that is not defined is -1, the first.
PostAll(st, names, author, host) ==
    LET posted[c \in 0 .. Len(st.ledger.channels)] ==
          IF c = 0 THEN st
          ELSE IF posted[c - 1].threw \/ st.ledger.channels[c].name \notin names THEN posted[c - 1]
          ELSE PostData(posted[c - 1], c, author, host)
    IN IF \E n \in names : ~ChannelNamed(st.ledger, n) THEN Fail(st)
       ELSE posted[Len(st.ledger.channels)]

\* The endorsement leaves no trace in the state.
AskEndorsement(st, endorser) ==
    IF ~ActorNamed(st.ledger, endorser) THEN Fail(st)
    ELSE Add(st, [type |-> "endorsement", actor |-> ActorId(st, endorser)])

-----------------------------------------------------------------------------
(* createMicroblockFromStateUpdateRequest: what there is to do, in order. *)

Todo(r) == [i \in DOMAIN r.actors |-> [do |-> "actor", name |-> r.actors[i]]]
           \o <<[do |-> "author"]>>
           \o [i \in DOMAIN r.channels |-> [do |-> "channel", name |-> r.channels[i]]]
           \o [i \in DOMAIN r.assign |-> [do |-> "assign", actor |-> r.assign[i][1], channel |-> r.assign[i][2]]]
           \o <<[do |-> "data"]>>
           \o [i \in DOMAIN r.endorser |-> [do |-> "endorse", name |-> r.endorser[i]]]

Do(st, task, r, host) ==
    CASE st.threw -> st
      [] ~st.threw /\ task.do = "actor" -> CreateActor(st, task.name)
      [] ~st.threw /\ task.do = "author" -> CheckAuthor(st, r.author, host)
      [] ~st.threw /\ task.do = "channel" -> CreateChannel(st, task.name, r.author)
      [] ~st.threw /\ task.do = "assign" -> AssignActor(st, task.actor, task.channel, host)
      [] ~st.threw /\ task.do = "data" -> PostAll(st, r.data, r.author, host)
      [] ~st.threw /\ task.do = "endorse" -> AskEndorsement(st, task.name)

Built(st, r, host) ==
    LET done[i \in 0 .. Len(Todo(r))] ==
          IF i = 0 THEN st ELSE Do(done[i - 1], Todo(r)[i], r, host)
    IN done[Len(Todo(r))]

\* Assumed of callers: after the genesis, the author of a request is an actor with the
\* host's keys (the code does not compare them), not one that the request creates, which
\* has none.
SpeaksForItself(st, r, host) ==
    st.height > 0 => IF ActorNamed(st.ledger, r.author)
                     THEN ActorId(st, r.author) \in ActorsOf(st, host)
                     ELSE r.author \notin ToSet(r.actors)

-----------------------------------------------------------------------------

\* The protocol state is only asked for by the first section of a builder.
Ready(b, offline) == /\ builder[b] # NoBuilder
                     /\ builder[b].calls < MaxCalls
                     /\ offline => ~builder[b].updater

Called(b, offline) ==
    [builder[b] EXCEPT !.calls = builder[b].calls + 1, !.offline = offline]

AfterCall(st) == [st EXCEPT !.threw = FALSE, !.offline = FALSE]

\* createFromEmptyVirtualBlockchain
CreateFromEmpty(b) ==
    /\ builder[b] = NoBuilder
    /\ builder' = [builder EXCEPT ![b] = Add(NewBuilder(0, InitialState), [type |-> "creation"])]
    /\ UNCHANGED <<chain, node>>

\* createFromVirtualBlockchain on an object loaded from the provider.
CreateFromVirtualBlockchain(b) ==
    /\ builder[b] = NoBuilder
    /\ Len(chain) \in 1 .. MaxBlocks - 1
    /\ builder' = [builder EXCEPT ![b] = NewBuilder(Len(chain), node)]
    /\ UNCHANGED <<chain, node>>

\* subscribeActor, with public keys of any identity.
SubscribeActor(b, name, identity, offline) ==
    /\ Ready(b, offline)
    /\ LET created == CreateActor(Called(b, offline), name)
           st == IF created.threw THEN created ELSE Subscribe(created, name, identity)
       IN builder' = [builder EXCEPT ![b] = AfterCall(st)]
    /\ UNCHANGED <<chain, node>>

\* createMicroblockFromStateUpdateRequest returns the microblock or throws.
Request(b, r, host, offline) ==
    /\ Ready(b, offline)
    /\ SpeaksForItself(builder[b], r, host)
    /\ LET st == Built(Called(b, offline), r, host)
           returned == builder[b].returned \/ ~st.threw
       IN builder' = [builder EXCEPT ![b] = AfterCall([st EXCEPT !.returned = returned])]
    /\ UNCHANGED <<chain, node>>

\* The node runs the sections on its state.
Accepts(ledger, sections, height) ==
    \A i \in DOMAIN sections : ~Rejected(StatesOf(ledger, sections, height)[i - 1], sections[i])

\* Publish a microblock that was returned, whether or not a later call threw ...
Publish(b) ==
    /\ builder[b] # NoBuilder
    /\ builder[b].returned
    /\ builder[b].height = Len(chain)
    /\ Accepts(node, builder[b].sections, Len(chain) + 1)
    /\ chain' = Append(chain, [sections |-> builder[b].sections, clean |-> ~builder[b].spoilt])
    /\ node' = Run(node, builder[b].sections, Len(chain) + 1)
    /\ builder' = [builder EXCEPT ![b] = NoBuilder]

\* ... or drop the builder, its microblock refused or never published.
Drop(b) ==
    /\ builder[b] # NoBuilder
    /\ builder' = [builder EXCEPT ![b] = NoBuilder]
    /\ UNCHANGED <<chain, node>>

Next == \E b \in Builders :
          \/ CreateFromEmpty(b)
          \/ CreateFromVirtualBlockchain(b)
          \/ \E offline \in BOOLEAN, identity \in Identities :
                \/ \E name \in Names : SubscribeActor(b, name, identity, offline)
                \/ \E r \in Requests : Request(b, r, identity, offline)
          \/ Publish(b)
          \/ Drop(b)

Spec == Init /\ [][Next]_vars

-----------------------------------------------------------------------------
(* Properties *)

\* A microblock that was returned by a builder none of whose calls threw is accepted by
\* a node whose chain it extends, and gives the node the state the builder has: the
\* builder makes no section that another object would reject.
BuiltIsAccepted ==
    \A b \in Builders :
       builder[b] # NoBuilder =>
         LET st == builder[b] IN
           st.returned /\ ~st.spoilt /\ st.height = Len(chain) =>
             /\ Accepts(node, st.sections, Len(chain) + 1)
             /\ Run(node, st.sections, Len(chain) + 1) = st.ledger

\* The ledger as one who loads it now sees it.
Loaded == NewBuilder(Len(chain), node)

Published == UNION {{h} \X DOMAIN chain[h].sections : h \in DOMAIN chain}
SectionOf(p) == chain[p[1]].sections[p[2]]
InvitationsTo(channel) ==
    {p \in Published : SectionOf(p).type = "invitation" /\ SectionOf(p).channel = channel}

\* "to invite an actor on channel, we first need to known if the actor is already in the
\* channel. If yes, then we have nothing to do": whichever builders the microblocks are
\* from, nobody is invited a second time by a microblock none of whose calls threw, nor is
\* the creator of the channel.
InvitationsUnique ==
    \A c \in DOMAIN node.channels :
       /\ \A p \in InvitationsTo(c) : SectionOf(p).guest # node.channels[c].creator
       /\ \A p, q \in InvitationsTo(c) :
            chain[p[1]].clean /\ SectionOf(p).guest = SectionOf(q).guest =>
              p = q \/ p[1] < q[1]

PrivateData == {sec \in {SectionOf(p) : p \in Published} : sec.type = "data" /\ sec.keys # {}}

\* From all that was ever published, who has the keys of an identity derives or decrypts
\* the key of private data.
HoldsKey(identity, d) == \/ \E k \in d.keys : k.seed = identity
                         \/ \E p \in InvitationsTo(d.channel) :
                              /\ SectionOf(p).encrypted.for = identity
                              /\ SectionOf(p).encrypted.key \in d.keys

\* Whoever is in a private channel finds, with the own keys, the key of all that was
\* posted there, by any author and before or after the invitation; and who holds such a
\* key has the keys of an actor in the channel (ApplicationLedgerVb.ts:139-260,
\* WalletRequestBasedApplicationLedgerMicroblockBuilder.ts:141-330).
MembersHoldKeys ==
    \A d \in PrivateData :
      /\ \A a \in DOMAIN node.actors :
           Subscribed(node, a) /\ IsActorInChannel(Loaded, d.channel, a) =>
             KeysFor(Loaded, a, d.channel, KeyOf(Loaded, a)) = d.keys
      /\ \A identity \in Identities :
           HoldsKey(identity, d) =>
             \E a \in ActorsOf(Loaded, identity) : IsActorInChannel(Loaded, d.channel, a)
================================================================================
