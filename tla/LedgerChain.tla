------------------------------ MODULE LedgerChain ------------------------------
(* An application ledger as a virtual blockchain object: microblocks are appended
   by asynchronous calls of appendMicroBlock that check the height and the previous
   hash, wait for the state of the protocol, run their sections one by one on the
   internal state, and only then record the microblock.  Appends that have begun
   interleave at every await.  The structure of microblocks is not checked here. *)
EXTENDS ApplicationLedger, FiniteSets, SequencesExt

CONSTANTS Appenders,  \* calls of appendMicroBlock that may be in progress together
          Contents,   \* the sections of a microblock: a set of non-empty sequences
          MaxBlocks   \* bound: microblocks given to appendMicroBlock

ASSUME ContentsAssumption == Contents \subseteq Seq(Section) \ {<<>>}
ASSUME MaxBlocksAssumption == MaxBlocks \in Nat

VARIABLES blocks,     \* the microblocks recorded, in order: the height is their number
          ledger,     \* the internal state
          append,     \* per appender: the append in progress
          fresh,      \* microblocks made so far, which names the next one
          failed      \* an update threw: the object is dropped by its user

vars == <<blocks, ledger, append, fresh, failed>>

Height == Len(blocks)

Block == [id : 1 .. MaxBlocks, height : Nat, previous : 0 .. MaxBlocks, sections : Contents]

Idle == [stage |-> "idle"]

TypeOK == /\ blocks \in Seq(Block)
          /\ ledger \in State
          /\ append \in [Appenders -> {Idle} \cup
                           [stage : {"protocol", "updating"}, block : Block, next : Nat \ {0}]]
          /\ \A p \in Appenders :
               append[p].stage # "idle" => append[p].next <= Len(append[p].block.sections) + 1
          /\ fresh \in 0 .. MaxBlocks
          /\ failed \in BOOLEAN

Init == /\ blocks = <<>>
        /\ ledger = InitialState
        /\ append = [p \in Appenders |-> Idle]
        /\ fresh = 0
        /\ failed = FALSE

-----------------------------------------------------------------------------

\* The previous hash is only compared when the chain has a last microblock.
IsPrevious(previous) == blocks # <<>> => previous = blocks[Height].id

\* appendMicroBlock up to its first await; a microblock that does not fit is refused
\* without any change.
BeginAppend(p, sections, height, previous) ==
    /\ ~failed
    /\ append[p].stage = "idle"
    /\ fresh < MaxBlocks
    /\ height = Height + 1
    /\ IsPrevious(previous)
    /\ fresh' = fresh + 1
    /\ append' = [append EXCEPT ![p] =
                    [stage |-> "protocol", next |-> 1,
                     block |-> [id |-> fresh + 1, height |-> height,
                                previous |-> previous, sections |-> sections]]]
    /\ UNCHANGED <<blocks, ledger, failed>>

\* getProtocolState answers ...
BeginUpdate(p) ==
    /\ append[p].stage = "protocol"
    /\ append' = [append EXCEPT ![p] = [stage |-> "updating", block |-> append[p].block, next |-> 1]]
    /\ UNCHANGED <<blocks, ledger, fresh, failed>>

\* ... or throws, and so does the append.
ProtocolFails(p) ==
    /\ append[p].stage = "protocol"
    /\ append' = [append EXCEPT ![p] = Idle]
    /\ UNCHANGED <<blocks, ledger, fresh, failed>>

HasSection(p) == append[p].stage = "updating" /\ append[p].next <= Len(append[p].block.sections)

NextSection(p) == append[p].block.sections[append[p].next]

Advanced(a) == [stage |-> "updating", block |-> a.block, next |-> a.next + 1]

\* Mutant: the height given to the sections is the chain's.
UpdateAtChainHeight(p) ==
    /\ HasSection(p)
    /\ ~Rejected(ledger, NextSection(p))
    /\ ledger' = Effect(ledger, NextSection(p), Height)
    /\ append' = [append EXCEPT ![p] = Advanced(append[p])]
    /\ UNCHANGED <<blocks, fresh, failed>>

\* updateState, one section per await.
UpdateSection(p) ==
    /\ HasSection(p)
    /\ ~Rejected(ledger, NextSection(p))
    /\ ledger' = Effect(ledger, NextSection(p), append[p].block.height)
    /\ append' = [append EXCEPT ![p] = Advanced(append[p])]
    /\ UNCHANGED <<blocks, fresh, failed>>

\* Mutant: the object stays in use.
UpdateThrowsUnnoticed(p) ==
    /\ HasSection(p)
    /\ Rejected(ledger, NextSection(p))
    /\ ledger' = Effect(ledger, NextSection(p), append[p].block.height)
    /\ append' = [append EXCEPT ![p] = Idle]
    /\ UNCHANGED <<blocks, fresh, failed>>

\* A callback throws: the append ends, what its sections did stays done.
UpdateThrows(p) ==
    /\ HasSection(p)
    /\ Rejected(ledger, NextSection(p))
    /\ ledger' = Effect(ledger, NextSection(p), append[p].block.height)
    /\ append' = [append EXCEPT ![p] = Idle]
    /\ failed' = TRUE
    /\ UNCHANGED <<blocks, fresh>>

\* The rest of appendMicroBlock.
Record(p) ==
    /\ append[p].stage = "updating"
    /\ ~HasSection(p)
    /\ blocks' = Append(blocks, append[p].block)
    /\ append' = [append EXCEPT ![p] = Idle]
    /\ UNCHANGED <<ledger, fresh, failed>>

Next == \E p \in Appenders :
          \/ \E sections \in Contents, height \in 1 .. MaxBlocks, previous \in 0 .. MaxBlocks :
                BeginAppend(p, sections, height, previous)
          \/ BeginUpdate(p)
          \/ ProtocolFails(p)
          \/ UpdateSection(p)
          \/ UpdateThrows(p)
          \/ Record(p)

Spec == Init /\ [][Next]_vars

-----------------------------------------------------------------------------
(* What the readers of the ledger look for (ApplicationLedgerVb). *)

SectionsAt(height) == IF height \in DOMAIN blocks THEN ToSet(blocks[height].sections) ELSE {}

\* getPublicSignatureKeyByActorId, getPublicEncryptionKeyByActorId
KeySections(id) == {sec \in SectionsAt(ledger.actors[id].keyHeight) :
                      sec.type = "subscription" /\ sec.actor = id}

\* getChannelKeyFromInvitation: the first invitation of the actor.
InvitationSections(inv) == {sec \in SectionsAt(inv.height) :
                              /\ sec.type = "invitation"
                              /\ sec.guest = inv.actor
                              /\ sec.channel = inv.channel}

\* getExistingSharedKey(host, guest): the first secret of the guest with the host,
\* and the sections that may hold it.
FirstSecret(secrets) == CHOOSE s \in secrets : \A t \in secrets : s.height <= t.height

SecretsOf(guest, host) == {s \in ledger.secrets : s.actor = guest /\ s.peer = host}

SecretSections(host, guest, height) == {sec \in SectionsAt(height) :
                                          /\ sec.type = "secret"
                                          /\ sec.host = host
                                          /\ sec.guest = guest}

-----------------------------------------------------------------------------
(* Properties *)

\* Between appends, when none has thrown.
Settled == ~failed /\ \A p \in Appenders : append[p].stage = "idle"

\* The internal state is the one its recorded microblocks give, section after
\* section, from the initial state (what a node that replays the chain computes).
ReplayOf(chain) ==
    LET state[h \in 0 .. Len(chain)] ==
          IF h = 0 THEN InitialState
          ELSE Run(state[h - 1], chain[h].sections, chain[h].height)
    IN state[Len(chain)]
LedgerIsReplay == Settled => ledger = ReplayOf(blocks)

\* Every height kept in the state leads its reader to the section it stands for: the
\* keys of a subscribed actor (getPublicSignatureKeyByActorId,
\* getPublicEncryptionKeyByActorId), the key of an invitation
\* (getChannelKeyFromInvitation), and a secret that both peers know, in one direction
\* or the other (getExistingSharedKey).
HeightsLeadToSections ==
    Settled =>
      /\ \A id \in DOMAIN ledger.actors : Subscribed(ledger, id) => KeySections(id) # {}
      /\ \A inv \in ledger.invitations : InvitationSections(inv) # {}
      /\ \A s \in ledger.secrets :
           /\ [actor |-> s.peer, peer |-> s.actor, height |-> s.height] \in ledger.secrets
           /\ \/ SecretSections(s.peer, s.actor, s.height) # {}
              \/ SecretSections(s.actor, s.peer, s.height) # {}

\* "there is a shared secret section in the vb declaring a shared secret between
\* guest and host but no shared key is included in the section: very very bad!": the
\* case getExistingSharedKey excludes.
SharedKeyFound ==
    Settled => \A host, guest \in DOMAIN ledger.actors :
                 SecretsOf(guest, host) # {} =>
                   SecretSections(host, guest, FirstSecret(SecretsOf(guest, host)).height) # {}

\* Actors and channels are found by name (getActorIdByName,
\* getChannelIdFromChannelName) and channels have their creator's key: names are
\* unique and creators exist, at every await of every append, failed ones included.
NamesAndCreators == UniqueActors(ledger) /\ UniqueChannels(ledger) /\ CreatorsExist(ledger)

\* What is recorded is never taken back, and an actor that is subscribed keeps its
\* key and its name for ever.
NothingTakenBack ==
    [][/\ IsPrefix(blocks, blocks')
       /\ \A id \in DOMAIN ledger.actors :
            /\ ledger'.actors[id].name = ledger.actors[id].name
            /\ Subscribed(ledger, id) => ledger'.actors[id].keyHeight = ledger.actors[id].keyHeight]_vars
=============================================================================
