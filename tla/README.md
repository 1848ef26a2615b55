# Verification of the Carmentis SDK core

TLA+ models, TLC runs and TLAPS proofs for `src/src`, the TypeScript SDK that builds, checks,
stores and reads the *virtual blockchains* of the Carmentis network. A virtual blockchain (vb)
is a chain of *microblocks*; a microblock is a list of *sections*; running the sections of all
microblocks in order gives the *internal state* of the vb. Nodes anchor microblocks; the SDK
talks to a node and replays the same code.

## 1. Inventory

| Part | State | Operations | Hard behaviours | What makes it correct |
|---|---|---|---|---|
| Account balance (`utils/BalanceAvailability.ts`) | a balance and an array of locks: escrow, vesting, staking | credit, vest, escrow, stake, plan and apply unlocks, plan, cancel and apply slashes, release vested tokens | long sequences of a caller's calls; amounts recorded at one call and used by a later one; rounding; a throw in the middle of a loop | no token staked twice or spent while locked; vesting follows its schedule; slashing frees nothing |
| Provider and its store (`providers/*`) | states, statuses, headers and bodies kept in memory | read state and status, read microblocks, publish, await anchoring | awaits between reading the store and writing it; answers out of order; a timeout against a late answer; a request whose answer is lost | a read returns what the node had during the call, whatever is stored; nobody is sent back in time; every call ends |
| Network exchanges (`NetworkProvider.ts`, shapes in `type/`) | none | encode a request, take an answer apart | each operation parses the union of all answers and then looks at what it got | an operation takes the answers that belong to it, loses no entry, and what it gives can be stored |
| Application ledger state (`ApplicationLedgerInternalState.ts`, `ApplicationLedgerLocalStateUpdater.ts`) | actors, channels, subscriptions, invitations, secrets, kept as positions and heights | one callback per type of section | callbacks that throw after they changed the state; references from one list to another, and from the state to microblocks | names unique, creators exist; every height leads to the section it stands for |
| Virtual blockchain (`VirtualBlockchain.ts`, `ApplicationLedgerVb.ts`) | height, hashes, microblocks, internal state | load, append, read a microblock, find keys and secrets | a check before two awaits and its use after them; an update that fails half-way | height, microblocks and internal state describe one chain |
| Application ledger builder (`WalletRequestBased...Builder.ts`) | a vb object and the microblock under construction | create, subscribe an actor, build from a request | sections added before the state accepts them; keys that are only in the microblock under construction; several builders of one ledger; retries | what it returns is accepted; members of a channel, and only they, can read it |
| Other vbs: account, organization, application, validator node, protocol | a few heights and fields | one callback per section, readers | a reader goes from a kept height to a section; clients build on a chain that others extend meanwhile | readers find what was declared last; no fork |
| Microblock (`microblock/Microblock.ts`) | header, body, sections, hash | setters, add and pop sections, seal, sign, verify | the order of the calls; which fields a signature covers; a hash that some setters do not renew | a sealed microblock verifies, a changed one does not; the hash is the header's |
| Consistency and structure checkers | none | check | counts at their limits; groups that end at a type they do not list | accept exactly the layouts |
| Fees (`feesCalculator/*`) | none | compute gas | rounding, boundaries, order of the policy | who checks agrees with who seals |
| Serializer, encodings (`data/*`, `constants/schemas.ts`, `sections.ts`) | none | bytes of an object and back, base64, numbers | widths, sizes, optional fields, flags in the first byte of a number | what is written is read back, what is refused is refused on both sides |
| Genesis seed | none | pack, extract | an expiration in four bytes | what is packed is extracted |
| Merkle tree, radix proofs, state checker | rows of hashes | build, witness, verify | odd widths, missing leaves, heights at powers of two | a partial tree and its witnesses give the root, and no other |
| Records and proofs of records (`records/*`) | fields with channels and transformations, the leaves of each channel | mask, hash, put on chain, read, remove, export, import | several proofs share leaves; exports that are imported and cut again | the root stays; shown is what was left, nothing else |
| Link resolver (`resolver/*`) | data and nodes found so far | passes over an object | a pass finds what another pass needs; data under a wrong digest | ends; the result does not depend on the order |
| Proof documents, wallets, keys, signatures, credentials, economics, account history | none | - | - | values in, values out |

How they interact: the *provider* answers reads from its store or from the node and gives the
bytes to a *vb* object. A vb *appends* a microblock after it checked height, previous hash and
structure, and runs the *updater* on its internal state. A *builder* works on such an object and
runs the same updater on it, section by section, while the microblock is still under
construction; it is also the object's fallback for microblocks that are not in the chain yet. The
microblock is then sealed, with a gas computed from the provider's state of the protocol, and
published through the provider. The node checks it with the *consistency checker*, appends it with the same code,
and keeps an *account balance* per account, whose locks it updates with the time of each block.
Sections of a ledger carry *records*, field by field; a reader makes proofs of them; a *resolver* follows the
links in them to other microblocks.

`PROJECT.json` lists every part with its files, and under `hazards` what in this code is hard to
test, each at its line and with the properties that cover it.

## 2. Modules and runs

| Module | Models | Extends |
|---|---|---|
| `Sums` | sum over the array of locks (`getBreakdown`) | |
| `BalanceAvailability` | the account balance | `Sums` |
| `MCBalanceAvailability`, three `account_*.cfg` | instances of it | `BalanceAvailability` |
| `SumsProofs` | lemmas: totals, induction over an interval, recursive functions that exist and agree | `Sums` |
| `BalanceAvailabilityProofs` | theorems | `BalanceAvailability`, `SumsProofs` |
| `ChainReads` | abstract: what reading a growing chain promises | |
| `ProviderCache`, `provider_reads.cfg` | the provider and states; implements `ChainReads` | |
| `ProviderCacheProofs` | theorems on what is read through a provider, on what a node proves and on the tree of a channel; lemmas on filtered lists, halving, rows of trees | `ProviderCache`, `MicroblockReads`, `StateProofs`, `Witnesses`, `SumsProofs` |
| `ApplicationLedger` | the internal state and what each section does to it (no variables) | |
| `ApplicationLedgerProofs` | lemmas: what a section does to any state, and what running a list of them gives | `ApplicationLedger`, `SumsProofs` |
| `LedgerChain` | the vb object that appends microblocks; the readers of keys and secrets | `ApplicationLedger` |
| `MCLedgerChain`, `ledger_appends.cfg`, `ledger_shared_key.cfg` | contents of microblocks | `LedgerChain` |
| `LedgerChainProofs` | theorems | `LedgerChain`, `ApplicationLedgerProofs` |
| `LedgerBuilder` | builders of one ledger and the node that accepts what they build | `ApplicationLedger` |
| `MCLedgerBuilder`, `ledger_builders.cfg` | requests | `LedgerBuilder` |
| `LedgerBuilderProofs` | theorems | `LedgerBuilder`, `ApplicationLedgerProofs` |
| `Fees` | the gas of a microblock (no variables) | |
| `Microblock` | one microblock object, its signers and a checker of its gas | `Fees` |
| `MCMicroblock`, `microblock_signatures.cfg` | retention policy and signature costs | `Microblock` |
| `MicroblockProofs` | theorems | `Microblock`, `SumsProofs` |
| `Structures` | the structure checkers: a pointer that walks over the types of sections | |
| `Chains` | states, updaters and readers of the other vbs | |
| `Imports` | clients, the network and the node that imports their microblocks | `Chains`, `Structures` |
| `MCImports`, `imports.cfg` | contents of microblocks | `Imports` |
| `ImportsProofs` | theorems | `Imports`, `Layouts`, `SumsProofs` |
| `Schemas` | the schemas of `schemas.ts` and `sections.ts` | |
| `Numbers` | numbers in streams | |
| `Serialization` | streams, type checker, schema serializer, validator, messages | `Schemas`, `Numbers` |
| `Inputs` | the one variable of the parts without state: the input looked at | |
| `Encodings` | base64, the genesis seed, and what is encoded | `Numbers`, `Inputs` |
| `Layouts` | the layouts as sets of sequences, to compare with, and sections that are added one by one | `Chains`, `Structures`, `Inputs` |
| `Lists` | lists that are filtered | |
| `MerkleTrees` | the Merkle tree of a channel | `Lists` |
| `Witnesses` | trees of leaves of which some are hidden, and what must hold of them | `MerkleTrees`, `Inputs` |
| `StateProofs` | the state checker, radix proofs, and the node's trees they are about | `Inputs` |
| `Resolutions`, `Documents` | links, passes of the resolver; the documents that are resolved | |
| `Shapes`, `StoredShapes` | parsing with a valibot schema; the shapes of what is stored | `Serialization` |
| `Exchanges` | requests, answers and what each operation makes of them | `StoredShapes` |
| `MicroblockReads` | reads of headers and bodies through a store, one after the other | `Lists`, `Inputs` |
| `Values`, `values.cfg`, `seed_expiration.cfg` | inputs of the parts without state, grown step by step | `Layouts`, `Encodings`, `StateProofs`, `Witnesses`, `Documents`, `Exchanges`, `MicroblockReads` |
| `Records` | fields, channels, transformations, leaves (no variables) | `MerkleTrees` |
| `ProofRecords` | a record from JSON to the chain and back, and its proofs | `Records` |
| `MCProofRecords`, `records.cfg` | objects, masks, paths | `ProofRecords` |

An operator whose comment begins with "Mutant" or "A bug the checks must see" is not part of
a model. It stands beside the definition it varies, as a plausible bug would, and `PROJECT.json`
names for each property the variant that violates it: the property does tell right from wrong.

### 2.1 Account balance

`balance` and `locks` are the fields of the class; position *i* of `locks` is position *i* of the
array, and a removed lock leaves an empty position (the code closes the gap; order is kept, and
order is all the code uses). Every public method that changes something is one action, including
what it does before it throws: `applyNodeStakingUnlocks` throws in the middle of its loop and
leaves the earlier unlocks done. `getSpendable` and its like are the operators of `getBreakdown`.
Left to the caller, as in the code: debits stay within `getSpendable`, amounts are positive,
`addVestedTokens` is called with the block's time and the whole amount, and the times of plans
are at least one day (0 is the code's "no time").

* `account_no_slashing` - escrow, vesting, stakes and unlocks: the account always covers its
  locks (`SpendableNonNegative`), one stake per node and no lock below 0 (`LocksWellFormed`), linear vesting releases
  no more than the schedule allows (`ReleasedOnSchedule`), and catches up what stakes had delayed but leaves what
  the stakes need (`ReleasesFitStakes`).
* `account_slashing` - slashing beside escrows and vesting: stakes and escrows stay covered,
  the two rounding passes leave exactly min(vested, balance) (`SlashedVestingFits`), and nothing
  becomes spendable (`SlashingFreesNothing`: no more than before, or than 0 where the account
  was in debt, which a negative release between two slashes brings about).
* `account_unlock_twice` - violation, see section 5.

The constant `Features` says which families of calls the caller makes. Two families that meet break
further properties, as TLC shows when the feature is added to a run. With slashing and unlocks, a slash takes the stake of the
time it was planned at, also when part of it was unlocked meanwhile, and a lock falls below 0. With slashing and
vesting, slashed tokens count as released, and the next release is negative and vests them again; `SlashedVestingFits` is about
the slash itself. The negative release can leave more vested than the balance covers, so that `getSpendable` is below 0
until a second slash takes the debt away. Each passing run has all families that do not meet so. Bounds: one node, one escrow and two or three positions let
every kind of lock stand beside every other; amounts 1 and 3 make every comparison come out both
ways and every division leave a remainder; two terms give a release on a boundary, inside and
after a schedule. `account_slashing` has one term of three days and no cliff, so that two releases and two slashes fit between.

### 2.2 Provider

A state stands by its height. `store` is the internal provider's, `call` the request in flight per
caller: *asked*, *answered*, and then applied by `ReceiveStatus` or `ReceiveState` in a step of its
own, since the store may be changed by others at each await. The node is external: its chains
grow, and it answers with the state it has. `getVirtualBlockchainStatus` sends the hash of what is
stored and gets a state only if it changed; `getVirtualBlockchainState` does not ask at all once a
state is stored (`StateFromStore`). `Abort` is the timer of `NetworkProvider.query` or any error.

* `provider_reads` - two callers, one chain of up to three microblocks. `NodeReads` is refinement:
  with the calls in flight as its reads, `ProviderCache` implements `ChainReads`. `ReadsForwardInTurn`
  (nobody reads backwards as long as requests about a chain do not overlap), `NeverForgotten` (a known
  chain is never reported absent), `CallsEnd`.

When requests overlap, an older answer that comes last overwrites the newer state in the store, and the next read of the state
goes back in time: that is why `ReadsForwardInTurn` asks for requests in turn.

Fairness is assumed of `Abort` only: the code starts a 10 s timer for each request
(`NetworkProvider.ts`), and nothing makes a node answer. `CallsEnd` holds under that alone.

Two callers and three heights are enough for an answer to be overtaken, outdated and repeated; chains
share nothing, so one is enough.

### 2.3 Application ledger

`Effect(s, sec, height)` is the state object after a section's callback, also when it threw
(`Rejected`): the callbacks work on the state in place (`updateState` clones it and then changes the
original). Identifiers count from 1, the code's from 0. A signature key and an encryption key are only
ever subscribed together, so one height stands for both. Lists kept per actor are sets here: they are
read by first height, and heights only grow. `isPrivate` is left to the builder's model.

`LedgerChain` is `appendMicroBlock`: check, await the protocol state, run the sections one await
each, record. An update that throws ends the append; its user drops the object (`failed`), as
the callers in the repository do. The previous hash is compared only when the chain is not
empty. The structure check is in `Imports` and `Structures`.

* `ledger_appends` - one appender, up to four microblocks out of fourteen contents, accepted, refused at each
  of the reasons the callbacks have, or interrupted: the state is what a replay of the recorded
  microblocks gives (`LedgerIsReplay`), each kept height leads its reader to the section it stands for
  (`HeightsLeadToSections`: keys, invitations and secrets), names and creators are sound at every
  await (`NamesAndCreators`), nothing is taken back (`NothingTakenBack`).
* `ledger_shared_key` - violation, see section 5.

The run has one appender because the repository never has two appends of one object in progress. With two
(`Appenders = {p1, p2}`) both pass the height check before their awaits, and the recorded microblocks are not linked any
more. What stays true then is proved (section 3).

Four microblocks are enough for an actor, its subscription, its channel and an invitation to come from
four of them; two names make every conflict of names possible.

### 2.4 Application ledger builder

A builder has a vb object (`height`, `ledger`) and a microblock (`sections`). `Add` is
`addSection` followed by `updateStateWithSection`: the section stays in the microblock when the
update throws, or when the protocol state, asked for by the first section, is out of reach
(`offline`). A request is one action: all it reads is private to the builder or never changes, so no
other actor can come between its awaits; `Todo` is the order of its parts, and a throw ends it where
the code throws. A caller may go on with a builder after a throw. Keys are values: a channel's key is named
by the identity whose seed derives it, an invitation by who can decrypt it. Lookups read microblocks as the
code does, through the fallback at one height above the object's. The node accepts a microblock that
extends its chain and of which it rejects no section.

Assumed of callers (`SpeaksForItself`): after the genesis, the author of a request is an actor with the
host's keys, and not one that the request itself creates, which has no keys yet (only in a genesis does the builder
subscribe the author). The code checks neither; for such an author it would derive channel keys from a seed
that the creator of the channel cannot use again, and post data under a key that no member holds.

* `ledger_builders` - two builders, two identities, microblocks built from up to two calls each, published over
  one another: what a builder none of whose calls threw returned is accepted and leaves the node with the
  builder's state (`BuiltIsAccepted`); nobody is invited twice (`InvitationsUnique`); every actor in a
  channel finds the key of all that was posted there, and who can derive or decrypt it is in the
  channel (`MembersHoldKeys`).

A host that assigns itself to a channel is left out without an error, "because the host is already in the
channel by definition"; the model has it so, and no property says that the host is in the channel, which it
need not be: when somebody else created it, the request succeeds and the host is not in it.

`InvitationsUnique` leaves out microblocks of builders one of whose calls threw, for a reason the model
shows: when the first section of a builder is an invitation and the protocol state cannot be
loaded, the section stays in the microblock without its effect on the state; a retry invites again, and the
node accepts both. In the same way a retried creation leaves a microblock the node refuses.

Two microblocks are enough for a key to be posted, handed on and used by another identity; two calls give
the flow of the code's own test (subscribe the user, then the request) and every retry.

### 2.5 Microblock and fees

`header`, `sections` and `hash` are the object's fields. Hashes are injective, so the body hash is the sequence of
sections hashed and the stored hash is the header hashed: a hash that was not renewed is an older header. A
signature is the header signed, `Message`, which holds the sections before it in place of their hash. Signing
and computing gas are awaited; `task` has one call in progress per signer, and other calls of the object come between its
steps: `SetGasAndSeal` reads the clock and the previous hash, `MeasureSize` the sections, `SetComputedGas` sets gas and
payer and signs, `AddSignature` adds the section. `TaskThrows` is the provider or the key failing. An auxiliary
signer calls `sign` without gas and adds the section itself. `signed` records who signed what, for the properties.

`Fees` is the retention cost: rounded days, tiers, fractions of gas, the cost of the sealing signature. Its times are in ticks, two
a day in the runs, so that half a day comes up. Every section has size 1. `setGasAndSeal` on an object that claims to be a
genesis but is linked to another microblock, or the reverse, is left out (`Linked`): the code would read an
expiration from the bytes of a hash.

* `microblock_signatures` - an owner and a partner, four calls of the object, one tick: what verifies under a key is what
  its owner signed (`VerifiedIsSigned`); a partner's signature outlives what is added after it, gas and seal
  included (`AuxiliarySurvives`); a receiver can load what is sent, and the stored hash is
  behind by a previous hash at most (`HashesAreRenewed`); the gas set before the seal exists is what a checker finds when
  the seal is among the sections, and what it finds later is never more (`GasAgreed`).

The invariants say where the object does not do what one expects: popping the only section throws after
it is gone and leaves the hashes (`HashesAreRenewed` excepts the empty microblock); a second `seal` signs
again although it is documented to throw, and `verifySignature` refuses the result; a seal that names another
payer invalidates auxiliary signatures (`AuxiliarySurvives` excepts it); a section added while the gas is being computed is not paid
for (`GasAgreed` excepts it); a seal without gas does not cover it, so whoever changes the gas of such a microblock back to 0 leaves
it verifying (`GasAgreed` is about seals that cover the gas). `GasAgreed` is about the time of sealing: gas depends on the time it is computed at, and
a checker half a day later may find less than was set.

Four calls are enough for a partner's signature, a section, a seal and one setter in every order; one tick
is half a day, over which the rounding changes the number of days; the expiration of three ticks makes days fall into both tiers.

### 2.6 Importing microblocks

`Chains` has, for the five kinds of vb without a model of their own, what a microblock does to the state (`Updated`), when
the updater throws (`UpdateThrows`), and the readers, which go from a height in the state to the first section of a type.
`Structures` walks over the types of the sections as `StructureChecker` does, with one pointer. `Imports` composes them: a client
loads a chain or starts one, makes a microblock, seals it with the gas that the protocol variables give (`prices` stands for the
variables it was computed with), publishes it and waits; the network loses, delays and repeats; the node takes from the `pool` what
`Accepted` says and nothing else. `PublishFails` and `AwaitFails` are the timers: the microblock may have arrived. A client
that is *unsure* may publish again. Whether the node already has a chain is the node's, external (`NodeHasChain`).

* `imports` - two clients, four microblocks beyond the genesis of the protocol counted, chains of five kinds: readers find what was declared last
  (`ReadersFindLatest`); a microblock is in one place and chains do not fork, however often one is published
  (`ImportedOnce`); who was told that a microblock is anchored finds it (`ToldIsAnchored`); what a client makes is refused only for
  reasons it can know (`FreshIsAccepted`); a chain keeps its kind and owner (`OwnerFixed`).

A client keeps the protocol variables it got first (`AbstractProvider.getProtocolState` reads the store and nothing refreshes it but a load of
the protocol's own chain): after an update of the protocol what it seals is refused. `FreshIsAccepted` excepts that.

Two clients are enough for one to be overtaken by the other; four microblocks for the protocol, an organization, a node or application on it and one
extension, or for two extensions of one chain.

### 2.7 Functions of values

The parts without state are functions; `Values` grows their inputs step by step, so that TLC counts and bounds them, and compares each
with a definition of another form.

* `LayoutAgrees` - also a theorem, for any number of sections: the walk of the structure checkers against the layouts as sets of sequences (`Layouts`), on all sequences of up to five of the
  types that take part in a layout and one that does not (`MaxSections`): a group that repeats, one before it and one after it, and a stray in
  any place. The sections that allow signature and encryption schemes are in no layout of a ledger, as in the code.
* `ObjectsReadBack` - every schema that is serialized; an object is ordinary but for up to two fields (`MaxUnusual`): missing, null, too
  short, too long, not of the type, at the limit of its width. What the serializer takes is read back, no fewer and no more bytes are an
  object, and the validator agrees with the serializer but for inline definitions, missing fields and sizes of arrays, where the
  two differ in the code.
* `EncodingsInvert` - also a theorem, for bytes and numbers of any length: base64 padded and not, numbers, seeds. A byte has 16 values, a digest 2 bytes and a base64 digit 8 values
  (`ByteValues`, `DigestLength`, `DigitValues`; 256, 32 and 64 in the code): every width and carry comes up with small numbers. `MaxNumber` 66000 is beyond four
  such bytes, from where on some integers are written as floats (`SingleFloats`, two of them in the run), and `MaxBytes` 4 is beyond a whole group of digits.
* `StateProofsVerify` - also a theorem, for chains and trees of any size: chains of up to 34 microblocks (`MaxMicroblocks`), past the powers of two where the
  height of the tree changes, and all radix trees with keys of three bits. What a node proves is accepted, and nothing else: no microblock in the place of another,
  with whichever siblings, and no other value of a key, with the nodes given for any key. An empty radix tree, which a node never has, proves nothing.
* `WitnessesVerify` - also a theorem, for trees of any size: all trees of up to five leaves (`MaxLeaves`: every row odd or even, padded or not, up to four rows), with any of them hidden,
  those of a proof that shows nothing and of one that hides nothing included. The witnesses can be read, are as many as are asked for, and the leaves that are shown give the root with them; with these or one of them changed, no
  other leaves do, whatever leaf is put in whichever place. Which leaves a proof hides is chosen by `ProofRecords` from the contents of a record (section 2.8); here it is any set.
* `LinksLead`, `ResolvedOnceForAll` - section 2.9. `ExchangesFit`, `ReadsAgree` (also a theorem) - section 2.10.
* `seed_expiration` - violation, see section 5.

### 2.8 Records

`Records` has the fields of a record (`BuildItemList`, in order, with their paths), channels, the three transformations, masks by
positions and by regular expression (given by the lengths of what it captures), salts and the leaf of each field. A hash is the term it is
computed from, so equal roots mean equal contents. `ProofRecords` is the flow: a writer sets channels and transformations, puts the record
on the chain, a reader reads the channels it can decrypt and makes proofs; a proof removes, hashes or masks fields, computes
its root, is exported, and imported by another proof. `merkle` is the one `MerkleRecord` that proofs share, leaves included.

* `records` - two proofs, two settings and two hidden fields, three objects (a string, an object with an array in it, an array with an empty one):
  what the chain holds is read back and no two fields share a salt (`RecordReadBack`); every proof keeps the root and
  can be exported once it was computed (`ProofsVerify`); a document shows what was left and nothing of what was not (`ShowsWhatIsLeft`).

What the invariants except, and the model shows: a mask without parts, or a substitution that shows every part, makes a text that is read back
as empty (`Emptied`). Two proofs of one record share leaves: a field that one removed is removed from the other, and a proof created after a
removal throws. Exporting after a removal without `getRootHash` before it throws, since the row of witnesses is computed there. A proof exported
without the key of a private channel cannot be imported.

Two settings give every transformation below and after another and a field in a channel of its own; two hidden fields reach siblings in a tree and
fields in both proofs; the longest object has five fields, an odd row at two levels.

### 2.9 Links and resolutions

`ResolveLink` walks the path of a link as `LinkResolver` does, `GetSection` and `GetSectionContent` are what the two resolvers then read. `Resolve`
is the recursion of `Resolver`: a pass replaces what tags stand for (linked objects, data known by its digest, signatures and
representations) and notes digests it met, and passes follow each other as long as data was found for one. `Documents` has the grammar of links and the documents:
up to four fields in the document and what it refers to (`MaxFields`), among them wrong data under a digest. `LinksLead` compares with the
grammar. `ResolvedOnceForAll`: the number of passes is bounded by the digests found, and the result is what one pass makes when all data is known from the start,
so it does not depend on what is found first; what was inlined is under the node it came from.

What the code does and the properties therefore do not promise: a record that links itself, or one at a height it comes to have, is resolved for ever, and
`Policies.onCyclicResolution` (`ResolverTypes.ts:8`) is read nowhere; such circles are left out. The first data found under a digest is kept without a check, and wrong
data hides the right one. Data inlined by a digest inside a linked microblock is not under the node of that microblock, so `getEnclosingNode`
(`TagProcessor.ts:57`) gives another node or none, to which the handler of signatures then binds an attestation. A field that another inlined object replaces leaves
its nodes behind. `vb/A/mb/` with the hash of a microblock of B leads into B's chain; the type tag is not compared. An empty part of a path counts as number 0. A
linked record or a verified payload that is not an object makes the whole resolution throw. `ResolverNodeMapper.map` empties the path it is given.

### 2.10 Exchanges and reads of microblocks

`Shapes` is parsing with a valibot schema: `Encoded` and `Decoded` refuse what a shape refuses and drop the entries it does not list; cbor gives back what it was given.
`Examples` makes, of every shape, the ordinary object and those with one entry missing, too short, of another kind or not listed. `Exchanges` has the requests, the
answers, and for each operation of `NetworkProvider` the answer it expects and what it gives of it. `ExchangesFit` says that an operation gives something of exactly the answers
that belong to its request, with every entry the node put in, and that what it gives can be stored and read back.
`awaitMicroblockAnchoring` parses without the type of the answer and so takes the information on a microblock as well.

`MicroblockReads` has the reads of headers, bodies, chain ids and lists of bodies through a store that keeps or does not (`NullMemoryProvider`), with the network or
without. `ReadsAgree`: after any reads before, a read gives what it gives with nothing stored. Received bodies come before those that were held, where the comment in
`Provider.ts:196` has them in the order that was asked; the function is called nowhere in `src`. Headers and chain ids that were received are not kept by
`getMicroblockHeader` and `getVirtualBlockchainIdContainingMicroblock`. `NetworkProvider` never answers null, since an unknown
microblock is a `NodeError` and parsing throws; the branches for "not found" are reached without a network only.

Three microblocks are enough for a list of which one is held, one is received and one is unknown, in any order (`MaxAsked` 3).

## 3. Proofs

Checked by TLAPS for every value of the constants allowed by the named assumptions
(`BalanceAssumption`, `MaxHeightAssumption`, the `ContentsAssumption` of `LedgerChain` and of `Imports`, `MaxBlocksAssumption`,
`ImportsAssumption`, `FeesAssumption`, `MicroblockAssumption`, `SchemeAssumption`, `RequestsAssumption`, `HashesAssumption`, `StateProofsAssumption`, `WitnessesAssumption`, `NumbersAssumption`, `EncodingsAssumption`). They type what the runs
choose: lists of sections, tiers of a policy, requests; a hash is not the word for an absent one; and a byte and a Base64 digit have as many values as in the code, 256 and 64, or as in the runs. All properties of the passing runs of `BalanceAvailability`, `ProviderCache`, `LedgerChain`,
`LedgerBuilder`, `Microblock` and `Imports` are theorems, but for `CallsEnd`, and of those of `Values` five are, `LayoutAgrees`, `EncodingsInvert`, `ReadsAgree`, `StateProofsVerify` and `WitnessesVerify`.

**Accounts** (`BalanceAvailabilityProofs`). `SumsProofs` has the lemmas on totals: what a change at one position does, that
pointwise smaller arrays have smaller totals, that removing empty locks changes none. They are by induction over an interval, which is
`IntervalInduction`, on a set instead of a predicate.

* `TypeCorrect`, `StakesAreCovered`: types, and stakes and escrows never exceed the balance, for all features together. The invariant,
  `Inductive`, is both. Slashing needs that what the stakes lose is what the balance loses; planning, vesting and releases leave both sums alone.
* `LocksStayWellFormed`, `SlashesFitVesting`, `SlashesFreeNothing` assume that the caller does not both slash and unlock: with both, a slash takes
  what was unlocked meanwhile off the stake a second time (section 2.1), and the invariant is false. It is `InOrder`: one stake per node, no lock below 0, no vesting lock above its initial amount, and no slash
  above the stake it was set for. `SlashesFitVesting` needs that the first pass leaves a
  remainder smaller than the number of locks that can give a unit, and that the second pass takes exactly it.
* `SpendableCovers`, `VestingOnSchedule`, `ReleasesStopAtStakes` assume that nothing is slashed. The invariant, `Scheduled`, adds to
  `InOrder` that each vesting lock has released at most what its schedule allows (`AllSound`), so no release is negative, and that vested and escrowed tokens are
  at most the balance (`Backed`). `SpendableNonNegative` alone is not inductive: a stake that ends leaves the vested tokens to be covered.

**Provider** (`ProviderCacheProofs`).

* `CacheTypeCorrect`, `ProviderImplementsReads`: every step of the provider is a step of `ChainReads` or a stutter. The invariant is that an answer lies
  between the height at the start of its call and the node's present height, that the state known at the start is not above it either, and that
  the store never holds more than the chain; an unchanged answer therefore means that the state known at the start was the node's when
  it answered. No run checks `TypeOK` of the provider, nor of the ledger's chain: they are proved.
* `ReadsGoForward`, `KnownIsNotForgotten`: the invariant `History` relates what a caller was told to the store and to what is in flight: as long
  as requests about a chain took turns, nothing that can be told next is below what was told.
* `ReadsAreOfTheNode`: `ReadsAgree` for any set of hashes and lists of any length (`ReadsSpec`: microblocks are anchored, read and cleared in any order). The invariant, `ReadsInv`,
  is that the store holds only what is anchored; what each read gives is then a table of whether the hash is held and whether the node has it. For the lists, what
  the code filters is a recursive function over the list (`Among`), and the lemmas on it are by induction over sequences, again on a set instead of a predicate
  (`SequenceInduction`): it holds what the list and the set share, and those held and those received of the rest are together as many as there are (`AmongSizes`).
  The proof needed a guard in `AskInformation`: two cases of it applied without a network, so that its value was left open, though TLC took the first.
* `StateProofsAreRight`: `StateProofsVerify` for chains of any number of microblocks, and trees over any digits with keys of any length (`StateProofsSpec`: microblocks and entries are
  added in any order). Hashes are terms, so different contents have different ones. Of a chain, row *d* of the node's tree has as many nodes as its last index, halved *d* times, and one (`RowSizes`); so the first row of one node is
  as high as the number of leading zeros says (`RootIsThere`), and from it down, the hash at each place of the walk is the tree's (`OnlyWhatIsThere`). Of a radix tree, what stands for
  the entries that share some digits depends on these digits only (`SlotsShared`); a proof that leads to the root, whoever made it, therefore has the tree's own node at each step, and its end is the value of the key (`RadixSound`), while the
  nodes that the tree gives reach the key, or where nothing has its digits (`RadixComplete`). What is recursive in the code, the walks, is a recursive function here, over an interval of rows or of digits, that the proofs
  show to exist.
* `WitnessesAreRight`: `WitnessesVerify` for a tree of any number of leaves, any of them hidden (`WitnessesSpec`: leaves are added and hidden in any order). A row that is padded has two
  children for each node of the next, and some row has one node (`RowsOfTree`). From leaves and witnesses every row is computed but for the unknown nodes that have an unknown sibling (`RowsComputed`), so the
  root always is. With the leaves and hashes of the whole tree, what is computed is its own, row by row upwards (`AgreeUpwards`); and with its root, whatever the leaves and witnesses are,
  row by row downwards, since a hash is of no other children (`AgreeDownwards`). The invariant is that hidden leaves are leaves.
* `EncodingsAreRight`: `EncodingsInvert` for bytes of any length, any number and any expiration (`EncodingsSpec`: bytes are added, numbers changed, seeds given an expiration in any order). What is written of a number is read back by induction over its
  bytes (`UnsignedReadBack`), in the fewest bytes that hold it (`SomeIsLeast`). Three bytes and four digits are one number written in two bases (`BytesOfThree`, `DigitsUndone`): when the last one or two bytes are missing, the padding that replaces
  their digits is one bit too wide and sets a bit of the digit before, which falls into the bytes that are cropped. That is checked for each of the two widths by arithmetic, then for each group (`GroupReadsBack`) and for the length of the text, from which the number
  of bytes to crop follows (`BytesReadBack`). The invariant is that what is encoded is of one of the three kinds.

**Ledgers** (`ApplicationLedgerProofs`, `LedgerChainProofs`, `LedgerBuilderProofs`). The lemmas say of any section, accepted or not, that it keeps a state typed and
well named and takes no name or key away, and of any list of sections that it can be run, in one way, state by state.

* `LedgerTypeCorrect`, `LedgerNames`, `LedgerOnlyGrows`: for any contents, any number of appends in progress and after failed updates.
* `LedgerReplays`, `LedgerHeightsLead` assume one appender (`OneAppender`), as the code that uses a ledger awaits each append; with two, the recorded
  microblocks are not linked (section 2.3). The invariant, `AlongTheChain`: the microblock in progress is the next one, the state is what the recorded
  microblocks and its sections so far give, and heights in the state lead to sections that are recorded or that were run. `HeightsLeadToSections` is not
  inductive since it speaks of moments without an append only.
* `BuildersAreSound`, `NobodyIsInvitedAgain`, `ChannelsAreReadByTheirMembers`: what a builder returned is accepted, nobody is invited twice, and the key of a channel
  is within reach of exactly its actors. They assume of callers what the model does, `SpeaksForItself` (section 2.4): without it the third is false.
  The three follow from one invariant, `BuildersSound`, since none is inductive alone: who holds a key depends on sections that are not published yet, and
  a builder reads the chain together with its own microblock. It says of the node, of every builder's object and of the chain:
  * as long as no call threw, the builder's sections are accepted on the state that its chain had when it was created, and give its state; and that state is the node's
    while the heights are equal (`Formed`, `Working`);
  * as long as its microblock can be accepted at all, the state that accepts it agrees with the sections (`Consistent`): the
    key height of an actor leads to subscriptions of one identity, creators of channels are subscribed, an invitation carries the key of the channel for its guest, and so does private data. The builder's own state may lack something of it
    (`Covers`), since sections that were added while the protocol state was out of reach are not run on it, but it has nothing else: this is what makes it right for the builder to look up keys there (`Kept`);
  * a microblock none of whose calls threw invites nobody again (`CleanInvites`).
  A request is run task by task. Each step keeps the invariant and takes nothing away (`Grown`), and what comes after the author is checked can count on
  the author's having the host's keys (`ActsAs`).

**Microblock** (`MicroblockProofs`).

* `SignaturesAuthentic`: what verifies is what was signed, for any signers, tags, sections and calls between the steps of signing. The invariant, `AllGenuine`: every signature in
  the microblock, and every one about to be added, is the message of something its signer signed, since a signature is made in one step and added in a
  later one, by when the header and the sections may be others.
* `HashesRenewed`: the invariant, `HashesHold`: the stored hash is that of a header that agrees with the present one in all but the previous hash and what comes
  with it, and the header has the hash of the sections. `AuxiliarySignaturesSurvive` follows step by step.
* `SealedGasAgreed`: the invariant, `GasHolds`: what a signer in progress computed, and what it signed, is the gas of the sections it measured at the time it took. With
  `AllGenuine` and `HashesHold` a seal that verifies and covers the gas was signed for these sections and this gas. That later gas is never more is a lemma for any
  policy (`GasFalls`): fewer days never cost more, tier by tier, rounding included.

**Imports** (`ImportsProofs`): `MicroblocksImportedOnce`, `ToldMicroblocksStay`, `FreshMicroblocksAccepted`, `ReadersAreRight`, `OwnersAreFixed`, for any clients,
contents and number of microblocks. The invariant, `Inductive`, has nine parts: types; chains linked by previous hashes, every microblock with the layout of its place (`Linked`); one creator per identifier, and what is created, published
or waited for agrees on it (`Identified`); a microblock is made for the place after its previous (`Placed`); gas is that of the prices at its creation (`Priced`); each
microblock is in one place (`ImportedOnce`); `ToldIsAnchored`; and the state of each chain holds the height and value of what was declared last (`InForce`), from which the readers' properties follow.

`LayoutsAreChecked`, of sections that are added one by one (`LayoutSpec`): for any number of them, the walk of a structure checker with its pointer accepts exactly the
sequences of the layout. `WalksAgree` says it of any sequence; a group of the walk takes the longest stretch of its types, which is by induction over the places of the sequence (`IntervalInduction`).

What proof attempts found, by steps that could not be proved: `GasAgreed` held in the run only because no gas there was 0, and is false of a seal that does not cover the gas; `SlashingFreesNothing` was stated for an
account that is not in debt, which a negative release makes it; and `SpeaksForItself` was about authors that the ledger already named, so that a request that creates its own author posted private data
under a key without a holder. The runs have such inputs now, and the properties and the assumption are stated accordingly.

Only model-checked, and why:

* `CallsEnd`: liveness is out of the prover's reach.
* The other properties of `Values`, and those of `ProofRecords`: `Serialization`, `Shapes`, `Records`, `Resolutions` and `Values` declare recursive operators, over trees of values, which the prover does
  not take. Induction over sequences and intervals is possible where it is over a set (above); over trees the library has it for predicates only, which no installed prover can instantiate.

## 4. Plan

To prove next: what else `Values`, and what `ProofRecords` checks, with their trees as sets of positions instead of recursive definitions, so that the prover takes them.

To model next: policies with two tiers of one limit, against a reference by days; the window of the timestamp in the consistency checker; the history of an account; wallets as the place that
derives keys, composed with the builder.

Abstract specifications worth stating next: an account as spendable, staked and escrowed amounts, which
`BalanceAvailability` implements without slashing; a set of linked lists, which `Imports` implements; the members of a channel, which `LedgerBuilder` implements.

## 5. Findings

Where the code does not do what its documentation, comments or checks say. Each has a run that TLC ends with a
counterexample.

| Run | What happens |
|---|---|
| `account_unlock_twice` | `applyNodeStakingUnlocks` does not reset the plan: the next call takes the amount off again |
| `ledger_shared_key` | a shared secret is found in both directions, its section only in one |
| `seed_expiration` | the expiration is read from the seed as a signed number: from 2^31 seconds on it comes back negative |

Seen while reading, in code that is called nowhere: `BlockchainUtils.checkHeaderList` (57-87) is documented to take headers from the latest to the first, but reverses
them and compares each hash with the previous hash of the older header, so a valid list of two or more is reported invalid.

## 6. Not modelled

* Cryptography, wallets, credentials, proof documents, economics, the classification of an account's history: values in, values out, or
  wrappers of libraries. A hash names one content, a signature verifies for what was signed, a ciphertext opens
  with one key.
* The node is external: it is modelled by what the SDK relies on.
* Amounts are mathematical integers: the rounding of doubles beyond 2^53 (`BalanceAvailability.ts:449`) is not modelled.
* The protocol variables are one number in `Imports` and have no part in the choice of the formula of fees in `Microblock`.
* The window of the timestamp and the order of the calls in the consistency checker; the chain id that `NetworkProvider` asks for once; `checkHeaderList`; the codecs of
  strings and of credentials and Base32; documents that link themselves (the recursion of the code does not end).
* The encodings of keys in `crypto/`, names of fields (a field is its place in the schema), and what loggers and formatters make.

## 7. Checking

    tlc -workers 2 -config <run>.cfg <module>.tla
    tlapm <module>Proofs.tla

`PROJECT.json` names the module of each run, and whether it passes or ends with the violation of section 5.
