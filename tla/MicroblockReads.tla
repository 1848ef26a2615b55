--------------------------- MODULE MicroblockReads ---------------------------
(* The reads of microblocks through a Provider: its store is asked first, then the
   node, of which the content is kept.  A world is what is around a call: the
   microblocks that are anchored, whether there is a network, whether the store keeps
   anything, and what it holds.  What belongs to a hash never changes and is named
   by it.  A call gives something and leaves a store behind. *)
EXTENDS SequencesExt, Functions, Lists, Inputs

CONSTANTS Hashes,     \* of microblocks, none of them a word for what is not there
          MaxAsked    \* bound: hashes in a list

ASSUME HashesAssumption == "null" \notin Hashes /\ "thrown" \notin Hashes /\ MaxAsked \in Nat

Thrown == <<"thrown">>
Nothing == <<"null">>
Got(part, hash) == <<part, hash>>

NothingHeld == [infos |-> {}, headers |-> {}, bodies |-> {}]

\* MemoryProvider keeps what it is given, NullMemoryProvider drops it.
Keep(world, kind, hashes) ==
    IF world.keeps THEN [world EXCEPT !.store[kind] = @ \cup hashes] ELSE world

Gives(result, world) == [result |-> result, store |-> world.store]

-----------------------------------------------------------------------------
(* The external provider: the node answers an error about a microblock it does not have
   and leaves out bodies it does not have; NullNetworkProvider has nothing. *)

AskInformation(world, hash) ==
    CASE ~world.network                           -> Nothing
      [] world.network /\ hash \in world.anchored -> Got("information", hash)
      [] OTHER                                    -> Thrown

AskBodies(world, hashes) ==
    IF world.network THEN Among(hashes, world.anchored) ELSE Nothing

-----------------------------------------------------------------------------
(* Provider. *)

GetMicroblockInformation(world, hash) ==
    LET answer == AskInformation(world, hash)
    IN IF hash \in world.store.infos \cap world.store.headers
       THEN Gives(Got("information", hash), world)
       ELSE Gives(answer, IF answer \in {Nothing, Thrown} THEN world
                          ELSE Keep(Keep(world, "infos", {hash}), "headers", {hash}))

\* The headers and chains that are received are not kept.
GetPart(world, part, held, hash) ==
    LET answer == AskInformation(world, hash)
    IN IF hash \in held \/ answer = Got("information", hash) THEN Gives(Got(part, hash), world)
       ELSE Gives(Thrown, world)

GetMicroblockHeader(world, hash) == GetPart(world, "header", world.store.headers, hash)
GetVirtualBlockchainId(world, hash) == GetPart(world, "chain", world.store.infos, hash)

GetMicroblockBody(world, hash) ==
    CASE hash \in world.store.bodies -> Gives(Got("body", hash), world)
      [] hash \notin world.store.bodies /\ AskBodies(world, <<hash>>) = <<hash>> ->
           Gives(Got("body", hash), Keep(world, "bodies", {hash}))
      [] OTHER -> Gives(Nothing, world)

\* AbstractProvider.loadMicroblockByMicroblockHash: the body is read after the header.
LoadMicroblock(world, hash) ==
    LET header == GetMicroblockHeader(world, hash)
        body == GetMicroblockBody(world, hash)
    IN CASE header.result = Thrown -> header
         [] header.result # Thrown /\ body.result = Nothing -> [body EXCEPT !.result = Thrown]
         [] OTHER -> [body EXCEPT !.result = Got("microblock", hash)]

\* Mutant: what is held is asked for as well.
GetListAskingAll(world, hashes) ==
    LET held == Among(hashes, world.store.bodies)
        received == AskBodies(world, hashes)
    IN CASE Len(held) = Len(hashes) -> Gives(held, world)
         [] Len(held) < Len(hashes) /\ received = Nothing -> Gives(Thrown, world)
         [] OTHER -> Gives(received \o held, Keep(world, "bodies", ToSet(received)))

\* The bodies that are received come first: their hashes are other objects than those
\* asked for, which the sort puts at -1.
GetListOfMicroblockBody(world, hashes) ==
    LET held == Among(hashes, world.store.bodies)
        missing == Among(hashes, ToSet(hashes) \ world.store.bodies)
        received == AskBodies(world, missing)
    IN CASE missing = <<>> -> Gives(held, world)
         [] missing # <<>> /\ received = Nothing -> Gives(Thrown, world)
         [] OTHER -> Gives(received \o held, Keep(world, "bodies", ToSet(received)))

ReadsOfOne(world, hash) ==
    [information |-> GetMicroblockInformation(world, hash),
     header      |-> GetMicroblockHeader(world, hash),
     chain       |-> GetVirtualBlockchainId(world, hash),
     body        |-> GetMicroblockBody(world, hash),
     microblock  |-> LoadMicroblock(world, hash)]

-----------------------------------------------------------------------------
(* A provider that reads microblocks while others are anchored. *)

\* Lists in which no hash is twice.
Lists == {list \in SeqOf(Hashes, MaxAsked) : IsInjective(list)}

NothingRead ==
    \E network, keeps \in BOOLEAN :
      input = [of |-> "reads",
               world |-> [network |-> network, keeps |-> keeps, anchored |-> {}, store |-> NothingHeld]]

\* A microblock is anchored, microblocks are read, or MemoryProvider is cleared.
AnchorOne ==
    /\ input.of = "reads"
    /\ \E hash \in Hashes \ input.world.anchored :
         input' = [input EXCEPT !.world.anchored = @ \cup {hash}]

ReadOne ==
    /\ input.of = "reads"
    /\ \E hash \in Hashes : \E read \in DOMAIN ReadsOfOne(input.world, hash) :
         input' = [input EXCEPT !.world.store = ReadsOfOne(input.world, hash)[read].store]

ReadList ==
    /\ input.of = "reads"
    /\ \E list \in Lists :
         input' = [input EXCEPT !.world.store = GetListOfMicroblockBody(input.world, list).store]

ClearStore ==
    /\ input.of = "reads"
    /\ input' = [input EXCEPT !.world.store = NothingHeld]

ReadAny == AnchorOne \/ ReadOne \/ ReadList \/ ClearStore

ReadsSpec == NothingRead /\ [][ReadAny]_input

\* Whatever was read or cleared before, a read gives what it gives with nothing held, and
\* without the network that or nothing.  Of the bodies in a list all that there are are
\* given, once each, in the order asked if all or none were held
\* (Provider.ts:139-269, AbstractProvider.ts:82-88, MemoryProvider.ts:33-161, NullMemoryProvider.ts:13-76).
ReadsAgree ==
    input.of = "reads" =>
      LET world == input.world
          online == [world EXCEPT !.network = TRUE]
          offline == [world EXCEPT !.network = FALSE]
          empty == [online EXCEPT !.store = NothingHeld]
      IN /\ \A hash \in Hashes :
              LET expected == ReadsOfOne(empty, hash)
                  now == ReadsOfOne(online, hash)
                  alone == ReadsOfOne(offline, hash)
              IN \A read \in DOMAIN expected :
                   /\ now[read].result = expected[read].result
                   /\ alone[read].result \in {expected[read].result, Nothing, Thrown}
         /\ \A list \in Lists :
              LET expected == GetListOfMicroblockBody(empty, list).result
                  now == GetListOfMicroblockBody(online, list).result
                  alone == GetListOfMicroblockBody(offline, list).result
                  held == ToSet(list) \cap world.store.bodies
              IN /\ ToSet(now) = ToSet(expected) /\ Len(now) = Len(expected)
                 /\ held \in {{}, ToSet(list)} => now = expected
                 /\ alone = IF held = ToSet(list) THEN list ELSE Thrown
=============================================================================
