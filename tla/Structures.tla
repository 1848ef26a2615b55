------------------------------ MODULE Structures ------------------------------
(* The layouts of microblocks.  A StructureChecker is a pointer that walks over the
   types of the sections; each checker makes its calls in order, and a check that
   fails ends the walk.  A walk is valid as long as none has failed. *)
EXTENDS Integers, FiniteSets, SequencesExt, FiniteSetsExt

Satisfies(constraint, count) ==
    CASE constraint = "ANY"          -> TRUE
      [] constraint = "ZERO"         -> count = 0
      [] constraint = "ONE"          -> count = 1
      [] constraint = "AT_LEAST_ONE" -> count >= 1
      [] constraint = "AT_MOST_ONE"  -> count <= 1

Start(types) == [types |-> types, pointer |-> 0, count |-> 0, valid |-> TRUE]

\* How many sections from the pointer on have one of these types, without a gap.
Leading(walk, wanted) ==
    LET others == {i \in walk.pointer + 1 .. Len(walk.types) : walk.types[i] \notin wanted}
    IN (IF others = {} THEN Len(walk.types) ELSE Min(others) - 1) - walk.pointer

Advanced(walk, count, holds) == [types |-> walk.types, pointer |-> walk.pointer + count,
                                 count |-> count, valid |-> walk.valid /\ holds]

Expects(walk, constraint, type) ==
    LET count == Leading(walk, {type})
    IN Advanced(walk, count, Satisfies(constraint, count))

\* Mutant: the group is not closed by a type it does not list, it goes on to the end.
GroupToTheEnd(walk, constraint, list) ==
    LET count == Len(walk.types) - walk.pointer
        CountOf(type) == Cardinality({i \in walk.pointer + 1 .. walk.pointer + count :
                                        walk.types[i] = type})
    IN Advanced(walk, count, /\ Satisfies(constraint, count)
                             /\ \A type \in DOMAIN list : Satisfies(list[type], CountOf(type)))

\* list gives the constraint of each type of the group.
Group(walk, constraint, list) ==
    LET count == Leading(walk, DOMAIN list)
        CountOf(type) == Cardinality({i \in walk.pointer + 1 .. walk.pointer + count :
                                        walk.types[i] = type})
    IN Advanced(walk, count, /\ Satisfies(constraint, count)
                             /\ \A type \in DOMAIN list : Satisfies(list[type], CountOf(type)))

EndsHere(walk) == walk.valid /\ walk.pointer = Len(walk.types)

\* How every checker ends.
Signed(walk) == EndsHere(Expects(Expects(walk, "ANY", "AUXILIARY_SIGNATURE"), "ONE", "SIGNATURE"))

-----------------------------------------------------------------------------

AccountTransactions == {"ACCOUNT_TRANSFER", "ACCOUNT_VESTING_TRANSFER", "ACCOUNT_STAKE",
                        "ACCOUNT_UNSTAKE", "ACCOUNT_ESCROW_TRANSFER", "CUSTOM"}

CheckAccount(types, first) ==
    LET settlement == Expects(Start(types), "AT_MOST_ONE", "ACCOUNT_ESCROW_SETTLEMENT")
    IN Signed(CASE first ->
                     Group(Expects(Start(types), "ONE", "ACCOUNT_PUBLIC_KEY"), "ONE",
                           [ACCOUNT_TOKEN_ISSUANCE |-> "AT_MOST_ONE",
                            ACCOUNT_CREATION       |-> "AT_MOST_ONE",
                            CUSTOM                 |-> "ANY"])
                [] ~first /\ settlement.count = 1 -> settlement
                [] OTHER ->
                     Group(Expects(settlement, "AT_MOST_ONE", "ACCOUNT_PUBLIC_KEY"), "AT_LEAST_ONE",
                           [type \in AccountTransactions |-> "ANY"]))

\* Mutant: a creation section is accepted in any microblock.
CheckDescribedWithCreation(types, first, creation, description) ==
    Signed(Group(Expects(Start(types), "AT_MOST_ONE", creation),
                 "AT_LEAST_ONE",
                 [type \in {description, "CUSTOM"} |->
                    IF type = "CUSTOM" THEN "ANY" ELSE "AT_MOST_ONE"]))

\* Organizations and applications have the same layout.
CheckDescribed(types, first, creation, description) ==
    Signed(Group(Expects(Start(types), IF first THEN "ONE" ELSE "ZERO", creation),
                 "AT_LEAST_ONE",
                 [type \in {description, "CUSTOM"} |->
                    IF type = "CUSTOM" THEN "ANY" ELSE "AT_MOST_ONE"]))

CheckOrganization(types, first) == CheckDescribed(types, first, "ORG_CREATION", "ORG_DESCRIPTION")

CheckApplication(types, first) == CheckDescribed(types, first, "APP_CREATION", "APP_DESCRIPTION")

CheckNode(types, first) ==
    LET approval == Expects(Start(types), "AT_MOST_ONE", "VN_APPROVAL")
        cancellation == Expects(approval, "AT_MOST_ONE", "VN_SLASHING_CANCELLATION")
        Declarations(walk) ==
            Group(Expects(walk, IF first THEN "ONE" ELSE "ZERO", "VN_CREATION"), "AT_LEAST_ONE",
                  [VN_COMETBFT_PUBLIC_KEY_DECLARATION |-> IF first THEN "ONE" ELSE "ZERO",
                   VN_RPC_ENDPOINT                    |-> IF first THEN "ONE" ELSE "AT_MOST_ONE",
                   CUSTOM                             |-> "ANY"])
    IN Signed(CASE first                                   -> Declarations(Start(types))
                [] ~first /\ approval.count = 1            -> approval
                [] ~first /\ approval.count # 1 /\ cancellation.count = 1 -> cancellation
                [] OTHER                                   -> Declarations(cancellation))

CheckProtocol(types, first) ==
    LET creation == Expects(Start(types), IF first THEN "ONE" ELSE "ZERO", "PROTOCOL_CREATION")
    IN Signed(IF first THEN creation
              ELSE Group(creation, "AT_MOST_ONE", [PROTOCOL_UPDATE |-> "ONE", CUSTOM |-> "ANY"]))

LedgerSections == {"APP_LEDGER_ACTOR_CREATION", "APP_LEDGER_ACTOR_SUBSCRIPTION",
                   "APP_LEDGER_ENDORSEMENT_REQUEST", "APP_LEDGER_AUTHOR",
                   "APP_LEDGER_PUBLIC_CHANNEL_DATA", "APP_LEDGER_PRIVATE_CHANNEL_DATA",
                   "APP_LEDGER_SHARED_SECRET", "APP_LEDGER_CHANNEL_CREATION",
                   "APP_LEDGER_CHANNEL_INVITATION", "ALLOWED_ADDITIONAL_WRITER", "CUSTOM"}

CheckLedger(types, first) ==
    Signed(Group(Expects(Start(types), IF first THEN "ONE" ELSE "ZERO", "APP_LEDGER_CREATION"),
                 "ANY", [type \in LedgerSections |-> "ANY"]))

\* checkMicroblockStructure of each kind of virtual blockchain.
CheckMicroblockStructure(kind, types, first) ==
    CASE kind = "account"      -> CheckAccount(types, first)
      [] kind = "organization" -> CheckOrganization(types, first)
      [] kind = "application"  -> CheckApplication(types, first)
      [] kind = "node"         -> CheckNode(types, first)
      [] kind = "protocol"     -> CheckProtocol(types, first)
      [] kind = "ledger"       -> CheckLedger(types, first)
=============================================================================
