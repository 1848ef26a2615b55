-------------------------------- MODULE Layouts --------------------------------
(* The layouts of microblocks said as what they are, sequences of types, to compare the
   walks of Structures with, and the sections of a microblock as an input that grows. *)
EXTENDS Chains, Structures, Inputs

CONSTANT MaxSections   \* bound: sections of a microblock

\* The types that take part in a layout, and one that has no place in it.
Alphabet(kind) ==
    {"AUXILIARY_SIGNATURE", "SIGNATURE", "CUSTOM"} \cup
    CASE kind = "account"      -> {"ACCOUNT_ESCROW_SETTLEMENT", "ACCOUNT_PUBLIC_KEY", "ACCOUNT_CREATION",
                                   "ACCOUNT_TOKEN_ISSUANCE", "ACCOUNT_TRANSFER"}
      [] kind = "organization" -> {"ORG_CREATION", "ORG_DESCRIPTION", "APP_CREATION"}
      [] kind = "application"  -> {"APP_CREATION", "APP_DESCRIPTION", "ORG_CREATION"}
      [] kind = "node"         -> {"VN_APPROVAL", "VN_SLASHING_CANCELLATION", "VN_CREATION",
                                   "VN_COMETBFT_PUBLIC_KEY_DECLARATION", "VN_RPC_ENDPOINT"}
      [] kind = "protocol"     -> {"PROTOCOL_CREATION", "PROTOCOL_UPDATE"}
      [] kind = "ledger"       -> {"APP_LEDGER_CREATION", "APP_LEDGER_AUTHOR",
                                   "APP_LEDGER_ALLOWED_SIG_SCHEMES"}

LayoutKinds == Kinds \cup {"ledger"}

Count(body, type) == Cardinality({i \in DOMAIN body : body[i] = type})

IsOver(body, types) == ToSet(body) \subseteq types

\* Between the opening of a first microblock and its signatures.
Body(kind, body, first) ==
    CASE kind = "account" ->
           IsOver(body, AccountTransactions) /\ body # <<>>
      [] kind \in {"organization", "application"} ->
           LET description == IF kind = "organization" THEN "ORG_DESCRIPTION" ELSE "APP_DESCRIPTION"
           IN body # <<>> /\ IsOver(body, {description, "CUSTOM"}) /\ Count(body, description) <= 1
      [] kind = "node" ->
           LET declared == Count(body, "VN_COMETBFT_PUBLIC_KEY_DECLARATION")
               endpoints == Count(body, "VN_RPC_ENDPOINT")
           IN /\ body # <<>>
              /\ IsOver(body, {"VN_COMETBFT_PUBLIC_KEY_DECLARATION", "VN_RPC_ENDPOINT", "CUSTOM"})
              /\ IF first THEN declared = 1 /\ endpoints = 1 ELSE declared = 0 /\ endpoints <= 1
      [] kind = "protocol" -> body = IF first THEN <<>> ELSE <<"PROTOCOL_UPDATE">>
      [] kind = "ledger"   -> IsOver(body, LedgerSections)

Opening(kind) == CASE kind = "account"      -> "ACCOUNT_PUBLIC_KEY"
                   [] kind = "organization" -> "ORG_CREATION"
                   [] kind = "application"  -> "APP_CREATION"
                   [] kind = "node"         -> "VN_CREATION"
                   [] kind = "protocol"     -> "PROTOCOL_CREATION"
                   [] kind = "ledger"       -> "APP_LEDGER_CREATION"

\* Without its signatures: a first microblock opens its chain, a later one of an account
\* may change the key, and a few sections stand alone.
Content(kind, content, first) ==
    LET opened == content # <<>> /\ Head(content) = Opening(kind)
    IN CASE kind = "account" /\ first ->
              /\ opened
              /\ Len(content) = 2
              /\ content[2] \in {"ACCOUNT_TOKEN_ISSUANCE", "ACCOUNT_CREATION", "CUSTOM"}
         [] kind = "account" /\ ~first ->
              \/ content = <<"ACCOUNT_ESCROW_SETTLEMENT">>
              \/ Body(kind, IF opened THEN Tail(content) ELSE content, first)
         [] kind # "account" /\ first -> opened /\ Body(kind, Tail(content), first)
         [] OTHER -> \/ kind = "node" /\ content \in {<<"VN_APPROVAL">>, <<"VN_SLASHING_CANCELLATION">>}
                     \/ Body(kind, content, first)

\* One signature at the end, and auxiliary signatures right before it.
Layout(kind, types, first) ==
    \E n \in 0 .. Len(types) - 1 :
      /\ types[Len(types)] = "SIGNATURE"
      /\ \A i \in n + 1 .. Len(types) - 1 : types[i] = "AUXILIARY_SIGNATURE"
      /\ Content(kind, SubSeq(types, 1, n), first)

\* The walk accepts what the layout describes, and what it accepts of a node has the
\* declarations that the updater counts.
WalkAgrees(kind, types, first) ==
    /\ CheckMicroblockStructure(kind, types, first) <=> Layout(kind, types, first)
    /\ kind = "node" /\ Layout(kind, types, first) =>
         ~NodeThrows([height   |-> IF first THEN 1 ELSE 2,
                      sections |-> [i \in DOMAIN types |-> [type |-> types[i]]]])

-----------------------------------------------------------------------------
(* A microblock that gets one section after the other. *)

NoSections == \E kind \in LayoutKinds, first \in BOOLEAN :
                input = [of |-> "layout", kind |-> kind, first |-> first, types |-> <<>>]

AddSection ==
    /\ input.of = "layout"
    /\ Len(input.types) < MaxSections
    /\ \E type \in Alphabet(input.kind) : input' = [input EXCEPT !.types = Append(@, type)]

LayoutSpec == NoSections /\ [][AddSection]_input

\* The walk of a structure checker accepts exactly the sequences of sections that its
\* layout describes, and what it accepts of a node has the declarations that the updater
\* counts (StructureChecker.ts:75-137 and the six checkers).
LayoutAgrees == input.of = "layout" => WalkAgrees(input.kind, input.types, input.first)
=============================================================================
