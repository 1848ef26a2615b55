-------------------------------- MODULE Schemas --------------------------------
(* The schemas of constants/schemas.ts and constants/sections.ts.  A field is known by
   its place in the schema, so that a schema is the sequence of the types of its fields
   and an object the sequence of their values. *)
EXTENDS Integers, Sequences

CONSTANTS ServerUrlLength,   \* bound: 100 in the code
          BlockchainKinds    \* bound: N_VIRTUAL_BLOCKCHAINS, 6 in the code

Unsized == -1

Item(type) == [type |-> type, array |-> FALSE, size |-> Unsized, fields |-> <<>>,
               optional |-> FALSE, inline |-> FALSE]

U8 == Item("uint8")
U16 == Item("uint16")
U24 == Item("uint24")
U32 == Item("uint32")
U48 == Item("uint48")
Str == Item("string")
Bool == Item("boolean")
Bytes == Item("binary")
Bin256 == Item("bin256")
HashStr == Item("hashString")

\* An object with the schema named in the item, or with a definition written in it.
Object(fields) == [Item("object") EXCEPT !.fields = fields]
Inline(fields) == [Object(fields) EXCEPT !.inline = TRUE]
Unspecified == Item("unspecified")
ArrayOf(item) == [item EXCEPT !.array = TRUE]
Sized(item, size) == [item EXCEPT !.size = size]
Optional(item) == [item EXCEPT !.optional = TRUE]

-----------------------------------------------------------------------------

Contract == [Error    |-> <<U8, U8, ArrayOf(Str)>>,
             Contract |-> <<Str, ArrayOf(Object(<<Str, Str, Str, Bool>>))>>]

MaskedPart == Object(<<U32, U32, Str>>)
MaskableField == Object(<<Str, ArrayOf(MaskedPart)>>)

RecordDescription ==
    [RecordDescription |->
       <<HashStr, Optional(HashStr), Unspecified,
         Optional(ArrayOf(Object(<<Str>>))), Optional(ArrayOf(Object(<<Str, Bool>>))),
         Optional(ArrayOf(Object(<<Str, Str>>))), Optional(ArrayOf(Object(<<Str, Str>>))),
         Optional(ArrayOf(Object(<<Str>>))), Optional(ArrayOf(MaskableField)),
         Str, Optional(Str), Optional(Str)>>]

AccountHistory == <<U48, Bin256, U8, U48, Bin256, U48, Bytes>>

Account == [AccountState   |-> <<U48, U48, Bin256, ArrayOf(Inline(<<U8, U48, Bytes>>))>>,
            AccountHistory |-> AccountHistory]

ProtocolVariables == Object(<<Str, U16, U16, U16, U16, U16, U16, U16, U16, U16>>)

VbStates ==
    [VirtualBlockchainState |-> <<U8, U32, U48, Bin256, Bytes>>,
     ProtocolVbState        |-> <<Bin256, ProtocolVariables,
                                  ArrayOf(Object(<<U16, Str, ProtocolVariables, Str>>))>>,
     AccountVbState         |-> <<U8, U48>>,
     ValidatorNodeVbState   |-> <<Bin256, U48, U48, U48>>,
     OrganizationVbState    |-> <<Bin256, U48>>,
     ApplicationVbState     |-> <<Bin256, U48>>]

AppLedgerVbState ==
    LET Heights == ArrayOf(Inline(<<U8, U48>>))
    IN [AppLedgerVbState |->
          <<ArrayOf(U8), ArrayOf(U8), Bin256, ArrayOf(Inline(<<Str, Bool, U8>>)),
            ArrayOf(Inline(<<Str, Bool, U48, U48, Heights, Heights>>))>>]

BlockInformation == <<Bin256, U48, Bytes, U48, U48>>
BlockContent == <<ArrayOf(Inline(<<Bin256, Bin256, U8, U48, U48, U48>>))>>
MicroblockInformation == <<U8, Bin256>>

Microblock == [Header  |-> <<Sized(Str, 4), U16, U8, U48, Bin256, U48, U24, U32, Bin256, Bin256>>,
               Section |-> <<U8, Bytes>>,
               Body    |-> <<ArrayOf(Object(<<U8, Bytes>>))>>]

\* In the order of their numbers, which start with 0.
BlockchainMessages ==
    <<<<Str>>, <<>>, <<U48, U48, U48, Sized(ArrayOf(U48), BlockchainKinds)>>, <<U48>>, BlockInformation,
      <<U48>>, BlockContent, <<Bin256>>, <<Bytes>>, <<Bin256, U48>>,
      <<Bool, Bool, Bytes, ArrayOf(Bytes)>>>>

NodeMessages ==
    BlockchainMessages \o
    <<<<Bin256>>, <<U8, Bin256, Bytes>>, <<Bin256>>,
      MicroblockInformation, <<ArrayOf(Bin256)>>, <<ArrayOf(Inline(<<Bin256, Bytes>>))>>, <<Bin256>>,
      Account.AccountState, <<Bin256, Bin256, U16>>, <<ArrayOf(Object(AccountHistory))>>, <<Bin256>>,
      <<Bin256>>, <<Bytes>>, <<Bin256>>, <<U8>>, <<ArrayOf(Bin256)>>, <<>>, <<ArrayOf(Str)>>>>

WalletMessages ==
    <<<<U8, Bytes, Bin256, U8>>, <<Bin256, U48>>, <<Bin256>>, <<U8, Bytes>>, <<Bin256>>, <<U8, Bytes>>,
      <<>>, <<Bin256>>, <<U8, Bytes>>>>

WalletQrCode == [WiQrCode |-> <<Bin256, U48, Sized(Str, ServerUrlLength)>>]

MlKemCiphertext == [MlKemCiphertext |-> <<Bytes, Bytes>>]

-----------------------------------------------------------------------------
(* Sections. *)

ProtocolSections == [SIGNATURE         |-> <<U8, Bytes>>,
                     PROTOCOL_CREATION |-> <<Bin256>>,
                     PROTOCOL_UPDATE   |-> <<U16, Str, Str, ProtocolVariables>>]

AccountSections ==
    [ACCOUNT_PUBLIC_KEY        |-> <<Bytes, U8>>,
     ACCOUNT_TOKEN_ISSUANCE    |-> <<U48>>,
     ACCOUNT_CREATION          |-> <<Bin256, U48>>,
     ACCOUNT_TRANSFER          |-> <<Bin256, U48, Str, Str>>,
     ACCOUNT_VESTING_TRANSFER  |-> <<Bin256, U48, Str, Str, U16, U16>>,
     ACCOUNT_ESCROW_TRANSFER   |-> <<Bin256, U48, Str, Str, Bin256, Bin256, U16>>,
     ACCOUNT_ESCROW_SETTLEMENT |-> <<Bool, Bin256>>,
     ACCOUNT_STAKE             |-> <<U48, U8, Bin256>>]

NodeSections == [VN_CREATION                        |-> <<Bin256>>,
                 VN_COMETBFT_PUBLIC_KEY_DECLARATION |-> <<Str, Str>>,
                 VN_RPC_ENDPOINT                    |-> <<Str>>,
                 VN_APPROVAL                        |-> <<Bool>>]

DescribedSections == [ORG_CREATION    |-> <<Bin256>>,
                      ORG_DESCRIPTION |-> <<Str, Str, Sized(Str, 2), Str>>,
                      APP_CREATION    |-> <<Bin256>>,
                      APP_DESCRIPTION |-> <<Str, Str, Str, Str>>]

LedgerSectionSchemas ==
    [APP_LEDGER_ALLOWED_SIG_SCHEMES  |-> <<ArrayOf(U8)>>,
     APP_LEDGER_ALLOWED_PKE_SCHEMES  |-> <<ArrayOf(U8)>>,
     APP_LEDGER_CREATION             |-> <<Bin256>>,
     APP_LEDGER_ACTOR_CREATION       |-> <<U8, U8, Str>>,
     APP_LEDGER_CHANNEL_CREATION     |-> <<U8, Bool, U8, Str>>,
     APP_LEDGER_SHARED_SECRET        |-> <<U8, U8, Bytes>>,
     APP_LEDGER_CHANNEL_INVITATION   |-> <<U8, U8, U8, Bytes>>,
     APP_LEDGER_ACTOR_SUBSCRIPTION   |-> <<U8, U8, Bin256, U8, Bytes, U8, Bytes>>,
     APP_LEDGER_PUBLIC_CHANNEL_DATA  |-> <<U8, Bytes>>,
     APP_LEDGER_PRIVATE_CHANNEL_DATA |-> <<U8, Bin256, Bytes>>,
     APP_LEDGER_AUTHOR               |-> <<U8>>,
     APP_LEDGER_ENDORSEMENT_REQUEST  |-> <<U8, Str>>]
=============================================================================
