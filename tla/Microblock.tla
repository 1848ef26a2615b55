------------------------------- MODULE Microblock -------------------------------
(* One microblock object: its setters, its sections, its signatures and its hash,
   and what a node makes of it.  Hashes are injective, so a hash is the value hashed:
   the body hash is a sequence of sections, the microblock's hash a header.  A signature
   is the header that was signed, and by whom.
   Signing and the computation of gas are asynchronous: a task per signer, whose steps
   other calls may come between. *)
EXTENDS Fees, FiniteSets

CONSTANTS Owners,       \* private keys that seal; each has a scheme of its own
          Partners,     \* private keys that make auxiliary signatures
          Tags,         \* tags of auxiliary signatures
          Contents,     \* sections that are not signatures
          Accounts,     \* payers of fees
          NoAccount,    \* the null hash: no payer
          Seed,         \* previous hash of a genesis microblock, holds the expiration
          Previous,     \* hash of the microblock before
          Expiration,   \* of the chain, in ticks
          GasPrices, Gases,       \* what setGasPrice and setGas are called with
          MaxCalls,     \* bound: calls of the object's methods
          MaxClock      \* bound: ticks

Signers == Owners \cup Partners

ASSUME MicroblockAssumption == /\ AdditionalCosts \in [Signers -> Nat]
                               /\ Expiration \in Nat /\ MaxCalls \in Nat /\ MaxClock \in Nat
                               /\ GasPrices \subseteq Nat /\ Gases \subseteq Nat
                               /\ NoAccount \notin Accounts /\ Seed # Previous

VARIABLES header, sections,
          hash,      \* the header that the stored hash was computed from
          task,      \* per signer: the call in progress
          signed,    \* history: what the signers have signed
          clock, calls

vars == <<header, sections, hash, task, signed, clock, calls>>

-----------------------------------------------------------------------------
(* Sections and signatures *)

Content(c) == [type |-> "content", content |-> c]
SignatureSection(k, message) == [type |-> "signature", key |-> k, signature |-> message]
AuxiliarySection(k, tag, message) ==
    [type |-> "auxiliary", key |-> k, tag |-> tag, signature |-> message]

CountOf(type) == Cardinality({i \in DOMAIN sections : sections[i].type = type})
TaggedWith(s, tag) == {i \in DOMAIN s : s[i].type = "auxiliary" /\ s[i].tag = tag}

\* What is signed: the header with the hash of the sections before the signature.
Message(h, signedSections, includeGas) ==
    [height |-> h.height, previousHash |-> h.previousHash, timestamp |-> h.timestamp,
     feesPayerAccount |-> h.feesPayerAccount, bodyHash |-> signedSections,
     gas |-> IF includeGas THEN h.gas ELSE 0,
     gasPrice |-> IF includeGas THEN h.gasPrice ELSE 0]

Before(i) == SubSeq(sections, 1, i - 1)

\* verifySignatureOfSections, with the public key of k
Verifies(i, k, includeGas) ==
    /\ sections[i].key = k
    /\ sections[i].signature = Message(header, Before(i), includeGas)

\* Mutant: gas is left out as for an auxiliary signature.
VerifySignatureWithoutGas(k) ==
    /\ CountOf("signature") = 1
    /\ Last(sections).type = "signature"
    /\ Verifies(Len(sections), k, FALSE)

\* verifySignature is true: it throws unless the only signature is the last section.
VerifySignature(k) ==
    /\ CountOf("signature") = 1
    /\ Last(sections).type = "signature"
    /\ Verifies(Len(sections), k, TRUE)

\* Mutant: gas is part of what an auxiliary signature covers.
VerifyAuxiliaryWithGas(k, tag) ==
    \E i \in TaggedWith(sections, tag) :
       TaggedWith(sections, tag) = {i} /\ Verifies(i, k, TRUE)

\* verifyAuxiliarySignature is true: it throws unless one section has the tag.
VerifyAuxiliarySignature(k, tag) ==
    \E i \in TaggedWith(sections, tag) :
       TaggedWith(sections, tag) = {i} /\ Verifies(i, k, FALSE)

-----------------------------------------------------------------------------
(* Transport and the node's checks *)

\* loadFromHeaderAndBody: the body must have the hash the header says.
Loads(h, body) == h.bodyHash = body

\* Mutant: the sealing signature is paid for.
SizeWithSignature(body) == Len(body)

\* computeSizeInBytesOfMicroblock: every section but a signature at the end, of size 1.
Size(body) == IF body # <<>> /\ Last(body).type = "signature" THEN Len(body) - 1 ELSE Len(body)

\* Linked to the chain: the expiration is found in the seed or through the previous microblock.
Linked(h) == (h.height = 1) <=> (h.previousHash = Seed)

GasAt(time, scheme) == ComputeGas(scheme, Size(sections), Expiration, time)

-----------------------------------------------------------------------------
(* The object *)

GenesisHeader(account) == [height |-> 1, previousHash |-> Seed, timestamp |-> 0, gas |-> 0,
                           gasPrice |-> 0, bodyHash |-> <<>>, feesPayerAccount |-> account]
Idle == [stage |-> "idle"]

Init == /\ header = GenesisHeader(NoAccount)
        /\ sections = <<>>
        /\ hash = header
        /\ task = [k \in Signers |-> Idle]
        /\ signed = {}
        /\ clock = 0 /\ calls = 0

Call == calls < MaxCalls /\ calls' = calls + 1

\* The header is changed and hashed again.
SetHeader(h) == header' = h /\ hash' = h

AddSections(added) == /\ sections' = sections \o added
                      /\ SetHeader([header EXCEPT !.bodyHash = sections \o added])

SetTimestamp == /\ Call
                /\ SetHeader([header EXCEPT !.timestamp = clock])
                /\ UNCHANGED <<sections, task, signed, clock>>

\* Mutant: the hash is left.
SetGasOnly(gas) == /\ Call
                   /\ header' = [header EXCEPT !.gas = gas]
                   /\ UNCHANGED <<hash, sections, task, signed, clock>>

SetGas(gas) == /\ Call
               /\ SetHeader([header EXCEPT !.gas = gas])
               /\ UNCHANGED <<sections, task, signed, clock>>

SetGasPrice(price) == /\ Call
                      /\ SetHeader([header EXCEPT !.gasPrice = price])
                      /\ UNCHANGED <<sections, task, signed, clock>>

SetFeesPayerAccount(account) == /\ Call
                                /\ SetHeader([header EXCEPT !.feesPayerAccount = account])
                                /\ UNCHANGED <<sections, task, signed, clock>>

\* The stored hash is left as it is.
SetPreviousHash(previous) == /\ Call
                             /\ header' = [header EXCEPT !.previousHash = previous]
                             /\ UNCHANGED <<hash, sections, task, signed, clock>>

SetAsSuccessor == /\ Call
                  /\ SetHeader([header EXCEPT !.previousHash = Previous, !.height = 2])
                  /\ UNCHANGED <<sections, task, signed, clock>>

AddSection(section) == /\ Call
                       /\ AddSections(<<section>>)
                       /\ UNCHANGED <<task, signed, clock>>

\* The section is gone before the check that throws, which finds the microblock empty
\* also when it was not: then neither hash is computed.
PopSection == /\ Call
              /\ sections # <<>>
              /\ sections' = Front(sections)
              /\ IF sections' = <<>> THEN UNCHANGED <<header, hash>>
                 ELSE SetHeader([header EXCEPT !.bodyHash = sections'])
              /\ UNCHANGED <<task, signed, clock>>

-----------------------------------------------------------------------------
(* Signing *)

\* What a signer saw: with the time its gas was computed for, if it was.
Signature(k, h, includeGas, gasTime) ==
    [key |-> k, header |-> h, sections |-> sections, includeGas |-> includeGas, gasTime |-> gasTime]

\* seal up to its await: the payer is set, the header is signed.
Sign(k, h, hashed, account, includeGas, gasTime) ==
    LET sealed == IF account = NoAccount THEN h ELSE [h EXCEPT !.feesPayerAccount = account]
    IN /\ header' = sealed
       /\ hash' = IF account = NoAccount THEN hashed ELSE sealed
       /\ signed' = signed \cup {Signature(k, sealed, includeGas, gasTime)}
       /\ task' = [task EXCEPT ![k] = [stage |-> "signing",
                     section |-> SignatureSection(k, Message(sealed, sections, includeGas))]]
       /\ UNCHANGED <<sections, clock>>

Seal(k, account, includeGas) ==
    /\ Call
    /\ task[k] = Idle
    /\ Sign(k, header, hash, account, includeGas, {})

\* An auxiliary signer signs without gas; the section is added when it has.
SignAuxiliary(k, tag) ==
    /\ Call
    /\ task[k] = Idle
    /\ signed' = signed \cup {Signature(k, header, FALSE, {})}
    /\ task' = [task EXCEPT ![k] = [stage |-> "signing",
                  section |-> AuxiliarySection(k, tag, Message(header, sections, FALSE))]]
    /\ UNCHANGED <<header, hash, sections, clock>>

\* The signature is there and is added, after whatever was added meanwhile.
AddSignature(k) ==
    /\ task[k].stage = "signing"
    /\ AddSections(<<task[k].section>>)
    /\ task' = [task EXCEPT ![k] = Idle]
    /\ UNCHANGED <<signed, clock, calls>>

\* setGasAndSeal takes the time now, and the size after it asked for the formula ...
SetGasAndSeal(k, account, includeGas) ==
    /\ Call
    /\ task[k] = Idle
    /\ Linked(header)
    /\ task' = [task EXCEPT ![k] = [stage |-> "formula", account |-> account, includeGas |-> includeGas,
                                    time |-> clock]]
    /\ UNCHANGED <<header, hash, sections, signed, clock>>

MeasureSize(k) ==
    /\ task[k].stage = "formula"
    /\ task' = [task EXCEPT ![k] = [stage |-> "price", account |-> task[k].account,
                                    includeGas |-> task[k].includeGas, time |-> task[k].time,
                                    measured |-> sections, gas |-> GasAt(task[k].time, k)]]
    /\ UNCHANGED <<header, hash, sections, signed, clock, calls>>

\* ... and sets the gas and signs when it has the policy.
SetComputedGas(k) ==
    /\ task[k].stage = "price"
    /\ LET h == [header EXCEPT !.gas = task[k].gas]
       IN Sign(k, h, h, task[k].account, task[k].includeGas,
               IF task[k].measured = sections THEN {task[k].time} ELSE {})
    /\ UNCHANGED calls

\* The provider or the key throws: what was set before stays.
TaskThrows(k) ==
    /\ task[k] # Idle
    /\ task' = [task EXCEPT ![k] = Idle]
    /\ UNCHANGED <<header, hash, sections, signed, clock, calls>>

Tick == /\ clock < MaxClock
        /\ clock' = clock + 1
        /\ UNCHANGED <<header, sections, hash, task, signed, calls>>

Next == \/ \E gas \in Gases : SetGas(gas)
        \/ \E price \in GasPrices : SetGasPrice(price)
        \/ \E account \in Accounts : SetFeesPayerAccount(account)
        \/ \E previous \in {Seed, Previous} : SetPreviousHash(previous)
        \/ \E c \in Contents : AddSection(Content(c))
        \/ \E k \in Owners :
              \/ \E account \in Accounts \cup {NoAccount} :
                    \E includeGas \in BOOLEAN : \/ Seal(k, account, includeGas)
                                               \/ SetGasAndSeal(k, account, includeGas)
              \/ MeasureSize(k) \/ SetComputedGas(k)
        \/ \E k \in Partners, tag \in Tags : SignAuxiliary(k, tag)
        \/ \E k \in Signers : AddSignature(k) \/ TaskThrows(k)
        \/ SetTimestamp \/ SetAsSuccessor \/ PopSection
        \/ Tick

Spec == Init /\ [][Next]_vars

-----------------------------------------------------------------------------
(* Properties *)

\* Header g is h as far as a signature without gas covers it.
AgreeButGas(g, h) == /\ g.height = h.height /\ g.previousHash = h.previousHash
                     /\ g.timestamp = h.timestamp /\ g.feesPayerAccount = h.feesPayerAccount

\* A seal that includes gas agrees to the header's; one that does not only stands where
\* nothing is to be paid.
AgreesToGas(g) == IF g.includeGas
                  THEN g.header.gas = header.gas /\ g.header.gasPrice = header.gasPrice
                  ELSE header.gas = 0 /\ header.gasPrice = 0

Covers(g, k, n) == /\ g.key = k /\ AgreeButGas(g.header, header)
                   /\ g.sections = SubSeq(sections, 1, n)

\* Whatever was called in between and while signers were at work: what verifies under a
\* key is what its owner signed, header and sections before the signature; under a seal
\* also the gas and its price.
VerifiedIsSigned ==
    \A k \in Signers :
       /\ VerifySignature(k) =>
            \E g \in signed : Covers(g, k, Len(sections) - 1) /\ AgreesToGas(g)
       /\ \A tag \in Tags : VerifyAuxiliarySignature(k, tag) =>
            \E g \in signed, i \in TaggedWith(sections, tag) : Covers(g, k, i - 1)

\* An auxiliary signature stays good while others add sections, sign, set the gas and
\* seal, as long as the seal names no other payer.
AuxiliarySurvives ==
    [][\A k \in Signers, tag \in Tags :
          /\ VerifyAuxiliarySignature(k, tag)
          /\ AgreeButGas(header, header')
          /\ IsPrefix(sections, sections')
          /\ TaggedWith(sections', tag) = TaggedWith(sections, tag)
          => VerifyAuxiliarySignature(k, tag)']_vars

\* A receiver can load what is serialized at any time, unless the only section was
\* popped, which throws; and the stored hash, by which the microblock is known when it
\* is appended, is the header's in all but a previous hash set last.
HashesAreRenewed ==
    /\ sections # <<>> => Loads(header, sections)
    /\ [hash EXCEPT !.previousHash = header.previousHash] = header

\* Sealed with the gas computed for it, as far as no section came between, by a seal that
\* covers it.
SealedWithGas(k, time) ==
    /\ VerifySignature(k) /\ Linked(header)
    /\ \E g \in signed : /\ Covers(g, k, Len(sections) - 1)
                        /\ g.includeGas /\ AgreesToGas(g)
                        /\ time \in g.gasTime

\* checkGasOrFail: whoever computes the gas of a sealed microblock for the time it was
\* sealed at finds what setGasAndSeal set before there was a signature, and whoever
\* computes it later finds no more.
GasAgreed == \A k \in Signers, time \in 0 .. clock : SealedWithGas(k, time) =>
                /\ GasAt(time, k) = header.gas
                /\ GasAt(clock, k) <= header.gas
================================================================================
