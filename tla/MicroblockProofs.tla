--------------------------- MODULE MicroblockProofs ---------------------------
(* What verifies was signed, what is hashed is renewed, and the gas that was sealed is
   enough: for any number of signers, whatever is called between the steps of their
   tasks. *)
EXTENDS Microblock, SumsProofs, FiniteSetTheorems, SequenceTheorems, TLAPS

\* A section is no signature, or one of those made.
Genuine(sec, made) ==
    sec.type # "content" =>
      \E g \in made : g.key = sec.key /\ sec.signature = Message(g.header, g.sections, g.includeGas)

\* The invariant: every signature in the microblock, or about to be added to it, was made
\* by its signer.  Sections and tasks have no type that a set could be.
SectionsGenuine == /\ \E S : sections \in Seq(S)
                   /\ \A i \in DOMAIN sections : Genuine(sections[i], signed)
TasksGenuine == /\ \E T : task \in [Signers -> T]
                /\ \A k \in Signers : task[k].stage = "signing" => Genuine(task[k].section, signed)
AllGenuine == SectionsGenuine /\ TasksGenuine

\* More signatures made, the same sections genuine.
LEMMA GenuineGrows ==
    ASSUME NEW sec, NEW made, NEW more, made \subseteq more, Genuine(sec, made)
    PROVE  Genuine(sec, more)
BY DEF Genuine

\* A genuine section added leaves all of them genuine.
LEMMA AddedGenuine ==
    ASSUME SectionsGenuine, NEW sec, Genuine(sec, signed),
           sections' = sections \o <<sec>>, UNCHANGED signed
    PROVE  SectionsGenuine'
<1>1. PICK S : sections \in Seq(S)  BY DEF SectionsGenuine
<1> DEFINE T == S \cup {sec}
<1>2. sections \in Seq(T) /\ <<sec>> \in Seq(T)  BY <1>1
<1>3. sections' \in Seq(T)  BY <1>2
<1>4. ASSUME NEW i \in DOMAIN sections'
      PROVE  Genuine(sections'[i], signed)
  <2> HIDE DEF T
  <2>1. Len(sections') = Len(sections) + 1 /\ i \in 1 .. Len(sections) + 1  BY <1>2, <1>3, <1>4
  <2>2. CASE i \in 1 .. Len(sections)
    <3>1. sections'[i] = sections[i]  BY <1>2, <2>2
    <3>2. i \in DOMAIN sections  BY <1>2, <2>2
    <3> QED  BY <3>1, <3>2 DEF SectionsGenuine
  <2>3. CASE i = Len(sections) + 1
    <3>1. sections'[i] = sec  BY <1>2, <2>3
    <3> QED  BY <3>1
  <2> QED  BY <2>1, <2>2, <2>3
<1> QED  BY <1>3, <1>4 DEF SectionsGenuine

\* A signer that begins to sign adds to what was made and puts it into its task.
LEMMA SigningGenuine ==
    ASSUME AllGenuine, NEW k \in Signers, NEW g, NEW sec,
           signed' = signed \cup {g}, Genuine(sec, {g}), UNCHANGED sections,
           task' = [task EXCEPT ![k] = [stage |-> "signing", section |-> sec]]
    PROVE  AllGenuine'
<1>1. signed \subseteq signed' /\ {g} \subseteq signed'  OBVIOUS
<1>2. SectionsGenuine'
  <2>1. \A i \in DOMAIN sections : Genuine(sections[i], signed')
    BY <1>1, GenuineGrows DEF AllGenuine, SectionsGenuine
  <2> QED  BY <2>1 DEF AllGenuine, SectionsGenuine
<1>3. PICK T : task \in [Signers -> T]  BY DEF AllGenuine, TasksGenuine
<1>4. task' \in [Signers -> T \cup {[stage |-> "signing", section |-> sec]}]  BY <1>3
<1>5. ASSUME NEW j \in Signers, task'[j].stage = "signing"
      PROVE  Genuine(task'[j].section, signed')
  <2>1. CASE j = k
    <3>1. task'[j].section = sec  BY <1>3, <2>1
    <3> QED  BY <1>1, <3>1, GenuineGrows
  <2>2. CASE j # k
    <3>1. task'[j] = task[j]  BY <1>3, <2>2
    <3>2. Genuine(task[j].section, signed)  BY <1>5, <3>1 DEF AllGenuine, TasksGenuine
    <3> QED  BY <1>1, <3>1, <3>2, GenuineGrows
  <2> QED  BY <2>1, <2>2
<1> QED  BY <1>2, <1>4, <1>5 DEF AllGenuine, TasksGenuine

\* A task that goes to a stage without a signature.
LEMMA OtherStageGenuine ==
    ASSUME TasksGenuine, NEW k \in Signers, NEW stage, stage.stage # "signing",
           task' = [task EXCEPT ![k] = stage], UNCHANGED signed
    PROVE  TasksGenuine'
<1>1. PICK T : task \in [Signers -> T]  BY DEF TasksGenuine
<1>2. task' \in [Signers -> T \cup {stage}]  BY <1>1
<1>3. ASSUME NEW j \in Signers, task'[j].stage = "signing"
      PROVE  Genuine(task'[j].section, signed')
  <2>1. j # k  BY <1>1, <1>3
  <2>2. task'[j] = task[j]  BY <1>1, <2>1
  <2> QED  BY <1>3, <2>2 DEF TasksGenuine
<1> QED  BY <1>2, <1>3 DEF TasksGenuine

\* Nothing that this is about changes.
LEMMA UnchangedGenuine ==
    ASSUME AllGenuine, UNCHANGED <<sections, task, signed>>
    PROVE  AllGenuine'
BY DEF AllGenuine, SectionsGenuine, TasksGenuine

\* seal, with or without gas set in the same step.
LEMMA SealGenuine ==
    ASSUME AllGenuine, NEW k \in Signers, NEW h, NEW hashed, NEW account, NEW includeGas, NEW gasTime,
           Sign(k, h, hashed, account, includeGas, gasTime)
    PROVE  AllGenuine'
<1> DEFINE sealed == IF account = NoAccount THEN h ELSE [h EXCEPT !.feesPayerAccount = account]
           g == Signature(k, sealed, includeGas, gasTime)
           sec == SignatureSection(k, Message(sealed, sections, includeGas))
<1>1. /\ signed' = signed \cup {g} /\ UNCHANGED sections
      /\ task' = [task EXCEPT ![k] = [stage |-> "signing", section |-> sec]]
  BY DEF Sign
<1>2. /\ g.key = sec.key /\ g.header = sealed /\ g.sections = sections
      /\ g.includeGas = includeGas /\ sec.signature = Message(sealed, sections, includeGas)
  <2> HIDE DEF sealed
  <2> QED  BY DEF Signature, SignatureSection
<1>3. Genuine(sec, {g})
  <2> HIDE DEF g, sec, sealed
  <2> QED  BY <1>2 DEF Genuine
<1> HIDE DEF g, sec, sealed
<1> QED  BY <1>1, <1>3, SigningGenuine

LEMMA AuxiliaryGenuine ==
    ASSUME AllGenuine, NEW k \in Partners, NEW tag \in Tags, SignAuxiliary(k, tag)
    PROVE  AllGenuine'
<1> DEFINE g == Signature(k, header, FALSE, {})
           sec == AuxiliarySection(k, tag, Message(header, sections, FALSE))
<1>1. /\ signed' = signed \cup {g} /\ UNCHANGED sections
      /\ task' = [task EXCEPT ![k] = [stage |-> "signing", section |-> sec]]
  BY DEF SignAuxiliary
<1>2. /\ g.key = sec.key /\ g.header = header /\ g.sections = sections /\ g.includeGas = FALSE
      /\ sec.signature = Message(header, sections, FALSE)
  BY DEF Signature, AuxiliarySection
<1>3. Genuine(sec, {g})
  <2> HIDE DEF g, sec
  <2> QED  BY <1>2 DEF Genuine
<1> HIDE DEF g, sec
<1> QED  BY <1>1, <1>3, SigningGenuine DEF Signers

LEMMA PopGenuine ==
    ASSUME AllGenuine, PopSection
    PROVE  AllGenuine'
<1>1. PICK S : sections \in Seq(S)  BY DEF AllGenuine, SectionsGenuine
<1>2. sections # <<>> /\ sections' = SubSeq(sections, 1, Len(sections) - 1) /\ UNCHANGED <<task, signed>>
  BY DEF PopSection, Front
<1>3. Len(sections) \in Nat \ {0}  BY <1>1, <1>2
<1>4. sections' \in Seq(S) /\ DOMAIN sections' = 1 .. Len(sections) - 1
  BY <1>1, <1>2, <1>3
<1>5. \A i \in DOMAIN sections' : i \in DOMAIN sections /\ sections'[i] = sections[i]
  BY <1>1, <1>2, <1>3, <1>4
<1> QED  BY <1>2, <1>4, <1>5 DEF AllGenuine, SectionsGenuine, TasksGenuine

\* The task is over, with its section added or not.
LEMMA TaskEndGenuine ==
    ASSUME AllGenuine, NEW k \in Signers, AddSignature(k) \/ TaskThrows(k)
    PROVE  AllGenuine'
<1>1. task' = [task EXCEPT ![k] = Idle] /\ UNCHANGED signed  BY DEF AddSignature, TaskThrows
<1>2. Idle.stage # "signing"  BY DEF Idle
<1>3. TasksGenuine'
  <2> HIDE DEF Idle
  <2> QED  BY <1>1, <1>2, OtherStageGenuine DEF AllGenuine
<1>4. CASE AddSignature(k)
  <2>1. Genuine(task[k].section, signed)  BY <1>4 DEF AddSignature, AllGenuine, TasksGenuine
  <2>2. sections' = sections \o <<task[k].section>>  BY <1>4 DEF AddSignature, AddSections
  <2> QED  BY <1>1, <1>3, <2>1, <2>2, AddedGenuine DEF AllGenuine
<1>5. CASE TaskThrows(k)
  BY <1>3, <1>5 DEF TaskThrows, AllGenuine, SectionsGenuine
<1> QED  BY <1>4, <1>5

LEMMA GasTaskGenuine ==
    ASSUME AllGenuine, NEW k \in Owners, NEW account, NEW includeGas,
           SetGasAndSeal(k, account, includeGas) \/ MeasureSize(k)
    PROVE  AllGenuine'
<1>1. UNCHANGED <<sections, signed>>  BY DEF SetGasAndSeal, MeasureSize
<1>2. PICK stage : stage.stage # "signing" /\ task' = [task EXCEPT ![k] = stage]
  <2>1. CASE SetGasAndSeal(k, account, includeGas)
    <3> DEFINE stage == [stage |-> "formula", account |-> account, includeGas |-> includeGas,
                         time |-> clock]
    <3>1. stage.stage # "signing" /\ task' = [task EXCEPT ![k] = stage]  BY <2>1 DEF SetGasAndSeal
    <3> QED  BY <3>1
  <2>2. CASE MeasureSize(k)
    <3> DEFINE stage == [stage |-> "price", account |-> task[k].account,
                         includeGas |-> task[k].includeGas, time |-> task[k].time,
                         measured |-> sections, gas |-> GasAt(task[k].time, k)]
    <3>1. stage.stage # "signing" /\ task' = [task EXCEPT ![k] = stage]  BY <2>2 DEF MeasureSize
    <3> QED  BY <3>1
  <2> QED  BY <2>1, <2>2
<1>3. TasksGenuine'  BY <1>1, <1>2, OtherStageGenuine DEF AllGenuine, Signers
<1> QED  BY <1>1, <1>3 DEF AllGenuine, SectionsGenuine

LEMMA ContentGenuine ==
    ASSUME AllGenuine, NEW c \in Contents, AddSection(Content(c))
    PROVE  AllGenuine'
<1>1. Genuine(Content(c), signed)  BY DEF Genuine, Content
<1>2. sections' = sections \o <<Content(c)>> /\ UNCHANGED <<task, signed>>
  BY DEF AddSection, AddSections
<1> QED  BY <1>1, <1>2, AddedGenuine DEF AllGenuine, TasksGenuine

LEMMA NextGenuine ==
    ASSUME AllGenuine, [Next]_vars
    PROVE  AllGenuine'
<1> USE UnchangedGenuine
<1>1. CASE \E gas \in Gases : SetGas(gas)  BY <1>1 DEF SetGas
<1>2. CASE \E price \in GasPrices : SetGasPrice(price)  BY <1>2 DEF SetGasPrice
<1>3. CASE \E account \in Accounts : SetFeesPayerAccount(account)  BY <1>3 DEF SetFeesPayerAccount
<1>4. CASE \E previous \in {Seed, Previous} : SetPreviousHash(previous)  BY <1>4 DEF SetPreviousHash
<1>5. CASE \E c \in Contents : AddSection(Content(c))  BY <1>5, ContentGenuine
<1>6. CASE \E k \in Owners, account \in Accounts \cup {NoAccount}, includeGas \in BOOLEAN :
             Seal(k, account, includeGas)
  BY <1>6, SealGenuine DEF Seal, Signers
<1>7. CASE \E k \in Owners, account \in Accounts \cup {NoAccount}, includeGas \in BOOLEAN :
             SetGasAndSeal(k, account, includeGas)
  BY <1>7, GasTaskGenuine
<1>8. CASE \E k \in Owners : MeasureSize(k)  BY <1>8, GasTaskGenuine
<1>9. CASE \E k \in Owners : SetComputedGas(k)  BY <1>9, SealGenuine DEF SetComputedGas, Signers
<1>10. CASE \E k \in Partners, tag \in Tags : SignAuxiliary(k, tag)  BY <1>10, AuxiliaryGenuine
<1>11. CASE \E k \in Signers : AddSignature(k) \/ TaskThrows(k)  BY <1>11, TaskEndGenuine
<1>12. CASE SetTimestamp  BY <1>12 DEF SetTimestamp
<1>13. CASE SetAsSuccessor  BY <1>13 DEF SetAsSuccessor
<1>14. CASE PopSection  BY <1>14, PopGenuine
<1>15. CASE Tick  BY <1>15 DEF Tick
<1>16. CASE UNCHANGED vars  BY <1>16 DEF vars
<1> QED
  BY <1>1, <1>2, <1>3, <1>4, <1>5, <1>6, <1>7, <1>8, <1>9, <1>10, <1>11, <1>12, <1>13, <1>14,
     <1>15, <1>16 DEF Next

\* A signature that verifies is the header of what was signed, field by field.
LEMMA VerifiesCovered ==
    ASSUME SectionsGenuine, NEW k \in Signers, NEW i \in DOMAIN sections, NEW includeGas \in BOOLEAN,
           sections[i].type # "content", Verifies(i, k, includeGas)
    PROVE  \E g \in signed : Covers(g, k, i - 1) /\ (includeGas => AgreesToGas(g))
<1>1. PICK g \in signed : g.key = k /\ Message(g.header, g.sections, g.includeGas)
                                       = Message(header, Before(i), includeGas)
  BY DEF SectionsGenuine, Genuine, Verifies
<1>2. /\ g.header.height = header.height /\ g.header.previousHash = header.previousHash
      /\ g.header.timestamp = header.timestamp
      /\ g.header.feesPayerAccount = header.feesPayerAccount /\ g.sections = Before(i)
      /\ (IF g.includeGas THEN g.header.gas ELSE 0) = (IF includeGas THEN header.gas ELSE 0)
      /\ (IF g.includeGas THEN g.header.gasPrice ELSE 0) = (IF includeGas THEN header.gasPrice ELSE 0)
  BY <1>1 DEF Message
<1>3. Covers(g, k, i - 1)  BY <1>1, <1>2 DEF Covers, AgreeButGas, Before
<1>4. includeGas => AgreesToGas(g)  BY <1>2 DEF AgreesToGas
<1> QED  BY <1>3, <1>4

LEMMA GenuineVerified == SectionsGenuine => VerifiedIsSigned
<1> SUFFICES ASSUME SectionsGenuine PROVE VerifiedIsSigned  OBVIOUS
<1>1. PICK S : sections \in Seq(S)  BY DEF SectionsGenuine
<1>2. ASSUME NEW k \in Signers, VerifySignature(k)
      PROVE  \E g \in signed : Covers(g, k, Len(sections) - 1) /\ AgreesToGas(g)
  <2>1. Cardinality({i \in DOMAIN sections : sections[i].type = "signature"}) = 1
    BY <1>2 DEF VerifySignature, CountOf
  <2>2. PICK i \in DOMAIN sections : TRUE
    <3>1. CASE DOMAIN sections = {}
      <4>1. {i \in DOMAIN sections : sections[i].type = "signature"} = {}  BY <3>1
      <4> QED  BY <2>1, <4>1, FS_EmptySet
    <3> QED  BY <3>1
  <2>3. Len(sections) \in DOMAIN sections  BY <1>1, <2>2
  <2>4. sections[Len(sections)].type # "content" /\ Verifies(Len(sections), k, TRUE)
    BY <1>2 DEF VerifySignature, Last
  <2> QED  BY <2>3, <2>4, VerifiesCovered
<1>3. ASSUME NEW k \in Signers, NEW tag \in Tags, VerifyAuxiliarySignature(k, tag)
      PROVE  \E g \in signed, i \in TaggedWith(sections, tag) : Covers(g, k, i - 1)
  <2>1. PICK i \in TaggedWith(sections, tag) : Verifies(i, k, FALSE)
    BY <1>3 DEF VerifyAuxiliarySignature
  <2>2. i \in DOMAIN sections /\ sections[i].type # "content"  BY <2>1 DEF TaggedWith
  <2> QED  BY <2>1, <2>2, VerifiesCovered
<1> QED  BY <1>2, <1>3 DEF VerifiedIsSigned

LEMMA InitGenuine == Init => AllGenuine
<1> SUFFICES ASSUME Init PROVE AllGenuine  OBVIOUS
<1>1. sections = <<>> /\ task = [k \in Signers |-> Idle]  BY DEF Init
<1>2. SectionsGenuine
  <2>1. sections \in Seq({})  BY <1>1
  <2>2. DOMAIN sections = {}  BY <1>1
  <2> QED  BY <2>1, <2>2 DEF SectionsGenuine
<1>3. task \in [Signers -> {Idle}]  BY <1>1
<1>4. \A k \in Signers : task[k].stage # "signing"  BY <1>1 DEF Idle
<1> QED  BY <1>2, <1>3, <1>4 DEF AllGenuine, TasksGenuine

\* Whatever verifies under a key is what its owner signed: for any number of signers,
\* tags, accounts and sections, and any calls between the steps of their tasks.
THEOREM SignaturesAuthentic == Spec => []VerifiedIsSigned
<1>1. Init => AllGenuine  BY InitGenuine
<1>2. AllGenuine /\ [Next]_vars => AllGenuine'  BY NextGenuine
<1>3. AllGenuine => VerifiedIsSigned  BY GenuineVerified DEF AllGenuine
<1> QED  BY <1>1, <1>2, <1>3, PTL DEF Spec

-----------------------------------------------------------------------------
(* Header and hashes *)

IsHeader(h) ==
    h = [height |-> h.height, previousHash |-> h.previousHash, timestamp |-> h.timestamp,
         gas |-> h.gas, gasPrice |-> h.gasPrice, bodyHash |-> h.bodyHash,
         feesPayerAccount |-> h.feesPayerAccount]

\* The hash g is that of a header h whose previous hash was another.
Hashed(g, h) == /\ IsHeader(g) /\ IsHeader(h)
                /\ AgreeButGas([g EXCEPT !.previousHash = h.previousHash], h)
                /\ g.gas = h.gas /\ g.gasPrice = h.gasPrice /\ g.bodyHash = h.bodyHash

\* The invariant: the stored hash and the header differ in nothing else, and the header
\* has the hash of the sections, unless there are none.
HashesHold == /\ Hashed(hash, header)
              /\ sections # <<>> => header.bodyHash = sections

LEMMA HashedAgain ==
    ASSUME NEW h, IsHeader(h)
    PROVE  Hashed(h, h)
BY DEF Hashed, IsHeader, AgreeButGas

\* What a setter makes of a header is one.
LEMMA HeaderSet ==
    ASSUME NEW h, IsHeader(h), NEW x
    PROVE  /\ IsHeader([h EXCEPT !.timestamp = x]) /\ IsHeader([h EXCEPT !.gas = x])
           /\ IsHeader([h EXCEPT !.gasPrice = x]) /\ IsHeader([h EXCEPT !.feesPayerAccount = x])
           /\ IsHeader([h EXCEPT !.previousHash = x]) /\ IsHeader([h EXCEPT !.bodyHash = x])
           /\ IsHeader([h EXCEPT !.previousHash = x, !.height = 2])
<1>1. IsHeader([h EXCEPT !.timestamp = x])  BY DEF IsHeader
<1>2. IsHeader([h EXCEPT !.gas = x])  BY DEF IsHeader
<1>3. IsHeader([h EXCEPT !.gasPrice = x])  BY DEF IsHeader
<1>4. IsHeader([h EXCEPT !.feesPayerAccount = x])  BY DEF IsHeader
<1>5. IsHeader([h EXCEPT !.previousHash = x])  BY DEF IsHeader
<1>6. IsHeader([h EXCEPT !.bodyHash = x])  BY DEF IsHeader
<1>7. IsHeader([h EXCEPT !.previousHash = x, !.height = 2])
  <2> DEFINE g == [h EXCEPT !.previousHash = x]
  <2>1. [h EXCEPT !.previousHash = x, !.height = 2] = [g EXCEPT !.height = 2]  BY Zenon
  <2>2. IsHeader(g)  BY <1>5
  <2> HIDE DEF g
  <2>3. IsHeader([g EXCEPT !.height = 2])  BY <2>2 DEF IsHeader
  <2> QED  BY <2>1, <2>3
<1> QED  BY <1>1, <1>2, <1>3, <1>4, <1>5, <1>6, <1>7

\* What they leave alone.
LEMMA FieldsKept ==
    ASSUME NEW h, IsHeader(h), NEW x
    PROVE  /\ [h EXCEPT !.timestamp = x].bodyHash = h.bodyHash
           /\ [h EXCEPT !.gas = x].bodyHash = h.bodyHash
           /\ [h EXCEPT !.gasPrice = x].bodyHash = h.bodyHash
           /\ [h EXCEPT !.feesPayerAccount = x].bodyHash = h.bodyHash
           /\ [h EXCEPT !.previousHash = x].bodyHash = h.bodyHash
           /\ [h EXCEPT !.previousHash = x, !.height = 2].bodyHash = h.bodyHash
           /\ [h EXCEPT !.bodyHash = x].bodyHash = x
           /\ [h EXCEPT !.gas = x].gas = x
           /\ [h EXCEPT !.feesPayerAccount = x].gas = h.gas
BY DEF IsHeader

LEMMA SetterHashes ==
    ASSUME HashesHold, NEW h, IsHeader(h), SetHeader(h), h.bodyHash = header.bodyHash,
           UNCHANGED sections
    PROVE  HashesHold'
BY HashedAgain DEF SetHeader, HashesHold

LEMMA PreviousHashes ==
    ASSUME HashesHold, NEW previous, SetPreviousHash(previous)
    PROVE  HashesHold'
<1>1. header' = [header EXCEPT !.previousHash = previous] /\ UNCHANGED <<hash, sections>>
  BY DEF SetPreviousHash
<1>2. IsHeader(header) /\ IsHeader(hash)  BY DEF HashesHold, Hashed
<1>3. IsHeader(header')  BY <1>1, <1>2, HeaderSet
<1>4. header'.bodyHash = header.bodyHash  BY <1>1, <1>2, FieldsKept
<1>5. Hashed(hash, header)'
  <2>1. /\ hash.height = header.height /\ hash.timestamp = header.timestamp
        /\ hash.feesPayerAccount = header.feesPayerAccount
        /\ hash.gas = header.gas /\ hash.gasPrice = header.gasPrice /\ hash.bodyHash = header.bodyHash
    BY <1>2 DEF HashesHold, Hashed, AgreeButGas, IsHeader
  <2>2. /\ header'.height = header.height /\ header'.timestamp = header.timestamp
        /\ header'.feesPayerAccount = header.feesPayerAccount
        /\ header'.gas = header.gas /\ header'.gasPrice = header.gasPrice
    BY <1>1, <1>2 DEF IsHeader
  <2>3. AgreeButGas([hash EXCEPT !.previousHash = header'.previousHash], header')
    BY <1>2, <2>1, <2>2 DEF AgreeButGas, IsHeader
  <2> QED  BY <1>1, <1>2, <1>3, <1>4, <2>1, <2>2, <2>3 DEF Hashed
<1> QED  BY <1>1, <1>4, <1>5 DEF HashesHold

LEMMA AddedHashes ==
    ASSUME HashesHold, NEW added, AddSections(added)
    PROVE  HashesHold'
<1> DEFINE h == [header EXCEPT !.bodyHash = sections \o added]
<1>1. sections' = sections \o added /\ header' = h /\ hash' = h
  BY DEF AddSections, SetHeader
<1>2. IsHeader(header)  BY DEF HashesHold, Hashed
<1>3. IsHeader(h) /\ h.bodyHash = sections \o added  BY <1>2, HeaderSet, FieldsKept
<1> HIDE DEF h
<1> QED  BY <1>1, <1>3, HashedAgain DEF HashesHold

LEMMA PopHashes ==
    ASSUME HashesHold, PopSection
    PROVE  HashesHold'
<1>1. CASE sections' = <<>>  BY <1>1 DEF PopSection, HashesHold
<1>2. CASE sections' # <<>>
  <2> DEFINE h == [header EXCEPT !.bodyHash = sections']
  <2>1. header' = h /\ hash' = h  BY <1>2 DEF PopSection, SetHeader
  <2>2. IsHeader(header)  BY DEF HashesHold, Hashed
  <2>3. IsHeader(h) /\ h.bodyHash = sections'  BY <2>2, HeaderSet, FieldsKept
  <2> HIDE DEF h
  <2> QED  BY <2>1, <2>3, HashedAgain DEF HashesHold
<1> QED  BY <1>1, <1>2

LEMMA SignHashes ==
    ASSUME HashesHold, NEW k, NEW h, NEW hashed, NEW account, NEW includeGas, NEW gasTime,
           Sign(k, h, hashed, account, includeGas, gasTime),
           Hashed(hashed, h), h.bodyHash = header.bodyHash
    PROVE  HashesHold'
<1> DEFINE sealed == [h EXCEPT !.feesPayerAccount = account]
<1>1. CASE account = NoAccount
  <2>1. header' = h /\ hash' = hashed /\ UNCHANGED sections  BY <1>1 DEF Sign
  <2> QED  BY <2>1 DEF HashesHold
<1>2. CASE account # NoAccount
  <2>1. header' = sealed /\ hash' = sealed /\ UNCHANGED sections  BY <1>2 DEF Sign
  <2>2. IsHeader(h)  BY DEF Hashed
  <2>3. IsHeader(sealed) /\ sealed.bodyHash = h.bodyHash  BY <2>2, HeaderSet, FieldsKept
  <2> HIDE DEF sealed
  <2> QED  BY <2>1, <2>3, HashedAgain DEF HashesHold
<1> QED  BY <1>1, <1>2

LEMMA UnchangedHashes ==
    ASSUME HashesHold, UNCHANGED <<header, hash, sections>>
    PROVE  HashesHold'
BY DEF HashesHold

LEMMA NextHashes ==
    ASSUME HashesHold, [Next]_vars
    PROVE  HashesHold'
<1> USE UnchangedHashes
<1>1. IsHeader(header)  BY DEF HashesHold, Hashed
<1> HIDE DEF IsHeader
<1>2. CASE \E gas \in Gases : SetGas(gas)
  BY <1>1, <1>2, HeaderSet, FieldsKept, SetterHashes DEF SetGas
<1>3. CASE \E price \in GasPrices : SetGasPrice(price)
  BY <1>1, <1>3, HeaderSet, FieldsKept, SetterHashes DEF SetGasPrice
<1>4. CASE \E account \in Accounts : SetFeesPayerAccount(account)
  BY <1>1, <1>4, HeaderSet, FieldsKept, SetterHashes DEF SetFeesPayerAccount
<1>5. CASE \E previous \in {Seed, Previous} : SetPreviousHash(previous)
  BY <1>5, PreviousHashes
<1>6. CASE \E c \in Contents : AddSection(Content(c))
  BY <1>6, AddedHashes DEF AddSection
<1>7. CASE \E k \in Owners, account \in Accounts \cup {NoAccount}, includeGas \in BOOLEAN :
             Seal(k, account, includeGas)
  BY <1>7, SignHashes DEF Seal, HashesHold
<1>8. CASE \E k \in Owners, account \in Accounts \cup {NoAccount}, includeGas \in BOOLEAN :
             SetGasAndSeal(k, account, includeGas)
  BY <1>8 DEF SetGasAndSeal
<1>9. CASE \E k \in Owners : MeasureSize(k)  BY <1>9 DEF MeasureSize
<1>10. ASSUME NEW k \in Owners, SetComputedGas(k)
       PROVE  HashesHold'
  <2> DEFINE h == [header EXCEPT !.gas = task[k].gas]
             gasTime == IF task[k].measured = sections THEN {task[k].time} ELSE {}
  <2>1. Sign(k, h, h, task[k].account, task[k].includeGas, gasTime)
    BY <1>10 DEF SetComputedGas
  <2>2. IsHeader(h) /\ h.bodyHash = header.bodyHash  BY <1>1, HeaderSet, FieldsKept
  <2> HIDE DEF h, gasTime
  <2>3. Hashed(h, h)  BY <2>2, HashedAgain
  <2> QED  BY <2>1, <2>2, <2>3, SignHashes
<1>11. CASE \E k \in Partners, tag \in Tags : SignAuxiliary(k, tag)  BY <1>11 DEF SignAuxiliary
<1>12. CASE \E k \in Signers : AddSignature(k)  BY <1>12, AddedHashes DEF AddSignature
<1>13. CASE \E k \in Signers : TaskThrows(k)  BY <1>13 DEF TaskThrows
<1>14. CASE SetTimestamp
  BY <1>1, <1>14, HeaderSet, FieldsKept, SetterHashes DEF SetTimestamp
<1>15. CASE SetAsSuccessor
  BY <1>1, <1>15, HeaderSet, FieldsKept, SetterHashes DEF SetAsSuccessor
<1>16. CASE PopSection  BY <1>16, PopHashes
<1>17. CASE Tick  BY <1>17 DEF Tick
<1>18. CASE UNCHANGED vars  BY <1>18 DEF vars
<1> QED
  BY <1>2, <1>3, <1>4, <1>5, <1>6, <1>7, <1>8, <1>9, <1>10, <1>11, <1>12, <1>13, <1>14,
     <1>15, <1>16, <1>17, <1>18 DEF Next

LEMMA InitHashes == Init => HashesHold
<1> SUFFICES ASSUME Init PROVE HashesHold  OBVIOUS
<1>1. header = GenesisHeader(NoAccount) /\ hash = header /\ sections = <<>>  BY DEF Init
<1>2. IsHeader(header)  BY <1>1 DEF GenesisHeader, IsHeader
<1> QED  BY <1>1, <1>2, HashedAgain DEF HashesHold

\* Whatever is called, throws or comes between the steps of signers: a microblock that is
\* serialized can be loaded, and the hash it is known by is its header's in all but a
\* previous hash set last.
THEOREM HashesRenewed == Spec => []HashesAreRenewed
<1>1. Init => HashesHold  BY InitHashes
<1>2. HashesHold /\ [Next]_vars => HashesHold'  BY NextHashes
<1>3. HashesHold => HashesAreRenewed
  <2> SUFFICES ASSUME HashesHold PROVE HashesAreRenewed  OBVIOUS
  <2>1. sections # <<>> => Loads(header, sections)  BY DEF HashesHold, Loads
  <2>2. [hash EXCEPT !.previousHash = header.previousHash] = header
    BY DEF HashesHold, Hashed, AgreeButGas, IsHeader
  <2> QED  BY <2>1, <2>2 DEF HashesAreRenewed
<1> QED  BY <1>1, <1>2, <1>3, PTL DEF Spec

-----------------------------------------------------------------------------
(* Auxiliary signatures *)

\* What a signature without gas covers is the same in headers that agree but for the gas.
LEMMA SameMessage ==
    ASSUME NEW g, NEW h, AgreeButGas(g, h), NEW signedSections
    PROVE  Message(g, signedSections, FALSE) = Message(h, signedSections, FALSE)
BY DEF AgreeButGas, Message

\* What a sequence holds up to i it holds in front of whatever is added.
LEMMA PrefixKeeps ==
    ASSUME NEW s, NEW t, NEW S, NEW T, s \in Seq(S), t \in Seq(T), IsPrefix(s, t),
           NEW i \in DOMAIN s
    PROVE  i \in DOMAIN t /\ t[i] = s[i] /\ SubSeq(t, 1, i - 1) = SubSeq(s, 1, i - 1)
<1> DEFINE U == S \cup T
<1>1. s \in Seq(U) /\ t \in Seq(U)  OBVIOUS
<1> HIDE DEF U
<1>2. Len(s) <= Len(t) /\ SubSeq(s, 1, Len(s)) = SubSeq(t, 1, Len(s))  BY DEF IsPrefix
<1>3. Len(s) \in Nat /\ Len(t) \in Nat /\ i \in 1 .. Len(s) /\ i \in 1 .. Len(t)  BY <1>1, <1>2
<1>4. \A j \in 1 .. Len(s) : s[j] = t[j]
  <2> SUFFICES ASSUME NEW j \in 1 .. Len(s) PROVE s[j] = t[j]  OBVIOUS
  <2>1. SubSeq(s, 1, Len(s))[j] = s[j]  BY <1>1, <1>3
  <2>2. SubSeq(t, 1, Len(s))[j] = t[j]  BY <1>1, <1>2, <1>3
  <2> QED  BY <1>2, <2>1, <2>2
<1>5. SubSeq(t, 1, i - 1) = SubSeq(s, 1, i - 1)
  <2>1. SubSeq(s, 1, i - 1) = [j \in 1 .. i - 1 |-> s[j]]  BY <1>1, <1>3
  <2>2. SubSeq(t, 1, i - 1) = [j \in 1 .. i - 1 |-> t[j]]  BY <1>1, <1>3
  <2>3. \A j \in 1 .. i - 1 : s[j] = t[j]  BY <1>3, <1>4
  <2> QED  BY <2>1, <2>2, <2>3
<1> QED  BY <1>1, <1>3, <1>4, <1>5

LEMMA AuxiliaryStays ==
    ASSUME SectionsGenuine, SectionsGenuine', NEW k \in Signers, NEW tag \in Tags,
           VerifyAuxiliarySignature(k, tag), AgreeButGas(header, header'),
           IsPrefix(sections, sections'), TaggedWith(sections', tag) = TaggedWith(sections, tag)
    PROVE  VerifyAuxiliarySignature(k, tag)'
<1>1. PICK i \in TaggedWith(sections, tag) :
         TaggedWith(sections, tag) = {i} /\ Verifies(i, k, FALSE)
  BY DEF VerifyAuxiliarySignature
<1>2. i \in DOMAIN sections  BY DEF TaggedWith
<1>3. (\E S : sections \in Seq(S)) /\ \E T : sections' \in Seq(T)  BY DEF SectionsGenuine
<1>4. sections'[i] = sections[i] /\ SubSeq(sections', 1, i - 1) = SubSeq(sections, 1, i - 1)
  BY <1>2, <1>3, PrefixKeeps
<1>5. Message(header', Before(i)', FALSE) = Message(header, Before(i), FALSE)
  BY <1>4, SameMessage DEF Before
<1>6. Verifies(i, k, FALSE)'  BY <1>1, <1>4, <1>5 DEF Verifies
<1> QED  BY <1>1, <1>6 DEF VerifyAuxiliarySignature

\* A partner's signature stays good through whatever only adds to the microblock, for any
\* number of signers and whatever was called before.
THEOREM AuxiliarySignaturesSurvive == Spec => AuxiliarySurvives
<1>1. Init => AllGenuine  BY InitGenuine
<1>2. AllGenuine /\ [Next]_vars => AllGenuine'  BY NextGenuine
<1>3. AllGenuine /\ AllGenuine'
        => \A k \in Signers, tag \in Tags :
             /\ VerifyAuxiliarySignature(k, tag)
             /\ AgreeButGas(header, header')
             /\ IsPrefix(sections, sections')
             /\ TaggedWith(sections', tag) = TaggedWith(sections, tag)
             => VerifyAuxiliarySignature(k, tag)'
  BY AuxiliaryStays DEF AllGenuine
<1> QED  BY <1>1, <1>2, <1>3, PTL DEF Spec, AuxiliarySurvives

-----------------------------------------------------------------------------
(* Gas *)

LEMMA ProductNatural ==
    ASSUME NEW a \in Nat, NEW b \in Nat
    PROVE  a * b \in Nat
BY SMT

LEMMA ProductGrows ==
    ASSUME NEW a \in Nat, NEW p \in Int, NEW q \in Int, p <= q
    PROVE  a * p <= a * q
<1>1. a * (q - p) \in Nat  BY ProductNatural
<1>2. a * q = a * p + a * (q - p)  BY SMT
<1>3. a * p \in Int /\ a * q \in Int  BY SMT
<1> QED  BY <1>1, <1>2, <1>3

LEMMA QuotientGrows ==
    ASSUME NEW a \in Int, NEW b \in Int, a <= b, NEW d \in Nat \ {0}
    PROVE  a \div d <= b \div d /\ a \div d \in Int
BY SMT

LEMMA QuotientNatural ==
    ASSUME NEW a \in Nat, NEW d \in Nat \ {0}
    PROVE  a \div d \in Nat /\ 0 \div d = 0
BY SMT

Costs == [days : Nat, cost : Int]
PolicyLength == Len(RetentionPolicy)

\* One step of the breakdown.
NextCosts(acc, i, base, numberOfDays) ==
    IF acc.days < numberOfDays THEN AddTier(acc, RetentionPolicy[i], base, numberOfDays) ELSE acc

LEMMA PolicyTyped ==
    /\ PolicyLength \in Nat \ {0}
    /\ \A i \in 1 .. PolicyLength : /\ RetentionPolicy[i].maximumNumberOfDays \in Nat \ {0}
                                    /\ RetentionPolicy[i].retentionRatio \in Nat
                                    /\ RetentionPolicy[i].dayDivisor \in Nat \ {0}
<1>1. RetentionPolicy \in Seq(Tier) /\ RetentionPolicy # <<>>  BY FeesAssumption
<1>2. PolicyLength \in Nat \ {0}  BY <1>1 DEF PolicyLength
<1>3. \A i \in 1 .. PolicyLength : RetentionPolicy[i] \in Tier  BY <1>1 DEF PolicyLength
<1> QED  BY <1>2, <1>3 DEF Tier

LEMMA NextCostsTyped ==
    ASSUME NEW acc \in Costs, NEW i \in 1 .. PolicyLength, NEW base \in Nat, NEW numberOfDays \in Nat
    PROVE  NextCosts(acc, i, base, numberOfDays) \in Costs
<1> DEFINE tier == RetentionPolicy[i]
           limit == Smaller(tier.maximumNumberOfDays, numberOfDays)
           paid == (base * (limit - acc.days) * tier.retentionRatio) \div (1000 * tier.dayDivisor)
<1>1. /\ tier.maximumNumberOfDays \in Nat /\ tier.retentionRatio \in Nat
      /\ tier.dayDivisor \in Nat \ {0}
  BY PolicyTyped
<1>2. limit \in Nat /\ acc.days \in Nat /\ acc.cost \in Int  BY <1>1 DEF Smaller, Costs
<1>3. AddTier(acc, tier, base, numberOfDays) = [days |-> limit, cost |-> acc.cost + paid]
  BY DEF AddTier
<1>4. paid \in Int
  <2> HIDE DEF tier, limit
  <2>1. base * (limit - acc.days) * tier.retentionRatio \in Int  BY <1>1, <1>2, SMT
  <2>2. 1000 * tier.dayDivisor \in Nat \ {0}  BY <1>1
  <2> QED  BY <2>1, <2>2, QuotientGrows
<1> HIDE DEF paid, limit
<1>5. [days |-> limit, cost |-> acc.cost + paid] \in Costs  BY <1>2, <1>4 DEF Costs
<1> QED  BY <1>3, <1>5 DEF NextCosts

\* What CostsOf stands for.
LEMMA CostsSteps ==
    ASSUME NEW base \in Nat, NEW numberOfDays \in Nat
    PROVE  /\ CostsOf(base, numberOfDays)[0] = [days |-> 0, cost |-> 0]
           /\ \A i \in 1 .. PolicyLength :
                CostsOf(base, numberOfDays)[i] =
                  NextCosts(CostsOf(base, numberOfDays)[i - 1], i, base, numberOfDays)
           /\ \A i \in 0 .. PolicyLength : CostsOf(base, numberOfDays)[i] \in Costs
<1> DEFINE n == PolicyLength
           first == [days |-> 0, cost |-> 0]
           F == [i \in 1 .. n |-> [acc \in Costs |-> NextCosts(acc, i, base, numberOfDays)]]
           Is(f) == f = [i \in 0 .. n |-> IF i = 0 THEN first
                                          ELSE NextCosts(f[i - 1], i, base, numberOfDays)]
           breakdown == CHOOSE f : Is(f)
<1>1. n \in Nat /\ first \in Costs  BY PolicyTyped DEF Costs
<1>2. F \in [1 .. n -> [Costs -> Costs]]  BY NextCostsTyped
<1>3. PICK p : Iterates(p, n, Costs, first, F)
  <2> HIDE DEF n, first, F
  <2> QED  BY <1>1, <1>2, IterationExists
<1>4. /\ p \in [0 .. n -> Costs] /\ p[0] = first
      /\ \A i \in 1 .. n : p[i] = NextCosts(p[i - 1], i, base, numberOfDays)
  <2>1. p \in [0 .. n -> Costs] /\ p[0] = first /\ \A i \in 1 .. n : p[i] = F[i][p[i - 1]]
    BY <1>3 DEF Iterates
  <2> SUFFICES ASSUME NEW i \in 1 .. n
               PROVE  p[i] = NextCosts(p[i - 1], i, base, numberOfDays)
    BY <2>1
  <2>2. p[i - 1] \in Costs  BY <1>1, <2>1
  <2> QED  BY <2>1, <2>2
<1>5. Is(p)
  <2> DEFINE q == [i \in 0 .. n |-> IF i = 0 THEN first
                                    ELSE NextCosts(p[i - 1], i, base, numberOfDays)]
  <2>1. p = [i \in 0 .. n |-> p[i]]  BY <1>4
  <2>2. ASSUME NEW i \in 0 .. n PROVE p[i] = q[i]
    <3>1. CASE i = 0  BY <1>4, <3>1
    <3>2. CASE i # 0
      <4>1. i \in 1 .. n  BY <1>1, <3>2
      <4> QED  BY <1>4, <3>2, <4>1
    <3> QED  BY <3>1, <3>2
  <2>3. [i \in 0 .. n |-> p[i]] = [i \in 0 .. n |-> q[i]]  BY <2>2, Zenon
  <2>4. [i \in 0 .. n |-> q[i]] = q  OBVIOUS
  <2> QED  BY <2>1, <2>3, <2>4
<1>6. Is(breakdown)  BY <1>5
<1>7. CostsOf(base, numberOfDays) = breakdown  BY DEF CostsOf, NextCosts, PolicyLength
<1> HIDE DEF breakdown
<1>8. /\ breakdown[0] = first
      /\ \A i \in 1 .. n : breakdown[i] = NextCosts(breakdown[i - 1], i, base, numberOfDays)
  BY <1>1, <1>6
<1>9. \A i \in 0 .. n : breakdown[i] = p[i]
  <2>1. \A i \in 1 .. n : breakdown[i - 1] = p[i - 1] => breakdown[i] = p[i]  BY <1>4, <1>8
  <2>2. breakdown[0] = p[0]  BY <1>4, <1>8
  <2> HIDE DEF n, first, F, Is
  <2> QED  BY <1>1, <2>1, <2>2, RecursionsAgree
<1> QED  BY <1>4, <1>7, <1>8, <1>9

Limit(i) == RetentionPolicy[i].maximumNumberOfDays

\* The days that the first i tiers have of n.
DaysWithin(i, n) == IF i = 0 THEN 0 ELSE Smaller(Limit(i), n)

\* The fraction that tier i adds for so many days.
PaidFor(i, base, days) ==
    (base * days * RetentionPolicy[i].retentionRatio) \div (1000 * RetentionPolicy[i].dayDivisor)

LEMMA LimitsRise ==
    ASSUME NEW i \in 1 .. PolicyLength, i # 1
    PROVE  Limit(i - 1) \in Nat /\ Limit(i) \in Nat /\ Limit(i - 1) < Limit(i)
<1>1. i - 1 \in 1 .. PolicyLength  BY PolicyTyped
<1>2. DOMAIN RetentionPolicy = 1 .. PolicyLength  BY FeesAssumption DEF PolicyLength
<1>3. Limit(i - 1) < Limit(i)  BY <1>1, <1>2, FeesAssumption DEF Limit
<1> QED  BY <1>1, <1>3, PolicyTyped DEF Limit

\* Each tier has the days between the limits, of those that there are, and is paid for them.
LEMMA TierCosts ==
    ASSUME NEW base \in Nat, NEW n \in Nat, NEW i \in 1 .. PolicyLength,
           CostsOf(base, n)[i - 1].days = DaysWithin(i - 1, n)
    PROVE  /\ CostsOf(base, n)[i].days = DaysWithin(i, n)
           /\ DaysWithin(i, n) - DaysWithin(i - 1, n) \in Nat
           /\ CostsOf(base, n)[i].cost
                = CostsOf(base, n)[i - 1].cost + PaidFor(i, base, DaysWithin(i, n) - DaysWithin(i - 1, n))
<1> DEFINE acc == CostsOf(base, n)[i - 1]
           next == CostsOf(base, n)[i]
           days == DaysWithin(i, n) - DaysWithin(i - 1, n)
<1>1. PolicyLength \in Nat /\ i - 1 \in 0 .. PolicyLength  BY PolicyTyped
<1>2. acc \in Costs /\ next = NextCosts(acc, i, base, n)  BY <1>1, CostsSteps
<1>3. /\ Limit(i) \in Nat \ {0} /\ RetentionPolicy[i].retentionRatio \in Nat
      /\ RetentionPolicy[i].dayDivisor \in Nat \ {0}
  BY PolicyTyped DEF Limit
<1>4. acc.days = DaysWithin(i - 1, n) /\ acc.cost \in Int  BY <1>2 DEF Costs
<1>5. DaysWithin(i - 1, n) \in Nat /\ DaysWithin(i - 1, n) <= n /\ DaysWithin(i - 1, n) < Limit(i)
  <2>1. CASE i = 1  BY <1>3, <2>1 DEF DaysWithin
  <2>2. CASE i # 1  BY <1>1, <2>2, LimitsRise DEF DaysWithin, Smaller
  <2> QED  BY <2>1, <2>2
<1>6. DaysWithin(i, n) = Smaller(Limit(i), n)  BY DEF DaysWithin
<1>7. days \in Nat  BY <1>3, <1>5, <1>6 DEF Smaller
<1>8. CASE DaysWithin(i - 1, n) < n
  <2>1. next = AddTier(acc, RetentionPolicy[i], base, n)  BY <1>2, <1>4, <1>8 DEF NextCosts
  <2>2. next = [days |-> DaysWithin(i, n), cost |-> acc.cost + PaidFor(i, base, days)]
    BY <1>4, <1>6, <2>1 DEF AddTier, PaidFor, Limit
  <2> QED  BY <1>7, <2>2
<1>9. CASE ~(DaysWithin(i - 1, n) < n)
  <2>1. next = acc  BY <1>2, <1>4, <1>9 DEF NextCosts
  <2>2. DaysWithin(i - 1, n) = n /\ DaysWithin(i, n) = n  BY <1>3, <1>5, <1>6, <1>9 DEF Smaller
  <2>3. days = 0  BY <2>2
  <2>4. PaidFor(i, base, 0) = 0
    <3>1. base * 0 * RetentionPolicy[i].retentionRatio = 0  BY <1>3
    <3>2. 1000 * RetentionPolicy[i].dayDivisor \in Nat \ {0}  BY <1>3
    <3>3. 0 \div (1000 * RetentionPolicy[i].dayDivisor) = 0  BY <3>2, QuotientNatural
    <3> QED  BY <3>1, <3>3 DEF PaidFor
  <2> HIDE DEF acc, next, days
  <2>5. PaidFor(i, base, days) = 0  BY <2>3, <2>4
  <2> QED  BY <1>4, <1>7, <2>1, <2>2, <2>5 DEF acc, next, days
<1> QED  BY <1>8, <1>9

LEMMA PaidForGrows ==
    ASSUME NEW base \in Nat, NEW i \in 1 .. PolicyLength, NEW p \in Nat, NEW q \in Nat, p <= q
    PROVE  /\ PaidFor(i, base, p) \in Nat /\ PaidFor(i, base, q) \in Nat
           /\ PaidFor(i, base, p) <= PaidFor(i, base, q)
<1> DEFINE ratio == RetentionPolicy[i].retentionRatio
           divisor == 1000 * RetentionPolicy[i].dayDivisor
<1>1. ratio \in Nat /\ divisor \in Nat \ {0}  BY PolicyTyped
<1> HIDE DEF ratio, divisor
<1>2. base * p \in Nat /\ base * q \in Nat /\ base * p <= base * q  BY ProductNatural, ProductGrows
<1>3. /\ ratio * (base * p) \in Nat /\ ratio * (base * q) \in Nat
      /\ ratio * (base * p) <= ratio * (base * q)
  BY <1>1, <1>2, ProductNatural, ProductGrows
<1>4. base * p * ratio = ratio * (base * p) /\ base * q * ratio = ratio * (base * q)
  BY <1>1, SMT
<1>5. /\ (base * p * ratio) \div divisor \in Nat /\ (base * q * ratio) \div divisor \in Nat
      /\ (base * p * ratio) \div divisor <= (base * q * ratio) \div divisor
  BY <1>1, <1>3, <1>4, QuotientNatural, QuotientGrows
<1> QED  BY <1>5 DEF PaidFor, ratio, divisor

\* Who stores longer pays no less, in every tier.
LEMMA StorageGrows ==
    ASSUME NEW base \in Nat, NEW m \in Nat, NEW n \in Nat, m <= n
    PROVE  /\ StorageCost(base, m) \in Nat /\ StorageCost(base, n) \in Nat
           /\ StorageCost(base, m) <= StorageCost(base, n)
<1> DEFINE c == CostsOf(base, m)
           d == CostsOf(base, n)
           S == {i \in 0 .. PolicyLength :
                   /\ c[i].days = DaysWithin(i, m) /\ d[i].days = DaysWithin(i, n)
                   /\ c[i].cost \in Nat /\ d[i].cost \in Nat /\ c[i].cost <= d[i].cost}
<1>1. PolicyLength \in Nat  BY PolicyTyped
<1>2. 0 \in S
  <2>1. c[0] = [days |-> 0, cost |-> 0] /\ d[0] = [days |-> 0, cost |-> 0]  BY CostsSteps
  <2> QED  BY <1>1, <2>1 DEF DaysWithin
<1>3. ASSUME NEW j \in 0 .. PolicyLength - 1, j \in S
      PROVE  j + 1 \in S
  <2> DEFINE i == j + 1
             days(k) == DaysWithin(i, k) - DaysWithin(j, k)
  <2>1. i \in 1 .. PolicyLength /\ i - 1 = j  BY <1>1
  <2> HIDE DEF i, c, d
  <2>2. c[i - 1].days = DaysWithin(i - 1, m) /\ d[i - 1].days = DaysWithin(i - 1, n)
    BY <1>3, <2>1
  <2>3. /\ c[i].days = DaysWithin(i, m) /\ days(m) \in Nat
        /\ c[i].cost = c[j].cost + PaidFor(i, base, days(m))
    BY <2>1, <2>2, TierCosts DEF c
  <2>4. /\ d[i].days = DaysWithin(i, n) /\ days(n) \in Nat
        /\ d[i].cost = d[j].cost + PaidFor(i, base, days(n))
    BY <2>1, <2>2, TierCosts DEF d
  <2>5. days(m) <= days(n)
    <3>1. Limit(i) \in Nat /\ (j # 0 => Limit(j) \in Nat /\ Limit(j) < Limit(i))
      BY <1>1, <2>1, PolicyTyped, LimitsRise DEF Limit
    <3> QED  BY <2>1, <3>1 DEF DaysWithin, Smaller
  <2> HIDE DEF days
  <2>6. /\ PaidFor(i, base, days(m)) \in Nat /\ PaidFor(i, base, days(n)) \in Nat
        /\ PaidFor(i, base, days(m)) <= PaidFor(i, base, days(n))
    BY <2>1, <2>3, <2>4, <2>5, PaidForGrows
  <2>7. c[j].cost \in Nat /\ d[j].cost \in Nat /\ c[j].cost <= d[j].cost  BY <1>3
  <2>8. c[i].cost \in Nat /\ d[i].cost \in Nat /\ c[i].cost <= d[i].cost
    BY <2>3, <2>4, <2>6, <2>7
  <2> QED  BY <2>1, <2>3, <2>4, <2>8 DEF i
<1>4. 0 .. PolicyLength \subseteq S
  <2> HIDE DEF S
  <2> QED  BY <1>1, <1>2, <1>3, IntervalInduction
<1>5. PolicyLength \in S  BY <1>1, <1>4
<1> QED  BY <1>5 DEF StorageCost, PolicyLength

LEMMA DaysFall ==
    ASSUME NEW earlier \in Nat, NEW later \in Nat, earlier <= later
    PROVE  /\ NumberOfDaysOfStorage(earlier, Expiration) \in Nat
           /\ NumberOfDaysOfStorage(later, Expiration) \in Nat
           /\ NumberOfDaysOfStorage(later, Expiration) <= NumberOfDaysOfStorage(earlier, Expiration)
<1>1. Expiration \in Nat  BY MicroblockAssumption
<1>2. CASE Expiration > 0
  <2> DEFINE few == RoundedDays(Expiration - later)
             many == RoundedDays(Expiration - earlier)
  <2>1. 2 * Day \in Nat \ {0} /\ Day \in Nat  BY FeesAssumption
  <2>2. /\ 2 * (Expiration - later) + Day \in Int /\ 2 * (Expiration - earlier) + Day \in Int
        /\ 2 * (Expiration - later) + Day <= 2 * (Expiration - earlier) + Day
    BY <1>1, <2>1
  <2>3. few \in Int /\ many \in Int /\ few <= many
    <3> DEFINE a == 2 * (Expiration - later) + Day
               b == 2 * (Expiration - earlier) + Day
               e == 2 * Day
    <3>1. few = a \div e /\ many = b \div e  BY DEF RoundedDays
    <3> HIDE DEF few, many
    <3>2. a \in Int /\ b \in Int /\ a <= b /\ e \in Nat \ {0}  BY <2>1, <2>2
    <3> HIDE DEF a, b, e
    <3>3. b <= b  BY <3>2
    <3> QED  BY <3>1, <3>2, <3>3, QuotientGrows
  <2> HIDE DEF few, many
  <2>4. /\ NumberOfDaysOfStorage(later, Expiration) = (IF few > 1 THEN few ELSE 1)
        /\ NumberOfDaysOfStorage(earlier, Expiration) = (IF many > 1 THEN many ELSE 1)
    BY <1>2 DEF NumberOfDaysOfStorage, few, many
  <2> QED  BY <2>3, <2>4
<1>3. CASE ~(Expiration > 0)
  <2>1. /\ NumberOfDaysOfStorage(later, Expiration) = Limit(PolicyLength)
        /\ NumberOfDaysOfStorage(earlier, Expiration) = Limit(PolicyLength)
    BY <1>3 DEF NumberOfDaysOfStorage, Last, Limit, PolicyLength
  <2>2. Limit(PolicyLength) \in Nat  BY PolicyTyped DEF Limit
  <2> QED  BY <2>1, <2>2
<1> QED  BY <1>2, <1>3

\* A microblock costs no more gas later, for any policy and any size.
LEMMA GasFalls ==
    ASSUME NEW k \in Signers, NEW size \in Nat, NEW earlier \in Nat, NEW later \in Nat,
           earlier <= later
    PROVE  ComputeGas(k, size, Expiration, later) <= ComputeGas(k, size, Expiration, earlier)
<1> DEFINE base == size * GasAtomsPerGas
           few == NumberOfDaysOfStorage(later, Expiration)
           many == NumberOfDaysOfStorage(earlier, Expiration)
<1>1. GasAtomsPerGas \in Nat \ {0}  BY FeesAssumption
<1>2. base \in Nat  BY <1>1, ProductNatural
<1>3. few \in Nat /\ many \in Nat /\ few <= many  BY DaysFall
<1> HIDE DEF base, few, many
<1>4. /\ StorageCost(base, few) \in Nat /\ StorageCost(base, many) \in Nat
      /\ StorageCost(base, few) <= StorageCost(base, many)
  BY <1>2, <1>3, StorageGrows
<1>5. /\ StorageCost(base, few) \div GasAtomsPerGas <= StorageCost(base, many) \div GasAtomsPerGas
      /\ StorageCost(base, few) \div GasAtomsPerGas \in Nat
      /\ StorageCost(base, many) \div GasAtomsPerGas \in Nat
  BY <1>1, <1>4, QuotientGrows, QuotientNatural
<1>6. AdditionalCosts[k] \in Nat  BY MicroblockAssumption
<1>7. /\ ComputeGas(k, size, Expiration, later)
           = StorageCost(base, few) \div GasAtomsPerGas + AdditionalCosts[k]
      /\ ComputeGas(k, size, Expiration, earlier)
           = StorageCost(base, many) \div GasAtomsPerGas + AdditionalCosts[k]
  BY DEF ComputeGas, base, few, many
<1> QED  BY <1>5, <1>6, <1>7

\* The gas that a task has computed is that of the sections it measured, and the gas a
\* signer computed and signed that of the sections before the signature.
GasTask(k, stage) ==
    stage.stage = "price" =>
      stage.gas = ComputeGas(k, Size(stage.measured), Expiration, stage.time)
GasSignature(g) ==
    \A time \in g.gasTime : g.header.gas = ComputeGas(g.key, Size(g.sections), Expiration, time)

\* The invariant, together with AllGenuine and HashesHold.
GasHolds == /\ clock \in Nat
            /\ \A k \in Signers : GasTask(k, task[k])
            /\ \A g \in signed : GasSignature(g)

LEMMA TaskGas ==
    ASSUME GasHolds, TasksGenuine, NEW k \in Signers, NEW stage, GasTask(k, stage),
           task' = [task EXCEPT ![k] = stage], UNCHANGED <<signed, clock>>
    PROVE  GasHolds'
<1>1. PICK T : task \in [Signers -> T]  BY DEF TasksGenuine
<1>2. ASSUME NEW j \in Signers PROVE GasTask(j, task'[j])
  <2>1. task'[j] = IF j = k THEN stage ELSE task[j]  BY <1>1
  <2> QED  BY <2>1 DEF GasHolds
<1> QED  BY <1>2 DEF GasHolds

LEMMA SigningGas ==
    ASSUME GasHolds, TasksGenuine, NEW k \in Signers, NEW g, GasSignature(g), NEW sec,
           signed' = signed \cup {g}, UNCHANGED clock,
           task' = [task EXCEPT ![k] = [stage |-> "signing", section |-> sec]]
    PROVE  GasHolds'
<1> DEFINE stage == [stage |-> "signing", section |-> sec]
<1>1. PICK T : task \in [Signers -> T]  BY DEF TasksGenuine
<1>2. GasTask(k, stage)  BY DEF GasTask
<1>3. task' = [task EXCEPT ![k] = stage]  OBVIOUS
<1> HIDE DEF stage
<1>4. ASSUME NEW j \in Signers PROVE GasTask(j, task'[j])
  <2>1. task'[j] = IF j = k THEN stage ELSE task[j]  BY <1>1, <1>3
  <2> QED  BY <1>2, <2>1 DEF GasHolds
<1>5. \A h \in signed' : GasSignature(h)  BY DEF GasHolds
<1> QED  BY <1>4, <1>5 DEF GasHolds

LEMMA UnchangedGas ==
    ASSUME GasHolds, UNCHANGED <<task, signed>>, clock' \in Nat
    PROVE  GasHolds'
BY DEF GasHolds

\* seal without a computed gas.
LEMMA SealGas ==
    ASSUME GasHolds, TasksGenuine, NEW k \in Signers, NEW h, NEW hashed, NEW account,
           NEW includeGas, Sign(k, h, hashed, account, includeGas, {})
    PROVE  GasHolds'
<1> DEFINE sealed == IF account = NoAccount THEN h ELSE [h EXCEPT !.feesPayerAccount = account]
           g == Signature(k, sealed, includeGas, {})
           sec == SignatureSection(k, Message(sealed, sections, includeGas))
<1>1. /\ signed' = signed \cup {g} /\ UNCHANGED clock
      /\ task' = [task EXCEPT ![k] = [stage |-> "signing", section |-> sec]]
  BY DEF Sign
<1>2. g.gasTime = {}
  <2> HIDE DEF sealed
  <2> QED  BY DEF Signature
<1> HIDE DEF g, sec, sealed
<1>3. GasSignature(g)  BY <1>2 DEF GasSignature
<1> QED  BY <1>1, <1>3, SigningGas

LEMMA AuxiliaryGas ==
    ASSUME GasHolds, TasksGenuine, NEW k \in Partners, NEW tag \in Tags, SignAuxiliary(k, tag)
    PROVE  GasHolds'
<1> DEFINE g == Signature(k, header, FALSE, {})
           sec == AuxiliarySection(k, tag, Message(header, sections, FALSE))
<1>1. /\ signed' = signed \cup {g} /\ UNCHANGED clock
      /\ task' = [task EXCEPT ![k] = [stage |-> "signing", section |-> sec]]
  BY DEF SignAuxiliary
<1>2. g.gasTime = {}  BY DEF Signature
<1> HIDE DEF g, sec
<1>3. GasSignature(g)  BY <1>2 DEF GasSignature
<1> QED  BY <1>1, <1>3, SigningGas DEF Signers

\* setGasAndSeal measures the size.
LEMMA MeasureGas ==
    ASSUME GasHolds, TasksGenuine, NEW k \in Signers, MeasureSize(k)
    PROVE  GasHolds'
<1> DEFINE gas == GasAt(task[k].time, k)
           stage == [stage |-> "price", account |-> task[k].account,
                     includeGas |-> task[k].includeGas, time |-> task[k].time,
                     measured |-> sections, gas |-> gas]
<1>1. task' = [task EXCEPT ![k] = stage] /\ UNCHANGED <<signed, clock>>  BY DEF MeasureSize
<1>2. stage.gas = gas /\ stage.measured = sections /\ stage.time = task[k].time
  <2> HIDE DEF gas
  <2> QED  OBVIOUS
<1>3. gas = ComputeGas(k, Size(sections), Expiration, task[k].time)  BY DEF GasAt
<1> HIDE DEF stage, gas
<1>4. GasTask(k, stage)  BY <1>2, <1>3 DEF GasTask
<1> QED  BY <1>1, <1>4, TaskGas

\* ... and signs: for the time it had taken, if it had measured what it signs.
LEMMA ComputedGas ==
    ASSUME GasHolds, TasksGenuine, HashesHold, NEW k \in Signers, SetComputedGas(k)
    PROVE  GasHolds'
<1> DEFINE h == [header EXCEPT !.gas = task[k].gas]
           account == task[k].account
           includeGas == task[k].includeGas
           gasTime == IF task[k].measured = sections THEN {task[k].time} ELSE {}
           sealed == IF account = NoAccount THEN h ELSE [h EXCEPT !.feesPayerAccount = account]
           g == Signature(k, sealed, includeGas, gasTime)
           sec == SignatureSection(k, Message(sealed, sections, includeGas))
<1>1. /\ signed' = signed \cup {g} /\ UNCHANGED clock
      /\ task' = [task EXCEPT ![k] = [stage |-> "signing", section |-> sec]]
  BY DEF SetComputedGas, Sign
<1>2. task[k].stage = "price"  BY DEF SetComputedGas
<1>3. task[k].gas = ComputeGas(k, Size(task[k].measured), Expiration, task[k].time)
  BY <1>2 DEF GasHolds, GasTask
<1>4. IsHeader(header)  BY DEF HashesHold, Hashed
<1>5. sealed.gas = task[k].gas
  <2>1. IsHeader(h) /\ h.gas = task[k].gas
    <3> DEFINE gas == task[k].gas
    <3>1. h = [header EXCEPT !.gas = gas]  OBVIOUS
    <3> HIDE DEF gas, h
    <3>2. IsHeader([header EXCEPT !.gas = gas])  BY <1>4, HeaderSet
    <3>3. [header EXCEPT !.gas = gas].gas = gas  BY <1>4, FieldsKept
    <3> QED  BY <3>1, <3>2, <3>3 DEF gas
  <2> HIDE DEF h, account
  <2>2. [h EXCEPT !.feesPayerAccount = account].gas = h.gas  BY <2>1, FieldsKept
  <2> QED  BY <2>1, <2>2
<1>6. g.gasTime = gasTime /\ g.header = sealed /\ g.key = k /\ g.sections = sections
  <2> HIDE DEF sealed, gasTime, includeGas
  <2> QED  BY DEF Signature
<1> HIDE DEF sealed, g, sec
<1>7. GasSignature(g)
  <2> SUFFICES ASSUME NEW time \in g.gasTime
               PROVE  g.header.gas = ComputeGas(g.key, Size(g.sections), Expiration, time)
    BY DEF GasSignature
  <2>1. task[k].measured = sections /\ time = task[k].time  BY <1>6
  <2> QED  BY <1>3, <1>5, <1>6, <2>1
<1> HIDE DEF h, account, includeGas, gasTime
<1> QED  BY <1>1, <1>7, SigningGas

LEMMA NextGas ==
    ASSUME GasHolds, AllGenuine, HashesHold, [Next]_vars
    PROVE  GasHolds'
<1>1. TasksGenuine /\ clock \in Nat  BY DEF AllGenuine, GasHolds
<1> USE UnchangedGas
<1>2. CASE \E gas \in Gases : SetGas(gas)  BY <1>1, <1>2 DEF SetGas
<1>3. CASE \E price \in GasPrices : SetGasPrice(price)  BY <1>1, <1>3 DEF SetGasPrice
<1>4. CASE \E account \in Accounts : SetFeesPayerAccount(account)
  BY <1>1, <1>4 DEF SetFeesPayerAccount
<1>5. CASE \E previous \in {Seed, Previous} : SetPreviousHash(previous)
  BY <1>1, <1>5 DEF SetPreviousHash
<1>6. CASE \E c \in Contents : AddSection(Content(c))  BY <1>1, <1>6 DEF AddSection
<1>7. CASE \E k \in Owners, account \in Accounts \cup {NoAccount}, includeGas \in BOOLEAN :
             Seal(k, account, includeGas)
  BY <1>1, <1>7, SealGas DEF Seal, Signers
<1>8. ASSUME NEW k \in Owners, NEW account \in Accounts \cup {NoAccount}, NEW includeGas \in BOOLEAN,
             SetGasAndSeal(k, account, includeGas)
      PROVE  GasHolds'
  <2> DEFINE stage == [stage |-> "formula", account |-> account, includeGas |-> includeGas,
                       time |-> clock]
  <2>1. task' = [task EXCEPT ![k] = stage] /\ UNCHANGED <<signed, clock>>  BY <1>8 DEF SetGasAndSeal
  <2>2. GasTask(k, stage)  BY DEF GasTask
  <2> HIDE DEF stage
  <2> QED  BY <1>1, <2>1, <2>2, TaskGas DEF Signers
<1>9. CASE \E k \in Owners : MeasureSize(k)  BY <1>1, <1>9, MeasureGas DEF Signers
<1>10. CASE \E k \in Owners : SetComputedGas(k)  BY <1>1, <1>10, ComputedGas DEF Signers
<1>11. CASE \E k \in Partners, tag \in Tags : SignAuxiliary(k, tag)  BY <1>1, <1>11, AuxiliaryGas
<1>12. CASE \E k \in Signers : AddSignature(k) \/ TaskThrows(k)
  <2>1. PICK k \in Signers : task' = [task EXCEPT ![k] = Idle] /\ UNCHANGED <<signed, clock>>
    BY <1>12 DEF AddSignature, TaskThrows
  <2>2. GasTask(k, Idle)  BY DEF GasTask, Idle
  <2> QED  BY <1>1, <2>1, <2>2, TaskGas
<1>13. CASE SetTimestamp  BY <1>1, <1>13 DEF SetTimestamp
<1>14. CASE SetAsSuccessor  BY <1>1, <1>14 DEF SetAsSuccessor
<1>15. CASE PopSection  BY <1>1, <1>15 DEF PopSection
<1>16. CASE Tick  BY <1>1, <1>16 DEF Tick
<1>17. CASE UNCHANGED vars  BY <1>1, <1>17 DEF vars
<1> QED
  BY <1>2, <1>3, <1>4, <1>5, <1>6, <1>7, <1>8, <1>9, <1>10, <1>11, <1>12, <1>13, <1>14,
     <1>15, <1>16, <1>17 DEF Next

\* What a sealing signature at the end leaves to be paid for: what was there before it.
LEMMA SealNotPaid ==
    ASSUME SectionsGenuine, NEW k \in Signers, VerifySignature(k)
    PROVE  /\ Size(sections) \in Nat
           /\ Size(SubSeq(sections, 1, Len(sections) - 1)) = Size(sections)
<1>1. PICK S : sections \in Seq(S)  BY DEF SectionsGenuine
<1> DEFINE n == Len(sections)
           seals == {i \in DOMAIN sections : sections[i].type = "signature"}
           before == SubSeq(sections, 1, n - 1)
<1>2. Cardinality(seals) = 1 /\ Last(sections).type = "signature"
  BY DEF VerifySignature, CountOf
<1>3. n \in Nat \ {0}
  <2>1. CASE n = 0
    <3>1. seals = {}  BY <1>1, <2>1
    <3> QED  BY <1>2, <3>1, FS_EmptySet
  <2> QED  BY <1>1, <2>1
<1>4. sections # <<>> /\ Size(sections) = n - 1  BY <1>1, <1>2, <1>3 DEF Size
<1>5. n \in seals  BY <1>1, <1>2, <1>3 DEF Last
<1>6. /\ before \in Seq(S) /\ Len(before) = n - 1
      /\ \A i \in 1 .. n - 1 : before[i] = sections[i]
  <2>1. n \in Nat \ {0} /\ sections \in Seq(S) /\ n = Len(sections)  BY <1>1, <1>3
  <2> HIDE DEF n
  <2>2. before = [i \in 1 .. n - 1 |-> sections[i]]  BY <2>1
  <2>3. \A i \in 1 .. n - 1 : sections[i] \in S  BY <2>1
  <2>4. before \in Seq(S) /\ Len(before) = n - 1  BY <2>1, <2>2, <2>3
  <2> QED  BY <2>2, <2>4
<1>7. CASE n = 1
  <2>1. before = <<>>  BY <1>6, <1>7
  <2> QED  BY <1>4, <1>6, <1>7, <2>1 DEF Size
<1>8. CASE n # 1
  <2>1. before # <<>> /\ n - 1 \in DOMAIN sections /\ before[n - 1] = sections[n - 1]
    <3>1. n - 1 \in 1 .. n - 1 /\ n - 1 \in 1 .. n
      <4> HIDE DEF n
      <4> QED  BY <1>3, <1>8
    <3>2. DOMAIN sections = 1 .. n  BY <1>1
    <3> HIDE DEF before
    <3>3. before # <<>>  BY <1>3, <1>6, <1>8
    <3> QED  BY <1>6, <3>1, <3>2, <3>3
  <2>2. n - 1 \notin seals
    <3>1. IsFiniteSet(seals)
      <4>1. IsFiniteSet(DOMAIN sections)  BY <1>1, <1>3, FS_Interval
      <4> QED  BY <4>1, FS_Subset
    <3>2. PICK i : seals = {i}
      <4> HIDE DEF seals
      <4> QED  BY <1>2, <3>1, FS_Singleton
    <3> QED  BY <1>3, <1>5, <3>2
  <2>3. Last(before).type # "signature"  BY <1>6, <2>1, <2>2 DEF Last
  <2> QED  BY <1>4, <1>6, <2>1, <2>3 DEF Size
<1> QED  BY <1>3, <1>4, <1>7, <1>8

LEMMA GasAgrees ==
    ASSUME GasHolds, AllGenuine
    PROVE  GasAgreed
<1> SUFFICES ASSUME NEW k \in Signers, NEW time \in 0 .. clock, SealedWithGas(k, time)
             PROVE  GasAt(time, k) = header.gas /\ GasAt(clock, k) <= header.gas
  BY DEF GasAgreed
<1>1. PICK g \in signed : /\ Covers(g, k, Len(sections) - 1)
                          /\ g.includeGas /\ AgreesToGas(g)
                          /\ time \in g.gasTime
  BY DEF SealedWithGas
<1>2. g.header.gas = ComputeGas(g.key, Size(g.sections), Expiration, time)
  BY <1>1 DEF GasHolds, GasSignature
<1>3. g.key = k /\ g.sections = SubSeq(sections, 1, Len(sections) - 1)  BY <1>1 DEF Covers
<1>4. g.header.gas = header.gas  BY <1>1 DEF AgreesToGas
<1>5. Size(sections) \in Nat /\ Size(g.sections) = Size(sections)
  BY <1>3, SealNotPaid DEF AllGenuine, SealedWithGas
<1>6. GasAt(time, k) = header.gas  BY <1>2, <1>3, <1>4, <1>5 DEF GasAt
<1>7. clock \in Nat /\ time \in Nat /\ time <= clock  BY DEF GasHolds
<1>8. GasAt(clock, k) <= GasAt(time, k)  BY <1>5, <1>7, GasFalls DEF GasAt
<1> QED  BY <1>6, <1>8

\* For any policy, costs, sizes and times, whatever is called between the steps of the
\* signer: the gas that setGasAndSeal sets is what a checker computes for that time, and
\* enough at any later one.
THEOREM SealedGasAgreed == Spec => []GasAgreed
<1>1. Init => AllGenuine /\ HashesHold /\ GasHolds
  <2> SUFFICES ASSUME Init PROVE GasHolds  BY InitGenuine, InitHashes
  <2>1. clock = 0 /\ signed = {} /\ task = [k \in Signers |-> Idle]  BY DEF Init
  <2>2. \A k \in Signers : GasTask(k, task[k])  BY <2>1 DEF GasTask, Idle
  <2> QED  BY <2>1, <2>2 DEF GasHolds
<1>2. AllGenuine /\ HashesHold /\ GasHolds /\ [Next]_vars => (AllGenuine /\ HashesHold /\ GasHolds)'
  BY NextGenuine, NextHashes, NextGas
<1>3. AllGenuine /\ HashesHold /\ GasHolds => GasAgreed  BY GasAgrees
<1> QED  BY <1>1, <1>2, <1>3, PTL DEF Spec
===============================================================================
