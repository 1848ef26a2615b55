------------------------- MODULE ProviderCacheProofs -------------------------
(* For any number of callers, chains and heights: the types, and that the provider
   implements ChainReads.  For any set of hashes: the reads of microblocks agree with
   the node's (MicroblockReads).  For chains and radix trees of any size: the proofs of
   the node's state are accepted, and nothing else (StateProofs), and for trees of any
   number of leaves so are the leaves that are shown with witnesses (Witnesses).  And bytes of
   any length, any number and any genesis seed come back from their encodings (Encodings). *)
EXTENDS ProviderCache, MicroblockReads, StateProofs, Witnesses, Encodings, SumsProofs, SequenceTheorems,
        FiniteSetTheorems, TLAPS

Op == {"status", "state"}

\* A request in flight is about heights its chain really had, and the node's
\* answer is at least as recent as the start of the call.
Current(q) == /\ q.since <= chain[q.chain]
              /\ q.stage = "answered" => /\ q.since <= q.answer
                                         /\ q.answer <= chain[q.chain]
                                         /\ q.changed <=> (q.answer # q.known)

AnswersCurrent == \A r \in Callers : call[r].stage # "idle" => Current(call[r])

\* What is stored was a state of the chain.
StoreWithinChain == \A c \in Chains : store[c] <= chain[c]

Inductive == TypeOK /\ AnswersCurrent /\ StoreWithinChain

-----------------------------------------------------------------------------

LEMMA HeightsInInt == Heights \subseteq Int /\ 0 \in Heights
BY MaxHeightAssumption DEF Heights

LEMMA CallIsTyped ==
  ASSUME NEW q \in Call \cup {NoCall}, q.stage # "idle"
  PROVE  /\ q \in Call
         /\ q.chain \in Chains /\ q.known \in Heights /\ q.since \in Heights
         /\ q.answer \in Heights /\ q.changed \in BOOLEAN /\ q.op \in Op
         /\ q.stage \in {"asked", "answered"}
BY DEF Call, NoCall, Op

LEMMA NoCallIsIdle == NoCall.stage = "idle"
BY DEF NoCall

LEMMA AskedIsTyped ==
  ASSUME TypeOK, NEW op \in Op, NEW c \in Chains, NEW known \in Heights
  PROVE  /\ Asked(op, c, known) \in Call
         /\ Asked(op, c, known).stage = "asked"
         /\ Asked(op, c, known).op = op
         /\ Asked(op, c, known).chain = c
         /\ Asked(op, c, known).since = chain[c]
<1>1. chain[c] \in Heights /\ 0 \in Heights
  BY HeightsInInt DEF TypeOK
<1> QED BY <1>1 DEF Asked, Call, Op

LEMMA AnsweredIsTyped ==
  ASSUME TypeOK, NEW q \in Call
  PROVE  /\ Answered(q) \in Call
         /\ Answered(q).stage = "answered"
         /\ Answered(q).chain = q.chain
         /\ Answered(q).op = q.op
         /\ Answered(q).since = q.since
         /\ Answered(q).known = q.known
         /\ Answered(q).answer = chain[q.chain]
         /\ Answered(q).changed = (chain[q.chain] # q.known)
<1>1. q.chain \in Chains /\ q.op \in Op /\ q.known \in Heights /\ q.since \in Heights
  BY DEF Call, Op
<1>2. chain[q.chain] \in Heights
  BY <1>1 DEF TypeOK
<1> QED BY <1>1, <1>2 DEF Answered, Call, Op

LEMMA ReturnedIsTyped ==
  ASSUME TypeOK, NEW r \in Callers, NEW c \in Chains, NEW h \in Heights
  PROVE  Returned(r, c, h) \in [Callers -> [Chains -> Heights]]
<1>1. [seen[r] EXCEPT ![c] = h] \in [Chains -> Heights]
  BY DEF TypeOK
<1> QED BY <1>1 DEF TypeOK, Returned

LEMMA InitInductive == Init => Inductive
BY HeightsInInt, NoCallIsIdle DEF Init, Inductive, TypeOK, AnswersCurrent, StoreWithinChain

-----------------------------------------------------------------------------
(* A step keeps the requests of the other callers: only the one that acts and the
   chain's growth matter to AnswersCurrent. *)

LEMMA OthersKept ==
  ASSUME Inductive, chain' = chain, NEW r \in Callers, NEW q,
         q \in Call \cup {NoCall}, q.stage # "idle" => Current(q),
         call' = [call EXCEPT ![r] = q]
  PROVE  /\ call' \in [Callers -> Call \cup {NoCall}]
         /\ AnswersCurrent'
<1>1. call' \in [Callers -> Call \cup {NoCall}]
  BY DEF Inductive, TypeOK
<1>2. ASSUME NEW s \in Callers, call'[s].stage # "idle"
      PROVE  Current(call[s])'
  <2>1. CASE s = r
    <3>1. call'[s] = q
      BY <2>1 DEF Inductive, TypeOK
    <3>2. Current(call'[s])
      BY <3>1, <1>2
    <3> QED BY <3>2 DEF Current
  <2>2. CASE s # r
    <3>1. call'[s] = call[s]
      BY <2>2 DEF Inductive, TypeOK
    <3>2. Current(call'[s])
      BY <3>1, <1>2 DEF Inductive, AnswersCurrent
    <3> QED BY <3>2 DEF Current
  <2> QED BY <2>1, <2>2
<1>3. AnswersCurrent'
  BY <1>2 DEF AnswersCurrent
<1> QED BY <1>1, <1>3

LEMMA GrowKeeps ==
  ASSUME Inductive, NEW c \in Chains, Grow(c)
  PROVE  Inductive'
<1>1. chain' \in [Chains -> Heights]
  BY MaxHeightAssumption DEF Grow, Inductive, TypeOK, Heights
<1>2. TypeOK'
  BY <1>1 DEF Grow, Inductive, TypeOK
<1>3. ASSUME NEW s \in Callers, call'[s].stage # "idle"
      PROVE  Current(call[s])'
  <2> DEFINE q == call[s]
  <2>1. call'[s] = q
    BY DEF Grow
  <2>2. q \in Call \cup {NoCall} /\ q.stage # "idle"
    BY <1>3, <2>1 DEF Inductive, TypeOK
  <2>3. Current(q)
    BY <2>2 DEF Inductive, AnswersCurrent
  <2>4. /\ q.chain \in Chains /\ q.since \in Int /\ q.answer \in Int
    BY <2>2, CallIsTyped, HeightsInInt
  <2> HIDE DEF q
  <2>5. chain[q.chain] \in Int /\ chain'[q.chain] \in Int /\ chain[q.chain] <= chain'[q.chain]
    <3>1. chain[q.chain] \in Int /\ chain'[q.chain] \in Int
      BY <2>4, <1>1, HeightsInInt DEF Inductive, TypeOK
    <3>2. chain'[q.chain] = IF q.chain = c THEN chain[q.chain] + 1 ELSE chain[q.chain]
      BY <2>4 DEF Grow, Inductive, TypeOK
    <3> QED BY <3>1, <3>2
  <2>6. q.since <= chain'[q.chain] /\ (q.stage = "answered" => q.answer <= chain'[q.chain])
    BY <2>3, <2>4, <2>5 DEF Current
  <2>7. /\ q.since <= chain'[q.chain]
        /\ q.stage = "answered" => /\ q.since <= q.answer
                                   /\ q.answer <= chain'[q.chain]
                                   /\ q.changed <=> (q.answer # q.known)
    BY <2>6, <2>3, Zenon DEF Current
  <2> QED BY <2>1, <2>7, Zenon DEF Current
<1>4. AnswersCurrent'
  BY <1>3 DEF AnswersCurrent
<1>5. StoreWithinChain'
  <2> SUFFICES ASSUME NEW d \in Chains PROVE store[d] <= chain'[d]
    BY DEF Grow, StoreWithinChain
  <2>1. store[d] <= chain[d] /\ store[d] \in Int /\ chain[d] \in Int
    BY HeightsInInt DEF Inductive, TypeOK, StoreWithinChain
  <2>2. chain'[d] = chain[d] \/ chain'[d] = chain[d] + 1
    BY DEF Grow, Inductive, TypeOK
  <2> QED BY <2>1, <2>2
<1> QED BY <1>2, <1>4, <1>5 DEF Inductive

LEMMA NodeAnswersKeeps ==
  ASSUME Inductive, NEW r \in Callers, NodeAnswers(r)
  PROVE  Inductive'
<1> DEFINE q == call[r]
           a == Answered(q)
<1>1. q \in Call
  BY CallIsTyped DEF NodeAnswers, Inductive, TypeOK
<1>2. a \in Call /\ a.stage = "answered" /\ a.chain = q.chain /\ a.since = q.since
      /\ a.op = q.op /\ a.known = q.known /\ a.answer = chain[q.chain]
      /\ a.changed = (chain[q.chain] # q.known)
  BY <1>1, AnsweredIsTyped DEF Inductive
<1>3. Current(q)
  BY DEF NodeAnswers, Inductive, AnswersCurrent
<1>4. chain[q.chain] \in Int /\ q.since \in Int
  BY <1>1, HeightsInInt DEF Call, Inductive, TypeOK
<1>5. call' = [call EXCEPT ![r] = a] /\ UNCHANGED <<chain, store, seen, overlap>>
  BY DEF NodeAnswers
<1> HIDE DEF q, a
<1>6. Current(a)
  <2>1. a.since <= chain[a.chain]
    BY <1>2, <1>3 DEF Current
  <2>2. a.since <= a.answer
    BY <1>2, <1>3 DEF Current
  <2>3. a.answer <= chain[a.chain]
    BY <1>2, <1>4
  <2>4. a.changed <=> (a.answer # a.known)
    BY <1>2
  <2> QED BY <2>1, <2>2, <2>3, <2>4 DEF Current
<1>7. AnswersCurrent' /\ call' \in [Callers -> Call \cup {NoCall}]
  BY <1>2, <1>5, <1>6, OthersKept
<1> QED BY <1>5, <1>7 DEF Inductive, TypeOK, StoreWithinChain

\* BeginStatus and BeginState: a request that is just asked.
LEMMA BeginKeeps ==
  ASSUME Inductive, NEW r \in Callers, NEW c \in Chains, NEW op \in Op, NEW known \in Heights,
         call' = [call EXCEPT ![r] = Asked(op, c, known)], UNCHANGED <<chain, store, seen>>,
         overlap' \subseteq Chains
  PROVE  Inductive'
<1> DEFINE q == Asked(op, c, known)
<1>1. q \in Call /\ q.stage = "asked" /\ q.op = op /\ q.chain = c /\ q.since = chain[c]
  BY AskedIsTyped DEF Inductive
<1>2. chain[c] \in Int
  BY HeightsInInt DEF Inductive, TypeOK
<1> HIDE DEF q
<1>3. Current(q)
  BY <1>1, <1>2 DEF Current
<1>4. AnswersCurrent' /\ call' \in [Callers -> Call \cup {NoCall}]
  <2>1. call' = [call EXCEPT ![r] = q]
    BY DEF q
  <2> QED BY <1>1, <1>3, <2>1, OthersKept
<1> QED BY <1>4 DEF Inductive, TypeOK, StoreWithinChain

\* ReceiveStatus, ReceiveState and Abort: the request of r ends.
LEMMA EndKeeps ==
  ASSUME Inductive, NEW r \in Callers, call' = [call EXCEPT ![r] = NoCall], chain' = chain,
         store' \in [Chains -> Heights], seen' \in [Callers -> [Chains -> Heights]],
         overlap' = overlap, StoreWithinChain'
  PROVE  Inductive'
<1>1. AnswersCurrent' /\ call' \in [Callers -> Call \cup {NoCall}]
  BY OthersKept, NoCallIsIdle
<1> QED BY <1>1 DEF Inductive, TypeOK

LEMMA OverlapTyped ==
  ASSUME TypeOK, NEW c \in Chains
  PROVE  WithOverlap(c) \subseteq Chains
BY DEF TypeOK, WithOverlap

LEMMA StatusOfIsHeight ==
  ASSUME NEW q \in Call
  PROVE  StatusOf(q) \in Heights
BY HeightsInInt DEF StatusOf, Call

LEMMA StepInductive ==
  ASSUME Inductive, [Next]_vars
  PROVE  Inductive'
<1>1. ASSUME NEW c \in Chains, Grow(c) PROVE Inductive'
  BY <1>1, GrowKeeps
<1>2. ASSUME NEW r \in Callers, NodeAnswers(r) PROVE Inductive'
  BY <1>2, NodeAnswersKeeps
<1>3. ASSUME NEW r \in Callers, ReceiveStatus(r) PROVE Inductive'
  <2>1. call[r] \in Call /\ call[r].chain \in Chains /\ call[r].answer \in Heights
    BY <1>3, CallIsTyped DEF ReceiveStatus, Inductive, TypeOK
  <2>2. store' \in [Chains -> Heights]
    BY <1>3, <2>1 DEF ReceiveStatus, Inductive, TypeOK
  <2>3. seen' \in [Callers -> [Chains -> Heights]]
    BY <1>3, <2>1, StatusOfIsHeight, ReturnedIsTyped DEF ReceiveStatus, Inductive
  <2>4. StoreWithinChain'
    <3>1. call[r].answer <= chain[call[r].chain]
      BY <1>3 DEF ReceiveStatus, Inductive, AnswersCurrent, Current
    <3> QED BY <1>3, <2>1, <3>1 DEF ReceiveStatus, Inductive, TypeOK, StoreWithinChain
  <2> QED BY <1>3, <2>2, <2>3, <2>4, EndKeeps DEF ReceiveStatus
<1>4. ASSUME NEW r \in Callers, ReceiveState(r) PROVE Inductive'
  <2>1. call[r] \in Call /\ call[r].chain \in Chains /\ call[r].answer \in Heights
    BY <1>4, CallIsTyped DEF ReceiveState, Inductive, TypeOK
  <2>2. store' \in [Chains -> Heights]
    BY <1>4, <2>1 DEF ReceiveState, Inductive, TypeOK
  <2>3. seen' \in [Callers -> [Chains -> Heights]]
    BY <1>4, <2>1, ReturnedIsTyped DEF ReceiveState, Inductive
  <2>4. StoreWithinChain'
    <3>1. call[r].answer <= chain[call[r].chain]
      BY <1>4 DEF ReceiveState, Inductive, AnswersCurrent, Current
    <3> QED BY <1>4, <2>1, <3>1 DEF ReceiveState, Inductive, TypeOK, StoreWithinChain
  <2> QED BY <1>4, <2>2, <2>3, <2>4, EndKeeps DEF ReceiveState
<1>5. ASSUME NEW r \in Callers, Abort(r) PROVE Inductive'
  BY <1>5, EndKeeps DEF Abort, Inductive, TypeOK, StoreWithinChain
<1>6. ASSUME NEW r \in Callers, NEW c \in Chains, BeginStatus(r, c) PROVE Inductive'
  <2>1. store[c] \in Heights
    BY DEF Inductive, TypeOK
  <2> QED BY <1>6, <2>1, OverlapTyped, BeginKeeps DEF BeginStatus, Op, Inductive
<1>7. ASSUME NEW r \in Callers, NEW c \in Chains, StateFromStore(r, c) PROVE Inductive'
  <2>1. seen' \in [Callers -> [Chains -> Heights]]
    <3>1. store[c] \in Heights
      BY DEF Inductive, TypeOK
    <3> QED BY <1>7, <3>1, ReturnedIsTyped DEF StateFromStore, Inductive
  <2> QED BY <1>7, <2>1 DEF StateFromStore, Inductive, TypeOK, AnswersCurrent, Current, StoreWithinChain
<1>8. ASSUME NEW r \in Callers, NEW c \in Chains, BeginState(r, c) PROVE Inductive'
  BY <1>8, OverlapTyped, BeginKeeps, HeightsInInt DEF BeginState, Op, Inductive
<1>9. ASSUME Clear PROVE Inductive'
  <2>1. \A c \in Chains : chain[c] \in Nat
    BY MaxHeightAssumption DEF Inductive, TypeOK, Heights
  <2>2. StoreWithinChain'
    BY <1>9, <2>1 DEF Clear, StoreWithinChain
  <2> QED BY <1>9, <2>2, HeightsInInt DEF Clear, Inductive, TypeOK, AnswersCurrent, Current
<1>10. ASSUME UNCHANGED vars PROVE Inductive'
  BY <1>10 DEF vars, Inductive, TypeOK, AnswersCurrent, Current, StoreWithinChain
<1> QED BY <1>1, <1>2, <1>3, <1>4, <1>5, <1>6, <1>7, <1>8, <1>9, <1>10 DEF Next

\* The states of the provider keep their types whatever the callers read.
THEOREM CacheTypeCorrect == Spec => []TypeOK
<1>1. Inductive /\ [Next]_vars => Inductive'
  BY StepInductive
<1>2. Inductive => TypeOK
  BY DEF Inductive
<1> QED BY InitInductive, <1>1, <1>2, PTL DEF Spec

LEMMA InductiveHolds == Spec => []Inductive
<1>1. Inductive /\ [Next]_vars => Inductive'
  BY StepInductive
<1> QED BY InitInductive, <1>1, PTL DEF Spec

-----------------------------------------------------------------------------
(* The refinement: a call that returns gives a height of its interval. *)

\* The heart of the argument: an unchanged answer means that the known state is
\* the one the node had when it answered.
LEMMA AnswerWithinCall ==
  ASSUME Inductive, NEW r \in Callers, call[r].stage = "answered"
  PROVE  /\ call[r].answer \in call[r].since .. chain[call[r].chain]
         /\ StatusOf(call[r]) = call[r].answer
<1> DEFINE q == call[r]
<1>1. q \in Call /\ Current(q)
  BY CallIsTyped DEF Inductive, TypeOK, AnswersCurrent
<1>2. q.since \in Heights /\ q.answer \in Heights /\ q.known \in Heights /\ chain[q.chain] \in Heights
  BY <1>1 DEF Call, Inductive, TypeOK
<1>3. q.stage = "answered"
  OBVIOUS
<1> HIDE DEF q
<1>4. q.since <= q.answer /\ q.answer <= chain[q.chain]
  BY <1>1, <1>3 DEF Current
<1>5. ~q.changed => q.answer = q.known
  BY <1>1, <1>3 DEF Current
<1>6. StatusOf(q) = q.answer
  BY <1>5 DEF StatusOf
<1>7. q.answer \in q.since .. chain[q.chain]
  BY <1>2, <1>4 DEF Heights
<1> QED BY <1>6, <1>7 DEF q

\* What ChainReads sees of the requests, request by request.
LEMMA PendingUpdate ==
  ASSUME Inductive, NEW r \in Callers, NEW q \in Call \cup {NoCall},
         call' = [call EXCEPT ![r] = q]
  PROVE  Pending' = [Pending EXCEPT ![r] =
                       IF q.stage = "idle" THEN [active |-> FALSE]
                       ELSE [active |-> TRUE, chain |-> q.chain, since |-> q.since]]
BY DEF Pending, Inductive, TypeOK

LEMMA PendingOf ==
  ASSUME NEW r \in Callers
  PROVE  /\ call[r].stage = "idle" => Pending[r] = Reads!NoRead /\ ~Pending[r].active
         /\ call[r].stage # "idle" => /\ Pending[r].active
                                     /\ Pending[r].chain = call[r].chain
                                     /\ Pending[r].since = call[r].since
BY DEF Pending, Reads!NoRead

\* Each step is a step of ChainReads or leaves what it sees unchanged.
LEMMA StepRefines ==
  ASSUME Inductive, [Next]_vars
  PROVE  [Reads!Next]_<<chain, Pending, seen>>
<1>1. ASSUME NEW c \in Chains, Grow(c) PROVE Reads!Next
  <2>1. Reads!Grow(c)
    BY <1>1 DEF Grow, Reads!Grow, Pending
  <2> QED BY <2>1 DEF Reads!Next
<1>2. ASSUME NEW r \in Callers, NodeAnswers(r) PROVE UNCHANGED <<chain, Pending, seen>>
  <2>1. call[r] \in Call
    BY <1>2, CallIsTyped DEF NodeAnswers, Inductive, TypeOK
  <2>2. call' = [call EXCEPT ![r] = Answered(call[r])]
    BY <1>2 DEF NodeAnswers
  <2> DEFINE a == Answered(call[r])
  <2>3. a \in Call /\ a.stage = "answered" /\ a.chain = call[r].chain /\ a.since = call[r].since
    BY <2>1, AnsweredIsTyped DEF Inductive
  <2>4. call[r].stage = "asked"
    BY <1>2 DEF NodeAnswers
  <2> HIDE DEF a
  <2>5. call' = [call EXCEPT ![r] = a]
    BY <2>2 DEF a
  <2>6. Pending' = Pending
    BY <2>3, <2>4, <2>5 DEF Pending, Inductive, TypeOK
  <2> QED BY <1>2, <2>6 DEF NodeAnswers
<1>3. ASSUME NEW r \in Callers, ReceiveStatus(r) PROVE Reads!Next
  <2>1. /\ Pending[r].active /\ Pending[r].chain = call[r].chain /\ Pending[r].since = call[r].since
    BY <1>3, PendingOf DEF ReceiveStatus
  <2>2. Pending' = [Pending EXCEPT ![r] = Reads!NoRead]
    BY <1>3, PendingUpdate, NoCallIsIdle DEF ReceiveStatus, Reads!NoRead
  <2>3. StatusOf(call[r]) \in Pending[r].since .. chain[Pending[r].chain]
    BY <1>3, <2>1, AnswerWithinCall DEF ReceiveStatus
  <2>4. seen' = [seen EXCEPT ![r] = [seen[r] EXCEPT ![Pending[r].chain] = StatusOf(call[r])]]
    BY <1>3, <2>1 DEF ReceiveStatus, Returned
  <2>5. chain' = chain
    BY <1>3 DEF ReceiveStatus
  <2>6. Reads!Return(r)
    BY <2>1, <2>2, <2>3, <2>4, <2>5 DEF Reads!Return
  <2> QED BY <2>6 DEF Reads!Next
<1>4. ASSUME NEW r \in Callers, ReceiveState(r) PROVE Reads!Next
  <2>1. /\ Pending[r].active /\ Pending[r].chain = call[r].chain /\ Pending[r].since = call[r].since
    BY <1>4, PendingOf DEF ReceiveState
  <2>2. Pending' = [Pending EXCEPT ![r] = Reads!NoRead]
    BY <1>4, PendingUpdate, NoCallIsIdle DEF ReceiveState, Reads!NoRead
  <2>3. call[r].answer \in Pending[r].since .. chain[Pending[r].chain]
    BY <1>4, <2>1, AnswerWithinCall DEF ReceiveState
  <2>4. seen' = [seen EXCEPT ![r] = [seen[r] EXCEPT ![Pending[r].chain] = call[r].answer]]
    BY <1>4, <2>1 DEF ReceiveState, Returned
  <2>5. chain' = chain
    BY <1>4 DEF ReceiveState
  <2>6. Reads!Return(r)
    BY <2>1, <2>2, <2>3, <2>4, <2>5 DEF Reads!Return
  <2> QED BY <2>6 DEF Reads!Next
<1>5. ASSUME NEW r \in Callers, Abort(r) PROVE Reads!Next
  <2>1. Pending[r].active
    BY <1>5, PendingOf DEF Abort
  <2>2. Pending' = [Pending EXCEPT ![r] = Reads!NoRead]
    BY <1>5, PendingUpdate, NoCallIsIdle DEF Abort, Reads!NoRead
  <2>3. Reads!GiveUp(r)
    BY <1>5, <2>1, <2>2 DEF Abort, Reads!GiveUp
  <2> QED BY <2>3 DEF Reads!Next
<1>6. ASSUME NEW r \in Callers, NEW c \in Chains, BeginStatus(r, c) PROVE Reads!Next
  <2> DEFINE q == Asked("status", c, store[c])
  <2>1. q \in Call /\ q.stage = "asked" /\ q.chain = c /\ q.since = chain[c]
    BY AskedIsTyped DEF Inductive, TypeOK, Op
  <2>2. call' = [call EXCEPT ![r] = q]
    BY <1>6 DEF BeginStatus
  <2>3. ~Pending[r].active
    BY <1>6, PendingOf DEF BeginStatus
  <2> HIDE DEF q
  <2>4. Pending' = [Pending EXCEPT ![r] = Reads!Read(c, chain[c])]
    BY <2>1, <2>2, PendingUpdate DEF Reads!Read
  <2>5. Reads!Begin(r, c)
    BY <1>6, <2>3, <2>4 DEF BeginStatus, Reads!Begin
  <2> QED BY <2>5 DEF Reads!Next
<1>7. ASSUME NEW r \in Callers, NEW c \in Chains, BeginState(r, c) PROVE Reads!Next
  <2> DEFINE q == Asked("state", c, 0)
  <2>1. q \in Call /\ q.stage = "asked" /\ q.chain = c /\ q.since = chain[c]
    BY AskedIsTyped, HeightsInInt DEF Inductive, TypeOK, Op
  <2>2. call' = [call EXCEPT ![r] = q]
    BY <1>7 DEF BeginState
  <2>3. ~Pending[r].active
    BY <1>7, PendingOf DEF BeginState
  <2> HIDE DEF q
  <2>4. Pending' = [Pending EXCEPT ![r] = Reads!Read(c, chain[c])]
    BY <2>1, <2>2, PendingUpdate DEF Reads!Read
  <2>5. Reads!Begin(r, c)
    BY <1>7, <2>3, <2>4 DEF BeginState, Reads!Begin
  <2> QED BY <2>5 DEF Reads!Next
<1>8. ASSUME NEW r \in Callers, NEW c \in Chains, StateFromStore(r, c) PROVE Reads!Next
  <2>1. store[c] \in 1 .. chain[c]
    <3>1. store[c] \in Heights /\ chain[c] \in Heights /\ store[c] <= chain[c]
      BY DEF Inductive, TypeOK, StoreWithinChain
    <3> QED BY <1>8, <3>1 DEF StateFromStore, Heights
  <2>2. seen' = [seen EXCEPT ![r] = [seen[r] EXCEPT ![c] = store[c]]]
    BY <1>8 DEF StateFromStore, Returned
  <2>3. chain' = chain /\ Pending' = Pending
    BY <1>8 DEF StateFromStore, Pending
  <2>4. Reads!Recall(r, c)
    BY <2>1, <2>2, <2>3 DEF Reads!Recall
  <2> QED BY <2>4 DEF Reads!Next
<1>9. ASSUME Clear \/ UNCHANGED vars PROVE UNCHANGED <<chain, Pending, seen>>
  BY <1>9 DEF Clear, vars, Pending
<1> QED BY <1>1, <1>2, <1>3, <1>4, <1>5, <1>6, <1>7, <1>8, <1>9 DEF Next

\* With any number of concurrent callers, what a call that asked the node returns was
\* the state of its chain at some time during the call, and what comes from the store
\* was one earlier (getVirtualBlockchainStatus, getVirtualBlockchainState).
THEOREM ProviderImplementsReads == Spec => NodeReads
<1>1. Init => Reads!Init
  BY NoCallIsIdle DEF Init, Reads!Init, Reads!NoRead, Pending
<1>2. Inductive /\ [Next]_vars => [Reads!Next]_<<chain, Pending, seen>>
  BY StepRefines
<1> QED BY <1>1, <1>2, InductiveHolds, PTL DEF Spec, NodeReads, Reads!Spec

-----------------------------------------------------------------------------
(* What callers were told, in time: for the two action properties. *)

InFlight(r, c) == call[r].stage # "idle" /\ call[r].chain = c

\* A caller was told heights that its chain has, and nothing while it waits.
SeenWithinChain == \A r \in Callers, c \in Chains : seen[r][c] <= chain[c]
SeenBeforeCall ==
    \A r \in Callers : call[r].stage # "idle" => seen[r][call[r].chain] <= call[r].since

\* As long as requests about a chain take turns, the store is not behind any caller, and
\* what it holds during a request is what it held when the request began, or nothing.
InTurn(c) ==
    /\ \A r \in Callers : store[c] > 0 => seen[r][c] <= store[c]
    /\ \A r \in Callers : InFlight(r, c) =>
         /\ store[c] \in {0, call[r].known}
         /\ call[r].known <= call[r].since
         /\ \A s \in Callers : seen[s][c] <= call[r].since
         /\ \A s \in Callers : InFlight(s, c) => s = r

History == /\ SeenWithinChain
           /\ SeenBeforeCall
           /\ \A c \in Chains : c \notin overlap => InTurn(c)

LEMMA HeightsOf ==
  ASSUME TypeOK, NEW r \in Callers, NEW c \in Chains
  PROVE  seen[r][c] \in Nat /\ store[c] \in Nat /\ chain[c] \in Nat
BY MaxHeightAssumption DEF TypeOK, Heights

LEMMA CallOf ==
  ASSUME TypeOK, NEW r \in Callers, call[r].stage # "idle"
  PROVE  /\ call[r] \in Call /\ call[r].chain \in Chains
         /\ call[r].known \in Nat /\ call[r].since \in Nat /\ call[r].answer \in Nat
<1>1. call[r] \in Call \cup {NoCall}
  BY DEF TypeOK
<1>2. Heights \subseteq Nat
  BY MaxHeightAssumption DEF Heights
<1> QED BY <1>1, <1>2, CallIsTyped

LEMMA ReturnedAt ==
  ASSUME TypeOK, NEW r \in Callers, NEW c \in Chains, NEW h
  PROVE  \A s \in Callers, d \in Chains :
           Returned(r, c, h)[s][d] = IF s = r /\ d = c THEN h ELSE seen[s][d]
BY DEF TypeOK, Returned

\* The requests after one of them was replaced.
LEMMA CallAfter ==
  ASSUME TypeOK, NEW r \in Callers, NEW q, call' = [call EXCEPT ![r] = q]
  PROVE  call'[r] = q /\ \A s \in Callers : s # r => call'[s] = call[s]
BY DEF TypeOK

LEMMA InitHistory == Init => History
BY NoCallIsIdle DEF Init, History, SeenWithinChain, SeenBeforeCall, InTurn, InFlight

\* What a chain has only grows, and nothing else changes.
LEMMA GrowHistory ==
  ASSUME Inductive, History, NEW c \in Chains, Grow(c)
  PROVE  History'
<1>1. \A d \in Chains : chain'[d] >= chain[d]
  <2> SUFFICES ASSUME NEW d \in Chains PROVE chain'[d] >= chain[d]
    OBVIOUS
  <2>1. chain[d] \in Int
    BY HeightsInInt DEF Inductive, TypeOK
  <2>2. chain'[d] = chain[d] \/ chain'[d] = chain[d] + 1
    BY DEF Grow, Inductive, TypeOK
  <2> QED BY <2>1, <2>2
<1>2. SeenWithinChain'
  <2> SUFFICES ASSUME NEW r \in Callers, NEW d \in Chains PROVE seen[r][d] <= chain'[d]
    BY DEF Grow, SeenWithinChain
  <2>1. seen[r][d] <= chain[d] /\ chain'[d] >= chain[d]
    BY <1>1 DEF History, SeenWithinChain
  <2>2. Inductive'
    BY GrowKeeps
  <2>3. chain'[d] \in Int /\ chain[d] \in Int /\ seen[r][d] \in Int
    BY <2>2, HeightsInInt, HeightsOf DEF Inductive, TypeOK
  <2> QED BY <2>1, <2>3
<1> QED BY <1>2 DEF Grow, History, SeenBeforeCall, InTurn, InFlight

\* The stages of a request only matter by whether there is one.
LEMMA NodeAnswersHistory ==
  ASSUME Inductive, History, NEW r \in Callers, NodeAnswers(r)
  PROVE  History'
<1> DEFINE a == Answered(call[r])
<1>1. TypeOK /\ call[r].stage = "asked"
  BY DEF Inductive, NodeAnswers
<1>2. call[r] \in Call
  BY <1>1, CallOf
<1>3. /\ a.stage = "answered" /\ a.chain = call[r].chain
      /\ a.since = call[r].since /\ a.known = call[r].known
  BY <1>1, <1>2, AnsweredIsTyped
<1>4. call' = [call EXCEPT ![r] = a]
  BY DEF NodeAnswers
<1> HIDE DEF a
<1>5. \A s \in Callers : /\ call'[s].stage # "idle" <=> call[s].stage # "idle"
                         /\ call'[s].stage # "idle" => /\ call'[s].chain = call[s].chain
                                                       /\ call'[s].since = call[s].since
                                                       /\ call'[s].known = call[s].known
  <2> SUFFICES ASSUME NEW s \in Callers
               PROVE  /\ call'[s].stage # "idle" <=> call[s].stage # "idle"
                      /\ call'[s].stage # "idle" => /\ call'[s].chain = call[s].chain
                                                    /\ call'[s].since = call[s].since
                                                    /\ call'[s].known = call[s].known
    OBVIOUS
  <2>1. CASE s = r
    BY <1>1, <1>3, <1>4, <2>1, CallAfter
  <2>2. CASE s # r
    BY <1>1, <1>4, <2>2, CallAfter
  <2> QED BY <2>1, <2>2
<1>6. UNCHANGED <<chain, store, seen, overlap>>
  BY DEF NodeAnswers
<1>7. SeenWithinChain' /\ SeenBeforeCall'
  BY <1>5, <1>6 DEF History, SeenWithinChain, SeenBeforeCall
<1>8. ASSUME NEW c \in Chains, InTurn(c) PROVE InTurn(c)'
  <2>1. \A s \in Callers : /\ InFlight(s, c)' <=> InFlight(s, c)
                           /\ InFlight(s, c) => /\ call'[s].since = call[s].since
                                                /\ call'[s].known = call[s].known
    BY <1>5 DEF InFlight
  <2> QED BY <1>6, <1>8, <2>1 DEF InTurn
<1> QED BY <1>6, <1>7, <1>8 DEF History

\* A new request about c: the other callers' are as before, and c is in turn only if none
\* of them is about c.
LEMMA BeginHistory ==
  ASSUME Inductive, History, NEW r \in Callers, NEW c \in Chains, NEW q \in Call,
         call[r].stage = "idle", q.stage = "asked", q.chain = c, q.since = chain[c],
         q.known = store[c], call' = [call EXCEPT ![r] = q], overlap' = WithOverlap(c),
         UNCHANGED <<chain, store, seen>>
  PROVE  History'
<1>1. TypeOK
  BY DEF Inductive
<1>2. call'[r] = q /\ \A s \in Callers : s # r => call'[s] = call[s]
  BY <1>1, CallAfter
<1>3. SeenWithinChain'
  BY DEF History, SeenWithinChain
<1>4. SeenBeforeCall'
  BY <1>2 DEF History, SeenWithinChain, SeenBeforeCall
<1>5. ASSUME NEW d \in Chains, d # c, d \notin overlap' PROVE InTurn(d)'
  <2>1. d \notin overlap
    BY <1>5 DEF WithOverlap
  <2>2. InTurn(d)
    BY <2>1 DEF History
  <2>3. \A s \in Callers : InFlight(s, d)' => InFlight(s, d) /\ call'[s] = call[s]
    BY <1>2, <1>5 DEF InFlight
  <2> QED BY <2>2, <2>3 DEF InTurn
<1>6. ASSUME c \notin overlap' PROVE InTurn(c)'
  <2>1. c \notin overlap /\ \A s \in Callers : ~InFlight(s, c)
    BY <1>6 DEF WithOverlap, InFlight
  <2>2. InTurn(c)
    BY <2>1 DEF History
  <2>3. \A s \in Callers : InFlight(s, c)' => s = r /\ call'[s] = q
    BY <1>2, <2>1 DEF InFlight
  <2>4. \A s \in Callers : seen[s][c] <= q.since
    BY DEF History, SeenWithinChain
  <2>5. q.known <= q.since
    BY DEF Inductive, StoreWithinChain
  <2> QED BY <2>2, <2>3, <2>4, <2>5 DEF InTurn
<1> QED BY <1>3, <1>4, <1>5, <1>6 DEF History

\* A request ends without an answer.
LEMMA AbortHistory ==
  ASSUME Inductive, History, NEW r \in Callers, Abort(r)
  PROVE  History'
<1>1. call'[r] = NoCall /\ \A s \in Callers : s # r => call'[s] = call[s]
  BY CallAfter DEF Abort, Inductive
<1>2. UNCHANGED <<chain, store, seen, overlap>>
  BY DEF Abort
<1>3. \A s \in Callers : call'[s].stage # "idle" => call'[s] = call[s] /\ call[s].stage # "idle"
  BY <1>1, NoCallIsIdle
<1>4. SeenWithinChain' /\ SeenBeforeCall'
  BY <1>2, <1>3 DEF History, SeenWithinChain, SeenBeforeCall
<1>5. ASSUME NEW c \in Chains, InTurn(c) PROVE InTurn(c)'
  <2>1. \A s \in Callers : InFlight(s, c)' => InFlight(s, c) /\ call'[s] = call[s]
    BY <1>3 DEF InFlight
  <2> QED BY <1>2, <1>5, <2>1 DEF InTurn
<1> QED BY <1>2, <1>4, <1>5 DEF History

\* What both kinds of answers do: the answer is returned, and stored unless there is no
\* state or it is the one that was known.
Receives(r) ==
    /\ call[r].stage = "answered"
    /\ call' = [call EXCEPT ![r] = NoCall]
    /\ seen' = Returned(r, call[r].chain, call[r].answer)
    /\ \/ call[r].answer > 0 /\ store' = [store EXCEPT ![call[r].chain] = call[r].answer]
       \/ call[r].answer \in {0, call[r].known} /\ store' = store
    /\ UNCHANGED <<chain, overlap>>

LEMMA StatusReceives ==
  ASSUME Inductive, NEW r \in Callers, ReceiveStatus(r)
  PROVE  Receives(r)
<1> DEFINE q == call[r]
<1>1. q.stage = "answered" /\ TypeOK
  BY DEF ReceiveStatus, Inductive
<1>2. StatusOf(q) = q.answer
  BY <1>1, AnswerWithinCall
<1>3. q.answer \in Nat
  BY <1>1, CallOf
<1>4. q.changed <=> (q.answer # q.known)
  BY <1>1 DEF Inductive, AnswersCurrent, Current
<1>5. q.answer > 0 \/ q.answer = 0
  BY <1>3
<1> QED BY <1>1, <1>2, <1>4, <1>5 DEF ReceiveStatus, Receives

LEMMA StateReceives ==
  ASSUME Inductive, NEW r \in Callers, ReceiveState(r)
  PROVE  Receives(r)
<1>1. call[r].answer \in Nat
  BY CallOf DEF ReceiveState, Inductive
<1>2. call[r].answer > 0 \/ call[r].answer = 0
  BY <1>1
<1> QED BY <1>2 DEF ReceiveState, Receives

\* What a request returns is not below what anyone was told, if its chain is in turn, nor
\* below what its caller was told.
LEMMA AnswerNotBehind ==
  ASSUME Inductive, History, NEW r \in Callers, call[r].stage = "answered"
  PROVE  /\ seen[r][call[r].chain] <= call[r].answer
         /\ call[r].answer <= chain[call[r].chain]
         /\ call[r].chain \notin overlap => \A s \in Callers : seen[s][call[r].chain] <= call[r].answer
<1> DEFINE q == call[r]
<1>1. TypeOK /\ q.chain \in Chains /\ q.since \in Nat /\ q.answer \in Nat
  BY CallOf DEF Inductive
<1>2. q.since <= q.answer /\ q.answer <= chain[q.chain]
  BY DEF Inductive, AnswersCurrent, Current
<1>3. \A s \in Callers : seen[s][q.chain] \in Nat
  BY <1>1, HeightsOf
<1>4. seen[r][q.chain] <= q.since
  BY DEF History, SeenBeforeCall
<1>5. ASSUME q.chain \notin overlap PROVE \A s \in Callers : seen[s][q.chain] <= q.since
  BY <1>1, <1>5 DEF History, InTurn, InFlight
<1> HIDE DEF q
<1>6. /\ seen[r][q.chain] <= q.answer
      /\ q.answer <= chain[q.chain]
      /\ q.chain \notin overlap => \A s \in Callers : seen[s][q.chain] <= q.answer
  BY <1>1, <1>2, <1>3, <1>4, <1>5
<1> QED BY <1>6 DEF q

LEMMA ReceiveHistory ==
  ASSUME Inductive, History, NEW r \in Callers, Receives(r)
  PROVE  History'
<1> SUFFICES ASSUME NEW c, NEW h, NEW known,
                    c = call[r].chain, h = call[r].answer, known = call[r].known
             PROVE  History'
  OBVIOUS
<1>1. /\ TypeOK /\ call[r].stage = "answered" /\ call[r].stage # "idle"
      /\ c \in Chains /\ h \in Nat /\ known \in Nat
  BY CallOf DEF Inductive, Receives
<1>2. call'[r] = NoCall /\ \A s \in Callers : s # r => call'[s] = call[s]
  BY <1>1, CallAfter DEF Receives
<1>3. \A s \in Callers : call'[s].stage # "idle" => s # r /\ call'[s] = call[s]
  BY <1>2, NoCallIsIdle
<1>4. \A s \in Callers, d \in Chains : seen'[s][d] = IF s = r /\ d = c THEN h ELSE seen[s][d]
  BY <1>1, ReturnedAt DEF Receives
<1>5. /\ seen[r][c] <= h /\ h <= chain[c]
      /\ c \notin overlap => \A s \in Callers : seen[s][c] <= h
  BY <1>1, AnswerNotBehind
<1>6. \/ h > 0 /\ store'[c] = h
      \/ h \in {0, known} /\ store'[c] = store[c]
  BY <1>1 DEF Receives, TypeOK
<1>7. \A d \in Chains : d # c => store'[d] = store[d]
  BY <1>1 DEF Receives, TypeOK
<1>8. \A s \in Callers, d \in Chains : seen[s][d] \in Nat /\ store[d] \in Nat /\ chain[d] \in Nat
  BY <1>1, HeightsOf
<1>9. UNCHANGED <<chain, overlap>>
  BY DEF Receives
<1>10. c \notin overlap => store[c] \in {0, known}
  BY <1>1 DEF History, InTurn, InFlight
<1>11. c \notin overlap => \A s \in Callers : InFlight(s, c) => s = r
  BY <1>1 DEF History, InTurn, InFlight
<1>12. SeenWithinChain'
  BY <1>4, <1>5, <1>8, <1>9 DEF History, SeenWithinChain
<1>13. SeenBeforeCall'
  <2> SUFFICES ASSUME NEW s \in Callers, call'[s].stage # "idle"
               PROVE  seen'[s][call'[s].chain] <= call'[s].since
    BY DEF SeenBeforeCall
  <2>1. s # r /\ call'[s] = call[s]
    BY <1>3
  <2>2. call[s].chain \in Chains
    BY <1>1, <2>1, CallOf
  <2>3. seen'[s][call[s].chain] = seen[s][call[s].chain]
    BY <1>4, <2>1, <2>2
  <2> QED BY <2>1, <2>3 DEF History, SeenBeforeCall
<1>14. ASSUME NEW d \in Chains, d # c, d \notin overlap PROVE InTurn(d)'
  <2>1. InTurn(d)
    BY <1>14 DEF History
  <2>2. \A s \in Callers : InFlight(s, d)' => InFlight(s, d) /\ call'[s] = call[s]
    BY <1>3 DEF InFlight
  <2>3. \A s \in Callers : seen'[s][d] = seen[s][d]
    BY <1>4, <1>14
  <2> QED BY <1>7, <1>14, <2>1, <2>2, <2>3 DEF InTurn
<1>15. ASSUME c \notin overlap PROVE InTurn(c)'
  <2>1. \A s \in Callers : ~InFlight(s, c)'
    BY <1>3, <1>11, <1>15 DEF InFlight
  <2>2. ASSUME NEW s \in Callers, store'[c] > 0 PROVE seen'[s][c] <= store'[c]
    <3>1. seen'[s][c] = h \/ seen'[s][c] = seen[s][c]
      BY <1>1, <1>4
    <3>2. seen[s][c] <= h
      BY <1>5, <1>15
    <3>3. store[c] > 0 => seen[s][c] <= store[c]
      BY <1>1, <1>15 DEF History, InTurn
    <3>4. CASE store'[c] = h
      BY <1>1, <3>1, <3>2, <3>4
    <3>5. CASE h \in {0, known} /\ store'[c] = store[c]
      <4>1. store[c] = known
        BY <1>10, <1>15, <2>2, <3>5
      <4>2. h <= store[c]
        BY <1>1, <3>5, <4>1
      <4> QED BY <1>1, <1>8, <2>2, <3>1, <3>3, <3>5, <4>2
    <3> QED BY <1>6, <3>4, <3>5
  <2> QED BY <2>1, <2>2 DEF InTurn
<1> QED BY <1>9, <1>12, <1>13, <1>14, <1>15 DEF History

\* A state out of the store: no one waits for it, or who does began with it.
LEMMA StateFromStoreHistory ==
  ASSUME Inductive, History, NEW r \in Callers, NEW c \in Chains, StateFromStore(r, c)
  PROVE  History'
<1>1. TypeOK /\ store[c] > 0 /\ call[r].stage = "idle"
  BY DEF Inductive, StateFromStore
<1>2. \A s \in Callers, d \in Chains : seen'[s][d] = IF s = r /\ d = c THEN store[c] ELSE seen[s][d]
  BY <1>1, ReturnedAt DEF StateFromStore
<1>3. UNCHANGED <<chain, store, call, overlap>>
  BY DEF StateFromStore
<1>4. SeenWithinChain'
  BY <1>2, <1>3 DEF Inductive, StoreWithinChain, History, SeenWithinChain
<1>5. SeenBeforeCall'
  <2> SUFFICES ASSUME NEW s \in Callers, call[s].stage # "idle"
               PROVE  seen'[s][call[s].chain] <= call[s].since
    BY <1>3 DEF SeenBeforeCall
  <2>1. s # r /\ call[s].chain \in Chains
    BY <1>1, CallOf
  <2>2. seen'[s][call[s].chain] = seen[s][call[s].chain]
    BY <1>2, <2>1
  <2> QED BY <2>2 DEF History, SeenBeforeCall
<1>6. ASSUME NEW d \in Chains, d # c, InTurn(d) PROVE InTurn(d)'
  <2>1. \A s \in Callers : seen'[s][d] = seen[s][d]
    BY <1>2, <1>6
  <2> QED BY <1>3, <1>6, <2>1 DEF InTurn, InFlight
<1>7. ASSUME InTurn(c) PROVE InTurn(c)'
  <2>1. \A s \in Callers : seen'[s][c] = seen[s][c] \/ seen'[s][c] = store[c]
    BY <1>2
  <2>2. store[c] \in Nat
    BY <1>1, HeightsOf
  <2>3. ASSUME NEW s \in Callers PROVE seen'[s][c] <= store[c]
    BY <1>1, <1>7, <2>1, <2>2 DEF InTurn
  <2>4. ASSUME NEW t \in Callers, InFlight(t, c), NEW s \in Callers
        PROVE  seen'[s][c] <= call[t].since
    <3>1. store[c] = call[t].known /\ call[t].known <= call[t].since /\ seen[s][c] <= call[t].since
      BY <1>1, <1>7, <2>2, <2>4 DEF InTurn
    <3> QED BY <2>1, <3>1
  <2>5. \A t \in Callers : InFlight(t, c)' <=> InFlight(t, c)
    BY <1>3 DEF InFlight
  <2> QED BY <1>3, <1>7, <2>3, <2>4, <2>5 DEF InTurn
<1> QED BY <1>3, <1>4, <1>5, <1>6, <1>7 DEF History

LEMMA ClearHistory ==
  ASSUME History, Clear
  PROVE  History'
<1>1. UNCHANGED <<chain, call, seen, overlap>> /\ \A c \in Chains : store'[c] = 0
  BY DEF Clear
<1> QED BY <1>1 DEF History, SeenWithinChain, SeenBeforeCall, InTurn, InFlight

LEMMA HistoryNext ==
  ASSUME Inductive, History, [Next]_vars
  PROVE  History'
<1>1. ASSUME NEW r \in Callers, NEW c \in Chains, BeginStatus(r, c) PROVE History'
  <2> DEFINE q == Asked("status", c, store[c])
  <2>1. store[c] \in Heights /\ TypeOK
    BY DEF Inductive, TypeOK
  <2>2. /\ q \in Call /\ q.stage = "asked" /\ q.chain = c /\ q.since = chain[c] /\ q.known = store[c]
    BY <2>1, AskedIsTyped DEF Op, Asked
  <2>3. call' = [call EXCEPT ![r] = q]
    BY <1>1 DEF BeginStatus
  <2> HIDE DEF q
  <2> QED BY <1>1, <2>2, <2>3, BeginHistory DEF BeginStatus
<1>2. ASSUME NEW r \in Callers, NEW c \in Chains, BeginState(r, c) PROVE History'
  <2> DEFINE q == Asked("state", c, 0)
  <2>1. store[c] = 0 /\ TypeOK
    BY <1>2 DEF Inductive, BeginState
  <2>2. /\ q \in Call /\ q.stage = "asked" /\ q.chain = c /\ q.since = chain[c] /\ q.known = store[c]
    BY <2>1, AskedIsTyped, HeightsInInt DEF Op, Asked
  <2>3. call' = [call EXCEPT ![r] = q]
    BY <1>2 DEF BeginState
  <2> HIDE DEF q
  <2> QED BY <1>2, <2>2, <2>3, BeginHistory DEF BeginState
<1>3. ASSUME UNCHANGED vars PROVE History'
  BY <1>3 DEF vars, History, SeenWithinChain, SeenBeforeCall, InTurn, InFlight
<1> QED
  BY <1>1, <1>2, <1>3, GrowHistory, NodeAnswersHistory, StatusReceives, StateReceives, ReceiveHistory,
     AbortHistory, StateFromStoreHistory, ClearHistory DEF Next

\* No step takes a caller back, or tells one that a chain it knows does not exist.
LEMMA ToldForward ==
  ASSUME Inductive, History, [Next]_vars, NEW r \in Callers, NEW c \in Chains
  PROVE  /\ c \notin overlap => seen'[r][c] >= seen[r][c]
         /\ seen[r][c] > 0 => seen'[r][c] > 0
<1>1. TypeOK /\ seen[r][c] \in Nat /\ store[c] \in Nat
  BY HeightsOf DEF Inductive
<1>2. ASSUME NEW s \in Callers, Receives(s)
      PROVE  /\ c \notin overlap => seen'[r][c] >= seen[r][c]
             /\ seen[r][c] > 0 => seen'[r][c] > 0
  <2>1. call[s].stage = "answered" /\ call[s].chain \in Chains /\ call[s].answer \in Nat
    BY <1>1, <1>2, CallOf DEF Receives
  <2>2. seen'[r][c] = IF r = s /\ c = call[s].chain THEN call[s].answer ELSE seen[r][c]
    BY <1>1, <1>2, <2>1, ReturnedAt DEF Receives
  <2>3. seen[s][call[s].chain] <= call[s].answer
    BY <2>1, AnswerNotBehind
  <2> QED BY <1>1, <2>1, <2>2, <2>3
<1>3. ASSUME NEW s \in Callers, NEW d \in Chains, StateFromStore(s, d)
      PROVE  /\ c \notin overlap => seen'[r][c] >= seen[r][c]
             /\ seen[r][c] > 0 => seen'[r][c] > 0
  <2>1. seen'[r][c] = IF r = s /\ c = d THEN store[c] ELSE seen[r][c]
    BY <1>1, <1>3, ReturnedAt DEF StateFromStore
  <2>2. c = d => store[c] > 0
    BY <1>3 DEF StateFromStore
  <2>3. c \notin overlap /\ c = d => seen[r][c] <= store[c]
    BY <2>2 DEF History, InTurn
  <2> QED BY <1>1, <2>1, <2>2, <2>3
<1>4. ASSUME UNCHANGED seen
      PROVE  /\ c \notin overlap => seen'[r][c] >= seen[r][c]
             /\ seen[r][c] > 0 => seen'[r][c] > 0
  BY <1>1, <1>4
<1>5. \/ UNCHANGED seen
      \/ \E s \in Callers : Receives(s)
      \/ \E s \in Callers, d \in Chains : StateFromStore(s, d)
  BY StatusReceives, StateReceives
  DEF Next, vars, Grow, NodeAnswers, Abort, BeginStatus, BeginState, Clear
<1> QED BY <1>2, <1>3, <1>4, <1>5

LEMMA HistoryHolds == Spec => [](Inductive /\ History)
<1>1. Init => Inductive /\ History
  BY InitInductive, InitHistory
<1>2. (Inductive /\ History) /\ [Next]_vars => (Inductive /\ History)'
  BY StepInductive, HistoryNext
<1> QED BY <1>1, <1>2, PTL DEF Spec

\* As long as the requests about a chain take turns nobody is told an earlier state after a
\* later one, however reads of the store and of the node are mixed and the store is cleared.
THEOREM ReadsGoForward == Spec => ReadsForwardInTurn
<1>1. Inductive /\ History /\ [Next]_vars =>
        [\A r \in Callers, c \in Chains : c \in overlap \/ seen'[r][c] >= seen[r][c]]_vars
  BY ToldForward
<1> QED BY <1>1, HistoryHolds, PTL DEF Spec, ReadsForwardInTurn

\* Who was once given a state of a chain is never told that it does not exist, also when
\* requests overlap.
THEOREM KnownIsNotForgotten == Spec => NeverForgotten
<1>1. Inductive /\ History /\ [Next]_vars =>
        [\A r \in Callers, c \in Chains : seen[r][c] > 0 => seen'[r][c] > 0]_vars
  BY ToldForward
<1> QED BY <1>1, HistoryHolds, PTL DEF Spec, NeverForgotten

-----------------------------------------------------------------------------
(* Reads of microblocks: induction over the lists that are read *)

\* Induction over sequences, stated on a set of them.
LEMMA SequenceInduction ==
    ASSUME NEW S, NEW P, <<>> \in P,
           \A s \in Seq(S) : \A x \in S : s \in P => Append(s, x) \in P
    PROVE  Seq(S) \subseteq P
    <1> SUFFICES ASSUME NEW s \in Seq(S) PROVE s \in P
        OBVIOUS
    <1> DEFINE n == Len(s)
               K == {k \in 0 .. n : SubSeq(s, 1, k) \in P}
    <1>1. n \in Nat
        OBVIOUS
    <1>2. 0 \in K
        <2>1. SubSeq(s, 1, 0) = <<>>  BY SubSeqEmpty
        <2>2. SubSeq(s, 1, 0) \in P
            <3> DEFINE none == SubSeq(s, 1, 0)
            <3>1. none = <<>>  BY <2>1
            <3> HIDE DEF none
            <3>2. none \in P  BY <3>1
            <3> QED  BY <3>2 DEF none
        <2> QED  BY <1>1, <2>2
    <1>3. ASSUME NEW k \in 0 .. n - 1, k \in K PROVE k + 1 \in K
        <2> DEFINE before == SubSeq(s, 1, k)
        <2>1. before \in P /\ k + 1 \in 1 .. n /\ k + 1 \in 0 .. n  BY <1>1, <1>3
        <2>2. before \in Seq(S) /\ s[k + 1] \in S
            <3>1. \A i \in 1 .. k : s[i] \in S  BY <1>3
            <3> QED  BY <2>1, <3>1, SubSeqProperties
        <2>3. SubSeq(s, 1, k + 1) = Append(before, s[k + 1])
            BY <1>1, <1>3
        <2> HIDE DEF before
        <2>4. Append(before, s[k + 1]) \in P  BY <2>1, <2>2
        <2> QED  BY <2>1, <2>3, <2>4
    <1>4. n \in K
        <2> HIDE DEF K, n
        <2>1. 0 .. n \subseteq K  BY <1>1, <1>2, <1>3, IntervalInduction
        <2> QED  BY <1>1, <2>1
    <1>5. SubSeq(s, 1, n) = s
        BY SubSeqFull
    <1> QED  BY <1>4, <1>5

-----------------------------------------------------------------------------
(* Those of a list that are in a set *)

\* The function by which Among is defined, first hashes by first hashes.
AmongFrom(list, set, from) ==
    /\ from = [n \in 0 .. Len(list) |-> from[n]]
    /\ from[0] = <<>>
    /\ \A n \in 1 .. Len(list) :
         from[n] = IF list[n] \in set THEN Append(from[n - 1], list[n]) ELSE from[n - 1]

\* There is one for every list.
LEMMA AmongFromExists ==
    ASSUME NEW S, NEW list \in Seq(S), NEW set
    PROVE  \E from : AmongFrom(list, set, from)
    <1> DEFINE P == {s \in Seq(S) : \E from : AmongFrom(s, set, from)}
    <1>1. <<>> \in P
        <2>1. AmongFrom(<<>>, set, [n \in 0 .. 0 |-> <<>>])  BY DEF AmongFrom
        <2> QED  BY <2>1
    <1>2. ASSUME NEW s \in Seq(S), NEW x \in S, s \in P PROVE Append(s, x) \in P
        <2>1. PICK from : AmongFrom(s, set, from)  BY <1>2
        <2> DEFINE all == Append(s, x)
                   m == Len(s)
                   next == [n \in 0 .. m + 1 |->
                              IF n <= m THEN from[n]
                              ELSE IF x \in set THEN Append(from[m], x) ELSE from[m]]
        <2>2. /\ all \in Seq(S) /\ Len(all) = m + 1 /\ all[m + 1] = x
              /\ \A i \in 1 .. m : all[i] = s[i]
            BY AppendProperties
        <2>3. m \in Nat  OBVIOUS
        <2> HIDE DEF all
        <2>4. ASSUME NEW n \in 1 .. m + 1
              PROVE  next[n] = IF all[n] \in set THEN Append(next[n - 1], all[n]) ELSE next[n - 1]
            <3>1. n - 1 \in 0 .. m /\ next[n - 1] = from[n - 1]  BY <2>3
            <3>2. CASE n = m + 1
                <4>1. next[n] = IF x \in set THEN Append(from[m], x) ELSE from[m]  BY <2>3, <3>2
                <4> QED  BY <2>2, <3>1, <3>2, <4>1
            <3>3. CASE n # m + 1
                <4>1. n \in 1 .. m /\ next[n] = from[n]  BY <2>3, <3>3
                <4> QED  BY <2>1, <2>2, <3>1, <4>1 DEF AmongFrom
            <3> QED  BY <3>2, <3>3
        <2>5. next[0] = <<>>  BY <2>1, <2>3 DEF AmongFrom
        <2>6. next = [n \in 0 .. Len(all) |-> next[n]]  BY <2>2
        <2> HIDE DEF next, m
        <2>7. AmongFrom(all, set, next)  BY <2>2, <2>4, <2>5, <2>6 DEF AmongFrom
        <2> QED  BY <2>2, <2>7 DEF all
    <1>3. Seq(S) \subseteq P
        <2> HIDE DEF P
        <2> QED  BY <1>1, <1>2, SequenceInduction
    <1> QED  BY <1>3

\* What is among a set is its last value.
LEMMA AmongIs ==
    ASSUME NEW S, NEW list \in Seq(S), NEW set
    PROVE  \E from : AmongFrom(list, set, from) /\ Among(list, set) = from[Len(list)]
    <1> DEFINE Is(g) == g = [n \in 0 .. Len(list) |->
                               IF n = 0 THEN <<>>
                               ELSE IF list[n] \in set THEN Append(g[n - 1], list[n]) ELSE g[n - 1]]
               from == CHOOSE g : Is(g)
    <1>1. \E g : Is(g)
        <2>1. PICK g : AmongFrom(list, set, g)  BY AmongFromExists
        <2>2. Is(g)
            <3> DEFINE h == [n \in 0 .. Len(list) |->
                               IF n = 0 THEN <<>>
                               ELSE IF list[n] \in set THEN Append(g[n - 1], list[n]) ELSE g[n - 1]]
            <3>1. ASSUME NEW n \in 0 .. Len(list) PROVE g[n] = h[n]
                <4>1. CASE n = 0
                    <5>1. g[n] = <<>>  BY <2>1, <4>1 DEF AmongFrom
                    <5> QED  BY <4>1, <5>1
                <4>2. CASE n # 0
                    <5>1. n \in 1 .. Len(list)  BY <4>2
                    <5>2. g[n] = IF list[n] \in set THEN Append(g[n - 1], list[n]) ELSE g[n - 1]
                        BY <2>1, <5>1 DEF AmongFrom
                    <5> QED  BY <4>2, <5>2
                <4> QED  BY <4>1, <4>2
            <3>2. g = [n \in 0 .. Len(list) |-> g[n]]  BY <2>1 DEF AmongFrom
            <3> QED  BY <3>1, <3>2
        <2> QED  BY <2>2
    <1>2. Is(from)  BY <1>1
    <1>3. Among(list, set) = from[Len(list)]  BY DEF Among, from, Is
    <1> HIDE DEF from
    <1>4. AmongFrom(list, set, from)
        <2> DEFINE h == [n \in 0 .. Len(list) |->
                           IF n = 0 THEN <<>>
                           ELSE IF list[n] \in set THEN Append(from[n - 1], list[n]) ELSE from[n - 1]]
        <2>1. from = h  BY <1>2
        <2>2. Len(list) \in Nat  OBVIOUS
        <2>3. h = [n \in 0 .. Len(list) |-> h[n]]  OBVIOUS
        <2>4. h[0] = <<>>  BY <2>2
        <2>5. ASSUME NEW n \in 1 .. Len(list)
              PROVE  h[n] = IF list[n] \in set THEN Append(from[n - 1], list[n]) ELSE from[n - 1]
            BY <2>2
        <2> HIDE DEF h, Is
        <2> QED  BY <2>1, <2>3, <2>4, <2>5 DEF AmongFrom
    <1> QED  BY <1>3, <1>4

\* Of no hashes there is none, and one more is appended if it is in the set.
LEMMA AmongEmpty ==
    ASSUME NEW set
    PROVE  Among(<<>>, set) = <<>>
    <1>1. <<>> \in Seq({})  OBVIOUS
    <1>2. PICK from : AmongFrom(<<>>, set, from) /\ Among(<<>>, set) = from[Len(<<>>)]
        BY <1>1, AmongIs
    <1> QED  BY <1>2 DEF AmongFrom

LEMMA AmongAppend ==
    ASSUME NEW S, NEW list \in Seq(S), NEW x \in S, NEW set
    PROVE  Among(Append(list, x), set)
             = IF x \in set THEN Append(Among(list, set), x) ELSE Among(list, set)
    <1> DEFINE all == Append(list, x)
               m == Len(list)
    <1>1. /\ all \in Seq(S) /\ Len(all) = m + 1 /\ all[m + 1] = x
          /\ \A i \in 1 .. m : all[i] = list[i]
        BY AppendProperties
    <1>2. m \in Nat  OBVIOUS
    <1>3. PICK from : AmongFrom(list, set, from) /\ Among(list, set) = from[Len(list)]
        BY AmongIs
    <1> HIDE DEF all
    <1>4. PICK more : AmongFrom(all, set, more) /\ Among(all, set) = more[Len(all)]
        BY <1>1, AmongIs
    <1> DEFINE K == {n \in 0 .. m : more[n] = from[n]}
    <1>5. 0 \in K  BY <1>2, <1>3, <1>4 DEF AmongFrom
    <1>6. ASSUME NEW n \in 0 .. m - 1, n \in K PROVE n + 1 \in K
        <2>1. n + 1 \in 1 .. m /\ n + 1 \in 1 .. Len(all) /\ (n + 1) - 1 = n  BY <1>1, <1>2
        <2>2. more[n + 1] = IF all[n + 1] \in set THEN Append(more[n], all[n + 1]) ELSE more[n]
            BY <1>4, <2>1 DEF AmongFrom
        <2>3. from[n + 1] = IF list[n + 1] \in set THEN Append(from[n], list[n + 1]) ELSE from[n]
            BY <1>3, <2>1 DEF AmongFrom
        <2>4. all[n + 1] = list[n + 1] /\ more[n] = from[n]  BY <1>1, <1>6, <2>1
        <2> QED  BY <2>1, <2>2, <2>3, <2>4
    <1>7. more[m] = from[m]
        <2> HIDE DEF K, m
        <2>1. 0 .. m \subseteq K  BY <1>2, <1>5, <1>6, IntervalInduction
        <2>2. m \in K  BY <1>2, <2>1
        <2> QED  BY <2>2 DEF K
    <1>8. more[m + 1] = IF x \in set THEN Append(more[m], x) ELSE more[m]
        <2>1. m + 1 \in 1 .. Len(all) /\ (m + 1) - 1 = m  BY <1>1, <1>2
        <2> QED  BY <1>1, <1>4, <2>1 DEF AmongFrom
    <1> QED  BY <1>1, <1>3, <1>4, <1>7, <1>8 DEF all

\* What lists hold: with one more, with none, and one after the other.
LEMMA ElementsOfAppend ==
    ASSUME NEW S, NEW list \in Seq(S), NEW x \in S
    PROVE  ToSet(Append(list, x)) = ToSet(list) \cup {x}
    <1> DEFINE all == Append(list, x)
               m == Len(list)
    <1>1. /\ DOMAIN all = 1 .. m + 1 /\ all[m + 1] = x
          /\ \A i \in 1 .. m : all[i] = list[i]
          /\ DOMAIN list = 1 .. m
        BY AppendProperties
    <1>2. m \in Nat  OBVIOUS
    <1> HIDE DEF all, m
    <1>3. ASSUME NEW i \in 1 .. m + 1 PROVE i \in 1 .. m \/ i = m + 1  BY <1>2
    <1>4. ToSet(all) = ToSet(list) \cup {x}
        <2>1. ASSUME NEW y \in ToSet(all) PROVE y \in ToSet(list) \cup {x}
            <3>1. PICK i \in 1 .. m + 1 : y = all[i]  BY <1>1, <2>1 DEF ToSet
            <3>2. CASE i = m + 1  BY <1>1, <3>1, <3>2
            <3>3. CASE i \in 1 .. m  BY <1>1, <3>1, <3>3 DEF ToSet
            <3> QED  BY <1>3, <3>2, <3>3
        <2>2. ASSUME NEW y \in ToSet(list) PROVE y \in ToSet(all)
            <3>1. PICK i \in 1 .. m : y = list[i]  BY <1>1, <2>2 DEF ToSet
            <3>2. i \in 1 .. m + 1 /\ y = all[i]  BY <1>1, <1>2, <3>1
            <3> QED  BY <1>1, <3>2 DEF ToSet
        <2>3. x \in ToSet(all)
            <3>1. m + 1 \in 1 .. m + 1  BY <1>2
            <3> QED  BY <1>1, <3>1 DEF ToSet
        <2> QED  BY <2>1, <2>2, <2>3
    <1> QED  BY <1>4 DEF all

LEMMA NoElements ==
    ASSUME NEW S, NEW list \in Seq(S)
    PROVE  list = <<>> <=> ToSet(list) = {}
    <1>1. ASSUME list = <<>> PROVE ToSet(list) = {}
        <2>1. DOMAIN list = {}  BY <1>1
        <2> QED  BY <2>1 DEF ToSet
    <1>2. ASSUME list # <<>> PROVE ToSet(list) # {}
        <2>1. 1 \in DOMAIN list  BY <1>2
        <2> QED  BY <2>1 DEF ToSet
    <1> QED  BY <1>1, <1>2

\* They are in the list, and none that is in both is left out.
LEMMA AmongElements ==
    ASSUME NEW S, NEW list \in Seq(S), NEW set
    PROVE  Among(list, set) \in Seq(S) /\ ToSet(Among(list, set)) = ToSet(list) \cap set
    <1> DEFINE P == {s \in Seq(S) : /\ Among(s, set) \in Seq(S)
                                    /\ ToSet(Among(s, set)) = ToSet(s) \cap set}
    <1>1. <<>> \in P
        <2>1. ToSet(<<>>) = {} /\ <<>> \in Seq(S)  BY DEF ToSet
        <2> QED  BY <2>1, AmongEmpty
    <1>2. ASSUME NEW s \in Seq(S), NEW x \in S, s \in P PROVE Append(s, x) \in P
        <2> DEFINE all == Append(s, x)
                   some == Among(s, set)
        <2>1. all \in Seq(S) /\ ToSet(all) = ToSet(s) \cup {x}  BY ElementsOfAppend, AppendProperties
        <2>2. Among(all, set) = IF x \in set THEN Append(some, x) ELSE some  BY AmongAppend
        <2>3. some \in Seq(S) /\ ToSet(some) = ToSet(s) \cap set  BY <1>2
        <2> HIDE DEF some, all
        <2>4. Append(some, x) \in Seq(S) /\ ToSet(Append(some, x)) = ToSet(some) \cup {x}
            BY <2>3, ElementsOfAppend, AppendProperties
        <2>5. Among(all, set) \in Seq(S) /\ ToSet(Among(all, set)) = ToSet(all) \cap set
            BY <2>1, <2>2, <2>3, <2>4
        <2> QED  BY <2>1, <2>5 DEF all
    <1>3. Seq(S) \subseteq P
        <2> HIDE DEF P
        <2> QED  BY <1>1, <1>2, SequenceInduction
    <1> QED  BY <1>3

\* All if all are in the set, and none if none is.
LEMMA AmongAll ==
    ASSUME NEW S, NEW list \in Seq(S), NEW set, ToSet(list) \subseteq set
    PROVE  Among(list, set) = list
    <1> DEFINE P == {s \in Seq(S) : ToSet(s) \subseteq set => Among(s, set) = s}
    <1>1. <<>> \in P
        <2>1. <<>> \in Seq(S)  OBVIOUS
        <2> QED  BY <2>1, AmongEmpty
    <1>2. ASSUME NEW s \in Seq(S), NEW x \in S, s \in P PROVE Append(s, x) \in P
        <2> DEFINE all == Append(s, x)
        <2>1. all \in Seq(S) /\ ToSet(all) = ToSet(s) \cup {x}  BY ElementsOfAppend, AppendProperties
        <2>2. Among(all, set) = IF x \in set THEN Append(Among(s, set), x) ELSE Among(s, set)
            BY AmongAppend
        <2>3. ToSet(all) \subseteq set => Among(all, set) = all
            <3> SUFFICES ASSUME ToSet(all) \subseteq set PROVE Among(all, set) = all
                OBVIOUS
            <3>1. x \in set /\ Among(s, set) = s
                <4> HIDE DEF all
                <4> QED  BY <1>2, <2>1
            <3> QED  BY <2>2, <3>1
        <2> HIDE DEF all
        <2>4. all \in P  BY <2>1, <2>3
        <2> QED  BY <2>4 DEF all
    <1>3. Seq(S) \subseteq P
        <2> HIDE DEF P
        <2> QED  BY <1>1, <1>2, SequenceInduction
    <1> QED  BY <1>3

LEMMA AmongNone ==
    ASSUME NEW S, NEW list \in Seq(S), NEW set, ToSet(list) \cap set = {}
    PROVE  Among(list, set) = <<>>
    <1>1. Among(list, set) \in Seq(S) /\ ToSet(Among(list, set)) = {}  BY AmongElements
    <1> QED  BY <1>1, NoElements

\* What a set holds of the list is all that counts.
LEMMA AmongSame ==
    ASSUME NEW S, NEW list \in Seq(S), NEW set, NEW other, ToSet(list) \cap set = ToSet(list) \cap other
    PROVE  Among(list, set) = Among(list, other)
    <1> DEFINE P == {s \in Seq(S) : ToSet(s) \cap set = ToSet(s) \cap other
                                      => Among(s, set) = Among(s, other)}
    <1>1. <<>> \in P
        <2>1. <<>> \in Seq(S)  OBVIOUS
        <2> QED  BY <2>1, AmongEmpty
    <1>2. ASSUME NEW s \in Seq(S), NEW x \in S, s \in P PROVE Append(s, x) \in P
        <2> DEFINE all == Append(s, x)
        <2>1. all \in Seq(S) /\ ToSet(all) = ToSet(s) \cup {x}  BY ElementsOfAppend, AppendProperties
        <2>2. \A t : Among(all, t) = IF x \in t THEN Append(Among(s, t), x) ELSE Among(s, t)
            BY AmongAppend
        <2> HIDE DEF all
        <2>3. ASSUME ToSet(all) \cap set = ToSet(all) \cap other PROVE Among(all, set) = Among(all, other)
            <3>1. (x \in set <=> x \in other) /\ ToSet(s) \cap set = ToSet(s) \cap other
                BY <2>1, <2>3
            <3>2. Among(s, set) = Among(s, other)  BY <1>2, <3>1
            <3> QED  BY <2>2, <3>1, <3>2
        <2>4. all \in P  BY <2>1, <2>3
        <2> QED  BY <2>4 DEF all
    <1>3. Seq(S) \subseteq P
        <2> HIDE DEF P
        <2> QED  BY <1>1, <1>2, SequenceInduction
    <1> QED  BY <1>3

\* Those held, and those received of the others, are as many as there are.
LEMMA AmongSizes ==
    ASSUME NEW S, NEW list \in Seq(S), NEW all, NEW held, held \subseteq all
    PROVE  Len(Among(Among(list, ToSet(list) \ held), all)) + Len(Among(list, held))
             = Len(Among(list, all))
    <1> DEFINE Rest(s) == Among(s, S \ held)
               P == {s \in Seq(S) : Len(Among(Rest(s), all)) + Len(Among(s, held)) = Len(Among(s, all))}
    <1>1. <<>> \in P
        <2>1. Among(Rest(<<>>), all) = <<>> /\ Among(<<>>, held) = <<>> /\ Among(<<>>, all) = <<>>
            BY AmongEmpty
        <2>2. <<>> \in Seq(S) /\ Len(<<>>) = 0  OBVIOUS
        <2> HIDE DEF Rest
        <2> QED  BY <2>1, <2>2
    <1>2. ASSUME NEW s \in Seq(S), NEW x \in S, s \in P PROVE Append(s, x) \in P
        <2> DEFINE more == Append(s, x)
                   rest == Rest(s)
                   a == Among(rest, all)
                   h == Among(s, held)
                   c == Among(s, all)
        <2>1. more \in Seq(S)  BY AppendProperties
        <2>2. Rest(more) = IF x \in held THEN rest ELSE Append(rest, x)
            BY AmongAppend
        <2>3. rest \in Seq(S) /\ h \in Seq(S) /\ c \in Seq(S)  BY AmongElements
        <2>4. /\ Among(more, held) = IF x \in held THEN Append(h, x) ELSE h
              /\ Among(more, all) = IF x \in all THEN Append(c, x) ELSE c
            BY AmongAppend
        <2> HIDE DEF more, rest
        <2>5. a \in Seq(S)  BY <2>3, AmongElements
        <2>6. Among(Append(rest, x), all) = IF x \in all THEN Append(a, x) ELSE a
            BY <2>3, AmongAppend
        <2>7. Len(a) + Len(h) = Len(c)  BY <1>2 DEF rest
        <2> DEFINE b == Among(Rest(more), all)
        <2>8. b = IF x \in held \/ x \notin all THEN a ELSE Append(a, x)  BY <2>2, <2>6
        <2> HIDE DEF a, h, c, b, Rest
        <2>9. /\ Len(Append(a, x)) = Len(a) + 1 /\ Len(a) \in Nat
              /\ Len(Append(h, x)) = Len(h) + 1 /\ Len(h) \in Nat
              /\ Len(Append(c, x)) = Len(c) + 1 /\ Len(c) \in Nat
            BY <2>3, <2>5, AppendProperties
        <2>10. Len(b) + Len(Among(more, held)) = Len(Among(more, all))
            <3>1. CASE x \in held  BY <2>4, <2>7, <2>8, <2>9, <3>1
            <3>2. CASE x \notin held /\ x \in all  BY <2>4, <2>7, <2>8, <2>9, <3>2
            <3>3. CASE x \notin all  BY <2>4, <2>7, <2>8, <2>9, <3>3
            <3> QED  BY <3>1, <3>2, <3>3
        <2>11. more \in P  BY <2>1, <2>10 DEF b
        <2> QED  BY <2>11 DEF more
    <1>3. Seq(S) \subseteq P
        <2> HIDE DEF P
        <2> QED  BY <1>1, <1>2, SequenceInduction
    <1>4. Among(list, ToSet(list) \ held) = Rest(list)
        <2>1. ToSet(list) \subseteq S  BY DEF ToSet
        <2>2. ToSet(list) \cap (ToSet(list) \ held) = ToSet(list) \cap (S \ held)  BY <2>1
        <2> QED  BY <2>2, AmongSame
    <1> QED  BY <1>3, <1>4

-----------------------------------------------------------------------------
(* What is held, and what each read gives *)

Stores == [infos : SUBSET Hashes, headers : SUBSET Hashes, bodies : SUBSET Hashes]
Worlds == [network : BOOLEAN, keeps : BOOLEAN, anchored : SUBSET Hashes, store : Stores]

\* What is held is of microblocks that are anchored.
HeldIsAnchored(world, stored) ==
    /\ stored \in Stores
    /\ stored.infos \subseteq world.anchored
    /\ stored.headers \subseteq world.anchored
    /\ stored.bodies \subseteq world.anchored

StoreFits(world) == world \in Worlds /\ HeldIsAnchored(world, world.store)

\* It is held, or the node has it.
Has(world, held, hash) == hash \in held \/ (world.network /\ hash \in world.anchored)

\* What is read is not a word for what is not there.
LEMMA Distinct ==
    \A part, hash : /\ Got(part, hash) # Nothing /\ Got(part, hash) # Thrown /\ Nothing # Thrown
    <1> TAKE part, hash
    <1>1. Len(Got(part, hash)) = 2 /\ Len(Nothing) = 1 /\ Len(Thrown) = 1  BY DEF Got, Nothing, Thrown
    <1>2. Nothing[1] = "null" /\ Thrown[1] = "thrown"  BY DEF Nothing, Thrown
    <1>3. "null" # "thrown"  OBVIOUS
    <1>4. Got(part, hash) # Nothing /\ Got(part, hash) # Thrown
        <2> HIDE DEF Got, Nothing, Thrown
        <2> QED  BY <1>1
    <1>5. Nothing # Thrown  BY <1>2, <1>3
    <1> QED  BY <1>4, <1>5

\* A store that keeps what is anchored holds only what is.
LEMMA Keeping ==
    ASSUME NEW world, StoreFits(world), NEW hashes \in SUBSET world.anchored,
           NEW kind \in {"infos", "headers", "bodies"}
    PROVE  /\ StoreFits(Keep(world, kind, hashes))
           /\ Keep(world, kind, hashes).anchored = world.anchored
    <1>1. hashes \in SUBSET Hashes  BY DEF StoreFits, Worlds
    <1>2. CASE ~world.keeps  BY <1>2 DEF Keep
    <1>3. CASE world.keeps
        <2> DEFINE more == [world EXCEPT !.store[kind] = @ \cup hashes]
        <2>1. Keep(world, kind, hashes) = more  BY <1>3 DEF Keep
        <2>2. more.store = [world.store EXCEPT ![kind] = @ \cup hashes]
            BY DEF StoreFits, Worlds
        <2>3. more = [world EXCEPT !.store = more.store]  BY <2>2 DEF StoreFits, Worlds
        <2>4. HeldIsAnchored(world, more.store)
            <3>1. CASE kind = "infos"  BY <1>1, <2>2, <3>1 DEF StoreFits, HeldIsAnchored, Stores
            <3>2. CASE kind = "headers"  BY <1>1, <2>2, <3>2 DEF StoreFits, HeldIsAnchored, Stores
            <3>3. CASE kind = "bodies"  BY <1>1, <2>2, <3>3 DEF StoreFits, HeldIsAnchored, Stores
            <3> QED  BY <3>1, <3>2, <3>3
        <2> DEFINE kept == more.store
        <2>5. more = [world EXCEPT !.store = kept] /\ HeldIsAnchored(world, kept)  BY <2>3, <2>4
        <2> HIDE DEF more, kept
        <2>6. more \in Worlds /\ more.store = kept /\ more.anchored = world.anchored
            BY <2>5 DEF StoreFits, Worlds, HeldIsAnchored
        <2> QED  BY <2>1, <2>5, <2>6 DEF StoreFits, HeldIsAnchored
    <1> QED  BY <1>2, <1>3

\* What each read of one hash gives, and that what it leaves is anchored.
LEMMA InformationGiven ==
    ASSUME NEW world, StoreFits(world), NEW hash \in Hashes
    PROVE  LET read == GetMicroblockInformation(world, hash)
           IN /\ read.result = IF Has(world, world.store.infos \cap world.store.headers, hash)
                               THEN Got("information", hash)
                               ELSE IF world.network THEN Thrown ELSE Nothing
              /\ HeldIsAnchored(world, read.store)
    <1> DEFINE answer == AskInformation(world, hash)
               held == world.store.infos \cap world.store.headers
               kept == Keep(Keep(world, "infos", {hash}), "headers", {hash})
    <1>1. answer = IF ~world.network THEN Nothing
                   ELSE IF hash \in world.anchored THEN Got("information", hash) ELSE Thrown
        BY DEF AskInformation
    <1>2. held \subseteq world.anchored /\ HeldIsAnchored(world, world.store)
        BY DEF StoreFits, HeldIsAnchored
    <1>3. ASSUME hash \in world.anchored PROVE HeldIsAnchored(world, kept.store)
        <2> DEFINE first == Keep(world, "infos", {hash})
        <2>1. StoreFits(first) /\ first.anchored = world.anchored  BY <1>3, Keeping
        <2> HIDE DEF first
        <2>2. /\ StoreFits(Keep(first, "headers", {hash}))
              /\ Keep(first, "headers", {hash}).anchored = first.anchored
            BY <1>3, <2>1, Keeping
        <2> QED  BY <2>1, <2>2 DEF StoreFits, HeldIsAnchored, first
    <1>4. GetMicroblockInformation(world, hash)
            = IF hash \in held THEN Gives(Got("information", hash), world)
              ELSE Gives(answer, IF answer \in {Nothing, Thrown} THEN world ELSE kept)
        BY DEF GetMicroblockInformation
    <1> HIDE DEF kept, answer, held
    <1>5. CASE hash \in held  BY <1>2, <1>4, <1>5 DEF Gives, Has, held
    <1>6. CASE hash \notin held /\ world.network /\ hash \in world.anchored
        <2>1. answer = Got("information", hash) /\ answer \notin {Nothing, Thrown}  BY <1>1, <1>6, Distinct
        <2> QED  BY <1>3, <1>4, <1>6, <2>1 DEF Gives, Has, held
    <1>7. CASE hash \notin held /\ ~(world.network /\ hash \in world.anchored)
        <2>1. answer = IF world.network THEN Thrown ELSE Nothing  BY <1>1, <1>7
        <2>2. answer \in {Nothing, Thrown}  BY <2>1
        <2> QED  BY <1>2, <1>4, <1>7, <2>1, <2>2 DEF Gives, Has, held
    <1> QED  BY <1>5, <1>6, <1>7

LEMMA PartGiven ==
    ASSUME NEW world, StoreFits(world), NEW hash \in Hashes, NEW part, NEW held \in SUBSET world.anchored
    PROVE  LET read == GetPart(world, part, held, hash)
           IN /\ read.result = IF Has(world, held, hash) THEN Got(part, hash) ELSE Thrown
              /\ read.store = world.store
    <1> DEFINE answer == AskInformation(world, hash)
    <1>1. answer = IF ~world.network THEN Nothing
                   ELSE IF hash \in world.anchored THEN Got("information", hash) ELSE Thrown
        BY DEF AskInformation
    <1>2. answer = Got("information", hash) <=> world.network /\ hash \in world.anchored
        BY <1>1, Distinct
    <1>3. GetPart(world, part, held, hash)
            = IF hash \in held \/ answer = Got("information", hash) THEN Gives(Got(part, hash), world)
              ELSE Gives(Thrown, world)
        BY DEF GetPart
    <1> HIDE DEF answer
    <1> QED  BY <1>2, <1>3 DEF Gives, Has

\* A list of one hash.
LEMMA OfOne ==
    ASSUME NEW hash, NEW set
    PROVE  Among(<<hash>>, set) = IF hash \in set THEN <<hash>> ELSE <<>>
    <1>1. <<>> \in Seq({hash}) /\ Append(<<>>, hash) = <<hash>> /\ hash \in {hash}  OBVIOUS
    <1>2. Among(Append(<<>>, hash), set)
            = IF hash \in set THEN Append(Among(<<>>, set), hash) ELSE Among(<<>>, set)
        BY <1>1, AmongAppend
    <1> QED  BY <1>1, <1>2, AmongEmpty

LEMMA BodyGiven ==
    ASSUME NEW world, StoreFits(world), NEW hash \in Hashes
    PROVE  LET read == GetMicroblockBody(world, hash)
           IN /\ read.result = IF Has(world, world.store.bodies, hash) THEN Got("body", hash) ELSE Nothing
              /\ HeldIsAnchored(world, read.store)
    <1> DEFINE bodies == world.store.bodies
               answer == AskBodies(world, <<hash>>)
               kept == Keep(world, "bodies", {hash})
    <1>1. answer = <<hash>> <=> world.network /\ hash \in world.anchored
        <2>1. "null" # hash  BY HashesAssumption
        <2>2. Nothing[1] = "null" /\ <<hash>>[1] = hash  BY DEF Nothing
        <2>3. <<hash>> # Nothing  BY <2>1, <2>2
        <2>4. <<hash>> # <<>>  OBVIOUS
        <2>5. answer = IF world.network THEN IF hash \in world.anchored THEN <<hash>> ELSE <<>> ELSE Nothing
            BY OfOne DEF AskBodies
        <2> QED  BY <2>3, <2>4, <2>5
    <1>2. ASSUME hash \in world.anchored PROVE HeldIsAnchored(world, kept.store)
        <2>1. StoreFits(kept) /\ kept.anchored = world.anchored  BY <1>2, Keeping
        <2> QED  BY <2>1 DEF StoreFits, HeldIsAnchored
    <1>3. HeldIsAnchored(world, world.store)  BY DEF StoreFits
    <1>4. GetMicroblockBody(world, hash)
            = IF hash \in bodies THEN Gives(Got("body", hash), world)
              ELSE IF answer = <<hash>> THEN Gives(Got("body", hash), kept) ELSE Gives(Nothing, world)
        BY DEF GetMicroblockBody
    <1> HIDE DEF answer, kept
    <1> QED  BY <1>1, <1>2, <1>3, <1>4 DEF Gives, Has

LEMMA MicroblockGiven ==
    ASSUME NEW world, StoreFits(world), NEW hash \in Hashes
    PROVE  LET read == LoadMicroblock(world, hash)
           IN /\ read.result = IF Has(world, world.store.headers, hash) /\ Has(world, world.store.bodies, hash)
                               THEN Got("microblock", hash) ELSE Thrown
              /\ HeldIsAnchored(world, read.store)
    <1> DEFINE header == GetMicroblockHeader(world, hash)
               body == GetMicroblockBody(world, hash)
               load == LoadMicroblock(world, hash)
    <1>1. /\ header.result = IF Has(world, world.store.headers, hash) THEN Got("header", hash) ELSE Thrown
          /\ header.store = world.store
        <2>1. world.store.headers \in SUBSET world.anchored  BY DEF StoreFits, HeldIsAnchored
        <2> QED  BY <2>1, PartGiven DEF GetMicroblockHeader
    <1>2. /\ body.result = IF Has(world, world.store.bodies, hash) THEN Got("body", hash) ELSE Nothing
          /\ HeldIsAnchored(world, body.store)
        BY BodyGiven
    <1>3. load = IF header.result = Thrown THEN header
                 ELSE IF body.result = Nothing THEN [body EXCEPT !.result = Thrown]
                 ELSE [body EXCEPT !.result = Got("microblock", hash)]
        BY DEF LoadMicroblock
    <1>4. body = [result |-> body.result, store |-> body.store]
        BY DEF GetMicroblockBody, Gives
    <1>5. HeldIsAnchored(world, world.store)  BY DEF StoreFits
    <1>6. \A result : /\ [body EXCEPT !.result = result].result = result
                      /\ [body EXCEPT !.result = result].store = body.store
        <2> DEFINE r == body.result
                   s == body.store
        <2>1. body = [result |-> r, store |-> s]  BY <1>4
        <2> HIDE DEF body, r, s
        <2>2. \A result : [body EXCEPT !.result = result] = [result |-> result, store |-> s]  BY <2>1
        <2> QED  BY <2>1, <2>2
    <1> HIDE DEF header, body, load
    <1>7. CASE ~Has(world, world.store.headers, hash)
        <2>1. load = header  BY <1>1, <1>3, <1>7
        <2> QED  BY <1>1, <1>5, <1>7, <2>1 DEF load
    <1>8. CASE Has(world, world.store.headers, hash) /\ ~Has(world, world.store.bodies, hash)
        <2>1. load = [body EXCEPT !.result = Thrown]  BY <1>1, <1>2, <1>3, <1>8, Distinct
        <2> QED  BY <1>2, <1>6, <1>8, <2>1 DEF load
    <1>9. CASE Has(world, world.store.headers, hash) /\ Has(world, world.store.bodies, hash)
        <2>1. load = [body EXCEPT !.result = Got("microblock", hash)]  BY <1>1, <1>2, <1>3, <1>9, Distinct
        <2> QED  BY <1>2, <1>6, <1>9, <2>1 DEF load
    <1> QED  BY <1>7, <1>8, <1>9

-----------------------------------------------------------------------------
(* The list *)

\* The lists that are asked for, and what is given for one.
LEMMA ListsAreSequences == Lists \subseteq Seq(Hashes)
    <1>1. SeqOf(Hashes, MaxAsked) \subseteq Seq(Hashes)
        <2>1. ASSUME NEW n \in 0 .. MaxAsked, NEW s \in [1 .. n -> Hashes] PROVE s \in Seq(Hashes)
            <3>1. n \in Nat  BY HashesAssumption
            <3> QED  BY <3>1
        <2> QED  BY <2>1 DEF SeqOf
    <1> QED  BY <1>1 DEF Lists

LEMMA ListGiven ==
    ASSUME NEW world, StoreFits(world), NEW list \in Seq(Hashes)
    PROVE  LET read == GetListOfMicroblockBody(world, list)
               bodies == world.store.bodies
               missing == Among(list, ToSet(list) \ bodies)
           IN /\ read.result = IF ToSet(list) \subseteq bodies THEN list
                               ELSE IF world.network
                                    THEN Among(missing, world.anchored) \o Among(list, bodies)
                                    ELSE Thrown
              /\ HeldIsAnchored(world, read.store)
    <1> DEFINE bodies == world.store.bodies
               held == Among(list, bodies)
               missing == Among(list, ToSet(list) \ bodies)
               received == AskBodies(world, missing)
               kept == Keep(world, "bodies", ToSet(received))
               read == GetListOfMicroblockBody(world, list)
    <1>1. missing \in Seq(Hashes) /\ ToSet(missing) = ToSet(list) \ bodies
        <2>1. ToSet(missing) = ToSet(list) \cap (ToSet(list) \ bodies) /\ missing \in Seq(Hashes)
            BY AmongElements
        <2> QED  BY <2>1
    <1>2. missing = <<>> <=> ToSet(list) \subseteq bodies
        <2>1. missing = <<>> <=> ToSet(missing) = {}  BY <1>1, NoElements
        <2> QED  BY <1>1, <2>1
    <1>3. ToSet(list) \subseteq bodies => held = list  BY AmongAll
    <1>4. received = IF world.network THEN Among(missing, world.anchored) ELSE Nothing
        BY DEF AskBodies
    <1>5. /\ Among(missing, world.anchored) \in Seq(Hashes)
          /\ ToSet(Among(missing, world.anchored)) \subseteq world.anchored
        BY <1>1, AmongElements
    <1>6. received = Nothing <=> ~world.network
        <2> DEFINE some == Among(missing, world.anchored)
        <2>1. some \in Seq(Hashes)  BY <1>5
        <2>2. some # Nothing
            <3> HIDE DEF some
            <3>1. Len(Nothing) = 1 /\ Nothing[1] = "null"  BY DEF Nothing
            <3>2. ASSUME Len(some) = 1 PROVE some[1] \in Hashes
                <4>1. 1 \in 1 .. Len(some)  BY <3>2
                <4> QED  BY <2>1, <4>1, ElementOfSeq
            <3> QED  BY <3>1, <3>2, HashesAssumption
        <2> HIDE DEF some, missing
        <2> QED  BY <1>4, <2>2 DEF some
    <1>7. ASSUME world.network PROVE HeldIsAnchored(world, kept.store)
        <2>1. ToSet(received) \in SUBSET world.anchored  BY <1>4, <1>5, <1>7
        <2> HIDE DEF received
        <2>2. StoreFits(kept) /\ kept.anchored = world.anchored  BY <2>1, Keeping
        <2> QED  BY <2>2 DEF StoreFits, HeldIsAnchored
    <1>8. read = IF missing = <<>> THEN Gives(held, world)
                 ELSE IF received = Nothing THEN Gives(Thrown, world)
                 ELSE Gives(received \o held, kept)
        BY DEF GetListOfMicroblockBody
    <1>9. HeldIsAnchored(world, world.store)  BY DEF StoreFits
    <1> HIDE DEF held, missing, received, kept, read
    <1>10. CASE ToSet(list) \subseteq bodies
        BY <1>2, <1>3, <1>8, <1>9, <1>10 DEF Gives, read
    <1>11. CASE ~(ToSet(list) \subseteq bodies) /\ ~world.network
        BY <1>2, <1>6, <1>8, <1>9, <1>11 DEF Gives, read
    <1>12. CASE ~(ToSet(list) \subseteq bodies) /\ world.network
        <2>1. read = Gives(Among(missing, world.anchored) \o held, kept)
            BY <1>2, <1>4, <1>6, <1>8, <1>12
        <2>2. read.result = Among(missing, world.anchored) \o held /\ read.store = kept.store
            BY <2>1 DEF Gives
        <2> QED  BY <1>7, <1>12, <2>2 DEF read, missing, held
    <1> QED  BY <1>10, <1>11, <1>12

LEMMA ElementsOfConcat ==
    ASSUME NEW S, NEW a \in Seq(S), NEW b \in Seq(S)
    PROVE  ToSet(a \o b) = ToSet(a) \cup ToSet(b)
    <1> DEFINE m == Len(a)
               n == Len(b)
               both == a \o b
    <1>1. /\ DOMAIN both = 1 .. m + n /\ DOMAIN a = 1 .. m /\ DOMAIN b = 1 .. n
          /\ m \in Nat /\ n \in Nat
          /\ \A i \in 1 .. m + n : both[i] = IF i <= m THEN a[i] ELSE b[i - m]
        BY ConcatProperties
    <1> HIDE DEF both, m, n
    <1>2. ToSet(both) = ToSet(a) \cup ToSet(b)
        <2>1. ASSUME NEW y \in ToSet(both) PROVE y \in ToSet(a) \cup ToSet(b)
            <3>1. PICK i \in 1 .. m + n : y = both[i]  BY <1>1, <2>1 DEF ToSet
            <3>2. CASE i <= m
                <4>1. i \in 1 .. m /\ y = a[i]  BY <1>1, <3>1, <3>2
                <4> QED  BY <1>1, <4>1 DEF ToSet
            <3>3. CASE ~(i <= m)
                <4>1. i - m \in 1 .. n /\ y = b[i - m]  BY <1>1, <3>1, <3>3
                <4> QED  BY <1>1, <4>1 DEF ToSet
            <3> QED  BY <3>2, <3>3
        <2>2. ASSUME NEW y \in ToSet(a) PROVE y \in ToSet(both)
            <3>1. PICK i \in 1 .. m : y = a[i]  BY <1>1, <2>2 DEF ToSet
            <3>2. i \in 1 .. m + n /\ both[i] = y  BY <1>1, <3>1
            <3> QED  BY <1>1, <3>2 DEF ToSet
        <2>3. ASSUME NEW y \in ToSet(b) PROVE y \in ToSet(both)
            <3>1. PICK i \in 1 .. n : y = b[i]  BY <1>1, <2>3 DEF ToSet
            <3>2. i + m \in 1 .. m + n /\ ~(i + m <= m) /\ (i + m) - m = i  BY <1>1, <3>1
            <3>3. both[i + m] = y  BY <1>1, <3>1, <3>2
            <3> QED  BY <1>1, <3>2, <3>3 DEF ToSet
        <2> QED  BY <2>1, <2>2, <2>3
    <1> QED  BY <1>2 DEF both

-----------------------------------------------------------------------------
(* The reads agree *)

\* The worlds that are compared: as it is with a network, without, and with nothing held.
Online(world) == [world EXCEPT !.network = TRUE]
Offline(world) == [world EXCEPT !.network = FALSE]
Unread(world) == [Online(world) EXCEPT !.store = NothingHeld]

LEMMA Variants ==
    ASSUME NEW world, StoreFits(world)
    PROVE  /\ StoreFits(Online(world)) /\ Online(world).network
           /\ Online(world).anchored = world.anchored /\ Online(world).store = world.store
           /\ StoreFits(Offline(world)) /\ ~Offline(world).network
           /\ Offline(world).anchored = world.anchored /\ Offline(world).store = world.store
           /\ StoreFits(Unread(world)) /\ Unread(world).network
           /\ Unread(world).anchored = world.anchored /\ Unread(world).store = NothingHeld
    <1>1. /\ StoreFits(Online(world)) /\ Online(world).network
          /\ Online(world).anchored = world.anchored /\ Online(world).store = world.store
        BY DEF StoreFits, HeldIsAnchored, Worlds, Online
    <1>2. /\ StoreFits(Offline(world)) /\ ~Offline(world).network
          /\ Offline(world).anchored = world.anchored /\ Offline(world).store = world.store
        BY DEF StoreFits, HeldIsAnchored, Worlds, Offline
    <1>3. NothingHeld \in Stores /\ HeldIsAnchored(Online(world), NothingHeld)
        BY DEF NothingHeld, Stores, HeldIsAnchored
    <1>4. /\ StoreFits(Unread(world)) /\ Unread(world).network
          /\ Unread(world).anchored = world.anchored /\ Unread(world).store = NothingHeld
        <2>1. Online(world) \in Worlds  BY <1>1 DEF StoreFits
        <2>2. /\ Unread(world) \in Worlds /\ Unread(world).network = Online(world).network
              /\ Unread(world).anchored = Online(world).anchored /\ Unread(world).store = NothingHeld
            BY <1>3, <2>1 DEF Unread, Worlds
        <2> QED  BY <1>1, <1>3, <2>2 DEF StoreFits, HeldIsAnchored
    <1> QED  BY <1>1, <1>2, <1>4

\* The two parts of ReadsAgree.
OneAgrees(world, hash) ==
    LET expected == ReadsOfOne(Unread(world), hash)
        now == ReadsOfOne(Online(world), hash)
        alone == ReadsOfOne(Offline(world), hash)
    IN \A read \in DOMAIN expected :
         /\ now[read].result = expected[read].result
         /\ alone[read].result \in {expected[read].result, Nothing, Thrown}

ListAgrees(world, list) ==
    LET expected == GetListOfMicroblockBody(Unread(world), list).result
        now == GetListOfMicroblockBody(Online(world), list).result
        alone == GetListOfMicroblockBody(Offline(world), list).result
        held == ToSet(list) \cap world.store.bodies
    IN /\ ToSet(now) = ToSet(expected) /\ Len(now) = Len(expected)
       /\ held \in {{}, ToSet(list)} => now = expected
       /\ alone = IF held = ToSet(list) THEN list ELSE Thrown

\* They hold in every world whose store holds only what is anchored.
LEMMA OneAlwaysAgrees ==
    ASSUME NEW world, StoreFits(world), NEW hash \in Hashes
    PROVE  OneAgrees(world, hash)
    <1> DEFINE on == Online(world)
               off == Offline(world)
               un == Unread(world)
    <1>1. /\ StoreFits(on) /\ on.network /\ on.anchored = world.anchored /\ on.store = world.store
          /\ StoreFits(off) /\ ~off.network /\ off.anchored = world.anchored /\ off.store = world.store
          /\ StoreFits(un) /\ un.network /\ un.anchored = world.anchored /\ un.store = NothingHeld
        BY Variants
    <1>2. /\ NothingHeld.infos = {} /\ NothingHeld.headers = {} /\ NothingHeld.bodies = {}
          /\ world.store.infos \subseteq world.anchored /\ world.store.headers \subseteq world.anchored
          /\ world.store.bodies \subseteq world.anchored
        BY DEF NothingHeld, StoreFits, HeldIsAnchored
    <1> DEFINE reads == {"information", "header", "chain", "body", "microblock"}
    <1>3. \A w : DOMAIN ReadsOfOne(w, hash) = reads  BY DEF ReadsOfOne
    <1>4. \A w : /\ ReadsOfOne(w, hash)["information"] = GetMicroblockInformation(w, hash)
                 /\ ReadsOfOne(w, hash)["header"] = GetMicroblockHeader(w, hash)
                 /\ ReadsOfOne(w, hash)["chain"] = GetVirtualBlockchainId(w, hash)
                 /\ ReadsOfOne(w, hash)["body"] = GetMicroblockBody(w, hash)
                 /\ ReadsOfOne(w, hash)["microblock"] = LoadMicroblock(w, hash)
        BY DEF ReadsOfOne
    <1> HIDE DEF on, off, un
    <1> DEFINE Agree(now, alone, expected) ==
                 now = expected /\ alone \in {expected, Nothing, Thrown}
    <1>5. Agree(GetMicroblockInformation(on, hash).result, GetMicroblockInformation(off, hash).result,
                GetMicroblockInformation(un, hash).result)
        <2> DEFINE Table(w) == IF Has(w, w.store.infos \cap w.store.headers, hash)
                               THEN Got("information", hash)
                               ELSE IF w.network THEN Thrown ELSE Nothing
        <2>1. \A w : StoreFits(w) => GetMicroblockInformation(w, hash).result = Table(w)
            BY InformationGiven
        <2>2. Agree(Table(on), Table(off), Table(un))  BY <1>1, <1>2 DEF Has
        <2> HIDE DEF Table, Agree
        <2> QED  BY <1>1, <2>1, <2>2
    <1>6. Agree(GetMicroblockHeader(on, hash).result, GetMicroblockHeader(off, hash).result,
                GetMicroblockHeader(un, hash).result)
        <2> DEFINE Table(w) == IF Has(w, w.store.headers, hash) THEN Got("header", hash) ELSE Thrown
        <2>1. \A w : StoreFits(w) => GetMicroblockHeader(w, hash).result = Table(w)
            BY PartGiven DEF GetMicroblockHeader, StoreFits, HeldIsAnchored
        <2>2. Agree(Table(on), Table(off), Table(un))  BY <1>1, <1>2 DEF Has
        <2> HIDE DEF Table, Agree
        <2> QED  BY <1>1, <2>1, <2>2
    <1>7. Agree(GetVirtualBlockchainId(on, hash).result, GetVirtualBlockchainId(off, hash).result,
                GetVirtualBlockchainId(un, hash).result)
        <2> DEFINE Table(w) == IF Has(w, w.store.infos, hash) THEN Got("chain", hash) ELSE Thrown
        <2>1. \A w : StoreFits(w) => GetVirtualBlockchainId(w, hash).result = Table(w)
            BY PartGiven DEF GetVirtualBlockchainId, StoreFits, HeldIsAnchored
        <2>2. Agree(Table(on), Table(off), Table(un))  BY <1>1, <1>2 DEF Has
        <2> HIDE DEF Table, Agree
        <2> QED  BY <1>1, <2>1, <2>2
    <1>8. Agree(GetMicroblockBody(on, hash).result, GetMicroblockBody(off, hash).result,
                GetMicroblockBody(un, hash).result)
        <2> DEFINE Table(w) == IF Has(w, w.store.bodies, hash) THEN Got("body", hash) ELSE Nothing
        <2>1. \A w : StoreFits(w) => GetMicroblockBody(w, hash).result = Table(w)
            BY BodyGiven
        <2>2. Agree(Table(on), Table(off), Table(un))  BY <1>1, <1>2 DEF Has
        <2> HIDE DEF Table, Agree
        <2> QED  BY <1>1, <2>1, <2>2
    <1>9. Agree(LoadMicroblock(on, hash).result, LoadMicroblock(off, hash).result,
                LoadMicroblock(un, hash).result)
        <2> DEFINE Table(w) == IF Has(w, w.store.headers, hash) /\ Has(w, w.store.bodies, hash)
                               THEN Got("microblock", hash) ELSE Thrown
        <2>1. \A w : StoreFits(w) => LoadMicroblock(w, hash).result = Table(w)
            BY MicroblockGiven
        <2>2. Agree(Table(on), Table(off), Table(un))  BY <1>1, <1>2 DEF Has
        <2> HIDE DEF Table, Agree
        <2> QED  BY <1>1, <2>1, <2>2
    <1>10. ASSUME NEW read \in reads
           PROVE  Agree(ReadsOfOne(on, hash)[read].result, ReadsOfOne(off, hash)[read].result,
                        ReadsOfOne(un, hash)[read].result)
        <2> HIDE DEF Agree
        <2>1. CASE read = "information"  BY <1>4, <1>5, <2>1
        <2>2. CASE read = "header"  BY <1>4, <1>6, <2>2
        <2>3. CASE read = "chain"  BY <1>4, <1>7, <2>3
        <2>4. CASE read = "body"  BY <1>4, <1>8, <2>4
        <2>5. CASE read = "microblock"  BY <1>4, <1>9, <2>5
        <2> QED  BY <2>1, <2>2, <2>3, <2>4, <2>5
    <1> QED  BY <1>3, <1>10 DEF OneAgrees, on, off, un

LEMMA ListAlwaysAgrees ==
    ASSUME NEW world, StoreFits(world), NEW list \in Seq(Hashes)
    PROVE  ListAgrees(world, list)
    <1> DEFINE on == Online(world)
               off == Offline(world)
               un == Unread(world)
               bodies == world.store.bodies
               all == world.anchored
               set == ToSet(list)
               missing == Among(list, set \ bodies)
               received == Among(missing, all)
               held == Among(list, bodies)
               now == GetListOfMicroblockBody(on, list).result
               alone == GetListOfMicroblockBody(off, list).result
               expected == GetListOfMicroblockBody(un, list).result
    <1>1. /\ StoreFits(on) /\ on.network /\ on.anchored = world.anchored /\ on.store = world.store
          /\ StoreFits(off) /\ ~off.network /\ off.anchored = world.anchored /\ off.store = world.store
          /\ StoreFits(un) /\ un.network /\ un.anchored = world.anchored /\ un.store = NothingHeld
        BY Variants
    <1>2. NothingHeld.bodies = {} /\ bodies \subseteq all
        BY DEF NothingHeld, StoreFits, HeldIsAnchored
    <1>3. now = IF set \subseteq bodies THEN list ELSE received \o held
        <2> HIDE DEF on
        <2> QED  BY <1>1, ListGiven
    <1>4. alone = IF set \subseteq bodies THEN list ELSE Thrown
        <2> HIDE DEF off
        <2> QED  BY <1>1, ListGiven
    <1>5. expected = Among(list, all)
        <2>1. Among(list, set \ {}) = list  BY AmongAll
        <2>2. Among(list, {}) = <<>>  BY AmongNone
        <2>3. un.store.bodies = {}  BY <1>1, <1>2
        <2>4. expected = IF set \subseteq un.store.bodies THEN list
                         ELSE IF un.network
                              THEN Among(Among(list, set \ un.store.bodies), un.anchored)
                                     \o Among(list, un.store.bodies)
                              ELSE Thrown
            <3> HIDE DEF un
            <3> QED  BY <1>1, ListGiven
        <2>5. CASE set \subseteq {}
            <3>1. list = <<>>  BY <2>5, NoElements
            <3>2. expected = <<>>  BY <2>3, <2>4, <2>5, <3>1
            <3> QED  BY <3>1, <3>2, AmongEmpty
        <2>6. CASE ~(set \subseteq {})
            <3>1. expected = Among(list, all) \o <<>>  BY <1>1, <2>1, <2>2, <2>3, <2>4, <2>6
            <3>2. Among(list, all) \in Seq(Hashes)  BY AmongElements
            <3>3. Among(list, all) \o <<>> = Among(list, all)  BY <3>2, ConcatEmptySeq
            <3> QED  BY <3>1, <3>3
        <2> QED  BY <2>5, <2>6
    <1>6. /\ missing \in Seq(Hashes) /\ ToSet(missing) = set \ bodies
          /\ held \in Seq(Hashes) /\ ToSet(held) = set \cap bodies
        <2>1. ToSet(missing) = set \cap (set \ bodies)  BY AmongElements
        <2> QED  BY <2>1, AmongElements
    <1>7. received \in Seq(Hashes) /\ ToSet(received) = (set \ bodies) \cap all
        BY <1>6, AmongElements
    <1>8. ToSet(Among(list, all)) = set \cap all /\ Among(list, all) \in Seq(Hashes)
        BY AmongElements
    <1>9. Len(received) + Len(held) = Len(Among(list, all))
        BY <1>2, AmongSizes
    <1>10. set \subseteq all => Among(list, all) = list  BY AmongAll
    <1>11. set \cap bodies = {} => held = <<>> /\ missing = list
        <2>1. ASSUME set \cap bodies = {} PROVE held = <<>>  BY <2>1, AmongNone
        <2>2. ASSUME set \cap bodies = {} PROVE missing = list
            <3>1. set \subseteq set \ bodies  BY <2>2
            <3> QED  BY <3>1, AmongAll
        <2> QED  BY <2>1, <2>2
    <1>12. ToSet(received \o held) = ToSet(received) \cup ToSet(held)
        BY <1>6, <1>7, ElementsOfConcat
    <1>13. Len(received \o held) = Len(received) + Len(held)  BY <1>6, <1>7
    <1>14. received \o <<>> = received  BY <1>7, ConcatEmptySeq
    <1>15. ToSet(now) = ToSet(expected) /\ Len(now) = Len(expected)
           /\ (set \cap bodies \in {{}, set} => now = expected)
        <2> HIDE DEF on, un, off, set, all, bodies, missing, received, held, now, alone, expected
        <2>1. CASE set \subseteq bodies  BY <1>2, <1>3, <1>5, <1>10, <2>1
        <2>2. CASE ~(set \subseteq bodies)
            <3>1. now = received \o held  BY <1>3, <2>2
            <3>2. ToSet(now) = ToSet(expected)  BY <1>2, <1>5, <1>6, <1>7, <1>8, <1>12, <3>1
            <3>3. Len(now) = Len(expected)  BY <1>5, <1>9, <1>13, <3>1
            <3>4. ASSUME set \cap bodies \in {{}, set} PROVE now = expected
                <4>1. set \cap bodies = {}  BY <2>2, <3>4
                <4>2. held = <<>> /\ missing = list  BY <1>11, <4>1
                <4>3. received = Among(list, all)  BY <4>2 DEF received
                <4> QED  BY <1>5, <1>14, <3>1, <4>2, <4>3
            <3> QED  BY <3>2, <3>3, <3>4
        <2> QED  BY <2>1, <2>2
    <1>16. alone = IF set \cap bodies = set THEN list ELSE Thrown
        <2> HIDE DEF alone, set, bodies
        <2> QED  BY <1>4
    <1> QED  BY <1>15, <1>16 DEF ListAgrees

\* What is held is of what is anchored: all that the agreement of the reads needs.
ReadsInv == input \in [of : {"reads"}, world : Worlds] /\ StoreFits(input.world)

\* No read stores what is not anchored.
LEMMA HeldStays ==
    ASSUME NEW world, StoreFits(world)
    PROVE  /\ \A hash \in Hashes : \A read \in DOMAIN ReadsOfOne(world, hash) :
                 HeldIsAnchored(world, ReadsOfOne(world, hash)[read].store)
           /\ \A list \in Lists : HeldIsAnchored(world, GetListOfMicroblockBody(world, list).store)
    <1>1. ASSUME NEW hash \in Hashes, NEW read \in DOMAIN ReadsOfOne(world, hash)
          PROVE  HeldIsAnchored(world, ReadsOfOne(world, hash)[read].store)
        <2>1. /\ HeldIsAnchored(world, world.store)
              /\ world.store.headers \in SUBSET world.anchored
              /\ world.store.infos \in SUBSET world.anchored
            BY DEF StoreFits, HeldIsAnchored
        <2>2. read \in {"information", "header", "chain", "body", "microblock"}
            BY DEF ReadsOfOne
        <2>3. CASE read = "information"
            <3>1. ReadsOfOne(world, hash)[read] = GetMicroblockInformation(world, hash)
                BY <2>3 DEF ReadsOfOne
            <3> QED  BY <3>1, InformationGiven
        <2>4. CASE read = "header"
            <3>1. ReadsOfOne(world, hash)[read] = GetMicroblockHeader(world, hash)
                BY <2>4 DEF ReadsOfOne
            <3>2. GetMicroblockHeader(world, hash).store = world.store
                BY <2>1, PartGiven DEF GetMicroblockHeader
            <3> QED  BY <2>1, <3>1, <3>2
        <2>5. CASE read = "chain"
            <3>1. ReadsOfOne(world, hash)[read] = GetVirtualBlockchainId(world, hash)
                BY <2>5 DEF ReadsOfOne
            <3>2. GetVirtualBlockchainId(world, hash).store = world.store
                BY <2>1, PartGiven DEF GetVirtualBlockchainId
            <3> QED  BY <2>1, <3>1, <3>2
        <2>6. CASE read = "body"
            <3>1. ReadsOfOne(world, hash)[read] = GetMicroblockBody(world, hash)
                BY <2>6 DEF ReadsOfOne
            <3> QED  BY <3>1, BodyGiven
        <2>7. CASE read = "microblock"
            <3>1. ReadsOfOne(world, hash)[read] = LoadMicroblock(world, hash)
                BY <2>7 DEF ReadsOfOne
            <3> QED  BY <3>1, MicroblockGiven
        <2> QED  BY <2>2, <2>3, <2>4, <2>5, <2>6, <2>7
    <1>2. ASSUME NEW list \in Lists PROVE HeldIsAnchored(world, GetListOfMicroblockBody(world, list).store)
        <2>1. list \in Seq(Hashes)  BY ListsAreSequences
        <2> QED  BY <2>1, ListGiven
    <1> QED  BY <1>1, <1>2

\* The invariant holds at first, is kept by every step and is enough.
LEMMA ReadsStart == NothingRead => ReadsInv
    <1> SUFFICES ASSUME NEW network \in BOOLEAN, NEW keeps \in BOOLEAN,
                        input = [of |-> "reads",
                                 world |-> [network |-> network, keeps |-> keeps,
                                            anchored |-> {}, store |-> NothingHeld]]
                 PROVE  ReadsInv
        BY DEF NothingRead
    <1>1. NothingHeld \in Stores  BY DEF NothingHeld, Stores
    <1> DEFINE w == [network |-> network, keeps |-> keeps, anchored |-> {}, store |-> NothingHeld]
    <1>2. w \in Worlds /\ HeldIsAnchored(w, w.store)
        BY <1>1 DEF Worlds, HeldIsAnchored, NothingHeld
    <1> QED  BY <1>2 DEF ReadsInv, StoreFits

LEMMA ReadsGoOn == ReadsInv /\ [ReadAny]_input => ReadsInv'
    <1> SUFFICES ASSUME ReadsInv, [ReadAny]_input PROVE ReadsInv'
        OBVIOUS
    <1> DEFINE w == input.world
    <1>1. input \in [of : {"reads"}, world : Worlds] /\ StoreFits(w)  BY DEF ReadsInv
    <1>2. ASSUME NEW stored, HeldIsAnchored(w, stored), input' = [input EXCEPT !.world.store = stored]
          PROVE  ReadsInv'
        <2>1. input'.world = [w EXCEPT !.store = stored] /\ input' \in [of : {"reads"}, world : Worlds]
            BY <1>1, <1>2 DEF Worlds, HeldIsAnchored
        <2>2. input'.world.store = stored /\ input'.world.anchored = w.anchored /\ input'.world \in Worlds
            BY <1>1, <1>2, <2>1 DEF Worlds, HeldIsAnchored
        <2>3. StoreFits(input'.world)
            BY <1>2, <2>2 DEF StoreFits, HeldIsAnchored
        <2> QED  BY <2>1, <2>3 DEF ReadsInv
    <1>3. CASE AnchorOne
        <2>1. PICK hash \in Hashes \ input.world.anchored :
                input' = [input EXCEPT !.world.anchored = @ \cup {hash}]
            BY <1>3 DEF AnchorOne
        <2>2. /\ input'.world = [w EXCEPT !.anchored = @ \cup {hash}]
              /\ input' \in [of : {"reads"}, world : Worlds]
            BY <1>1, <2>1 DEF Worlds
        <2>3. input'.world.store = w.store /\ input'.world.anchored = w.anchored \cup {hash} /\ input'.world \in Worlds
            BY <1>1, <2>2 DEF Worlds
        <2>4. StoreFits(input'.world)
            BY <1>1, <2>3 DEF StoreFits, HeldIsAnchored
        <2> QED  BY <2>2, <2>4 DEF ReadsInv
    <1>4. CASE ReadOne
        <2>0. PICK hash \in Hashes : \E read \in DOMAIN ReadsOfOne(w, hash) :
                input' = [input EXCEPT !.world.store = ReadsOfOne(w, hash)[read].store]
            BY <1>4 DEF ReadOne
        <2>1. PICK read \in DOMAIN ReadsOfOne(w, hash) :
                input' = [input EXCEPT !.world.store = ReadsOfOne(w, hash)[read].store]
            BY <2>0
        <2>2. HeldIsAnchored(w, ReadsOfOne(w, hash)[read].store)  BY <1>1, HeldStays
        <2> QED  BY <1>2, <2>1, <2>2
    <1>5. CASE ReadList
        <2>1. PICK list \in Lists :
                input' = [input EXCEPT !.world.store = GetListOfMicroblockBody(w, list).store]
            BY <1>5 DEF ReadList
        <2>2. HeldIsAnchored(w, GetListOfMicroblockBody(w, list).store)  BY <1>1, HeldStays
        <2> QED  BY <1>2, <2>1, <2>2
    <1>6. CASE ClearStore
        <2>1. HeldIsAnchored(w, NothingHeld)  BY DEF HeldIsAnchored, NothingHeld, Stores
        <2>2. input' = [input EXCEPT !.world.store = NothingHeld]  BY <1>6 DEF ClearStore
        <2> QED  BY <1>2, <2>1, <2>2
    <1>7. CASE UNCHANGED input  BY <1>7 DEF ReadsInv
    <1> QED  BY <1>3, <1>4, <1>5, <1>6, <1>7 DEF ReadAny

LEMMA ReadsThatAgree == ReadsInv => ReadsAgree
    <1> SUFFICES ASSUME ReadsInv PROVE ReadsAgree
        OBVIOUS
    <1>1. StoreFits(input.world)  BY DEF ReadsInv
    <1>2. \A hash \in Hashes : OneAgrees(input.world, hash)  BY <1>1, OneAlwaysAgrees
    <1>3. \A list \in Lists : ListAgrees(input.world, list)
        BY <1>1, ListAlwaysAgrees, ListsAreSequences
    <1> QED  BY <1>2, <1>3 DEF ReadsAgree, OneAgrees, ListAgrees, Online, Offline, Unread

\* Whatever was read or cleared before and whichever microblocks came since, a read through
\* the store gives what the node would, and without the network that or nothing; of a list
\* it gives all the bodies there are, once each.
THEOREM ReadsAreOfTheNode == ReadsSpec => []ReadsAgree
    <1>1. ReadsSpec => []ReadsInv
        BY ReadsStart, ReadsGoOn, PTL DEF ReadsSpec
    <1> QED  BY <1>1, ReadsThatAgree, PTL

-----------------------------------------------------------------------------
(* The proofs a node gives of its state. *)

\* Halving: the function by which Shifted is defined, one bit more, and what it leaves.
LEMMA ShiftedValues ==
    ASSUME NEW n \in Nat, NEW bits \in Nat
    PROVE  \E left : /\ left \in [0 .. bits -> Nat] /\ left[0] = n
                     /\ \A b \in 1 .. bits : left[b] = left[b - 1] \div 2
                     /\ Shifted(n, bits) = left[bits]
    <1> DEFINE Is(g) == g = [b \in 0 .. bits |-> IF b = 0 THEN n ELSE g[b - 1] \div 2]
               left == CHOOSE g : Is(g)
               F == [k \in 1 .. bits |-> [m \in Nat |-> m \div 2]]
    <1>1. \E g : Is(g)
        <2>1. F \in [1 .. bits -> [Nat -> Nat]]  OBVIOUS
        <2>2. PICK p : Iterates(p, bits, Nat, n, F)
            <3> HIDE DEF F
            <3> QED  BY <2>1, IterationExists
        <2>3. /\ p \in [0 .. bits -> Nat] /\ p[0] = n
              /\ \A k \in 1 .. bits : p[k] = p[k - 1] \div 2
            <3>1. \A k \in 1 .. bits : \A m \in Nat : F[k][m] = m \div 2  OBVIOUS
            <3> HIDE DEF F
            <3>2. /\ p \in [0 .. bits -> Nat] /\ p[0] = n
                  /\ \A k \in 1 .. bits : p[k] = F[k][p[k - 1]]
                BY <2>2 DEF Iterates
            <3>3. ASSUME NEW k \in 1 .. bits PROVE p[k] = p[k - 1] \div 2
                <4>1. k - 1 \in 0 .. bits  OBVIOUS
                <4>2. p[k - 1] \in Nat  BY <3>2, <4>1
                <4> QED  BY <3>1, <3>2, <4>2
            <3> QED  BY <3>2, <3>3
        <2>4. Is(p)
            <3>1. \A b \in 0 .. bits : p[b] = IF b = 0 THEN n ELSE p[b - 1] \div 2  BY <2>3
            <3>2. p = [b \in 0 .. bits |-> p[b]]  BY <2>3
            <3> QED  BY <3>1, <3>2
        <2> QED  BY <2>4
    <1>2. Is(left)  BY <1>1
    <1>3. Shifted(n, bits) = left[bits]  BY DEF Shifted, left, Is
    <1> HIDE DEF left
    <1>4. /\ left = [b \in 0 .. bits |-> left[b]] /\ left[0] = n
          /\ \A b \in 1 .. bits : left[b] = left[b - 1] \div 2
        <2> DEFINE h == [b \in 0 .. bits |-> IF b = 0 THEN n ELSE left[b - 1] \div 2]
        <2>1. left = h  BY <1>2
        <2>2. h = [b \in 0 .. bits |-> h[b]] /\ h[0] = n  OBVIOUS
        <2>3. \A b \in 1 .. bits : h[b] = left[b - 1] \div 2  OBVIOUS
        <2> HIDE DEF h
        <2> QED  BY <2>1, <2>2, <2>3
    <1> DEFINE S == {b \in 0 .. bits : left[b] \in Nat}
    <1>5. 0 \in S  BY <1>4
    <1>6. ASSUME NEW b \in 0 .. bits - 1, b \in S PROVE b + 1 \in S
        <2>1. b + 1 \in 1 .. bits /\ b + 1 \in 0 .. bits /\ (b + 1) - 1 = b  OBVIOUS
        <2>2. left[b + 1] = left[b] \div 2  BY <1>4, <2>1
        <2>3. left[b + 1] \in Nat  BY <1>6, <2>2
        <2> QED  BY <2>1, <2>3
    <1>7. 0 .. bits \subseteq S
        <2> HIDE DEF S
        <2> QED  BY <1>5, <1>6, IntervalInduction
    <1>8. left \in [0 .. bits -> Nat]  BY <1>4, <1>7
    <1> QED  BY <1>3, <1>4, <1>8

\* Shifted is halving, once for every bit (index >>> row, StateChecker.ts:56).
LEMMA ShiftedOneMore ==
    ASSUME NEW n \in Nat, NEW bits \in Nat
    PROVE  /\ Shifted(n, 0) = n
           /\ Shifted(n, bits) \in Nat
           /\ Shifted(n, bits + 1) = Shifted(n, bits) \div 2
    <1>1. Shifted(n, 0) = n
        <2>1. 0 \in Nat  OBVIOUS
        <2> QED  BY <2>1, ShiftedValues
    <1>2. PICK p : /\ p \in [0 .. bits -> Nat] /\ p[0] = n
                   /\ \A b \in 1 .. bits : p[b] = p[b - 1] \div 2
                   /\ Shifted(n, bits) = p[bits]
        BY ShiftedValues
    <1>3. bits + 1 \in Nat  OBVIOUS
    <1>4. PICK q : /\ q \in [0 .. bits + 1 -> Nat] /\ q[0] = n
                   /\ \A b \in 1 .. bits + 1 : q[b] = q[b - 1] \div 2
                   /\ Shifted(n, bits + 1) = q[bits + 1]
        BY <1>3, ShiftedValues
    <1>5. \A k \in 0 .. bits : q[k] = p[k]
        <2>1. q[0] = p[0]  BY <1>2, <1>4
        <2>2. \A k \in 1 .. bits : q[k - 1] = p[k - 1] => q[k] = p[k]  BY <1>2, <1>4
        <2> QED  BY <2>1, <2>2, RecursionsAgree
    <1>6. q[bits + 1] = q[bits] \div 2 /\ q[bits] = p[bits]  BY <1>4, <1>5
    <1> QED  BY <1>1, <1>2, <1>4, <1>6

\* The place of a lower index is not the higher one, in any row.
LEMMA ShiftedInOrder ==
    ASSUME NEW m \in Nat, NEW n \in Nat, m <= n, NEW bits \in Nat
    PROVE  Shifted(m, bits) <= Shifted(n, bits)
    <1> DEFINE S == {b \in 0 .. bits : Shifted(m, b) <= Shifted(n, b)}
    <1>1. 0 \in S  BY ShiftedOneMore
    <1>2. ASSUME NEW b \in 0 .. bits - 1, b \in S PROVE b + 1 \in S
        <2>1. b \in Nat /\ b + 1 \in 0 .. bits  OBVIOUS
        <2>2. /\ Shifted(m, b) \in Nat /\ Shifted(m, b + 1) = Shifted(m, b) \div 2
              /\ Shifted(n, b) \in Nat /\ Shifted(n, b + 1) = Shifted(n, b) \div 2
            BY <2>1, ShiftedOneMore
        <2> QED  BY <1>2, <2>1, <2>2
    <1>3. 0 .. bits \subseteq S
        <2> HIDE DEF S
        <2> QED  BY <1>1, <1>2, IntervalInduction
    <1>4. bits \in 0 .. bits  OBVIOUS
    <1> QED  BY <1>3, <1>4

\* A set of naturals has a least one.
LEMMA LeastNatural ==
    ASSUME NEW Z \in SUBSET Nat, Z # {}
    PROVE  \E least \in Z : \A b \in Z : least <= b
    <1>1. PICK x \in Z : \A y \in Z : ~ (<<y, x>> \in OpToRel(<, Nat))
        BY NatLessThanWellFounded, WFMin, Zenon
    <1>2. \A y \in Z : ~ (y < x)  BY <1>1 DEF OpToRel
    <1> QED  BY <1>2

\* The least number of halvings after which nothing is left.
LEMMA BitLengthIs ==
    ASSUME NEW n \in Nat
    PROVE  /\ BitLength(n) \in 0 .. n
           /\ Shifted(n, BitLength(n)) = 0
           /\ \A fewer \in 0 .. BitLength(n) - 1 : Shifted(n, fewer) # 0
    <1> DEFINE Least(bits) == /\ Shifted(n, bits) = 0
                              /\ \A fewer \in 0 .. bits - 1 : Shifted(n, fewer) # 0
               S == {b \in 0 .. n : Shifted(n, b) = 0 \/ Shifted(n, b) + b <= n}
               Z == {b \in 0 .. n : Shifted(n, b) = 0}
    <1>1. 0 \in S  BY ShiftedOneMore
    <1>2. ASSUME NEW b \in 0 .. n - 1, b \in S PROVE b + 1 \in S
        <2>1. b \in Nat /\ b + 1 \in 0 .. n  OBVIOUS
        <2>2. Shifted(n, b) \in Nat /\ Shifted(n, b + 1) = Shifted(n, b) \div 2  BY <2>1, ShiftedOneMore
        <2> QED  BY <1>2, <2>1, <2>2
    <1>3. n \in Z
        <2>1. 0 .. n \subseteq S
            <3> HIDE DEF S
            <3> QED  BY <1>1, <1>2, IntervalInduction
        <2>2. n \in S  BY <2>1
        <2>3. Shifted(n, n) \in Nat  BY ShiftedOneMore
        <2> QED  BY <2>2, <2>3
    <1>4. PICK least \in Z : \A b \in Z : least <= b
        <2>1. Z \in SUBSET Nat  OBVIOUS
        <2> HIDE DEF Z
        <2> QED  BY <1>3, <2>1, LeastNatural
    <1>5. Least(least) /\ least \in 0 .. n
        <2>1. ASSUME NEW fewer \in 0 .. least - 1 PROVE Shifted(n, fewer) # 0
            <3>1. fewer \in 0 .. n /\ ~(least <= fewer)  BY <1>4
            <3> QED  BY <1>4, <3>1
        <2> QED  BY <1>4, <2>1
    <1>6. BitLength(n) = CHOOSE bits \in 0 .. n : Least(bits)  BY DEF BitLength
    <1>7. BitLength(n) \in 0 .. n /\ Least(BitLength(n))
        <2> HIDE DEF Least
        <2> QED  BY <1>5, <1>6
    <1> QED  BY <1>7

-----------------------------------------------------------------------------
(* The rows of the node's tree *)

IsRow(row, m) == Len(row) = m /\ DOMAIN row = 1 .. m

\* An explicit function on 1 .. m is a sequence of length m.
LEMMA RowOf ==
    ASSUME NEW m \in Nat, NEW row, row = [i \in 1 .. m |-> row[i]]
    PROVE  IsRow(row, m)
    <1> DEFINE S == {row[i] : i \in 1 .. m}
    <1>1. row \in [1 .. m -> S]
        <2>1. \A i \in 1 .. m : row[i] \in S  OBVIOUS
        <2> HIDE DEF S
        <2> QED  BY <2>1
    <1>2. row \in Seq(S)
        <2> HIDE DEF S
        <2> QED  BY <1>1
    <1>3. DOMAIN row = 1 .. m  BY <1>1
    <1>4. Len(row) \in Nat /\ DOMAIN row = 1 .. Len(row)
        <2> HIDE DEF S
        <2> QED  BY <1>2
    <1>5. Len(row) = m
        <2> HIDE DEF S
        <2> QED  BY <1>3, <1>4
    <1> QED  BY <1>3, <1>5 DEF IsRow

RowsUpTo(hashes, m, p) ==
    /\ p = [depth \in 0 .. m |-> p[depth]]
    /\ p[0] = hashes
    /\ \A depth \in 1 .. m : p[depth] = Halved(p[depth - 1])

\* The rows of the node's tree can be computed, one from the other.
LEMMA RowsExist ==
    ASSUME NEW hashes, NEW n \in Nat
    PROVE  \E p : RowsUpTo(hashes, n, p)
    <1> DEFINE S == {m \in 0 .. n : \E p : RowsUpTo(hashes, m, p)}
    <1>1. 0 \in S
        <2>1. RowsUpTo(hashes, 0, [k \in 0 .. 0 |-> hashes])  BY DEF RowsUpTo
        <2> QED  BY <2>1
    <1>2. ASSUME NEW m \in 0 .. n - 1, m \in S PROVE m + 1 \in S
        <2>1. PICK p : RowsUpTo(hashes, m, p)  BY <1>2
        <2> DEFINE q == [k \in 0 .. m + 1 |-> IF k <= m THEN p[k] ELSE Halved(p[m])]
        <2>2. q = [k \in 0 .. m + 1 |-> q[k]]  OBVIOUS
        <2>3. q[0] = hashes  BY <2>1 DEF RowsUpTo
        <2>4. ASSUME NEW k \in 1 .. m + 1 PROVE q[k] = Halved(q[k - 1])
            <3>1. k - 1 \in 0 .. m /\ q[k - 1] = p[k - 1]  OBVIOUS
            <3>2. CASE k = m + 1
                <4>1. q[k] = Halved(p[m]) /\ k - 1 = m  BY <3>2
                <4> QED  BY <3>1, <4>1
            <3>3. CASE k # m + 1
                <4>1. k \in 1 .. m /\ q[k] = p[k]  BY <3>3
                <4> QED  BY <2>1, <3>1, <4>1 DEF RowsUpTo
            <3> QED  BY <3>2, <3>3
        <2>5. RowsUpTo(hashes, m + 1, q)
            <3> HIDE DEF q
            <3> QED  BY <2>2, <2>3, <2>4 DEF RowsUpTo
        <2> QED  BY <2>5
    <1>3. 0 .. n \subseteq S
        <2> HIDE DEF S
        <2> QED  BY <1>1, <1>2, IntervalInduction
    <1> QED  BY <1>3

\* NodeRows is these rows.
LEMMA RowsAre ==
    ASSUME NEW hashes, NEW n \in Nat, Len(hashes) = n + 1
    PROVE  RowsUpTo(hashes, n, NodeRows(hashes))
    <1> DEFINE Is(g) == g = [depth \in 0 .. Len(hashes) - 1 |->
                               IF depth = 0 THEN hashes ELSE Halved(g[depth - 1])]
               rows == CHOOSE g : Is(g)
    <1>1. Len(hashes) - 1 = n  OBVIOUS
    <1>2. \E g : Is(g)
        <2>1. PICK p : RowsUpTo(hashes, n, p)  BY RowsExist
        <2> DEFINE h == [depth \in 0 .. Len(hashes) - 1 |->
                           IF depth = 0 THEN hashes ELSE Halved(p[depth - 1])]
        <2>2. \A k \in 0 .. n : p[k] = h[k]
            <3>1. h[0] = hashes /\ \A k \in 1 .. n : h[k] = Halved(p[k - 1])  BY <1>1
            <3> HIDE DEF h
            <3>2. p[0] = h[0] /\ \A k \in 1 .. n : p[k] = h[k]  BY <2>1, <3>1 DEF RowsUpTo
            <3>3. \A k \in 0 .. n : k = 0 \/ k \in 1 .. n  OBVIOUS
            <3> QED  BY <3>2, <3>3
        <2>3. p = [k \in 0 .. n |-> p[k]] /\ h = [k \in 0 .. n |-> h[k]]  BY <1>1, <2>1 DEF RowsUpTo
        <2>4. p = h
            <3> HIDE DEF h
            <3> QED  BY <2>2, <2>3
        <2> QED  BY <2>4
    <1>3. Is(rows)  BY <1>2
    <1>4. NodeRows(hashes) = rows  BY DEF NodeRows, rows, Is
    <1> HIDE DEF rows
    <1>5. RowsUpTo(hashes, n, rows)
        <2> DEFINE h == [depth \in 0 .. Len(hashes) - 1 |->
                           IF depth = 0 THEN hashes ELSE Halved(rows[depth - 1])]
        <2>1. rows = h  BY <1>3
        <2>2. h = [k \in 0 .. n |-> h[k]] /\ h[0] = hashes  BY <1>1
        <2>3. \A k \in 1 .. n : h[k] = Halved(rows[k - 1])  BY <1>1
        <2> HIDE DEF h
        <2> QED  BY <2>1, <2>2, <2>3 DEF RowsUpTo
    <1> QED  BY <1>4, <1>5

\* A row is halved as its last place is.
LEMMA RowSizes ==
    ASSUME NEW hashes, NEW n \in Nat, IsRow(hashes, n + 1), NEW depth \in 0 .. n
    PROVE  IsRow(NodeRows(hashes)[depth], Shifted(n, depth) + 1)
    <1> DEFINE rows == NodeRows(hashes)
               S == {d \in 0 .. n : IsRow(rows[d], Shifted(n, d) + 1)}
    <1>1. RowsUpTo(hashes, n, rows)  BY RowsAre DEF IsRow
    <1>2. 0 \in S  BY <1>1, ShiftedOneMore DEF RowsUpTo
    <1>3. ASSUME NEW d \in 0 .. n - 1, d \in S PROVE d + 1 \in S
        <2>1. d \in Nat /\ d + 1 \in 1 .. n /\ d + 1 \in 0 .. n /\ (d + 1) - 1 = d  OBVIOUS
        <2>2. Shifted(n, d) \in Nat /\ Shifted(n, d + 1) = Shifted(n, d) \div 2  BY <2>1, ShiftedOneMore
        <2> DEFINE row == rows[d]
                   next == Halved(row)
                   m == (Len(row) + 1) \div 2
        <2>3. rows[d + 1] = next  BY <1>1, <2>1 DEF RowsUpTo
        <2>4. Len(row) = Shifted(n, d) + 1  BY <1>3 DEF IsRow
        <2>5. m = Shifted(n, d + 1) + 1 /\ m \in Nat
            <3> DEFINE s == Shifted(n, d)
            <3>1. s \in Nat /\ m = (s + 2) \div 2 /\ Shifted(n, d + 1) = s \div 2  BY <2>2, <2>4
            <3> HIDE DEF s, m
            <3>2. (s + 2) \div 2 = (s \div 2) + 1 /\ s \div 2 \in Nat  BY <3>1
            <3> QED  BY <3>1, <3>2
        <2>6. next = [i \in 1 .. m |-> next[i]]  BY DEF Halved
        <2>7. IsRow(next, m)
            <3> HIDE DEF next, m
            <3> QED  BY <2>5, <2>6, RowOf
        <2>8. IsRow(rows[d + 1], Shifted(n, d + 1) + 1)  BY <2>3, <2>5, <2>7
        <2> QED  BY <2>1, <2>8
    <1>4. 0 .. n \subseteq S
        <2> HIDE DEF S
        <2> QED  BY <1>2, <1>3, IntervalInduction
    <1> QED  BY <1>4

\* Some row has one node: the first of them is as high as the witnesses that are asked for.
LEMMA RootIsThere ==
    ASSUME NEW hashes, NEW n \in Nat, IsRow(hashes, n + 1)
    PROVE  /\ RootDepth(hashes) = BitLength(n)
           /\ RootDepth(hashes) \in 0 .. n
           /\ Shifted(n, RootDepth(hashes)) = 0
    <1> DEFINE rows == NodeRows(hashes)
               First(depth) == /\ Len(rows[depth]) = 1
                               /\ \A lower \in 0 .. depth - 1 : Len(rows[lower]) # 1
               b == BitLength(n)
               r == RootDepth(hashes)
    <1>1. \A depth \in 0 .. n : Len(rows[depth]) = 1 <=> Shifted(n, depth) = 0
        <2> SUFFICES ASSUME NEW depth \in 0 .. n PROVE Len(rows[depth]) = 1 <=> Shifted(n, depth) = 0
            OBVIOUS
        <2>1. Len(rows[depth]) = Shifted(n, depth) + 1  BY RowSizes DEF IsRow
        <2>2. depth \in Nat  OBVIOUS
        <2>3. Shifted(n, depth) \in Nat  BY <2>2, ShiftedOneMore
        <2> QED  BY <2>1, <2>3
    <1>2. b \in 0 .. n /\ Shifted(n, b) = 0 /\ \A fewer \in 0 .. b - 1 : Shifted(n, fewer) # 0
        BY BitLengthIs
    <1> HIDE DEF b
    <1>3. First(b) /\ b \in 0 .. n
        <2>1. \A lower \in 0 .. b - 1 : lower \in 0 .. n  BY <1>2
        <2> QED  BY <1>1, <1>2, <2>1
    <1>4. r = CHOOSE depth \in 0 .. n : First(depth)
        <2>1. Len(hashes) - 1 = n  BY DEF IsRow
        <2> QED  BY <2>1 DEF RootDepth
    <1>5. First(r) /\ r \in 0 .. n
        <2> HIDE DEF First, r
        <2> QED  BY <1>3, <1>4
    <1> HIDE DEF r
    <1>6. r = b
        <2>1. ~(r < b)
            <3>1. ASSUME r < b PROVE FALSE
                <4>1. r \in 0 .. b - 1  BY <1>3, <1>5, <3>1
                <4> QED  BY <1>3, <1>5, <4>1
            <3> QED  BY <3>1
        <2>2. ~(b < r)
            <3>1. ASSUME b < r PROVE FALSE
                <4>1. b \in 0 .. r - 1  BY <1>3, <1>5, <3>1
                <4> QED  BY <1>3, <1>5, <4>1
            <3> QED  BY <3>1
        <2> QED  BY <1>3, <1>5, <2>1, <2>2
    <1> QED  BY <1>2, <1>6 DEF b, r

\* What is above a place of a row, on its left or on its right.
LEMMA AbovePlace ==
    ASSUME NEW hashes, NEW n \in Nat, IsRow(hashes, n + 1), NEW depth \in 0 .. n - 1,
           NEW leafIndex \in 0 .. n
    PROVE  LET row == NodeRows(hashes)[depth]
               k == Shifted(leafIndex, depth)
           IN NodeRows(hashes)[depth + 1][Shifted(leafIndex, depth + 1) + 1]
                = IF k % 2 = 1 THEN MergeHashes(NodeOrNull(row, k), row[k + 1])
                  ELSE MergeHashes(row[k + 1], NodeOrNull(row, k + 2))
    <1> DEFINE rows == NodeRows(hashes)
               row == rows[depth]
               k == Shifted(leafIndex, depth)
               up == Shifted(leafIndex, depth + 1)
               m == (Len(row) + 1) \div 2
    <1>1. depth \in Nat /\ depth + 1 \in 1 .. n /\ (depth + 1) - 1 = depth /\ leafIndex \in Nat
          /\ depth \in 0 .. n /\ leafIndex <= n
        OBVIOUS
    <1>2. k \in Nat /\ up = k \div 2 /\ Shifted(n, depth) \in Nat
        BY <1>1, ShiftedOneMore
    <1>3. k <= Shifted(n, depth)  BY <1>1, ShiftedInOrder
    <1>4. IsRow(row, Shifted(n, depth) + 1)  BY <1>1, RowSizes
    <1>5. rows[depth + 1] = Halved(row)
        <2>1. RowsUpTo(hashes, n, rows)  BY RowsAre DEF IsRow
        <2> QED  BY <1>1, <2>1 DEF RowsUpTo
    <1> HIDE DEF rows, row, k, up
    <1>6. up + 1 \in 1 .. m  BY <1>2, <1>3, <1>4 DEF IsRow
    <1>7. Halved(row)[up + 1] = MergeHashes(row[2 * (up + 1) - 1], NodeOrNull(row, 2 * (up + 1)))
        BY <1>6 DEF Halved
    <1>8. CASE k % 2 = 1
        <2>1. 2 * (up + 1) - 1 = k /\ 2 * (up + 1) = k + 1  BY <1>2, <1>8
        <2>2. k \in DOMAIN row /\ k + 1 \in DOMAIN row  BY <1>2, <1>3, <1>4, <1>8 DEF IsRow
        <2>3. NodeOrNull(row, k) = row[k] /\ NodeOrNull(row, k + 1) = row[k + 1]  BY <2>2 DEF NodeOrNull
        <2> QED  BY <1>5, <1>7, <1>8, <2>1, <2>3 DEF rows, row, k, up
    <1>9. CASE k % 2 # 1
        <2>1. 2 * (up + 1) - 1 = k + 1 /\ 2 * (up + 1) = k + 2  BY <1>2, <1>9
        <2> QED  BY <1>5, <1>7, <1>9, <2>1 DEF rows, row, k, up
    <1> QED  BY <1>8, <1>9

-----------------------------------------------------------------------------
(* The walk over the witnesses *)

WalkUpTo(leafIndex, hash, witnesses, m, p) ==
    /\ p = [row \in 0 .. m |-> p[row]]
    /\ p[0] = hash
    /\ \A row \in 1 .. m :
         p[row] = IF Shifted(leafIndex, row - 1) % 2 = 1
                  THEN MergeHashes(witnesses[row], p[row - 1])
                  ELSE MergeHashes(p[row - 1], witnesses[row])

\* The walk of the checker up the tree, hash by hash.
LEMMA WalkExists ==
    ASSUME NEW leafIndex, NEW hash, NEW witnesses, NEW n \in Nat
    PROVE  \E p : WalkUpTo(leafIndex, hash, witnesses, n, p)
    <1> DEFINE NodeAbove(k, before) == IF Shifted(leafIndex, k - 1) % 2 = 1
                                  THEN MergeHashes(witnesses[k], before)
                                  ELSE MergeHashes(before, witnesses[k])
               S == {m \in 0 .. n : \E p : WalkUpTo(leafIndex, hash, witnesses, m, p)}
    <1>1. 0 \in S
        <2>1. WalkUpTo(leafIndex, hash, witnesses, 0, [k \in 0 .. 0 |-> hash])  BY DEF WalkUpTo
        <2> QED  BY <2>1
    <1>2. ASSUME NEW m \in 0 .. n - 1, m \in S PROVE m + 1 \in S
        <2>1. PICK p : WalkUpTo(leafIndex, hash, witnesses, m, p)  BY <1>2
        <2> DEFINE q == [k \in 0 .. m + 1 |-> IF k <= m THEN p[k] ELSE NodeAbove(m + 1, p[m])]
        <2>2. q = [k \in 0 .. m + 1 |-> q[k]]  OBVIOUS
        <2>3. q[0] = hash  BY <2>1 DEF WalkUpTo
        <2>4. ASSUME NEW k \in 1 .. m + 1 PROVE q[k] = NodeAbove(k, q[k - 1])
            <3>1. k - 1 \in 0 .. m /\ q[k - 1] = p[k - 1]  OBVIOUS
            <3> HIDE DEF NodeAbove
            <3>2. CASE k = m + 1
                <4>1. q[k] = NodeAbove(m + 1, p[m]) /\ k - 1 = m  BY <3>2
                <4> QED  BY <3>1, <3>2, <4>1
            <3>3. CASE k # m + 1
                <4>1. k \in 1 .. m /\ q[k] = p[k]  BY <3>3
                <4>2. p[k] = NodeAbove(k, p[k - 1])  BY <2>1, <4>1 DEF WalkUpTo, NodeAbove
                <4> QED  BY <3>1, <4>1, <4>2
            <3> QED  BY <3>2, <3>3
        <2>5. WalkUpTo(leafIndex, hash, witnesses, m + 1, q)
            <3> HIDE DEF q
            <3> QED  BY <2>2, <2>3, <2>4 DEF WalkUpTo, NodeAbove
        <2> QED  BY <2>5
    <1>3. 0 .. n \subseteq S
        <2> HIDE DEF S
        <2> QED  BY <1>1, <1>2, IntervalInduction
    <1> QED  BY <1>3

\* MicroblockRoot is where this walk ends.
LEMMA WalkIs ==
    ASSUME NEW leafIndex, NEW hash, NEW witnesses, NEW n \in Nat, Len(witnesses) = n
    PROVE  \E p : /\ WalkUpTo(leafIndex, hash, witnesses, n, p)
                  /\ MicroblockRoot(leafIndex, hash, witnesses) = p[n]
    <1> DEFINE NodeAbove(k, before) == IF Shifted(leafIndex, k - 1) % 2 = 1
                                  THEN MergeHashes(witnesses[k], before)
                                  ELSE MergeHashes(before, witnesses[k])
               Is(g) == g = [row \in 0 .. Len(witnesses) |->
                               IF row = 0 THEN hash
                               ELSE IF Shifted(leafIndex, row - 1) % 2 = 1
                                    THEN MergeHashes(witnesses[row], g[row - 1])
                                    ELSE MergeHashes(g[row - 1], witnesses[row])]
               upTo == CHOOSE g : Is(g)
    <1>1. \E g : Is(g)
        <2>1. PICK p : WalkUpTo(leafIndex, hash, witnesses, n, p)  BY WalkExists
        <2> DEFINE h == [row \in 0 .. Len(witnesses) |-> IF row = 0 THEN hash ELSE NodeAbove(row, p[row - 1])]
        <2>2. \A k \in 0 .. n : p[k] = h[k]
            <3>1. h[0] = hash /\ \A k \in 1 .. n : h[k] = NodeAbove(k, p[k - 1])  OBVIOUS
            <3> HIDE DEF h
            <3>2. p[0] = h[0] /\ \A k \in 1 .. n : p[k] = h[k]  BY <2>1, <3>1 DEF WalkUpTo
            <3>3. \A k \in 0 .. n : k = 0 \/ k \in 1 .. n  OBVIOUS
            <3> QED  BY <3>2, <3>3
        <2>3. p = [k \in 0 .. n |-> p[k]] /\ h = [k \in 0 .. n |-> h[k]]  BY <2>1 DEF WalkUpTo
        <2>4. p = h
            <3> HIDE DEF h
            <3> QED  BY <2>2, <2>3
        <2> QED  BY <2>4
    <1>2. Is(upTo)  BY <1>1
    <1>3. MicroblockRoot(leafIndex, hash, witnesses) = upTo[n]  BY DEF MicroblockRoot, upTo, Is
    <1> HIDE DEF upTo
    <1>4. WalkUpTo(leafIndex, hash, witnesses, n, upTo)
        <2> DEFINE h == [row \in 0 .. Len(witnesses) |-> IF row = 0 THEN hash ELSE NodeAbove(row, upTo[row - 1])]
        <2>1. upTo = h  BY <1>2
        <2>2. h = [k \in 0 .. n |-> h[k]] /\ h[0] = hash  OBVIOUS
        <2>3. \A k \in 1 .. n : h[k] = NodeAbove(k, upTo[k - 1])  OBVIOUS
        <2> HIDE DEF h
        <2> QED  BY <2>1, <2>2, <2>3 DEF WalkUpTo
    <1> QED  BY <1>3, <1>4

\* The walk from the microblock of a leaf stays in the tree, with the siblings that the node gives.
LEMMA WalkStaysInTree ==
    ASSUME NEW hashes, NEW n \in Nat, IsRow(hashes, n + 1), NEW leafIndex \in 0 .. n
    PROVE  MicroblockRoot(leafIndex, hashes[leafIndex + 1], NodeWitnesses(hashes, leafIndex)) = NodeRoot(hashes)
    <1> DEFINE rows == NodeRows(hashes)
               high == RootDepth(hashes)
               Place(depth) == Shifted(leafIndex, depth)
               witnesses == NodeWitnesses(hashes, leafIndex)
    <1>1. high \in 0 .. n /\ Shifted(n, high) = 0 /\ high \in Nat  BY RootIsThere
    <1> HIDE DEF high
    <1>2. \A row \in 1 .. high :
            witnesses[row] = NodeOrNull(rows[row - 1], IF Place(row - 1) % 2 = 1 THEN Place(row - 1)
                                                       ELSE Place(row - 1) + 2)
        BY DEF NodeWitnesses, high
    <1>3. Len(witnesses) = high
        <2>1. witnesses = [row \in 1 .. high |-> witnesses[row]]  BY DEF NodeWitnesses, high
        <2> HIDE DEF witnesses
        <2> QED  BY <1>1, <2>1, RowOf DEF IsRow
    <1> HIDE DEF witnesses
    <1>4. PICK p : /\ WalkUpTo(leafIndex, hashes[leafIndex + 1], witnesses, high, p)
                   /\ MicroblockRoot(leafIndex, hashes[leafIndex + 1], witnesses) = p[high]
        BY <1>1, <1>3, WalkIs
    <1> DEFINE S == {depth \in 0 .. high : p[depth] = rows[depth][Place(depth) + 1]}
    <1>5. 0 \in S
        <2>1. Place(0) = leafIndex  BY <1>1, ShiftedOneMore
        <2>2. rows[0] = hashes  BY RowsAre DEF IsRow, RowsUpTo
        <2> QED  BY <1>1, <1>4, <2>1, <2>2 DEF WalkUpTo
    <1>6. ASSUME NEW depth \in 0 .. high - 1, depth \in S PROVE depth + 1 \in S
        <2> DEFINE row == rows[depth]
                   k == Place(depth)
        <2>1. depth + 1 \in 1 .. high /\ depth + 1 \in 0 .. high /\ (depth + 1) - 1 = depth
              /\ depth \in 0 .. n - 1
            BY <1>1
        <2>2. rows[depth + 1][Place(depth + 1) + 1]
                = IF k % 2 = 1 THEN MergeHashes(NodeOrNull(row, k), row[k + 1])
                  ELSE MergeHashes(row[k + 1], NodeOrNull(row, k + 2))
            BY <2>1, AbovePlace
        <2>3. p[depth + 1] = IF k % 2 = 1 THEN MergeHashes(witnesses[depth + 1], p[depth])
                             ELSE MergeHashes(p[depth], witnesses[depth + 1])
            BY <1>4, <2>1 DEF WalkUpTo
        <2>4. witnesses[depth + 1] = NodeOrNull(row, IF k % 2 = 1 THEN k ELSE k + 2)
            BY <1>2, <2>1
        <2>5. p[depth] = row[k + 1]  BY <1>6
        <2> HIDE DEF row, k, rows, Place
        <2>6. p[depth + 1] = rows[depth + 1][Place(depth + 1) + 1]  BY <2>2, <2>3, <2>4, <2>5
        <2> QED  BY <2>1, <2>6
    <1>7. p[high] = rows[high][Place(high) + 1]
        <2>1. 0 .. high \subseteq S
            <3> HIDE DEF S
            <3> QED  BY <1>1, <1>5, <1>6, IntervalInduction
        <2>2. high \in S  BY <1>1, <2>1
        <2> QED  BY <2>2
    <1>8. Place(high) = 0
        <2>0. leafIndex \in Nat /\ leafIndex <= n  OBVIOUS
        <2>1. Place(high) \in Nat /\ Place(high) <= Shifted(n, high)
            BY <1>1, <2>0, ShiftedInOrder, ShiftedOneMore
        <2> QED  BY <1>1, <2>1
    <1> QED  BY <1>4, <1>7, <1>8 DEF NodeRoot, high, witnesses

\* Different hashes are merged to different hashes.
LEMMA MergedApart ==
    ASSUME NEW a, NEW b, NEW c, NEW d, MergeHashes(a, b) = MergeHashes(c, d)
    PROVE  a = c /\ b = d
    BY DEF MergeHashes

\* Whatever the witnesses are, if they lead to the root it was from the hash at that place.
LEMMA OnlyWhatIsThere ==
    ASSUME NEW hashes, NEW n \in Nat, IsRow(hashes, n + 1), NEW place \in 0 .. n, NEW hash,
           NEW witnesses, Len(witnesses) = RootDepth(hashes),
           MicroblockRoot(place, hash, witnesses) = NodeRoot(hashes)
    PROVE  hash = hashes[place + 1]
    <1> DEFINE rows == NodeRows(hashes)
               high == RootDepth(hashes)
               Place(depth) == Shifted(place, depth)
    <1>1. high \in 0 .. n /\ Shifted(n, high) = 0 /\ high \in Nat  BY RootIsThere
    <1>2. PICK p : /\ WalkUpTo(place, hash, witnesses, high, p)
                   /\ MicroblockRoot(place, hash, witnesses) = p[high]
        BY <1>1, WalkIs
    <1>3. p[high] = rows[high][1]  BY <1>2 DEF NodeRoot
    <1> HIDE DEF high
    <1>4. Place(high) = 0
        <2>0. place \in Nat /\ place <= n  OBVIOUS
        <2>1. Place(high) \in Nat /\ Place(high) <= Shifted(n, high)
            BY <1>1, <2>0, ShiftedInOrder, ShiftedOneMore
        <2> QED  BY <1>1, <2>1
    <1> DEFINE S == {d \in 0 .. high : p[high - d] = rows[high - d][Place(high - d) + 1]}
    <1>5. 0 \in S
        <2>1. high - 0 = high  BY <1>1
        <2> QED  BY <1>1, <1>3, <1>4, <2>1
    <1>6. ASSUME NEW d \in 0 .. high - 1, d \in S PROVE d + 1 \in S
        <2> DEFINE depth == high - (d + 1)
                   row == rows[depth]
                   k == Place(depth)
        <2>1. depth \in 0 .. n - 1 /\ depth + 1 = high - d /\ depth + 1 \in 1 .. high
              /\ (depth + 1) - 1 = depth /\ d + 1 \in 0 .. high
            BY <1>1
        <2>2. p[depth + 1] = rows[depth + 1][Place(depth + 1) + 1]  BY <1>6, <2>1
        <2> HIDE DEF depth
        <2>3. rows[depth + 1][Place(depth + 1) + 1]
                = IF k % 2 = 1 THEN MergeHashes(NodeOrNull(row, k), row[k + 1])
                  ELSE MergeHashes(row[k + 1], NodeOrNull(row, k + 2))
            BY <2>1, AbovePlace
        <2>4. p[depth + 1] = IF k % 2 = 1 THEN MergeHashes(witnesses[depth + 1], p[depth])
                             ELSE MergeHashes(p[depth], witnesses[depth + 1])
            BY <1>2, <2>1 DEF WalkUpTo
        <2>5. p[depth] = row[k + 1]
            <3> HIDE DEF row, k, rows, Place
            <3>1. CASE k % 2 = 1
                <4>1. MergeHashes(witnesses[depth + 1], p[depth]) = MergeHashes(NodeOrNull(row, k), row[k + 1])
                    BY <2>2, <2>3, <2>4, <3>1
                <4> QED  BY <4>1, MergedApart
            <3>2. CASE k % 2 # 1
                <4>1. MergeHashes(p[depth], witnesses[depth + 1]) = MergeHashes(row[k + 1], NodeOrNull(row, k + 2))
                    BY <2>2, <2>3, <2>4, <3>2
                <4> QED  BY <4>1, MergedApart
            <3> QED  BY <3>1, <3>2
        <2> QED  BY <2>1, <2>5 DEF depth
    <1>7. p[0] = rows[0][Place(0) + 1]
        <2>1. 0 .. high \subseteq S
            <3> HIDE DEF S
            <3> QED  BY <1>1, <1>5, <1>6, IntervalInduction
        <2>2. high \in S /\ high - high = 0  BY <1>1, <2>1
        <2> QED  BY <2>2
    <1>8. Place(0) = place  BY <1>1, ShiftedOneMore
    <1>9. rows[0] = hashes  BY RowsAre DEF IsRow, RowsUpTo
    <1>10. p[0] = hash  BY <1>2 DEF WalkUpTo
    <1> QED  BY <1>7, <1>8, <1>9, <1>10

\* All that is proved of a chain (StateChecker.ts:44-69), for each length.
LEMMA ChainsVerify ==
    ASSUME NEW height \in Nat \ {0}
    PROVE  ChainVerifies(height)
    <1> DEFINE hashes == [i \in 1 .. height |-> <<"microblock", i>>]
               root == NodeRoot(hashes)
               n == height - 1
    <1>1. n \in Nat /\ n + 1 = height  OBVIOUS
    <1>2. IsRow(hashes, n + 1)
        <2>1. hashes = [i \in 1 .. n + 1 |-> hashes[i]] /\ n + 1 \in Nat  OBVIOUS
        <2> HIDE DEF hashes
        <2> QED  BY <2>1, RowOf
    <1>3. DOMAIN hashes = 1 .. height  OBVIOUS
    <1>4. \A i, j \in 1 .. height : hashes[i] = hashes[j] => i = j  OBVIOUS
    <1>5. RootDepth(hashes) = BitLength(n) /\ RootDepth(hashes) \in 0 .. n
        <2> HIDE DEF hashes, n
        <2> QED  BY <1>1, <1>2, RootIsThere
    <1> HIDE DEF hashes
    <1>6. ASSUME NEW other \in 1 .. height
          PROVE  /\ CanVerifyMicroblock(height, NodeWitnesses(hashes, other - 1))
                 /\ MicroblockRoot(other - 1, hashes[other], NodeWitnesses(hashes, other - 1)) = root
                 /\ \A i, place \in 1 .. height :
                      MicroblockRoot(place - 1, hashes[i], NodeWitnesses(hashes, other - 1)) = root => i = place
        <2> DEFINE witnesses == NodeWitnesses(hashes, other - 1)
        <2>1. other - 1 \in 0 .. n /\ (other - 1) + 1 = other  OBVIOUS
        <2>2. Len(witnesses) = RootDepth(hashes)
            <3>1. witnesses = [row \in 1 .. RootDepth(hashes) |-> witnesses[row]]  BY DEF NodeWitnesses
            <3>2. RootDepth(hashes) \in Nat  BY <1>5
            <3> HIDE DEF witnesses
            <3> QED  BY <3>1, <3>2, RowOf DEF IsRow
        <2>3. CanVerifyMicroblock(height, witnesses)
            <3>1. RootDepth(hashes) \in Int  BY <1>5
            <3> HIDE DEF witnesses
            <3> QED  BY <1>5, <2>2, <3>1 DEF CanVerifyMicroblock, StateTreeHeight
        <2>4. MicroblockRoot(other - 1, hashes[other], witnesses) = root
            BY <1>1, <1>2, <2>1, WalkStaysInTree
        <2>5. ASSUME NEW i \in 1 .. height, NEW place \in 1 .. height,
                     MicroblockRoot(place - 1, hashes[i], witnesses) = root
              PROVE  i = place
            <3>1. place - 1 \in 0 .. n /\ (place - 1) + 1 = place  OBVIOUS
            <3> HIDE DEF witnesses, n
            <3>2. hashes[i] = hashes[(place - 1) + 1]
                BY <1>1, <1>2, <2>2, <2>5, <3>1, OnlyWhatIsThere
            <3> QED  BY <1>4, <3>1, <3>2
        <2> QED  BY <2>3, <2>4, <2>5
    <1> QED  BY <1>3, <1>6 DEF ChainVerifies, hashes

-----------------------------------------------------------------------------
(* Radix trees *)

IsEntries(entries) == /\ DOMAIN entries \subseteq Keys /\ DOMAIN entries # {}
                      /\ \A k \in DOMAIN entries : entries[k] # NoValue

\* Keys with the same digits are the same.
LEMMA KeysAlike ==
    ASSUME NEW a \in Keys, NEW b \in Keys, \A i \in 1 .. KeyLength : a[i] = b[i]
    PROVE  a = b
    <1>1. a = [i \in 1 .. KeyLength |-> a[i]] /\ b = [i \in 1 .. KeyLength |-> b[i]]  BY DEF Keys
    <1> QED  BY <1>1

SlotsAt(entries, left, before) ==
    [key \in Keys |->
       IF Below(entries, key, KeyLength - left) = {} THEN NoValue
       ELSE IF left = 0 THEN entries[key]
       ELSE RadixHash(RadixNode(entries, key, KeyLength - left, before))]

SlotsUpTo(entries, m, p) ==
    /\ p = [left \in 0 .. m |-> p[left]]
    /\ p[0] = SlotsAt(entries, 0, p[-1])
    /\ \A left \in 1 .. m : p[left] = SlotsAt(entries, left, p[left - 1])

\* The lowest slots do not depend on any others.
LEMMA FirstSlots ==
    ASSUME NEW entries, NEW before, NEW other
    PROVE  SlotsAt(entries, 0, before) = SlotsAt(entries, 0, other)
    BY DEF SlotsAt

\* The slots of a radix tree can be computed, from the leaves up.
LEMMA SlotsExist ==
    ASSUME NEW entries, NEW n \in Nat
    PROVE  \E p : SlotsUpTo(entries, n, p)
    <1> DEFINE S == {m \in 0 .. n : \E p : SlotsUpTo(entries, m, p)}
    <1>1. 0 \in S
        <2> DEFINE p == [k \in 0 .. 0 |-> SlotsAt(entries, 0, 0)]
        <2>1. p = [k \in 0 .. 0 |-> p[k]] /\ p[0] = SlotsAt(entries, 0, 0)  OBVIOUS
        <2> HIDE DEF p
        <2>2. p[0] = SlotsAt(entries, 0, p[-1])  BY <2>1, FirstSlots
        <2>3. SlotsUpTo(entries, 0, p)  BY <2>1, <2>2 DEF SlotsUpTo
        <2> QED  BY <2>3
    <1>2. ASSUME NEW m \in 0 .. n - 1, m \in S PROVE m + 1 \in S
        <2>1. PICK p : SlotsUpTo(entries, m, p)  BY <1>2
        <2> DEFINE q == [k \in 0 .. m + 1 |-> IF k <= m THEN p[k] ELSE SlotsAt(entries, m + 1, p[m])]
        <2>2. q = [k \in 0 .. m + 1 |-> q[k]]  OBVIOUS
        <2>3. q[0] = SlotsAt(entries, 0, q[-1])
            <3>1. q[0] = p[0]  OBVIOUS
            <3> HIDE DEF q
            <3> QED  BY <2>1, <3>1, FirstSlots DEF SlotsUpTo
        <2>4. ASSUME NEW k \in 1 .. m + 1 PROVE q[k] = SlotsAt(entries, k, q[k - 1])
            <3>1. k - 1 \in 0 .. m /\ q[k - 1] = p[k - 1]  OBVIOUS
            <3>2. CASE k = m + 1
                <4>1. q[k] = SlotsAt(entries, m + 1, p[m]) /\ k - 1 = m  BY <3>2
                <4> QED  BY <3>1, <3>2, <4>1
            <3>3. CASE k # m + 1
                <4>1. k \in 1 .. m /\ q[k] = p[k]  BY <3>3
                <4> QED  BY <2>1, <3>1, <4>1 DEF SlotsUpTo
            <3> QED  BY <3>2, <3>3
        <2>5. SlotsUpTo(entries, m + 1, q)
            <3> HIDE DEF q
            <3> QED  BY <2>2, <2>3, <2>4 DEF SlotsUpTo
        <2> QED  BY <2>5
    <1>3. 0 .. n \subseteq S
        <2> HIDE DEF S
        <2> QED  BY <1>1, <1>2, IntervalInduction
    <1> QED  BY <1>3

\* RadixSlots is these slots.
LEMMA SlotsAre ==
    ASSUME NEW entries
    PROVE  SlotsUpTo(entries, KeyLength, RadixSlots(entries))
    <1> DEFINE Is(g) == g = [left \in 0 .. KeyLength |-> SlotsAt(entries, left, g[left - 1])]
               slots == CHOOSE g : Is(g)
    <1>1. KeyLength \in Nat  BY StateProofsAssumption
    <1>2. \E g : Is(g)
        <2>1. PICK p : SlotsUpTo(entries, KeyLength, p)  BY <1>1, SlotsExist
        <2> DEFINE h == [left \in 0 .. KeyLength |-> SlotsAt(entries, left, p[left - 1])]
        <2>2. \A k \in 0 .. KeyLength : p[k] = h[k]
            <3>1. h[0] = SlotsAt(entries, 0, p[-1]) /\ \A k \in 1 .. KeyLength : h[k] = SlotsAt(entries, k, p[k - 1])
                BY <1>1
            <3> HIDE DEF h
            <3>2. p[0] = h[0] /\ \A k \in 1 .. KeyLength : p[k] = h[k]  BY <2>1, <3>1 DEF SlotsUpTo
            <3>3. \A k \in 0 .. KeyLength : k = 0 \/ k \in 1 .. KeyLength  BY <1>1
            <3> QED  BY <3>2, <3>3
        <2>3. p = [k \in 0 .. KeyLength |-> p[k]] /\ h = [k \in 0 .. KeyLength |-> h[k]]
            BY <2>1 DEF SlotsUpTo
        <2>4. p = h
            <3> HIDE DEF h
            <3> QED  BY <2>2, <2>3
        <2> QED  BY <2>4
    <1>3. Is(slots)  BY <1>2
    <1>4. RadixSlots(entries) = slots  BY DEF RadixSlots, slots, Is, SlotsAt
    <1> HIDE DEF slots
    <1>5. SlotsUpTo(entries, KeyLength, slots)
        <2> DEFINE h == [left \in 0 .. KeyLength |-> SlotsAt(entries, left, slots[left - 1])]
        <2>1. slots = h  BY <1>3
        <2>2. h = [k \in 0 .. KeyLength |-> h[k]] /\ h[0] = SlotsAt(entries, 0, slots[-1])  BY <1>1
        <2>3. \A k \in 1 .. KeyLength : h[k] = SlotsAt(entries, k, slots[k - 1])  BY <1>1
        <2> HIDE DEF h
        <2> QED  BY <2>1, <2>2, <2>3 DEF SlotsUpTo
    <1> QED  BY <1>4, <1>5

\* What stands for the entries that share the first digits of a key, and the node they are in.
Slot(entries, key, depth) == RadixSlots(entries)[KeyLength - depth][key]
NodeOn(entries, key, depth) == RadixNode(entries, key, depth, RadixSlots(entries)[KeyLength - (depth + 1)])

\* Different nodes have different hashes, and none is the one of no value.
LEMMA RadixApart ==
    ASSUME NEW a, NEW b
    PROVE  (RadixHash(a) = RadixHash(b) => a = b) /\ RadixHash(a) # NoValue
    <1>1. Len(RadixHash(a)) = 2 /\ Len(NoValue) = 1  BY DEF RadixHash, NoValue
    <1>2. RadixHash(a) = RadixHash(b) => a = b  BY DEF RadixHash
    <1>3. RadixHash(a) # NoValue
        <2> HIDE DEF RadixHash, NoValue
        <2> QED  BY <1>1
    <1> QED  BY <1>2, <1>3

\* A slot is empty if no entry is below it; else it has its node's hash, or the value of its entry.
LEMMA SlotIs ==
    ASSUME NEW entries, IsEntries(entries), NEW key \in Keys
    PROVE  /\ \A depth \in 0 .. KeyLength - 1 :
                Slot(entries, key, depth)
                  = IF Below(entries, key, depth) = {} THEN NoValue ELSE RadixHash(NodeOn(entries, key, depth))
           /\ Slot(entries, key, KeyLength) = IF key \in DOMAIN entries THEN entries[key] ELSE NoValue
           /\ \A depth \in 0 .. KeyLength : Slot(entries, key, depth) = NoValue <=> Below(entries, key, depth) = {}
    <1> DEFINE slots == RadixSlots(entries)
    <1>1. SlotsUpTo(entries, KeyLength, slots)  BY SlotsAre
    <1>2. KeyLength \in Nat \ {0}  BY StateProofsAssumption
    <1>3. ASSUME NEW depth \in 0 .. KeyLength - 1
          PROVE  Slot(entries, key, depth)
                   = IF Below(entries, key, depth) = {} THEN NoValue ELSE RadixHash(NodeOn(entries, key, depth))
        <2> DEFINE left == KeyLength - depth
                   before == slots[left - 1]
        <2>1. left \in 1 .. KeyLength /\ left # 0 /\ KeyLength - left = depth
              /\ left - 1 = KeyLength - (depth + 1)
            BY <1>2
        <2> HIDE DEF left
        <2>2. slots[left] = SlotsAt(entries, left, before)  BY <1>1, <2>1 DEF SlotsUpTo
        <2>3. slots[left][key] = IF Below(entries, key, depth) = {} THEN NoValue
                                 ELSE RadixHash(RadixNode(entries, key, depth, before))
            BY <2>1, <2>2 DEF SlotsAt
        <2> QED  BY <2>1, <2>3 DEF Slot, NodeOn, left
    <1>4. Below(entries, key, KeyLength) = IF key \in DOMAIN entries THEN {key} ELSE {}
        <2>1. ASSUME NEW k \in Below(entries, key, KeyLength) PROVE k = key /\ k \in DOMAIN entries
            <3>1. k \in Keys /\ k \in DOMAIN entries /\ \A i \in 1 .. KeyLength : k[i] = key[i]
                BY <2>1 DEF Below, IsEntries
            <3>2. k = key  BY <3>1, KeysAlike
            <3> QED  BY <3>1, <3>2
        <2>2. key \in DOMAIN entries => key \in Below(entries, key, KeyLength)  BY DEF Below
        <2> QED  BY <2>1, <2>2
    <1>5. Slot(entries, key, KeyLength) = IF key \in DOMAIN entries THEN entries[key] ELSE NoValue
        <2>1. KeyLength - KeyLength = 0 /\ KeyLength - 0 = KeyLength  BY <1>2
        <2>2. slots[0] = SlotsAt(entries, 0, slots[-1])  BY <1>1 DEF SlotsUpTo
        <2>3. slots[0][key] = IF Below(entries, key, KeyLength) = {} THEN NoValue ELSE entries[key]
            BY <2>1, <2>2 DEF SlotsAt
        <2> QED  BY <1>4, <2>1, <2>3 DEF Slot
    <1>6. ASSUME NEW depth \in 0 .. KeyLength
          PROVE  Slot(entries, key, depth) = NoValue <=> Below(entries, key, depth) = {}
        <2>1. CASE depth = KeyLength  BY <1>4, <1>5, <2>1 DEF IsEntries
        <2>2. CASE depth # KeyLength
            <3>1. depth \in 0 .. KeyLength - 1  BY <1>2, <2>2
            <3> QED  BY <1>3, <3>1, RadixApart
        <2> QED  BY <2>1, <2>2
    <1> QED  BY <1>3, <1>5, <1>6

\* It is the same for all keys with these digits.
LEMMA SlotsShared ==
    ASSUME NEW entries, IsEntries(entries), NEW key \in Keys, NEW other \in Keys
    PROVE  Slot(entries, key, 0) = Slot(entries, other, 0)
    <1> DEFINE slots == RadixSlots(entries)
               Alike(a, b, depth) == \A i \in 1 .. depth : a[i] = b[i]
               S == {left \in 0 .. KeyLength : \A a, b \in Keys :
                       Alike(a, b, KeyLength - left) => slots[left][a] = slots[left][b]}
    <1>1. SlotsUpTo(entries, KeyLength, slots)  BY SlotsAre
    <1>2. KeyLength \in Nat \ {0}  BY StateProofsAssumption
    <1>3. 0 \in S
        <2> SUFFICES ASSUME NEW a \in Keys, NEW b \in Keys, Alike(a, b, KeyLength - 0)
                     PROVE  slots[0][a] = slots[0][b]
            BY <1>2
        <2>1. a = b  BY <1>2 DEF Keys
        <2> QED  BY <2>1
    <1>4. ASSUME NEW left \in 0 .. KeyLength - 1, left \in S PROVE left + 1 \in S
        <2> DEFINE depth == KeyLength - (left + 1)
                   before == slots[left]
        <2>1. left + 1 \in 1 .. KeyLength /\ left + 1 \in 0 .. KeyLength /\ (left + 1) - 1 = left
              /\ left + 1 # 0 /\ depth \in Nat /\ depth + 1 = KeyLength - left /\ depth + 1 \in 1 .. KeyLength
            BY <1>2
        <2>2. slots[left + 1] = SlotsAt(entries, left + 1, before)  BY <1>1, <2>1 DEF SlotsUpTo
        <2>3. \A a \in Keys : slots[left + 1][a]
                                = IF Below(entries, a, depth) = {} THEN NoValue
                                  ELSE RadixHash(RadixNode(entries, a, depth, before))
            BY <2>1, <2>2 DEF SlotsAt
        <2>4. \A a, b \in Keys : Alike(a, b, depth + 1) => before[a] = before[b]
            BY <1>4, <2>1
        <2> HIDE DEF depth, before, slots
        <2> SUFFICES ASSUME NEW a \in Keys, NEW b \in Keys, Alike(a, b, depth)
                     PROVE  slots[left + 1][a] = slots[left + 1][b]
            BY <2>1 DEF depth
        <2>5. Below(entries, a, depth) = Below(entries, b, depth)  BY DEF Below
        <2>6. IsLeaf(entries, a, depth) <=> IsLeaf(entries, b, depth)  BY <2>5 DEF IsLeaf
        <2>7. CASE IsLeaf(entries, a, depth)
            <3> DEFINE Only(x) == CHOOSE k \in DOMAIN entries : Below(entries, x, depth) = {k}
            <3>1. Below(entries, a, depth) = {Only(a)}  BY <2>7 DEF IsLeaf
            <3>2. Below(entries, b, depth) = {Only(b)}  BY <2>6, <2>7 DEF IsLeaf
            <3>3. Only(a) = Only(b)
                <4> HIDE DEF Only
                <4> QED  BY <2>5, <3>1, <3>2
            <3>4. \A x : IsLeaf(entries, x, depth) =>
                    RadixNode(entries, x, depth, before)
                      = [branch |-> FALSE, rest |-> SubSeq(Only(x), depth + 1, KeyLength), value |-> entries[Only(x)]]
                BY DEF RadixNode
            <3>5. RadixNode(entries, a, depth, before) = RadixNode(entries, b, depth, before)
                <4> HIDE DEF Only
                <4> QED  BY <2>6, <2>7, <3>3, <3>4
            <3> QED  BY <2>3, <2>5, <3>5
        <2>8. CASE ~IsLeaf(entries, a, depth)
            <3> DEFINE Children(x) == [digit \in KeyDigits |-> before[[x EXCEPT ![depth + 1] = digit]]]
            <3>1. \A x : ~IsLeaf(entries, x, depth) =>
                    RadixNode(entries, x, depth, before) = [branch |-> TRUE, children |-> Children(x)]
                BY DEF RadixNode
            <3>2. ASSUME NEW digit \in KeyDigits
                  PROVE  before[[a EXCEPT ![depth + 1] = digit]] = before[[b EXCEPT ![depth + 1] = digit]]
                <4> DEFINE c == [a EXCEPT ![depth + 1] = digit]
                           d == [b EXCEPT ![depth + 1] = digit]
                <4>1. c \in Keys /\ d \in Keys  BY DEF Keys
                <4>2. Alike(c, d, depth + 1)
                    <5> SUFFICES ASSUME NEW i \in 1 .. depth + 1 PROVE c[i] = d[i]
                        OBVIOUS
                    <5>1. i \in 1 .. KeyLength /\ (i = depth + 1 \/ i \in 1 .. depth)  BY <1>2, <2>1
                    <5> QED  BY <5>1 DEF Keys
                <4> HIDE DEF c, d
                <4> QED  BY <2>4, <4>1, <4>2 DEF c, d
            <3>3. Children(a) = Children(b)  BY <3>2
            <3>4. RadixNode(entries, a, depth, before) = RadixNode(entries, b, depth, before)
                <4> HIDE DEF Children
                <4> QED  BY <2>6, <2>8, <3>1, <3>3
            <3> QED  BY <2>3, <2>5, <3>4
        <2> QED  BY <2>7, <2>8
    <1>5. KeyLength \in S
        <2>1. 0 .. KeyLength \subseteq S
            <3> HIDE DEF S
            <3> QED  BY <1>2, <1>3, <1>4, IntervalInduction
        <2> QED  BY <1>2, <2>1
    <1>6. KeyLength - KeyLength = 0 /\ KeyLength - 0 = KeyLength  BY <1>2
    <1> QED  BY <1>5, <1>6 DEF Slot

ValueOf(entries, key) == IF key \in DOMAIN entries THEN entries[key] ELSE NoValue

\* Fewer entries share more digits of a key, and all share none.
LEMMA BelowShrinks ==
    ASSUME NEW entries, NEW key, NEW depth \in Nat
    PROVE  /\ Below(entries, key, depth + 1) \subseteq Below(entries, key, depth)
           /\ Below(entries, key, 0) = DOMAIN entries
    <1>1. 1 .. depth \subseteq 1 .. depth + 1  OBVIOUS
    <1>2. Below(entries, key, depth + 1) \subseteq Below(entries, key, depth)  BY <1>1 DEF Below
    <1>3. 1 .. 0 = {}  OBVIOUS
    <1> QED  BY <1>2, <1>3 DEF Below

\* A key has no value if no entry shares some of its digits.
LEMMA BelowEmpty ==
    ASSUME NEW entries, NEW key, NEW depth, Below(entries, key, depth) = {}
    PROVE  ValueOf(entries, key) = NoValue
    BY DEF Below, ValueOf

\* Of a leaf, the rest is the rest of the key if it has the value of the key, and else the key has none.
LEMMA LeafIs ==
    ASSUME NEW entries, IsEntries(entries), NEW key \in Keys, NEW depth \in 0 .. KeyLength - 1,
           IsLeaf(entries, key, depth)
    PROVE  LET node == NodeOn(entries, key, depth)
           IN /\ node.branch = FALSE
              /\ node.rest = SubSeq(key, depth + 1, KeyLength)
                   => node.value = ValueOf(entries, key) /\ ValueOf(entries, key) # NoValue
              /\ node.rest # SubSeq(key, depth + 1, KeyLength) => ValueOf(entries, key) = NoValue
    <1> DEFINE only == CHOOSE k \in DOMAIN entries : Below(entries, key, depth) = {k}
               Rest(k) == SubSeq(k, depth + 1, KeyLength)
    <1>1. KeyLength \in Nat \ {0}  BY StateProofsAssumption
    <1>2. only \in DOMAIN entries /\ Below(entries, key, depth) = {only}  BY DEF IsLeaf
    <1>3. NodeOn(entries, key, depth) = [branch |-> FALSE, rest |-> Rest(only), value |-> entries[only]]
        BY DEF NodeOn, RadixNode
    <1> HIDE DEF only
    <1>4. \A k \in Keys : /\ Len(Rest(k)) = KeyLength - depth
                          /\ \A i \in 1 .. KeyLength - depth : Rest(k)[i] = k[depth + i]
        <2> SUFFICES ASSUME NEW k \in Keys
                     PROVE  /\ Len(Rest(k)) = KeyLength - depth
                            /\ \A i \in 1 .. KeyLength - depth : Rest(k)[i] = k[depth + i]
            OBVIOUS
        <2>2. \A i \in depth + 1 .. KeyLength : k[i] \in KeyDigits
            <3>1. k \in [1 .. KeyLength -> KeyDigits]  BY DEF Keys
            <3> QED  BY <1>1, <3>1
        <2>6. depth + 1 \in Int /\ KeyLength \in Int /\ depth + 1 <= KeyLength  BY <1>1
        <2>7. /\ Len(SubSeq(k, depth + 1, KeyLength))
                   = IF depth + 1 <= KeyLength THEN KeyLength - (depth + 1) + 1 ELSE 0
              /\ \A i \in 1 .. KeyLength - (depth + 1) + 1 :
                   SubSeq(k, depth + 1, KeyLength)[i] = k[(depth + 1) + i - 1]
            BY <2>2, <2>6, SubSeqProperties
        <2>3. /\ Len(Rest(k)) = KeyLength - (depth + 1) + 1
              /\ \A i \in 1 .. KeyLength - (depth + 1) + 1 : Rest(k)[i] = k[depth + 1 + i - 1]
            BY <2>6, <2>7
        <2>4. KeyLength - (depth + 1) + 1 = KeyLength - depth  BY <1>1
        <2>5. \A i \in 1 .. KeyLength - depth : depth + 1 + i - 1 = depth + i  BY <1>1
        <2> HIDE DEF Rest
        <2> QED  BY <2>3, <2>4, <2>5
    <1>5. only \in Keys  BY <1>2 DEF IsEntries
    <1>6. only \in Below(entries, key, depth)  BY <1>2
    <1>7. Rest(only) = Rest(key) => only = key
        <2> SUFFICES ASSUME Rest(only) = Rest(key) PROVE only = key
            OBVIOUS
        <2>1. ASSUME NEW i \in 1 .. KeyLength PROVE only[i] = key[i]
            <3>1. CASE i <= depth
                <4>1. i \in 1 .. depth  BY <1>1, <3>1
                <4> QED  BY <1>6, <4>1 DEF Below
            <3>2. CASE ~(i <= depth)
                <4>1. i - depth \in 1 .. KeyLength - depth /\ depth + (i - depth) = i  BY <1>1, <3>2
                <4>2. \A k \in Keys : Rest(k)[i - depth] = k[i]
                    <5> HIDE DEF Rest
                    <5> QED  BY <1>4, <4>1
                <4> HIDE DEF Rest
                <4>3. Rest(only)[i - depth] = only[i] /\ Rest(key)[i - depth] = key[i]  BY <1>5, <4>2
                <4>4. Rest(only)[i - depth] = Rest(key)[i - depth]
                    <5>1. Rest(only) = Rest(key)  BY DEF Rest
                    <5> QED  BY <5>1
                <4> QED  BY <4>3, <4>4
            <3> QED  BY <3>1, <3>2
        <2> QED  BY <1>5, <2>1, KeysAlike
    <1>8. key \in DOMAIN entries => key = only
        <2>1. key \in DOMAIN entries => key \in Below(entries, key, depth)  BY DEF Below
        <2> QED  BY <1>2, <2>1
    <1>9. \A k \in DOMAIN entries : entries[k] # NoValue  BY DEF IsEntries
    <1> HIDE DEF Rest
    <1>10. Rest(only) = Rest(key) => entries[only] = ValueOf(entries, key) /\ ValueOf(entries, key) # NoValue
        BY <1>2, <1>7, <1>9 DEF ValueOf
    <1>11. Rest(only) # Rest(key) => ValueOf(entries, key) = NoValue  BY <1>8 DEF ValueOf
    <1> DEFINE node == NodeOn(entries, key, depth)
    <1>12. node.branch = FALSE /\ node.rest = Rest(only) /\ node.value = entries[only]  BY <1>3
    <1> HIDE DEF node
    <1>13. Rest(key) = SubSeq(key, depth + 1, KeyLength)  BY DEF Rest
    <1> QED  BY <1>10, <1>11, <1>12, <1>13 DEF node

\* Of a branch, the child by the next digit of the key is the slot below.
LEMMA BranchIs ==
    ASSUME NEW entries, IsEntries(entries), NEW key \in Keys, NEW depth \in 0 .. KeyLength - 1,
           ~IsLeaf(entries, key, depth)
    PROVE  LET node == NodeOn(entries, key, depth)
           IN /\ node.branch = TRUE
              /\ node.children[key[depth + 1]] = Slot(entries, key, depth + 1)
    <1> DEFINE slots == RadixSlots(entries)[KeyLength - (depth + 1)]
               Children == [digit \in KeyDigits |-> slots[[key EXCEPT ![depth + 1] = digit]]]
    <1>1. KeyLength \in Nat \ {0}  BY StateProofsAssumption
    <1>2. NodeOn(entries, key, depth) = [branch |-> TRUE, children |-> Children]
        BY DEF NodeOn, RadixNode
    <1>3. depth + 1 \in 1 .. KeyLength  BY <1>1
    <1>4. key \in [1 .. KeyLength -> KeyDigits]  BY DEF Keys
    <1>5. key[depth + 1] \in KeyDigits  BY <1>3, <1>4
    <1>6. [key EXCEPT ![depth + 1] = key[depth + 1]] = key  BY <1>3, <1>4
    <1> HIDE DEF slots
    <1>7. Children[key[depth + 1]] = slots[key]  BY <1>5, <1>6
    <1>8. slots[key] = Slot(entries, key, depth + 1)  BY DEF slots, Slot
    <1> HIDE DEF Children
    <1> QED  BY <1>2, <1>7, <1>8

HashOf(key, proof, depth) == IF depth = 0 THEN NoValue ELSE proof[depth].children[key[depth]]

\* One step of the walk, given what the rest of it says.
StepOf(key, value, proof, left, restOfIt) ==
    LET depth == KeyLength - left
        node == proof[depth + 1]
    IN IF left = 0 THEN HashOf(key, proof, depth) = value
       ELSE /\ depth + 1 \in DOMAIN proof
            /\ depth > 0 => HashOf(key, proof, depth) = RadixHash(node)
            /\ CASE node.branch /\ proof[depth + 1].children[key[depth + 1]] # NoValue -> restOfIt
                 [] node.branch /\ ~(proof[depth + 1].children[key[depth + 1]] # NoValue) -> value = NoValue
                 [] OTHER -> IF node.rest = SubSeq(key, depth + 1, KeyLength)
                             THEN value # NoValue /\ node.value = value
                             ELSE value = NoValue

WalkOf(key, value, proof, m, p) ==
    /\ p = [left \in 0 .. m |-> p[left]]
    /\ p[0] = StepOf(key, value, proof, 0, p[-1])
    /\ \A left \in 1 .. m : p[left] = StepOf(key, value, proof, left, p[left - 1])

\* The last step of the walk does not depend on any further ones.
LEMMA FirstStep ==
    ASSUME NEW key, NEW value, NEW proof, NEW before, NEW other
    PROVE  StepOf(key, value, proof, 0, before) = StepOf(key, value, proof, 0, other)
    BY DEF StepOf

\* The walk of the checker down a radix proof, from the end (radixChecker.ts:16-52).
LEMMA WalkOfExists ==
    ASSUME NEW key, NEW value, NEW proof, NEW n \in Nat
    PROVE  \E p : WalkOf(key, value, proof, n, p)
    <1> DEFINE Step(left, before) == StepOf(key, value, proof, left, before)
               S == {m \in 0 .. n : \E p : WalkOf(key, value, proof, m, p)}
    <1>0. \A p, m : WalkOf(key, value, proof, m, p)
                      <=> /\ p = [left \in 0 .. m |-> p[left]]
                          /\ p[0] = Step(0, p[-1])
                          /\ \A left \in 1 .. m : p[left] = Step(left, p[left - 1])
        BY DEF WalkOf
    <1>f. \A a, b : Step(0, a) = Step(0, b)  BY FirstStep
    <1> HIDE DEF Step
    <1>1. 0 \in S
        <2> DEFINE p == [k \in 0 .. 0 |-> Step(0, 0)]
        <2>1. p = [k \in 0 .. 0 |-> p[k]] /\ p[0] = Step(0, 0)  OBVIOUS
        <2> HIDE DEF p
        <2>2. p[0] = Step(0, p[-1])  BY <2>1, <1>f
        <2>4. \A left \in 1 .. 0 : p[left] = Step(left, p[left - 1])  OBVIOUS
        <2>3. WalkOf(key, value, proof, 0, p)  BY <1>0, <2>1, <2>2, <2>4
        <2> QED  BY <2>3
    <1>2. ASSUME NEW m \in 0 .. n - 1, m \in S PROVE m + 1 \in S
        <2>1. PICK p : WalkOf(key, value, proof, m, p)  BY <1>2
        <2> DEFINE q == [k \in 0 .. m + 1 |-> IF k <= m THEN p[k] ELSE Step(m + 1, p[m])]
        <2>2. q = [k \in 0 .. m + 1 |-> q[k]]  OBVIOUS
        <2>3. q[0] = Step(0, q[-1])
            <3>1. q[0] = p[0]  OBVIOUS
            <3> HIDE DEF q
            <3> QED  BY <1>0, <2>1, <3>1, <1>f
        <2>4. ASSUME NEW k \in 1 .. m + 1 PROVE q[k] = Step(k, q[k - 1])
            <3>1. k - 1 \in 0 .. m /\ q[k - 1] = p[k - 1]  OBVIOUS
            <3>2. CASE k = m + 1
                <4>1. q[k] = Step(m + 1, p[m]) /\ k - 1 = m  BY <3>2
                <4> QED  BY <3>1, <3>2, <4>1
            <3>3. CASE k # m + 1
                <4>1. k \in 1 .. m /\ q[k] = p[k]  BY <3>3
                <4>2. p[k] = Step(k, p[k - 1])
                    <5> HIDE DEF q
                    <5> QED  BY <1>0, <2>1, <4>1
                <4> QED  BY <3>1, <4>1, <4>2
            <3> QED  BY <3>2, <3>3
        <2>5. WalkOf(key, value, proof, m + 1, q)
            <3> HIDE DEF q
            <3> QED  BY <1>0, <2>2, <2>3, <2>4
        <2>6. m + 1 \in 0 .. n  OBVIOUS
        <2> QED  BY <2>5, <2>6
    <1>3. 0 .. n \subseteq S
        <2> HIDE DEF S
        <2> QED  BY <1>1, <1>2, IntervalInduction
    <1> QED  BY <1>3

\* Verify is where this walk ends.
LEMMA VerifyIs ==
    ASSUME NEW key, NEW value, NEW proof
    PROVE  \E p : WalkOf(key, value, proof, KeyLength, p) /\ Verify(key, value, proof) = p[KeyLength]
    <1> DEFINE Step(left, before) == StepOf(key, value, proof, left, before)
               Is(g) == g = [left \in 0 .. KeyLength |-> Step(left, g[left - 1])]
               from == CHOOSE g : Is(g)
    <1>0. \A p, m : WalkOf(key, value, proof, m, p)
                      <=> /\ p = [left \in 0 .. m |-> p[left]]
                          /\ p[0] = Step(0, p[-1])
                          /\ \A left \in 1 .. m : p[left] = Step(left, p[left - 1])
        BY DEF WalkOf
    <1>1. KeyLength \in Nat  BY StateProofsAssumption
    <1>4. Verify(key, value, proof) = from[KeyLength]  BY DEF Verify, from, Is, StepOf, HashOf
    <1> HIDE DEF Step
    <1>2. \E g : Is(g)
        <2>1. PICK p : WalkOf(key, value, proof, KeyLength, p)  BY <1>1, WalkOfExists
        <2> DEFINE h == [left \in 0 .. KeyLength |-> Step(left, p[left - 1])]
        <2>2. \A k \in 0 .. KeyLength : p[k] = h[k]
            <3>1. h[0] = Step(0, p[-1]) /\ \A k \in 1 .. KeyLength : h[k] = Step(k, p[k - 1])
                BY <1>1
            <3> HIDE DEF h
            <3>2. p[0] = h[0] /\ \A k \in 1 .. KeyLength : p[k] = h[k]  BY <1>0, <2>1, <3>1
            <3>3. \A k \in 0 .. KeyLength : k = 0 \/ k \in 1 .. KeyLength  BY <1>1
            <3> QED  BY <3>2, <3>3
        <2>3. p = [k \in 0 .. KeyLength |-> p[k]] /\ h = [k \in 0 .. KeyLength |-> h[k]]
            BY <1>0, <2>1
        <2>4. p = h
            <3> HIDE DEF h
            <3> QED  BY <2>2, <2>3
        <2> QED  BY <2>4
    <1>3. Is(from)  BY <1>2
    <1> HIDE DEF from
    <1>5. WalkOf(key, value, proof, KeyLength, from)
        <2> DEFINE h == [left \in 0 .. KeyLength |-> Step(left, from[left - 1])]
        <2>1. from = h  BY <1>3
        <2>2. h = [k \in 0 .. KeyLength |-> h[k]] /\ h[0] = Step(0, from[-1])  BY <1>1
        <2>3. \A k \in 1 .. KeyLength : h[k] = Step(k, from[k - 1])  BY <1>1
        <2> HIDE DEF h
        <2> QED  BY <1>0, <2>1, <2>2, <2>3
    <1> QED  BY <1>4, <1>5

\* The first step, and the others.
LEMMA StepsOf ==
    ASSUME NEW key, NEW value, NEW proof, NEW p, WalkOf(key, value, proof, KeyLength, p)
    PROVE  /\ p[0] <=> HashOf(key, proof, KeyLength) = value
           /\ \A left \in 1 .. KeyLength :
                LET depth == KeyLength - left
                    node == proof[depth + 1]
                    Leads == node.children[key[depth + 1]] # NoValue
                IN p[left] <=>
                     /\ depth + 1 \in DOMAIN proof
                     /\ depth > 0 => HashOf(key, proof, depth) = RadixHash(node)
                     /\ node.branch /\ Leads => p[left - 1]
                     /\ node.branch /\ ~Leads => value = NoValue
                     /\ ~node.branch => IF node.rest = SubSeq(key, depth + 1, KeyLength)
                                        THEN value # NoValue /\ node.value = value
                                        ELSE value = NoValue
    <1>1. KeyLength \in Nat \ {0} /\ KeyLength - 0 = KeyLength  BY StateProofsAssumption
    <1>2. p[0] <=> HashOf(key, proof, KeyLength) = value  BY <1>1 DEF WalkOf, StepOf
    <1>3. ASSUME NEW left \in 1 .. KeyLength
          PROVE  LET depth == KeyLength - left
                     node == proof[depth + 1]
                     Leads == node.children[key[depth + 1]] # NoValue
                 IN p[left] <=>
                     /\ depth + 1 \in DOMAIN proof
                     /\ depth > 0 => HashOf(key, proof, depth) = RadixHash(node)
                     /\ node.branch /\ Leads => p[left - 1]
                     /\ node.branch /\ ~Leads => value = NoValue
                     /\ ~node.branch => IF node.rest = SubSeq(key, depth + 1, KeyLength)
                                        THEN value # NoValue /\ node.value = value
                                        ELSE value = NoValue
        <2>0. p[left] = StepOf(key, value, proof, left, p[left - 1])  BY DEF WalkOf
        <2>1. left # 0 /\ p[left] = StepOf(key, value, proof, left, p[left - 1])  BY <1>1, <2>0
        <2> DEFINE depth == KeyLength - left
                   node == proof[depth + 1]
                   Leads == node.children[key[depth + 1]] # NoValue
                   Throws == ~(depth + 1 \in DOMAIN proof)
                   Hashed == depth > 0 => HashOf(key, proof, depth) = RadixHash(node)
                   Ends == IF node.rest = SubSeq(key, depth + 1, KeyLength)
                           THEN value # NoValue /\ node.value = value
                           ELSE value = NoValue
        <2>2. StepOf(key, value, proof, left, p[left - 1]) <=>
                 /\ ~Throws /\ Hashed
                 /\ CASE node.branch /\ Leads -> p[left - 1]
                      [] node.branch /\ ~Leads -> value = NoValue
                      [] OTHER -> Ends
            BY <2>1 DEF StepOf
        <2> HIDE DEF depth, node, Leads, Throws, Hashed, Ends
        <2>3. p[left] <=> /\ ~Throws /\ Hashed
                          /\ node.branch /\ Leads => p[left - 1]
                          /\ node.branch /\ ~Leads => value = NoValue
                          /\ ~node.branch => Ends
            BY <2>1, <2>2
        <2> QED  BY <2>3 DEF depth, node, Leads, Throws, Hashed, Ends
    <1> QED  BY <1>2, <1>3

\* Of no proof at all that leads to the root does the checker accept another value.
LEMMA RadixSound ==
    ASSUME NEW entries, IsEntries(entries), NEW key \in Keys, NEW value, NEW proof,
           VerifyRadixProof(key, value, proof, RadixRoot(entries))
    PROVE  value = ValueOf(entries, key)
    <1>1. KeyLength \in Nat \ {0}  BY StateProofsAssumption
    <1>2. RadixHash(proof[1]) = Slot(entries, key, 0)
        <2> DEFINE other == CHOOSE k \in Keys : TRUE
        <2>1. other \in Keys  OBVIOUS
        <2> HIDE DEF other
        <2>2. Slot(entries, other, 0) = Slot(entries, key, 0)  BY <2>1, SlotsShared
        <2>3. RadixRoot(entries) = Slot(entries, other, 0)
            <3>1. KeyLength - 0 = KeyLength  BY <1>1
            <3> QED  BY <3>1 DEF RadixRoot, Slot, other
        <2> QED  BY <2>2, <2>3 DEF VerifyRadixProof
    <1>3. PICK p : WalkOf(key, value, proof, KeyLength, p) /\ Verify(key, value, proof) = p[KeyLength]
        BY VerifyIs
    <1> DEFINE Followed(depth) == /\ Below(entries, key, depth) # {}
                                  /\ depth = 0 => RadixHash(proof[1]) = Slot(entries, key, 0)
                                  /\ depth > 0 => HashOf(key, proof, depth) = Slot(entries, key, depth)
               S == {left \in 0 .. KeyLength :
                       Followed(KeyLength - left) /\ p[left] => value = ValueOf(entries, key)}
    <1>4. 0 \in S
        <2>1. KeyLength - 0 = KeyLength /\ KeyLength > 0  BY <1>1
        <2>2. p[0] <=> HashOf(key, proof, KeyLength) = value  BY <1>3, StepsOf
        <2>3. Slot(entries, key, KeyLength) = ValueOf(entries, key)  BY SlotIs DEF ValueOf
        <2>4. 0 \in 0 .. KeyLength  BY <1>1
        <2> QED  BY <2>1, <2>2, <2>3, <2>4
    <1>5. ASSUME NEW left \in 0 .. KeyLength - 1, left \in S PROVE left + 1 \in S
        <2> DEFINE depth == KeyLength - (left + 1)
                   node == proof[depth + 1]
                   Leads == node.children[key[depth + 1]] # NoValue
        <2>1. /\ left + 1 \in 1 .. KeyLength /\ (left + 1) - 1 = left /\ depth \in 0 .. KeyLength - 1
              /\ KeyLength - left = depth + 1 /\ depth + 1 > 0 /\ depth + 1 # 0 /\ depth \in Nat
              /\ depth + 1 \in 0 .. KeyLength
              /\ left + 1 \in 0 .. KeyLength /\ (depth = 0 \/ depth > 0)
            BY <1>1
        <2>2. p[left + 1] <=>
                 /\ depth + 1 \in DOMAIN proof
                 /\ depth > 0 => HashOf(key, proof, depth) = RadixHash(node)
                 /\ node.branch /\ Leads => p[left]
                 /\ node.branch /\ ~Leads => value = NoValue
                 /\ ~node.branch => IF node.rest = SubSeq(key, depth + 1, KeyLength)
                                    THEN value # NoValue /\ node.value = value
                                    ELSE value = NoValue
            BY <1>3, <2>1, StepsOf
        <2>3. Followed(depth + 1) /\ p[left] => value = ValueOf(entries, key)
            BY <1>5, <2>1
        <2> HIDE DEF depth
        <2> SUFFICES ASSUME Followed(depth), p[left + 1] PROVE value = ValueOf(entries, key)
            BY <2>1 DEF depth
        <2>4. node = NodeOn(entries, key, depth)
            <3>1. Slot(entries, key, depth) = RadixHash(NodeOn(entries, key, depth))  BY <2>1, SlotIs
            <3>2. RadixHash(node) = Slot(entries, key, depth)
                <4>1. CASE depth = 0
                    <5>1. depth + 1 = 1  BY <4>1
                    <5> QED  BY <4>1, <5>1
                <4>2. CASE depth > 0  BY <2>2, <4>2
                <4> QED  BY <2>1, <4>1, <4>2
            <3> QED  BY <3>1, <3>2, RadixApart
        <2>5. CASE IsLeaf(entries, key, depth)
            <3>1. /\ node.branch = FALSE
                  /\ node.rest = SubSeq(key, depth + 1, KeyLength) => node.value = ValueOf(entries, key)
                  /\ node.rest # SubSeq(key, depth + 1, KeyLength) => ValueOf(entries, key) = NoValue
                BY <2>1, <2>4, <2>5, LeafIs, ZenonT(60)
            <3> HIDE DEF node
            <3> QED  BY <2>2, <3>1
        <2>6. CASE ~IsLeaf(entries, key, depth)
            <3>1. node.branch = TRUE /\ node.children[key[depth + 1]] = Slot(entries, key, depth + 1)
                BY <2>1, <2>4, <2>6, BranchIs
            <3>2. HashOf(key, proof, depth + 1) = Slot(entries, key, depth + 1)
                BY <2>1, <3>1 DEF HashOf
            <3>3. Slot(entries, key, depth + 1) = NoValue <=> Below(entries, key, depth + 1) = {}
                BY <2>1, SlotIs
            <3>4. CASE Leads
                <4>1. Below(entries, key, depth + 1) # {}  BY <3>1, <3>3, <3>4
                <4>2. Followed(depth + 1)  BY <2>1, <3>2, <4>1
                <4>3. p[left]  BY <2>2, <3>1, <3>4
                <4> QED  BY <2>3, <4>2, <4>3
            <3>5. CASE ~Leads
                <4>1. Below(entries, key, depth + 1) = {}  BY <3>1, <3>3, <3>5
                <4>2. ValueOf(entries, key) = NoValue  BY <4>1, BelowEmpty
                <4>3. value = NoValue  BY <2>2, <3>1, <3>5
                <4> QED  BY <4>2, <4>3
            <3> QED  BY <3>4, <3>5
        <2> QED  BY <2>5, <2>6
    <1>6. KeyLength \in S
        <2>1. 0 .. KeyLength \subseteq S
            <3> HIDE DEF S
            <3> QED  BY <1>1, <1>4, <1>5, IntervalInduction
        <2> QED  BY <1>1, <2>1
    <1>7. Followed(0)
        <2>1. Below(entries, key, 0) # {}  BY BelowShrinks DEF IsEntries
        <2> QED  BY <1>2, <2>1
    <1>8. KeyLength - KeyLength = 0  BY <1>1
    <1> HIDE DEF Followed
    <1> QED  BY <1>3, <1>6, <1>7, <1>8 DEF VerifyRadixProof

\* The nodes on the way to a key, down to the leaf, or to where nothing has its digits.
Reached(entries, key, depth) ==
    /\ Below(entries, key, depth) # {}
    /\ depth = 0 \/ ~IsLeaf(entries, key, depth - 1)

\* The way to a node goes by the nodes above it.
LEMMA ReachedBefore ==
    ASSUME NEW entries, NEW key, NEW depth \in Nat \ {0}, Reached(entries, key, depth)
    PROVE  Reached(entries, key, depth - 1)
    <1>1. depth - 1 \in Nat /\ (depth - 1) + 1 = depth  OBVIOUS
    <1>2. Below(entries, key, depth) \subseteq Below(entries, key, depth - 1)  BY <1>1, BelowShrinks
    <1>3. Below(entries, key, depth) # {} /\ ~IsLeaf(entries, key, depth - 1)  BY DEF Reached
    <1>4. CASE depth = 1  BY <1>2, <1>3, <1>4 DEF Reached
    <1>5. CASE depth # 1
        <2>1. (depth - 1) - 1 \in Nat /\ ((depth - 1) - 1) + 1 = depth - 1  BY <1>5
        <2>2. Below(entries, key, depth - 1) \subseteq Below(entries, key, (depth - 1) - 1)
            BY <2>1, BelowShrinks
        <2>3. ~IsLeaf(entries, key, (depth - 1) - 1)
            <3> SUFFICES ASSUME NEW k \in DOMAIN entries, Below(entries, key, (depth - 1) - 1) = {k}
                         PROVE  FALSE
                BY DEF IsLeaf
            <3>1. Below(entries, key, depth - 1) = {k}  BY <1>2, <1>3, <2>2
            <3> QED  BY <1>3, <3>1 DEF IsLeaf
        <2> QED  BY <1>2, <1>3, <2>3 DEF Reached
    <1> QED  BY <1>4, <1>5

\* A radix proof has the nodes on the way, and no others.
LEMMA ProofNodes ==
    ASSUME NEW entries, NEW key, NEW depth \in 0 .. KeyLength - 1
    PROVE  /\ depth + 1 \in DOMAIN RadixProof(entries, key) <=> Reached(entries, key, depth)
           /\ Reached(entries, key, depth) => RadixProof(entries, key)[depth + 1] = NodeOn(entries, key, depth)
    <1> DEFINE slots == RadixSlots(entries)
               Steps == {s \in 1 .. KeyLength : /\ Below(entries, key, s - 1) # {}
                                                /\ s = 1 \/ ~IsLeaf(entries, key, s - 2)}
               Node(step) == RadixNode(entries, key, step - 1, slots[KeyLength - step])
    <1>1. KeyLength \in Nat \ {0}  BY StateProofsAssumption
    <1>2. RadixProof(entries, key) = [step \in Steps |-> Node(step)]  BY DEF RadixProof
    <1>3. /\ depth + 1 \in 1 .. KeyLength /\ (depth + 1) - 1 = depth /\ (depth + 1) - 2 = depth - 1
          /\ depth + 1 = 1 <=> depth = 0
        BY <1>1
    <1>4. depth + 1 \in Steps <=> Reached(entries, key, depth)  BY <1>3 DEF Reached
    <1>5. Node(depth + 1) = NodeOn(entries, key, depth)  BY <1>3 DEF NodeOn
    <1> HIDE DEF Steps, Node
    <1> QED  BY <1>2, <1>4, <1>5

\* The checker accepts what a node proves of a key.
LEMMA RadixComplete ==
    ASSUME NEW entries, IsEntries(entries), NEW key \in Keys
    PROVE  VerifyRadixProof(key, ValueOf(entries, key), RadixProof(entries, key), RadixRoot(entries))
    <1> DEFINE value == ValueOf(entries, key)
               proof == RadixProof(entries, key)
    <1>1. KeyLength \in Nat \ {0}  BY StateProofsAssumption
    <1>2. RadixRoot(entries) = Slot(entries, key, 0)
        <2> DEFINE other == CHOOSE k \in Keys : TRUE
        <2>1. other \in Keys  OBVIOUS
        <2> HIDE DEF other
        <2>2. Slot(entries, other, 0) = Slot(entries, key, 0)  BY <2>1, SlotsShared
        <2>3. RadixRoot(entries) = Slot(entries, other, 0)
            <3>1. KeyLength - 0 = KeyLength  BY <1>1
            <3> QED  BY <3>1 DEF RadixRoot, Slot, other
        <2> QED  BY <2>2, <2>3
    <1>3. PICK p : WalkOf(key, value, proof, KeyLength, p) /\ Verify(key, value, proof) = p[KeyLength]
        BY VerifyIs
    <1>4. \A depth \in 0 .. KeyLength - 1 :
            /\ depth + 1 \in DOMAIN proof <=> Reached(entries, key, depth)
            /\ Reached(entries, key, depth) => proof[depth + 1] = NodeOn(entries, key, depth)
        BY ProofNodes
    <1>5. ASSUME NEW depth \in 1 .. KeyLength, Reached(entries, key, depth)
          PROVE  HashOf(key, proof, depth) = Slot(entries, key, depth)
        <2>1. depth - 1 \in 0 .. KeyLength - 1 /\ (depth - 1) + 1 = depth /\ depth # 0 /\ depth \in Nat \ {0}
            BY <1>1
        <2>2. Reached(entries, key, depth - 1) /\ ~IsLeaf(entries, key, depth - 1)
            BY <1>5, <2>1, ReachedBefore DEF Reached
        <2>3. proof[depth] = NodeOn(entries, key, depth - 1)  BY <1>4, <2>1, <2>2
        <2>4. NodeOn(entries, key, depth - 1).children[key[depth]] = Slot(entries, key, depth)
            BY <2>1, <2>2, BranchIs
        <2> QED  BY <2>1, <2>3, <2>4 DEF HashOf
    <1> DEFINE S == {left \in 0 .. KeyLength : Reached(entries, key, KeyLength - left) => p[left]}
    <1>6. 0 \in S
        <2>1. KeyLength - 0 = KeyLength /\ KeyLength \in 1 .. KeyLength /\ 0 \in 0 .. KeyLength  BY <1>1
        <2>2. p[0] <=> HashOf(key, proof, KeyLength) = value  BY <1>3, StepsOf
        <2>3. Slot(entries, key, KeyLength) = value  BY SlotIs DEF ValueOf
        <2> QED  BY <1>5, <2>1, <2>2, <2>3
    <1>7. ASSUME NEW left \in 0 .. KeyLength - 1, left \in S PROVE left + 1 \in S
        <2> DEFINE depth == KeyLength - (left + 1)
                   node == proof[depth + 1]
                   Leads == node.children[key[depth + 1]] # NoValue
        <2>1. /\ left + 1 \in 1 .. KeyLength /\ (left + 1) - 1 = left /\ depth \in 0 .. KeyLength - 1
              /\ KeyLength - left = depth + 1 /\ (depth + 1) - 1 = depth /\ depth + 1 # 0
              /\ left + 1 \in 0 .. KeyLength /\ (depth > 0 => depth \in 1 .. KeyLength)
              /\ depth + 1 \in 0 .. KeyLength
            BY <1>1
        <2>2. p[left + 1] <=>
                 /\ depth + 1 \in DOMAIN proof
                 /\ depth > 0 => HashOf(key, proof, depth) = RadixHash(node)
                 /\ node.branch /\ Leads => p[left]
                 /\ node.branch /\ ~Leads => value = NoValue
                 /\ ~node.branch => IF node.rest = SubSeq(key, depth + 1, KeyLength)
                                    THEN value # NoValue /\ node.value = value
                                    ELSE value = NoValue
            <3> HIDE DEF value, proof
            <3> QED  BY <1>3, <2>1, StepsOf
        <2>3. Reached(entries, key, depth + 1) => p[left]
            BY <1>7, <2>1
        <2> HIDE DEF depth, proof, value
        <2> SUFFICES ASSUME Reached(entries, key, depth) PROVE p[left + 1]
            BY <2>1 DEF depth
        <2>4. depth + 1 \in DOMAIN proof /\ node = NodeOn(entries, key, depth)  BY <1>4, <2>1
        <2>5. depth > 0 => HashOf(key, proof, depth) = RadixHash(node)
            <3>1. Slot(entries, key, depth) = RadixHash(NodeOn(entries, key, depth))
                BY <2>1, SlotIs DEF Reached
            <3> QED  BY <1>5, <2>1, <2>4, <3>1
        <2>6. CASE IsLeaf(entries, key, depth)
            <3>1. /\ node.branch = FALSE
                  /\ node.rest = SubSeq(key, depth + 1, KeyLength) => node.value = value /\ value # NoValue
                  /\ node.rest # SubSeq(key, depth + 1, KeyLength) => value = NoValue
                BY <2>1, <2>4, <2>6, LeafIs, ZenonT(60) DEF value
            <3> HIDE DEF node
            <3> QED  BY <2>2, <2>4, <2>5, <3>1
        <2>7. CASE ~IsLeaf(entries, key, depth)
            <3>1. node.branch = TRUE /\ node.children[key[depth + 1]] = Slot(entries, key, depth + 1)
                BY <2>1, <2>4, <2>7, BranchIs
            <3>3. Slot(entries, key, depth + 1) = NoValue <=> Below(entries, key, depth + 1) = {}
                BY <2>1, SlotIs
            <3>4. Leads => p[left]
                <4>1. Leads => Reached(entries, key, depth + 1)  BY <2>1, <2>7, <3>1, <3>3 DEF Reached
                <4> QED  BY <2>3, <4>1
            <3>5. ~Leads => value = NoValue  BY <3>1, <3>3, BelowEmpty DEF value
            <3> HIDE DEF node, Leads
            <3> QED  BY <2>2, <2>4, <2>5, <3>1, <3>4, <3>5
        <2> QED  BY <2>6, <2>7
    <1>8. KeyLength \in S
        <2>1. 0 .. KeyLength \subseteq S
            <3> HIDE DEF S
            <3> QED  BY <1>1, <1>6, <1>7, IntervalInduction
        <2> QED  BY <1>1, <2>1
    <1>9. Reached(entries, key, 0)
        <2>1. Below(entries, key, 0) # {}  BY BelowShrinks DEF IsEntries
        <2> QED  BY <2>1 DEF Reached
    <1>10. KeyLength - KeyLength = 0 /\ 0 \in 0 .. KeyLength - 1 /\ 0 + 1 = 1  BY <1>1
    <1>11. Verify(key, value, proof)  BY <1>3, <1>8, <1>9, <1>10
    <1>12. RadixHash(proof[1]) = Slot(entries, key, 0)
        <2>1. proof[1] = NodeOn(entries, key, 0)  BY <1>4, <1>9, <1>10
        <2>2. Slot(entries, key, 0) = RadixHash(NodeOn(entries, key, 0))  BY <1>9, <1>10, SlotIs DEF Reached
        <2> QED  BY <2>1, <2>2
    <1> QED  BY <1>2, <1>11, <1>12 DEF VerifyRadixProof

\* All that is proved of a radix tree (radixChecker.ts:12-52), for any entries.
LEMMA RadixTreesVerify ==
    ASSUME NEW keys \in SUBSET Keys, keys # {}
    PROVE  RadixVerifies(keys)
    <1> DEFINE entries == [key \in keys |-> <<"value", key>>]
               root == RadixRoot(entries)
               ValueAt(key) == IF key \in keys THEN entries[key] ELSE NoValue
    <1>1. DOMAIN entries = keys  OBVIOUS
    <1>2. \A k \in keys : entries[k] # NoValue
        <2>1. \A k : Len(<<"value", k>>) = 2 /\ Len(NoValue) = 1  BY DEF NoValue
        <2>2. \A k : <<"value", k>> # NoValue  BY <2>1
        <2> QED  BY <2>2
    <1> HIDE DEF entries
    <1>3. IsEntries(entries)  BY <1>1, <1>2 DEF IsEntries
    <1>4. \A key : ValueOf(entries, key) = ValueAt(key)  BY <1>1 DEF ValueOf
    <1>5. ASSUME NEW other \in Keys
          PROVE  /\ VerifyRadixProof(other, ValueAt(other), RadixProof(entries, other), root)
                 /\ \A key \in Keys : \A value \in {<<"value", k>> : k \in Keys} \cup {NoValue} :
                      VerifyRadixProof(key, value, RadixProof(entries, other), root) => value = ValueAt(key)
        <2>1. VerifyRadixProof(other, ValueAt(other), RadixProof(entries, other), root)
            BY <1>3, <1>4, RadixComplete
        <2>2. ASSUME NEW key \in Keys, NEW value, VerifyRadixProof(key, value, RadixProof(entries, other), root)
              PROVE  value = ValueAt(key)
            BY <1>3, <1>4, <2>2, RadixSound
        <2> QED  BY <2>1, <2>2
    <1> QED  BY <1>5 DEF RadixVerifies, entries

\* A chain that is proved has its microblocks, and a tree some of the keys.
ProvedInput ==
    \/ input \in [of : {"chain"}, height : 1 .. MaxMicroblocks]
    \/ input \in [of : {"radix"}, keys : SUBSET Keys]

\* The invariant: chains have microblocks, and trees entries of the right keys.
LEMMA ProvedInputHolds ==
    StateProofsSpec => []ProvedInput
    <1>1. NothingProved => ProvedInput
        <2>1. 1 \in 1 .. MaxMicroblocks  BY StateProofsAssumption
        <2> QED  BY <2>1 DEF NothingProved, ProvedInput
    <1>2. ProvedInput /\ [AddMicroblock \/ AddEntry]_input => ProvedInput'
        <2> SUFFICES ASSUME ProvedInput, [AddMicroblock \/ AddEntry]_input
                     PROVE  ProvedInput'
            OBVIOUS
        <2>1. CASE AddMicroblock
            <3>1. input \in [of : {"chain"}, height : 1 .. MaxMicroblocks]  BY <2>1 DEF ProvedInput, AddMicroblock
            <3>2. input.height + 1 \in 1 .. MaxMicroblocks
                  /\ input' = [input EXCEPT !.height = input.height + 1]
                BY <2>1, <3>1, StateProofsAssumption DEF AddMicroblock
            <3> QED  BY <3>1, <3>2 DEF ProvedInput
        <2>2. CASE AddEntry
            <3>1. input \in [of : {"radix"}, keys : SUBSET Keys]  BY <2>2 DEF ProvedInput, AddEntry
            <3>2. PICK key \in Keys : input' = [input EXCEPT !.keys = input.keys \cup {key}]
                BY <2>2 DEF AddEntry
            <3>3. input.keys \cup {key} \in SUBSET Keys  BY <3>1
            <3> QED  BY <3>1, <3>2, <3>3 DEF ProvedInput
        <2>3. CASE UNCHANGED input  BY <2>3 DEF ProvedInput
        <2> QED  BY <2>1, <2>2, <2>3
    <1> QED  BY <1>1, <1>2, PTL DEF StateProofsSpec

\* What a node proves of its state is accepted, and nothing else, for chains and trees of
\* any size: each microblock with the siblings the tree gives, and none in the place of
\* another; each key with its value, or as absent.
THEOREM StateProofsAreRight ==
    StateProofsSpec => []StateProofsVerify
    <1>1. ProvedInput => StateProofsVerify
        <2> SUFFICES ASSUME ProvedInput PROVE StateProofsVerify
            OBVIOUS
        <2>1. input.of = "chain" => ChainVerifies(input.height)
            <3>1. input.of = "chain" => input.height \in Nat \ {0}  BY StateProofsAssumption DEF ProvedInput
            <3> QED  BY <3>1, ChainsVerify
        <2>2. input.of = "radix" /\ input.keys # {} => RadixVerifies(input.keys)
            <3>1. input.of = "radix" => input.keys \in SUBSET Keys  BY DEF ProvedInput
            <3> QED  BY <3>1, RadixTreesVerify
        <2> QED  BY <2>1, <2>2 DEF StateProofsVerify
    <1> QED  BY <1>1, ProvedInputHolds, PTL

-----------------------------------------------------------------------------
(* The tree of a channel *)

\* A row is as wide as the place of its last node says, halved row by row.
LEMMA WidthsAre ==
    ASSUME NEW n \in Nat \ {0}
    PROVE  \A row \in 1 .. n : RowWidths(n)[row] = Shifted(n - 1, row - 1) + 1
    <1> DEFINE Is(g) == g = [row \in 1 .. n |-> IF row = 1 THEN n ELSE (g[row - 1] + 1) \div 2]
               widths == CHOOSE g : Is(g)
               shifts == [row \in 1 .. n |-> Shifted(n - 1, row - 1) + 1]
    <1>1. n - 1 \in Nat  OBVIOUS
    <1>2. Shifted(n - 1, 0) = n - 1  BY <1>1, ShiftedOneMore
    <1>3. ASSUME NEW row \in 2 .. n
          PROVE  /\ Shifted(n - 1, row - 2) \in Nat
                 /\ Shifted(n - 1, row - 1) = Shifted(n - 1, row - 2) \div 2
        <2>1. row - 2 \in Nat /\ (row - 2) + 1 = row - 1  OBVIOUS
        <2> QED  BY <1>1, <2>1, ShiftedOneMore
    <1>4. Is(shifts)
        <2> DEFINE h == [row \in 1 .. n |-> IF row = 1 THEN n ELSE (shifts[row - 1] + 1) \div 2]
        <2>1. ASSUME NEW row \in 1 .. n PROVE shifts[row] = h[row]
            <3>1. CASE row = 1
                <4>1. shifts[row] = Shifted(n - 1, 0) + 1  BY <3>1
                <4> QED  BY <1>2, <3>1, <4>1
            <3>2. CASE row # 1
                <4>1. row \in 2 .. n /\ row - 1 \in 1 .. n /\ (row - 1) - 1 = row - 2  BY <3>2
                <4>2. shifts[row - 1] = Shifted(n - 1, row - 2) + 1  BY <4>1
                <4>3. h[row] = (Shifted(n - 1, row - 2) + 1 + 1) \div 2  BY <3>2, <4>2
                <4>4. shifts[row] = Shifted(n - 1, row - 2) \div 2 + 1  BY <1>3, <4>1
                <4>5. Shifted(n - 1, row - 2) \in Nat  BY <1>3, <4>1
                <4> QED  BY <4>3, <4>4, <4>5
            <3> QED  BY <3>1, <3>2
        <2>2. shifts = [row \in 1 .. n |-> shifts[row]] /\ h = [row \in 1 .. n |-> h[row]]  OBVIOUS
        <2> HIDE DEF shifts
        <2>3. shifts = h
            <3> HIDE DEF h
            <3> QED  BY <2>1, <2>2
        <2> QED  BY <2>3
    <1>5. Is(widths)
        <2> HIDE DEF shifts
        <2> QED  BY <1>4
    <1>6. RowWidths(n) = widths  BY DEF RowWidths, widths, Is
    <1> HIDE DEF widths
    <1>7. widths[1] = n /\ \A row \in 2 .. n : widths[row] = (widths[row - 1] + 1) \div 2
        <2> DEFINE h == [row \in 1 .. n |-> IF row = 1 THEN n ELSE (widths[row - 1] + 1) \div 2]
        <2>1. widths = h  BY <1>5
        <2>2. h[1] = n /\ \A row \in 2 .. n : h[row] = (widths[row - 1] + 1) \div 2  OBVIOUS
        <2> HIDE DEF h
        <2> QED  BY <2>1, <2>2
    <1> DEFINE S == {k \in 0 .. n - 1 : widths[k + 1] = Shifted(n - 1, k) + 1}
    <1>8. 0 \in S
        <2>1. 0 + 1 = 1  OBVIOUS
        <2> QED  BY <1>1, <1>2, <1>7, <2>1
    <1>9. ASSUME NEW k \in 0 .. (n - 1) - 1, k \in S PROVE k + 1 \in S
        <2>1. /\ (k + 1) + 1 \in 2 .. n /\ ((k + 1) + 1) - 1 = k + 1 /\ k + 1 \in 0 .. n - 1 /\ k \in Nat
              /\ ((k + 1) + 1) - 2 = k
            OBVIOUS
        <2>2. widths[(k + 1) + 1] = (widths[k + 1] + 1) \div 2  BY <1>7, <2>1
        <2>3. Shifted(n - 1, k) \in Nat /\ Shifted(n - 1, k + 1) = Shifted(n - 1, k) \div 2
            BY <1>1, <2>1, ShiftedOneMore
        <2>4. widths[k + 1] = Shifted(n - 1, k) + 1  BY <1>9
        <2> HIDE DEF widths
        <2>5. widths[(k + 1) + 1] = Shifted(n - 1, k + 1) + 1  BY <2>2, <2>3, <2>4
        <2> QED  BY <2>1, <2>5
    <1>10. 0 .. n - 1 \subseteq S
        <2> HIDE DEF S
        <2> QED  BY <1>1, <1>8, <1>9, IntervalInduction
    <1>11. ASSUME NEW row \in 1 .. n PROVE widths[row] = Shifted(n - 1, row - 1) + 1
        <2>1. row - 1 \in 0 .. n - 1 /\ (row - 1) + 1 = row  OBVIOUS
        <2>2. row - 1 \in S  BY <1>10, <2>1
        <2> QED  BY <2>1, <2>2
    <1> QED  BY <1>6, <1>11

\* The widths of the rows, from the leaves to the root.
Rows(n, widths, high) ==
    /\ high \in 1 .. n
    /\ widths[1] = n /\ widths[high] = 1
    /\ \A row \in 1 .. high : widths[row] \in Nat \ {0} /\ PaddedWidth(widths[row]) \in Nat \ {0}
    /\ PaddedWidth(widths[high]) = 1
    /\ \A row \in 1 .. high - 1 : PaddedWidth(widths[row]) = 2 * widths[row + 1]

\* Of any number of leaves: some row has one node, and the rows below have two children, once
\* they are padded, for each node of the next.
LEMMA RowsOfTree ==
    ASSUME NEW n \in Nat \ {0}
    PROVE  Rows(n, RowWidths(n), Height(n))
    <1> DEFINE widths == RowWidths(n)
               high == BitLength(n - 1) + 1
               First(row) == widths[row] = 1 /\ \A lower \in 1 .. row - 1 : widths[lower] # 1
    <1>1. n - 1 \in Nat  OBVIOUS
    <1>2. /\ BitLength(n - 1) \in 0 .. n - 1 /\ Shifted(n - 1, BitLength(n - 1)) = 0
          /\ \A fewer \in 0 .. BitLength(n - 1) - 1 : Shifted(n - 1, fewer) # 0
        BY <1>1, BitLengthIs
    <1>3. high \in 1 .. n /\ high - 1 = BitLength(n - 1)  BY <1>2
    <1>4. \A row \in 1 .. n : widths[row] = Shifted(n - 1, row - 1) + 1  BY WidthsAre
    <1>5. \A bits \in Nat : Shifted(n - 1, bits) \in Nat /\ Shifted(n - 1, bits + 1) = Shifted(n - 1, bits) \div 2
        BY <1>1, ShiftedOneMore
    <1> HIDE DEF high, widths
    <1>6. First(high)
        <2>1. widths[high] = 1  BY <1>2, <1>3, <1>4
        <2>2. ASSUME NEW lower \in 1 .. high - 1 PROVE widths[lower] # 1
            <3>1. lower \in 1 .. n /\ lower - 1 \in 0 .. BitLength(n - 1) - 1 /\ lower - 1 \in Nat  BY <1>3
            <3>2. Shifted(n - 1, lower - 1) \in Nat /\ Shifted(n - 1, lower - 1) # 0  BY <1>2, <1>5, <3>1
            <3> QED  BY <1>4, <3>1, <3>2
        <2> QED  BY <2>1, <2>2
    <1>7. ASSUME NEW row \in 1 .. n, First(row) PROVE row = high
        <2>1. row < high => widths[row] # 1
            <3>1. row < high => row \in 1 .. high - 1  BY <1>3
            <3> QED  BY <1>6, <3>1
        <2>2. high < row => widths[high] # 1
            <3>1. high < row => high \in 1 .. row - 1  BY <1>3
            <3> QED  BY <1>7, <3>1
        <2> QED  BY <1>3, <1>6, <1>7, <2>1, <2>2
    <1>8. Height(n) = high
        <2>1. Height(n) = CHOOSE row \in 1 .. n : First(row)  BY DEF Height, widths
        <2> HIDE DEF First
        <2> QED  BY <1>3, <1>6, <1>7, <2>1
    <1>9. ASSUME NEW row \in 1 .. n
          PROVE  /\ row - 1 \in Nat /\ Shifted(n - 1, row - 1) \in Nat
                 /\ widths[row] = Shifted(n - 1, row - 1) + 1
        <2>1. row - 1 \in Nat  OBVIOUS
        <2> QED  BY <1>4, <1>5, <2>1
    <1>10. \A w \in Nat \ {0} : PaddedWidth(w) \in Nat \ {0}  BY DEF PaddedWidth
    <1>11. widths[1] = n
        <2>1. Shifted(n - 1, 0) = n - 1  BY <1>1, ShiftedOneMore
        <2>2. 1 \in 1 .. n /\ 1 - 1 = 0  OBVIOUS
        <2>3. widths[1] = Shifted(n - 1, 0) + 1  BY <1>4, <2>2
        <2> QED  BY <2>1, <2>3
    <1>12. ASSUME NEW row \in 1 .. high PROVE widths[row] \in Nat \ {0}
        <2>1. row \in 1 .. n  BY <1>3
        <2> QED  BY <1>9, <2>1
    <1>13. ASSUME NEW row \in 1 .. high - 1 PROVE PaddedWidth(widths[row]) = 2 * widths[row + 1]
        <2>1. row \in 1 .. n /\ row + 1 \in 1 .. n /\ (row + 1) - 1 = (row - 1) + 1 /\ row - 1 \in Nat  BY <1>3
        <2> DEFINE left == Shifted(n - 1, row - 1)
        <2>2. left \in Nat /\ widths[row] = left + 1  BY <1>9, <2>1
        <2>3. widths[row + 1] = Shifted(n - 1, (row - 1) + 1) + 1  BY <1>4, <2>1
        <2>4. widths[row + 1] = left \div 2 + 1  BY <1>5, <2>1, <2>3
        <2>5. widths[row] # 1  BY <1>6
        <2> HIDE DEF left
        <2>6. left # 0  BY <2>2, <2>5
        <2>7. PaddedWidth(left + 1) = 2 * (left \div 2 + 1)  BY <2>2, <2>6 DEF PaddedWidth
        <2> QED  BY <2>2, <2>4, <2>7
    <1>14. PaddedWidth(1) = 1  BY DEF PaddedWidth
    <1>15. widths[high] = 1  BY <1>6
    <1> QED  BY <1>3, <1>8, <1>10, <1>11, <1>12, <1>13, <1>14, <1>15 DEF Rows, widths

\* The nodes of a row of which both children are in a set, in the next.
BothIn(width, below) == {i \in 1 .. width : {2 * i - 1, 2 * i} \subseteq below}

UnknownUpTo(unknown, widths, m, rows) ==
    /\ rows = [row \in 1 .. m |-> rows[row]]
    /\ \A row \in 1 .. m : rows[row] = IF row = 1 THEN unknown ELSE BothIn(widths[row], rows[row - 1])

\* The unknown nodes can be computed, row by row.
LEMMA UnknownExist ==
    ASSUME NEW unknown, NEW widths, NEW high \in Nat
    PROVE  \E rows : UnknownUpTo(unknown, widths, high, rows)
    <1> DEFINE S == {m \in 0 .. high : \E rows : UnknownUpTo(unknown, widths, m, rows)}
    <1>1. 0 \in S
        <2>1. UnknownUpTo(unknown, widths, 0, [row \in 1 .. 0 |-> unknown])  BY DEF UnknownUpTo
        <2> QED  BY <2>1
    <1>2. ASSUME NEW m \in 0 .. high - 1, m \in S PROVE m + 1 \in S
        <2>1. PICK p : UnknownUpTo(unknown, widths, m, p)  BY <1>2
        <2> DEFINE last == IF m + 1 = 1 THEN unknown ELSE BothIn(widths[m + 1], p[m])
                   q == [row \in 1 .. m + 1 |-> IF row <= m THEN p[row] ELSE last]
        <2>2. q = [row \in 1 .. m + 1 |-> q[row]]  OBVIOUS
        <2>3. ASSUME NEW row \in 1 .. m + 1
              PROVE  q[row] = IF row = 1 THEN unknown ELSE BothIn(widths[row], q[row - 1])
            <3>1. row # 1 => row - 1 \in 1 .. m /\ q[row - 1] = p[row - 1]  OBVIOUS
            <3>2. CASE row = m + 1
                <4>1. q[row] = last /\ row - 1 = m  BY <3>2
                <4> HIDE DEF q
                <4> QED  BY <3>1, <3>2, <4>1
            <3>3. CASE row # m + 1
                <4>1. row \in 1 .. m /\ q[row] = p[row]  BY <3>3
                <4> HIDE DEF q
                <4> QED  BY <2>1, <3>1, <4>1 DEF UnknownUpTo
            <3> QED  BY <3>2, <3>3
        <2>4. UnknownUpTo(unknown, widths, m + 1, q)
            <3> HIDE DEF q
            <3> QED  BY <2>2, <2>3 DEF UnknownUpTo
        <2>5. m + 1 \in 0 .. high  OBVIOUS
        <2> QED  BY <2>4, <2>5
    <1>3. 0 .. high \subseteq S
        <2> HIDE DEF S
        <2> QED  BY <1>1, <1>2, IntervalInduction
    <1> QED  BY <1>3

\* The unknown nodes of the rows: the leaves, and the nodes over two of them.
UnknownChain(n, widths, high, unknown, rows) ==
    /\ rows[1] = unknown
    /\ \A row \in 2 .. high : rows[row] = BothIn(widths[row], rows[row - 1])
    /\ \A row \in 1 .. high : rows[row] \subseteq 1 .. widths[row]

\* UnknownRows is these rows.
LEMMA UnknownRowsAre ==
    ASSUME NEW n \in Nat \ {0}, NEW unknown \in SUBSET (1 .. n)
    PROVE  UnknownChain(n, RowWidths(n), Height(n), unknown, UnknownRows(n, unknown))
    <1> DEFINE high == Height(n)
               widths == RowWidths(n)
               Is(g) == g = [row \in 1 .. high |->
                               IF row = 1 THEN unknown \cap 1 .. n
                               ELSE {i \in 1 .. widths[row] : {2 * i - 1, 2 * i} \subseteq g[row - 1]}]
               rows == CHOOSE g : Is(g)
    <1>1. Rows(n, widths, high)  BY RowsOfTree
    <1>2. UnknownRows(n, unknown) = rows  BY DEF UnknownRows, rows, Is
    <1>3. high \in 1 .. n /\ high \in Nat /\ widths[1] = n  BY <1>1 DEF Rows
    <1> HIDE DEF high, widths
    <1>4. \A g : Is(g) <=> g = [row \in 1 .. high |-> IF row = 1 THEN unknown ELSE BothIn(widths[row], g[row - 1])]
        BY DEF BothIn
    <1> HIDE DEF Is
    <1>5. \E g : Is(g)
        <2>1. PICK p : UnknownUpTo(unknown, widths, high, p)  BY <1>3, UnknownExist
        <2> DEFINE h == [row \in 1 .. high |-> IF row = 1 THEN unknown ELSE BothIn(widths[row], p[row - 1])]
        <2>2. p = [row \in 1 .. high |-> p[row]] /\ h = [row \in 1 .. high |-> h[row]]  BY <2>1 DEF UnknownUpTo
        <2>3. \A row \in 1 .. high : p[row] = h[row]  BY <2>1 DEF UnknownUpTo
        <2>4. p = h
            <3> HIDE DEF h
            <3> QED  BY <2>2, <2>3
        <2> QED  BY <1>4, <2>4
    <1>6. Is(rows)  BY <1>5
    <1> HIDE DEF rows
    <1>7. \A row \in 1 .. high : rows[row] = IF row = 1 THEN unknown ELSE BothIn(widths[row], rows[row - 1])
        <2> DEFINE h == [row \in 1 .. high |-> IF row = 1 THEN unknown ELSE BothIn(widths[row], rows[row - 1])]
        <2>1. rows = h  BY <1>4, <1>6
        <2>2. \A row \in 1 .. high : h[row] = IF row = 1 THEN unknown ELSE BothIn(widths[row], rows[row - 1])
            OBVIOUS
        <2> HIDE DEF h
        <2> QED  BY <2>1, <2>2
    <1>8. rows[1] = unknown
        <2>1. 1 \in 1 .. high  BY <1>3
        <2> QED  BY <1>7, <2>1
    <1>9. \A row \in 2 .. high : rows[row] = BothIn(widths[row], rows[row - 1])
        <2>1. \A row \in 2 .. high : row \in 1 .. high /\ row # 1  BY <1>3
        <2> QED  BY <1>7, <2>1
    <1>10. ASSUME NEW row \in 1 .. high PROVE rows[row] \subseteq 1 .. widths[row]
        <2>1. CASE row = 1  BY <1>3, <1>8, <2>1
        <2>2. CASE row # 1
            <3>1. row \in 2 .. high  BY <1>3, <2>2
            <3> QED  BY <1>9, <3>1 DEF BothIn
        <2> QED  BY <2>1, <2>2
    <1> QED  BY <1>2, <1>8, <1>9, <1>10 DEF UnknownChain, high, widths

\* Nothing is unknown over leaves that are all known.
LEMMA NothingUnknown ==
    ASSUME NEW n \in Nat \ {0}
    PROVE  UnknownChain(n, RowWidths(n), Height(n), {}, [row \in 1 .. Height(n) |-> {}])
    <1> DEFINE none == [row \in 1 .. Height(n) |-> {}]
    <1>1. Height(n) \in Nat \ {0}  BY RowsOfTree DEF Rows
    <1>2. \A row \in 1 .. Height(n) : none[row] = {}  OBVIOUS
    <1> HIDE DEF none
    <1>3. \A row \in 2 .. Height(n) : row \in 1 .. Height(n) /\ row - 1 \in 1 .. Height(n)  BY <1>1
    <1>4. \A width : BothIn(width, {}) = {}  BY DEF BothIn
    <1>5. none[1] = {}  BY <1>1, <1>2
    <1>6. \A row \in 2 .. Height(n) : none[row] = BothIn(RowWidths(n)[row], none[row - 1])
        BY <1>2, <1>3, <1>4
    <1> QED  BY <1>2, <1>5, <1>6 DEF UnknownChain, none

Places == Nat \X Nat

\* The places of the topmost unknown nodes of a row.
LEMMA PlacesOfRow ==
    ASSUME NEW row \in Nat, NEW width \in Nat, NEW unknownRow \in SUBSET (1 .. width)
    PROVE  LET places == Among([i \in 1 .. width |-> <<row, i>>], {row} \X Singles(unknownRow))
           IN /\ places \in Seq(Places)
              /\ ToSet(places) = {<<row, i>> : i \in Singles(unknownRow)}
    <1> DEFINE all == [i \in 1 .. width |-> <<row, i>>]
               set == {row} \X Singles(unknownRow)
    <1>1. all \in Seq(Places)
        <2>1. \A i \in 1 .. width : <<row, i>> \in Places  BY DEF Places
        <2>2. all \in [1 .. width -> Places]  BY <2>1
        <2> QED  BY <2>2
    <1>2. Among(all, set) \in Seq(Places) /\ ToSet(Among(all, set)) = ToSet(all) \cap set
        <2> HIDE DEF all, set
        <2> QED  BY <1>1, AmongElements
    <1>3. ToSet(all) = {<<row, i>> : i \in 1 .. width}  BY DEF ToSet
    <1>4. Singles(unknownRow) \subseteq 1 .. width  BY DEF Singles
    <1>5. {<<row, i>> : i \in 1 .. width} \cap set = {<<row, i>> : i \in Singles(unknownRow)}  BY <1>4
    <1> QED  BY <1>2, <1>3, <1>5

IsPlaceOf(place, high, rows) == \E row \in 1 .. high : \E i \in Singles(rows[row]) : place = <<row, i>>

\* Witnesses are asked for at the topmost unknown nodes of every row.
LEMMA PositionsAre ==
    ASSUME NEW n \in Nat \ {0}, NEW unknown \in SUBSET (1 .. n)
    PROVE  /\ GetWitnessPositions(n, unknown) \in Seq(Places)
           /\ \A place : place \in ToSet(GetWitnessPositions(n, unknown))
                           <=> IsPlaceOf(place, Height(n), UnknownRows(n, unknown))
    <1> DEFINE high == Height(n)
               widths == RowWidths(n)
               rows == UnknownRows(n, unknown)
               More(row) == Among([i \in 1 .. widths[row] |-> <<row, i>>], {row} \X Singles(rows[row]))
               T == Seq(Places)
               F == [row \in 1 .. high |-> [s \in T |-> s \o More(row)]]
               Is(g) == g = [row \in 0 .. high |-> IF row = 0 THEN <<>> ELSE g[row - 1] \o More(row)]
               upTo == CHOOSE g : Is(g)
    <1>1. GetWitnessPositions(n, unknown) = upTo[high]  BY DEF GetWitnessPositions, upTo, Is
    <1>2. high \in Nat /\ \A row \in 1 .. high : widths[row] \in Nat  BY RowsOfTree DEF Rows
    <1>3. \A row \in 1 .. high : rows[row] \subseteq 1 .. widths[row]  BY UnknownRowsAre DEF UnknownChain
    <1> HIDE DEF high, widths, rows
    <1>4. ASSUME NEW row \in 1 .. high
          PROVE  More(row) \in T /\ ToSet(More(row)) = {<<row, i>> : i \in Singles(rows[row])}
        <2>1. row \in Nat /\ widths[row] \in Nat /\ rows[row] \in SUBSET (1 .. widths[row])
            BY <1>2, <1>3
        <2> QED  BY <2>1, PlacesOfRow
    <1> HIDE DEF More
    <1>5. \A s \in T, row \in 1 .. high : s \o More(row) \in T  BY <1>4
    <1>6. \E g : Is(g)
        <2>1. F \in [1 .. high -> [T -> T]]
            <3>1. \A row \in 1 .. high : [s \in T |-> s \o More(row)] \in [T -> T]
                <4> HIDE DEF T
                <4> QED  BY <1>5
            <3> QED  BY <3>1
        <2>2. <<>> \in T  OBVIOUS
        <2>3. PICK p : Iterates(p, high, T, <<>>, F)
            <3> HIDE DEF F, T
            <3> QED  BY <1>2, <2>1, <2>2, IterationExists
        <2> DEFINE h == [row \in 0 .. high |-> IF row = 0 THEN <<>> ELSE p[row - 1] \o More(row)]
        <2>4. ASSUME NEW row \in 0 .. high PROVE p[row] = h[row]
            <3>1. CASE row = 0  BY <2>3, <3>1 DEF Iterates
            <3>2. CASE row # 0
                <4>1. row \in 1 .. high /\ row - 1 \in 0 .. high  BY <1>2, <3>2
                <4>2. p[row - 1] \in T /\ p[row] = F[row][p[row - 1]]
                    <5> HIDE DEF F, T
                    <5> QED  BY <2>3, <4>1 DEF Iterates
                <4>3. F[row][p[row - 1]] = p[row - 1] \o More(row)
                    <5> HIDE DEF T
                    <5> QED  BY <4>1, <4>2
                <4>4. h[row] = p[row - 1] \o More(row)  BY <3>2
                <4> QED  BY <4>2, <4>3, <4>4
            <3> QED  BY <3>1, <3>2
        <2>5. p = [row \in 0 .. high |-> p[row]] /\ h = [row \in 0 .. high |-> h[row]]
            BY <2>3 DEF Iterates
        <2>6. p = h
            <3> HIDE DEF h
            <3> QED  BY <2>4, <2>5
        <2> QED  BY <2>6
    <1>7. Is(upTo)
        <2> HIDE DEF Is
        <2> QED  BY <1>6
    <1> HIDE DEF upTo
    <1>8. upTo[0] = <<>> /\ \A row \in 1 .. high : upTo[row] = upTo[row - 1] \o More(row)
        <2> DEFINE h == [row \in 0 .. high |-> IF row = 0 THEN <<>> ELSE upTo[row - 1] \o More(row)]
        <2>1. upTo = h  BY <1>7
        <2>2. h[0] = <<>> /\ \A row \in 1 .. high : h[row] = upTo[row - 1] \o More(row)  BY <1>2
        <2> HIDE DEF h
        <2> QED  BY <2>1, <2>2
    <1> DEFINE Right(m) == upTo[m] \in T /\ \A place : place \in ToSet(upTo[m]) <=> IsPlaceOf(place, m, rows)
               S == {m \in 0 .. high : Right(m)}
    <1>9. 0 \in S
        <2>1. ToSet(<<>>) = {} /\ <<>> \in T  BY DEF ToSet
        <2>2. \A place : ~IsPlaceOf(place, 0, rows)  BY DEF IsPlaceOf
        <2>3. Right(0)
            <3> HIDE DEF T
            <3> QED  BY <1>8, <2>1, <2>2
        <2> QED  BY <1>2, <2>3
    <1>10. ASSUME NEW m \in 0 .. high - 1, m \in S PROVE m + 1 \in S
        <2>1. m + 1 \in 1 .. high /\ (m + 1) - 1 = m /\ m + 1 \in 0 .. high  BY <1>2
        <2>2. upTo[m + 1] = upTo[m] \o More(m + 1)  BY <1>8, <2>1
        <2>3. More(m + 1) \in T /\ ToSet(More(m + 1)) = {<<m + 1, i>> : i \in Singles(rows[m + 1])}  BY <1>4, <2>1
        <2>4. Right(m)  BY <1>10
        <2>5. upTo[m + 1] \in T /\ ToSet(upTo[m + 1]) = ToSet(upTo[m]) \cup ToSet(More(m + 1))
            BY <2>2, <2>3, <2>4, ElementsOfConcat
        <2>6. ASSUME NEW place
              PROVE  IsPlaceOf(place, m + 1, rows)
                       <=> IsPlaceOf(place, m, rows) \/ \E i \in Singles(rows[m + 1]) : place = <<m + 1, i>>
            <3>1. 1 .. m + 1 = 1 .. m \cup {m + 1}  BY <1>2
            <3> QED  BY <3>1 DEF IsPlaceOf
        <2>7. Right(m + 1)
            <3> HIDE DEF T
            <3> QED  BY <2>3, <2>4, <2>5, <2>6
        <2> QED  BY <2>1, <2>7
    <1>11. 0 .. high \subseteq S
        <2> HIDE DEF S
        <2> QED  BY <1>2, <1>9, <1>10, IntervalInduction
    <1>12. high \in S  BY <1>2, <1>11
    <1> QED  BY <1>1, <1>12 DEF high, rows

MergedUpTo(tree, m, merged) ==
    /\ merged = [row \in 1 .. m |-> merged[row]]
    /\ \A row \in 1 .. m :
         merged[row] = IF row = 1 THEN tree[1]
                       ELSE MergedRow(tree[row], merged[row - 1], row = Len(tree))

\* The hashes of a tree can be computed, row by row.
LEMMA MergedExist ==
    ASSUME NEW tree, NEW high \in Nat
    PROVE  \E merged : MergedUpTo(tree, high, merged)
    <1> DEFINE S == {m \in 0 .. high : \E merged : MergedUpTo(tree, m, merged)}
    <1>1. 0 \in S
        <2>1. MergedUpTo(tree, 0, [row \in 1 .. 0 |-> tree])  BY DEF MergedUpTo
        <2> QED  BY <2>1
    <1>2. ASSUME NEW m \in 0 .. high - 1, m \in S PROVE m + 1 \in S
        <2>1. PICK p : MergedUpTo(tree, m, p)  BY <1>2
        <2> DEFINE last == IF m + 1 = 1 THEN tree[1] ELSE MergedRow(tree[m + 1], p[m], m + 1 = Len(tree))
                   q == [row \in 1 .. m + 1 |-> IF row <= m THEN p[row] ELSE last]
        <2>2. q = [row \in 1 .. m + 1 |-> q[row]]  OBVIOUS
        <2>3. ASSUME NEW row \in 1 .. m + 1
              PROVE  q[row] = IF row = 1 THEN tree[1]
                              ELSE MergedRow(tree[row], q[row - 1], row = Len(tree))
            <3>1. row # 1 => row - 1 \in 1 .. m /\ q[row - 1] = p[row - 1]  OBVIOUS
            <3>2. CASE row = m + 1
                <4>1. q[row] = last /\ row - 1 = m  BY <3>2
                <4> HIDE DEF q
                <4> QED  BY <3>1, <3>2, <4>1
            <3>3. CASE row # m + 1
                <4>1. row \in 1 .. m /\ q[row] = p[row]  BY <3>3
                <4> HIDE DEF q
                <4> QED  BY <2>1, <3>1, <4>1 DEF MergedUpTo
            <3> QED  BY <3>2, <3>3
        <2>4. MergedUpTo(tree, m + 1, q)
            <3> HIDE DEF q
            <3> QED  BY <2>2, <2>3 DEF MergedUpTo
        <2>5. m + 1 \in 0 .. high  OBVIOUS
        <2> QED  BY <2>4, <2>5
    <1>3. 0 .. high \subseteq S
        <2> HIDE DEF S
        <2> QED  BY <1>1, <1>2, IntervalInduction
    <1> QED  BY <1>3

\* The rows of the tree that is computed.
LEMMA ComputedIs ==
    ASSUME NEW high \in Nat \ {0}, NEW tree, IsRow(tree, high)
    PROVE  /\ IsRow(ComputeRootHash(tree), high)
           /\ ComputeRootHash(tree)[1] = tree[1]
           /\ \A row \in 2 .. high :
                ComputeRootHash(tree)[row] = MergedRow(tree[row], ComputeRootHash(tree)[row - 1], row = high)
    <1> DEFINE Is(g) == g = [row \in 1 .. Len(tree) |->
                               IF row = 1 THEN tree[1] ELSE MergedRow(tree[row], g[row - 1], row = Len(tree))]
               computed == CHOOSE g : Is(g)
    <1>1. ComputeRootHash(tree) = computed  BY DEF ComputeRootHash, computed, Is
    <1>2. Len(tree) = high  BY DEF IsRow
    <1>3. \E g : Is(g)
        <2>1. PICK p : MergedUpTo(tree, high, p)  BY MergedExist
        <2> DEFINE h == [row \in 1 .. Len(tree) |->
                           IF row = 1 THEN tree[1] ELSE MergedRow(tree[row], p[row - 1], row = Len(tree))]
        <2>2. p = [row \in 1 .. high |-> p[row]] /\ h = [row \in 1 .. high |-> h[row]]
            BY <1>2, <2>1 DEF MergedUpTo
        <2>3. \A row \in 1 .. high : p[row] = h[row]  BY <1>2, <2>1 DEF MergedUpTo
        <2>4. p = h
            <3> HIDE DEF h
            <3> QED  BY <2>2, <2>3
        <2> QED  BY <2>4
    <1>4. Is(computed)
        <2> HIDE DEF Is
        <2> QED  BY <1>3
    <1> HIDE DEF computed
    <1> DEFINE h == [row \in 1 .. Len(tree) |->
                       IF row = 1 THEN tree[1] ELSE MergedRow(tree[row], computed[row - 1], row = Len(tree))]
    <1>5. computed = h  BY <1>4
    <1>6. /\ h = [row \in 1 .. high |-> h[row]] /\ h[1] = tree[1]
          /\ \A row \in 2 .. high : h[row] = MergedRow(tree[row], computed[row - 1], row = high)
        BY <1>2
    <1> HIDE DEF h
    <1>7. IsRow(computed, high)  BY <1>5, <1>6, RowOf
    <1> QED  BY <1>1, <1>5, <1>6, <1>7

\* A row of which all is there but for the unknown nodes that have an unknown sibling.
KnownBut(width, unknown, row) ==
    /\ DOMAIN row = 1 .. PaddedWidth(width)
    /\ \A i \in 1 .. PaddedWidth(width) : row[i] = Absent <=> i \in unknown \ Singles(unknown)

\* A row over leaves, before it is computed.
RowToMerge(width, unknown, row) ==
    /\ DOMAIN row = 1 .. PaddedWidth(width)
    /\ \A i \in Singles(unknown) : row[i] # Absent
    /\ \A i \in 1 .. PaddedWidth(width) \ Singles(unknown) :
         row[i] = IF i > width THEN NullNode ELSE Absent

\* And after it is, from the one below.
RowMerged(width, unknown, row, below, top, merged) ==
    /\ KnownBut(width, unknown, merged)
    /\ \A i \in 1 .. PaddedWidth(width) :
         /\ i > width => merged[i] = NullNode
         /\ i \in Singles(unknown) => merged[i] = row[i]
         /\ i \in (1 .. width) \ unknown => merged[i] = MergeNodes(top, below[2 * i - 1], below[2 * i])

\* A row is computed but for the unknown nodes that have an unknown sibling, if the row below is.
LEMMA RowOver ==
    ASSUME NEW width \in Nat \ {0}, NEW next \in Nat \ {0}, PaddedWidth(width) = 2 * next,
           NEW unknown \in SUBSET (1 .. width), NEW below, KnownBut(width, unknown, below),
           NEW row, RowToMerge(next, BothIn(next, unknown), row), NEW top
    PROVE  RowMerged(next, BothIn(next, unknown), row, below, top, MergedRow(row, below, top))
    <1> DEFINE over == BothIn(next, unknown)
               merged == MergedRow(row, below, top)
               Both(i) == 2 * i \in DOMAIN below /\ below[2 * i - 1] # Absent /\ below[2 * i] # Absent
    <1>0. /\ DOMAIN below = 1 .. PaddedWidth(width)
          /\ \A i \in 1 .. PaddedWidth(width) : below[i] = Absent <=> i \in unknown \ Singles(unknown)
          /\ DOMAIN row = 1 .. PaddedWidth(next)
          /\ \A i \in Singles(over) : row[i] # Absent
          /\ \A i \in 1 .. PaddedWidth(next) \ Singles(over) : row[i] = IF i > next THEN NullNode ELSE Absent
        BY DEF KnownBut, RowToMerge
    <1>1. DOMAIN merged = 1 .. PaddedWidth(next)  BY <1>0 DEF MergedRow
    <1>2. \A i \in 1 .. PaddedWidth(next) :
            merged[i] = IF Both(i) THEN MergeNodes(top, below[2 * i - 1], below[2 * i]) ELSE row[i]
        BY <1>0 DEF MergedRow
    <1>3. PaddedWidth(next) \in Nat  BY DEF PaddedWidth
    <1>4. over \subseteq 1 .. next /\ Singles(over) \subseteq over  BY DEF BothIn, Singles
    <1>5. NullNode # Absent
        <2>1. Len(NullNode) = 1 /\ Len(Absent) = 0  BY DEF NullNode, Absent
        <2> QED  BY <2>1
    <1>6. \A left, right : MergeNodes(top, left, right) # Absent
        <2>1. \A left, right : Len(MergeNodes(top, left, right)) = 4  BY DEF MergeNodes
        <2>2. Len(Absent) = 0  BY DEF Absent
        <2> QED  BY <2>1, <2>2
    <1> HIDE DEF merged
    <1> SUFFICES ASSUME NEW i \in 1 .. PaddedWidth(next)
                 PROVE  /\ i > next => merged[i] = NullNode
                        /\ i \in Singles(over) => merged[i] = row[i]
                        /\ merged[i] = Absent <=> i \in over \ Singles(over)
                        /\ i \in (1 .. next) \ over =>
                             merged[i] = MergeNodes(top, below[2 * i - 1], below[2 * i])
        BY <1>1 DEF merged, RowMerged, KnownBut
    <1>7. Sibling(2 * i - 1) = 2 * i /\ Sibling(2 * i) = 2 * i - 1  BY <1>3 DEF Sibling
    <1>8. CASE i > next
        <2>1. 2 * i \notin 1 .. PaddedWidth(width)  BY <1>3, <1>8
        <2>2. ~Both(i)  BY <1>0, <2>1
        <2>3. i \notin over /\ i \notin Singles(over)  BY <1>4, <1>8
        <2>4. merged[i] = NullNode  BY <1>0, <1>2, <1>8, <2>2, <2>3
        <2> QED  BY <1>5, <1>8, <2>3, <2>4
    <1>9. CASE i \in over
        <2>1. 2 * i - 1 \in unknown /\ 2 * i \in unknown  BY <1>9 DEF BothIn
        <2>2. 2 * i - 1 \in unknown \ Singles(unknown)  BY <1>7, <2>1 DEF Singles
        <2>3. 2 * i - 1 \in 1 .. PaddedWidth(width)  BY <1>4, <1>9
        <2>4. ~Both(i)  BY <1>0, <2>2, <2>3
        <2>5. i \in 1 .. next /\ ~(i > next)  BY <1>4, <1>9
        <2>6. merged[i] = row[i]  BY <1>2, <2>4
        <2> QED  BY <1>0, <1>9, <2>5, <2>6
    <1>10. CASE i \in (1 .. next) \ over
        <2>1. 2 * i - 1 \notin unknown \/ 2 * i \notin unknown  BY <1>10 DEF BothIn
        <2>2. 2 * i - 1 \in 1 .. PaddedWidth(width) /\ 2 * i \in 1 .. PaddedWidth(width)  BY <1>10
        <2>3. 2 * i - 1 \notin unknown \ Singles(unknown) /\ 2 * i \notin unknown \ Singles(unknown)
            BY <1>7, <2>1 DEF Singles
        <2>4. Both(i)  BY <1>0, <2>2, <2>3
        <2>5. i \notin Singles(over) /\ ~(i > next)  BY <1>4, <1>10
        <2> QED  BY <1>2, <1>6, <1>10, <2>4, <2>5
    <1>11. i > next \/ i \in over \/ i \in (1 .. next) \ over  BY <1>3
    <1> QED  BY <1>8, <1>9, <1>10, <1>11

\* A tree with the leaves that are given, and hashes at the topmost unknown nodes.
IsFilled(leaves, widths, high, rows, tree) ==
    /\ IsRow(tree, high)
    /\ \A i \in 1 .. widths[1] : leaves[i] = Absent <=> i \in rows[1]
    /\ \A row \in 1 .. high :
         /\ DOMAIN tree[row] = 1 .. PaddedWidth(widths[row])
         /\ \A i \in Singles(rows[row]) : tree[row][i] # Absent
         /\ \A i \in 1 .. PaddedWidth(widths[row]) \ Singles(rows[row]) :
              tree[row][i] = IF i > widths[row] THEN NullNode
                             ELSE IF row = 1 THEN leaves[i] ELSE Absent

\* What is computed of a row: all but the unknown nodes that have an unknown sibling.
RowIs(row, widths, rows, tree, computed) ==
    /\ KnownBut(widths[row], rows[row], computed[row])
    /\ \A i \in 1 .. PaddedWidth(widths[row]) :
         /\ i > widths[row] => computed[row][i] = NullNode
         /\ i \in Singles(rows[row]) => computed[row][i] = tree[row][i]

\* What is computed of the nodes over something that is given.
KnownIs(leaves, widths, high, rows, computed) ==
    /\ \A i \in (1 .. widths[1]) \ rows[1] : computed[1][i] = leaves[i]
    /\ \A row \in 2 .. high : \A i \in (1 .. widths[row]) \ rows[row] :
         computed[row][i] = MergeNodes(row = high, computed[row - 1][2 * i - 1], computed[row - 1][2 * i])

\* Every row is: a leaf or hash that is given stays, and a node over one of them is computed.
LEMMA RowsComputed ==
    ASSUME NEW n \in Nat \ {0}, NEW widths, NEW high, Rows(n, widths, high),
           NEW unknown \in SUBSET (1 .. n), NEW rows, UnknownChain(n, widths, high, unknown, rows),
           NEW leaves, NEW tree, IsFilled(leaves, widths, high, rows, tree)
    PROVE  /\ \A row \in 1 .. high : RowIs(row, widths, rows, tree, ComputeRootHash(tree))
           /\ KnownIs(leaves, widths, high, rows, ComputeRootHash(tree))
           /\ IsRow(ComputeRootHash(tree), high)
    <1> DEFINE computed == ComputeRootHash(tree)
               K(row) == \A i \in (1 .. widths[row]) \ rows[row] :
                           computed[row][i] = MergeNodes(row = high, computed[row - 1][2 * i - 1],
                                                         computed[row - 1][2 * i])
               S == {m \in 0 .. high - 1 : /\ RowIs(m + 1, widths, rows, tree, computed)
                                           /\ m # 0 => K(m + 1)}
    <1>1. high \in Nat \ {0}  BY DEF Rows
    <1>2. /\ IsRow(computed, high) /\ computed[1] = tree[1]
          /\ \A row \in 2 .. high : computed[row] = MergedRow(tree[row], computed[row - 1], row = high)
        BY <1>1, ComputedIs DEF IsFilled
    <1>3. \A row \in 1 .. high : widths[row] \in Nat \ {0} /\ PaddedWidth(widths[row]) \in Nat \ {0}
        BY DEF Rows
    <1>4. 1 \in 1 .. high /\ widths[1] = n  BY <1>1 DEF Rows
    <1>5. \A row \in 1 .. high : rows[row] \subseteq 1 .. widths[row]  BY DEF UnknownChain
    <1>6. \A i \in 1 .. PaddedWidth(widths[1]) \ Singles(rows[1]) :
            tree[1][i] = IF i > widths[1] THEN NullNode ELSE leaves[i]
        BY <1>4 DEF IsFilled
    <1>7. /\ \A i \in 1 .. widths[1] : leaves[i] = Absent <=> i \in rows[1]
          /\ DOMAIN tree[1] = 1 .. PaddedWidth(widths[1])
          /\ \A i \in Singles(rows[1]) : tree[1][i] # Absent
        BY <1>4 DEF IsFilled
    <1>8. NullNode # Absent
        <2>1. Len(NullNode) = 1 /\ Len(Absent) = 0  BY DEF NullNode, Absent
        <2> QED  BY <2>1
    <1>9. Singles(rows[1]) \subseteq rows[1] /\ rows[1] \subseteq 1 .. widths[1]  BY <1>4, <1>5 DEF Singles
    <1>10. \A i \in 1 .. PaddedWidth(widths[1]) : i > widths[1] \/ i \in 1 .. widths[1]  BY <1>3, <1>4
    <1>11. \A i \in 1 .. widths[1] : i \in 1 .. PaddedWidth(widths[1]) /\ ~(i > widths[1])
        <2>1. widths[1] \in Nat  BY <1>4
        <2> QED  BY <2>1 DEF PaddedWidth
    <1> HIDE DEF computed
    <1>12. RowIs(1, widths, rows, tree, computed)
        <2> SUFFICES ASSUME NEW i \in 1 .. PaddedWidth(widths[1])
                     PROVE  /\ i > widths[1] => tree[1][i] = NullNode
                            /\ tree[1][i] = Absent <=> i \in rows[1] \ Singles(rows[1])
            BY <1>2, <1>7 DEF RowIs, KnownBut
        <2>1. CASE i \in Singles(rows[1])  BY <1>7, <1>9, <1>11, <2>1
        <2>2. CASE i > widths[1]  BY <1>6, <1>8, <1>9, <1>11, <2>2
        <2>3. CASE i \in 1 .. widths[1] /\ i \notin Singles(rows[1])  BY <1>6, <1>7, <1>11, <2>3
        <2> QED  BY <1>10, <2>1, <2>2, <2>3
    <1>13. \A i \in (1 .. widths[1]) \ rows[1] : computed[1][i] = leaves[i]
        BY <1>2, <1>6, <1>9, <1>11
    <1>14. 0 \in S
        <2>1. 0 \in 0 .. high - 1 /\ 0 + 1 = 1  BY <1>1
        <2> QED  BY <1>12, <2>1
    <1>15. ASSUME NEW m \in 0 .. (high - 1) - 1, m \in S PROVE m + 1 \in S
        <2> DEFINE row == m + 1
                   next == m + 2
        <2>1. /\ row \in 1 .. high /\ row \in 1 .. high - 1 /\ row + 1 = next /\ next \in 2 .. high
              /\ next - 1 = row /\ m + 1 \in 0 .. high - 1 /\ next \in 1 .. high /\ next # 1
              /\ (m + 1) + 1 = next
            BY <1>1
        <2>2. RowIs(row, widths, rows, tree, computed)  BY <1>15
        <2> HIDE DEF row, next
        <2>3. PaddedWidth(widths[row]) = 2 * widths[next]  BY <2>1 DEF Rows
        <2>4. rows[next] = BothIn(widths[next], rows[row])  BY <2>1 DEF UnknownChain
        <2>5. computed[next] = MergedRow(tree[next], computed[row], next = high)  BY <1>2, <2>1
        <2>6. KnownBut(widths[row], rows[row], computed[row])  BY <2>2 DEF RowIs
        <2>7. RowToMerge(widths[next], rows[next], tree[next])  BY <2>1 DEF IsFilled, RowToMerge
        <2>8. /\ widths[row] \in Nat \ {0} /\ widths[next] \in Nat \ {0}
              /\ rows[row] \in SUBSET (1 .. widths[row])
            BY <1>3, <1>5, <2>1
        <2>9. RowMerged(widths[next], rows[next], tree[next], computed[row], next = high, computed[next])
            BY <2>3, <2>4, <2>5, <2>6, <2>7, <2>8, RowOver
        <2>10. RowIs(next, widths, rows, tree, computed)  BY <2>9 DEF RowIs, RowMerged
        <2>11. \A i \in 1 .. widths[next] : i \in 1 .. PaddedWidth(widths[next])  BY <2>8 DEF PaddedWidth
        <2>12. K(next)
            <3> SUFFICES ASSUME NEW i \in (1 .. widths[next]) \ rows[next]
                         PROVE  computed[next][i] = MergeNodes(next = high, computed[next - 1][2 * i - 1],
                                                               computed[next - 1][2 * i])
                OBVIOUS
            <3> QED  BY <2>1, <2>9, <2>11 DEF RowMerged
        <2> QED  BY <2>1, <2>10, <2>12
    <1>16. 0 .. high - 1 \subseteq S
        <2>1. high - 1 \in Nat  BY <1>1
        <2> HIDE DEF S
        <2> QED  BY <1>14, <1>15, <2>1, IntervalInduction
    <1>17. ASSUME NEW row \in 1 .. high
           PROVE  RowIs(row, widths, rows, tree, computed) /\ (row # 1 => K(row))
        <2>1. row - 1 \in 0 .. high - 1 /\ (row - 1) + 1 = row /\ (row - 1 = 0 <=> row = 1)  BY <1>1
        <2>2. row - 1 \in S  BY <1>16, <2>1
        <2> HIDE DEF K
        <2> QED  BY <2>1, <2>2
    <1>18. KnownIs(leaves, widths, high, rows, computed)
        <2>1. \A row \in 2 .. high : row \in 1 .. high /\ row # 1  BY <1>1
        <2>2. \A row \in 2 .. high : K(row)
            <3> HIDE DEF K
            <3> QED  BY <1>17, <2>1
        <2> QED  BY <1>13, <2>2 DEF KnownIs
    <1> QED  BY <1>2, <1>17, <1>18 DEF computed

\* A node is a hash, and of no other children.
LEMMA NodesApart ==
    ASSUME NEW top, NEW left, NEW right, NEW otherLeft, NEW otherRight
    PROVE  /\ MergeNodes(top, left, right) # Absent
           /\ MergeNodes(top, left, right) = MergeNodes(top, otherLeft, otherRight) =>
                left = otherLeft /\ right = otherRight
    <1>1. Len(MergeNodes(top, left, right)) = 4 /\ Len(Absent) = 0  BY DEF MergeNodes, Absent
    <1>2. /\ MergeNodes(top, left, right)[3] = left /\ MergeNodes(top, left, right)[4] = right
          /\ MergeNodes(top, otherLeft, otherRight)[3] = otherLeft
          /\ MergeNodes(top, otherLeft, otherRight)[4] = otherRight
        BY DEF MergeNodes
    <1> QED  BY <1>1, <1>2

\* The rows that are computed of a tree, from leaves of which some are unknown.
IsComputed(leaves, widths, high, rows, tree, computed) ==
    /\ IsRow(computed, high)
    /\ \A row \in 1 .. high : RowIs(row, widths, rows, tree, computed)
    /\ KnownIs(leaves, widths, high, rows, computed)

\* The same with no leaf unknown.
IsWhole(leaves, widths, high, computed) ==
    /\ IsRow(computed, high)
    /\ \A row \in 1 .. high : DOMAIN computed[row] = 1 .. PaddedWidth(widths[row])
    /\ \A row \in 1 .. high : \A i \in 1 .. PaddedWidth(widths[row]) :
         computed[row][i] # Absent /\ (i > widths[row] => computed[row][i] = NullNode)
    /\ \A i \in 1 .. widths[1] : computed[1][i] = leaves[i]
    /\ \A row \in 2 .. high : \A i \in 1 .. widths[row] :
         computed[row][i] = MergeNodes(row = high, computed[row - 1][2 * i - 1], computed[row - 1][2 * i])

\* What is computed of the nodes of a row is what the whole tree has.
Agree(width, computed, whole) ==
    \A i \in 1 .. PaddedWidth(width) : computed[i] # Absent => computed[i] = whole[i]

\* With the leaves and the hashes of the whole tree, its nodes are computed.
LEMMA AgreeUpwards ==
    ASSUME NEW n \in Nat \ {0}, NEW widths, NEW high, Rows(n, widths, high),
           NEW unknown \in SUBSET (1 .. n), NEW rows, UnknownChain(n, widths, high, unknown, rows),
           NEW leaves, NEW tree, NEW computed, IsComputed(leaves, widths, high, rows, tree, computed),
           NEW all, NEW whole, IsWhole(all, widths, high, whole),
           \A i \in (1 .. n) \ unknown : leaves[i] = all[i],
           \A row \in 1 .. high : \A i \in Singles(rows[row]) : tree[row][i] = whole[row][i]
    PROVE  \A row \in 1 .. high : Agree(widths[row], computed[row], whole[row])
    <1> DEFINE S == {m \in 0 .. high - 1 : Agree(widths[m + 1], computed[m + 1], whole[m + 1])}
    <1>1. high \in Nat \ {0} /\ 1 \in 1 .. high /\ widths[1] = n /\ rows[1] = unknown  BY DEF Rows, UnknownChain
    <1>2. \A row \in 1 .. high : /\ widths[row] \in Nat \ {0} /\ PaddedWidth(widths[row]) \in Nat \ {0}
                                 /\ rows[row] \subseteq 1 .. widths[row]
        BY DEF Rows, UnknownChain
    <1>3. ASSUME NEW row \in 1 .. high, NEW i \in 1 .. PaddedWidth(widths[row]), computed[row][i] # Absent
          PROVE  \/ computed[row][i] = whole[row][i]
                 \/ i \in (1 .. widths[row]) \ rows[row]
        <2>1. /\ i > widths[row] => computed[row][i] = NullNode /\ whole[row][i] = NullNode
              /\ i \in Singles(rows[row]) => computed[row][i] = tree[row][i]
              /\ i \notin rows[row] \ Singles(rows[row])
            BY <1>3 DEF IsComputed, RowIs, KnownBut, IsWhole
        <2>2. i > widths[row] \/ i \in 1 .. widths[row]  BY <1>2
        <2> QED  BY <2>1, <2>2
    <1>4. 0 \in S
        <2>1. 0 \in 0 .. high - 1 /\ 0 + 1 = 1  BY <1>1
        <2>2. \A i \in (1 .. widths[1]) \ rows[1] : computed[1][i] = whole[1][i]
            BY <1>1 DEF IsComputed, KnownIs, IsWhole
        <2>3. Agree(widths[1], computed[1], whole[1])  BY <1>1, <1>3, <2>2 DEF Agree
        <2> QED  BY <2>1, <2>3
    <1>5. ASSUME NEW m \in 0 .. (high - 1) - 1, m \in S PROVE m + 1 \in S
        <2> DEFINE row == m + 1
                   next == m + 2
        <2>1. /\ row \in 1 .. high /\ next \in 2 .. high /\ next \in 1 .. high /\ row + 1 = next
              /\ next - 1 = row /\ (m + 1) + 1 = next /\ m + 1 \in 0 .. high - 1 /\ row \in 1 .. high - 1
            BY <1>1
        <2>2. Agree(widths[row], computed[row], whole[row])  BY <1>5
        <2> HIDE DEF row, next
        <2>3. PaddedWidth(widths[row]) = 2 * widths[next] /\ rows[next] = BothIn(widths[next], rows[row])
            BY <2>1 DEF Rows, UnknownChain
        <2>4. ASSUME NEW i \in (1 .. widths[next]) \ rows[next]
              PROVE  computed[next][i] = whole[next][i]
            <3>1. 2 * i - 1 \in 1 .. PaddedWidth(widths[row]) /\ 2 * i \in 1 .. PaddedWidth(widths[row])
                BY <1>2, <2>1, <2>3
            <3>2. 2 * i - 1 \notin rows[row] \/ 2 * i \notin rows[row]  BY <2>3 DEF BothIn
            <3>3. Sibling(2 * i - 1) = 2 * i /\ Sibling(2 * i) = 2 * i - 1  BY <1>2, <2>1 DEF Sibling
            <3>4. computed[row][2 * i - 1] # Absent /\ computed[row][2 * i] # Absent
                <4>1. KnownBut(widths[row], rows[row], computed[row])  BY <2>1 DEF IsComputed, RowIs
                <4>2. 2 * i - 1 \notin rows[row] \ Singles(rows[row]) /\ 2 * i \notin rows[row] \ Singles(rows[row])
                    BY <3>2, <3>3 DEF Singles
                <4> QED  BY <3>1, <4>1, <4>2 DEF KnownBut
            <3>5. computed[row][2 * i - 1] = whole[row][2 * i - 1] /\ computed[row][2 * i] = whole[row][2 * i]
                BY <2>2, <3>1, <3>4 DEF Agree
            <3>6. computed[next][i] = MergeNodes(next = high, computed[row][2 * i - 1], computed[row][2 * i])
                BY <2>1 DEF IsComputed, KnownIs
            <3>7. whole[next][i] = MergeNodes(next = high, whole[row][2 * i - 1], whole[row][2 * i])
                BY <2>1 DEF IsWhole
            <3> QED  BY <3>5, <3>6, <3>7
        <2>5. Agree(widths[next], computed[next], whole[next])  BY <1>3, <2>1, <2>4 DEF Agree
        <2> QED  BY <2>1, <2>5
    <1>6. 0 .. high - 1 \subseteq S
        <2>1. high - 1 \in Nat  BY <1>1
        <2> HIDE DEF S
        <2> QED  BY <1>4, <1>5, <2>1, IntervalInduction
    <1>7. ASSUME NEW row \in 1 .. high PROVE Agree(widths[row], computed[row], whole[row])
        <2>1. row - 1 \in 0 .. high - 1 /\ (row - 1) + 1 = row  BY <1>1
        <2>2. row - 1 \in S  BY <1>6, <2>1
        <2> QED  BY <2>1, <2>2
    <1> QED  BY <1>7

\* With the root of the whole tree, all that is computed is of it.
LEMMA AgreeDownwards ==
    ASSUME NEW n \in Nat \ {0}, NEW widths, NEW high, Rows(n, widths, high),
           NEW unknown \in SUBSET (1 .. n), NEW rows, UnknownChain(n, widths, high, unknown, rows),
           NEW leaves, NEW tree, NEW computed, IsComputed(leaves, widths, high, rows, tree, computed),
           NEW all, NEW whole, IsWhole(all, widths, high, whole),
           computed[high][1] = whole[high][1]
    PROVE  \A row \in 1 .. high : Agree(widths[row], computed[row], whole[row])
    <1> DEFINE At(row) == Agree(widths[row], computed[row], whole[row])
               S == {m \in 0 .. high - 1 : At(high - m)}
    <1>1. high \in Nat \ {0} /\ 1 \in 1 .. high  BY DEF Rows
    <1>2. \A row \in 1 .. high : /\ widths[row] \in Nat \ {0} /\ PaddedWidth(widths[row]) \in Nat \ {0}
                                 /\ rows[row] \subseteq 1 .. widths[row]
        BY DEF Rows, UnknownChain
    <1>3. 0 \in S
        <2>1. 0 \in 0 .. high - 1 /\ high - 0 = high  BY <1>1
        <2>2. PaddedWidth(widths[high]) = 1  BY DEF Rows
        <2>3. \A i \in 1 .. 1 : i = 1  OBVIOUS
        <2>4. At(high)  BY <2>2, <2>3 DEF Agree
        <2> HIDE DEF At
        <2> QED  BY <2>1, <2>4
    <1>4. ASSUME NEW m \in 0 .. (high - 1) - 1, m \in S PROVE m + 1 \in S
        <2> DEFINE next == high - m
                   row == high - (m + 1)
        <2>1. /\ row \in 1 .. high /\ next \in 2 .. high /\ next \in 1 .. high /\ row + 1 = next
              /\ next - 1 = row /\ m + 1 \in 0 .. high - 1 /\ row \in 1 .. high - 1
            BY <1>1
        <2>2. Agree(widths[next], computed[next], whole[next])  BY <1>4
        <2> HIDE DEF row, next
        <2>3. PaddedWidth(widths[row]) = 2 * widths[next] /\ rows[next] = BothIn(widths[next], rows[row])
            BY <2>1 DEF Rows, UnknownChain
        <2>4. ASSUME NEW i \in 1 .. PaddedWidth(widths[row]), computed[row][i] # Absent
              PROVE  computed[row][i] = whole[row][i]
            <3> DEFINE over == (i + 1) \div 2
            <3>1. /\ over \in 1 .. widths[next] /\ (i = 2 * over - 1 \/ i = 2 * over)
                  /\ Sibling(2 * over - 1) = 2 * over /\ Sibling(2 * over) = 2 * over - 1
                <4> DEFINE width == widths[next]
                <4>1. i \in 1 .. 2 * width /\ width \in Nat  BY <1>2, <2>1, <2>3
                <4> HIDE DEF width
                <4>2. over \in 1 .. width /\ (i = 2 * over - 1 \/ i = 2 * over)  BY <4>1
                <4>3. over \in Nat \ {0}  BY <4>1
                <4> HIDE DEF over
                <4>4. Sibling(2 * over - 1) = 2 * over /\ Sibling(2 * over) = 2 * over - 1
                    BY <4>3 DEF Sibling
                <4> QED  BY <4>2, <4>4 DEF width
            <3> HIDE DEF over
            <3>2. over \in 1 .. PaddedWidth(widths[next])
                <4>1. widths[next] \in Nat  BY <1>2, <2>1
                <4> QED  BY <3>1, <4>1 DEF PaddedWidth
            <3>3. i \notin rows[row] \ Singles(rows[row])
                <4>1. KnownBut(widths[row], rows[row], computed[row])  BY <2>1 DEF IsComputed, RowIs
                <4> QED  BY <2>4, <4>1 DEF KnownBut
            <3>4. over \notin rows[next]  BY <2>3, <3>1, <3>3 DEF BothIn, Singles
            <3>5. computed[next][over] = MergeNodes(next = high, computed[row][2 * over - 1], computed[row][2 * over])
                BY <2>1, <3>1, <3>4 DEF IsComputed, KnownIs
            <3>6. whole[next][over] = MergeNodes(next = high, whole[row][2 * over - 1], whole[row][2 * over])
                BY <2>1, <3>1 DEF IsWhole
            <3>7. computed[next][over] # Absent  BY <3>5, NodesApart
            <3>8. computed[next][over] = whole[next][over]  BY <2>2, <3>2, <3>7 DEF Agree
            <3>9. /\ computed[row][2 * over - 1] = whole[row][2 * over - 1]
                  /\ computed[row][2 * over] = whole[row][2 * over]
                BY <3>5, <3>6, <3>8, NodesApart
            <3> QED  BY <3>1, <3>9
        <2>5. At(row)  BY <2>4 DEF Agree
        <2> HIDE DEF At
        <2> QED  BY <2>1, <2>5 DEF row
    <1>5. 0 .. high - 1 \subseteq S
        <2>1. high - 1 \in Nat  BY <1>1
        <2> HIDE DEF S
        <2> QED  BY <1>3, <1>4, <2>1, IntervalInduction
    <1>6. ASSUME NEW row \in 1 .. high PROVE At(row)
        <2>1. high - row \in 0 .. high - 1 /\ high - (high - row) = row  BY <1>1
        <2>2. high - row \in S  BY <1>5, <2>1
        <2> HIDE DEF At
        <2> QED  BY <2>1, <2>2
    <1> QED  BY <1>6

\* The tree before anything is computed.
LEMMA TreeBuilt ==
    ASSUME NEW n \in Nat \ {0}, NEW leaves, Len(leaves) = n
    PROVE  LET tree == BuildTreeStructure(leaves)
               widths == RowWidths(n)
           IN /\ IsRow(tree, Height(n))
              /\ \A row \in 1 .. Height(n) :
                   /\ DOMAIN tree[row] = 1 .. PaddedWidth(widths[row])
                   /\ \A i \in 1 .. PaddedWidth(widths[row]) :
                        tree[row][i] = IF i > widths[row] THEN NullNode
                                       ELSE IF row = 1 THEN leaves[i] ELSE Absent
    <1> DEFINE tree == BuildTreeStructure(leaves)
               widths == RowWidths(n)
               high == Height(n)
               built == [row \in 1 .. high |->
                           [i \in 1 .. PaddedWidth(widths[row]) |->
                              CASE i > widths[row] -> NullNode
                                [] i <= widths[row] /\ row = 1 -> leaves[i]
                                [] OTHER -> Absent]]
    <1>1. tree = built  BY DEF BuildTreeStructure
    <1>2. high \in Nat /\ \A row \in 1 .. high : widths[row] \in Nat  BY RowsOfTree DEF Rows
    <1> HIDE DEF tree, widths, high
    <1>3. IsRow(tree, high)
        <2>1. built = [row \in 1 .. high |-> built[row]]  OBVIOUS
        <2> HIDE DEF built
        <2> QED  BY <1>1, <1>2, <2>1, RowOf
    <1>4. ASSUME NEW row \in 1 .. high
          PROVE  /\ DOMAIN tree[row] = 1 .. PaddedWidth(widths[row])
                 /\ \A i \in 1 .. PaddedWidth(widths[row]) :
                      tree[row][i] = IF i > widths[row] THEN NullNode
                                     ELSE IF row = 1 THEN leaves[i] ELSE Absent
        <2> DEFINE width == widths[row]
                   one == [i \in 1 .. PaddedWidth(width) |->
                             CASE i > width -> NullNode
                               [] i <= width /\ row = 1 -> leaves[i]
                               [] OTHER -> Absent]
        <2>1. tree[row] = one  BY <1>1
        <2>2. width \in Nat  BY <1>2
        <2> HIDE DEF width
        <2>3. ASSUME NEW i \in 1 .. PaddedWidth(width)
              PROVE  one[i] = IF i > width THEN NullNode ELSE IF row = 1 THEN leaves[i] ELSE Absent
            <3>1. i <= width <=> ~(i > width)  BY <2>2
            <3> QED  BY <3>1
        <2>4. DOMAIN one = 1 .. PaddedWidth(width)  OBVIOUS
        <2> HIDE DEF one
        <2> QED  BY <2>1, <2>3, <2>4 DEF width
    <1> QED  BY <1>3, <1>4 DEF tree, widths, high

\* The tree of leaves that are all known.
LEMMA WholeTree ==
    ASSUME NEW n \in Nat \ {0}, NEW leaves, IsRow(leaves, n), \A i \in 1 .. n : leaves[i] # Absent
    PROVE  IsWhole(leaves, RowWidths(n), Height(n), ComputeRootHash(BuildTreeStructure(leaves)))
    <1> DEFINE widths == RowWidths(n)
               high == Height(n)
               none == [row \in 1 .. high |-> {}]
               tree == BuildTreeStructure(leaves)
               computed == ComputeRootHash(tree)
    <1>1. Rows(n, widths, high)  BY RowsOfTree
    <1>2. UnknownChain(n, widths, high, {}, none)  BY NothingUnknown
    <1>3. \A row \in 1 .. high : none[row] = {} /\ Singles(none[row]) = {}  BY DEF Singles
    <1>4. /\ IsRow(tree, high)
          /\ \A row \in 1 .. high :
               /\ DOMAIN tree[row] = 1 .. PaddedWidth(widths[row])
               /\ \A i \in 1 .. PaddedWidth(widths[row]) :
                    tree[row][i] = IF i > widths[row] THEN NullNode
                                   ELSE IF row = 1 THEN leaves[i] ELSE Absent
        BY TreeBuilt DEF IsRow
    <1> HIDE DEF widths, high, none, tree
    <1>5. 1 \in 1 .. high /\ widths[1] = n  BY <1>1 DEF Rows
    <1>6. IsFilled(leaves, widths, high, none, tree)  BY <1>3, <1>4, <1>5 DEF IsFilled
    <1>7. {} \in SUBSET (1 .. n)  OBVIOUS
    <1>8. /\ IsRow(computed, high)
          /\ \A row \in 1 .. high : RowIs(row, widths, none, tree, computed)
          /\ KnownIs(leaves, widths, high, none, computed)
        BY <1>1, <1>2, <1>6, <1>7, RowsComputed
    <1> HIDE DEF computed
    <1>9. \A row \in 1 .. high :
            /\ DOMAIN computed[row] = 1 .. PaddedWidth(widths[row])
            /\ \A i \in 1 .. PaddedWidth(widths[row]) :
                 computed[row][i] # Absent /\ (i > widths[row] => computed[row][i] = NullNode)
        BY <1>3, <1>8 DEF RowIs, KnownBut
    <1>10. \A i \in 1 .. widths[1] : computed[1][i] = leaves[i]  BY <1>3, <1>5, <1>8 DEF KnownIs
    <1>11. \A row \in 2 .. high : row \in 1 .. high  OBVIOUS
    <1>12. \A row \in 2 .. high : \A i \in 1 .. widths[row] :
             computed[row][i] = MergeNodes(row = high, computed[row - 1][2 * i - 1], computed[row - 1][2 * i])
        <2>1. \A row \in 2 .. high : none[row] = {}  BY <1>3, <1>11
        <2> QED  BY <1>8, <2>1 DEF KnownIs
    <1> QED  BY <1>8, <1>9, <1>10, <1>12 DEF IsWhole, computed, tree, widths, high

\* The tree of leaves of which some are unknown, with witnesses.
LEMMA WitnessesFill ==
    ASSUME NEW n \in Nat \ {0}, NEW leaves, IsRow(leaves, n), NEW unknown, UnknownOf(leaves) = unknown,
           NEW witnesses, \A k \in DOMAIN GetWitnessPositions(n, unknown) : witnesses[k] # Absent
    PROVE  LET rows == UnknownRows(n, unknown)
               positions == GetWitnessPositions(n, unknown)
               tree == SetWitnesses(BuildTreeStructure(leaves), leaves, witnesses)
           IN /\ IsFilled(leaves, RowWidths(n), Height(n), rows, tree)
              /\ \A row \in 1 .. Height(n) : \A i \in Singles(rows[row]) :
                   \E k \in DOMAIN positions : positions[k] = <<row, i>> /\ tree[row][i] = witnesses[k]
    <1> DEFINE widths == RowWidths(n)
               high == Height(n)
               rows == UnknownRows(n, unknown)
               positions == GetWitnessPositions(n, unknown)
               built == BuildTreeStructure(leaves)
               tree == SetWitnesses(built, leaves, witnesses)
               At(row, i) == {k \in DOMAIN positions : positions[k] = <<row, i>>}
               set == [row \in DOMAIN built |->
                         [i \in DOMAIN built[row] |->
                            IF At(row, i) = {} THEN built[row][i]
                            ELSE witnesses[CHOOSE k \in At(row, i) : TRUE]]]
    <1>1. Len(leaves) = n /\ DOMAIN leaves = 1 .. n  BY DEF IsRow
    <1>2. unknown \in SUBSET (1 .. n) /\ \A i \in 1 .. n : leaves[i] = Absent <=> i \in unknown
        BY <1>1 DEF UnknownOf
    <1>3. tree = set  BY <1>1 DEF SetWitnesses
    <1>4. Rows(n, widths, high) /\ UnknownChain(n, widths, high, unknown, rows)
        BY <1>2, RowsOfTree, UnknownRowsAre
    <1>5. /\ IsRow(built, high)
          /\ \A row \in 1 .. high :
               /\ DOMAIN built[row] = 1 .. PaddedWidth(widths[row])
               /\ \A i \in 1 .. PaddedWidth(widths[row]) :
                    built[row][i] = IF i > widths[row] THEN NullNode
                                    ELSE IF row = 1 THEN leaves[i] ELSE Absent
        BY <1>1, TreeBuilt
    <1>6. \A place : place \in ToSet(positions) <=> IsPlaceOf(place, high, rows)  BY <1>2, PositionsAre
    <1> HIDE DEF widths, high, rows, positions, built, tree
    <1>7. ASSUME NEW row \in 1 .. high, NEW i
          PROVE  At(row, i) # {} <=> i \in Singles(rows[row])
        <2>1. At(row, i) # {} <=> <<row, i>> \in ToSet(positions)  BY DEF ToSet
        <2>2. IsPlaceOf(<<row, i>>, high, rows) <=> i \in Singles(rows[row])  BY DEF IsPlaceOf
        <2> QED  BY <1>6, <2>1, <2>2
    <1>8. DOMAIN built = 1 .. high /\ high \in Nat \ {0} /\ widths[1] = n /\ 1 \in 1 .. high /\ rows[1] = unknown
        BY <1>4, <1>5 DEF IsRow, Rows, UnknownChain
    <1>9. IsRow(tree, high)
        <2>1. set = [row \in 1 .. high |-> set[row]]  BY <1>8
        <2> HIDE DEF set
        <2> QED  BY <1>3, <1>8, <2>1, RowOf
    <1>10. ASSUME NEW row \in 1 .. high
           PROVE  /\ DOMAIN tree[row] = 1 .. PaddedWidth(widths[row])
                  /\ \A i \in 1 .. PaddedWidth(widths[row]) :
                       tree[row][i] = IF At(row, i) = {} THEN built[row][i]
                                      ELSE witnesses[CHOOSE k \in At(row, i) : TRUE]
        <2> DEFINE one == [i \in DOMAIN built[row] |->
                             IF At(row, i) = {} THEN built[row][i]
                             ELSE witnesses[CHOOSE k \in At(row, i) : TRUE]]
        <2>1. tree[row] = one  BY <1>3, <1>8
        <2>2. DOMAIN built[row] = 1 .. PaddedWidth(widths[row])  BY <1>5
        <2>3. /\ DOMAIN one = 1 .. PaddedWidth(widths[row])
              /\ \A i \in 1 .. PaddedWidth(widths[row]) :
                   one[i] = IF At(row, i) = {} THEN built[row][i]
                            ELSE witnesses[CHOOSE k \in At(row, i) : TRUE]
            <3> HIDE DEF At
            <3> QED  BY <2>2
        <2> HIDE DEF one, At
        <2> QED  BY <2>1, <2>3
    <1>11. ASSUME NEW row \in 1 .. high, NEW i \in Singles(rows[row])
           PROVE  /\ \E k \in DOMAIN positions : positions[k] = <<row, i>> /\ tree[row][i] = witnesses[k]
                  /\ tree[row][i] # Absent
        <2>1. At(row, i) # {}  BY <1>7
        <2>2. i \in 1 .. PaddedWidth(widths[row])
            <3>1. i \in 1 .. widths[row] /\ widths[row] \in Nat  BY <1>4 DEF Singles, UnknownChain, Rows
            <3> QED  BY <3>1 DEF PaddedWidth
        <2> DEFINE k == CHOOSE k \in At(row, i) : TRUE
        <2>3. k \in At(row, i)  BY <2>1
        <2>4. tree[row][i] = witnesses[k]  BY <1>10, <2>1, <2>2
        <2> HIDE DEF k
        <2>5. k \in DOMAIN positions /\ positions[k] = <<row, i>>  BY <2>3
        <2>6. witnesses[k] # Absent  BY <2>5 DEF positions
        <2> QED  BY <2>4, <2>5, <2>6
    <1>12. ASSUME NEW row \in 1 .. high, NEW i \in 1 .. PaddedWidth(widths[row]) \ Singles(rows[row])
           PROVE  tree[row][i] = IF i > widths[row] THEN NullNode
                                 ELSE IF row = 1 THEN leaves[i] ELSE Absent
        <2>1. At(row, i) = {}  BY <1>7
        <2> HIDE DEF At
        <2> QED  BY <1>5, <1>10, <2>1
    <1>13. IsFilled(leaves, widths, high, rows, tree)
        BY <1>2, <1>8, <1>9, <1>10, <1>11, <1>12 DEF IsFilled
    <1> QED  BY <1>11, <1>13 DEF widths, high, rows, positions, built, tree

\* What is computed from leaves and witnesses, none of which is absent.
LEMMA ComputedFrom ==
    ASSUME NEW n \in Nat \ {0}, NEW leaves, IsRow(leaves, n), NEW unknown, UnknownOf(leaves) = unknown,
           NEW witnesses, \A k \in DOMAIN GetWitnessPositions(n, unknown) : witnesses[k] # Absent
    PROVE  LET rows == UnknownRows(n, unknown)
               positions == GetWitnessPositions(n, unknown)
               tree == SetWitnesses(BuildTreeStructure(leaves), leaves, witnesses)
           IN /\ UnknownChain(n, RowWidths(n), Height(n), unknown, rows)
              /\ IsComputed(leaves, RowWidths(n), Height(n), rows, tree, ComputeRootHash(tree))
              /\ \A row \in 1 .. Height(n) : \A i \in Singles(rows[row]) :
                   \E k \in DOMAIN positions : positions[k] = <<row, i>> /\ tree[row][i] = witnesses[k]
    <1> DEFINE widths == RowWidths(n)
               high == Height(n)
               rows == UnknownRows(n, unknown)
               tree == SetWitnesses(BuildTreeStructure(leaves), leaves, witnesses)
    <1>1. unknown \in SUBSET (1 .. n)  BY DEF UnknownOf, IsRow
    <1>2. Rows(n, widths, high) /\ UnknownChain(n, widths, high, unknown, rows)
        BY <1>1, RowsOfTree, UnknownRowsAre
    <1>3. /\ IsFilled(leaves, widths, high, rows, tree)
          /\ \A row \in 1 .. high : \A i \in Singles(rows[row]) :
               \E k \in DOMAIN GetWitnessPositions(n, unknown) :
                 GetWitnessPositions(n, unknown)[k] = <<row, i>> /\ tree[row][i] = witnesses[k]
        BY WitnessesFill
    <1> HIDE DEF widths, high, rows, tree
    <1>4. IsComputed(leaves, widths, high, rows, tree, ComputeRootHash(tree))
        BY <1>1, <1>2, <1>3, RowsComputed DEF IsComputed
    <1> QED  BY <1>2, <1>3, <1>4 DEF widths, high, rows, tree

\* The root is computed: the one leaf or node of the last row is known, or has a witness.
LEMMA RootComputed ==
    ASSUME NEW n \in Nat \ {0}, NEW widths, NEW high, Rows(n, widths, high),
           NEW unknown, NEW rows, UnknownChain(n, widths, high, unknown, rows),
           NEW leaves, NEW tree, NEW computed, IsComputed(leaves, widths, high, rows, tree, computed)
    PROVE  computed[high][1] # Absent
    <1>1. high \in 1 .. high /\ widths[high] = 1 /\ PaddedWidth(widths[high]) = 1  BY DEF Rows
    <1>2. rows[high] \subseteq 1 .. 1  BY <1>1 DEF UnknownChain
    <1>3. 1 \notin rows[high] \ Singles(rows[high])
        <2>1. Sibling(1) = 2 /\ 2 \notin 1 .. 1  BY DEF Sibling
        <2> QED  BY <1>2, <2>1 DEF Singles
    <1>4. KnownBut(widths[high], rows[high], computed[high])  BY <1>1 DEF IsComputed, RowIs
    <1>5. 1 \in 1 .. PaddedWidth(widths[high])  BY <1>1
    <1> QED  BY <1>3, <1>4, <1>5 DEF KnownBut

\* Leaves that are given, and those that are not.
LEMMA LeavesShown ==
    ASSUME NEW n \in Nat \ {0}, NEW hidden \in SUBSET (1 .. n), NEW given, DOMAIN given = (1 .. n) \ hidden,
           \A i \in (1 .. n) \ hidden : given[i] # Absent
    PROVE  /\ IsRow(Shown(n, given), n) /\ UnknownOf(Shown(n, given)) = hidden
           /\ \A i \in (1 .. n) \ hidden : Shown(n, given)[i] = given[i]
    <1> DEFINE shown == Shown(n, given)
    <1>1. /\ shown = [i \in 1 .. n |-> shown[i]] /\ DOMAIN shown = 1 .. n
          /\ \A i \in 1 .. n : shown[i] = IF i \in (1 .. n) \ hidden THEN given[i] ELSE Absent
        BY DEF Shown
    <1> HIDE DEF shown
    <1>2. IsRow(shown, n)  BY <1>1, RowOf
    <1>3. UnknownOf(shown) = hidden  BY <1>1 DEF UnknownOf
    <1> QED  BY <1>1, <1>2, <1>3 DEF shown

\* All that is checked of the tree of any number of leaves, any of them hidden.
LEMMA LeavesOfTreeVerify ==
    ASSUME NEW n \in Nat \ {0}, NEW hidden \in SUBSET (1 .. n)
    PROVE  LeavesVerify(n, hidden)
    <1> DEFINE leaves == [i \in 1 .. n |-> <<"leaf", i>>]
               whole == ComputeRootHash(BuildTreeStructure(leaves))
               witnesses == GetWitnesses(whole, n, hidden)
               forged == <<"leaf", 0>>
               known == [i \in 1 .. n \ hidden |-> leaves[i]]
               rows == UnknownRows(n, hidden)
               positions == GetWitnessPositions(n, hidden)
               widths == RowWidths(n)
               high == Height(n)
               Given == [1 .. n \ hidden -> {leaves[i] : i \in 1 .. n} \cup {forged}]
    <1>1. \A i : <<"leaf", i>> # Absent
        <2>1. \A i : Len(<<"leaf", i>>) = 2 /\ Len(Absent) = 0  BY DEF Absent
        <2> QED  BY <2>1
    <1>2. IsRow(leaves, n) /\ \A i \in 1 .. n : leaves[i] # Absent
        <2>1. leaves = [i \in 1 .. n |-> leaves[i]]  OBVIOUS
        <2>2. \A i \in 1 .. n : leaves[i] # Absent  BY <1>1
        <2> HIDE DEF leaves
        <2> QED  BY <2>1, <2>2, RowOf
    <1>3. forged # Absent  BY <1>1
    <1>4. \A given \in Given : \A i \in (1 .. n) \ hidden : given[i] # Absent
        <2> HIDE DEF leaves, forged
        <2> QED  BY <1>2, <1>3
    <1>5. known \in Given /\ \A i \in (1 .. n) \ hidden : known[i] = leaves[i]
        <2> HIDE DEF leaves, forged
        <2> QED  OBVIOUS
    <1>6. \A given \in Given : /\ DOMAIN given = (1 .. n) \ hidden
                               /\ given = [i \in (1 .. n) \ hidden |-> given[i]]
        <2> HIDE DEF leaves, forged
        <2> QED  OBVIOUS
    <1>7. known = [i \in (1 .. n) \ hidden |-> known[i]]  BY <1>5, <1>6
    <1> HIDE DEF leaves, forged, known, Given
    <1>8. IsWhole(leaves, widths, high, whole)  BY <1>2, WholeTree
    <1>9. Rows(n, widths, high) /\ UnknownChain(n, widths, high, hidden, rows)
        BY RowsOfTree, UnknownRowsAre
    <1>10. /\ positions \in Seq(Places)
           /\ \A place : place \in ToSet(positions) <=> IsPlaceOf(place, high, rows)
        BY PositionsAre
    <1> HIDE DEF widths, high, rows, positions, whole
    <1>11. IsRow(whole, high)  BY <1>8 DEF IsWhole
    <1>12. ASSUME NEW k \in DOMAIN positions
           PROVE  whole[positions[k][1]][positions[k][2]] # Absent
        <2>1. positions[k] \in ToSet(positions)  BY DEF ToSet
        <2>2. PICK row \in 1 .. high : \E i \in Singles(rows[row]) : positions[k] = <<row, i>>
            BY <1>10, <2>1 DEF IsPlaceOf
        <2>3. PICK i \in Singles(rows[row]) : positions[k] = <<row, i>>  BY <2>2
        <2>4. i \in 1 .. PaddedWidth(widths[row])
            <3>1. i \in 1 .. widths[row] /\ widths[row] \in Nat  BY <1>9 DEF Singles, UnknownChain, Rows
            <3> QED  BY <3>1 DEF PaddedWidth
        <2>5. positions[k][1] = row /\ positions[k][2] = i  BY <2>3
        <2>6. whole[row][i] # Absent  BY <1>8, <2>4 DEF IsWhole
        <2> QED  BY <2>5, <2>6
    <1>13. witnesses = [k \in DOMAIN positions |-> whole[positions[k][1]][positions[k][2]]]
        BY DEF GetWitnesses, positions
    <1> DEFINE N == Len(positions)
    <1>14. N \in Nat /\ DOMAIN positions = 1 .. N  BY <1>10
    <1>15. Len(witnesses) = N /\ DOMAIN witnesses = DOMAIN positions
           /\ \A k \in DOMAIN positions : witnesses[k] = whole[positions[k][1]][positions[k][2]]
        <2> DEFINE read == [k \in 1 .. N |-> whole[positions[k][1]][positions[k][2]]]
        <2>1. read = [k \in 1 .. N |-> read[k]] /\ witnesses = read  BY <1>13, <1>14
        <2>2. IsRow(read, N)
            <3> HIDE DEF read, N
            <3> QED  BY <1>14, <2>1, RowOf
        <2>3. \A k \in 1 .. N : read[k] = whole[positions[k][1]][positions[k][2]]  OBVIOUS
        <2> HIDE DEF read, N, witnesses
        <2> QED  BY <1>14, <2>1, <2>2, <2>3 DEF IsRow
    <1> HIDE DEF witnesses, N
    <1>16. CanGetWitnesses(whole, n, hidden)
        <2>1. \A i \in DOMAIN whole[1] : whole[1][i] # Absent
            <3>1. 1 \in 1 .. high  BY <1>9 DEF Rows
            <3> QED  BY <1>8, <3>1 DEF IsWhole
        <2> QED  BY <1>12, <2>1 DEF CanGetWitnesses, positions
    <1>17. CanSetWitnesses(Shown(n, known), witnesses)
        <2>1. Len(Shown(n, known)) = n /\ UnknownOf(Shown(n, known)) = hidden
            <3>1. DOMAIN known = (1 .. n) \ hidden /\ \A i \in (1 .. n) \ hidden : known[i] # Absent
                BY <1>4, <1>5, <1>6
            <3>2. IsRow(Shown(n, known), n) /\ UnknownOf(Shown(n, known)) = hidden  BY <3>1, LeavesShown
            <3> QED  BY <3>2 DEF IsRow
        <2> QED  BY <1>15, <2>1 DEF CanSetWitnesses, positions, N
    <1>18. RootOf(whole) = whole[high][1]  BY <1>11 DEF RootOf, IsRow
    <1>19. ASSUME NEW given \in Given, NEW others, \A k \in DOMAIN positions : others[k] # Absent
           PROVE  LET shown == Shown(n, given)
                      tree == SetWitnesses(BuildTreeStructure(shown), shown, others)
                      computed == ComputeRootHash(tree)
                  IN /\ \A i \in (1 .. n) \ hidden : shown[i] = given[i]
                     /\ IsComputed(shown, widths, high, rows, tree, computed)
                     /\ \A row \in 1 .. high : \A i \in Singles(rows[row]) :
                          \E k \in DOMAIN positions : positions[k] = <<row, i>> /\ tree[row][i] = others[k]
                     /\ RootWith(shown, others) = computed[high][1] /\ computed[high][1] # Absent
        <2> DEFINE shown == Shown(n, given)
                   tree == SetWitnesses(BuildTreeStructure(shown), shown, others)
                   computed == ComputeRootHash(tree)
        <2>1. /\ IsRow(shown, n) /\ UnknownOf(shown) = hidden
              /\ \A i \in (1 .. n) \ hidden : shown[i] = given[i]
            BY <1>4, <1>6, LeavesShown, ZenonT(60)
        <2>2. RootWith(shown, others) = RootOf(computed)  BY DEF RootWith
        <2> HIDE DEF shown
        <2>3. /\ IsComputed(shown, widths, high, rows, tree, computed)
              /\ \A row \in 1 .. high : \A i \in Singles(rows[row]) :
                   \E k \in DOMAIN positions : positions[k] = <<row, i>> /\ tree[row][i] = others[k]
            BY <1>19, <2>1, ComputedFrom DEF widths, high, rows, positions
        <2> HIDE DEF tree, computed
        <2>4. RootOf(computed) = computed[high][1]  BY <2>3 DEF RootOf, IsComputed, IsRow
        <2>5. computed[high][1] # Absent  BY <1>9, <2>3, RootComputed
        <2> QED  BY <2>1, <2>2, <2>3, <2>4, <2>5 DEF shown, tree, computed
    <1>20. RootWith(Shown(n, known), witnesses) = RootOf(whole)
        <2> DEFINE shown == Shown(n, known)
                   tree == SetWitnesses(BuildTreeStructure(shown), shown, witnesses)
                   computed == ComputeRootHash(tree)
        <2>1. \A k \in DOMAIN positions : witnesses[k] # Absent  BY <1>12, <1>15
        <2>2. /\ \A i \in (1 .. n) \ hidden : shown[i] = known[i]
              /\ IsComputed(shown, widths, high, rows, tree, computed)
              /\ \A row \in 1 .. high : \A i \in Singles(rows[row]) :
                   \E k \in DOMAIN positions : positions[k] = <<row, i>> /\ tree[row][i] = witnesses[k]
              /\ RootWith(shown, witnesses) = computed[high][1] /\ computed[high][1] # Absent
            BY <1>5, <1>19, <2>1
        <2> HIDE DEF shown, tree, computed
        <2>3. ASSUME NEW row \in 1 .. high, NEW i \in Singles(rows[row])
              PROVE  tree[row][i] = whole[row][i]
            <3>1. PICK k \in DOMAIN positions : positions[k] = <<row, i>> /\ tree[row][i] = witnesses[k]
                BY <2>2
            <3>2. positions[k][1] = row /\ positions[k][2] = i  BY <3>1
            <3> QED  BY <1>15, <3>1, <3>2
        <2>4. \A i \in (1 .. n) \ hidden : shown[i] = leaves[i]  BY <1>5, <2>2
        <2>5. \A row \in 1 .. high : Agree(widths[row], computed[row], whole[row])
            BY <1>8, <1>9, <2>2, <2>3, <2>4, AgreeUpwards
        <2>6. high \in 1 .. high /\ 1 \in 1 .. PaddedWidth(widths[high])  BY <1>9 DEF Rows
        <2>7. computed[high][1] = whole[high][1]  BY <2>2, <2>5, <2>6 DEF Agree
        <2> QED  BY <1>18, <2>2, <2>7 DEF shown
    <1>21. ASSUME NEW given \in Given, NEW others, \A k \in DOMAIN positions : others[k] # Absent,
                  RootWith(Shown(n, given), others) = RootOf(whole)
           PROVE  given = known
        <2> DEFINE shown == Shown(n, given)
                   tree == SetWitnesses(BuildTreeStructure(shown), shown, others)
                   computed == ComputeRootHash(tree)
        <2>1. /\ \A i \in (1 .. n) \ hidden : shown[i] = given[i]
              /\ IsComputed(shown, widths, high, rows, tree, computed)
              /\ RootWith(shown, others) = computed[high][1]
            BY <1>19, <1>21
        <2>2. computed[high][1] = whole[high][1]  BY <1>18, <1>21, <2>1
        <2> HIDE DEF shown, tree, computed
        <2>3. \A row \in 1 .. high : Agree(widths[row], computed[row], whole[row])
            BY <1>8, <1>9, <2>1, <2>2, AgreeDownwards
        <2>4. ASSUME NEW i \in (1 .. n) \ hidden PROVE given[i] = known[i]
            <3>1. /\ 1 \in 1 .. high /\ widths[1] = n /\ rows[1] = hidden
                  /\ i \in 1 .. PaddedWidth(widths[1])
                BY <1>9 DEF Rows, UnknownChain, PaddedWidth
            <3>2. computed[1][i] = shown[i]  BY <2>1, <3>1 DEF IsComputed, KnownIs
            <3>3. whole[1][i] = leaves[i]  BY <1>8, <3>1 DEF IsWhole
            <3>4. given[i] # Absent  BY <1>4
            <3>5. computed[1][i] = given[i]  BY <2>1, <3>2
            <3>6. computed[1][i] = whole[1][i]  BY <2>3, <3>1, <3>4, <3>5 DEF Agree
            <3> QED  BY <1>5, <3>3, <3>5, <3>6
        <2> QED  BY <1>6, <1>7, <2>4
    <1>22. ASSUME NEW others \in {witnesses} \cup {[witnesses EXCEPT ![k] = forged] : k \in DOMAIN witnesses}
           PROVE  \A k \in DOMAIN positions : others[k] # Absent
        <2>1. \A k \in DOMAIN positions : witnesses[k] # Absent  BY <1>12, <1>15
        <2> QED  BY <1>3, <1>15, <2>1
    <1> QED  BY <1>16, <1>17, <1>20, <1>21, <1>22 DEF LeavesVerify, whole, witnesses, leaves, forged, known, Given

\* A tree whose leaves are hidden has some.
TreeInput ==
    /\ input \in [of : {"tree"}, leaves : 1 .. MaxLeaves, hidden : SUBSET Nat]
    /\ input.hidden \subseteq 1 .. input.leaves

\* The invariant: the hidden leaves are leaves of the tree.
LEMMA TreeInputHolds ==
    WitnessesSpec => []TreeInput
    <1>1. NothingHidden => TreeInput
        <2>1. 1 \in 1 .. MaxLeaves  BY WitnessesAssumption
        <2> QED  BY <2>1 DEF NothingHidden, TreeInput
    <1>2. TreeInput /\ [AddLeaf \/ HideLeaf]_input => TreeInput'
        <2> SUFFICES ASSUME TreeInput, [AddLeaf \/ HideLeaf]_input
                     PROVE  TreeInput'
            OBVIOUS
        <2>1. /\ input \in [of : {"tree"}, leaves : 1 .. MaxLeaves, hidden : SUBSET Nat]
              /\ input.hidden \subseteq 1 .. input.leaves
            BY DEF TreeInput
        <2>2. CASE AddLeaf
            <3>1. input' = [input EXCEPT !.leaves = input.leaves + 1] /\ input.leaves + 1 \in 1 .. MaxLeaves
                BY <2>1, <2>2, WitnessesAssumption DEF AddLeaf
            <3>2. input'.leaves = input.leaves + 1 /\ input'.hidden = input.hidden  BY <2>1, <3>1
            <3>3. input.hidden \subseteq 1 .. input.leaves + 1  BY <2>1
            <3> QED  BY <2>1, <3>1, <3>2, <3>3 DEF TreeInput
        <2>3. CASE HideLeaf
            <3>1. PICK i \in 1 .. input.leaves : input' = [input EXCEPT !.hidden = input.hidden \cup {i}]
                BY <2>3 DEF HideLeaf
            <3>2. input'.hidden = input.hidden \cup {i} /\ input'.leaves = input.leaves  BY <2>1, <3>1
            <3>3. i \in Nat  BY <2>1
            <3> QED  BY <2>1, <3>1, <3>2, <3>3 DEF TreeInput
        <2>4. CASE UNCHANGED input  BY <2>1, <2>4 DEF TreeInput
        <2> QED  BY <2>2, <2>3, <2>4
    <1> QED  BY <1>1, <1>2, PTL DEF WitnessesSpec

\* Whichever leaves of a tree of any size are hidden, the witnesses for them can be read and are
\* as many as are asked for, the other leaves give the root with them, and no others do, with
\* these witnesses or one of them changed (merkleTree.ts:40-145).
THEOREM WitnessesAreRight ==
    WitnessesSpec => []WitnessesVerify
    <1>1. TreeInput => WitnessesVerify
        <2> SUFFICES ASSUME TreeInput PROVE LeavesVerify(input.leaves, input.hidden)
            BY DEF WitnessesVerify
        <2>1. input.leaves \in Nat \ {0} /\ input.hidden \in SUBSET (1 .. input.leaves)
            BY WitnessesAssumption DEF TreeInput
        <2> QED  BY <2>1, LeavesOfTreeVerify
    <1> QED  BY <1>1, TreeInputHolds, PTL

-----------------------------------------------------------------------------

LEMMA BytesTyped == ByteValues \in Nat \ {0} /\ 4 <= ByteValues
    BY NumbersAssumption

\* The product of what is not 0.
LEMMA PositiveTimes ==
    ASSUME NEW m \in Nat \ {0}, NEW b \in Nat \ {0}
    PROVE  m * b \in Nat \ {0}
    OBVIOUS

\* Limit is what its definition says, for so few bytes that it is there.
LEMMA LimitIs ==
    /\ Limit[0] = 1
    /\ \A size \in 0 .. 6 : Limit[size] \in Nat \ {0}
    /\ \A size \in 1 .. 6 : Limit[size] = Limit[size - 1] * ByteValues
    <1> DEFINE Is(f) == f = [size \in 0 .. 6 |-> IF size = 0 THEN 1 ELSE f[size - 1] * ByteValues]
               T == Nat \ {0}
               F == [k \in 1 .. 6 |-> [x \in T |-> x * ByteValues]]
    <1>1. PICK p : Iterates(p, 6, T, 1, F)
        <2>1. F \in [1 .. 6 -> [T -> T]]
            <3>1. [x \in T |-> x * ByteValues] \in [T -> T]  BY BytesTyped, PositiveTimes
            <3> HIDE DEF T
            <3> QED  BY <3>1
        <2>2. 1 \in T /\ 6 \in Nat  OBVIOUS
        <2> HIDE DEF F, T
        <2> QED  BY <2>1, <2>2, IterationExists
    <1>2. /\ p \in [0 .. 6 -> T] /\ p[0] = 1
          /\ \A k \in 1 .. 6 : p[k] = p[k - 1] * ByteValues
        <2>1. \A k \in 1 .. 6 : \A x \in T : F[k][x] = x * ByteValues  OBVIOUS
        <2> HIDE DEF F, T
        <2>2. p \in [0 .. 6 -> T] /\ p[0] = 1 /\ \A k \in 1 .. 6 : p[k] = F[k][p[k - 1]]
            BY <1>1 DEF Iterates
        <2>3. ASSUME NEW k \in 1 .. 6 PROVE p[k] = p[k - 1] * ByteValues
            <3>1. k - 1 \in 0 .. 6  OBVIOUS
            <3>2. p[k - 1] \in T  BY <2>2, <3>1
            <3> QED  BY <2>1, <2>2, <3>2
        <2> QED  BY <2>2, <2>3
    <1>3. Is(p)
        <2>1. \A size \in 0 .. 6 : p[size] = IF size = 0 THEN 1 ELSE p[size - 1] * ByteValues
            BY <1>2
        <2>2. p = [size \in 0 .. 6 |-> p[size]]  BY <1>2
        <2> QED  BY <2>1, <2>2
    <1>4. Limit = CHOOSE f : Is(f)  BY DEF Limit
    <1>5. Is(Limit)
        <2> HIDE DEF Is
        <2> QED  BY <1>3, <1>4
    <1>6. \A size \in 0 .. 6 : Limit[size] = p[size]
        <2>1. Limit[0] = p[0]  BY <1>2, <1>5
        <2>2. ASSUME NEW k \in 1 .. 6, Limit[k - 1] = p[k - 1] PROVE Limit[k] = p[k]
            BY <1>2, <1>5, <2>2
        <2> QED  BY <2>1, <2>2, RecursionsAgree
    <1> QED  BY <1>2, <1>6

\* A number is made of its quotient and what is left.
LEMMA Division ==
    ASSUME NEW n \in Nat, NEW d \in Nat \ {0}
    PROVE  n \div d \in Nat /\ n % d \in 0 .. d - 1 /\ n = d * (n \div d) + (n % d)
    OBVIOUS

\* A quotient is known by what it leaves.
LEMMA QuotientIs ==
    ASSUME NEW n \in Nat, NEW d \in Nat \ {0}, NEW q \in Nat, NEW r \in 0 .. d - 1, n = d * q + r
    PROVE  n \div d = q /\ n % d = r
    <1>1. n \div d \in Nat /\ n % d \in 0 .. d - 1 /\ n = d * (n \div d) + (n % d)  BY Division
    <1>2. CASE n \div d >= q + 1
        <2>1. d * (n \div d) >= d * (q + 1)  BY <1>1, <1>2
        <2>2. d * (q + 1) = d * q + d  OBVIOUS
        <2> QED  BY <1>1, <2>1, <2>2
    <1>3. CASE q >= n \div d + 1
        <2>1. d * q >= d * (n \div d + 1)  BY <1>1, <1>3
        <2>2. d * (n \div d + 1) = d * (n \div d) + d  BY <1>1
        <2> QED  BY <1>1, <2>1, <2>2
    <1>4. CASE n \div d = q  BY <1>1, <1>4
    <1> QED  BY <1>1, <1>2, <1>3, <1>4

\* To divide twice is to divide by the product.
LEMMA QuotientOfQuotient ==
    ASSUME NEW n \in Nat, NEW m \in Nat \ {0}, NEW b \in Nat \ {0}
    PROVE  n \div (m * b) = (n \div m) \div b
    <1> DEFINE q == n \div m
               r == n % m
               q2 == q \div b
               r2 == q % b
    <1>1. q \in Nat /\ r \in 0 .. m - 1 /\ n = m * q + r  OBVIOUS
    <1>2. q2 \in Nat /\ r2 \in 0 .. b - 1 /\ q = b * q2 + r2  BY <1>1
    <1> HIDE DEF q, r, q2, r2
    <1>3. m * b \in Nat \ {0}  BY PositiveTimes
    <1>4. m * q = (m * b) * q2 + m * r2  BY <1>2
    <1>5. m * r2 + r \in 0 .. m * b - 1
        <2>1. m * r2 <= m * (b - 1) /\ m * r2 \in Nat  BY <1>2
        <2>2. m * (b - 1) = m * b - m  OBVIOUS
        <2> QED  BY <1>1, <1>3, <2>1, <2>2
    <1>6. n = (m * b) * q2 + (m * r2 + r)  BY <1>1, <1>2, <1>3, <1>4
    <1>7. n \div (m * b) = q2  BY <1>2, <1>3, <1>5, <1>6, QuotientIs
    <1> QED  BY <1>7 DEF q2, q

\* What so many bytes are, read one after the other.
IsReading(p, stream, pointer, size) ==
    p = [i \in 0 .. size |->
           IF i = 0 THEN 0 ELSE p[i - 1] * ByteValues + ReadByte(stream, pointer + i - 1)]

\* A number that fits into so many bytes is read back from them.
LEMMA UnsignedReadBack ==
    ASSUME NEW size \in 0 .. 6, NEW n \in Nat, n < Limit[size], NEW stream, NEW pointer \in Nat,
           \A i \in 1 .. size : ReadByte(stream, pointer + i - 1) = WriteUnsigned(n, size)[i]
    PROVE  ReadUnsigned(stream, pointer, size) = n
    <1> DEFINE g == [i \in 0 .. size |-> n \div Limit[size - i]]
               read == CHOOSE p : IsReading(p, stream, pointer, size)
    <1>1. g[0] = 0
        <2>0. 0 \in 0 .. size /\ size - 0 = size  OBVIOUS
        <2>1. g[0] = n \div Limit[size] /\ Limit[size] \in Nat \ {0}
            <3>1. g[0] = n \div Limit[size]  BY <2>0
            <3>2. Limit[size] \in Nat \ {0}  BY LimitIs
            <3> QED  BY <3>1, <3>2
        <2>2. 0 \in Nat /\ n \in 0 .. Limit[size] - 1 /\ n = Limit[size] * 0 + n  BY <2>1
        <2>3. n \div Limit[size] = 0  BY <2>1, <2>2, QuotientIs
        <2> QED  BY <2>1, <2>3
    <1>2. ASSUME NEW i \in 1 .. size
          PROVE  g[i] = g[i - 1] * ByteValues + ReadByte(stream, pointer + i - 1)
        <2> DEFINE j == size - i
        <2>1. j \in 0 .. 5 /\ j + 1 \in 1 .. 6 /\ j \in 0 .. 6 /\ i - 1 \in 0 .. size /\ size - (i - 1) = j + 1
            OBVIOUS
        <2>2. Limit[j + 1] = Limit[j] * ByteValues /\ Limit[j] \in Nat \ {0}
            <3>1. (j + 1) - 1 = j  BY <2>1
            <3> HIDE DEF j
            <3> QED  BY <2>1, <3>1, LimitIs
        <2>3. g[i - 1] = (n \div Limit[j]) \div ByteValues
            <3>1. g[i - 1] = n \div Limit[j + 1]  BY <2>1
            <3> HIDE DEF g, j
            <3> QED  BY <2>2, <3>1, BytesTyped, QuotientOfQuotient
        <2>4. ReadByte(stream, pointer + i - 1) = (n \div Limit[j]) % ByteValues
            BY DEF WriteUnsigned
        <2>5. g[i] = n \div Limit[j]  OBVIOUS
        <2> DEFINE q == n \div Limit[j]
        <2>6. q \in Nat  BY <2>2, Division
        <2> HIDE DEF q, j, g
        <2>7. /\ q \div ByteValues \in Nat /\ q % ByteValues \in Nat
              /\ q = ByteValues * (q \div ByteValues) + (q % ByteValues)
            <3>1. /\ q \div ByteValues \in Nat /\ q % ByteValues \in 0 .. ByteValues - 1
                  /\ q = ByteValues * (q \div ByteValues) + (q % ByteValues)
                BY <2>6, BytesTyped, Division
            <3> QED  BY <3>1, BytesTyped
        <2>8. g[i] = q /\ g[i - 1] = q \div ByteValues
              /\ ReadByte(stream, pointer + i - 1) = q % ByteValues
            BY <2>3, <2>4, <2>5 DEF q
        <2>9. ByteValues * (q \div ByteValues) = (q \div ByteValues) * ByteValues
            BY <2>7, BytesTyped
        <2> QED  BY <2>7, <2>8, <2>9
    <1>3. IsReading(g, stream, pointer, size)
        <2> DEFINE h == [i \in 0 .. size |->
                           IF i = 0 THEN 0 ELSE g[i - 1] * ByteValues + ReadByte(stream, pointer + i - 1)]
        <2>1. ASSUME NEW i \in 0 .. size PROVE g[i] = h[i]
            <3>1. CASE i = 0  BY <1>1, <3>1
            <3>2. CASE i # 0
                <4>1. i \in 1 .. size  BY <3>2
                <4>2. h[i] = g[i - 1] * ByteValues + ReadByte(stream, pointer + i - 1)  BY <3>2
                <4> HIDE DEF g, h
                <4> QED  BY <1>2, <4>1, <4>2
            <3> QED  BY <3>1, <3>2
        <2>2. g = [i \in 0 .. size |-> g[i]] /\ h = [i \in 0 .. size |-> h[i]]  OBVIOUS
        <2> HIDE DEF g, h
        <2>3. g = h  BY <2>1, <2>2
        <2> QED  BY <2>3 DEF IsReading, h
    <1>4. IsReading(read, stream, pointer, size)
        <2> HIDE DEF g
        <2> QED  BY <1>3
    <1>5. ReadUnsigned(stream, pointer, size) = read[size]  BY DEF ReadUnsigned, IsReading
    <1> HIDE DEF read
    <1>6. \A i \in 0 .. size : read[i] = g[i]
        <2>1. read[0] = g[0]  BY <1>1, <1>4 DEF IsReading
        <2>2. ASSUME NEW i \in 1 .. size, read[i - 1] = g[i - 1] PROVE read[i] = g[i]
            <3>1. read[i] = read[i - 1] * ByteValues + ReadByte(stream, pointer + i - 1)
                BY <1>4 DEF IsReading
            <3> HIDE DEF g
            <3> QED  BY <1>2, <2>2, <3>1
        <2> HIDE DEF g
        <2>3. size \in Nat  OBVIOUS
        <2> QED  BY <2>1, <2>2, <2>3, RecursionsAgree
    <1>7. g[size] = n
        <2>1. g[size] = n \div Limit[0]  OBVIOUS
        <2>2. n \div 1 = n  OBVIOUS
        <2> QED  BY <2>1, <2>2, LimitIs
    <1>8. size \in 0 .. size  OBVIOUS
    <1> HIDE DEF g
    <1> QED  BY <1>5, <1>6, <1>7, <1>8

\* The first byte of a number says what was put into it.
LEMMA FlagsReadBack ==
    ASSUME NEW meaning \in Nat, NEW m \in 0 .. ByteValues - 1
    PROVE  /\ Flags(meaning, m) \in Nat
           /\ Flags(meaning, m) \div ByteValues = meaning /\ Flags(meaning, m) % ByteValues = m
    <1>1. ByteValues * meaning \in Nat /\ m \in Nat  BY BytesTyped
    <1>2. Flags(meaning, m) \in Nat /\ Flags(meaning, m) = ByteValues * meaning + m
        BY <1>1 DEF Flags
    <1> QED  BY <1>2, BytesTyped, QuotientIs

LEMMA SixFit == 6 < ByteValues
    BY EncodingsAssumption

\* A number of few bytes is its first byte and the bytes of the number, or of what it is below 0.
LEMMA SizedReadsBack ==
    ASSUME NEW size \in 1 .. 6, NEW n \in Int, -Limit[size] <= n, n < Limit[size]
    PROVE  LET sign == IF n < 0 THEN 1 ELSE 0
               stream == <<Flags(SizedNumber + 2 * sign, size)>>
                         \o WriteUnsigned(IF n < 0 THEN -n - 1 ELSE n, size)
           IN /\ ReadNumber(stream, 0) = [value |-> Integer(n), pointer |-> 1 + size]
              /\ Len(stream) = 1 + size
    <1> DEFINE sign == IF n < 0 THEN 1 ELSE 0
               m == IF n < 0 THEN -n - 1 ELSE n
               first == Flags(SizedNumber + 2 * sign, size)
               bytes == WriteUnsigned(m, size)
               stream == <<first>> \o bytes
    <1>1. m \in Nat /\ m < Limit[size] /\ n = IF sign = 1 THEN -m - 1 ELSE m
        <2>1. Limit[size] \in Nat  BY LimitIs
        <2> QED  BY <2>1
    <1>2. sign \in {0, 1}  OBVIOUS
    <1> HIDE DEF sign, m
    <1>3. /\ first \in Nat /\ first \div ByteValues = SizedNumber + 2 * sign
          /\ first % ByteValues = size
        <2>1. SizedNumber + 2 * sign \in Nat  BY <1>2 DEF SizedNumber
        <2>2. size \in 0 .. ByteValues - 1  BY SixFit, BytesTyped
        <2> QED  BY <2>1, <2>2, FlagsReadBack
    <1>4. bytes = [i \in 1 .. size |-> bytes[i]] /\ bytes \in Seq(Int) /\ Len(bytes) = size
        <2>1. ASSUME NEW i \in 1 .. size PROVE (m \div Limit[size - i]) % ByteValues \in Int
            <3>1. size - i \in 0 .. 6  OBVIOUS
            <3>2. Limit[size - i] \in Nat \ {0}  BY <3>1, LimitIs
            <3>3. m \div Limit[size - i] \in Nat  BY <1>1, <3>2, Division
            <3> QED  BY <3>3, BytesTyped, Division
        <2> QED  BY <2>1 DEF WriteUnsigned
    <1> HIDE DEF bytes, first
    <1>5. Len(stream) = 1 + size /\ stream[1] = first /\ \A i \in 1 .. size : stream[i + 1] = bytes[i]
        <2>1. <<first>> \in Seq(Int) /\ Len(<<first>>) = 1 /\ <<first>>[1] = first  BY <1>3
        <2> DEFINE head == <<first>>
        <2> HIDE DEF head
        <2>2. /\ Len(head \o bytes) = 1 + size /\ (head \o bytes)[1] = head[1]
              /\ \A i \in 1 .. size : (head \o bytes)[i + 1] = bytes[i]
            BY <1>4, <2>1 DEF head
        <2> QED  BY <2>1, <2>2 DEF head
    <1> HIDE DEF stream
    <1>6. ReadByte(stream, 0) = first  BY <1>5 DEF ReadByte
    <1>7. ReadUnsigned(stream, 1, size) = m
        <2>1. ASSUME NEW i \in 1 .. size PROVE ReadByte(stream, 1 + i - 1) = WriteUnsigned(m, size)[i]
            <3>1. 1 + i - 1 = i /\ i < 1 + size  OBVIOUS
            <3> QED  BY <1>5, <3>1 DEF ReadByte, bytes
        <2>2. size \in 0 .. 6 /\ 1 \in Nat  OBVIOUS
        <2> QED  BY <1>1, <2>1, <2>2, UnsignedReadBack
    <1>8. ReadNumber(stream, 0) = [value |-> Integer(n), pointer |-> 1 + size]
        <2>1. SizedNumber + 2 * sign # FloatNumber /\ SizedNumber + 2 * sign # 1
              /\ (SizedNumber + 2 * sign > SizedNumber <=> sign = 1)
            BY <1>2 DEF SizedNumber, FloatNumber
        <2>2. 0 + 1 = 1 /\ 0 + 1 + size = 1 + size  OBVIOUS
        <2> QED  BY <1>1, <1>3, <1>6, <1>7, <2>1, <2>2 DEF ReadNumber
    <1> QED  BY <1>5, <1>8 DEF stream, first, bytes, sign, m

LEMMA SomeIsLeast ==
    ASSUME NEW S \in SUBSET Nat, S # {}
    PROVE  Min(S) \in S
    <1>1. \E x \in S : \A y \in S : x <= y
        <2>1. PICK x \in S : \A y \in S : ~ (<<y, x>> \in OpToRel(<, Nat))
            BY NatLessThanWellFounded, WFMin, Zenon
        <2>2. \A y \in S : ~ (y < x)
            BY <2>1 DEF OpToRel
        <2> QED  BY <2>2
    <1> QED  BY <1>1 DEF Min

\* A number is read back from as many bytes as were written for it.
LEMMA NumberReadsBack ==
    ASSUME NEW number \in [n : Int, fraction : BOOLEAN]
    PROVE  ReadNumber(WriteNumber(number), 0)
             = [value |-> number, pointer |-> Len(WriteNumber(number))]
    <1> DEFINE n == number.n
               small == ~number.fraction /\ -SmallNumber <= n /\ n < SmallNumber
               fits == {size \in 1 .. 6 : /\ ~number.fraction /\ -Limit[size] <= n /\ n < Limit[size]
                                          /\ size > 4 => {n, -n} \cap SingleFloats = {}}
               size == Min(fits)
               sign == IF n < 0 THEN 1 ELSE 0
    <1>0. ByteValues = 4 * SmallNumber /\ SmallNumber \in Nat \ {0}
        BY NumbersAssumption DEF SmallNumber
    <1>1. CASE ~small /\ fits = {}
        <2> DEFINE stream == <<Flags(FloatNumber, 0), number>>
        <2>1. WriteNumber(number) = stream  BY <1>1 DEF WriteNumber
        <2>2. Len(stream) = 2 /\ stream[1] = Flags(FloatNumber, 0) /\ stream[2] = number  OBVIOUS
        <2>3. Flags(FloatNumber, 0) \div ByteValues = FloatNumber
            <3>1. 0 \in 0 .. ByteValues - 1 /\ FloatNumber \in Nat  BY BytesTyped DEF FloatNumber
            <3> QED  BY <3>1, FlagsReadBack
        <2> HIDE DEF stream
        <2>4. ReadByte(stream, 0) = Flags(FloatNumber, 0) /\ ReadByte(stream, 0 + 1) = number
            BY <2>2 DEF ReadByte
        <2>5. ReadNumber(stream, 0) = [value |-> number, pointer |-> 2]
            BY <2>3, <2>4 DEF ReadNumber, FloatNumber
        <2> QED  BY <2>1, <2>2, <2>5
    <1>2. CASE small
        <2> DEFINE first == Flags(1, n + SmallNumber)
                   stream == <<first>>
        <2>1. WriteNumber(number) = stream  BY <1>2 DEF WriteNumber
        <2>2. n + SmallNumber \in 0 .. ByteValues - 1  BY <1>0, <1>2
        <2>3. first \div ByteValues = 1 /\ first % ByteValues = n + SmallNumber
            BY <2>2, FlagsReadBack
        <2> HIDE DEF first
        <2>4. Len(stream) = 1 /\ ReadByte(stream, 0) = first  BY DEF ReadByte
        <2>5. Integer((first % ByteValues) - SmallNumber) = number
            <3>1. (first % ByteValues) - SmallNumber = n  BY <1>0, <2>3
            <3> QED  BY <1>2, <3>1 DEF Integer
        <2> HIDE DEF stream
        <2>6. ReadNumber(stream, 0) = [value |-> number, pointer |-> 1]
            BY <2>3, <2>4, <2>5 DEF ReadNumber, FloatNumber
        <2> QED  BY <2>1, <2>4, <2>6
    <1>3. CASE ~small /\ fits # {}
        <2> DEFINE stream == <<Flags(SizedNumber + 2 * sign, size)>>
                             \o WriteUnsigned(IF n < 0 THEN -n - 1 ELSE n, size)
        <2>1. WriteNumber(number) = stream  BY <1>3 DEF WriteNumber
        <2>2. size \in fits  BY <1>3, SomeIsLeast
        <2>3. size \in 1 .. 6 /\ ~number.fraction /\ -Limit[size] <= n /\ n < Limit[size]
            <3> HIDE DEF size
            <3> QED  BY <2>2
        <2> HIDE DEF fits, size
        <2>4. /\ ReadNumber(stream, 0) = [value |-> Integer(n), pointer |-> 1 + size]
              /\ Len(stream) = 1 + size
            BY <2>3, SizedReadsBack
        <2>5. Integer(n) = number  BY <2>3 DEF Integer
        <2> HIDE DEF stream
        <2> QED  BY <2>1, <2>4, <2>5
    <1> QED  BY <1>1, <1>2, <1>3

\* What is in two lists of numbers one after the other.
LEMMA JoinedNumbers ==
    ASSUME NEW s \in Seq(Int), NEW t \in Seq(Int)
    PROVE  /\ s \o t \in Seq(Int) /\ Len(s \o t) = Len(s) + Len(t)
           /\ \A i \in 1 .. Len(s) : (s \o t)[i] = s[i]
           /\ \A i \in 1 .. Len(t) : (s \o t)[Len(s) + i] = t[i]
    <1>1. Len(s) \in Nat /\ Len(t) \in Nat  OBVIOUS
    <1>2. /\ s \o t \in Seq(Int) /\ Len(s \o t) = Len(s) + Len(t)
          /\ \A i \in 1 .. Len(s) + Len(t) : (s \o t)[i] = IF i <= Len(s) THEN s[i] ELSE t[i - Len(s)]
        BY ConcatProperties
    <1>3. ASSUME NEW i \in 1 .. Len(s) PROVE (s \o t)[i] = s[i]  BY <1>1, <1>2
    <1>4. ASSUME NEW i \in 1 .. Len(t) PROVE (s \o t)[Len(s) + i] = t[i]
        <2>1. /\ Len(s) + i \in 1 .. Len(s) + Len(t) /\ ~ Len(s) + i <= Len(s)
              /\ Len(s) + i - Len(s) = i
            BY <1>1
        <2> QED  BY <1>2, <2>1
    <1> QED  BY <1>2, <1>3, <1>4

\* A seed gives back what it was made of.
LEMMA SeedReadsBack ==
    ASSUME NEW type \in Nat, NEW expiration \in Nat
    PROVE  LET seed == GenesisSeed(type, expiration, Randomness)
           IN /\ ExtractType(seed) = type
              /\ ExtractRandomness(seed) = Randomness
              /\ expiration < Limit[4] \div 2 => ExtractExpirationDay(seed) = expiration
    <1> DEFINE bytes == WriteUnsigned(expiration, 4)
               seed == GenesisSeed(type, expiration, Randomness)
    <1>1. bytes \in Seq(Int) /\ Len(bytes) = 4
        <2>1. ASSUME NEW i \in 1 .. 4 PROVE (expiration \div Limit[4 - i]) % ByteValues \in Int
            <3>1. 4 - i \in 0 .. 6  OBVIOUS
            <3>2. Limit[4 - i] \in Nat \ {0}  BY <3>1, LimitIs
            <3>3. expiration \div Limit[4 - i] \in Nat  BY <3>2, Division
            <3> QED  BY <3>3, BytesTyped, Division
        <2> QED  BY <2>1 DEF WriteUnsigned
    <1>2. seed = <<type>> \o bytes \o <<0, 0, 0>> \o <<1, 2, 3>>  BY DEF GenesisSeed, Randomness
    <1> HIDE DEF bytes
    <1>3. /\ seed \in Seq(Int) /\ Len(seed) = 11 /\ seed[1] = type
          /\ \A i \in 1 .. 4 : seed[i + 1] = bytes[i]
          /\ seed[9] = 1 /\ seed[10] = 2 /\ seed[11] = 3
        <2> DEFINE head == <<type>>
                   unused == <<0, 0, 0>>
                   last == <<1, 2, 3>>
        <2>1. /\ head \in Seq(Int) /\ Len(head) = 1 /\ head[1] = type
              /\ unused \in Seq(Int) /\ Len(unused) = 3
              /\ last \in Seq(Int) /\ Len(last) = 3 /\ last[1] = 1 /\ last[2] = 2 /\ last[3] = 3
            OBVIOUS
        <2>2. seed = ((head \o bytes) \o unused) \o last  BY <1>2
        <2> HIDE DEF head, unused, last, seed
        <2> DEFINE front == head \o bytes
                   middle == front \o unused
        <2>3. /\ front \in Seq(Int) /\ Len(front) = 5
              /\ front[1] = type /\ \A i \in 1 .. 4 : front[i + 1] = bytes[i]
            <3>1. /\ head \o bytes \in Seq(Int) /\ Len(head \o bytes) = Len(head) + Len(bytes)
                  /\ \A i \in 1 .. Len(head) : (head \o bytes)[i] = head[i]
                  /\ \A i \in 1 .. Len(bytes) : (head \o bytes)[Len(head) + i] = bytes[i]
                <4> HIDE DEF front, middle
                <4> QED  BY <1>1, <2>1, JoinedNumbers
            <3>2. 1 \in 1 .. 1 /\ 1 + 4 = 5 /\ \A i \in 1 .. 4 : 1 + i = i + 1  OBVIOUS
            <3> QED  BY <1>1, <2>1, <3>1, <3>2
        <2> HIDE DEF front
        <2>4. /\ middle \in Seq(Int) /\ Len(middle) = 8
              /\ \A i \in 1 .. 5 : middle[i] = front[i]
            <3>1. /\ front \o unused \in Seq(Int) /\ Len(front \o unused) = Len(front) + Len(unused)
                  /\ \A i \in 1 .. Len(front) : (front \o unused)[i] = front[i]
                  /\ \A i \in 1 .. Len(unused) : (front \o unused)[Len(front) + i] = unused[i]
                <4> HIDE DEF middle
                <4> QED  BY <2>1, <2>3, JoinedNumbers
            <3>2. Len(front) = 5 /\ Len(unused) = 3 /\ 5 + 3 = 8  BY <2>1, <2>3
            <3> HIDE DEF middle
            <3>3. Len(front \o unused) = 8 /\ \A i \in 1 .. 5 : (front \o unused)[i] = front[i]
                BY <3>1, <3>2
            <3> QED  BY <3>1, <3>3 DEF middle
        <2> HIDE DEF middle
        <2>5. /\ middle \o last \in Seq(Int) /\ Len(middle \o last) = 11
              /\ \A i \in 1 .. 8 : (middle \o last)[i] = middle[i]
              /\ \A i \in 1 .. 3 : (middle \o last)[8 + i] = last[i]
            <3>1. /\ middle \o last \in Seq(Int) /\ Len(middle \o last) = Len(middle) + Len(last)
                  /\ \A i \in 1 .. Len(middle) : (middle \o last)[i] = middle[i]
                  /\ \A i \in 1 .. Len(last) : (middle \o last)[Len(middle) + i] = last[i]
                BY <2>1, <2>4, JoinedNumbers
            <3>2. Len(middle) = 8 /\ Len(last) = 3 /\ 8 + 3 = 11  BY <2>1, <2>4
            <3> DEFINE both == middle \o last
            <3> HIDE DEF both
            <3>3. /\ both \in Seq(Int) /\ Len(both) = Len(middle) + Len(last)
                  /\ \A i \in 1 .. Len(middle) : both[i] = middle[i]
                  /\ \A i \in 1 .. Len(last) : both[Len(middle) + i] = last[i]
                BY <3>1 DEF both
            <3>4. /\ both \in Seq(Int) /\ Len(both) = 11
                  /\ \A i \in 1 .. 8 : both[i] = middle[i]
                  /\ \A i \in 1 .. 3 : both[8 + i] = last[i]
                BY <3>2, <3>3
            <3> QED  BY <3>4 DEF both
        <2>6. seed = middle \o last  BY <2>2 DEF middle, front
        <2>7. \A i \in 1 .. 5 : seed[i] = front[i]
            <3>1. \A i \in 1 .. 5 : i \in 1 .. 8  OBVIOUS
            <3> QED  BY <2>4, <2>5, <2>6, <3>1
        <2>8. \A i \in 1 .. 4 : i + 1 \in 1 .. 5  OBVIOUS
        <2>9. 8 + 1 = 9 /\ 8 + 2 = 10 /\ 8 + 3 = 11 /\ 1 \in 1 .. 3 /\ 2 \in 1 .. 3 /\ 3 \in 1 .. 3
            OBVIOUS
        <2>10. seed[1] = type /\ \A i \in 1 .. 4 : seed[i + 1] = bytes[i]
            BY <2>3, <2>7, <2>8
        <2>11. \A i \in 1 .. 3 : seed[8 + i] = last[i]  BY <2>5, <2>6
        <2>12. seed[9] = 1 /\ seed[10] = 2 /\ seed[11] = 3  BY <2>1, <2>9, <2>11
        <2> QED  BY <2>5, <2>6, <2>10, <2>12
    <1> HIDE DEF seed
    <1>4. ExtractType(seed) = type  BY <1>3 DEF ExtractType
    <1>5. ExtractRandomness(seed) = Randomness
        <2> DEFINE rest == SubSeq(seed, 9, 11)
        <2>1. rest \in Seq(Int) /\ Len(rest) = 3 /\ \A i \in 1 .. 3 : rest[i] = seed[9 + i - 1]
            BY <1>3, SubSeqProperties
        <2>2. rest[1] = 1 /\ rest[2] = 2 /\ rest[3] = 3
            <3>1. 9 + 1 - 1 = 9 /\ 9 + 2 - 1 = 10 /\ 9 + 3 - 1 = 11 /\ 1 \in 1 .. 3 /\ 2 \in 1 .. 3 /\ 3 \in 1 .. 3
                OBVIOUS
            <3> QED  BY <1>3, <2>1, <3>1
        <2> HIDE DEF rest
        <2>3. rest = <<1, 2, 3>>  BY <2>1, <2>2
        <2> QED  BY <1>3, <2>3 DEF ExtractRandomness, Randomness, rest
    <1>6. ASSUME expiration < Limit[4] \div 2 PROVE ExtractExpirationDay(seed) = expiration
        <2>1. Limit[4] \in Nat  BY LimitIs
        <2>2. expiration < Limit[4]  BY <1>6, <2>1
        <2>3. ReadUnsigned(seed, 1, 4) = expiration
            <3>1. ASSUME NEW i \in 1 .. 4
                  PROVE  ReadByte(seed, 1 + i - 1) = WriteUnsigned(expiration, 4)[i]
                <4>1. 1 + i - 1 = i /\ i < 11  OBVIOUS
                <4> QED  BY <1>3, <4>1 DEF ReadByte, bytes
            <3>2. 4 \in 0 .. 6 /\ 1 \in Nat  OBVIOUS
            <3> QED  BY <2>2, <3>1, <3>2, UnsignedReadBack
        <2> QED  BY <1>6, <2>3 DEF ExtractExpirationDay, SignedWord
    <1> QED  BY <1>4, <1>5, <1>6 DEF seed

\* A byte has as many values as four digits have, to the third.
LEMMA ByteAndDigitValues ==
    \/ ByteValues = 16 /\ DigitValues = 8
    \/ ByteValues = 256 /\ DigitValues = 64
    BY EncodingsAssumption

LEMMA SmallLimits ==
    Limit[1] = ByteValues /\ Limit[2] = ByteValues * ByteValues /\ Limit[3] = ByteValues * ByteValues * ByteValues
    <1>1. 1 - 1 = 0 /\ 2 - 1 = 1 /\ 3 - 1 = 2 /\ 1 \in 1 .. 6 /\ 2 \in 1 .. 6 /\ 3 \in 1 .. 6  OBVIOUS
    <1>2. Limit[1] = Limit[0] * ByteValues /\ Limit[2] = Limit[1] * ByteValues /\ Limit[3] = Limit[2] * ByteValues
        BY <1>1, LimitIs
    <1>3. 1 * ByteValues = ByteValues  BY NumbersAssumption
    <1> QED  BY <1>2, <1>3, LimitIs

\* Three bytes as one number, and the first two of them again.
Made(v, x, y, z, k) ==
    /\ x \in 0 .. k - 1 /\ y \in 0 .. k - 1 /\ z \in 0 .. k - 1
    /\ v = (x * k + y) * k + z
FirstIs(v, x, k, kk) == (v \div kk) % k = x
SecondIs(v, y, k) == (v \div k) % k = y
ThirdIs(v, z, k) == (v \div 1) % k = z

\* What padding makes of the digits before.
IsPadded(after, before, d) == after = (before - (before % 2) + 1) * d

LEMMA Bytes16 ==
    ASSUME NEW x, NEW y, NEW z, NEW v, Made(v, x, y, z, 16)
    PROVE  /\ v \in Nat /\ v < 4096
           /\ FirstIs(v, x, 16, 256) /\ SecondIs(v, y, 16) /\ ThirdIs(v, z, 16)
    <1>1. x \in 0 .. 15 /\ y \in 0 .. 15 /\ z \in 0 .. 15 /\ v = (x * 16 + y) * 16 + z
        BY SMT DEF Made
    <1>2. v \in Nat /\ v < 4096  BY <1>1, SMT
    <1>3. v \div 256 = x /\ v \div 16 = x * 16 + y /\ v \div 1 = v  BY <1>1, SMT
    <1>4. x % 16 = x /\ (x * 16 + y) % 16 = y /\ v % 16 = z  BY <1>1, SMT
    <1> QED  BY <1>2, <1>3, <1>4, SMT DEF FirstIs, SecondIs, ThirdIs

LEMMA Digits16 ==
    ASSUME NEW v \in Nat, v < 4096
    PROVE  /\ (v \div 512) % 8 = v \div 512
           /\ (v \div 512) * 8 + ((v \div 64) % 8) = v \div 64
           /\ (v \div 64) * 8 + ((v \div 8) % 8) = v \div 8
           /\ (v \div 8) * 8 + ((v \div 1) % 8) = v
    <1>1. v \div 512 \in 0 .. 7  BY SMT
    <1>2. v \div 64 \in Nat /\ v \div 8 \in Nat  BY SMT
    <1>3. v \div 512 = (v \div 64) \div 8 /\ v \div 64 = (v \div 8) \div 8 /\ v \div 1 = v
        BY SMT
    <1>4. \A n \in Nat : (n \div 8) * 8 + (n % 8) = n  BY SMT
    <1>5. \A n \in 0 .. 7 : n % 8 = n  BY SMT
    <1> QED  BY <1>1, <1>2, <1>3, <1>4, <1>5, SMT

LEMMA Padded16 ==
    ASSUME NEW x, NEW y, NEW v, Made(v, x, y, 0, 16), NEW one, IsPadded(one, v \div 8, 8)
    PROVE  FirstIs(one, x, 16, 256) /\ SecondIs(one, y, 16)
    <1>1. x \in 0 .. 15 /\ y \in 0 .. 15 /\ v = (x * 16 + y) * 16  BY SMT DEF Made
    <1>2. v \div 8 = (x * 16 + y) * 2 /\ (v \div 8) % 2 = 0  BY <1>1, SMT
    <1>3. one = v + 8  BY <1>1, <1>2, SMT DEF IsPadded
    <1>4. one \div 256 = x /\ one \div 16 = x * 16 + y  BY <1>1, <1>3, SMT
    <1>5. x % 16 = x /\ (x * 16 + y) % 16 = y  BY <1>1, SMT
    <1> QED  BY <1>4, <1>5, SMT DEF FirstIs, SecondIs

LEMMA PaddedTwice16 ==
    ASSUME NEW x, NEW v, Made(v, x, 0, 0, 16),
           NEW one, IsPadded(one, v \div 64, 8), NEW two, IsPadded(two, one, 8)
    PROVE  FirstIs(two, x, 16, 256)
    <1>1. x \in 0 .. 15 /\ v = (x * 16) * 16  BY SMT DEF Made
    <1>2. v \div 64 = x * 4 /\ (v \div 64) % 2 = 0  BY <1>1, SMT
    <1>3. one = x * 32 + 8  BY <1>1, <1>2, SMT DEF IsPadded
    <1>4. one % 2 = 0  BY <1>1, <1>3, SMT
    <1>5. two = v + 72  BY <1>1, <1>3, <1>4, SMT DEF IsPadded
    <1>6. two \div 256 = x /\ x % 16 = x  BY <1>1, <1>5, SMT
    <1> QED  BY <1>6, SMT DEF FirstIs

LEMMA Bytes256 ==
    ASSUME NEW x, NEW y, NEW z, NEW v, Made(v, x, y, z, 256)
    PROVE  /\ v \in Nat /\ v < 16777216
           /\ FirstIs(v, x, 256, 65536) /\ SecondIs(v, y, 256) /\ ThirdIs(v, z, 256)
    <1>1. x \in 0 .. 255 /\ y \in 0 .. 255 /\ z \in 0 .. 255 /\ v = (x * 256 + y) * 256 + z
        BY SMT DEF Made
    <1>2. v \in Nat /\ v < 16777216  BY <1>1, SMT
    <1>3. v \div 65536 = x /\ v \div 256 = x * 256 + y /\ v \div 1 = v  BY <1>1, SMT
    <1>4. x % 256 = x /\ (x * 256 + y) % 256 = y /\ v % 256 = z  BY <1>1, SMT
    <1> QED  BY <1>2, <1>3, <1>4, SMT DEF FirstIs, SecondIs, ThirdIs

LEMMA Digits256 ==
    ASSUME NEW v \in Nat, v < 16777216
    PROVE  /\ (v \div 262144) % 64 = v \div 262144
           /\ (v \div 262144) * 64 + ((v \div 4096) % 64) = v \div 4096
           /\ (v \div 4096) * 64 + ((v \div 64) % 64) = v \div 64
           /\ (v \div 64) * 64 + ((v \div 1) % 64) = v
    <1>1. v \div 262144 \in 0 .. 63  BY SMT
    <1>2. v \div 4096 \in Nat /\ v \div 64 \in Nat  BY SMT
    <1>3. v \div 262144 = (v \div 4096) \div 64 /\ v \div 4096 = (v \div 64) \div 64 /\ v \div 1 = v
        BY SMT
    <1>4. \A n \in Nat : (n \div 64) * 64 + (n % 64) = n  BY SMT
    <1>5. \A n \in 0 .. 63 : n % 64 = n  BY SMT
    <1> QED  BY <1>1, <1>2, <1>3, <1>4, <1>5, SMT

LEMMA Padded256 ==
    ASSUME NEW x, NEW y, NEW v, Made(v, x, y, 0, 256), NEW one, IsPadded(one, v \div 64, 64)
    PROVE  FirstIs(one, x, 256, 65536) /\ SecondIs(one, y, 256)
    <1>1. x \in 0 .. 255 /\ y \in 0 .. 255 /\ v = (x * 256 + y) * 256  BY SMT DEF Made
    <1>2. v \div 64 = (x * 256 + y) * 4 /\ (v \div 64) % 2 = 0  BY <1>1, SMT
    <1>3. one = v + 64  BY <1>1, <1>2, SMT DEF IsPadded
    <1>4. one \div 65536 = x /\ one \div 256 = x * 256 + y  BY <1>1, <1>3, SMT
    <1>5. x % 256 = x /\ (x * 256 + y) % 256 = y  BY <1>1, SMT
    <1> QED  BY <1>4, <1>5, SMT DEF FirstIs, SecondIs

LEMMA PaddedTwice256 ==
    ASSUME NEW x, NEW v, Made(v, x, 0, 0, 256),
           NEW one, IsPadded(one, v \div 4096, 64), NEW two, IsPadded(two, one, 64)
    PROVE  FirstIs(two, x, 256, 65536)
    <1>1. x \in 0 .. 255 /\ v = (x * 256) * 256  BY SMT DEF Made
    <1>2. v \div 4096 = x * 16 /\ (v \div 4096) % 2 = 0  BY <1>1, SMT
    <1>3. one = x * 1024 + 64  BY <1>1, <1>2, SMT DEF IsPadded
    <1>4. one % 2 = 0  BY <1>1, <1>3, SMT
    <1>5. two = v + 4160  BY <1>1, <1>3, <1>4, SMT DEF IsPadded
    <1>6. two \div 65536 = x /\ x % 256 = x  BY <1>1, <1>5, SMT
    <1> QED  BY <1>6, SMT DEF FirstIs

\* Three bytes, or fewer and 0 for the others, as one number.
OfThree(b) == (b[1] * ByteValues + b[2]) * ByteValues + b[3]

Three(b) == b \in [1 .. 3 -> 0 .. ByteValues - 1]

\* The bytes of three bytes.
LEMMA BytesOfThree ==
    ASSUME NEW b, Three(b)
    PROVE  OfThree(b) \in Nat /\ OfThree(b) < Limit[3] /\ \A i \in 1 .. 3 : WriteUnsigned(OfThree(b), 3)[i] = b[i]
    <1> DEFINE v == OfThree(b)
    <1>1. b[1] \in 0 .. ByteValues - 1 /\ b[2] \in 0 .. ByteValues - 1 /\ b[3] \in 0 .. ByteValues - 1
        BY DEF Three
    <1>2. /\ v \in Nat /\ v < Limit[3]
          /\ (v \div Limit[2]) % ByteValues = b[1]
          /\ (v \div Limit[1]) % ByteValues = b[2]
          /\ (v \div Limit[0]) % ByteValues = b[3]
        <2>1. CASE ByteValues = 16
            <3>1. Limit[0] = 1 /\ Limit[1] = 16 /\ Limit[2] = 256 /\ Limit[3] = 4096
                BY <2>1, SmallLimits, LimitIs, SMT
            <3>2. Made(v, b[1], b[2], b[3], 16)  BY <1>1, <2>1, SMT DEF OfThree, Made
            <3> HIDE DEF v
            <3>3. /\ v \in Nat /\ v < 4096
                  /\ FirstIs(v, b[1], 16, 256) /\ SecondIs(v, b[2], 16) /\ ThirdIs(v, b[3], 16)
                BY <3>2, Bytes16
            <3> QED  BY <2>1, <3>1, <3>3, SMT DEF FirstIs, SecondIs, ThirdIs
        <2>2. CASE ByteValues = 256
            <3>1. Limit[0] = 1 /\ Limit[1] = 256 /\ Limit[2] = 65536 /\ Limit[3] = 16777216
                BY <2>2, SmallLimits, LimitIs, SMT
            <3>2. Made(v, b[1], b[2], b[3], 256)  BY <1>1, <2>2, SMT DEF OfThree, Made
            <3> HIDE DEF v
            <3>3. /\ v \in Nat /\ v < 16777216
                  /\ FirstIs(v, b[1], 256, 65536) /\ SecondIs(v, b[2], 256) /\ ThirdIs(v, b[3], 256)
                BY <3>2, Bytes256
            <3> QED  BY <2>2, <3>1, <3>3, SMT DEF FirstIs, SecondIs, ThirdIs
        <2> QED  BY <2>1, <2>2, ByteAndDigitValues
    <1> HIDE DEF v
    <1>3. \A i \in 1 .. 3 : (i = 1 /\ 3 - i = 2) \/ (i = 2 /\ 3 - i = 1) \/ (i = 3 /\ 3 - i = 0)  OBVIOUS
    <1>4. \A i \in 1 .. 3 : WriteUnsigned(v, 3)[i] = (v \div Limit[3 - i]) % ByteValues  BY DEF WriteUnsigned
    <1>5. ASSUME NEW i \in 1 .. 3 PROVE WriteUnsigned(v, 3)[i] = b[i]
        BY <1>2, <1>3, <1>4
    <1> QED  BY <1>2, <1>5 DEF v

\* The digits of three bytes, of which so many past the end are padding, and their bytes again.
DigitsOrPadding(v, m) == [k \in 1 .. 4 |-> IF k <= 4 - m THEN Digit(v, 4 - k) ELSE Padding]

Undone(w) == AddDigit(AddDigit(AddDigit(AddDigit(0, w[1]), w[2]), w[3]), w[4])

LEMMA DigitsAreDigits ==
    ASSUME NEW v \in Nat, NEW k \in 1 .. 4
    PROVE  Digit(v, 4 - k) \in 0 .. DigitValues - 1 /\ Digit(v, 4 - k) # Padding
    <1>1. (k = 1 /\ 4 - k = 3) \/ (k = 2 /\ 4 - k = 2) \/ (k = 3 /\ 4 - k = 1) \/ (k = 4 /\ 4 - k = 0)  OBVIOUS
    <1>2. CASE DigitValues = 8
        <2>1. 8 ^ 0 = 1 /\ 8 ^ 1 = 8 /\ 8 ^ 2 = 64 /\ 8 ^ 3 = 512  BY SMT
        <2> QED  BY <1>1, <1>2, <2>1 DEF Digit, Padding
    <1>3. CASE DigitValues = 64
        <2>1. 64 ^ 0 = 1 /\ 64 ^ 1 = 64 /\ 64 ^ 2 = 4096 /\ 64 ^ 3 = 262144  BY SMT
        <2> QED  BY <1>1, <1>3, <2>1, SMT DEF Digit, Padding
    <1> QED  BY <1>2, <1>3, ByteAndDigitValues

LEMMA DigitsUndone ==
    ASSUME NEW b, Three(b), NEW m \in 0 .. 2, \A i \in 1 .. 3 : i > 3 - m => b[i] = 0
    PROVE  LET n == Undone(DigitsOrPadding(OfThree(b), m))
           IN \A i \in 1 .. 3 - m : WriteUnsigned(n, 3)[i] = b[i]
    <1> DEFINE v == OfThree(b)
               w == DigitsOrPadding(v, m)
               n == Undone(w)
    <1>1. b[1] \in 0 .. ByteValues - 1 /\ b[2] \in 0 .. ByteValues - 1 /\ b[3] \in 0 .. ByteValues - 1
        BY DEF Three
    <1>2. /\ w[1] = Digit(v, 3) /\ w[2] = Digit(v, 2)
          /\ w[3] = IF m = 2 THEN Padding ELSE Digit(v, 1)
          /\ w[4] = IF m = 0 THEN Digit(v, 0) ELSE Padding
        BY DEF DigitsOrPadding
    <1>3. v = (b[1] * ByteValues + b[2]) * ByteValues + b[3]  BY DEF OfThree
    <1> HIDE DEF v
    <1>4. \A k \in 0 .. 3 : Digit(v, k) # Padding
        <2>1. v \in Nat  BY BytesOfThree DEF v
        <2>2. \A k \in 0 .. 3 : 4 - (4 - k) = k /\ 4 - k \in 1 .. 4  OBVIOUS
        <2> QED  BY <2>1, <2>2, DigitsAreDigits
    <1>5. v \in Nat /\ v < Limit[3]  BY BytesOfThree DEF v
    <1>6. (m >= 1 => b[3] = 0) /\ (m = 2 => b[2] = 0)  OBVIOUS
    <1> HIDE DEF w
    <1>7. CASE ByteValues = 16 /\ DigitValues = 8
        <2>1. 8 ^ 0 = 1 /\ 8 ^ 1 = 8 /\ 8 ^ 2 = 64 /\ 8 ^ 3 = 512  BY SMT
        <2>2. /\ Digit(v, 3) = (v \div 512) % 8 /\ Digit(v, 2) = (v \div 64) % 8
              /\ Digit(v, 1) = (v \div 8) % 8 /\ Digit(v, 0) = (v \div 1) % 8
            BY <1>7, <2>1, SMT DEF Digit
        <2>3. Limit[0] = 1 /\ Limit[1] = 16 /\ Limit[2] = 256 /\ Limit[3] = 4096
            BY <1>7, SmallLimits, LimitIs, SMT
        <2>4. /\ (v \div 512) % 8 = v \div 512
              /\ (v \div 512) * 8 + ((v \div 64) % 8) = v \div 64
              /\ (v \div 64) * 8 + ((v \div 8) % 8) = v \div 8
              /\ (v \div 8) * 8 + ((v \div 1) % 8) = v
            BY <1>5, <2>3, Digits16, SMT
        <2>5. \A acc \in Nat, k \in 0 .. 3 : AddDigit(acc, Digit(v, k)) = acc * 8 + Digit(v, k)
            BY <1>4, <1>7, SMT DEF AddDigit
        <2>6. \A acc : AddDigit(acc, Padding) = (acc - (acc % 2) + 1) * 8
            BY <1>7, SMT DEF AddDigit
        <2>7. AddDigit(0, w[1]) = v \div 512
            <3>1. v \div 512 \in Nat  BY <1>5, Division, SMT
            <3>2. Digit(v, 3) = v \div 512  BY <2>2, <2>4
            <3>3. 0 * 8 + Digit(v, 3) = Digit(v, 3) /\ 3 \in 0 .. 3 /\ 0 \in Nat
                <4> DEFINE digit == Digit(v, 3)
                <4>1. digit \in Nat  BY <3>1, <3>2
                <4> HIDE DEF digit
                <4>2. 0 * 8 + digit = digit  BY <4>1, SMT
                <4> QED  BY <4>2 DEF digit
            <3> QED  BY <1>2, <2>5, <3>2, <3>3
        <2>8. AddDigit(AddDigit(0, w[1]), w[2]) = v \div 64
            <3>1. v \div 512 \in Nat /\ 2 \in 0 .. 3  BY <1>5, Division, SMT
            <3> QED  BY <1>2, <2>2, <2>4, <2>5, <2>7, <3>1
        <2>9. CASE m = 2
            <3> DEFINE first == AddDigit(v \div 64, Padding)
            <3>1. n = AddDigit(first, Padding)  BY <1>2, <2>8, <2>9 DEF Undone
            <3>2. Made(v, b[1], 0, 0, 16)  BY <1>1, <1>3, <1>6, <1>7, <2>9, SMT DEF Made
            <3> HIDE DEF first, n
            <3>3. FirstIs(n, b[1], 16, 256)
                <4>1. IsPadded(n, first, 8) /\ IsPadded(first, v \div 64, 8)
                    BY <2>6, <3>1 DEF first, IsPadded
                <4> QED  BY <3>2, <4>1, PaddedTwice16
            <3>4. WriteUnsigned(n, 3)[1] = b[1]
                <4>1. 3 - 1 = 2 /\ 1 \in 1 .. 3  BY SMT
                <4> QED  BY <1>7, <2>3, <3>3, <4>1, SMT DEF WriteUnsigned, FirstIs
            <3>5. \A i \in 1 .. 3 - m : i = 1  BY <2>9
            <3> QED  BY <3>4, <3>5 DEF n, w, v
        <2>10. AddDigit(AddDigit(AddDigit(0, w[1]), w[2]), Digit(v, 1)) = v \div 8
            <3>1. v \div 64 \in Nat /\ 1 \in 0 .. 3  BY <1>5, Division, SMT
            <3> QED  BY <2>2, <2>4, <2>5, <2>8, <3>1
        <2>11. CASE m = 1
            <3>1. n = AddDigit(v \div 8, Padding)  BY <1>2, <2>10, <2>11 DEF Undone
            <3>2. Made(v, b[1], b[2], 0, 16)  BY <1>1, <1>3, <1>6, <1>7, <2>11, SMT DEF Made
            <3> HIDE DEF n
            <3>3. FirstIs(n, b[1], 16, 256) /\ SecondIs(n, b[2], 16)
                <4>1. IsPadded(n, v \div 8, 8)  BY <2>6, <3>1 DEF IsPadded
                <4> QED  BY <3>2, <4>1, Padded16
            <3>4. WriteUnsigned(n, 3)[1] = b[1] /\ WriteUnsigned(n, 3)[2] = b[2]
                <4>1. 3 - 1 = 2 /\ 1 \in 1 .. 3 /\ 3 - 2 = 1 /\ 2 \in 1 .. 3  BY SMT
                <4> QED  BY <1>7, <2>3, <3>3, <4>1, SMT DEF WriteUnsigned, FirstIs, SecondIs
            <3>5. \A i \in 1 .. 3 - m : i = 1 \/ i = 2  BY <2>11
            <3> QED  BY <3>4, <3>5 DEF n, w, v
        <2>12. CASE m = 0
            <3>1. n = v
                <4>1. v \div 8 \in Nat /\ 0 \in 0 .. 3  BY <1>5, Division, SMT
                <4> QED  BY <1>2, <2>2, <2>4, <2>5, <2>10, <2>12, <4>1 DEF Undone
            <3>2. \A i \in 1 .. 3 : WriteUnsigned(v, 3)[i] = b[i]  BY BytesOfThree DEF v
            <3>3. \A i \in 1 .. 3 - m : i \in 1 .. 3  BY <2>12
            <3> HIDE DEF n
            <3> QED  BY <3>1, <3>2, <3>3 DEF n, w, v
        <2> QED  BY <2>9, <2>11, <2>12
    <1>8. CASE ByteValues = 256 /\ DigitValues = 64
        <2>1. 64 ^ 0 = 1 /\ 64 ^ 1 = 64 /\ 64 ^ 2 = 4096 /\ 64 ^ 3 = 262144  BY SMT
        <2>2. /\ Digit(v, 3) = (v \div 262144) % 64 /\ Digit(v, 2) = (v \div 4096) % 64
              /\ Digit(v, 1) = (v \div 64) % 64 /\ Digit(v, 0) = (v \div 1) % 64
            BY <1>8, <2>1, SMT DEF Digit
        <2>3. Limit[0] = 1 /\ Limit[1] = 256 /\ Limit[2] = 65536 /\ Limit[3] = 16777216
            BY <1>8, SmallLimits, LimitIs, SMT
        <2>4. /\ (v \div 262144) % 64 = v \div 262144
              /\ (v \div 262144) * 64 + ((v \div 4096) % 64) = v \div 4096
              /\ (v \div 4096) * 64 + ((v \div 64) % 64) = v \div 64
              /\ (v \div 64) * 64 + ((v \div 1) % 64) = v
            BY <1>5, <2>3, Digits256, SMT
        <2>5. \A acc \in Nat, k \in 0 .. 3 : AddDigit(acc, Digit(v, k)) = acc * 64 + Digit(v, k)
            BY <1>4, <1>8, SMT DEF AddDigit
        <2>6. \A acc : AddDigit(acc, Padding) = (acc - (acc % 2) + 1) * 64
            BY <1>8, SMT DEF AddDigit
        <2>7. AddDigit(0, w[1]) = v \div 262144
            <3>1. v \div 262144 \in Nat  BY <1>5, Division, SMT
            <3>2. Digit(v, 3) = v \div 262144  BY <2>2, <2>4
            <3>3. 0 * 64 + Digit(v, 3) = Digit(v, 3) /\ 3 \in 0 .. 3 /\ 0 \in Nat
                <4> DEFINE digit == Digit(v, 3)
                <4>1. digit \in Nat  BY <3>1, <3>2
                <4> HIDE DEF digit
                <4>2. 0 * 64 + digit = digit  BY <4>1, SMT
                <4> QED  BY <4>2 DEF digit
            <3> QED  BY <1>2, <2>5, <3>2, <3>3
        <2>8. AddDigit(AddDigit(0, w[1]), w[2]) = v \div 4096
            <3>1. v \div 262144 \in Nat /\ 2 \in 0 .. 3  BY <1>5, Division, SMT
            <3> QED  BY <1>2, <2>2, <2>4, <2>5, <2>7, <3>1
        <2>9. CASE m = 2
            <3> DEFINE first == AddDigit(v \div 4096, Padding)
            <3>1. n = AddDigit(first, Padding)  BY <1>2, <2>8, <2>9 DEF Undone
            <3>2. Made(v, b[1], 0, 0, 256)  BY <1>1, <1>3, <1>6, <1>8, <2>9, SMT DEF Made
            <3> HIDE DEF first, n
            <3>3. FirstIs(n, b[1], 256, 65536)
                <4>1. IsPadded(n, first, 64) /\ IsPadded(first, v \div 4096, 64)
                    BY <2>6, <3>1 DEF first, IsPadded
                <4> QED  BY <3>2, <4>1, PaddedTwice256
            <3>4. WriteUnsigned(n, 3)[1] = b[1]
                <4>1. 3 - 1 = 2 /\ 1 \in 1 .. 3  BY SMT
                <4> QED  BY <1>8, <2>3, <3>3, <4>1, SMT DEF WriteUnsigned, FirstIs
            <3>5. \A i \in 1 .. 3 - m : i = 1  BY <2>9
            <3> QED  BY <3>4, <3>5 DEF n, w, v
        <2>10. AddDigit(AddDigit(AddDigit(0, w[1]), w[2]), Digit(v, 1)) = v \div 64
            <3>1. v \div 4096 \in Nat /\ 1 \in 0 .. 3  BY <1>5, Division, SMT
            <3> QED  BY <2>2, <2>4, <2>5, <2>8, <3>1
        <2>11. CASE m = 1
            <3>1. n = AddDigit(v \div 64, Padding)  BY <1>2, <2>10, <2>11 DEF Undone
            <3>2. Made(v, b[1], b[2], 0, 256)  BY <1>1, <1>3, <1>6, <1>8, <2>11, SMT DEF Made
            <3> HIDE DEF n
            <3>3. FirstIs(n, b[1], 256, 65536) /\ SecondIs(n, b[2], 256)
                <4>1. IsPadded(n, v \div 64, 64)  BY <2>6, <3>1 DEF IsPadded
                <4> QED  BY <3>2, <4>1, Padded256
            <3>4. WriteUnsigned(n, 3)[1] = b[1] /\ WriteUnsigned(n, 3)[2] = b[2]
                <4>1. 3 - 1 = 2 /\ 1 \in 1 .. 3 /\ 3 - 2 = 1 /\ 2 \in 1 .. 3  BY SMT
                <4> QED  BY <1>8, <2>3, <3>3, <4>1, SMT DEF WriteUnsigned, FirstIs, SecondIs
            <3>5. \A i \in 1 .. 3 - m : i = 1 \/ i = 2  BY <2>11
            <3> QED  BY <3>4, <3>5 DEF n, w, v
        <2>12. CASE m = 0
            <3>1. n = v
                <4>1. v \div 64 \in Nat /\ 0 \in 0 .. 3  BY <1>5, Division, SMT
                <4> QED  BY <1>2, <2>2, <2>4, <2>5, <2>10, <2>12, <4>1 DEF Undone
            <3>2. \A i \in 1 .. 3 : WriteUnsigned(v, 3)[i] = b[i]  BY BytesOfThree DEF v
            <3>3. \A i \in 1 .. 3 - m : i \in 1 .. 3  BY <2>12
            <3> HIDE DEF n
            <3> QED  BY <3>1, <3>2, <3>3 DEF n, w, v
        <2> QED  BY <2>9, <2>11, <2>12
    <1> QED  BY <1>7, <1>8, ByteAndDigitValues

\* What is read of bytes three at a time, and 0 past the end.
ThreeAt(bytes, g) == [k \in 1 .. 3 |-> ReadByte(bytes, g * 3 + k - 1)]

LEMMA GroupRead ==
    ASSUME NEW bytes \in Seq(0 .. ByteValues - 1), NEW g \in Nat
    PROVE  /\ Three(ThreeAt(bytes, g))
           /\ ReadUnsigned(bytes, g * 3, 3) = OfThree(ThreeAt(bytes, g))
    <1> DEFINE b == ThreeAt(bytes, g)
    <1>1. Three(b)
        <2>1. ASSUME NEW k \in 1 .. 3 PROVE ReadByte(bytes, g * 3 + k - 1) \in 0 .. ByteValues - 1
            <3>1. 0 \in 0 .. ByteValues - 1  BY ByteAndDigitValues
            <3>2. g * 3 + k - 1 \in Nat /\ Len(bytes) \in Nat  OBVIOUS
            <3>3. CASE g * 3 + k - 1 < Len(bytes)
                <4>1. (g * 3 + k - 1) + 1 \in 1 .. Len(bytes)  BY <3>2, <3>3
                <4>2. bytes[(g * 3 + k - 1) + 1] \in 0 .. ByteValues - 1
                    <5> DEFINE i == (g * 3 + k - 1) + 1
                    <5> HIDE DEF i
                    <5>1. i \in 1 .. Len(bytes)  BY <4>1 DEF i
                    <5>2. bytes[i] \in 0 .. ByteValues - 1  BY <5>1, ElementOfSeq
                    <5> QED  BY <5>2 DEF i
                <4> QED  BY <3>3, <4>2 DEF ReadByte
            <3>4. CASE ~ (g * 3 + k - 1 < Len(bytes))  BY <3>1, <3>4 DEF ReadByte
            <3> QED  BY <3>3, <3>4
        <2> QED  BY <2>1 DEF Three, ThreeAt
    <1>2. OfThree(b) \in Nat /\ OfThree(b) < Limit[3] /\ \A k \in 1 .. 3 : WriteUnsigned(OfThree(b), 3)[k] = b[k]
        <2> HIDE DEF b
        <2> QED  BY <1>1, BytesOfThree
    <1>3. \A k \in 1 .. 3 : ReadByte(bytes, g * 3 + k - 1) = WriteUnsigned(OfThree(b), 3)[k]
        BY <1>2 DEF ThreeAt
    <1>4. 3 \in 0 .. 6 /\ g * 3 \in Nat  OBVIOUS
    <1> HIDE DEF b
    <1>5. ReadUnsigned(bytes, g * 3, 3) = OfThree(b)  BY <1>2, <1>3, <1>4, UnsignedReadBack
    <1> QED  BY <1>1, <1>5 DEF b

\* So many groups of three bytes, of which so many past the end.
Groups(bytes, G, m) == G \in Nat /\ m \in 0 .. 2 /\ Len(bytes) = 3 * G - m

\* Text, with all of its padding.
IsText(whole, bytes, G, m) ==
    /\ Len(whole) = 4 * G /\ DOMAIN whole = 1 .. 4 * G
    /\ \A x \in 1 .. 4 * G : whole[x] = IF x <= 4 * G - m THEN DigitAt(bytes, x) ELSE Padding

\* The bytes of a group of digits are those that the digits were made of.
LEMMA GroupReadsBack ==
    ASSUME NEW bytes \in Seq(0 .. ByteValues - 1), NEW G, NEW m, Groups(bytes, G, m),
           NEW whole, IsText(whole, bytes, G, m), NEW i \in 1 .. Len(bytes)
    PROVE  BytesOfGroup(whole, GroupStart(i, 3, 4))[PlaceInGroup(i, 3)] = bytes[i]
    <1> DEFINE g == (i - 1) \div 3
               j == ((i - 1) % 3) + 1
               mg == IF g = G - 1 THEN m ELSE 0
               b == ThreeAt(bytes, g)
               w == DigitsOrPadding(OfThree(b), mg)
    <1>1. G \in Nat /\ m \in 0 .. 2 /\ Len(bytes) = 3 * G - m /\ Len(bytes) \in Nat  BY DEF Groups
    <1>2. g \in Nat /\ j \in 1 .. 3 /\ i = 3 * g + j  OBVIOUS
    <1>3. GroupStart(i, 3, 4) = g * 4 /\ PlaceInGroup(i, 3) = j  BY DEF GroupStart, PlaceInGroup
    <1> HIDE DEF g, j
    <1>4. g <= G - 1 /\ mg \in 0 .. 2 /\ j <= 3 - mg
        <2>1. i <= 3 * G - m  BY <1>1
        <2> QED  BY <1>1, <1>2, <2>1
    <1>5. Three(b) /\ ReadUnsigned(bytes, g * 3, 3) = OfThree(b)  BY <1>2, GroupRead
    <1>6. ASSUME NEW k \in 1 .. 3, k > 3 - mg PROVE b[k] = 0
        <2>1. ~ (g * 3 + k - 1 < Len(bytes))  BY <1>1, <1>2, <1>4, <1>6
        <2> QED  BY <2>1 DEF ThreeAt, ReadByte
    <1>7. ASSUME NEW k \in 1 .. 4 PROVE whole[g * 4 + k] = w[k]
        <2> DEFINE x == g * 4 + k
        <2>1. x \in 1 .. 4 * G /\ (x <= 4 * G - m <=> k <= 4 - mg)  BY <1>1, <1>2, <1>4
        <2>2. (x - 1) \div 4 = g /\ (x - 1) % 4 = k - 1  BY <1>2
        <2>3. 4 - PlaceInGroup(x, 4) = 4 - k /\ GroupStart(x, 4, 3) = g * 3
            BY <2>2 DEF PlaceInGroup, GroupStart
        <2> HIDE DEF x
        <2>4. DigitAt(bytes, x) = Digit(OfThree(b), 4 - k)  BY <1>5, <2>3 DEF DigitAt
        <2>5. whole[x] = IF x <= 4 * G - m THEN DigitAt(bytes, x) ELSE Padding  BY <2>1 DEF IsText
        <2>6. w[k] = IF k <= 4 - mg THEN Digit(OfThree(b), 4 - k) ELSE Padding  BY DEF DigitsOrPadding
        <2> HIDE DEF w
        <2>7. whole[x] = w[k]  BY <2>1, <2>4, <2>5, <2>6
        <2> QED  BY <2>7 DEF x
    <1> HIDE DEF b, mg
    <1>8. \A k \in 1 .. 3 - mg : WriteUnsigned(Undone(w), 3)[k] = b[k]
        BY <1>4, <1>5, <1>6, DigitsUndone
    <1> HIDE DEF w
    <1>9. BytesOfGroup(whole, g * 4) = WriteUnsigned(Undone(w), 3)
        <2>1. whole[g * 4 + 1] = w[1] /\ whole[g * 4 + 2] = w[2] /\ whole[g * 4 + 3] = w[3] /\ whole[g * 4 + 4] = w[4]
            BY <1>7
        <2> QED  BY <2>1 DEF BytesOfGroup, Undone
    <1>10. b[j] = bytes[i]
        <2>1. g * 3 + j - 1 < Len(bytes) /\ (g * 3 + j - 1) + 1 = i  BY <1>1, <1>2
        <2>2. b[j] = ReadByte(bytes, g * 3 + j - 1)  BY <1>2 DEF b, ThreeAt
        <2> QED  BY <2>1, <2>2 DEF ReadByte
    <1>11. j \in 1 .. 3 - mg  BY <1>2, <1>4
    <1> QED  BY <1>3, <1>8, <1>9, <1>10, <1>11

LEMMA FunctionIsSeq ==
    ASSUME NEW n \in Nat, NEW S, NEW f \in [1 .. n -> S]
    PROVE  f \in Seq(S) /\ Len(f) = n
    OBVIOUS

\* Bytes come back from their text.
LEMMA BytesReadBack ==
    ASSUME NEW bytes \in Seq(0 .. ByteValues - 1), NEW padded \in BOOLEAN
    PROVE  /\ DecodeBinary(EncodeBinary(bytes, padded)) = bytes
           /\ padded => Len(EncodeBinary(bytes, padded)) % 4 = 0
    <1> DEFINE m == Lacking(bytes, 3)
               G == (Len(bytes) + m) \div 3
               digits == [i \in 1 .. G * 4 - m |-> DigitAt(bytes, i)]
               text == EncodeBinary(bytes, padded)
               left == Lacking(text, 4)
               whole == text \o [i \in 1 .. left |-> Padding]
               crop == Cardinality({i \in DOMAIN whole : whole[i] = Padding})
    <1>1. Len(bytes) \in Nat /\ m \in 0 .. 2 /\ G \in Nat /\ Len(bytes) = 3 * G - m /\ G * 4 - m \in Nat
        <2>1. Len(bytes) \in Nat  OBVIOUS
        <2> DEFINE n == Len(bytes)
        <2> HIDE DEF n
        <2>2. /\ (-n) % 3 \in 0 .. 2 /\ (n + ((-n) % 3)) \div 3 \in Nat
              /\ n = 3 * ((n + ((-n) % 3)) \div 3) - ((-n) % 3)
            BY <2>1 DEF n
        <2>3. m = (-n) % 3 /\ G = (n + m) \div 3  BY DEF n, Lacking
        <2> HIDE DEF m, G
        <2> QED  BY <2>1, <2>2, <2>3 DEF n
    <1>2. text = digits \o [i \in 1 .. (IF padded THEN m ELSE 0) |-> Padding]
        BY DEF EncodeBinary, PaddingFor
    <1> HIDE DEF m, G
    <1>3. ASSUME NEW i \in 1 .. G * 4 - m
          PROVE  DigitAt(bytes, i) \in 0 .. DigitValues - 1 /\ DigitAt(bytes, i) # Padding
        <2> DEFINE g == (i - 1) \div 4
                   k == PlaceInGroup(i, 4)
        <2>1. g \in Nat /\ k \in 1 .. 4 /\ GroupStart(i, 4, 3) = g * 3
            BY <1>1 DEF PlaceInGroup, GroupStart
        <2> HIDE DEF g, k
        <2>2. Three(ThreeAt(bytes, g)) /\ ReadUnsigned(bytes, g * 3, 3) = OfThree(ThreeAt(bytes, g))
            BY <2>1, GroupRead
        <2> DEFINE v == OfThree(ThreeAt(bytes, g))
        <2>3. v \in Nat  BY <2>2, BytesOfThree
        <2>4. DigitAt(bytes, i) = Digit(v, 4 - k)  BY <2>1, <2>2 DEF DigitAt, k
        <2> HIDE DEF v
        <2> QED  BY <2>1, <2>3, <2>4, DigitsAreDigits
    <1>4. DigitValues \in Nat /\ Padding = DigitValues /\ Padding \in 0 .. DigitValues
          /\ 0 .. DigitValues - 1 \subseteq 0 .. DigitValues
        BY ByteAndDigitValues DEF Padding
    <1>5. digits \in Seq(0 .. DigitValues) /\ Len(digits) = G * 4 - m
        <2>1. digits \in [1 .. G * 4 - m -> 0 .. DigitValues]  BY <1>3, <1>4
        <2> HIDE DEF digits
        <2> QED  BY <1>1, <2>1, FunctionIsSeq
    <1> DEFINE some(n) == [i \in 1 .. n |-> Padding]
    <1>6. \A n \in Nat : some(n) \in Seq(0 .. DigitValues) /\ Len(some(n)) = n
                         /\ \A i \in 1 .. n : some(n)[i] = Padding
        <2> TAKE n \in Nat
        <2>1. some(n) \in [1 .. n -> 0 .. DigitValues]  BY <1>4
        <2>2. \A i \in 1 .. n : some(n)[i] = Padding  OBVIOUS
        <2> HIDE DEF some
        <2> QED  BY <2>1, <2>2, FunctionIsSeq
    <1>7. \A i \in 1 .. G * 4 - m : digits[i] = DigitAt(bytes, i)  OBVIOUS
    <1> DEFINE p == IF padded THEN m ELSE 0
    <1>8. p \in Nat /\ (padded => p = m) /\ (~padded => p = 0)  BY <1>1
    <1>9. text = digits \o some(p)  BY <1>2
    <1> HIDE DEF digits, some, text, p
    <1>10. /\ text \in Seq(0 .. DigitValues) /\ Len(text) = (G * 4 - m) + p
           /\ \A i \in 1 .. (G * 4 - m) + p :
                text[i] = IF i <= G * 4 - m THEN digits[i] ELSE some(p)[i - (G * 4 - m)]
        <2> DEFINE more == some(p)
        <2>1. more \in Seq(0 .. DigitValues) /\ Len(more) = p  BY <1>6, <1>8
        <2> HIDE DEF more
        <2>2. /\ digits \o more \in Seq(0 .. DigitValues)
              /\ Len(digits \o more) = Len(digits) + Len(more)
              /\ \A i \in 1 .. Len(digits) + Len(more) :
                   (digits \o more)[i] = IF i <= Len(digits) THEN digits[i] ELSE more[i - Len(digits)]
            BY <1>5, <2>1, ConcatProperties
        <2>3. text = digits \o more  BY <1>9 DEF more
        <2> QED  BY <1>5, <2>1, <2>2, <2>3 DEF more
    <1>11. left \in Nat /\ left + p = m
        <2>1. left = (-((G * 4 - m) + p)) % 4  BY <1>10 DEF Lacking
        <2>2. CASE padded
            <3>1. p = m  BY <1>8, <2>2
            <3>2. (G * 4 - m) + p = G * 4  BY <1>1, <3>1
            <3>3. (-(G * 4)) % 4 = 0  BY <1>1
            <3> QED  BY <1>1, <2>1, <3>1, <3>2, <3>3
        <2>3. CASE ~padded
            <3>1. p = 0  BY <1>8, <2>3
            <3>2. (G * 4 - m) + p = G * 4 - m  BY <1>1, <3>1
            <3>3. (-(G * 4 - m)) % 4 = m  BY <1>1
            <3> QED  BY <1>1, <2>1, <3>1, <3>2, <3>3
        <2> QED  BY <2>2, <2>3
    <1>12. padded => Len(text) % 4 = 0
        <2> HAVE padded
        <2>1. Len(text) = G * 4  BY <1>1, <1>8, <1>10
        <2> QED  BY <1>1, <2>1
    <1>13. whole = text \o some(left)  BY DEF some
    <1> HIDE DEF left, whole
    <1>14. IsText(whole, bytes, G, m)
        <2>1. /\ whole \in Seq(0 .. DigitValues) /\ Len(whole) = Len(text) + left
              /\ \A i \in 1 .. Len(text) + left :
                   whole[i] = IF i <= Len(text) THEN text[i] ELSE some(left)[i - Len(text)]
            <3> DEFINE more == some(left)
            <3>1. more \in Seq(0 .. DigitValues) /\ Len(more) = left  BY <1>6, <1>11
            <3> HIDE DEF more
            <3>2. /\ text \o more \in Seq(0 .. DigitValues)
                  /\ Len(text \o more) = Len(text) + Len(more)
                  /\ \A i \in 1 .. Len(text) + Len(more) :
                       (text \o more)[i] = IF i <= Len(text) THEN text[i] ELSE more[i - Len(text)]
                BY <1>10, <3>1, ConcatProperties
            <3>3. whole = text \o more  BY <1>13 DEF more
            <3> QED  BY <3>1, <3>2, <3>3 DEF more
        <2>2. Len(text) \in Nat /\ Len(text) + left = 4 * G  BY <1>1, <1>8, <1>10, <1>11
        <2>3. DOMAIN whole = 1 .. 4 * G  BY <2>1, <2>2, LenProperties
        <2>4. ASSUME NEW x \in 1 .. 4 * G
              PROVE  whole[x] = IF x <= 4 * G - m THEN DigitAt(bytes, x) ELSE Padding
            <3>1. CASE x <= 4 * G - m
                <4>1. x \in 1 .. G * 4 - m /\ x <= Len(text) /\ x \in 1 .. (G * 4 - m) + p /\ x <= G * 4 - m
                    BY <1>1, <1>8, <1>10, <3>1
                <4>2. whole[x] = text[x]  BY <2>1, <2>2, <4>1
                <4>3. text[x] = digits[x]  BY <1>10, <4>1
                <4> QED  BY <1>7, <3>1, <4>1, <4>2, <4>3
            <3>2. CASE ~(x <= 4 * G - m) /\ x <= Len(text)
                <4>1. x \in 1 .. (G * 4 - m) + p /\ ~(x <= G * 4 - m) /\ x - (G * 4 - m) \in 1 .. p
                    BY <1>1, <1>8, <1>10, <3>2
                <4>2. whole[x] = text[x]  BY <2>1, <2>2, <3>2
                <4>3. text[x] = some(p)[x - (G * 4 - m)]  BY <1>10, <4>1
                <4>4. some(p)[x - (G * 4 - m)] = Padding  BY <1>6, <1>8, <4>1
                <4> QED  BY <3>2, <4>2, <4>3, <4>4
            <3>3. CASE ~(x <= 4 * G - m) /\ ~(x <= Len(text))
                <4>1. x - Len(text) \in 1 .. left  BY <1>11, <2>2, <3>3
                <4>2. whole[x] = some(left)[x - Len(text)]  BY <2>1, <2>2, <3>3
                <4>3. some(left)[x - Len(text)] = Padding  BY <1>6, <1>11, <4>1
                <4> QED  BY <3>3, <4>2, <4>3
            <3> QED  BY <3>1, <3>2, <3>3
        <2> QED  BY <2>1, <2>2, <2>3, <2>4 DEF IsText
    <1>15. crop = m
        <2>1. {i \in DOMAIN whole : whole[i] = Padding} = 4 * G - m + 1 .. 4 * G
            <3>1. ASSUME NEW x \in 1 .. 4 * G PROVE whole[x] = Padding <=> x > 4 * G - m
                <4>1. whole[x] = IF x <= 4 * G - m THEN DigitAt(bytes, x) ELSE Padding  BY <1>14 DEF IsText
                <4>2. x <= 4 * G - m => x \in 1 .. G * 4 - m  BY <1>1
                <4>3. x <= 4 * G - m <=> ~(x > 4 * G - m)  BY <1>1
                <4> QED  BY <1>3, <4>1, <4>2, <4>3
            <3>2. 4 * G - m + 1 .. 4 * G \subseteq 1 .. 4 * G  BY <1>1
            <3>3. \A x \in 1 .. 4 * G : x > 4 * G - m <=> x \in 4 * G - m + 1 .. 4 * G  BY <1>1
            <3>4. DOMAIN whole = 1 .. 4 * G  BY <1>14 DEF IsText
            <3> QED  BY <3>1, <3>2, <3>3, <3>4
        <2>2. 4 * G - m + 1 \in Int /\ 4 * G \in Int  BY <1>1
        <2>3. Cardinality(4 * G - m + 1 .. 4 * G) = IF 4 * G - m + 1 > 4 * G THEN 0 ELSE 4 * G - (4 * G - m + 1) + 1
            BY <2>2, FS_Interval
        <2>4. crop = IF 4 * G - m + 1 > 4 * G THEN 0 ELSE 4 * G - (4 * G - m + 1) + 1  BY <2>1, <2>3 DEF crop
        <2> HIDE DEF crop
        <2> QED  BY <1>1, <2>4
    <1> HIDE DEF crop
    <1>16. (Len(whole) \div 4) * 3 - crop = Len(bytes)
        <2>1. Len(whole) = 4 * G  BY <1>14 DEF IsText
        <2>2. (4 * G) \div 4 = G  BY <1>1
        <2> QED  BY <1>1, <1>15, <2>1, <2>2
    <1>17. \A i \in 1 .. Len(bytes) : BytesOfGroup(whole, GroupStart(i, 3, 4))[PlaceInGroup(i, 3)] = bytes[i]
        <2>1. Groups(bytes, G, m)  BY <1>1 DEF Groups
        <2> QED  BY <1>14, <2>1, GroupReadsBack
    <1>18. DecodeBinary(text) = [i \in 1 .. Len(bytes) |-> BytesOfGroup(whole, GroupStart(i, 3, 4))[PlaceInGroup(i, 3)]]
        <2>1. DecodeBinary(text) = [i \in 1 .. (Len(whole) \div 4) * 3 - crop |->
                                      BytesOfGroup(whole, GroupStart(i, 3, 4))[PlaceInGroup(i, 3)]]
            BY DEF DecodeBinary, whole, left, crop
        <2> QED  BY <1>16, <2>1
    <1>19. bytes = [i \in 1 .. Len(bytes) |-> bytes[i]]  BY LenProperties
    <1>20. DecodeBinary(text) = bytes  BY <1>17, <1>18, <1>19
    <1> QED  BY <1>12, <1>20 DEF text

\* What is encoded is of the three kinds, with bytes, a type and an expiration of their own.
EncodedInput ==
    \/ input \in [of : {"bytes"}, bytes : Seq(0 .. ByteValues - 1)]
    \/ input \in [of : {"number"}, number : [n : Int, fraction : BOOLEAN]]
    \/ input \in [of : {"seed"}, type : SeedTypes, expiration : Nat]

\* The invariant: what is given to the encodings is what they are for.
LEMMA EncodedInputHolds ==
    EncodingsSpec => []EncodedInput
    <1>1. NothingEncoded => EncodedInput
        <2>1. <<>> \in Seq(0 .. ByteValues - 1)  OBVIOUS
        <2> SUFFICES ASSUME NothingEncoded PROVE EncodedInput
            OBVIOUS
        <2>2. CASE input = [of |-> "bytes", bytes |-> <<>>]  BY <2>1, <2>2 DEF EncodedInput
        <2>3. CASE \E fraction \in BOOLEAN : input = [of |-> "number", number |-> [n |-> 0, fraction |-> fraction]]
            BY <2>3 DEF EncodedInput
        <2>4. CASE \E type \in SeedTypes : input = [of |-> "seed", type |-> type, expiration |-> NoExpiration]
            BY <2>4 DEF EncodedInput, NoExpiration
        <2> QED  BY <2>2, <2>3, <2>4 DEF NothingEncoded
    <1>2. EncodedInput /\ [AddByte \/ ChangeNumber \/ Expire]_input => EncodedInput'
        <2> SUFFICES ASSUME EncodedInput, [AddByte \/ ChangeNumber \/ Expire]_input
                     PROVE  EncodedInput'
            OBVIOUS
        <2>1. CASE AddByte
            <3>1. input \in [of : {"bytes"}, bytes : Seq(0 .. ByteValues - 1)]
                BY <2>1 DEF AddByte, EncodedInput
            <3>2. PICK byte \in Samples : input' = [input EXCEPT !.bytes = Append(input.bytes, byte)]
                BY <2>1 DEF AddByte
            <3>3. byte \in 0 .. ByteValues - 1  BY EncodingsAssumption
            <3>4. Append(input.bytes, byte) \in Seq(0 .. ByteValues - 1)  BY <3>1, <3>3
            <3>5. input' \in [of : {"bytes"}, bytes : Seq(0 .. ByteValues - 1)]  BY <3>1, <3>2, <3>4
            <3> QED  BY <3>5 DEF EncodedInput
        <2>2. CASE ChangeNumber
            <3>1. input \in [of : {"number"}, number : [n : Int, fraction : BOOLEAN]]
                BY <2>2 DEF ChangeNumber, EncodedInput
            <3>2. PICK n \in {input.number.n + 1, input.number.n - 1, input.number.n * ByteValues} :
                    input' = [input EXCEPT !.number.n = n]
                BY <2>2 DEF ChangeNumber
            <3>3. n \in Int  BY <3>1, BytesTyped
            <3>4. input' \in [of : {"number"}, number : [n : Int, fraction : BOOLEAN]]  BY <3>1, <3>2, <3>3
            <3> QED  BY <3>4 DEF EncodedInput
        <2>3. CASE Expire
            <3>1. input \in [of : {"seed"}, type : SeedTypes, expiration : Nat]
                BY <2>3 DEF Expire, EncodedInput
            <3>2. PICK reference \in References, days \in Days :
                    input' = [input EXCEPT !.expiration = ExpiresInDaysAfter(reference, days)]
                BY <2>3 DEF Expire
            <3>3. reference \in Nat /\ days \in Nat /\ SecondsPerDay \in Nat \ {0}  BY EncodingsAssumption
            <3>4. reference \div SecondsPerDay \in Nat  BY <3>3, Division
            <3> DEFINE day == (reference \div SecondsPerDay) + days
            <3>5. day \in Nat /\ ExpiresInDaysAfter(reference, days) = day * SecondsPerDay
                BY <3>3, <3>4 DEF ExpiresInDaysAfter
            <3> HIDE DEF day
            <3>6. ExpiresInDaysAfter(reference, days) \in Nat  BY <3>3, <3>5
            <3>7. input' \in [of : {"seed"}, type : SeedTypes, expiration : Nat]  BY <3>1, <3>2, <3>6
            <3> QED  BY <3>7 DEF EncodedInput
        <2>4. CASE UNCHANGED input  BY <2>4 DEF EncodedInput
        <2> QED  BY <2>1, <2>2, <2>3, <2>4
    <1> QED  BY <1>1, <1>2, PTL DEF EncodingsSpec

\* Bytes of any length come back from Base64 with padding and without, and padded text is in groups
\* of four; any number comes back from as many bytes as were written, a fraction as a float; and a
\* genesis seed gives back its type, its randomness and an expiration below half of what its bytes
\* can hold (base64.ts:25-62, byteStreams.ts:139-319, VirtualBlockchainSeed.ts:13-59,
\* Microblock.ts:194-207).
THEOREM EncodingsAreRight ==
    EncodingsSpec => []EncodingsInvert
    <1>1. EncodedInput => EncodingsInvert
        <2> SUFFICES ASSUME EncodedInput PROVE EncodingsInvert
            OBVIOUS
        <2>1. CASE input \in [of : {"bytes"}, bytes : Seq(0 .. ByteValues - 1)]
            <3>1. input.of = "bytes" /\ input.bytes \in Seq(0 .. ByteValues - 1)  BY <2>1
            <3>2. \A padded \in BOOLEAN : DecodeBinary(EncodeBinary(input.bytes, padded)) = input.bytes
                BY <3>1, BytesReadBack
            <3>3. Len(EncodeBinary(input.bytes, TRUE)) % 4 = 0  BY <3>1, BytesReadBack
            <3> QED  BY <3>1, <3>2, <3>3 DEF EncodingsInvert
        <2>2. CASE input \in [of : {"number"}, number : [n : Int, fraction : BOOLEAN]]
            <3>1. input.of = "number" /\ input.number \in [n : Int, fraction : BOOLEAN]  BY <2>2
            <3>2. ReadNumber(WriteNumber(input.number), 0)
                    = [value |-> input.number, pointer |-> Len(WriteNumber(input.number))]
                BY <3>1, NumberReadsBack
            <3> QED  BY <3>1, <3>2 DEF EncodingsInvert
        <2>3. CASE input \in [of : {"seed"}, type : SeedTypes, expiration : Nat]
            <3>1. input.of = "seed" /\ input.type \in Nat /\ input.expiration \in Nat
                <4>1. input.of = "seed" /\ input.type \in SeedTypes /\ input.expiration \in Nat  BY <2>3
                <4>2. SeedTypes \subseteq 0 .. ByteValues - 1  BY EncodingsAssumption
                <4>3. \A type \in 0 .. ByteValues - 1 : type \in Nat  BY BytesTyped
                <4> QED  BY <4>1, <4>2, <4>3
            <3> DEFINE seed == GenesisSeed(input.type, input.expiration, Randomness)
            <3>2. /\ ExtractType(seed) = input.type
                  /\ ExtractRandomness(seed) = Randomness
                  /\ input.expiration < Limit[4] \div 2 => ExtractExpirationDay(seed) = input.expiration
                BY <3>1, SeedReadsBack
            <3>3. "seed" # "bytes" /\ "seed" # "number"  OBVIOUS
            <3> HIDE DEF seed
            <3> QED  BY <3>1, <3>2, <3>3 DEF EncodingsInvert, seed
        <2> QED  BY <2>1, <2>2, <2>3 DEF EncodedInput
    <1> QED  BY <1>1, EncodedInputHolds, PTL
===============================================================================
