---------------------------- MODULE ProviderCache ----------------------------
(* A Provider in front of one node: the states of virtual blockchains it keeps
   in its internal provider, the two ways of reading them (the "state", answered
   from the internal provider once it is there, and the "status", always checked
   with the node), and the requests that are in flight meanwhile.  A state stands
   by its height: a chain has one state per height.  Callers interleave at every
   await. *)
EXTENDS Integers

CONSTANTS Callers,     \* concurrent users of one Provider object
          Chains,      \* virtual blockchains of the node
          MaxHeight    \* bound: the height at which a chain stops growing

ASSUME MaxHeightAssumption == MaxHeight \in Nat \ {0}

VARIABLES chain,       \* height of each chain on the node, 0 when it does not exist
          store,       \* height of the state in the internal provider, 0 when absent
          call,        \* per caller: the request in flight
          seen,        \* per caller and chain: the height returned last
          overlap      \* history: the chains for which two requests were in flight at once

vars == <<chain, store, call, seen, overlap>>

Heights == 0 .. MaxHeight

\* "known" is the state whose hash was sent, "answer" the state the node sent
\* back, "since" the height on the node when the call began (history).
NoCall == [stage |-> "idle"]

Call == [stage : {"asked", "answered"}, op : {"status", "state"}, chain : Chains,
         known : Heights, since : Heights, answer : Heights, changed : BOOLEAN]

TypeOK == /\ chain \in [Chains -> Heights]
          /\ store \in [Chains -> Heights]
          /\ call \in [Callers -> Call \cup {NoCall}]
          /\ seen \in [Callers -> [Chains -> Heights]]
          /\ overlap \subseteq Chains

Init == /\ chain = [c \in Chains |-> 0]
        /\ store = [c \in Chains |-> 0]
        /\ call = [r \in Callers |-> NoCall]
        /\ seen = [r \in Callers |-> [c \in Chains |-> 0]]
        /\ overlap = {}

-----------------------------------------------------------------------------
(* The node: it appends microblocks, and answers with the state it has then. *)

Grow(c) == /\ chain[c] < MaxHeight
           /\ chain' = [chain EXCEPT ![c] = chain[c] + 1]
           /\ UNCHANGED <<store, call, seen, overlap>>

Answered(q) == [stage |-> "answered", op |-> q.op, chain |-> q.chain, known |-> q.known,
                since |-> q.since, answer |-> chain[q.chain],
                changed |-> chain[q.chain] # q.known]

NodeAnswers(r) == /\ call[r].stage = "asked"
                  /\ call' = [call EXCEPT ![r] = Answered(call[r])]
                  /\ UNCHANGED <<chain, store, seen, overlap>>

-----------------------------------------------------------------------------
(* The provider *)

Asked(op, c, known) == [stage |-> "asked", op |-> op, chain |-> c, known |-> known,
                        since |-> chain[c], answer |-> 0, changed |-> FALSE]

Returned(r, c, h) == [seen EXCEPT ![r] = [seen[r] EXCEPT ![c] = h]]

\* A request about c begins.
WithOverlap(c) == IF \E r \in Callers : call[r].stage # "idle" /\ call[r].chain = c
                  THEN overlap \cup {c} ELSE overlap

\* getVirtualBlockchainStatus up to its request: the hash of what is stored.
BeginStatus(r, c) ==
    /\ call[r].stage = "idle"
    /\ call' = [call EXCEPT ![r] = Asked("status", c, store[c])]
    /\ overlap' = WithOverlap(c)
    /\ UNCHANGED <<chain, store, seen>>

\* A bug the checks must see: the state known before the request wins.
StatusOfKnown(q) == IF q.known > 0 THEN q.known ELSE q.answer

\* A bug the checks must see: the stored state is hashed but not decoded.
StatusOfUpdate(q) == IF q.changed THEN q.answer ELSE 0

\* ... and from its answer: the height the status call returns (0 stands for null).
StatusOf(q) == IF q.answer = 0 THEN 0
               ELSE IF q.changed THEN q.answer ELSE q.known

\* A bug the checks must see: the new state is returned and not stored.
ReceiveStatusNotStored(r) ==
    /\ call[r].stage = "answered"
    /\ call[r].op = "status"
    /\ seen' = Returned(r, call[r].chain, StatusOf(call[r]))
    /\ call' = [call EXCEPT ![r] = NoCall]
    /\ UNCHANGED <<chain, store, overlap>>

ReceiveStatus(r) ==
    LET q == call[r] IN
    /\ q.stage = "answered"
    /\ q.op = "status"
    /\ store' = IF q.answer > 0 /\ q.changed THEN [store EXCEPT ![q.chain] = q.answer]
                ELSE store
    /\ seen' = Returned(r, q.chain, StatusOf(q))
    /\ call' = [call EXCEPT ![r] = NoCall]
    /\ UNCHANGED <<chain, overlap>>

\* getVirtualBlockchainState: a stored state is returned without asking the node.
StateFromStore(r, c) ==
    /\ call[r].stage = "idle"
    /\ store[c] > 0
    /\ seen' = Returned(r, c, store[c])
    /\ UNCHANGED <<chain, store, call, overlap>>

BeginState(r, c) ==
    /\ call[r].stage = "idle"
    /\ store[c] = 0
    /\ call' = [call EXCEPT ![r] = Asked("state", c, 0)]
    /\ overlap' = WithOverlap(c)
    /\ UNCHANGED <<chain, store, seen>>

ReceiveState(r) ==
    LET q == call[r] IN
    /\ q.stage = "answered"
    /\ q.op = "state"
    /\ store' = IF q.answer > 0 THEN [store EXCEPT ![q.chain] = q.answer] ELSE store
    /\ seen' = Returned(r, q.chain, q.answer)
    /\ call' = [call EXCEPT ![r] = NoCall]
    /\ UNCHANGED <<chain, overlap>>

\* A bug the checks must see: the timer only covers the reading of the answer.
AbortOfAnswer(r) == /\ call[r].stage = "answered"
                    /\ call' = [call EXCEPT ![r] = NoCall]
                    /\ UNCHANGED <<chain, store, seen, overlap>>

\* The 10 s timer of query aborts the request at any time before its answer is
\* read: the call throws, and a late answer is dropped.  An HTTP error or an error
\* of the node ends the call in the same way.
Abort(r) == /\ call[r].stage # "idle"
            /\ call' = [call EXCEPT ![r] = NoCall]
            /\ UNCHANGED <<chain, store, seen, overlap>>

\* MemoryProvider.clear
Clear == /\ store' = [c \in Chains |-> 0]
         /\ UNCHANGED <<chain, call, seen, overlap>>
-----------------------------------------------------------------------------

Next == \/ \E c \in Chains : Grow(c)
        \/ \E r \in Callers : \/ NodeAnswers(r)
                              \/ ReceiveStatus(r)
                              \/ ReceiveState(r)
                              \/ Abort(r)
        \/ \E r \in Callers, c \in Chains : \/ BeginStatus(r, c)
                                            \/ StateFromStore(r, c)
                                            \/ BeginState(r, c)
        \/ Clear

Spec == Init /\ [][Next]_vars

\* The timer of a request always fires in the end; the node owes nothing.
FairSpec == Spec /\ \A r \in Callers : WF_vars(Abort(r))

-----------------------------------------------------------------------------
(* Properties *)

Pending == [r \in Callers |->
              IF call[r].stage = "idle" THEN [active |-> FALSE]
              ELSE [active |-> TRUE, chain |-> call[r].chain, since |-> call[r].since]]

Reads == INSTANCE ChainReads WITH reading <- Pending

\* Every call that asks the node (getVirtualBlockchainStatus, and
\* getVirtualBlockchainState when nothing is stored) is a read of the chain: what it
\* returns was the node's height between the start and the end of the call, although
\* the state it starts from may be replaced, cleared or outdated by other callers
\* meanwhile, and an unchanged answer carries no state.
NodeReads == Reads!Spec

\* As long as no two requests about a chain were in flight together, what a caller
\* is told of the chain never goes back in time, whichever of
\* getVirtualBlockchainStatus and getVirtualBlockchainState the callers mix.
ReadsForwardInTurn ==
    [][\A r \in Callers, c \in Chains : c \in overlap \/ seen'[r][c] >= seen[r][c]]_vars

\* "When returns null, it means that the virtual blockchain does not exist"
\* (IProvider.getVirtualBlockchainState): a caller that was once given a state of
\* a chain is never answered null about it later.
NeverForgotten ==
    [][\A r \in Callers, c \in Chains : seen[r][c] > 0 => seen'[r][c] > 0]_vars

\* The abort timer of NetworkProvider.query: no call stays in flight for ever,
\* even when the node never answers.
CallsEnd == \A r \in Callers : call[r].stage # "idle" ~> call[r].stage = "idle"
=============================================================================
