------------------------ MODULE BalanceAvailability ------------------------
(***************************************************************************)
(* The tokens of one account (class BalanceAvailability): a balance, and a *)
(* list of locks - escrow, vesting, node staking - that say how much of it *)
(* cannot be spent.  Vested tokens may be staked, so the two overlap; an   *)
(* escrow overlaps nothing.                                                *)
(*                                                                         *)
(* The node that replays the chain owns the object: it credits and debits  *)
(* the balance, adds and plans, and calls the three apply... methods with  *)
(* the time of the block.  The class checks little of what it is told, so  *)
(* the Features constant says which families of calls the caller makes.    *)
(*                                                                         *)
(* locks[i] is position i of the code's array.  A position whose lock was  *)
(* removed holds NoLock until the tail of the list is free again: the live *)
(* positions, in order, are the code's array.                              *)
(***************************************************************************)
EXTENDS Integers, FiniteSets, Sums

CONSTANTS
  Nodes,        \* validator node identifiers
  Escrows,      \* escrow identifiers
  Features,     \* families of calls the caller makes, see AllFeatures
  Amounts,      \* amounts, in atomic units, the caller passes
  Terms,        \* <<cliffDurationDays, vestingDurationDays>> the caller passes
  DayLength,    \* ticks of the clock in a day
  MaxBalance,   \* bound of the model: no credit beyond this balance, and no
                \* slash below its opposite
  MaxLocks,     \* bound of the model: positions of the list of locks
  MaxTime       \* bound of the model: the clock stops there

AllFeatures == {"escrow", "vesting", "unstaking", "slashing"}

ASSUME BalanceAssumption ==
  /\ Features \subseteq AllFeatures
  /\ Amounts \subseteq Nat
  /\ Terms \subseteq Nat \X (Nat \ {0})
  /\ DayLength \in Nat \ {0}
  /\ MaxBalance \in Nat
  /\ MaxLocks \in Nat
  /\ MaxTime \in Nat

VARIABLES
  balance,      \* balanceInAtomics
  locks,        \* locks
  now           \* time of the block being applied

vars == <<balance, locks, now>>

Slots == 1 .. MaxLocks

EscrowLock  == [type : {"escrow"}, locked : Nat, id : Escrows]
VestingLock == [type : {"vesting"}, locked : Int, initial : Nat,
                cliffStart : Nat, cliffDays : Nat, days : Nat \ {0}]
StakingLock == [type : {"staking"}, locked : Int, node : Nodes,
                unlockAmount : Nat, unlockTime : Nat,
                slashed : BOOLEAN, slashAmount : Int, slashTime : Nat]
NoLock      == [type |-> "none", locked |-> 0]
Lock        == EscrowLock \union VestingLock \union StakingLock

TypeOK ==
  /\ balance \in Int
  /\ locks \in [Slots -> Lock \union {NoLock}]
  /\ now \in Nat

Minimum(a, b) == IF a <= b THEN a ELSE b
Maximum(a, b) == IF a >= b THEN a ELSE b

-----------------------------------------------------------------------------
(* Calendar: Utils.addDaysToTimestamp and Utils.timestampDifferenceInDays.  *)

\* 00:00 of the day of ts, some days later
AddDaysToTimestamp(ts, days) == ((ts \div DayLength) + days) * DayLength

\* Math.round of the difference in days
TimestampDifferenceInDays(from, to) ==
  (2 * (to - from) + DayLength) \div (2 * DayLength)

-----------------------------------------------------------------------------
(* getBreakdown                                                            *)

OfType(ls, type) == {i \in Slots : ls[i].type = type}

AmountAs(lock, type) == IF lock.type = type THEN lock.locked ELSE 0

LockedByType(ls, type) == Total([i \in Slots |-> AmountAs(ls[i], type)], MaxLocks)

Escrowed   == LockedByType(locks, "escrow")
Vested     == LockedByType(locks, "vesting")
Staked     == LockedByType(locks, "staking")
\* Mutant: escrowed tokens can be staked.
StakeableWithEscrows == balance - Staked
Stakeable  == balance - Staked - Escrowed
\* Mutant: the stakes are not spared.
ReleasableWithStakes == Maximum(0, Vested)
Releasable == Maximum(0, Vested - Staked)
\* Mutant: only the vested tokens are locked, not the larger of vested and staked.
SpendableBesideVested == balance - (Escrowed + Vested)
Spendable  == balance - (Escrowed + Maximum(Vested, Staked))

-----------------------------------------------------------------------------
(* The list of locks                                                       *)

\* push: the new lock takes the position after the last one.
IsEnd(i) ==
  /\ \A j \in Slots : j >= i => locks[j] = NoLock
  /\ i > 1 => locks[i - 1] # NoLock

Push(lock) == \E i \in Slots : IsEnd(i) /\ locks' = [locks EXCEPT ![i] = lock]

RemoveExpired(ls, type) ==
  [i \in Slots |-> IF ls[i].type = type /\ ls[i].locked = 0 THEN NoLock ELSE ls[i]]

\* getNodeStakingLock finds the lock at i for node n: the first one of the node.
IsStakeOf(n, i) ==
  /\ locks[i].type = "staking" /\ locks[i].node = n
  /\ \A j \in 1 .. i - 1 : ~(locks[j].type = "staking" /\ locks[j].node = n)

\* Mutant: a stake with a planned unlock is overlooked.
HasUnplannedStake(n) == \E i \in Slots : IsStakeOf(n, i) /\ locks[i].unlockAmount = 0
HasStake(n) == \E i \in Slots : IsStakeOf(n, i)

IsEscrowOf(id, i) ==
  /\ locks[i].type = "escrow" /\ locks[i].id = id
  /\ \A j \in 1 .. i - 1 : ~(locks[j].type = "escrow" /\ locks[j].id = id)

-----------------------------------------------------------------------------
Init ==
  /\ balance = 0
  /\ locks = [i \in Slots |-> NoLock]
  /\ now = DayLength

\* addSpendableTokens
AddSpendableTokens(amount) ==
  /\ balance + amount <= MaxBalance
  /\ balance' = balance + amount
  /\ UNCHANGED <<locks, now>>

\* setBalance, the way a debit uses it: the caller debits what getSpendable allows
Debit(amount) ==
  /\ amount <= Spendable
  /\ balance' = balance - amount
  /\ UNCHANGED <<locks, now>>

AddVestedTokens(amount, cliffDays, days) ==
  /\ "vesting" \in Features
  /\ balance + amount <= MaxBalance
  /\ balance' = balance + amount
  /\ Push([type |-> "vesting", locked |-> amount, initial |-> amount,
           cliffStart |-> now, cliffDays |-> cliffDays, days |-> days])
  /\ UNCHANGED now

AddEscrowedTokens(id, amount) ==
  /\ "escrow" \in Features
  /\ balance + amount <= MaxBalance
  /\ balance' = balance + amount
  /\ Push([type |-> "escrow", locked |-> amount, id |-> id])
  /\ UNCHANGED now

\* The tokens stay in the balance; an unknown identifier throws.
RemoveEscrowLock(id) ==
  /\ \E i \in Slots : IsEscrowOf(id, i) /\ locks' = [locks EXCEPT ![i] = NoLock]
  /\ UNCHANGED <<balance, now>>

\* Mutant: one parameter of the new lock is left out.
NewStakeWithoutTime(n, amount) ==
  [type |-> "staking", locked |-> amount, node |-> n, unlockAmount |-> 0, unlockTime |-> 0,
   slashed |-> FALSE, slashAmount |-> 0]
NewStake(n, amount) ==
  [type |-> "staking", locked |-> amount, node |-> n, unlockAmount |-> 0, unlockTime |-> 0,
   slashed |-> FALSE, slashAmount |-> 0, slashTime |-> 0]

AddNodeStaking(n, amount) ==
  /\ amount <= Stakeable
  /\ \/ \E i \in Slots : /\ IsStakeOf(n, i)
                         /\ locks' = [locks EXCEPT ![i].locked = @ + amount]
     \/ ~HasStake(n) /\ Push(NewStake(n, amount))
  /\ UNCHANGED <<balance, now>>

WithPlan(stake, amount, ts) ==
  [stake EXCEPT !.unlockAmount = amount, !.unlockTime = AddDaysToTimestamp(ts, 0)]

\* The amount is not compared with the stake; the time is moved to 00:00 of its day.
PlanNodeStakingUnlock(n, amount, ts) ==
  /\ "unstaking" \in Features
  /\ \E i \in Slots :
       /\ IsStakeOf(n, i)
       /\ locks[i].unlockAmount = 0
       /\ locks' = [locks EXCEPT ![i] = WithPlan(@, amount, ts)]
  /\ UNCHANGED <<balance, now>>

\* Every planned unlock whose time has come takes its amount off its stake, in
\* the order of the list.  The first that exceeds its stake throws: what came
\* before it stays unlocked, and the locks left at 0 are not removed.
UnlocksDue(ls, ts) ==
  {i \in OfType(ls, "staking") : ls[i].unlockTime # 0 /\ ts >= ls[i].unlockTime}
UnlocksRefused(ls, ts) ==
  {i \in UnlocksDue(ls, ts) : ls[i].unlockAmount > ls[i].locked}
UnlocksDone(ls, ts) ==
  {i \in UnlocksDue(ls, ts) : \A j \in UnlocksRefused(ls, ts) : i < j}
Unlocked(ls, ts) ==
  [i \in Slots |-> IF i \in UnlocksDone(ls, ts)
                   THEN [ls[i] EXCEPT !.locked = @ - ls[i].unlockAmount]
                   ELSE ls[i]]
AfterUnlocks(ls, ts) ==
  IF UnlocksRefused(ls, ts) = {} THEN RemoveExpired(Unlocked(ls, ts), "staking")
                                 ELSE Unlocked(ls, ts)

ApplyNodeStakingUnlocks ==
  /\ "unstaking" \in Features
  /\ locks' = AfterUnlocks(locks, now)
  /\ UNCHANGED <<balance, now>>

WithSlash(stake, slashed, amount, ts) ==
  [stake EXCEPT !.slashed = slashed, !.slashAmount = amount, !.slashTime = ts]

\* The amount to slash is the stake of this moment.
SetSlashing(n, ts) ==
  /\ "slashing" \in Features
  /\ \E i \in Slots :
       /\ IsStakeOf(n, i)
       /\ locks' = [locks EXCEPT ![i] = WithSlash(@, TRUE, locks[i].locked, ts)]
  /\ UNCHANGED <<balance, now>>

CancelNodeSlashing(n) ==
  /\ \E i \in Slots :
       /\ IsStakeOf(n, i)
       /\ locks[i].slashed
       /\ locks' = [locks EXCEPT ![i] = WithSlash(@, FALSE, 0, 0)]
  /\ UNCHANGED <<balance, now>>

-----------------------------------------------------------------------------
(* adjustVesting: when the vested tokens exceed the balance, every vesting  *)
(* lock loses its share rounded down, then the first locks lose one more    *)
(* unit each until the excess is gone.                                      *)

\* Math.floor(a / b).  A quotient by 0 is not a number in the code; it needs
\* locks of opposite signs, hence a balance that is already negative.
FloorOfQuotient(a, b) ==
  IF b > 0 THEN a \div b ELSE IF b < 0 THEN (-a) \div (-b) ELSE 0

FirstPass(ls, exceeded, vested) ==
  [i \in Slots |-> IF ls[i].type = "vesting"
                   THEN [ls[i] EXCEPT !.locked = @ - FloorOfQuotient(exceeded * @, vested)]
                   ELSE ls[i]]
\* Mutant: the rounding is not corrected.
NoSecondPass(ls, missing) == ls
SecondPass(ls, missing) ==
  LET CanGive(i) == ls[i].type = "vesting" /\ ls[i].locked > 0
  IN  [i \in Slots |-> IF CanGive(i) /\ Cardinality({j \in 1 .. i - 1 : CanGive(j)}) < missing
                       THEN [ls[i] EXCEPT !.locked = @ - 1]
                       ELSE ls[i]]
AdjustVesting(ls, bal) ==
  LET vested   == LockedByType(ls, "vesting")
      exceeded == vested - bal
      first    == FirstPass(ls, exceeded, vested)
      taken    == vested - LockedByType(first, "vesting")
  IN  IF exceeded > 0 THEN RemoveExpired(SecondPass(first, exceeded - taken), "vesting")
                      ELSE ls

SlashesDue(ls, ts) ==
  {i \in OfType(ls, "staking") :
     ls[i].slashed /\ ls[i].slashAmount > 0 /\ ls[i].slashTime # 0 /\ ts >= ls[i].slashTime}
AfterSlash(stake) ==
  [stake EXCEPT !.locked = @ - stake.slashAmount, !.slashed = FALSE,
                !.slashTime = 0, !.slashAmount = 0]
Slashed(ls, ts) ==
  [i \in Slots |-> IF i \in SlashesDue(ls, ts) THEN AfterSlash(ls[i]) ELSE ls[i]]
\* Mutant: the balance does not lose what the stakes lose.
NothingSlashed(ls, ts) == 0
TotalSlashed(ls, ts) ==
  Total([i \in Slots |-> IF i \in SlashesDue(ls, ts) THEN ls[i].slashAmount ELSE 0], MaxLocks)

ApplyNodeSlashing ==
  /\ "slashing" \in Features
  /\ balance' = balance - TotalSlashed(locks, now)
  /\ balance' >= -MaxBalance
  /\ locks' = RemoveExpired(AdjustVesting(Slashed(locks, now), balance'), "staking")
  /\ UNCHANGED now

-----------------------------------------------------------------------------
(* applyLinearVesting                                                      *)

ElapsedDays(lock, ts) ==
  Minimum(TimestampDifferenceInDays(AddDaysToTimestamp(lock.cliffStart, lock.cliffDays), ts),
          lock.days)

\* What the schedule of a lock allows to be released by ts.
MaximumRelease(lock, ts) ==
  IF ElapsedDays(lock, ts) > 0 THEN (lock.initial * ElapsedDays(lock, ts)) \div lock.days ELSE 0

\* Mutant: what was released already is not counted.
ReleasedAgain(lock, ts, releasable) ==
  IF lock.type = "vesting" /\ ElapsedDays(lock, ts) > 0
  THEN Minimum(MaximumRelease(lock, ts), releasable)
  ELSE 0
Released(lock, ts, releasable) ==
  IF lock.type = "vesting" /\ ElapsedDays(lock, ts) > 0
  THEN Minimum(MaximumRelease(lock, ts) - (lock.initial - lock.locked), releasable)
  ELSE 0

\* What may still be released after the first i positions.
LeftToRelease(ls, ts, releasable) ==
  LET left[i \in 0 .. MaxLocks] ==
        IF i = 0 THEN releasable ELSE left[i - 1] - Released(ls[i], ts, left[i - 1])
  IN  left
AfterRelease(ls, ts, left) ==
  [i \in Slots |-> IF ls[i].type = "vesting"
                   THEN [ls[i] EXCEPT !.locked = @ - Released(ls[i], ts, left[i - 1])]
                   ELSE ls[i]]
AfterLinearVesting(ls, ts, releasable) ==
  RemoveExpired(AfterRelease(ls, ts, LeftToRelease(ls, ts, releasable)), "vesting")

ApplyLinearVesting ==
  /\ "vesting" \in Features
  /\ locks' = AfterLinearVesting(locks, now, Releasable)
  /\ UNCHANGED <<balance, now>>

\* Blocks come with increasing timestamps.
AdvanceTime ==
  /\ now < MaxTime
  /\ now' = now + 1
  /\ UNCHANGED <<balance, locks>>

-----------------------------------------------------------------------------
PlanTimes == DayLength .. MaxTime

Next ==
  \/ \E a \in Amounts : AddSpendableTokens(a) \/ Debit(a)
  \/ \E a \in Amounts, t \in Terms : AddVestedTokens(a, t[1], t[2])
  \/ \E id \in Escrows, a \in Amounts : AddEscrowedTokens(id, a)
  \/ \E id \in Escrows : RemoveEscrowLock(id)
  \/ \E n \in Nodes, a \in Amounts : AddNodeStaking(n, a)
  \/ \E n \in Nodes, a \in Amounts, ts \in PlanTimes : PlanNodeStakingUnlock(n, a, ts)
  \/ ApplyNodeStakingUnlocks
  \/ \E n \in Nodes, ts \in PlanTimes : SetSlashing(n, ts)
  \/ \E n \in Nodes : CancelNodeSlashing(n)
  \/ ApplyNodeSlashing
  \/ ApplyLinearVesting
  \/ AdvanceTime

Spec == Init /\ [][Next]_vars
-----------------------------------------------------------------------------
(* Properties.                                                             *)

\* However the calls of the caller interleave, tokens are never staked twice
\* and escrowed tokens are never staked: addNodeStaking, the unlocks, slashing
\* and debits together keep stakes and escrows within the balance.
StakeableNonNegative == Stakeable >= 0

\* Without slashing the account always covers its escrows and the larger of its
\* vested and staked tokens, so getSpendable never reports a debt.
SpendableNonNegative == Spendable >= 0

\* getNodeStakingLock takes the first lock of a node: there is never a second; and no
\* sequence of unlocks, releases and slashes takes more off a lock than it holds
\* (BalanceAvailability.ts:207-316, 430-470).
LocksWellFormed ==
  /\ \A i, j \in OfType(locks, "staking") : locks[i].node = locks[j].node => i = j
  /\ \A i \in Slots : locks[i].locked >= 0

\* A vesting lock has never released more than its schedule allows by now, even
\* when stakes delayed earlier releases and later ones catch up.
ReleasedOnSchedule ==
  \A i \in OfType(locks, "vesting") :
    locks[i].initial - locks[i].locked <= MaximumRelease(locks[i], now)

\* applyLinearVesting leaves enough tokens vested for the stakes they back, and
\* otherwise applies the whole schedule up to now, the releases that stakes delayed
\* included.
ReleasesFitStakes ==
  [][ApplyLinearVesting =>
       /\ Vested' >= Minimum(Vested, Staked)
       /\ \/ Vested' <= Staked
          \/ \A i \in OfType(locks, "vesting") :
               locks[i].initial - locks'[i].locked = MaximumRelease(locks[i], now)]_vars

\* After a slash the vested tokens are exactly what they were, or the whole
\* balance if that is less: the two rounding passes lose and gain no unit.
SlashedVestingFits ==
  [][ApplyNodeSlashing => Vested' = Minimum(Vested, balance')]_vars

\* Slashing takes tokens away and frees none: what can be spent after it is no more
\* than what could be before, also where an earlier slash made a release negative and
\* the vested tokens exceed the balance (BalanceAvailability.ts:320-381, 447-456).
SlashingFreesNothing ==
  [][ApplyNodeSlashing => Spendable' <= Maximum(0, Spendable)]_vars

\* Applying the planned unlocks of a moment a second time changes nothing: a
\* plan that was carried out is no longer pending.
UnlocksIdempotent ==
  AfterUnlocks(AfterUnlocks(locks, now), now) = AfterUnlocks(locks, now)
=============================================================================
