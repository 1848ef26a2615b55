--------------------- MODULE BalanceAvailabilityProofs ---------------------
(***************************************************************************)
(* What holds of an account for any number of locks, nodes and escrows,    *)
(* any amounts and any times.                                              *)
(***************************************************************************)
EXTENDS BalanceAvailability, SumsProofs, FiniteSetTheorems

Locks == [Slots -> Lock \union {NoLock}]

\* The amounts that LockedByType adds up.
AmountsOf(ls, type) == [i \in Slots |-> AmountAs(ls[i], type)]

LEMMA LockTypes ==
  ASSUME NEW lock \in Lock \union {NoLock}
  PROVE  /\ lock.locked \in Int
         /\ lock.type = "escrow" => lock \in EscrowLock
         /\ lock.type = "vesting" => lock \in VestingLock
         /\ lock.type = "staking" => lock \in StakingLock
BY DEF Lock, EscrowLock, VestingLock, StakingLock, NoLock

LEMMA AmountAsType ==
  ASSUME NEW lock \in Lock \union {NoLock}, NEW type
  PROVE  AmountAs(lock, type) \in Int
BY LockTypes DEF AmountAs

LEMMA AmountsType ==
  ASSUME NEW ls \in Locks, NEW type
  PROVE  AmountsOf(ls, type) \in [1 .. MaxLocks -> Int]
BY AmountAsType DEF AmountsOf, Locks, Slots

LEMMA LockedByTypeType ==
  ASSUME NEW ls \in Locks, NEW type
  PROVE  LockedByType(ls, type) \in Int
<1>1. LockedByType(ls, type) = Total(AmountsOf(ls, type), MaxLocks)
  BY DEF LockedByType, AmountsOf
<1> QED BY <1>1, AmountsType, TotalType, BalanceAssumption

\* Lists of locks that agree on the amounts of a type agree on their sum.
LEMMA SameAmounts ==
  ASSUME NEW ls, NEW ms, NEW type,
         \A i \in Slots : AmountsOf(ms, type)[i] = AmountsOf(ls, type)[i]
  PROVE  LockedByType(ms, type) = LockedByType(ls, type)
<1>1. AmountsOf(ms, type) = AmountsOf(ls, type)
  BY DEF AmountsOf
<1> QED BY <1>1 DEF LockedByType, AmountsOf

\* Replacing one lock moves the sum by the difference of its amount.
LEMMA ReplaceLock ==
  ASSUME NEW ls \in Locks, NEW i \in Slots, NEW lock \in Lock \union {NoLock}, NEW type,
         NEW ms, ms = [ls EXCEPT ![i] = lock]
  PROVE  /\ ms \in Locks
         /\ LockedByType(ms, type) =
              LockedByType(ls, type)
              + (AmountAs(lock, type) - AmountAs(ls[i], type))
<1> DEFINE new == AmountAs(lock, type)
           f   == AmountsOf(ls, type)
           h   == AmountsOf(ms, type)
<1>1. ms \in Locks
  BY DEF Locks
<1>2. new \in Int
  BY AmountAsType
<1>3. h[i] = new /\ f[i] = AmountAs(ls[i], type)
  BY DEF AmountsOf, Locks
<1>4. \A k \in 1 .. MaxLocks : k # i => h[k] = f[k]
  BY DEF AmountsOf, Locks, Slots
<1>5. f \in [1 .. MaxLocks -> Int] /\ h \in [1 .. MaxLocks -> Int] /\ i \in 1 .. MaxLocks
  BY <1>1, AmountsType DEF Slots
<1>6. /\ LockedByType(ls, type) = Total(f, MaxLocks)
      /\ LockedByType(ms, type) = Total(h, MaxLocks)
  BY DEF LockedByType, AmountsOf
<1> HIDE DEF new, f, h
<1>7. Total(h, MaxLocks) = Total(f, MaxLocks) + (new - f[i])
  <2>1. MaxLocks \in Nat
    BY BalanceAssumption
  <2> QED BY <1>2, <1>3, <1>4, <1>5, <2>1, TotalOfExcept, Zenon
<1> QED BY <1>1, <1>3, <1>6, <1>7 DEF new

\* Dropping the locks that hold nothing changes no sum.
LEMMA RemoveExpiredKeeps ==
  ASSUME NEW ls \in Locks, NEW dropped, NEW type
  PROVE  /\ RemoveExpired(ls, dropped) \in Locks
         /\ LockedByType(RemoveExpired(ls, dropped), type) = LockedByType(ls, type)
<1>1. RemoveExpired(ls, dropped) \in Locks
  BY DEF RemoveExpired, Locks
<1>2. \A i \in Slots : AmountsOf(RemoveExpired(ls, dropped), type)[i] = AmountsOf(ls, type)[i]
  BY DEF RemoveExpired, AmountsOf, AmountAs, NoLock
<1> QED BY <1>1, <1>2, SameAmounts

LEMMA BreakdownType ==
  ASSUME TypeOK
  PROVE  /\ Escrowed \in Int /\ Vested \in Int /\ Staked \in Int
         /\ Stakeable \in Int /\ Releasable \in Int /\ Spendable \in Int
<1>1. Escrowed \in Int /\ Vested \in Int /\ Staked \in Int
  BY LockedByTypeType DEF Escrowed, Vested, Staked, TypeOK, Locks
<1> QED BY <1>1 DEF Stakeable, Releasable, Spendable, Maximum, TypeOK

-----------------------------------------------------------------------------
(* What each family of actions does to the sums.                           *)

LEMMA PushEffect ==
  ASSUME TypeOK, NEW lock \in Lock, Push(lock)
  PROVE  /\ locks' \in Locks
         /\ \A type : LockedByType(locks', type) =
                        LockedByType(locks, type) + AmountAs(lock, type)
<1>1. PICK i \in Slots : IsEnd(i) /\ locks' = [locks EXCEPT ![i] = lock]
  BY DEF Push
<1>2. locks[i] = NoLock
  BY <1>1, BalanceAssumption DEF IsEnd, Slots
<1>3. locks \in Locks /\ lock \in Lock \union {NoLock}
  BY DEF TypeOK, Locks
<1>4. locks' \in Locks
  BY <1>1, <1>3, ReplaceLock
<1>5. ASSUME NEW type
      PROVE  LockedByType(locks', type) = LockedByType(locks, type) + AmountAs(lock, type)
  <2>1. LockedByType(locks', type) =
          LockedByType(locks, type) + (AmountAs(lock, type) - AmountAs(locks[i], type))
    BY <1>1, <1>3, ReplaceLock
  <2>2. AmountAs(locks[i], type) = 0
    BY <1>2 DEF NoLock, AmountAs
  <2>3. AmountAs(lock, type) \in Int /\ LockedByType(locks, type) \in Int
    BY <1>3, AmountAsType, LockedByTypeType
  <2> QED BY <2>1, <2>2, <2>3
<1> QED BY <1>4, <1>5

\* Updating the fields of a stake gives a stake.
LEMMA StakeUpdate ==
  ASSUME NEW lock \in StakingLock
  PROVE  /\ \A x \in Int : LET new == [lock EXCEPT !.locked = x]
                           IN  new \in StakingLock /\ new.locked = x
         /\ \A b \in BOOLEAN : LET new == [lock EXCEPT !.slashed = b]
                           IN  new \in StakingLock /\ new.locked = lock.locked
         /\ \A k \in Nat : LET new == [lock EXCEPT !.slashTime = k]
                           IN  new \in StakingLock /\ new.locked = lock.locked
         /\ \A x \in Int : LET new == [lock EXCEPT !.slashAmount = x]
                           IN  new \in StakingLock /\ new.locked = lock.locked
         /\ \A k \in Nat : LET new == [lock EXCEPT !.unlockAmount = k]
                           IN  new \in StakingLock /\ new.locked = lock.locked
         /\ \A k \in Nat : LET new == [lock EXCEPT !.unlockTime = k]
                           IN  new \in StakingLock /\ new.locked = lock.locked
BY DEF StakingLock

LEMMA AfterSlashType ==
  ASSUME NEW lock \in StakingLock
  PROVE  AfterSlash(lock) \in StakingLock /\ AfterSlash(lock).locked = lock.locked - lock.slashAmount
<1> DEFINE x  == lock.locked - lock.slashAmount
           l1 == [lock EXCEPT !.locked = x]
           l2 == [l1 EXCEPT !.slashed = FALSE]
           l3 == [l2 EXCEPT !.slashTime = 0]
           l4 == [l3 EXCEPT !.slashAmount = 0]
<1>1. x \in Int
  BY DEF StakingLock
<1>2. l1 \in StakingLock /\ l1.locked = x
  <2> HIDE DEF x
  <2> QED BY <1>1, StakeUpdate
<1> HIDE DEF l1
<1>3. l2 \in StakingLock /\ l2.locked = x
  BY <1>2, StakeUpdate
<1> HIDE DEF l2
<1>4. l3 \in StakingLock /\ l3.locked = x
  BY <1>3, StakeUpdate
<1> HIDE DEF l3
<1>5. l4 \in StakingLock /\ l4.locked = x
  BY <1>4, StakeUpdate
<1>6. AfterSlash(lock) = l4
  BY Zenon DEF AfterSlash, l3, l2, l1
<1> QED BY <1>5, <1>6 DEF x

\* Unlocking takes nothing away from escrows and vesting, and adds to no stake.
LEMMA UnlocksEffect ==
  ASSUME NEW ls \in Locks, NEW ts \in Nat
  PROVE  LET ms == AfterUnlocks(ls, ts)
         IN  /\ ms \in Locks
             /\ LockedByType(ms, "escrow") = LockedByType(ls, "escrow")
             /\ LockedByType(ms, "vesting") = LockedByType(ls, "vesting")
             /\ LockedByType(ms, "staking") <= LockedByType(ls, "staking")
<1> DEFINE us == Unlocked(ls, ts)
<1>1. ASSUME NEW i \in Slots
      PROVE  /\ us[i] \in Lock \union {NoLock}
             /\ us[i].type = ls[i].type
             /\ ls[i].type # "staking" => us[i].locked = ls[i].locked
             /\ us[i].locked <= ls[i].locked
  <2>1. CASE i \in UnlocksDone(ls, ts)
    <3>1. ls[i] \in StakingLock
      BY <2>1, LockTypes DEF UnlocksDone, UnlocksDue, OfType, Locks
    <3>2. us[i] = [ls[i] EXCEPT !.locked = @ - ls[i].unlockAmount]
      BY <2>1 DEF Unlocked
    <3>3. /\ ls[i].locked \in Int /\ ls[i].unlockAmount \in Nat /\ ls[i].type = "staking"
          /\ ls[i].locked - ls[i].unlockAmount \in Int
      BY <3>1 DEF StakingLock
    <3>4. us[i] \in StakingLock /\ us[i].locked = ls[i].locked - ls[i].unlockAmount
      <4> DEFINE x == ls[i].locked - ls[i].unlockAmount
                 lock == ls[i]
      <4>1. us[i] = [lock EXCEPT !.locked = x] /\ lock \in StakingLock /\ x \in Int
        BY <3>1, <3>2, <3>3
      <4> HIDE DEF lock, x
      <4>2. [lock EXCEPT !.locked = x] \in StakingLock /\ [lock EXCEPT !.locked = x].locked = x
        BY <4>1, StakeUpdate
      <4> QED BY <4>1, <4>2, Zenon DEF x
    <3> HIDE DEF us
    <3>5. us[i].type = "staking"
      BY <3>4 DEF StakingLock
    <3> QED BY <3>3, <3>4, <3>5 DEF Lock
  <2>2. CASE i \notin UnlocksDone(ls, ts)
    <3>1. us[i] = ls[i]
      BY <2>2 DEF Unlocked
    <3> QED BY <3>1, LockTypes DEF Locks
  <2> QED BY <2>1, <2>2
<1>2. us \in Locks
  BY <1>1 DEF Locks, Unlocked
<1> HIDE DEF us
<1>3. LockedByType(us, "escrow") = LockedByType(ls, "escrow")
  BY <1>1, SameAmounts DEF AmountsOf, AmountAs
<1>4. LockedByType(us, "vesting") = LockedByType(ls, "vesting")
  BY <1>1, SameAmounts DEF AmountsOf, AmountAs
<1>5. LockedByType(us, "staking") <= LockedByType(ls, "staking")
  <2>1. \A i \in 1 .. MaxLocks : AmountsOf(us, "staking")[i] <= AmountsOf(ls, "staking")[i]
    BY <1>1 DEF AmountsOf, AmountAs, Slots
  <2>2. /\ AmountsOf(us, "staking") \in [1 .. MaxLocks -> Int]
        /\ AmountsOf(ls, "staking") \in [1 .. MaxLocks -> Int]
    BY <1>2, AmountsType
  <2>3. Total(AmountsOf(us, "staking"), MaxLocks) <= Total(AmountsOf(ls, "staking"), MaxLocks)
    BY <2>1, <2>2, TotalMonotone, BalanceAssumption
  <2> QED BY <2>3 DEF LockedByType, AmountsOf
<1>6. AfterUnlocks(ls, ts) = us \/ AfterUnlocks(ls, ts) = RemoveExpired(us, "staking")
  BY DEF AfterUnlocks, us
<1> QED BY <1>2, <1>3, <1>4, <1>5, <1>6, RemoveExpiredKeeps

\* Slashing takes the slashed total off the stakes and touches no escrow.
LEMMA SlashedEffect ==
  ASSUME NEW ls \in Locks, NEW ts \in Nat
  PROVE  LET ms == Slashed(ls, ts)
         IN  /\ ms \in Locks
             /\ TotalSlashed(ls, ts) \in Int
             /\ LockedByType(ms, "escrow") = LockedByType(ls, "escrow")
             /\ LockedByType(ms, "staking") = LockedByType(ls, "staking") - TotalSlashed(ls, ts)
<1> DEFINE ms == Slashed(ls, ts)
           cut == [i \in Slots |-> IF i \in SlashesDue(ls, ts) THEN ls[i].slashAmount ELSE 0]
<1>1. ASSUME NEW i \in Slots
      PROVE  /\ ms[i] \in Lock \union {NoLock}
             /\ cut[i] \in Int
             /\ ls[i].type = "escrow" => ms[i] = ls[i]
             /\ ms[i].type = ls[i].type
             /\ ls[i].type = "staking" => ms[i].locked + cut[i] = ls[i].locked
             /\ ls[i].type # "staking" => cut[i] = 0
  <2>1. CASE i \in SlashesDue(ls, ts)
    <3>1. ls[i] \in StakingLock /\ ls[i].type = "staking"
      BY <2>1, LockTypes DEF SlashesDue, OfType, Locks
    <3>2. ms[i] = AfterSlash(ls[i])
      BY <2>1 DEF Slashed
    <3>3. cut[i] = ls[i].slashAmount
      BY <2>1
    <3>4. ls[i].locked \in Int /\ ls[i].slashAmount \in Int
      BY <3>1 DEF StakingLock
    <3>5. ms[i] \in StakingLock /\ ms[i].locked = ls[i].locked - ls[i].slashAmount
      BY <3>1, <3>2, AfterSlashType
    <3> HIDE DEF ms
    <3>6. ms[i].type = "staking"
      BY <3>5 DEF StakingLock
    <3> QED BY <3>1, <3>3, <3>4, <3>5, <3>6 DEF Lock
  <2>2. CASE i \notin SlashesDue(ls, ts)
    <3>1. ms[i] = ls[i] /\ cut[i] = 0
      BY <2>2 DEF Slashed
    <3> QED BY <3>1, LockTypes DEF Locks
  <2> QED BY <2>1, <2>2
<1>2. ms \in Locks
  BY <1>1 DEF Locks, Slashed
<1>3. cut \in [1 .. MaxLocks -> Int]
  BY <1>1 DEF Slots
<1>4. TotalSlashed(ls, ts) = Total(cut, MaxLocks)
  BY DEF TotalSlashed
<1> HIDE DEF ms, cut
<1>5. LockedByType(ms, "escrow") = LockedByType(ls, "escrow")
  BY <1>1, SameAmounts DEF AmountsOf, AmountAs
<1>6. \A i \in 1 .. MaxLocks : AmountsOf(ls, "staking")[i] = AmountsOf(ms, "staking")[i] + cut[i]
  BY <1>1 DEF AmountsOf, AmountAs, Slots
<1>7. /\ AmountsOf(ms, "staking") \in [1 .. MaxLocks -> Int]
      /\ AmountsOf(ls, "staking") \in [1 .. MaxLocks -> Int]
  BY <1>2, AmountsType
<1>8. Total(AmountsOf(ls, "staking"), MaxLocks) =
        Total(AmountsOf(ms, "staking"), MaxLocks) + Total(cut, MaxLocks)
  BY <1>3, <1>6, <1>7, TotalOfSum, BalanceAssumption
<1>9. Total(cut, MaxLocks) \in Int /\ Total(AmountsOf(ms, "staking"), MaxLocks) \in Int
  BY <1>3, <1>7, TotalType, BalanceAssumption
<1> QED BY <1>2, <1>4, <1>5, <1>8, <1>9 DEF LockedByType, AmountsOf, ms

-----------------------------------------------------------------------------
(* The two calls that change vesting locks: adjustVesting, called by a      *)
(* slash, and applyLinearVesting.                                           *)

\* Updating what a vesting lock holds gives a vesting lock.
LEMMA VestingUpdate ==
  ASSUME NEW lock \in VestingLock, NEW x \in Int
  PROVE  [lock EXCEPT !.locked = x] \in VestingLock
BY DEF VestingLock

\* A change of the vesting locks only changes neither escrows nor stakes.
LEMMA VestingOnly ==
  ASSUME NEW ls \in Locks, NEW ms,
         ms = [i \in Slots |-> ms[i]],
         \A i \in Slots : \/ ms[i] = ls[i]
                          \/ ls[i] \in VestingLock /\ ms[i] \in VestingLock
  PROVE  /\ ms \in Locks
         /\ LockedByType(ms, "escrow") = LockedByType(ls, "escrow")
         /\ LockedByType(ms, "staking") = LockedByType(ls, "staking")
<1>1. \A i \in Slots : ms[i] \in Lock \union {NoLock}
  BY DEF Locks, Lock
<1>2. ms \in Locks
  BY <1>1 DEF Locks
<1>3. ASSUME NEW i \in Slots, NEW type \in {"escrow", "staking"}
      PROVE  AmountsOf(ms, type)[i] = AmountsOf(ls, type)[i]
  <2>1. CASE ms[i] = ls[i]
    BY <2>1 DEF AmountsOf
  <2>2. CASE ls[i] \in VestingLock /\ ms[i] \in VestingLock
    BY <2>2 DEF AmountsOf, AmountAs, VestingLock
  <2> QED BY <2>1, <2>2
<1> QED BY <1>2, <1>3, SameAmounts

LEMMA FloorOfQuotientType ==
  ASSUME NEW a \in Int, NEW b \in Int
  PROVE  FloorOfQuotient(a, b) \in Int
BY DEF FloorOfQuotient

LEMMA FirstPassEffect ==
  ASSUME NEW ls \in Locks, NEW exceeded \in Int, NEW vested \in Int,
         NEW first, first = FirstPass(ls, exceeded, vested)
  PROVE  /\ first \in Locks
         /\ LockedByType(first, "escrow") = LockedByType(ls, "escrow")
         /\ LockedByType(first, "staking") = LockedByType(ls, "staking")
<1>1. first = [i \in Slots |-> first[i]]
  BY DEF FirstPass
<1>2. ASSUME NEW i \in Slots
      PROVE  first[i] = ls[i] \/ (ls[i] \in VestingLock /\ first[i] \in VestingLock)
  <2>1. CASE ls[i].type = "vesting"
    <3> DEFINE lock == ls[i]
               x    == lock.locked - FloorOfQuotient(exceeded * lock.locked, vested)
    <3>1. lock \in VestingLock
      BY <2>1, LockTypes DEF Locks
    <3>2. lock.locked \in Int
      BY <3>1 DEF VestingLock
    <3>3. x \in Int
      <4> DEFINE product == exceeded * lock.locked
      <4>1. product \in Int
        BY <3>2
      <4> HIDE DEF product
      <4>2. FloorOfQuotient(product, vested) \in Int
        BY <4>1, FloorOfQuotientType
      <4> QED BY <3>2, <4>2 DEF product
    <3>4. first[i] = [lock EXCEPT !.locked = x]
      BY <2>1, Zenon DEF FirstPass
    <3> HIDE DEF lock, x
    <3>5. [lock EXCEPT !.locked = x] \in VestingLock
      BY <3>1, <3>3, VestingUpdate
    <3> QED BY <3>1, <3>4, <3>5, Zenon DEF lock
  <2>2. CASE ls[i].type # "vesting"
    BY <2>2 DEF FirstPass
  <2> QED BY <2>1, <2>2
<1> QED BY <1>1, <1>2, VestingOnly

LEMMA SecondPassEffect ==
  ASSUME NEW first \in Locks, NEW missing, NEW second, second = SecondPass(first, missing)
  PROVE  /\ second \in Locks
         /\ LockedByType(second, "escrow") = LockedByType(first, "escrow")
         /\ LockedByType(second, "staking") = LockedByType(first, "staking")
<1>1. second = [i \in Slots |-> second[i]]
  BY DEF SecondPass
<1>2. ASSUME NEW i \in Slots
      PROVE  second[i] = first[i] \/ (first[i] \in VestingLock /\ second[i] \in VestingLock)
  <2>1. CASE first[i].type = "vesting"
    <3> DEFINE lock == first[i]
    <3>1. lock \in VestingLock
      BY <2>1, LockTypes DEF Locks
    <3>2. lock.locked - 1 \in Int
      BY <3>1 DEF VestingLock
    <3>3. second[i] = [lock EXCEPT !.locked = lock.locked - 1] \/ second[i] = lock
      BY Zenon DEF SecondPass
    <3> HIDE DEF lock
    <3>4. [lock EXCEPT !.locked = lock.locked - 1] \in VestingLock
      BY <3>1, <3>2, VestingUpdate
    <3> QED BY <3>1, <3>3, <3>4, Zenon DEF lock
  <2>2. CASE first[i].type # "vesting"
    BY <2>2 DEF SecondPass
  <2> QED BY <2>1, <2>2
<1> QED BY <1>1, <1>2, VestingOnly

LEMMA AdjustVestingEffect ==
  ASSUME NEW ls \in Locks, NEW bal \in Int
  PROVE  /\ AdjustVesting(ls, bal) \in Locks
         /\ LockedByType(AdjustVesting(ls, bal), "escrow") = LockedByType(ls, "escrow")
         /\ LockedByType(AdjustVesting(ls, bal), "staking") = LockedByType(ls, "staking")
<1> DEFINE vested   == LockedByType(ls, "vesting")
           exceeded == vested - bal
           first    == FirstPass(ls, exceeded, vested)
           missing  == exceeded - (vested - LockedByType(first, "vesting"))
           second   == SecondPass(first, missing)
<1>1. vested \in Int /\ exceeded \in Int
  BY LockedByTypeType
<1>2. /\ first \in Locks
      /\ LockedByType(first, "escrow") = LockedByType(ls, "escrow")
      /\ LockedByType(first, "staking") = LockedByType(ls, "staking")
  BY <1>1, FirstPassEffect
<1> HIDE DEF first, missing
<1>3. /\ second \in Locks
      /\ LockedByType(second, "escrow") = LockedByType(first, "escrow")
      /\ LockedByType(second, "staking") = LockedByType(first, "staking")
  BY <1>2, SecondPassEffect
<1>4. AdjustVesting(ls, bal) = ls \/ AdjustVesting(ls, bal) = RemoveExpired(second, "vesting")
  BY DEF AdjustVesting, second, missing, first
<1> HIDE DEF second
<1> QED BY <1>2, <1>3, <1>4, RemoveExpiredKeeps

\* The days elapsed of a vesting lock.
LEMMA ElapsedDaysType ==
  ASSUME NEW lock \in VestingLock, NEW ts \in Nat
  PROVE  ElapsedDays(lock, ts) \in Int
<1> DEFINE from == AddDaysToTimestamp(lock.cliffStart, lock.cliffDays)
           diff == TimestampDifferenceInDays(from, ts)
<1>1. lock.cliffStart \in Nat /\ lock.cliffDays \in Nat /\ lock.days \in Nat
  BY DEF VestingLock
<1>2. DayLength \in Nat /\ DayLength > 0
  BY BalanceAssumption
<1>3. from \in Int
  <2>1. lock.cliffStart \div DayLength \in Int
    BY <1>1, <1>2
  <2>2. (lock.cliffStart \div DayLength) + lock.cliffDays \in Int
    BY <1>1, <2>1
  <2> DEFINE d == (lock.cliffStart \div DayLength) + lock.cliffDays
  <2> HIDE DEF d
  <2>3. d \in Int /\ d * DayLength \in Int
    BY <1>2, <2>2 DEF d
  <2> QED BY <2>3 DEF AddDaysToTimestamp, d
<1>4. diff \in Int
  <2> HIDE DEF from
  <2>1. 2 * (ts - from) + DayLength \in Int /\ 2 * DayLength \in Nat /\ 2 * DayLength > 0
    BY <1>2, <1>3
  <2> DEFINE a == 2 * (ts - from) + DayLength
             b == 2 * DayLength
  <2> HIDE DEF a, b
  <2>2. a \div b \in Int
    BY <2>1 DEF a, b
  <2> QED BY <2>2 DEF TimestampDifferenceInDays, a, b
<1> HIDE DEF from, diff
<1>5. ElapsedDays(lock, ts) = Minimum(diff, lock.days)
  BY DEF ElapsedDays, diff, from
<1> QED BY <1>1, <1>4, <1>5 DEF Minimum

LEMMA MaximumReleaseType ==
  ASSUME NEW lock \in VestingLock, NEW ts \in Nat
  PROVE  MaximumRelease(lock, ts) \in Int
<1> DEFINE elapsed == ElapsedDays(lock, ts)
           product == lock.initial * elapsed
           days    == lock.days
<1>1. elapsed \in Int
  BY ElapsedDaysType
<1>2. lock.initial \in Nat /\ days \in Nat /\ days > 0
  BY DEF VestingLock
<1> HIDE DEF elapsed, days
<1>3. product \in Int
  BY <1>1, <1>2
<1> HIDE DEF product
<1>4. product \div days \in Int
  BY <1>2, <1>3
<1> QED BY <1>4 DEF MaximumRelease, product, elapsed, days

LEMMA ReleasedType ==
  ASSUME NEW lock \in Lock \union {NoLock}, NEW ts \in Nat, NEW releasable \in Int
  PROVE  Released(lock, ts, releasable) \in Int
<1>1. CASE lock.type = "vesting"
  <2>1. lock \in VestingLock
    BY <1>1, LockTypes
  <2>2. lock.initial \in Nat /\ lock.locked \in Int
    BY <2>1 DEF VestingLock
  <2>3. MaximumRelease(lock, ts) \in Int
    BY <2>1, MaximumReleaseType
  <2> QED BY <2>2, <2>3 DEF Released, Minimum
<1>2. CASE lock.type # "vesting"
  BY <1>2 DEF Released
<1> QED BY <1>1, <1>2

\* p lists what is left to release after each of the first n positions.
Remainders(ls, ts, releasable, n, p) ==
  /\ p \in [0 .. n -> Int]
  /\ p[0] = releasable
  /\ \A k \in 1 .. n : p[k] = p[k - 1] - Released(ls[k], ts, p[k - 1])

\* The recursive function in LeftToRelease exists: it is built one position at
\* a time.
LEMMA RemaindersExist ==
  ASSUME NEW ls \in Locks, NEW ts \in Nat, NEW releasable \in Int
  PROVE  \E p : Remainders(ls, ts, releasable, MaxLocks, p)
<1> DEFINE S == {m \in 0 .. MaxLocks : \E p : Remainders(ls, ts, releasable, m, p)}
<1>1. 0 \in S
  <2>1. Remainders(ls, ts, releasable, 0, [k \in 0 .. 0 |-> releasable])
    BY DEF Remainders
  <2> QED BY <2>1, BalanceAssumption
<1>2. \A m \in 0 .. MaxLocks - 1 : m \in S => m + 1 \in S
  <2> SUFFICES ASSUME NEW m \in 0 .. MaxLocks - 1, NEW p, Remainders(ls, ts, releasable, m, p)
               PROVE  \E q : Remainders(ls, ts, releasable, m + 1, q)
    BY BalanceAssumption
  <2> DEFINE next == p[m] - Released(ls[m + 1], ts, p[m])
             q    == [k \in 0 .. m + 1 |-> IF k <= m THEN p[k] ELSE next]
  <2>1. next \in Int
    <3>1. p[m] \in Int
      BY DEF Remainders
    <3>2. ls[m + 1] \in Lock \union {NoLock}
      BY BalanceAssumption DEF Locks, Slots
    <3>3. Released(ls[m + 1], ts, p[m]) \in Int
      BY <3>1, <3>2, ReleasedType
    <3> QED BY <3>1, <3>3
  <2>2. q \in [0 .. m + 1 -> Int] /\ q[0] = releasable
    <3> HIDE DEF next
    <3> QED BY <2>1 DEF Remainders
  <2>3. ASSUME NEW k \in 1 .. m + 1 PROVE q[k] = q[k - 1] - Released(ls[k], ts, q[k - 1])
    <3>1. CASE k <= m
      BY <3>1 DEF Remainders
    <3>2. CASE k = m + 1
      BY <3>2
    <3> QED BY <3>1, <3>2
  <2> HIDE DEF q
  <2>4. Remainders(ls, ts, releasable, m + 1, q)
    BY <2>2, <2>3 DEF Remainders
  <2> QED BY <2>4
<1>3. 0 .. MaxLocks \subseteq S
  <2> HIDE DEF S
  <2> QED BY <1>1, <1>2, IntervalInduction, BalanceAssumption
<1> QED BY <1>3, BalanceAssumption

LEMMA LeftToReleaseSteps ==
  ASSUME NEW ls \in Locks, NEW ts \in Nat, NEW releasable \in Int,
         NEW left, left = LeftToRelease(ls, ts, releasable)
  PROVE  /\ left[0] = releasable
         /\ \A k \in 1 .. MaxLocks : left[k] = left[k - 1] - Released(ls[k], ts, left[k - 1])
<1> DEFINE Is(s) == s = [i \in 0 .. MaxLocks |->
                           IF i = 0 THEN releasable
                           ELSE s[i - 1] - Released(ls[i], ts, s[i - 1])]
           chosen == CHOOSE s : Is(s)
<1>1. \E s : Is(s)
  <2>1. PICK p : Remainders(ls, ts, releasable, MaxLocks, p)
    BY RemaindersExist
  <2>2. Is(p)
    BY <2>1 DEF Remainders
  <2> QED BY <2>2
<1>2. Is(chosen)
  BY <1>1
<1>3. left = chosen
  BY DEF LeftToRelease, chosen, Is
<1> HIDE DEF chosen
<1> QED BY <1>2, <1>3, BalanceAssumption

LEMMA LeftToReleaseType ==
  ASSUME NEW ls \in Locks, NEW ts \in Nat, NEW releasable \in Int
  PROVE  \A i \in 0 .. MaxLocks : LeftToRelease(ls, ts, releasable)[i] \in Int
<1> DEFINE left == LeftToRelease(ls, ts, releasable)
<1>1. /\ left[0] = releasable
      /\ \A k \in 1 .. MaxLocks : left[k] = left[k - 1] - Released(ls[k], ts, left[k - 1])
  BY LeftToReleaseSteps
<1> HIDE DEF left
<1> DEFINE S == {k \in 0 .. MaxLocks : left[k] \in Int}
<1>2. 0 .. MaxLocks \subseteq S
  <2>1. 0 \in S
    BY <1>1, BalanceAssumption
  <2>2. ASSUME NEW k \in 0 .. MaxLocks - 1, k \in S PROVE k + 1 \in S
    <3>1. k + 1 \in 1 .. MaxLocks /\ (k + 1) - 1 = k
      BY BalanceAssumption
    <3>2. left[k + 1] = left[k] - Released(ls[k + 1], ts, left[k])
      BY <1>1, <3>1
    <3>3. left[k] \in Int /\ ls[k + 1] \in Lock \union {NoLock}
      BY <2>2, <3>1 DEF Locks, Slots
    <3>4. Released(ls[k + 1], ts, left[k]) \in Int
      BY <3>3, ReleasedType
    <3> QED BY <3>1, <3>2, <3>3, <3>4
  <2> HIDE DEF S
  <2> QED BY <2>1, <2>2, IntervalInduction, BalanceAssumption
<1> QED BY <1>2 DEF left

LEMMA AfterReleaseEffect ==
  ASSUME NEW ls \in Locks, NEW ts \in Nat, NEW releasable \in Int,
         NEW left, left = LeftToRelease(ls, ts, releasable),
         NEW rs, rs = AfterRelease(ls, ts, left)
  PROVE  /\ rs \in Locks
         /\ LockedByType(rs, "escrow") = LockedByType(ls, "escrow")
         /\ LockedByType(rs, "staking") = LockedByType(ls, "staking")
<1>1. \A i \in 0 .. MaxLocks : left[i] \in Int
  BY LeftToReleaseType
<1>2. rs = [i \in Slots |-> rs[i]]
  BY DEF AfterRelease
<1>3. ASSUME NEW i \in Slots
      PROVE  rs[i] = ls[i] \/ (ls[i] \in VestingLock /\ rs[i] \in VestingLock)
  <2>1. CASE ls[i].type = "vesting"
    <3> DEFINE lock == ls[i]
               x    == lock.locked - Released(lock, ts, left[i - 1])
    <3>1. lock \in VestingLock /\ lock \in Lock \union {NoLock}
      BY <2>1, LockTypes DEF Locks
    <3>2. left[i - 1] \in Int
      BY <1>1, BalanceAssumption DEF Slots
    <3>3. lock.locked \in Int /\ Released(lock, ts, left[i - 1]) \in Int
      BY <3>1, <3>2, ReleasedType DEF VestingLock
    <3>4. x \in Int
      BY <3>3
    <3>5. rs[i] = [lock EXCEPT !.locked = x]
      BY <2>1, Zenon DEF AfterRelease
    <3> HIDE DEF lock, x
    <3>6. [lock EXCEPT !.locked = x] \in VestingLock
      BY <3>1, <3>4, VestingUpdate
    <3> QED BY <3>1, <3>5, <3>6, Zenon DEF lock
  <2>2. CASE ls[i].type # "vesting"
    BY <2>2 DEF AfterRelease
  <2> QED BY <2>1, <2>2
<1> QED BY <1>2, <1>3, VestingOnly

LEMMA LinearVestingEffect ==
  ASSUME NEW ls \in Locks, NEW ts \in Nat, NEW releasable \in Int
  PROVE  LET ms == AfterLinearVesting(ls, ts, releasable)
         IN  /\ ms \in Locks
             /\ LockedByType(ms, "escrow") = LockedByType(ls, "escrow")
             /\ LockedByType(ms, "staking") = LockedByType(ls, "staking")
<1> DEFINE left == LeftToRelease(ls, ts, releasable)
           rs   == AfterRelease(ls, ts, left)
<1>1. AfterLinearVesting(ls, ts, releasable) = RemoveExpired(rs, "vesting")
  BY DEF AfterLinearVesting, left
<1>2. /\ rs \in Locks
      /\ LockedByType(rs, "escrow") = LockedByType(ls, "escrow")
      /\ LockedByType(rs, "staking") = LockedByType(ls, "staking")
  BY AfterReleaseEffect
<1> HIDE DEF rs
<1> QED BY <1>1, <1>2, RemoveExpiredKeeps

-----------------------------------------------------------------------------
(* The inductive invariant: the types, and what StakeableNonNegative says.  *)
(* A step preserves it because it either adds to the balance what it adds   *)
(* to the locks, checks what it adds to the stakes, or takes at least as    *)
(* much off stakes and escrows as off the balance.                          *)

Inductive == TypeOK /\ StakeableNonNegative

\* Stakes and escrows of a list of locks: what the balance has to cover.
Covered(ls) == LockedByType(ls, "staking") + LockedByType(ls, "escrow")

LEMMA CoveredType ==
  ASSUME NEW ls \in Locks
  PROVE  Covered(ls) \in Int
BY LockedByTypeType DEF Covered

LEMMA InductiveAsCovered ==
  ASSUME balance \in Int, locks \in Locks, now \in Nat
  PROVE  Inductive <=> Covered(locks) <= balance
<1>1. /\ LockedByType(locks, "staking") \in Int
      /\ LockedByType(locks, "escrow") \in Int
  BY LockedByTypeType
<1> QED BY <1>1 DEF Inductive, TypeOK, StakeableNonNegative, Stakeable, Staked, Escrowed,
                    Covered, Locks

LEMMA InductivePrimed ==
  ASSUME balance' \in Int, locks' \in Locks, now' \in Nat, Covered(locks') <= balance'
  PROVE  Inductive'
<1>1. /\ LockedByType(locks', "staking") \in Int
      /\ LockedByType(locks', "escrow") \in Int
  BY LockedByTypeType
<1> QED BY <1>1 DEF Inductive, TypeOK, StakeableNonNegative, Stakeable, Staked, Escrowed,
                    Covered, Locks

\* A step that keeps the types, and balance and locks in proportion, keeps the
\* invariant.
LEMMA KeepsInductive ==
  ASSUME Inductive,
         balance' \in Int, locks' \in Locks, now' \in Nat,
         Covered(locks') - Covered(locks) <= balance' - balance
  PROVE  Inductive'
<1>1. balance \in Int /\ locks \in Locks /\ now \in Nat
  BY DEF Inductive, TypeOK, Locks
<1>2. Covered(locks) <= balance
  BY <1>1, InductiveAsCovered
<1>3. Covered(locks) \in Int /\ Covered(locks') \in Int
  BY <1>1, CoveredType
<1>4. Covered(locks') <= balance'
  BY <1>1, <1>2, <1>3
<1> QED BY <1>4, InductivePrimed

\* Replacing the stake at i by one that holds x more.
LEMMA ReplaceStake ==
  ASSUME TypeOK, NEW i \in Slots, locks[i].type = "staking",
         NEW stake \in StakingLock, NEW x \in Int, stake.locked = locks[i].locked + x,
         locks' = [locks EXCEPT ![i] = stake]
  PROVE  locks' \in Locks /\ Covered(locks') - Covered(locks) = x
<1>1. locks \in Locks /\ stake \in Lock \union {NoLock}
  BY DEF TypeOK, Locks, Lock
<1>2. \A type : /\ locks' \in Locks
                /\ LockedByType(locks', type) =
                     LockedByType(locks, type) + (AmountAs(stake, type) - AmountAs(locks[i], type))
  BY <1>1, ReplaceLock
<1>3. /\ AmountAs(stake, "staking") = locks[i].locked + x
      /\ AmountAs(locks[i], "staking") = locks[i].locked
      /\ AmountAs(stake, "escrow") = 0
      /\ AmountAs(locks[i], "escrow") = 0
  BY DEF AmountAs, StakingLock
<1>4. locks[i].locked \in Int
  BY LockTypes DEF TypeOK
<1>5. LockedByType(locks, "staking") \in Int /\ LockedByType(locks, "escrow") \in Int
  BY <1>1, LockedByTypeType
<1>6. /\ LockedByType(locks', "staking") =
           LockedByType(locks, "staking") + ((locks[i].locked + x) - locks[i].locked)
      /\ LockedByType(locks', "escrow") = LockedByType(locks, "escrow") + (0 - 0)
  BY <1>2, <1>3
<1> DEFINE held    == locks[i].locked
           stakes  == LockedByType(locks, "staking")
           escrows == LockedByType(locks, "escrow")
<1>7. Covered(locks) = stakes + escrows /\ Covered(locks') = (stakes + ((held + x) - held)) + (escrows + (0 - 0))
  BY <1>6, Zenon DEF Covered
<1>8. held \in Int /\ stakes \in Int /\ escrows \in Int
  BY <1>4, <1>5
<1> HIDE DEF held, stakes, escrows
<1>9. ((stakes + ((held + x) - held)) + (escrows + (0 - 0))) - (stakes + escrows) = x
  BY <1>8
<1> QED BY <1>2, <1>7, <1>9, Zenon

\* Pushing a lock adds what it holds, unless it is a vesting lock.
LEMMA PushCovered ==
  ASSUME TypeOK, NEW lock \in Lock, Push(lock)
  PROVE  /\ locks' \in Locks
         /\ lock.type = "vesting" => Covered(locks') = Covered(locks)
         /\ lock.type # "vesting" => Covered(locks') = Covered(locks) + lock.locked
<1>1. locks \in Locks /\ lock \in Lock \union {NoLock}
  BY DEF TypeOK, Locks
<1>2. /\ locks' \in Locks
      /\ LockedByType(locks', "staking") = LockedByType(locks, "staking") + AmountAs(lock, "staking")
      /\ LockedByType(locks', "escrow") = LockedByType(locks, "escrow") + AmountAs(lock, "escrow")
  BY PushEffect
<1>3. LockedByType(locks, "staking") \in Int /\ LockedByType(locks, "escrow") \in Int
  BY <1>1, LockedByTypeType
<1>4. lock.locked \in Int /\ lock.type \in {"escrow", "vesting", "staking"}
  BY <1>1, LockTypes DEF Lock, EscrowLock, VestingLock, StakingLock
<1> QED BY <1>2, <1>3, <1>4 DEF Covered, AmountAs

-----------------------------------------------------------------------------
(* One lemma per action.                                                   *)

LEMMA DebitStep ==
  ASSUME Inductive, NEW a \in Amounts, Debit(a)
  PROVE  Inductive'
<1>1. /\ balance \in Int /\ a \in Nat /\ locks \in Locks /\ now \in Nat
      /\ Escrowed \in Int /\ Vested \in Int /\ Staked \in Int
  BY BreakdownType, BalanceAssumption DEF Inductive, TypeOK, Locks
<1>2. a <= balance - (Escrowed + Staked)
  BY <1>1 DEF Debit, Spendable, Maximum
<1>3. Covered(locks) = Staked + Escrowed
  BY DEF Covered, Staked, Escrowed
<1>4. balance' \in Int /\ locks' = locks /\ now' = now /\ balance' = balance - a
  BY <1>1 DEF Debit
<1>5. Covered(locks') <= balance'
  BY <1>1, <1>2, <1>3, <1>4
<1> QED BY <1>1, <1>4, <1>5, InductivePrimed

LEMMA AddSpendableTokensStep ==
  ASSUME Inductive, NEW a \in Amounts, AddSpendableTokens(a)
  PROVE  Inductive'
<1>1. balance \in Int /\ a \in Nat /\ locks \in Locks /\ now \in Nat
  BY BalanceAssumption DEF Inductive, TypeOK, Locks
<1>2. balance' = balance + a /\ locks' = locks /\ now' = now
  BY DEF AddSpendableTokens
<1>3. Covered(locks') - Covered(locks) = 0
  BY <1>1, <1>2, CoveredType
<1> QED BY <1>1, <1>2, <1>3, KeepsInductive

LEMMA AddVestedTokensStep ==
  ASSUME Inductive, NEW a \in Amounts, NEW t \in Terms, AddVestedTokens(a, t[1], t[2])
  PROVE  Inductive'
<1> DEFINE lock == [type |-> "vesting", locked |-> a, initial |-> a,
                    cliffStart |-> now, cliffDays |-> t[1], days |-> t[2]]
<1>1. balance \in Int /\ a \in Nat /\ locks \in Locks /\ now \in Nat /\ TypeOK
  BY BalanceAssumption DEF Inductive, TypeOK, Locks
<1>2. t[1] \in Nat /\ t[2] \in Nat \ {0}
  BY BalanceAssumption
<1>3. lock \in Lock /\ lock.type = "vesting"
  BY <1>1, <1>2 DEF Lock, VestingLock
<1>4. Push(lock) /\ balance' = balance + a /\ now' = now
  BY DEF AddVestedTokens
<1> HIDE DEF lock
<1>5. locks' \in Locks /\ Covered(locks') = Covered(locks)
  BY <1>1, <1>3, <1>4, PushCovered
<1>6. Covered(locks') - Covered(locks) = 0
  BY <1>1, <1>5, CoveredType
<1> QED BY <1>1, <1>4, <1>5, <1>6, KeepsInductive

LEMMA AddEscrowedTokensStep ==
  ASSUME Inductive, NEW id \in Escrows, NEW a \in Amounts, AddEscrowedTokens(id, a)
  PROVE  Inductive'
<1> DEFINE lock == [type |-> "escrow", locked |-> a, id |-> id]
<1>1. balance \in Int /\ a \in Nat /\ locks \in Locks /\ now \in Nat /\ TypeOK
  BY BalanceAssumption DEF Inductive, TypeOK, Locks
<1>2. lock \in Lock /\ lock.type = "escrow" /\ lock.locked = a
  BY <1>1 DEF Lock, EscrowLock
<1>3. Push(lock) /\ balance' = balance + a /\ now' = now
  BY DEF AddEscrowedTokens
<1> HIDE DEF lock
<1>4. locks' \in Locks /\ Covered(locks') = Covered(locks) + a
  BY <1>1, <1>2, <1>3, PushCovered
<1>5. Covered(locks') - Covered(locks) = a
  BY <1>1, <1>4, CoveredType
<1> QED BY <1>1, <1>3, <1>4, <1>5, KeepsInductive

\* An escrow holds no negative amount: removing it leaves less to cover.
LEMMA RemoveEscrowLockStep ==
  ASSUME Inductive, NEW id \in Escrows, RemoveEscrowLock(id)
  PROVE  Inductive'
<1>1. balance \in Int /\ locks \in Locks /\ now \in Nat
  BY DEF Inductive, TypeOK, Locks
<1>2. PICK i \in Slots : IsEscrowOf(id, i) /\ locks' = [locks EXCEPT ![i] = NoLock]
  BY DEF RemoveEscrowLock
<1>3. locks[i].type = "escrow" /\ locks[i].locked \in Nat
  <2>1. locks[i].type = "escrow" /\ locks[i] \in Lock \union {NoLock}
    BY <1>1, <1>2 DEF IsEscrowOf, Locks
  <2>2. locks[i] \in EscrowLock
    BY <2>1, LockTypes
  <2> QED BY <2>1, <2>2 DEF EscrowLock
<1>4. \A type : /\ locks' \in Locks
                /\ LockedByType(locks', type) =
                     LockedByType(locks, type) + (AmountAs(NoLock, type) - AmountAs(locks[i], type))
  <2>1. NoLock \in Lock \union {NoLock}
    OBVIOUS
  <2> QED BY <1>1, <1>2, <2>1, ReplaceLock
<1>5. /\ AmountAs(NoLock, "staking") = 0 /\ AmountAs(NoLock, "escrow") = 0
      /\ AmountAs(locks[i], "staking") = 0 /\ AmountAs(locks[i], "escrow") = locks[i].locked
  BY <1>3 DEF AmountAs, NoLock
<1> DEFINE held    == locks[i].locked
           stakes  == LockedByType(locks, "staking")
           escrows == LockedByType(locks, "escrow")
<1>6. Covered(locks) = stakes + escrows /\ Covered(locks') = (stakes + (0 - 0)) + (escrows + (0 - held))
  <2>1. /\ LockedByType(locks', "staking") = stakes + (0 - 0)
        /\ LockedByType(locks', "escrow") = escrows + (0 - held)
    BY <1>4, <1>5
  <2> QED BY <2>1, Zenon DEF Covered
<1>7. held \in Nat /\ stakes \in Int /\ escrows \in Int
  BY <1>1, <1>3, LockedByTypeType
<1> HIDE DEF held, stakes, escrows
<1>8. ((stakes + (0 - 0)) + (escrows + (0 - held))) - (stakes + escrows) <= 0
  BY <1>7
<1>9. Covered(locks') - Covered(locks) <= balance' - balance
  <2>1. balance' = balance /\ balance' - balance = 0
    BY <1>1 DEF RemoveEscrowLock
  <2> QED BY <1>6, <1>8, <2>1
<1>10. balance' \in Int /\ now' \in Nat
  BY <1>1 DEF RemoveEscrowLock
<1> QED BY <1>4, <1>9, <1>10, KeepsInductive

\* The amount staked was checked against what is neither staked nor in escrow.
LEMMA AddNodeStakingStep ==
  ASSUME Inductive, NEW n \in Nodes, NEW a \in Amounts, AddNodeStaking(n, a)
  PROVE  Inductive'
<1>1. /\ balance \in Int /\ a \in Nat /\ locks \in Locks /\ now \in Nat /\ TypeOK
      /\ Covered(locks) = Staked + Escrowed /\ Staked \in Int /\ Escrowed \in Int
  BY BreakdownType, BalanceAssumption DEF Inductive, TypeOK, Locks, Covered, Staked, Escrowed
<1>2. a <= balance - Covered(locks)
  BY <1>1 DEF AddNodeStaking, Stakeable
<1>3. balance' = balance /\ now' = now
  BY DEF AddNodeStaking
<1>4. locks' \in Locks /\ Covered(locks') = Covered(locks) + a
  <2>1. CASE \E i \in Slots : IsStakeOf(n, i) /\ locks' = [locks EXCEPT ![i].locked = @ + a]
    <3>1. PICK i \in Slots : IsStakeOf(n, i) /\ locks' = [locks EXCEPT ![i].locked = @ + a]
      BY <2>1
    <3> DEFINE stake == locks[i]
               x     == stake.locked + a
               new   == [stake EXCEPT !.locked = x]
    <3>2. stake \in StakingLock /\ stake.type = "staking"
      BY <1>1, <3>1, LockTypes DEF IsStakeOf, Locks
    <3>3. stake.locked \in Int /\ x \in Int
      BY <1>1, <3>2 DEF StakingLock
    <3>4. locks' = [locks EXCEPT ![i] = new]
      BY <3>1, Zenon
    <3> HIDE DEF stake, x
    <3>5. new \in StakingLock /\ new.locked = x
      BY <3>2, <3>3, StakeUpdate
    <3> HIDE DEF new
    <3>6. locks' \in Locks /\ Covered(locks') - Covered(locks) = a
      <4>1. a \in Int
        BY <1>1
      <4> QED BY <1>1, <3>2, <3>4, <3>5, <4>1, ReplaceStake, Zenon DEF x, stake
    <3> QED BY <1>1, <3>6, CoveredType
  <2>2. CASE Push(NewStake(n, a))
    <3>1. NewStake(n, a) \in Lock /\ NewStake(n, a).type = "staking" /\ NewStake(n, a).locked = a
      BY <1>1 DEF NewStake, Lock, StakingLock
    <3> QED BY <1>1, <2>2, <3>1, PushCovered
  <2> QED BY <2>1, <2>2 DEF AddNodeStaking
<1>5. Covered(locks') <= balance'
  BY <1>1, <1>2, <1>3, <1>4
<1> QED BY <1>1, <1>3, <1>4, <1>5, InductivePrimed

LEMMA WithSlashType ==
  ASSUME NEW stake \in StakingLock, NEW b \in BOOLEAN, NEW y \in Int, NEW k \in Nat
  PROVE  WithSlash(stake, b, y, k) \in StakingLock /\ WithSlash(stake, b, y, k).locked = stake.locked
<1> DEFINE l1 == [stake EXCEPT !.slashed = b]
           l2 == [l1 EXCEPT !.slashAmount = y]
           l3 == [l2 EXCEPT !.slashTime = k]
<1>1. l1 \in StakingLock /\ l1.locked = stake.locked
  BY StakeUpdate
<1> HIDE DEF l1
<1>2. l2 \in StakingLock /\ l2.locked = stake.locked
  BY <1>1, StakeUpdate
<1> HIDE DEF l2
<1>3. l3 \in StakingLock /\ l3.locked = stake.locked
  BY <1>2, StakeUpdate
<1>4. WithSlash(stake, b, y, k) = l3
  BY Zenon DEF WithSlash, l2, l1
<1> QED BY <1>3, <1>4

LEMMA WithPlanType ==
  ASSUME NEW stake \in StakingLock, NEW a \in Nat, NEW ts \in Nat
  PROVE  WithPlan(stake, a, ts) \in StakingLock /\ WithPlan(stake, a, ts).locked = stake.locked
<1> DEFINE time == AddDaysToTimestamp(ts, 0)
           l1   == [stake EXCEPT !.unlockAmount = a]
           l2   == [l1 EXCEPT !.unlockTime = time]
<1>1. time \in Nat
  <2>1. DayLength \in Nat /\ DayLength > 0
    BY BalanceAssumption
  <2> DEFINE d == ts \div DayLength
  <2>2. d \in Nat
    BY <2>1
  <2> HIDE DEF d
  <2>3. (d + 0) * DayLength \in Nat
    BY <2>1, <2>2
  <2> QED BY <2>3 DEF AddDaysToTimestamp, d
<1> HIDE DEF time
<1>2. l1 \in StakingLock /\ l1.locked = stake.locked
  BY StakeUpdate
<1> HIDE DEF l1
<1>3. l2 \in StakingLock /\ l2.locked = stake.locked
  BY <1>1, <1>2, StakeUpdate
<1>4. WithPlan(stake, a, ts) = l2
  BY Zenon DEF WithPlan, l1, time
<1> QED BY <1>3, <1>4

\* Planning and marking replace a stake by one that holds as much.
LEMMA SameStakeStep ==
  ASSUME Inductive, UNCHANGED <<balance, now>>, NEW n \in Nodes,
         NEW i \in Slots, IsStakeOf(n, i),
         NEW stake \in StakingLock, stake.locked = locks[i].locked,
         locks' = [locks EXCEPT ![i] = stake]
  PROVE  Inductive'
<1>1. balance \in Int /\ locks \in Locks /\ now \in Nat /\ TypeOK
  BY DEF Inductive, TypeOK, Locks
<1>2. locks[i].type = "staking" /\ locks[i].locked \in Int
  BY <1>1, LockTypes DEF IsStakeOf, Locks
<1>3. 0 \in Int /\ stake.locked = locks[i].locked + 0
  BY <1>2
<1>4. locks' \in Locks /\ Covered(locks') - Covered(locks) = 0
  BY <1>1, <1>2, <1>3, ReplaceStake, Zenon
<1> QED BY <1>1, <1>4, KeepsInductive

LEMMA PlanNodeStakingUnlockStep ==
  ASSUME Inductive, NEW n \in Nodes, NEW a \in Amounts, NEW ts \in PlanTimes,
         PlanNodeStakingUnlock(n, a, ts)
  PROVE  Inductive'
<1>1. PICK i \in Slots : IsStakeOf(n, i) /\ locks' = [locks EXCEPT ![i] = WithPlan(locks[i], a, ts)]
  BY Zenon DEF PlanNodeStakingUnlock
<1>2. a \in Nat /\ ts \in Nat
  BY BalanceAssumption DEF PlanTimes
<1>3. locks[i] \in StakingLock
  BY <1>1, LockTypes DEF Inductive, TypeOK, IsStakeOf
<1>4. UNCHANGED <<balance, now>>
  BY DEF PlanNodeStakingUnlock
<1> QED BY <1>1, <1>2, <1>3, <1>4, WithPlanType, SameStakeStep, Zenon

LEMMA SetSlashingStep ==
  ASSUME Inductive, NEW n \in Nodes, NEW ts \in PlanTimes, SetSlashing(n, ts)
  PROVE  Inductive'
<1>1. PICK i \in Slots : /\ IsStakeOf(n, i)
                         /\ locks' = [locks EXCEPT ![i] = WithSlash(locks[i], TRUE, locks[i].locked, ts)]
  BY Zenon DEF SetSlashing
<1>2. TRUE \in BOOLEAN /\ ts \in Nat
  BY BalanceAssumption DEF PlanTimes
<1>3. locks[i] \in StakingLock /\ locks[i].locked \in Int
  BY <1>1, LockTypes DEF Inductive, TypeOK, IsStakeOf
<1>4. UNCHANGED <<balance, now>>
  BY DEF SetSlashing
<1> QED BY <1>1, <1>2, <1>3, <1>4, WithSlashType, SameStakeStep, Zenon

LEMMA CancelNodeSlashingStep ==
  ASSUME Inductive, NEW n \in Nodes, CancelNodeSlashing(n)
  PROVE  Inductive'
<1>1. PICK i \in Slots : /\ IsStakeOf(n, i)
                         /\ locks' = [locks EXCEPT ![i] = WithSlash(locks[i], FALSE, 0, 0)]
  BY Zenon DEF CancelNodeSlashing
<1>2. FALSE \in BOOLEAN /\ 0 \in Nat /\ 0 \in Int
  OBVIOUS
<1>3. locks[i] \in StakingLock
  BY <1>1, LockTypes DEF Inductive, TypeOK, IsStakeOf
<1>4. UNCHANGED <<balance, now>>
  BY DEF CancelNodeSlashing
<1> QED BY <1>1, <1>2, <1>3, <1>4, WithSlashType, SameStakeStep, Zenon

LEMMA ApplyNodeStakingUnlocksStep ==
  ASSUME Inductive, ApplyNodeStakingUnlocks
  PROVE  Inductive'
<1>1. balance \in Int /\ locks \in Locks /\ now \in Nat
  BY DEF Inductive, TypeOK, Locks
<1>2. locks' = AfterUnlocks(locks, now) /\ balance' = balance /\ now' = now
  BY DEF ApplyNodeStakingUnlocks
<1>3. /\ locks' \in Locks
      /\ LockedByType(locks', "escrow") = LockedByType(locks, "escrow")
      /\ LockedByType(locks', "staking") <= LockedByType(locks, "staking")
  BY <1>1, <1>2, UnlocksEffect
<1>4. Covered(locks') <= Covered(locks)
  BY <1>1, <1>3, LockedByTypeType DEF Covered
<1>5. Covered(locks') <= balance'
  BY <1>1, <1>2, <1>3, <1>4, InductiveAsCovered, CoveredType
<1> QED BY <1>1, <1>2, <1>3, <1>5, InductivePrimed

\* The stakes lose what the balance loses.
LEMMA ApplyNodeSlashingStep ==
  ASSUME Inductive, ApplyNodeSlashing
  PROVE  Inductive'
<1> DEFINE total    == TotalSlashed(locks, now)
           bal      == balance - total
           slashed  == Slashed(locks, now)
           adjusted == AdjustVesting(slashed, bal)
           last     == RemoveExpired(adjusted, "staking")
<1>1. balance \in Int /\ locks \in Locks /\ now \in Nat
  BY DEF Inductive, TypeOK, Locks
<1>2. /\ slashed \in Locks /\ total \in Int
      /\ LockedByType(slashed, "escrow") = LockedByType(locks, "escrow")
      /\ LockedByType(slashed, "staking") = LockedByType(locks, "staking") - total
  BY <1>1, SlashedEffect
<1>3. locks' = last /\ balance' = bal /\ now' = now
  BY DEF ApplyNodeSlashing
<1> HIDE DEF slashed, total
<1>4. bal \in Int
  BY <1>1, <1>2
<1> HIDE DEF bal
<1>5. /\ adjusted \in Locks
      /\ LockedByType(adjusted, "escrow") = LockedByType(slashed, "escrow")
      /\ LockedByType(adjusted, "staking") = LockedByType(slashed, "staking")
  BY <1>2, <1>4, AdjustVestingEffect
<1> HIDE DEF adjusted
<1>6. /\ last \in Locks
      /\ LockedByType(last, "escrow") = LockedByType(adjusted, "escrow")
      /\ LockedByType(last, "staking") = LockedByType(adjusted, "staking")
  BY <1>5, RemoveExpiredKeeps
<1> HIDE DEF last
<1>7. /\ locks' \in Locks
      /\ Covered(locks') = (LockedByType(locks, "staking") - total) + LockedByType(locks, "escrow")
  BY <1>2, <1>3, <1>5, <1>6 DEF Covered
<1>8. Covered(locks') - Covered(locks) = balance' - balance
  BY <1>1, <1>2, <1>3, <1>7, LockedByTypeType DEF Covered, bal
<1>9. Covered(locks') - Covered(locks) <= balance' - balance
  BY <1>1, <1>3, <1>4, <1>8
<1> QED BY <1>1, <1>3, <1>4, <1>7, <1>9, KeepsInductive

LEMMA ApplyLinearVestingStep ==
  ASSUME Inductive, ApplyLinearVesting
  PROVE  Inductive'
<1>1. balance \in Int /\ locks \in Locks /\ now \in Nat /\ Releasable \in Int
  BY BreakdownType DEF Inductive, TypeOK, Locks
<1>2. locks' = AfterLinearVesting(locks, now, Releasable) /\ balance' = balance /\ now' = now
  BY DEF ApplyLinearVesting
<1>3. locks' \in Locks /\ Covered(locks') = Covered(locks)
  BY <1>1, <1>2, LinearVestingEffect DEF Covered
<1>4. Covered(locks') <= balance'
  BY <1>1, <1>2, <1>3, InductiveAsCovered
<1> QED BY <1>1, <1>2, <1>3, <1>4, InductivePrimed

-----------------------------------------------------------------------------
LEMMA InitInductive == Init => Inductive
<1> SUFFICES ASSUME Init PROVE Inductive
  OBVIOUS
<1>1. balance = 0 /\ locks \in Locks /\ now \in Nat
  BY BalanceAssumption DEF Init, Locks
<1>2. \A i \in Slots : AmountAs(locks[i], "staking") = 0 /\ AmountAs(locks[i], "escrow") = 0
  BY DEF Init, AmountAs, NoLock
<1>3. LockedByType(locks, "staking") = 0 /\ LockedByType(locks, "escrow") = 0
  <2>1. ASSUME NEW type \in {"staking", "escrow"} PROVE LockedByType(locks, type) = 0
    <3>1. AmountsOf(locks, type) \in [1 .. MaxLocks -> Int]
      BY <1>1, AmountsType
    <3>2. \A k \in 1 .. MaxLocks : AmountsOf(locks, type)[k] = 0
      BY <1>2 DEF AmountsOf, Slots
    <3>3. Total(AmountsOf(locks, type), MaxLocks) = 0
      BY <3>1, <3>2, TotalOfZeros, BalanceAssumption
    <3> QED BY <3>3 DEF LockedByType, AmountsOf
  <2> QED BY <2>1
<1> QED BY <1>1, <1>3, InductiveAsCovered DEF Covered

LEMMA NextInductive == Inductive /\ [Next]_vars => Inductive'
<1> SUFFICES ASSUME Inductive, [Next]_vars PROVE Inductive'
  OBVIOUS
<1>1. ASSUME NEW a \in Amounts, AddSpendableTokens(a) \/ Debit(a) PROVE Inductive'
  BY <1>1, AddSpendableTokensStep, DebitStep
<1>2. ASSUME NEW a \in Amounts, NEW t \in Terms, AddVestedTokens(a, t[1], t[2]) PROVE Inductive'
  BY <1>2, AddVestedTokensStep
<1>3. ASSUME NEW id \in Escrows, NEW a \in Amounts, AddEscrowedTokens(id, a) PROVE Inductive'
  BY <1>3, AddEscrowedTokensStep
<1>4. ASSUME NEW id \in Escrows, RemoveEscrowLock(id) PROVE Inductive'
  BY <1>4, RemoveEscrowLockStep
<1>5. ASSUME NEW n \in Nodes, NEW a \in Amounts, AddNodeStaking(n, a) PROVE Inductive'
  BY <1>5, AddNodeStakingStep
<1>6. ASSUME NEW n \in Nodes, NEW a \in Amounts, NEW ts \in PlanTimes,
             PlanNodeStakingUnlock(n, a, ts)
      PROVE  Inductive'
  BY <1>6, PlanNodeStakingUnlockStep
<1>7. ASSUME NEW n \in Nodes, NEW ts \in PlanTimes, SetSlashing(n, ts) PROVE Inductive'
  BY <1>7, SetSlashingStep
<1>8. ASSUME NEW n \in Nodes, CancelNodeSlashing(n) PROVE Inductive'
  BY <1>8, CancelNodeSlashingStep
<1>9. CASE ApplyNodeStakingUnlocks
  BY <1>9, ApplyNodeStakingUnlocksStep
<1>10. CASE ApplyNodeSlashing
  BY <1>10, ApplyNodeSlashingStep
<1>11. CASE ApplyLinearVesting
  BY <1>11, ApplyLinearVestingStep
<1>12. CASE AdvanceTime
  BY <1>12 DEF AdvanceTime, Inductive, TypeOK, StakeableNonNegative, Stakeable, Staked, Escrowed
<1>13. CASE UNCHANGED vars
  BY <1>13 DEF vars, Inductive, TypeOK, StakeableNonNegative, Stakeable, Staked, Escrowed
<1> QED
  BY <1>1, <1>2, <1>3, <1>4, <1>5, <1>6, <1>7, <1>8, <1>9, <1>10, <1>11, <1>12, <1>13 DEF Next

\* Every state of an account is well typed: locks keep their shape through
\* every call, and no amount leaves the integers.
THEOREM TypeCorrect == Spec => []TypeOK
<1>1. Inductive => TypeOK
  BY DEF Inductive
<1> QED BY <1>1, InitInductive, NextInductive, PTL DEF Spec

\* Stakes and escrows never exceed the balance, whatever the calls, the order
\* they come in and the amounts: no token is staked twice or both staked and in
\* escrow (addNodeStaking, applyNodeStakingUnlocks, applyNodeSlashing, debits).
THEOREM StakesAreCovered == Spec => []StakeableNonNegative
<1>1. Inductive => StakeableNonNegative
  BY DEF Inductive
<1> QED BY <1>1, InitInductive, NextInductive, PTL DEF Spec

-----------------------------------------------------------------------------
(* Single locks: what holds of each lock on its own, and of the schedule of *)
(* a vesting lock.                                                          *)

LEMMA QuotientMonotone ==
  ASSUME NEW a \in Int, NEW b \in Int, NEW d \in Nat \ {0}, a <= b
  PROVE  a \div d \in Int /\ b \div d \in Int /\ a \div d <= b \div d
OBVIOUS

LEMMA ProductMonotone ==
  ASSUME NEW a \in Int, NEW b \in Int, NEW d \in Nat, a <= b
  PROVE  d * a \in Int /\ d * b \in Int /\ d * a <= d * b
OBVIOUS

LEMMA ShareBounds ==
  ASSUME NEW a \in Nat, NEW d \in Nat \ {0}, NEW e \in 0 .. d
  PROVE  (a * e) \div d \in 0 .. a
OBVIOUS

LEMMA AddDaysType ==
  ASSUME NEW ts \in Nat, NEW days \in Nat
  PROVE  AddDaysToTimestamp(ts, days) \in Int
<1> DEFINE d == ts \div DayLength
<1>1. DayLength \in Nat \ {0} /\ d \in Int
  BY BalanceAssumption
<1> HIDE DEF d
<1>2. (d + days) * DayLength \in Int
  BY <1>1
<1> QED BY <1>2 DEF AddDaysToTimestamp, d

\* The elapsed days of a lock only grow.
LEMMA ElapsedDaysGrow ==
  ASSUME NEW lock \in VestingLock, NEW ts \in Nat, NEW us \in Nat, ts <= us
  PROVE  ElapsedDays(lock, ts) <= ElapsedDays(lock, us)
<1> DEFINE from == AddDaysToTimestamp(lock.cliffStart, lock.cliffDays)
           early == 2 * (ts - from) + DayLength
           late  == 2 * (us - from) + DayLength
           round == 2 * DayLength
<1>1. lock.cliffStart \in Nat /\ lock.cliffDays \in Nat /\ lock.days \in Nat
  BY DEF VestingLock
<1>2. from \in Int /\ round \in Nat \ {0} /\ DayLength \in Nat
  BY <1>1, AddDaysType, BalanceAssumption
<1> HIDE DEF from
<1>3. early \in Int /\ late \in Int /\ early <= late
  BY <1>2
<1> HIDE DEF early, late, round
<1>4. early \div round \in Int /\ late \div round \in Int /\ early \div round <= late \div round
  BY <1>2, <1>3, QuotientMonotone
<1>5. /\ ElapsedDays(lock, ts) = Minimum(early \div round, lock.days)
      /\ ElapsedDays(lock, us) = Minimum(late \div round, lock.days)
  BY DEF ElapsedDays, TimestampDifferenceInDays, early, late, round, from
<1> QED BY <1>1, <1>4, <1>5 DEF Minimum

\* The schedule of a lock never asks for more than it held at first, and never
\* for less as time goes.
LEMMA MaximumReleaseGrows ==
  ASSUME NEW lock \in VestingLock, NEW ts \in Nat, NEW us \in Nat, ts <= us
  PROVE  /\ MaximumRelease(lock, ts) \in 0 .. lock.initial
         /\ MaximumRelease(lock, us) \in 0 .. lock.initial
         /\ MaximumRelease(lock, ts) <= MaximumRelease(lock, us)
<1> DEFINE Share(e) == (lock.initial * e) \div lock.days
<1>1. lock.initial \in Nat /\ lock.days \in Nat \ {0}
  BY DEF VestingLock
<1>2. /\ ElapsedDays(lock, ts) \in Int /\ ElapsedDays(lock, us) \in Int
      /\ ElapsedDays(lock, ts) <= ElapsedDays(lock, us)
      /\ ElapsedDays(lock, ts) <= lock.days /\ ElapsedDays(lock, us) <= lock.days
  <2>1. \A x \in Nat : ElapsedDays(lock, x) \in Int
    BY ElapsedDaysType
  <2>2. \A x \in Nat : ElapsedDays(lock, x) <= lock.days
    <3> SUFFICES ASSUME NEW x \in Nat PROVE ElapsedDays(lock, x) <= lock.days
      OBVIOUS
    <3> DEFINE diff == TimestampDifferenceInDays(AddDaysToTimestamp(lock.cliffStart, lock.cliffDays), x)
    <3>1. ElapsedDays(lock, x) = Minimum(diff, lock.days)
      BY DEF ElapsedDays
    <3> HIDE DEF diff
    <3>2. Minimum(diff, lock.days) = diff \/ Minimum(diff, lock.days) = lock.days
      BY DEF Minimum
    <3>3. ElapsedDays(lock, x) = lock.days \/ (ElapsedDays(lock, x) = diff /\ diff <= lock.days)
      BY <3>1 DEF Minimum
    <3> QED BY <1>1, <3>3
  <2> QED BY <2>1, <2>2, ElapsedDaysGrow
<1>3. \A e \in 0 .. lock.days : Share(e) \in 0 .. lock.initial
  BY <1>1, ShareBounds
<1>4. ASSUME NEW d \in 0 .. lock.days, NEW e \in 0 .. lock.days, d <= e
      PROVE  Share(d) <= Share(e)
  <2> DEFINE x == lock.initial * d
             y == lock.initial * e
  <2>1. x \in Int /\ y \in Int /\ x <= y
    BY <1>1, <1>4, ProductMonotone
  <2> HIDE DEF x, y
  <2>2. x \div lock.days <= y \div lock.days
    BY <1>1, <2>1, QuotientMonotone
  <2> QED BY <2>2 DEF x, y
<1>5. /\ MaximumRelease(lock, ts) = IF ElapsedDays(lock, ts) > 0 THEN Share(ElapsedDays(lock, ts)) ELSE 0
      /\ MaximumRelease(lock, us) = IF ElapsedDays(lock, us) > 0 THEN Share(ElapsedDays(lock, us)) ELSE 0
  BY DEF MaximumRelease
<1> HIDE DEF Share
<1> DEFINE a == ElapsedDays(lock, ts)
           b == ElapsedDays(lock, us)
<1>6. a \in Int /\ b \in Int /\ a <= b /\ a <= lock.days /\ b <= lock.days
  BY <1>2
<1>7. /\ MaximumRelease(lock, ts) = IF a > 0 THEN Share(a) ELSE 0
      /\ MaximumRelease(lock, us) = IF b > 0 THEN Share(b) ELSE 0
  BY <1>5
<1> HIDE DEF a, b
<1>8. /\ a > 0 => a \in 0 .. lock.days /\ Share(a) \in 0 .. lock.initial
      /\ b > 0 => b \in 0 .. lock.days /\ Share(b) \in 0 .. lock.initial
      /\ a > 0 => b > 0 /\ Share(a) <= Share(b)
  BY <1>1, <1>3, <1>4, <1>6
<1> QED BY <1>1, <1>7, <1>8

\* No lock owes anything, and a vesting lock has released no more than its schedule says.
Sound(lock, ts) ==
  /\ lock.locked >= 0
  /\ lock.type = "vesting" =>
       /\ lock.locked <= lock.initial
       /\ lock.initial - lock.locked <= MaximumRelease(lock, ts)

LEMMA SoundLater ==
  ASSUME NEW lock \in Lock \union {NoLock}, NEW ts \in Nat, NEW us \in Nat, ts <= us, Sound(lock, ts)
  PROVE  Sound(lock, us)
<1>1. CASE lock.type = "vesting"
  <2>1. lock \in VestingLock
    BY <1>1, LockTypes
  <2>2. /\ MaximumRelease(lock, ts) \in Int /\ MaximumRelease(lock, us) \in Int
        /\ MaximumRelease(lock, ts) <= MaximumRelease(lock, us)
    <3>1. lock.initial \in Nat
      BY <2>1 DEF VestingLock
    <3> QED BY <2>1, <3>1, MaximumReleaseGrows
  <2>3. lock.initial \in Nat /\ lock.locked \in Int
    BY <2>1 DEF VestingLock
  <2> QED BY <1>1, <2>2, <2>3 DEF Sound
<1>2. CASE lock.type # "vesting"
  BY <1>2 DEF Sound
<1> QED BY <1>1, <1>2

\* What a release leaves of a vesting lock, when something may be released.
LEMMA ReleaseSound ==
  ASSUME NEW lock \in VestingLock, NEW ts \in Nat, NEW left \in Nat, Sound(lock, ts),
         NEW x, x = lock.locked - Released(lock, ts, left)
  PROVE  /\ Released(lock, ts, left) \in 0 .. left
         /\ Released(lock, ts, left) < left => lock.initial - x = MaximumRelease(lock, ts)
         /\ x \in Int /\ x <= lock.locked
         /\ Sound([lock EXCEPT !.locked = x], ts)
<1> DEFINE elapsed == ElapsedDays(lock, ts)
           most    == MaximumRelease(lock, ts)
           out     == Released(lock, ts, left)
           new     == [lock EXCEPT !.locked = x]
<1>1. /\ lock.initial \in Nat /\ lock.locked \in Int /\ lock.type = "vesting"
      /\ elapsed \in Int
  BY ElapsedDaysType DEF VestingLock
<1>2. most \in 0 .. lock.initial
  BY <1>1, MaximumReleaseGrows
<1>3. /\ lock.locked >= 0 /\ lock.locked <= lock.initial
      /\ lock.initial - lock.locked <= most
  BY <1>1 DEF Sound
<1>4. /\ out = IF elapsed > 0 THEN Minimum(most - (lock.initial - lock.locked), left) ELSE 0
      /\ elapsed <= 0 => most = 0
  BY <1>1 DEF Released, MaximumRelease
<1>5. /\ new.locked = x /\ new.type = "vesting" /\ new.initial = lock.initial
      /\ MaximumRelease(new, ts) = most
  BY DEF VestingLock, MaximumRelease, ElapsedDays
<1> HIDE DEF elapsed, most, out, new
<1>6. x = lock.locked - out
  BY DEF out
<1>7. /\ out \in 0 .. left
      /\ out < left => out = most - (lock.initial - lock.locked)
      /\ out <= most - (lock.initial - lock.locked)
  BY <1>1, <1>2, <1>3, <1>4 DEF Minimum
<1>8. /\ x \in Int /\ x <= lock.locked /\ x >= 0 /\ x <= lock.initial /\ lock.initial - x <= most
      /\ out < left => lock.initial - x = most
  BY <1>1, <1>2, <1>3, <1>6, <1>7
<1>9. Sound(new, ts)
  BY <1>5, <1>8 DEF Sound
<1> QED BY <1>7, <1>8, <1>9 DEF out, most, new

-----------------------------------------------------------------------------
(* Every lock through every call.                                          *)

\* A lock holds nothing below 0, a vesting lock no more than at first, and a stake
\* at least what a slash that is planned will take.
Within(lock) ==
  /\ lock.locked >= 0
  /\ lock.type = "vesting" => lock.locked <= lock.initial
  /\ lock.type = "staking" /\ lock.slashed =>
       "slashing" \in Features /\ lock.slashAmount <= lock.locked

\* What a call does to one position: a stake was there before, of the same node, and
\* a lock that was in order still is.
Keeps(old, new) ==
  /\ new.type = "staking" => old.type = "staking" /\ new.node = old.node
  /\ Within(old) => Within(new)
\* What every call but a slash does.
Passes(old, new, ts) ==
  /\ Keeps(old, new)
  /\ Sound(old, ts) => Sound(new, ts)

\* The fields a stake keeps when one of them is set.
LEMMA StakeFields ==
  ASSUME NEW lock \in StakingLock
  PROVE  /\ \A x \in Int : LET new == [lock EXCEPT !.locked = x]
                           IN  /\ new.locked = x /\ new.type = "staking" /\ new.node = lock.node
                               /\ new.slashed = lock.slashed /\ new.slashAmount = lock.slashAmount
         /\ \A b \in BOOLEAN : LET new == [lock EXCEPT !.slashed = b]
                           IN  /\ new.locked = lock.locked /\ new.type = "staking" /\ new.node = lock.node
                               /\ new.slashed = b /\ new.slashAmount = lock.slashAmount
         /\ \A k \in Nat : LET new == [lock EXCEPT !.slashTime = k]
                           IN  /\ new.locked = lock.locked /\ new.type = "staking" /\ new.node = lock.node
                               /\ new.slashed = lock.slashed /\ new.slashAmount = lock.slashAmount
         /\ \A x \in Int : LET new == [lock EXCEPT !.slashAmount = x]
                           IN  /\ new.locked = lock.locked /\ new.type = "staking" /\ new.node = lock.node
                               /\ new.slashed = lock.slashed /\ new.slashAmount = x
         /\ \A k \in Nat : LET new == [lock EXCEPT !.unlockAmount = k]
                           IN  /\ new.locked = lock.locked /\ new.type = "staking" /\ new.node = lock.node
                               /\ new.slashed = lock.slashed /\ new.slashAmount = lock.slashAmount
         /\ \A k \in Nat : LET new == [lock EXCEPT !.unlockTime = k]
                           IN  /\ new.locked = lock.locked /\ new.type = "staking" /\ new.node = lock.node
                               /\ new.slashed = lock.slashed /\ new.slashAmount = lock.slashAmount
BY DEF StakingLock

LEMMA WithPlanFields ==
  ASSUME NEW lock \in StakingLock, NEW amount \in Nat, NEW ts \in Nat
  PROVE  LET new == WithPlan(lock, amount, ts)
         IN  /\ new.locked = lock.locked /\ new.type = "staking" /\ new.node = lock.node
             /\ new.slashed = lock.slashed /\ new.slashAmount = lock.slashAmount
<1> DEFINE time == AddDaysToTimestamp(ts, 0)
           l1 == [lock EXCEPT !.unlockAmount = amount]
           l2 == [l1 EXCEPT !.unlockTime = time]
<1>1. time \in Nat
  BY BalanceAssumption DEF AddDaysToTimestamp
<1>2. /\ l1 \in StakingLock /\ l1.locked = lock.locked /\ l1.node = lock.node
      /\ l1.slashed = lock.slashed /\ l1.slashAmount = lock.slashAmount
  BY StakeUpdate, StakeFields
<1> HIDE DEF l1, time
<1>3. /\ l2.locked = l1.locked /\ l2.type = "staking" /\ l2.node = l1.node
      /\ l2.slashed = l1.slashed /\ l2.slashAmount = l1.slashAmount
  BY <1>1, <1>2, StakeFields
<1>4. WithPlan(lock, amount, ts) = l2
  BY Zenon DEF WithPlan, l2, l1, time
<1> HIDE DEF l2
<1> QED BY <1>2, <1>3, <1>4

LEMMA WithSlashFields ==
  ASSUME NEW lock \in StakingLock, NEW amount \in Int, NEW ts \in Nat
  PROVE  \A b \in BOOLEAN :
           LET new == WithSlash(lock, b, amount, ts)
           IN  /\ new.locked = lock.locked /\ new.type = "staking" /\ new.node = lock.node
               /\ (new.slashed <=> b) /\ new.slashAmount = amount
<1> TAKE b \in BOOLEAN
<1> DEFINE l1 == [lock EXCEPT !.slashed = b]
           l2 == [l1 EXCEPT !.slashAmount = amount]
           l3 == [l2 EXCEPT !.slashTime = ts]
<1>1. /\ l1 \in StakingLock /\ l1.locked = lock.locked /\ l1.node = lock.node
      /\ l1.slashed = b
  BY StakeUpdate, StakeFields
<1> HIDE DEF l1
<1>2. /\ l2 \in StakingLock /\ l2.locked = l1.locked /\ l2.node = l1.node
      /\ l2.slashed = l1.slashed /\ l2.slashAmount = amount
  BY <1>1, StakeUpdate, StakeFields
<1> HIDE DEF l2
<1>3. /\ l3.locked = l2.locked /\ l3.type = "staking" /\ l3.node = l2.node
      /\ l3.slashed = l2.slashed /\ l3.slashAmount = l2.slashAmount
  BY <1>2, StakeFields
<1>4. WithSlash(lock, b, amount, ts) = l3
  BY Zenon DEF WithSlash, l3, l2, l1
<1> HIDE DEF l3
<1> QED BY <1>1, <1>2, <1>3, <1>4, Zenon

LEMMA AfterSlashFields ==
  ASSUME NEW lock \in StakingLock
  PROVE  LET new == AfterSlash(lock)
         IN  /\ new.locked = lock.locked - lock.slashAmount
             /\ new.type = "staking" /\ new.node = lock.node /\ new.slashed = FALSE
<1> DEFINE x  == lock.locked - lock.slashAmount
           l1 == [lock EXCEPT !.locked = x]
           l2 == [l1 EXCEPT !.slashed = FALSE]
           l3 == [l2 EXCEPT !.slashTime = 0]
           l4 == [l3 EXCEPT !.slashAmount = 0]
<1>1. x \in Int
  BY DEF StakingLock
<1>2. l1 \in StakingLock /\ l1.locked = x /\ l1.node = lock.node
  <2> HIDE DEF x
  <2> QED BY <1>1, StakeUpdate, StakeFields
<1> HIDE DEF l1
<1>3. l2 \in StakingLock /\ l2.locked = x /\ l2.node = l1.node /\ l2.slashed = FALSE
  BY <1>2, StakeUpdate, StakeFields
<1> HIDE DEF l2
<1>4. l3 \in StakingLock /\ l3.locked = x /\ l3.node = l2.node /\ l3.slashed = l2.slashed
  BY <1>3, StakeUpdate, StakeFields
<1> HIDE DEF l3
<1>5. l4.locked = x /\ l4.type = "staking" /\ l4.node = l3.node /\ l4.slashed = l3.slashed
  BY <1>4, StakeFields
<1>6. AfterSlash(lock) = l4
  BY Zenon DEF AfterSlash, l4, l3, l2, l1, x
<1> HIDE DEF l4
<1> QED BY <1>2, <1>3, <1>4, <1>5, <1>6 DEF x

\* A position that is emptied or left alone.
LEMMA PassesTrivially ==
  ASSUME NEW old, NEW ts
  PROVE  /\ Keeps(old, old) /\ Keeps(old, NoLock)
         /\ Passes(old, old, ts) /\ Passes(old, NoLock, ts)
BY DEF Passes, Keeps, Within, Sound, NoLock

LEMMA PassesTwice ==
  ASSUME NEW l1, NEW l2, NEW l3, NEW ts
  PROVE  /\ Keeps(l1, l2) /\ Keeps(l2, l3) => Keeps(l1, l3)
         /\ Passes(l1, l2, ts) /\ Passes(l2, l3, ts) => Passes(l1, l3, ts)
BY DEF Passes, Keeps

LEMMA RemoveExpiredPasses ==
  ASSUME NEW ls, NEW ms, NEW dropped, NEW ts, NEW i \in Slots
  PROVE  /\ Keeps(ls[i], ms[i]) => Keeps(ls[i], RemoveExpired(ms, dropped)[i])
         /\ Passes(ls[i], ms[i], ts) => Passes(ls[i], RemoveExpired(ms, dropped)[i], ts)
<1>1. RemoveExpired(ms, dropped)[i] \in {ms[i], NoLock}
  BY DEF RemoveExpired
<1> QED BY <1>1, PassesTrivially, PassesTwice

-----------------------------------------------------------------------------
(* What each call does to every position.                                  *)

\* A new lock takes a position that was empty.
LEMMA PushPasses ==
  ASSUME TypeOK, NEW lock \in Lock, Push(lock), lock.type # "staking", Within(lock), Sound(lock, now)
  PROVE  \A k \in Slots : Passes(locks[k], locks'[k], now)
<1>1. PICK i \in Slots : locks' = [locks EXCEPT ![i] = lock]
  BY DEF Push
<1>2. \A k \in Slots : locks'[k] = IF k = i THEN lock ELSE locks[k]
  BY <1>1 DEF TypeOK
<1>3. Passes(locks[i], lock, now)
  BY DEF Passes, Keeps
<1> QED BY <1>2, <1>3, PassesTrivially

LEMMA AddVestedTokensPasses ==
  ASSUME TypeOK, NEW a \in Amounts, NEW t \in Terms, AddVestedTokens(a, t[1], t[2])
  PROVE  \A k \in Slots : Passes(locks[k], locks'[k], now)
<1> DEFINE lock == [type |-> "vesting", locked |-> a, initial |-> a,
                    cliffStart |-> now, cliffDays |-> t[1], days |-> t[2]]
<1>1. a \in Nat /\ now \in Nat /\ t[1] \in Nat /\ t[2] \in Nat \ {0}
  BY BalanceAssumption DEF TypeOK
<1>2. lock \in VestingLock /\ lock.locked = a /\ lock.initial = a /\ lock.type = "vesting"
  BY <1>1 DEF VestingLock
<1>3. Push(lock)
  BY DEF AddVestedTokens
<1> HIDE DEF lock
<1>4. MaximumRelease(lock, now) \in 0 .. lock.initial
  BY <1>1, <1>2, MaximumReleaseGrows
<1>5. Within(lock) /\ Sound(lock, now)
  BY <1>1, <1>2, <1>4 DEF Within, Sound
<1> QED BY <1>2, <1>3, <1>5, PushPasses DEF Lock

LEMMA AddEscrowedTokensPasses ==
  ASSUME TypeOK, NEW id \in Escrows, NEW a \in Amounts, AddEscrowedTokens(id, a)
  PROVE  \A k \in Slots : Passes(locks[k], locks'[k], now)
<1> DEFINE lock == [type |-> "escrow", locked |-> a, id |-> id]
<1>1. a \in Nat
  BY BalanceAssumption
<1>2. lock \in EscrowLock /\ lock.locked = a /\ lock.type = "escrow"
  BY <1>1 DEF EscrowLock
<1>3. Push(lock)
  BY DEF AddEscrowedTokens
<1> HIDE DEF lock
<1>4. Within(lock) /\ Sound(lock, now)
  BY <1>1, <1>2 DEF Within, Sound
<1> QED BY <1>2, <1>3, <1>4, PushPasses DEF Lock

LEMMA RemoveEscrowLockPasses ==
  ASSUME TypeOK, NEW id \in Escrows, RemoveEscrowLock(id)
  PROVE  \A k \in Slots : Passes(locks[k], locks'[k], now)
<1>1. PICK i \in Slots : locks' = [locks EXCEPT ![i] = NoLock]
  BY DEF RemoveEscrowLock
<1>2. \A k \in Slots : locks'[k] = IF k = i THEN NoLock ELSE locks[k]
  BY <1>1 DEF TypeOK
<1> QED BY <1>2, PassesTrivially

\* One stake is replaced by another of the same node.
LEMMA ReplacePasses ==
  ASSUME TypeOK, NEW i \in Slots, NEW stake, locks' = [locks EXCEPT ![i] = stake],
         Passes(locks[i], stake, now)
  PROVE  \A k \in Slots : Passes(locks[k], locks'[k], now)
<1>1. \A k \in Slots : locks'[k] = IF k = i THEN stake ELSE locks[k]
  BY DEF TypeOK
<1> QED BY <1>1, PassesTrivially

LEMMA PlanNodeStakingUnlockPasses ==
  ASSUME TypeOK, NEW n \in Nodes, NEW a \in Amounts, NEW ts \in PlanTimes,
         PlanNodeStakingUnlock(n, a, ts)
  PROVE  \A k \in Slots : Passes(locks[k], locks'[k], now)
<1>1. PICK i \in Slots : /\ IsStakeOf(n, i)
                         /\ locks' = [locks EXCEPT ![i] = WithPlan(locks[i], a, ts)]
  BY Zenon DEF PlanNodeStakingUnlock
<1>2. a \in Nat /\ ts \in Nat
  BY BalanceAssumption DEF PlanTimes
<1>3. locks[i] \in StakingLock /\ locks[i].type = "staking"
  BY <1>1, LockTypes DEF TypeOK, IsStakeOf
<1>4. Passes(locks[i], WithPlan(locks[i], a, ts), now)
  BY <1>2, <1>3, WithPlanFields DEF Passes, Keeps, Within, Sound
<1> QED BY <1>1, <1>4, ReplacePasses

LEMMA SetSlashingPasses ==
  ASSUME TypeOK, NEW n \in Nodes, NEW ts \in PlanTimes, SetSlashing(n, ts)
  PROVE  \A k \in Slots : Passes(locks[k], locks'[k], now)
<1>1. PICK i \in Slots : /\ IsStakeOf(n, i)
                         /\ locks' = [locks EXCEPT ![i] = WithSlash(locks[i], TRUE, locks[i].locked, ts)]
  BY Zenon DEF SetSlashing
<1>2. ts \in Nat /\ "slashing" \in Features
  BY BalanceAssumption DEF PlanTimes, SetSlashing
<1>3. locks[i] \in StakingLock /\ locks[i].type = "staking" /\ locks[i].locked \in Int
  BY <1>1, LockTypes DEF TypeOK, IsStakeOf
<1> DEFINE old   == locks[i]
           stake == WithSlash(old, TRUE, old.locked, ts)
<1>4. /\ stake.locked = old.locked /\ stake.type = "staking" /\ stake.node = old.node
      /\ stake.slashed /\ stake.slashAmount = old.locked
  <2>1. \A b \in BOOLEAN :
          LET new == WithSlash(old, b, old.locked, ts)
          IN  /\ new.locked = old.locked /\ new.type = "staking" /\ new.node = old.node
              /\ (new.slashed <=> b) /\ new.slashAmount = old.locked
    BY <1>2, <1>3, WithSlashFields
  <2> QED BY <2>1
<1> HIDE DEF stake
<1>5. Passes(old, stake, now)
  BY <1>2, <1>3, <1>4 DEF Passes, Keeps, Within, Sound
<1> QED BY <1>1, <1>5, ReplacePasses DEF stake

LEMMA CancelNodeSlashingPasses ==
  ASSUME TypeOK, NEW n \in Nodes, CancelNodeSlashing(n)
  PROVE  \A k \in Slots : Passes(locks[k], locks'[k], now)
<1>1. PICK i \in Slots : /\ IsStakeOf(n, i)
                         /\ locks' = [locks EXCEPT ![i] = WithSlash(locks[i], FALSE, 0, 0)]
  BY Zenon DEF CancelNodeSlashing
<1>2. locks[i] \in StakingLock /\ locks[i].type = "staking"
  BY <1>1, LockTypes DEF TypeOK, IsStakeOf
<1> DEFINE old   == locks[i]
           stake == WithSlash(old, FALSE, 0, 0)
<1>3. /\ stake.locked = old.locked /\ stake.type = "staking" /\ stake.node = old.node
      /\ ~ stake.slashed
  <2>1. \A b \in BOOLEAN :
          LET new == WithSlash(old, b, 0, 0)
          IN  /\ new.locked = old.locked /\ new.type = "staking" /\ new.node = old.node
              /\ (new.slashed <=> b) /\ new.slashAmount = 0
    BY <1>2, WithSlashFields
  <2> QED BY <2>1
<1> HIDE DEF stake
<1>4. Passes(old, stake, now)
  BY <1>2, <1>3 DEF Passes, Keeps, Within, Sound
<1> QED BY <1>1, <1>4, ReplacePasses DEF stake

\* An unlock that is carried out fits its stake: one that exceeds it throws.  With
\* slashing beside it, a slash planned for the whole stake would remain.
LEMMA UnlocksPass ==
  ASSUME NEW ls \in Locks, NEW ts \in Nat, "slashing" \notin Features
  PROVE  \A k \in Slots : Passes(ls[k], AfterUnlocks(ls, ts)[k], ts)
<1> DEFINE us == Unlocked(ls, ts)
<1>1. ASSUME NEW i \in Slots
      PROVE  Passes(ls[i], us[i], ts)
  <2>1. CASE i \in UnlocksDone(ls, ts)
    <3>1. ls[i] \in StakingLock /\ ls[i].type = "staking" /\ i \in UnlocksDue(ls, ts)
      BY <2>1, LockTypes DEF UnlocksDone, UnlocksDue, OfType, Locks
    <3>2. i \notin UnlocksRefused(ls, ts)
      BY <2>1 DEF UnlocksDone, Slots
    <3>3. ls[i].locked \in Int /\ ls[i].unlockAmount \in Nat /\ ls[i].unlockAmount <= ls[i].locked
      BY <3>1, <3>2 DEF UnlocksRefused, StakingLock
    <3> DEFINE x == ls[i].locked - ls[i].unlockAmount
               lock == ls[i]
    <3>4. us[i] = [lock EXCEPT !.locked = x]
      BY <2>1 DEF Unlocked
    <3>5. x \in Int /\ x >= 0 /\ lock \in StakingLock /\ lock.type = "staking"
      BY <3>1, <3>3
    <3> HIDE DEF x, lock, us
    <3>6. /\ us[i].locked = x /\ us[i].type = "staking" /\ us[i].node = lock.node
          /\ us[i].slashed = lock.slashed
      BY <3>4, <3>5, StakeFields
    <3>7. Passes(lock, us[i], ts)
      BY <3>5, <3>6 DEF Passes, Keeps, Within, Sound
    <3> QED BY <3>7 DEF lock
  <2>2. CASE i \notin UnlocksDone(ls, ts)
    <3>1. us[i] = ls[i]
      BY <2>2 DEF Unlocked
    <3> QED BY <3>1, PassesTrivially
  <2> QED BY <2>1, <2>2
<1>2. AfterUnlocks(ls, ts) = us \/ AfterUnlocks(ls, ts) = RemoveExpired(us, "staking")
  BY DEF AfterUnlocks
<1> HIDE DEF us
<1> QED BY <1>1, <1>2, RemoveExpiredPasses, Zenon

\* getNodeStakingLock finds a lock of the node if there is one: there is a first one.
LEMMA FirstStake ==
  ASSUME NEW n, ~ HasStake(n)
  PROVE  \A j \in Slots : ~ (locks[j].type = "staking" /\ locks[j].node = n)
<1> DEFINE S == {k \in 0 .. MaxLocks :
                   \A j \in 1 .. k : ~ (locks[j].type = "staking" /\ locks[j].node = n)}
<1>1. 0 \in S
  BY BalanceAssumption
<1>2. ASSUME NEW k \in 0 .. MaxLocks - 1, k \in S PROVE k + 1 \in S
  <2>1. k + 1 \in Slots /\ k + 1 \in 0 .. MaxLocks /\ 1 .. (k + 1) - 1 = 1 .. k
    BY BalanceAssumption DEF Slots
  <2>2. ~ IsStakeOf(n, k + 1)
    BY <2>1 DEF HasStake
  <2>3. ~ (locks[k + 1].type = "staking" /\ locks[k + 1].node = n)
    BY <1>2, <2>1, <2>2 DEF IsStakeOf
  <2>4. \A j \in 1 .. k + 1 : j \in 1 .. k \/ j = k + 1
    OBVIOUS
  <2> QED BY <1>2, <2>1, <2>3, <2>4
<1>3. 0 .. MaxLocks \subseteq S
  <2> HIDE DEF S
  <2> QED BY <1>1, <1>2, IntervalInduction, BalanceAssumption
<1>4. MaxLocks \in S
  BY <1>3, BalanceAssumption
<1> QED BY <1>4 DEF Slots

\* A stake is raised, or the first of its node takes an empty position.
LEMMA AddNodeStakingLocks ==
  ASSUME TypeOK, NEW n \in Nodes, NEW a \in Amounts, AddNodeStaking(n, a)
  PROVE  \/ \A k \in Slots : Passes(locks[k], locks'[k], now)
         \/ \E i \in Slots :
              /\ \A k \in Slots \ {i} : locks'[k] = locks[k]
              /\ \A k \in Slots : ~ (locks[k].type = "staking" /\ locks[k].node = n)
              /\ locks'[i].type = "staking" /\ locks'[i].node = n
              /\ Within(locks'[i]) /\ Sound(locks'[i], now)
<1>1. a \in Nat
  BY BalanceAssumption
<1>2. CASE \E i \in Slots : IsStakeOf(n, i) /\ locks' = [locks EXCEPT ![i].locked = @ + a]
  <2>1. PICK i \in Slots : IsStakeOf(n, i) /\ locks' = [locks EXCEPT ![i].locked = @ + a]
    BY <1>2
  <2> DEFINE old   == locks[i]
             x     == old.locked + a
             stake == [old EXCEPT !.locked = x]
  <2>2. old \in StakingLock /\ old.type = "staking" /\ old.locked \in Int
    BY <2>1, LockTypes DEF TypeOK, IsStakeOf
  <2>3. locks' = [locks EXCEPT ![i] = stake]
    BY <2>1, Zenon
  <2>4. x \in Int /\ x >= old.locked
    BY <1>1, <2>2
  <2> HIDE DEF x
  <2>5. /\ stake.locked = x /\ stake.type = "staking" /\ stake.node = old.node
        /\ stake.slashed = old.slashed /\ stake.slashAmount = old.slashAmount
    BY <2>2, <2>4, StakeFields
  <2>6. old.slashAmount \in Int
    BY <2>2 DEF StakingLock
  <2> HIDE DEF stake
  <2>7. Passes(old, stake, now)
    BY <2>2, <2>4, <2>5, <2>6 DEF Passes, Keeps, Within, Sound
  <2> QED BY <2>3, <2>7, ReplacePasses
<1>3. CASE ~ HasStake(n) /\ Push(NewStake(n, a))
  <2>1. PICK i \in Slots : locks' = [locks EXCEPT ![i] = NewStake(n, a)]
    BY <1>3 DEF Push
  <2>2. \A k \in Slots : locks'[k] = IF k = i THEN NewStake(n, a) ELSE locks[k]
    BY <2>1 DEF TypeOK
  <2>3. /\ NewStake(n, a).type = "staking" /\ NewStake(n, a).node = n
        /\ NewStake(n, a).locked = a /\ NewStake(n, a).slashed = FALSE
    BY DEF NewStake
  <2>4. Within(NewStake(n, a)) /\ Sound(NewStake(n, a), now)
    BY <1>1, <2>3 DEF Within, Sound
  <2> QED BY <1>3, <2>2, <2>3, <2>4, FirstStake
<1> QED BY <1>2, <1>3 DEF AddNodeStaking

-----------------------------------------------------------------------------
\* A slash takes no more than the stake it was planned for still holds.
LEMMA SlashedKeeps ==
  ASSUME NEW ls \in Locks, NEW ts \in Nat, \A i \in Slots : Within(ls[i])
  PROVE  \A k \in Slots : Keeps(ls[k], Slashed(ls, ts)[k])
<1> SUFFICES ASSUME NEW k \in Slots PROVE Keeps(ls[k], Slashed(ls, ts)[k])
  OBVIOUS
<1>1. CASE k \in SlashesDue(ls, ts)
  <2> DEFINE old == ls[k]
             new == AfterSlash(old)
  <2>1. old \in StakingLock /\ old.type = "staking" /\ old.slashed
    BY <1>1, LockTypes DEF SlashesDue, OfType, Locks
  <2>2. old.locked \in Int /\ old.slashAmount \in Int /\ old.slashAmount <= old.locked
    BY <2>1 DEF StakingLock, Within
  <2>3. Slashed(ls, ts)[k] = new
    BY <1>1 DEF Slashed
  <2>4. /\ new.locked = old.locked - old.slashAmount
        /\ new.type = "staking" /\ new.node = old.node /\ new.slashed = FALSE
    BY <2>1, AfterSlashFields
  <2> HIDE DEF new
  <2> QED BY <2>1, <2>2, <2>3, <2>4 DEF Keeps, Within
<1>2. CASE k \notin SlashesDue(ls, ts)
  <2>1. Slashed(ls, ts)[k] = ls[k]
    BY <1>2 DEF Slashed
  <2> QED BY <2>1, PassesTrivially
<1> QED BY <1>1, <1>2

\* The share of a lock, rounded down, when no more is exceeded than is vested.
LEMMA ShareOfLock ==
  ASSUME NEW vested \in Nat \ {0}, NEW exceeded \in 0 .. vested, NEW l \in Nat
  PROVE  /\ FloorOfQuotient(exceeded * l, vested) = (exceeded * l) \div vested
         /\ FloorOfQuotient(exceeded * l, vested) \in 0 .. l
<1>1. exceeded * l = l * exceeded
  OBVIOUS
<1>2. (l * exceeded) \div vested \in 0 .. l
  BY ShareBounds
<1> QED BY <1>1, <1>2 DEF FloorOfQuotient

LEMMA VestingFields ==
  ASSUME NEW lock \in VestingLock, NEW x \in Int
  PROVE  LET new == [lock EXCEPT !.locked = x]
         IN  /\ new \in VestingLock
             /\ new.type = "vesting" /\ new.locked = x /\ new.initial = lock.initial
BY DEF VestingLock

LEMMA FirstPassKeeps ==
  ASSUME NEW ls \in Locks, \A i \in Slots : Within(ls[i]),
         NEW vested \in Nat \ {0}, NEW exceeded \in 0 .. vested
  PROVE  \A k \in Slots : Keeps(ls[k], FirstPass(ls, exceeded, vested)[k])
<1> SUFFICES ASSUME NEW k \in Slots PROVE Keeps(ls[k], FirstPass(ls, exceeded, vested)[k])
  OBVIOUS
<1>1. CASE ls[k].type = "vesting"
  <2> DEFINE old   == ls[k]
             share == FloorOfQuotient(exceeded * old.locked, vested)
             x     == old.locked - share
             new   == [old EXCEPT !.locked = x]
  <2>1. old \in VestingLock /\ old.type = "vesting"
    BY <1>1, LockTypes DEF Locks
  <2>2. old.locked \in Nat /\ old.initial \in Nat /\ old.locked <= old.initial
    BY <2>1 DEF VestingLock, Within
  <2>3. share \in 0 .. old.locked
    BY <2>2, ShareOfLock
  <2>4. FirstPass(ls, exceeded, vested)[k] = new
    BY <1>1, Zenon DEF FirstPass
  <2> HIDE DEF share
  <2>5. x \in Int /\ x >= 0 /\ x <= old.initial
    BY <2>2, <2>3
  <2> HIDE DEF x
  <2>6. new.type = "vesting" /\ new.locked = x /\ new.initial = old.initial
    BY <2>1, <2>5, VestingFields
  <2> HIDE DEF new
  <2> QED BY <2>4, <2>5, <2>6 DEF Keeps, Within
<1>2. CASE ls[k].type # "vesting"
  <2>1. FirstPass(ls, exceeded, vested)[k] = ls[k]
    BY <1>2 DEF FirstPass
  <2> QED BY <2>1, PassesTrivially
<1> QED BY <1>1, <1>2

LEMMA SecondPassKeeps ==
  ASSUME NEW ls \in Locks, NEW missing
  PROVE  \A k \in Slots : Keeps(ls[k], SecondPass(ls, missing)[k])
<1> SUFFICES ASSUME NEW k \in Slots PROVE Keeps(ls[k], SecondPass(ls, missing)[k])
  OBVIOUS
<1> DEFINE old == ls[k]
           x   == old.locked - 1
           new == [old EXCEPT !.locked = x]
<1>1. CASE SecondPass(ls, missing)[k] = new /\ old.type = "vesting" /\ old.locked > 0
  <2>1. old \in VestingLock /\ old.type = "vesting"
    BY <1>1, LockTypes DEF Locks
  <2>2. old.locked \in Int /\ old.initial \in Nat /\ x \in Int /\ x >= 0 /\ x <= old.locked
    BY <1>1, <2>1 DEF VestingLock
  <2> HIDE DEF x
  <2>3. new.type = "vesting" /\ new.locked = x /\ new.initial = old.initial
    BY <2>1, <2>2, VestingFields
  <2> HIDE DEF new
  <2> QED BY <1>1, <2>2, <2>3 DEF Keeps, Within
<1>2. CASE SecondPass(ls, missing)[k] = old
  BY <1>2, PassesTrivially
<1> QED BY <1>1, <1>2, Zenon DEF SecondPass

LEMMA AdjustVestingKeeps ==
  ASSUME NEW ls \in Locks, NEW bal \in Nat, \A i \in Slots : Within(ls[i])
  PROVE  \A k \in Slots : Keeps(ls[k], AdjustVesting(ls, bal)[k])
<1> DEFINE vested   == LockedByType(ls, "vesting")
           exceeded == vested - bal
           first    == FirstPass(ls, exceeded, vested)
           missing  == exceeded - (vested - LockedByType(first, "vesting"))
           second   == SecondPass(first, missing)
           ms       == RemoveExpired(second, "vesting")
<1>1. AdjustVesting(ls, bal) = IF exceeded > 0 THEN ms ELSE ls
  BY DEF AdjustVesting
<1>2. vested \in Int
  BY LockedByTypeType
<1>3. CASE exceeded > 0
  <2>1. vested \in Nat \ {0} /\ exceeded \in 0 .. vested
    BY <1>2, <1>3
  <2>2. first \in Locks
    BY <1>2, FirstPassEffect
  <2> HIDE DEF vested, exceeded
  <2>3. \A k \in Slots : Keeps(ls[k], first[k])
    BY <2>1, FirstPassKeeps
  <2> HIDE DEF first
  <2>4. \A k \in Slots : Keeps(first[k], second[k])
    BY <2>2, SecondPassKeeps
  <2> HIDE DEF second
  <2>5. \A k \in Slots : Keeps(ls[k], ms[k])
    BY <2>3, <2>4, PassesTwice, RemoveExpiredPasses
  <2> QED BY <1>1, <1>3, <2>5
<1>4. CASE ~ (exceeded > 0)
  BY <1>1, <1>4, PassesTrivially
<1> QED BY <1>3, <1>4

\* What a release takes off a lock, also when slashed tokens count as released and it is
\* negative: no more than is left to release, and it leaves the lock within its bounds.
LEMMA ReleaseKeeps ==
  ASSUME NEW lock \in VestingLock, NEW ts \in Nat, NEW left \in Nat, Within(lock),
         NEW x, x = lock.locked - Released(lock, ts, left)
  PROVE  /\ Released(lock, ts, left) \in Int /\ Released(lock, ts, left) <= left
         /\ x \in 0 .. lock.initial
<1> DEFINE elapsed == ElapsedDays(lock, ts)
           most    == MaximumRelease(lock, ts)
           out     == Released(lock, ts, left)
<1>1. /\ lock.initial \in Nat /\ lock.locked \in Int /\ lock.type = "vesting"
      /\ elapsed \in Int
  BY ElapsedDaysType DEF VestingLock
<1>2. most \in 0 .. lock.initial
  BY <1>1, MaximumReleaseGrows
<1>3. lock.locked >= 0 /\ lock.locked <= lock.initial
  BY <1>1 DEF Within
<1>4. out = IF elapsed > 0 THEN Minimum(most - (lock.initial - lock.locked), left) ELSE 0
  BY <1>1 DEF Released
<1> HIDE DEF elapsed, most, out
<1>5. out \in Int /\ out <= left /\ lock.locked - out \in 0 .. lock.initial
  BY <1>1, <1>2, <1>3, <1>4 DEF Minimum
<1> QED BY <1>5 DEF out

LEMMA NothingReleased ==
  ASSUME NEW lock, NEW ts, NEW left, lock.type # "vesting"
  PROVE  Released(lock, ts, left) = 0
BY DEF Released

\* What is left to release never falls below 0.
LEMMA LeftIsNat ==
  ASSUME NEW ls \in Locks, NEW ts \in Nat, NEW releasable \in Nat, \A i \in Slots : Within(ls[i]),
         NEW left, left = LeftToRelease(ls, ts, releasable)
  PROVE  \A k \in 0 .. MaxLocks : left[k] \in Nat
<1> DEFINE S == {k \in 0 .. MaxLocks : left[k] \in Nat}
<1>1. /\ left[0] = releasable
      /\ \A k \in 1 .. MaxLocks : left[k] = left[k - 1] - Released(ls[k], ts, left[k - 1])
  BY LeftToReleaseSteps
<1>2. 0 \in S
  BY <1>1, BalanceAssumption
<1>3. ASSUME NEW k \in 0 .. MaxLocks - 1, k \in S PROVE k + 1 \in S
  <2>1. k + 1 \in 1 .. MaxLocks /\ (k + 1) - 1 = k /\ k + 1 \in Slots
    BY BalanceAssumption DEF Slots
  <2>2. left[k + 1] = left[k] - Released(ls[k + 1], ts, left[k])
    BY <1>1, <2>1
  <2>3. left[k] \in Nat /\ ls[k + 1] \in Lock \union {NoLock} /\ Within(ls[k + 1])
    BY <1>3, <2>1 DEF Locks
  <2>4. Released(ls[k + 1], ts, left[k]) \in Int /\ Released(ls[k + 1], ts, left[k]) <= left[k]
    <3>1. CASE ls[k + 1].type = "vesting"
      <4>1. ls[k + 1] \in VestingLock
        BY <2>3, <3>1, LockTypes
      <4> QED BY <2>3, <4>1, ReleaseKeeps
    <3>2. CASE ls[k + 1].type # "vesting"
      BY <2>3, <3>2, NothingReleased
    <3> QED BY <3>1, <3>2
  <2>5. left[k + 1] \in Nat
    BY <2>2, <2>3, <2>4
  <2> QED BY <2>1, <2>5
<1>4. 0 .. MaxLocks \subseteq S
  <2> HIDE DEF S
  <2> QED BY <1>2, <1>3, IntervalInduction, BalanceAssumption
<1> QED BY <1>4

\* What applyLinearVesting does to a position.
LEMMA AfterReleaseAt ==
  ASSUME NEW ls \in Locks, NEW ts \in Nat, NEW releasable \in Nat, \A i \in Slots : Within(ls[i]),
         NEW left, left = LeftToRelease(ls, ts, releasable), NEW k \in Slots
  PROVE  LET new == AfterRelease(ls, ts, left)[k]
         IN  /\ left[k - 1] \in Nat /\ left[k] \in Nat
             /\ new.locked = ls[k].locked - (left[k - 1] - left[k])
             /\ new.type = ls[k].type
             /\ Passes(ls[k], new, ts)
<1> DEFINE old == ls[k]
           out == Released(old, ts, left[k - 1])
           x   == old.locked - out
           new == AfterRelease(ls, ts, left)[k]
<1>1. k \in 1 .. MaxLocks /\ k - 1 \in 0 .. MaxLocks /\ k \in 0 .. MaxLocks
  BY BalanceAssumption DEF Slots
<1>2. left[k - 1] \in Nat /\ left[k] \in Nat
  BY <1>1, LeftIsNat
<1>3. left[k] = left[k - 1] - out
  BY <1>1, LeftToReleaseSteps
<1>4. old \in Lock \union {NoLock} /\ old.locked \in Int
  BY LockTypes DEF Locks
<1>5. CASE old.type = "vesting"
  <2>1. old \in VestingLock
    BY <1>4, <1>5, LockTypes
  <2>2. new = [old EXCEPT !.locked = x]
    BY <1>5, Zenon DEF AfterRelease
  <2>3. out \in Int /\ out <= left[k - 1] /\ x \in 0 .. old.initial
    <3> HIDE DEF out
    <3> QED BY <1>2, <2>1, ReleaseKeeps DEF out
  <2>4. Sound(old, ts) => Sound([old EXCEPT !.locked = x], ts)
    <3>1. ASSUME Sound(old, ts) PROVE Sound([old EXCEPT !.locked = x], ts)
      BY <1>2, <2>1, <3>1, ReleaseSound
    <3> QED BY <3>1
  <2> HIDE DEF new, x
  <2>5. new.type = "vesting" /\ new.locked = x /\ new.initial = old.initial
    BY <2>1, <2>2, <2>3, VestingFields
  <2>6. Passes(old, new, ts)
    <3>1. Within(new) /\ old.initial \in Nat
      BY <2>1, <2>3, <2>5 DEF Within, VestingLock
    <3> QED BY <2>2, <2>4, <2>5, <3>1 DEF Passes, Keeps
  <2>7. x = old.locked - (left[k - 1] - left[k])
    <3> HIDE DEF out
    <3> QED BY <1>2, <1>3, <1>4, <2>3 DEF x
  <2> QED BY <1>2, <1>5, <2>5, <2>6, <2>7 DEF new
<1>6. CASE old.type # "vesting"
  <2>1. new = old
    BY <1>6 DEF AfterRelease
  <2>2. out = 0
    BY <1>6, NothingReleased
  <2> QED BY <1>2, <1>3, <1>4, <2>1, <2>2, PassesTrivially
<1> QED BY <1>5, <1>6

LEMMA LinearVestingPasses ==
  ASSUME NEW ls \in Locks, NEW ts \in Nat, NEW releasable \in Nat, \A i \in Slots : Within(ls[i])
  PROVE  \A k \in Slots : Passes(ls[k], AfterLinearVesting(ls, ts, releasable)[k], ts)
<1> DEFINE rs == AfterRelease(ls, ts, LeftToRelease(ls, ts, releasable))
<1>1. \A k \in Slots : Passes(ls[k], rs[k], ts)
  BY AfterReleaseAt
<1>2. AfterLinearVesting(ls, ts, releasable) = RemoveExpired(rs, "vesting")
  BY DEF AfterLinearVesting
<1> HIDE DEF rs
<1> QED BY <1>1, <1>2, RemoveExpiredPasses

\* The vested tokens fall by what is released.
LEMMA LinearVestingTotal ==
  ASSUME NEW ls \in Locks, NEW ts \in Nat, NEW releasable \in Nat, \A i \in Slots : Within(ls[i]),
         NEW left, left = LeftToRelease(ls, ts, releasable)
  PROVE  LockedByType(AfterLinearVesting(ls, ts, releasable), "vesting")
           = LockedByType(ls, "vesting") - (releasable - left[MaxLocks])
<1> DEFINE rs  == AfterRelease(ls, ts, left)
           out == [k \in 1 .. MaxLocks |-> left[k - 1] - left[k]]
           f   == AmountsOf(ls, "vesting")
           h   == AmountsOf(rs, "vesting")
<1>1. \A k \in 0 .. MaxLocks : left[k] \in Nat
  BY LeftIsNat
<1>2. rs \in Locks
  <2>1. releasable \in Int
    OBVIOUS
  <2> QED BY <2>1, AfterReleaseEffect
<1>3. \A k \in 1 .. MaxLocks : f[k] = h[k] + out[k]
  <2> SUFFICES ASSUME NEW k \in 1 .. MaxLocks PROVE f[k] = h[k] + out[k]
    OBVIOUS
  <2>1. /\ left[k - 1] \in Nat /\ left[k] \in Nat /\ rs[k].type = ls[k].type
        /\ rs[k].locked = ls[k].locked - (left[k - 1] - left[k])
    BY AfterReleaseAt DEF Slots
  <2>2. ls[k].locked \in Int
    BY LockTypes DEF Locks, Slots
  <2>3. out[k] = left[k - 1] - left[k]
    OBVIOUS
  <2>4. f[k] = AmountAs(ls[k], "vesting") /\ h[k] = AmountAs(rs[k], "vesting")
    BY DEF AmountsOf, Slots
  <2>5. CASE ls[k].type = "vesting"
    <3> HIDE DEF rs, out, f, h
    <3> QED BY <2>1, <2>2, <2>3, <2>4, <2>5 DEF AmountAs
  <2>6. CASE ls[k].type # "vesting"
    <3>1. Released(ls[k], ts, left[k - 1]) = 0
      BY <2>6, NothingReleased
    <3>2. left[k] = left[k - 1] - 0
      BY <3>1, LeftToReleaseSteps
    <3> HIDE DEF rs, out, f, h
    <3> QED BY <2>1, <2>2, <2>3, <2>4, <2>6, <3>2 DEF AmountAs
  <2> QED BY <2>5, <2>6
<1>4. out \in [1 .. MaxLocks -> Int]
  BY <1>1, BalanceAssumption
<1>5. Total(out, MaxLocks) = left[0] - left[MaxLocks]
  <2>1. \A k \in 1 .. MaxLocks : out[k] = left[k - 1] - left[k]
    OBVIOUS
  <2>2. \A k \in 0 .. MaxLocks : left[k] \in Int
    BY <1>1
  <2> HIDE DEF out
  <2> QED BY <1>4, <2>1, <2>2, TotalOfDifferences, BalanceAssumption
<1>6. left[0] = releasable /\ left[MaxLocks] \in Nat
  BY <1>1, LeftToReleaseSteps, BalanceAssumption
<1>7. f \in [1 .. MaxLocks -> Int] /\ h \in [1 .. MaxLocks -> Int]
  BY <1>2, AmountsType
<1>8. LockedByType(ls, "vesting") = Total(f, MaxLocks) /\ LockedByType(rs, "vesting") = Total(h, MaxLocks)
  BY DEF LockedByType, AmountsOf
<1>9. AfterLinearVesting(ls, ts, releasable) = RemoveExpired(rs, "vesting")
  BY DEF AfterLinearVesting
<1> HIDE DEF rs, out, f, h
<1>10. Total(f, MaxLocks) = Total(h, MaxLocks) + Total(out, MaxLocks)
  BY <1>3, <1>4, <1>7, TotalOfSum, BalanceAssumption
<1>11. Total(h, MaxLocks) \in Int
  BY <1>7, TotalType, BalanceAssumption
<1>12. LockedByType(RemoveExpired(rs, "vesting"), "vesting") = LockedByType(rs, "vesting")
  BY <1>2, RemoveExpiredKeeps
<1> QED BY <1>5, <1>6, <1>8, <1>9, <1>10, <1>11, <1>12

-----------------------------------------------------------------------------
(* Invariants of the list of locks.                                        *)

\* Locks in order hold nothing below 0 together.
LEMMA LockedByTypeIsNat ==
  ASSUME NEW ls \in Locks, \A i \in Slots : Within(ls[i]), NEW type
  PROVE  LockedByType(ls, type) \in Nat
<1> DEFINE f == AmountsOf(ls, type)
           z == [k \in 1 .. MaxLocks |-> 0]
<1>1. f \in [1 .. MaxLocks -> Int] /\ z \in [1 .. MaxLocks -> Int]
  BY AmountsType
<1>2. \A k \in 1 .. MaxLocks : z[k] <= f[k]
  <2> SUFFICES ASSUME NEW k \in 1 .. MaxLocks PROVE 0 <= f[k]
    OBVIOUS
  <2>1. ls[k].locked \in Int /\ Within(ls[k]) /\ f[k] = AmountAs(ls[k], type)
    BY LockTypes DEF Locks, Slots, AmountsOf
  <2> HIDE DEF f
  <2> QED BY <2>1 DEF Within, AmountAs
<1>3. LockedByType(ls, type) = Total(f, MaxLocks)
  BY DEF LockedByType, AmountsOf
<1>4. \A k \in 1 .. MaxLocks : z[k] = 0
  OBVIOUS
<1> HIDE DEF f, z
<1>5. Total(z, MaxLocks) = 0 /\ Total(z, MaxLocks) <= Total(f, MaxLocks)
  BY <1>1, <1>2, <1>4, TotalOfZeros, TotalMonotone, BalanceAssumption
<1>6. Total(f, MaxLocks) \in Int
  BY <1>1, TotalType, BalanceAssumption
<1> QED BY <1>3, <1>5, <1>6

AllWithin == \A i \in Slots : Within(locks[i])
AllSound  == \A i \in Slots : Sound(locks[i], now)
Sole      == \A i, j \in OfType(locks, "staking") : locks[i].node = locks[j].node => i = j

\* A stake is the first of its node.
NewStakeAt(i) ==
  /\ \A k \in Slots \ {i} : locks'[k] = locks[k]
  /\ locks'[i].type = "staking"
  /\ \A k \in Slots : ~ (locks[k].type = "staking" /\ locks[k].node = locks'[i].node)
  /\ Within(locks'[i]) /\ Sound(locks'[i], now)

LEMMA ApplyNodeSlashingKeeps ==
  ASSUME Inductive, AllWithin, ApplyNodeSlashing
  PROVE  \A k \in Slots : Keeps(locks[k], locks'[k])
<1> DEFINE total    == TotalSlashed(locks, now)
           bal      == balance - total
           slashed  == Slashed(locks, now)
           adjusted == AdjustVesting(slashed, bal)
<1>1. balance \in Int /\ locks \in Locks /\ now \in Nat /\ Covered(locks) <= balance
  BY InductiveAsCovered DEF Inductive, TypeOK, Locks
<1>2. /\ slashed \in Locks /\ total \in Int
      /\ LockedByType(slashed, "escrow") = LockedByType(locks, "escrow")
      /\ LockedByType(slashed, "staking") = LockedByType(locks, "staking") - total
  BY <1>1, SlashedEffect
<1>3. \A k \in Slots : Keeps(locks[k], slashed[k])
  BY <1>1, SlashedKeeps DEF AllWithin
<1>4. \A k \in Slots : Within(slashed[k])
  BY <1>3 DEF Keeps, AllWithin
<1>5. locks' = RemoveExpired(adjusted, "staking")
  BY DEF ApplyNodeSlashing
<1> HIDE DEF slashed, total
<1>6. bal \in Nat
  <2>1. LockedByType(slashed, "escrow") \in Nat /\ LockedByType(slashed, "staking") \in Nat
    BY <1>2, <1>4, LockedByTypeIsNat
  <2>2. LockedByType(locks, "staking") \in Int
    BY <1>1, LockedByTypeType
  <2> QED BY <1>1, <1>2, <2>1, <2>2 DEF Covered
<1> HIDE DEF bal
<1>7. \A k \in Slots : Keeps(slashed[k], adjusted[k])
  BY <1>2, <1>4, <1>6, AdjustVestingKeeps
<1> HIDE DEF adjusted
<1>8. \A k \in Slots : Keeps(locks[k], adjusted[k])
  BY <1>3, <1>7, PassesTwice
<1> QED BY <1>5, <1>8, RemoveExpiredPasses

\* What a step does to the positions, when no slash meets an unlock.
LEMMA PositionsStep ==
  ASSUME Inductive, AllWithin, Next, ~ ("slashing" \in Features /\ "unstaking" \in Features)
  PROVE  \/ \E i \in Slots : NewStakeAt(i)
         \/ \A k \in Slots : /\ Keeps(locks[k], locks'[k])
                             /\ "slashing" \notin Features => Passes(locks[k], locks'[k], now)
<1> DEFINE Pass == \A k \in Slots : Passes(locks[k], locks'[k], now)
           Goal == \/ \E i \in Slots : NewStakeAt(i)
                   \/ \A k \in Slots : /\ Keeps(locks[k], locks'[k])
                                       /\ "slashing" \notin Features => Passes(locks[k], locks'[k], now)
<1> SUFFICES Goal
  OBVIOUS
<1>0. TypeOK /\ locks \in Locks /\ now \in Nat
  BY DEF Inductive, TypeOK, Locks
<1>1. Pass => Goal
  BY DEF Passes
<1>2. locks' = locks => Pass
  BY PassesTrivially
<1> HIDE DEF Pass
<1>3. ASSUME NEW n \in Nodes, NEW a \in Amounts, AddNodeStaking(n, a) PROVE Goal
  BY <1>0, <1>1, <1>3, AddNodeStakingLocks DEF NewStakeAt, Pass
<1>4. CASE ApplyNodeSlashing
  BY <1>4, ApplyNodeSlashingKeeps DEF ApplyNodeSlashing
<1>5. ASSUME ApplyNodeStakingUnlocks PROVE Pass
  <2>1. "slashing" \notin Features /\ locks' = AfterUnlocks(locks, now)
    BY <1>5 DEF ApplyNodeStakingUnlocks
  <2> QED BY <1>0, <2>1, UnlocksPass DEF Pass
<1>6. ASSUME ApplyLinearVesting PROVE Pass
  <2>1. locks' = AfterLinearVesting(locks, now, Releasable)
    BY <1>6 DEF ApplyLinearVesting
  <2>2. Releasable \in Nat
    <3>1. Vested \in Int /\ Staked \in Int
      BY <1>0, BreakdownType
    <3> QED BY <3>1 DEF Releasable, Maximum
  <2> QED BY <1>0, <2>1, <2>2, LinearVestingPasses DEF Pass, AllWithin
<1> HIDE DEF Goal
<1>7. ASSUME NEW a \in Amounts, AddSpendableTokens(a) \/ Debit(a) PROVE Goal
  BY <1>1, <1>2, <1>7 DEF AddSpendableTokens, Debit
<1>8. ASSUME NEW a \in Amounts, NEW t \in Terms, AddVestedTokens(a, t[1], t[2]) PROVE Goal
  BY <1>0, <1>1, <1>8, AddVestedTokensPasses DEF Pass
<1>9. ASSUME NEW id \in Escrows, NEW a \in Amounts, AddEscrowedTokens(id, a) PROVE Goal
  BY <1>0, <1>1, <1>9, AddEscrowedTokensPasses DEF Pass
<1>10. ASSUME NEW id \in Escrows, RemoveEscrowLock(id) PROVE Goal
  BY <1>0, <1>1, <1>10, RemoveEscrowLockPasses DEF Pass
<1>11. ASSUME NEW n \in Nodes, NEW a \in Amounts, NEW ts \in PlanTimes,
              PlanNodeStakingUnlock(n, a, ts)
       PROVE  Goal
  BY <1>0, <1>1, <1>11, PlanNodeStakingUnlockPasses DEF Pass
<1>12. ASSUME NEW n \in Nodes, NEW ts \in PlanTimes, SetSlashing(n, ts) PROVE Goal
  BY <1>0, <1>1, <1>12, SetSlashingPasses DEF Pass
<1>13. ASSUME NEW n \in Nodes, CancelNodeSlashing(n) PROVE Goal
  BY <1>0, <1>1, <1>13, CancelNodeSlashingPasses DEF Pass
<1>14. CASE AdvanceTime
  BY <1>1, <1>2, <1>14 DEF AdvanceTime
<1> QED
  BY <1>1, <1>3, <1>4, <1>5, <1>6, <1>7, <1>8, <1>9, <1>10, <1>11, <1>12, <1>13, <1>14 DEF Next

\* The list of locks stays in order.
InOrder == Inductive /\ Sole /\ AllWithin

LEMMA InitInOrder == Init => InOrder /\ AllSound
BY InitInductive DEF Init, InOrder, Sole, AllWithin, AllSound, Within, Sound, OfType, NoLock

LEMMA NextInOrder ==
  ASSUME ~ ("slashing" \in Features /\ "unstaking" \in Features)
  PROVE  InOrder /\ [Next]_vars => InOrder'
<1> SUFFICES ASSUME InOrder, [Next]_vars PROVE InOrder'
  OBVIOUS
<1>1. Inductive'
  BY NextInductive DEF InOrder
<1>2. CASE Next
  <2>1. CASE \E i \in Slots : NewStakeAt(i)
    <3>1. PICK i \in Slots : NewStakeAt(i)
      BY <2>1
    <3>2. AllWithin'
      BY <3>1 DEF NewStakeAt, AllWithin, InOrder
    <3>3. Sole'
      BY <3>1 DEF NewStakeAt, Sole, InOrder, OfType
    <3> QED BY <1>1, <3>2, <3>3 DEF InOrder
  <2>2. CASE \A k \in Slots : Keeps(locks[k], locks'[k])
    <3>1. AllWithin'
      BY <2>2 DEF Keeps, AllWithin, InOrder
    <3>2. Sole'
      BY <2>2 DEF Keeps, Sole, InOrder, OfType
    <3> QED BY <1>1, <3>1, <3>2 DEF InOrder
  <2> QED BY <1>2, <2>1, <2>2, PositionsStep DEF InOrder
<1>3. CASE UNCHANGED vars
  BY <1>1, <1>3 DEF vars, InOrder, Sole, AllWithin, OfType
<1> QED BY <1>2, <1>3

\* LocksWellFormed for any number of locks, unless the caller both slashes and unlocks.
THEOREM LocksStayWellFormed ==
  ASSUME ~ ("slashing" \in Features /\ "unstaking" \in Features)
  PROVE  Spec => []LocksWellFormed
<1>1. Init => InOrder
  BY InitInOrder
<1>2. InOrder /\ [Next]_vars => InOrder'
  BY NextInOrder
<1>3. InOrder => LocksWellFormed
  BY DEF InOrder, Sole, AllWithin, Within, LocksWellFormed
<1> QED BY <1>1, <1>2, <1>3, PTL DEF Spec

-----------------------------------------------------------------------------
(* Without slashing, vesting follows its schedule and the account covers    *)
(* its vested tokens.                                                       *)

\* The balance covers what is vested and in escrow; with the stakes it covers too,
\* that is what getSpendable needs.
Backed == Vested + Escrowed <= balance

Scheduled == InOrder /\ AllSound /\ Backed

\* While nothing was slashed, releases are never negative.
LEMMA LeftFalls ==
  ASSUME NEW ls \in Locks, NEW ts \in Nat, NEW releasable \in Nat,
         \A i \in Slots : Within(ls[i]) /\ Sound(ls[i], ts),
         NEW left, left = LeftToRelease(ls, ts, releasable)
  PROVE  /\ \A k \in 0 .. MaxLocks : left[k] \in Nat
         /\ \A j, k \in 0 .. MaxLocks : j <= k => left[k] <= left[j]
<1>1. \A k \in 0 .. MaxLocks : left[k] \in Nat
  BY LeftIsNat
<1>2. ASSUME NEW k \in 1 .. MaxLocks PROVE left[k] <= left[k - 1]
  <2>1. left[k] = left[k - 1] - Released(ls[k], ts, left[k - 1])
    BY LeftToReleaseSteps
  <2>2. left[k - 1] \in Nat /\ ls[k] \in Lock \union {NoLock} /\ Sound(ls[k], ts)
    BY <1>1, BalanceAssumption DEF Locks, Slots
  <2>3. Released(ls[k], ts, left[k - 1]) \in Nat
    <3>1. CASE ls[k].type = "vesting"
      <4>1. ls[k] \in VestingLock
        BY <2>2, <3>1, LockTypes
      <4>2. Released(ls[k], ts, left[k - 1]) \in 0 .. left[k - 1]
        BY <2>2, <4>1, ReleaseSound
      <4> QED BY <2>2, <4>2
    <3>2. CASE ls[k].type # "vesting"
      BY <3>2, NothingReleased
    <3> QED BY <3>1, <3>2
  <2> QED BY <2>1, <2>2, <2>3
<1>3. \A k \in 0 .. MaxLocks : left[k] \in Int
  BY <1>1
<1> QED BY <1>1, <1>2, <1>3, FallingEverywhere, BalanceAssumption

\* Replacing a stake moves neither vested tokens nor escrows.
LEMMA StakeReplaced ==
  ASSUME TypeOK, NEW i \in Slots, locks[i].type = "staking", NEW stake \in StakingLock,
         locks' = [locks EXCEPT ![i] = stake]
  PROVE  \A type \in {"vesting", "escrow"} : LockedByType(locks', type) = LockedByType(locks, type)
<1> SUFFICES ASSUME NEW type \in {"vesting", "escrow"}
             PROVE  LockedByType(locks', type) = LockedByType(locks, type)
  OBVIOUS
<1>1. locks \in Locks /\ stake \in Lock \union {NoLock}
  BY DEF TypeOK, Locks, Lock
<1>2. LockedByType(locks', type) =
        LockedByType(locks, type) + (AmountAs(stake, type) - AmountAs(locks[i], type))
  BY <1>1, ReplaceLock
<1>3. AmountAs(stake, type) = 0 /\ AmountAs(locks[i], type) = 0
  BY DEF AmountAs, StakingLock
<1>4. LockedByType(locks, type) \in Int
  BY <1>1, LockedByTypeType
<1> QED BY <1>2, <1>3, <1>4

\* Removing an escrow takes what it holds off the escrows.
LEMMA EscrowRemoved ==
  ASSUME TypeOK, NEW i \in Slots, locks[i].type = "escrow", locks' = [locks EXCEPT ![i] = NoLock]
  PROVE  /\ LockedByType(locks', "vesting") = LockedByType(locks, "vesting")
         /\ LockedByType(locks', "escrow") = LockedByType(locks, "escrow") - locks[i].locked
<1>1. locks \in Locks /\ NoLock \in Lock \union {NoLock}
  BY DEF TypeOK, Locks
<1>2. ASSUME NEW type
      PROVE  LockedByType(locks', type) =
               LockedByType(locks, type) + (AmountAs(NoLock, type) - AmountAs(locks[i], type))
  BY <1>1, ReplaceLock
<1>3. /\ AmountAs(NoLock, "vesting") = 0 /\ AmountAs(NoLock, "escrow") = 0
      /\ AmountAs(locks[i], "vesting") = 0 /\ AmountAs(locks[i], "escrow") = locks[i].locked
  BY DEF AmountAs, NoLock
<1>4. /\ LockedByType(locks, "vesting") \in Int /\ LockedByType(locks, "escrow") \in Int
      /\ locks[i].locked \in Int
  BY <1>1, LockedByTypeType, LockTypes DEF Locks
<1>5. /\ LockedByType(locks', "vesting") = LockedByType(locks, "vesting") + (0 - 0)
      /\ LockedByType(locks', "escrow") = LockedByType(locks, "escrow") + (0 - locks[i].locked)
  BY <1>2, <1>3, Zenon
<1> QED BY <1>4, <1>5

\* What the calls that only change stakes leave alone.
LEMMA StakesOnly ==
  ASSUME TypeOK,
         \/ \E n \in Nodes, a \in Amounts : AddNodeStaking(n, a)
         \/ \E n \in Nodes, a \in Amounts, ts \in PlanTimes : PlanNodeStakingUnlock(n, a, ts)
         \/ \E n \in Nodes : CancelNodeSlashing(n)
         \/ ApplyNodeStakingUnlocks
  PROVE  \A type \in {"vesting", "escrow"} : LockedByType(locks', type) = LockedByType(locks, type)
<1> DEFINE Same == \A type \in {"vesting", "escrow"} :
                     LockedByType(locks', type) = LockedByType(locks, type)
<1> SUFFICES Same
  OBVIOUS
<1>0. locks \in Locks /\ now \in Nat
  BY DEF TypeOK, Locks
<1>1. ASSUME NEW i \in Slots, locks[i].type = "staking"
      PROVE  locks[i] \in StakingLock /\ locks[i].locked \in Int
  BY <1>0, <1>1, LockTypes DEF Locks
<1>2. ASSUME NEW i \in Slots, locks[i].type = "staking", NEW stake \in StakingLock,
             locks' = [locks EXCEPT ![i] = stake]
      PROVE  Same
  BY <1>2, StakeReplaced
<1> HIDE DEF Same
<1>3. ASSUME NEW n \in Nodes, NEW a \in Amounts, AddNodeStaking(n, a) PROVE Same
  <2>1. a \in Nat
    BY BalanceAssumption
  <2>2. CASE \E i \in Slots : IsStakeOf(n, i) /\ locks' = [locks EXCEPT ![i].locked = @ + a]
    <3>1. PICK i \in Slots : IsStakeOf(n, i) /\ locks' = [locks EXCEPT ![i].locked = @ + a]
      BY <2>2
    <3> DEFINE old == locks[i]
               x   == old.locked + a
    <3>2. old \in StakingLock /\ old.type = "staking" /\ x \in Int
      BY <1>1, <2>1, <3>1 DEF IsStakeOf
    <3>3. locks' = [locks EXCEPT ![i] = [old EXCEPT !.locked = x]]
      BY <3>1, Zenon
    <3> HIDE DEF x
    <3>4. [old EXCEPT !.locked = x] \in StakingLock
      BY <3>2, StakeUpdate
    <3> QED BY <1>2, <3>2, <3>3, <3>4
  <2>3. CASE Push(NewStake(n, a))
    <3>1. NewStake(n, a) \in Lock /\ NewStake(n, a).type = "staking"
      BY <2>1 DEF NewStake, Lock, StakingLock
    <3>2. \A type : LockedByType(locks', type) =
                      LockedByType(locks, type) + AmountAs(NewStake(n, a), type)
      BY <2>3, <3>1, PushEffect
    <3>3. \A type \in {"vesting", "escrow"} : /\ AmountAs(NewStake(n, a), type) = 0
                                              /\ LockedByType(locks, type) \in Int
      BY <1>0, <3>1, LockedByTypeType DEF AmountAs
    <3> QED BY <3>2, <3>3 DEF Same
  <2> QED BY <1>3, <2>2, <2>3 DEF AddNodeStaking
<1>4. ASSUME NEW n \in Nodes, NEW a \in Amounts, NEW ts \in PlanTimes,
             PlanNodeStakingUnlock(n, a, ts)
      PROVE  Same
  <2>1. PICK i \in Slots : /\ IsStakeOf(n, i)
                           /\ locks' = [locks EXCEPT ![i] = WithPlan(locks[i], a, ts)]
    BY <1>4, Zenon DEF PlanNodeStakingUnlock
  <2>2. a \in Nat /\ ts \in Nat
    BY BalanceAssumption DEF PlanTimes
  <2>3. locks[i].type = "staking" /\ WithPlan(locks[i], a, ts) \in StakingLock
    BY <1>1, <2>1, <2>2, WithPlanType DEF IsStakeOf
  <2> QED BY <1>2, <2>1, <2>3
<1>5. ASSUME NEW n \in Nodes, CancelNodeSlashing(n) PROVE Same
  <2>1. PICK i \in Slots : /\ IsStakeOf(n, i)
                           /\ locks' = [locks EXCEPT ![i] = WithSlash(locks[i], FALSE, 0, 0)]
    BY <1>5, Zenon DEF CancelNodeSlashing
  <2>2. locks[i] \in StakingLock /\ locks[i].type = "staking"
    BY <1>1, <2>1 DEF IsStakeOf
  <2>3. FALSE \in BOOLEAN /\ 0 \in Nat /\ 0 \in Int
    OBVIOUS
  <2>4. WithSlash(locks[i], FALSE, 0, 0) \in StakingLock
    BY <2>2, <2>3, WithSlashType, Zenon
  <2> QED BY <1>2, <2>1, <2>2, <2>4, Zenon
<1>6. ASSUME ApplyNodeStakingUnlocks PROVE Same
  BY <1>0, <1>6, UnlocksEffect DEF ApplyNodeStakingUnlocks, Same
<1> QED BY <1>3, <1>4, <1>5, <1>6

LEMMA BackedStep ==
  ASSUME Scheduled, Next, "slashing" \notin Features
  PROVE  Backed'
<1> DEFINE V == LockedByType(locks, "vesting")
           E == LockedByType(locks, "escrow")
<1>1. /\ TypeOK /\ locks \in Locks /\ now \in Nat /\ balance \in Int
      /\ V + E <= balance /\ V \in Int /\ E \in Int
  BY LockedByTypeType DEF Scheduled, InOrder, Inductive, Backed, Vested, Escrowed, TypeOK, Locks
<1>2. ASSUME LockedByType(locks', "vesting") <= V, LockedByType(locks', "escrow") <= E,
             LockedByType(locks', "vesting") \in Int, LockedByType(locks', "escrow") \in Int,
             balance' \in Int, balance' >= balance
      PROVE  Backed'
  BY <1>1, <1>2 DEF Backed, Vested, Escrowed
<1>3. ASSUME \A type \in {"vesting", "escrow"} : LockedByType(locks', type) = LockedByType(locks, type),
             balance' = balance
      PROVE  Backed'
  BY <1>1, <1>2, <1>3
<1>4. ASSUME NEW a \in Amounts, AddSpendableTokens(a) PROVE Backed'
  <2>1. a \in Nat /\ locks' = locks /\ balance' = balance + a
    BY <1>4, BalanceAssumption DEF AddSpendableTokens
  <2> QED BY <1>1, <2>1 DEF Backed, Vested, Escrowed
<1>5. ASSUME NEW a \in Amounts, Debit(a) PROVE Backed'
  <2>1. a \in Nat /\ locks' = locks /\ balance' = balance - a /\ a <= Spendable
    BY <1>5, BalanceAssumption DEF Debit
  <2>2. /\ Staked \in Int /\ Vested = V /\ Escrowed = E
        /\ Vested' = Vested /\ Escrowed' = Escrowed
    BY <1>1, <2>1, BreakdownType DEF Vested, Escrowed
  <2>3. Spendable = balance - (E + Maximum(V, Staked))
    BY <2>2 DEF Spendable
  <2>4. Maximum(V, Staked) \in Int /\ Maximum(V, Staked) >= V
    BY <1>1, <2>2 DEF Maximum
  <2>5. V + E <= balance - a
    BY <1>1, <2>1, <2>3, <2>4
  <2> QED BY <2>1, <2>2, <2>5 DEF Backed
<1>6. ASSUME NEW a \in Amounts, NEW t \in Terms, AddVestedTokens(a, t[1], t[2]) PROVE Backed'
  <2> DEFINE lock == [type |-> "vesting", locked |-> a, initial |-> a,
                      cliffStart |-> now, cliffDays |-> t[1], days |-> t[2]]
  <2>1. a \in Nat /\ t[1] \in Nat /\ t[2] \in Nat \ {0}
    BY BalanceAssumption
  <2>2. lock \in Lock /\ lock.type = "vesting" /\ lock.locked = a
    BY <1>1, <2>1 DEF VestingLock, Lock
  <2>3. Push(lock) /\ balance' = balance + a
    BY <1>6 DEF AddVestedTokens
  <2> HIDE DEF lock
  <2>4. \A type : LockedByType(locks', type) = LockedByType(locks, type) + AmountAs(lock, type)
    BY <1>1, <2>2, <2>3, PushEffect
  <2>5. LockedByType(locks', "vesting") = V + a /\ LockedByType(locks', "escrow") = E + 0
    BY <2>2, <2>4 DEF AmountAs
  <2> HIDE DEF V, E
  <2> QED BY <1>1, <2>1, <2>3, <2>5 DEF Backed, Vested, Escrowed
<1>7. ASSUME NEW id \in Escrows, NEW a \in Amounts, AddEscrowedTokens(id, a) PROVE Backed'
  <2> DEFINE lock == [type |-> "escrow", locked |-> a, id |-> id]
  <2>1. a \in Nat
    BY BalanceAssumption
  <2>2. lock \in Lock /\ lock.type = "escrow" /\ lock.locked = a
    BY <2>1 DEF EscrowLock, Lock
  <2>3. Push(lock) /\ balance' = balance + a
    BY <1>7 DEF AddEscrowedTokens
  <2> HIDE DEF lock
  <2>4. \A type : LockedByType(locks', type) = LockedByType(locks, type) + AmountAs(lock, type)
    BY <1>1, <2>2, <2>3, PushEffect
  <2>5. LockedByType(locks', "vesting") = V + 0 /\ LockedByType(locks', "escrow") = E + a
    BY <2>2, <2>4 DEF AmountAs
  <2> HIDE DEF V, E
  <2> QED BY <1>1, <2>1, <2>3, <2>5 DEF Backed, Vested, Escrowed
<1>8. ASSUME NEW id \in Escrows, RemoveEscrowLock(id) PROVE Backed'
  <2>1. PICK i \in Slots : IsEscrowOf(id, i) /\ locks' = [locks EXCEPT ![i] = NoLock]
    BY <1>8 DEF RemoveEscrowLock
  <2>2. locks[i].type = "escrow" /\ locks[i].locked \in Int /\ locks[i].locked >= 0
    BY <1>1, <2>1, LockTypes DEF IsEscrowOf, Scheduled, InOrder, AllWithin, Within, Locks
  <2>3. /\ LockedByType(locks', "vesting") = V
        /\ LockedByType(locks', "escrow") = E - locks[i].locked
    BY <1>1, <2>1, <2>2, EscrowRemoved
  <2>4. balance' = balance
    BY <1>8 DEF RemoveEscrowLock
  <2> QED BY <1>1, <1>2, <2>2, <2>3, <2>4
<1>9. CASE \/ \E n \in Nodes, a \in Amounts : AddNodeStaking(n, a)
           \/ \E n \in Nodes, a \in Amounts, ts \in PlanTimes : PlanNodeStakingUnlock(n, a, ts)
           \/ \E n \in Nodes : CancelNodeSlashing(n)
           \/ ApplyNodeStakingUnlocks
  <2>1. balance' = balance
    BY <1>9 DEF AddNodeStaking, PlanNodeStakingUnlock, CancelNodeSlashing, ApplyNodeStakingUnlocks
  <2> QED BY <1>1, <1>3, <1>9, <2>1, StakesOnly
<1>10. CASE ApplyLinearVesting
  <2> DEFINE left == LeftToRelease(locks, now, Releasable)
  <2>1. Releasable \in Nat
    <3>1. Vested \in Int /\ Staked \in Int
      BY <1>1, BreakdownType
    <3> QED BY <3>1 DEF Releasable, Maximum
  <2>2. locks' = AfterLinearVesting(locks, now, Releasable) /\ balance' = balance
    BY <1>10 DEF ApplyLinearVesting
  <2>3. \A i \in Slots : Within(locks[i]) /\ Sound(locks[i], now)
    BY DEF Scheduled, InOrder, AllWithin, AllSound
  <2>4. left[0] = Releasable /\ left[MaxLocks] \in Nat /\ left[MaxLocks] <= left[0]
    <3>1. left[0] = Releasable
      BY <1>1, <2>1, LeftToReleaseSteps
    <3> HIDE DEF left
    <3>2. /\ \A k \in 0 .. MaxLocks : left[k] \in Nat
          /\ \A j, k \in 0 .. MaxLocks : j <= k => left[k] <= left[j]
      BY <1>1, <2>1, <2>3, LeftFalls DEF left
    <3> QED BY <3>1, <3>2, BalanceAssumption
  <2>5. LockedByType(locks', "vesting") = V - (Releasable - left[MaxLocks])
    BY <1>1, <2>1, <2>2, <2>3, LinearVestingTotal
  <2>6. LockedByType(locks', "escrow") = E
    BY <1>1, <2>1, <2>2, LinearVestingEffect
  <2> HIDE DEF left
  <2> QED BY <1>1, <1>2, <2>1, <2>2, <2>4, <2>5, <2>6
<1>11. ASSUME NEW n \in Nodes, NEW ts \in PlanTimes, SetSlashing(n, ts) PROVE FALSE
  BY <1>11 DEF SetSlashing
<1>12. CASE ApplyNodeSlashing
  BY <1>12 DEF ApplyNodeSlashing
<1>13. CASE AdvanceTime
  BY <1>3, <1>13 DEF AdvanceTime
<1> QED
  BY <1>4, <1>5, <1>6, <1>7, <1>8, <1>9, <1>10, <1>11, <1>12, <1>13 DEF Next

LEMMA SoundStep ==
  ASSUME InOrder, AllSound, Next, "slashing" \notin Features
  PROVE  AllSound'
<1>1. now \in Nat /\ now' \in Nat /\ now <= now'
  <2>1. AdvanceTime \/ UNCHANGED now
    BY DEF Next, AddSpendableTokens, Debit, AddVestedTokens, AddEscrowedTokens,
           RemoveEscrowLock, AddNodeStaking, PlanNodeStakingUnlock,
           ApplyNodeStakingUnlocks, SetSlashing, CancelNodeSlashing, ApplyNodeSlashing,
           ApplyLinearVesting
  <2>2. now \in Nat
    BY DEF InOrder, Inductive, TypeOK
  <2> QED BY <2>1, <2>2 DEF AdvanceTime
<1>2. Inductive'
  BY NextInductive DEF InOrder
<1>3. \A k \in Slots : locks'[k] \in Lock \union {NoLock}
  BY <1>2 DEF Inductive, TypeOK
<1>4. \A k \in Slots : Sound(locks'[k], now)
  <2>1. CASE \E i \in Slots : NewStakeAt(i)
    BY <2>1 DEF NewStakeAt, AllSound
  <2>2. CASE \A k \in Slots : Passes(locks[k], locks'[k], now)
    BY <2>2 DEF Passes, AllSound
  <2> QED BY <2>1, <2>2, PositionsStep DEF InOrder
<1>5. \A k \in Slots : Sound(locks'[k], now')
  BY <1>1, <1>3, <1>4, SoundLater
<1> QED BY <1>5 DEF AllSound

LEMMA InitScheduled == Init => Scheduled
<1> SUFFICES ASSUME Init PROVE Scheduled
  OBVIOUS
<1>1. locks \in Locks /\ \A type : \A k \in Slots : AmountAs(locks[k], type) = 0
  BY DEF Init, AmountAs, NoLock, Locks
<1>2. ASSUME NEW type PROVE LockedByType(locks, type) = 0
  <2>1. AmountsOf(locks, type) \in [1 .. MaxLocks -> Int]
    BY <1>1, AmountsType
  <2>2. \A k \in 1 .. MaxLocks : AmountsOf(locks, type)[k] = 0
    BY <1>1 DEF AmountsOf, Slots
  <2>3. Total(AmountsOf(locks, type), MaxLocks) = 0
    BY <2>1, <2>2, TotalOfZeros, BalanceAssumption
  <2> QED BY <2>3 DEF LockedByType, AmountsOf
<1>3. Backed
  BY <1>2 DEF Backed, Vested, Escrowed, Init
<1> QED BY <1>3, InitInOrder DEF Scheduled

LEMMA NextScheduled ==
  ASSUME "slashing" \notin Features
  PROVE  Scheduled /\ [Next]_vars => Scheduled'
<1> SUFFICES ASSUME Scheduled, [Next]_vars PROVE Scheduled'
  OBVIOUS
<1>1. InOrder'
  BY NextInOrder DEF Scheduled
<1>2. CASE Next
  BY <1>1, <1>2, SoundStep, BackedStep DEF Scheduled
<1>3. CASE UNCHANGED vars
  BY <1>1, <1>3 DEF vars, Scheduled, AllSound, Backed, Vested, Escrowed
<1> QED BY <1>2, <1>3

\* Without slashing getSpendable never reports a debt: the balance covers the escrows and
\* the larger of the vested and the staked tokens.
THEOREM SpendableCovers ==
  ASSUME "slashing" \notin Features
  PROVE  Spec => []SpendableNonNegative
<1>1. Scheduled => SpendableNonNegative
  <2> SUFFICES ASSUME Scheduled PROVE SpendableNonNegative
    OBVIOUS
  <2>1. balance \in Int /\ Escrowed \in Int /\ Vested \in Int /\ Staked \in Int
    BY BreakdownType DEF Scheduled, InOrder, Inductive, TypeOK
  <2>2. balance - Staked - Escrowed >= 0 /\ Vested + Escrowed <= balance
    BY DEF Scheduled, InOrder, Inductive, Backed, StakeableNonNegative, Stakeable
  <2> QED BY <2>1, <2>2 DEF SpendableNonNegative, Spendable, Maximum
<1>2. Init => Scheduled
  BY InitScheduled
<1>3. Scheduled /\ [Next]_vars => Scheduled'
  BY NextScheduled
<1> QED BY <1>1, <1>2, <1>3, PTL DEF Spec

\* Without slashing no vesting lock has released more than its schedule allows, whatever
\* was delayed by stakes and caught up with.
THEOREM VestingOnSchedule ==
  ASSUME "slashing" \notin Features
  PROVE  Spec => []ReleasedOnSchedule
<1>1. Scheduled => ReleasedOnSchedule
  BY DEF Scheduled, AllSound, Sound, ReleasedOnSchedule, OfType
<1>2. Init => Scheduled
  BY InitScheduled
<1>3. Scheduled /\ [Next]_vars => Scheduled'
  BY NextScheduled
<1> QED BY <1>1, <1>2, <1>3, PTL DEF Spec

\* A release leaves what the stakes need, and unless they need all of it, every lock is
\* then where its schedule says.
LEMMA ReleaseFits ==
  ASSUME Scheduled, ApplyLinearVesting
  PROVE  /\ Vested' >= Minimum(Vested, Staked)
         /\ \/ Vested' <= Staked
            \/ \A i \in OfType(locks, "vesting") :
                 locks[i].initial - locks'[i].locked = MaximumRelease(locks[i], now)
<1> DEFINE left == LeftToRelease(locks, now, Releasable)
           rs   == AfterRelease(locks, now, left)
           last == left[MaxLocks]
<1>1. /\ locks \in Locks /\ now \in Nat /\ Vested \in Int /\ Staked \in Int
      /\ \A i \in Slots : Within(locks[i]) /\ Sound(locks[i], now)
  BY BreakdownType DEF Scheduled, InOrder, Inductive, TypeOK, Locks, AllWithin, AllSound
<1>2. Releasable = Maximum(0, Vested - Staked) /\ Releasable \in Nat
  BY <1>1 DEF Releasable, Maximum
<1>3. locks' = AfterLinearVesting(locks, now, Releasable)
  BY DEF ApplyLinearVesting
<1>4. Vested' = Vested - (Releasable - last)
  <2>1. LockedByType(AfterLinearVesting(locks, now, Releasable), "vesting")
          = LockedByType(locks, "vesting") - (Releasable - last)
    BY <1>1, <1>2, LinearVestingTotal
  <2> QED BY <1>3, <2>1 DEF Vested
<1>5. /\ \A k \in 0 .. MaxLocks : left[k] \in Nat
      /\ \A j, k \in 0 .. MaxLocks : j <= k => left[k] <= left[j]
      /\ left[0] = Releasable
  <2>1. left[0] = Releasable
    BY <1>1, <1>2, LeftToReleaseSteps
  <2> HIDE DEF left
  <2> QED BY <1>1, <1>2, <2>1, LeftFalls DEF left
<1>6. last \in Nat /\ last <= Releasable
  <2> HIDE DEF left
  <2> QED BY <1>5, BalanceAssumption
<1>7. Vested' >= Minimum(Vested, Staked) /\ (Vested' > Staked => last > 0)
  <2> HIDE DEF left, last
  <2> QED BY <1>1, <1>2, <1>4, <1>6 DEF Minimum, Maximum
<1>8. ASSUME last > 0, NEW i \in OfType(locks, "vesting")
      PROVE  locks[i].initial - locks'[i].locked = MaximumRelease(locks[i], now)
  <2> DEFINE lock == locks[i]
             out  == Released(lock, now, left[i - 1])
  <2>1. i \in Slots /\ lock.type = "vesting" /\ lock \in VestingLock
    BY <1>1, <1>8, LockTypes DEF OfType, Locks
  <2>2. /\ i \in 1 .. MaxLocks /\ i - 1 \in 0 .. MaxLocks /\ i \in 0 .. MaxLocks
        /\ MaxLocks \in 0 .. MaxLocks
    BY <2>1, BalanceAssumption DEF Slots
  <2>3. left[i] = left[i - 1] - out
    BY <1>1, <1>2, <2>2, LeftToReleaseSteps
  <2>4. rs[i].locked = lock.locked - (left[i - 1] - left[i])
    BY <1>1, <1>2, <2>1, AfterReleaseAt
  <2>5. locks'[i].locked = rs[i].locked
    <3>1. locks' = RemoveExpired(rs, "vesting")
      BY <1>3 DEF AfterLinearVesting
    <3> HIDE DEF rs
    <3> QED BY <2>1, <3>1 DEF RemoveExpired, NoLock
  <2> HIDE DEF rs, left
  <2>6. left[i - 1] \in Nat /\ left[i] \in Nat /\ left[i] > 0
    BY <1>5, <1>8, <2>2 DEF last
  <2>7. out \in 0 .. left[i - 1]
    BY <1>1, <2>1, <2>6, ReleaseSound
  <2>8. out < left[i - 1]
    <3> HIDE DEF out
    <3> QED BY <2>3, <2>6, <2>7
  <2>9. lock.initial - (lock.locked - out) = MaximumRelease(lock, now)
    BY <1>1, <2>1, <2>6, <2>8, ReleaseSound
  <2>10. locks'[i].locked = lock.locked - out
    <3> HIDE DEF out
    <3> QED BY <2>3, <2>4, <2>5, <2>6, <2>7
  <2> QED BY <2>9, <2>10
<1>9. Vested' \in Int
  <2> HIDE DEF last
  <2> QED BY <1>1, <1>2, <1>4, <1>6
<1> QED BY <1>1, <1>7, <1>8, <1>9

\* ReleasesFitStakes for any number of locks.
THEOREM ReleasesStopAtStakes ==
  ASSUME "slashing" \notin Features
  PROVE  Spec => ReleasesFitStakes
<1>1. Scheduled /\ [Next]_vars =>
        [ApplyLinearVesting =>
           /\ Vested' >= Minimum(Vested, Staked)
           /\ \/ Vested' <= Staked
              \/ \A i \in OfType(locks, "vesting") :
                   locks[i].initial - locks'[i].locked = MaximumRelease(locks[i], now)]_vars
  BY ReleaseFits
<1>2. Init => Scheduled
  BY InitScheduled
<1>3. Scheduled /\ [Next]_vars => Scheduled'
  BY NextScheduled
<1> QED BY <1>1, <1>2, <1>3, PTL DEF Spec, ReleasesFitStakes

-----------------------------------------------------------------------------
(* adjustVesting: the two passes take exactly what exceeds the balance.     *)

LEMMA ProductIsInt ==
  ASSUME NEW a \in Int, NEW b \in Int
  PROVE  a * b \in Int
OBVIOUS

LEMMA QuotientBounds ==
  ASSUME NEW a \in Nat, NEW d \in Nat \ {0}
  PROVE  /\ a \div d \in Nat
         /\ d * (a \div d) <= a
         /\ a < d * (a \div d) + d
OBVIOUS

LEMMA CancelFactor ==
  ASSUME NEW d \in Nat \ {0}, NEW a \in Int, NEW b \in Int
  PROVE  d * a <= d * b => a <= b
OBVIOUS

\* The first k positions that the second pass can take a unit from.
Gives(ls, j) == ls[j].type = "vesting" /\ ls[j].locked > 0
Givers(ls, k) == {j \in 1 .. k : Gives(ls, j)}

LEMMA GiversCount ==
  ASSUME NEW ls
  PROVE  /\ Cardinality(Givers(ls, 0)) = 0
         /\ \A k \in Nat : Cardinality(Givers(ls, k)) \in Nat
         /\ \A k \in Nat \ {0} :
              Cardinality(Givers(ls, k)) =
                Cardinality(Givers(ls, k - 1)) + (IF Gives(ls, k) THEN 1 ELSE 0)
<1>1. Givers(ls, 0) = {}
  BY DEF Givers
<1>2. ASSUME NEW k \in Nat PROVE IsFiniteSet(Givers(ls, k))
  <2>1. IsFiniteSet(1 .. k)
    BY FS_Interval
  <2> QED BY <2>1, FS_Subset DEF Givers
<1>3. ASSUME NEW k \in Nat \ {0}
      PROVE  Cardinality(Givers(ls, k)) =
               Cardinality(Givers(ls, k - 1)) + (IF Gives(ls, k) THEN 1 ELSE 0)
  <2>1. k - 1 \in Nat /\ 1 .. k = (1 .. k - 1) \union {k} /\ k \notin 1 .. k - 1
    OBVIOUS
  <2>2. Cardinality(Givers(ls, k - 1)) \in Nat /\ IsFiniteSet(Givers(ls, k - 1))
    BY <1>2, <2>1, FS_CardinalityType
  <2>3. CASE Gives(ls, k)
    <3>1. Givers(ls, k) = Givers(ls, k - 1) \union {k} /\ k \notin Givers(ls, k - 1)
      BY <2>1, <2>3 DEF Givers
    <3>2. Cardinality(Givers(ls, k - 1) \union {k}) = Cardinality(Givers(ls, k - 1)) + 1
      BY <2>2, <3>1, FS_AddElement
    <3> QED BY <2>3, <3>1, <3>2
  <2>4. CASE ~ Gives(ls, k)
    <3>1. Givers(ls, k) = Givers(ls, k - 1)
      BY <2>1, <2>4 DEF Givers
    <3> QED BY <2>2, <2>4, <3>1
  <2> QED BY <2>3, <2>4
<1> QED BY <1>1, <1>2, <1>3, FS_EmptySet, FS_CardinalityType

\* The second pass takes one unit each from the first locks that hold something.
LEMMA SecondPassTotal ==
  ASSUME NEW first \in Locks, NEW missing \in Nat, missing <= Cardinality(Givers(first, MaxLocks)),
         NEW second, second = SecondPass(first, missing)
  PROVE  LockedByType(second, "vesting") = LockedByType(first, "vesting") - missing
<1> DEFINE Count(k) == Cardinality(Givers(first, k))
           v == [k \in 0 .. MaxLocks |-> 0 - Minimum(missing, Count(k))]
           out == [k \in 1 .. MaxLocks |->
                     IF Gives(first, k) /\ Count(k - 1) < missing THEN 1 ELSE 0]
           f == AmountsOf(first, "vesting")
           h == AmountsOf(second, "vesting")
<1>1. /\ Count(0) = 0
      /\ \A k \in 0 .. MaxLocks : Count(k) \in Nat
      /\ \A k \in 1 .. MaxLocks : Count(k) = Count(k - 1) + (IF Gives(first, k) THEN 1 ELSE 0)
  <2>1. \A k \in 0 .. MaxLocks : k \in Nat
    OBVIOUS
  <2>2. \A k \in 1 .. MaxLocks : k \in Nat \ {0}
    OBVIOUS
  <2> QED BY <2>1, <2>2, GiversCount, Zenon
<1>2. second \in Locks
  BY SecondPassEffect
<1>3. \A k \in 1 .. MaxLocks : f[k] = h[k] + out[k]
  <2> SUFFICES ASSUME NEW k \in 1 .. MaxLocks PROVE f[k] = h[k] + out[k]
    OBVIOUS
  <2> DEFINE old == first[k]
             x   == old.locked - 1
             new == second[k]
  <2>1. k \in Slots /\ old \in Lock \union {NoLock} /\ old.locked \in Int
    BY LockTypes DEF Locks, Slots
  <2>2. f[k] = AmountAs(old, "vesting") /\ h[k] = AmountAs(new, "vesting")
    BY <2>1 DEF AmountsOf
  <2>3. new = IF Gives(first, k) /\ Count(k - 1) < missing THEN [old EXCEPT !.locked = x] ELSE old
    <3>1. {j \in 1 .. k - 1 : first[j].type = "vesting" /\ first[j].locked > 0} = Givers(first, k - 1)
      BY DEF Givers, Gives
    <3> QED BY <2>1, <3>1, Zenon DEF SecondPass, Gives
  <2>4. out[k] = IF Gives(first, k) /\ Count(k - 1) < missing THEN 1 ELSE 0
    OBVIOUS
  <2> HIDE DEF Count, new, f, h, out
  <2>5. CASE Gives(first, k) /\ Count(k - 1) < missing
    <3>1. old \in VestingLock /\ old.type = "vesting" /\ x \in Int
      BY <2>1, <2>5, LockTypes DEF Gives
    <3> HIDE DEF x
    <3>2. new.type = "vesting" /\ new.locked = x
      BY <2>3, <2>5, <3>1, VestingFields
    <3> QED BY <2>1, <2>2, <2>4, <2>5, <3>1, <3>2 DEF AmountAs, x
  <2>6. CASE ~ (Gives(first, k) /\ Count(k - 1) < missing)
    <3>1. AmountAs(old, "vesting") \in Int
      BY <2>1, AmountAsType
    <3> QED BY <2>2, <2>3, <2>4, <2>6, <3>1
  <2> QED BY <2>5, <2>6
<1>4. \A k \in 1 .. MaxLocks : out[k] = v[k - 1] - v[k]
  <2> SUFFICES ASSUME NEW k \in 1 .. MaxLocks PROVE out[k] = v[k - 1] - v[k]
    OBVIOUS
  <2>1. k \in 0 .. MaxLocks /\ k - 1 \in 0 .. MaxLocks
    BY BalanceAssumption
  <2>2. /\ v[k] = 0 - Minimum(missing, Count(k)) /\ v[k - 1] = 0 - Minimum(missing, Count(k - 1))
        /\ out[k] = IF Gives(first, k) /\ Count(k - 1) < missing THEN 1 ELSE 0
    BY <2>1
  <2>3. Count(k) \in Nat /\ Count(k - 1) \in Nat
    BY <1>1, <2>1
  <2>4. Count(k) = Count(k - 1) + (IF Gives(first, k) THEN 1 ELSE 0)
    BY <1>1
  <2> HIDE DEF Count, v, out
  <2> QED BY <2>2, <2>3, <2>4 DEF Minimum
<1>5. v[0] = 0 /\ v[MaxLocks] = 0 - missing /\ \A k \in 0 .. MaxLocks : v[k] \in Int
  <2>1. \A k \in 0 .. MaxLocks : v[k] = 0 - Minimum(missing, Count(k))
    OBVIOUS
  <2>2. 0 \in 0 .. MaxLocks /\ MaxLocks \in 0 .. MaxLocks /\ missing <= Count(MaxLocks)
    BY BalanceAssumption
  <2> HIDE DEF Count, v
  <2> QED BY <1>1, <2>1, <2>2 DEF Minimum
<1>6. out \in [1 .. MaxLocks -> Int]
  <2> HIDE DEF Count
  <2> QED OBVIOUS
<1>7. f \in [1 .. MaxLocks -> Int] /\ h \in [1 .. MaxLocks -> Int]
  BY <1>2, AmountsType
<1>8. LockedByType(first, "vesting") = Total(f, MaxLocks) /\ LockedByType(second, "vesting") = Total(h, MaxLocks)
  BY DEF LockedByType, AmountsOf
<1> HIDE DEF v, out, f, h
<1>9. Total(out, MaxLocks) = missing
  <2>1. Total(out, MaxLocks) = v[0] - v[MaxLocks]
    BY <1>4, <1>5, <1>6, TotalOfDifferences, BalanceAssumption
  <2> QED BY <1>5, <2>1
<1>10. Total(f, MaxLocks) = Total(h, MaxLocks) + Total(out, MaxLocks)
  BY <1>3, <1>6, <1>7, TotalOfSum, BalanceAssumption
<1>11. Total(h, MaxLocks) \in Int
  BY <1>7, TotalType, BalanceAssumption
<1> QED BY <1>8, <1>9, <1>10, <1>11

\* What the first pass leaves to the second: not below 0, and no more than the locks that
\* still hold something can give one unit each.
LEMMA FirstPassTotal ==
  ASSUME NEW ls \in Locks, \A i \in Slots : Within(ls[i]),
         NEW vested \in Nat \ {0}, vested = LockedByType(ls, "vesting"),
         NEW exceeded \in 0 .. vested,
         NEW first, first = FirstPass(ls, exceeded, vested),
         NEW missing, missing = exceeded - (vested - LockedByType(first, "vesting"))
  PROVE  missing \in Nat /\ missing <= Cardinality(Givers(first, MaxLocks))
<1> DEFINE f       == AmountsOf(ls, "vesting")
           h       == AmountsOf(first, "vesting")
           share   == [k \in 1 .. MaxLocks |-> f[k] - h[k]]
           product == [k \in 1 .. MaxLocks |-> exceeded * f[k]]
           whole   == [k \in 1 .. MaxLocks |-> vested * share[k]]
           rest    == [k \in 1 .. MaxLocks |-> product[k] - whole[k]]
           gives   == [k \in 1 .. MaxLocks |-> IF Gives(first, k) THEN 1 ELSE 0]
           most    == [k \in 1 .. MaxLocks |-> vested * gives[k]]
           zero    == [k \in 1 .. MaxLocks |-> 0]
           count   == Cardinality(Givers(first, MaxLocks))
<1>1. first \in Locks
  <2>1. exceeded \in Int /\ vested \in Int
    OBVIOUS
  <2> QED BY <2>1, FirstPassEffect
<1>2. /\ f \in [1 .. MaxLocks -> Int] /\ h \in [1 .. MaxLocks -> Int]
      /\ vested = Total(f, MaxLocks) /\ LockedByType(first, "vesting") = Total(h, MaxLocks)
  <2>1. /\ LockedByType(ls, "vesting") = Total(f, MaxLocks)
        /\ LockedByType(first, "vesting") = Total(h, MaxLocks)
    BY DEF LockedByType, AmountsOf
  <2> QED BY <1>1, <2>1, AmountsType
\* One lock: its share, what is rounded off, and what it keeps.
<1>3. ASSUME NEW k \in 1 .. MaxLocks
      PROVE  /\ vested * (f[k] - h[k]) <= exceeded * f[k]
             /\ exceeded * f[k] - vested * (f[k] - h[k]) <= vested * (IF Gives(first, k) THEN 1 ELSE 0)
  <2> DEFINE old == ls[k]
             new == first[k]
             l   == old.locked
             s   == (exceeded * l) \div vested
             x   == l - s
  <2>1. k \in Slots /\ old \in Lock \union {NoLock} /\ l \in Int /\ l >= 0
    BY LockTypes DEF Locks, Slots, Within
  <2>2. f[k] = AmountAs(old, "vesting") /\ h[k] = AmountAs(new, "vesting")
    BY <2>1 DEF AmountsOf
  <2>3. CASE old.type = "vesting"
    <3>1. old \in VestingLock /\ l \in Nat
      BY <2>1, <2>3, LockTypes
    <3>2. exceeded * l \in Nat /\ s \in 0 .. l /\ FloorOfQuotient(exceeded * l, vested) = s
      <4>1. exceeded * l \in Nat
        BY <3>1
      <4> QED BY <3>1, <4>1, ShareOfLock
    <3>3. vested * s <= exceeded * l /\ exceeded * l < vested * s + vested
      <4> DEFINE product2 == exceeded * l
      <4>1. product2 \in Nat
        BY <3>2
      <4> HIDE DEF product2
      <4>2. /\ vested * (product2 \div vested) <= product2
            /\ product2 < vested * (product2 \div vested) + vested
        BY <4>1, QuotientBounds
      <4> QED BY <4>2 DEF product2
    <3>4. new = [old EXCEPT !.locked = x]
      BY <2>1, <2>3, <3>2, Zenon DEF FirstPass
    <3> HIDE DEF s
    <3>5. x \in Int /\ x = l - s /\ s \in Int /\ s >= 0 /\ s <= l
      BY <3>1, <3>2
    <3> HIDE DEF x
    <3>6. new.type = "vesting" /\ new.locked = x
      <4> DEFINE updated == [old EXCEPT !.locked = x]
      <4> HIDE DEF old
      <4>1. updated.type = "vesting" /\ updated.locked = x
        BY <3>1, <3>5, VestingFields
      <4> HIDE DEF new, updated
      <4> QED BY <3>4, <4>1, Zenon DEF updated
    <3>7. f[k] = l /\ h[k] = x
      BY <2>2, <2>3, <3>6 DEF AmountAs
    <3>8. Gives(first, k) <=> x > 0
      BY <3>6 DEF Gives
    <3> HIDE DEF new, f, h, l
    <3>9. f[k] - h[k] = s
      BY <3>1, <3>5, <3>7
    <3>10. CASE x > 0
      <4> DEFINE w == vested * s
                 p == exceeded * l
      <4>1. vested * 1 = vested /\ w \in Int /\ p \in Int
        BY <3>1, <3>5, ProductIsInt
      <4>2. w <= p /\ p < w + vested
        BY <3>3
      <4>3. vested * (f[k] - h[k]) = w /\ exceeded * f[k] = p
        BY <3>7, <3>9
      <4>4. vested * (IF Gives(first, k) THEN 1 ELSE 0) = vested
        BY <3>8, <3>10, <4>1
      <4> HIDE DEF w, p
      <4> QED BY <4>1, <4>2, <4>3, <4>4
    <3>11. CASE ~ (x > 0)
      <4>1. s = l
        BY <3>1, <3>5, <3>11
      <4>2. exceeded * l <= vested * l
        <5>1. l * exceeded <= l * vested
          BY <3>1, ProductMonotone
        <5> QED BY <3>1, <5>1
      <4>3. vested * 0 = 0 /\ vested * s \in Int /\ exceeded * l \in Int
        BY <3>1, <3>5, ProductIsInt
      <4> QED BY <3>3, <3>7, <3>8, <3>9, <3>11, <4>1, <4>2, <4>3
    <3> QED BY <3>10, <3>11
  <2>4. CASE old.type # "vesting"
    <3>1. new = old
      BY <2>1, <2>4 DEF FirstPass
    <3>2. f[k] = 0 /\ h[k] = 0 /\ ~ Gives(first, k)
      BY <2>2, <2>4, <3>1 DEF AmountAs, Gives
    <3> HIDE DEF f, h
    <3> QED BY <3>2
  <2> QED BY <2>3, <2>4
<1> HIDE DEF f, h
<1>4. /\ share \in [1 .. MaxLocks -> Int] /\ gives \in [1 .. MaxLocks -> Int]
      /\ zero \in [1 .. MaxLocks -> Int]
  BY <1>2
<1>5. product \in [1 .. MaxLocks -> Int]
  BY <1>2, ProductIsInt
<1>6. whole \in [1 .. MaxLocks -> Int] /\ most \in [1 .. MaxLocks -> Int]
  <2> HIDE DEF share, gives
  <2> QED BY <1>4, ProductIsInt
<1>7. rest \in [1 .. MaxLocks -> Int]
  <2> HIDE DEF product, whole
  <2> QED BY <1>5, <1>6
<1>8. /\ \A k \in 1 .. MaxLocks : f[k] = h[k] + share[k]
      /\ \A k \in 1 .. MaxLocks : product[k] = exceeded * f[k]
      /\ \A k \in 1 .. MaxLocks : whole[k] = vested * share[k]
      /\ \A k \in 1 .. MaxLocks : most[k] = vested * gives[k]
      /\ \A k \in 1 .. MaxLocks : zero[k] = 0
  BY <1>2
<1>9. \A k \in 1 .. MaxLocks : product[k] = whole[k] + rest[k]
  <2>1. \A k \in 1 .. MaxLocks : rest[k] = product[k] - whole[k]
    OBVIOUS
  <2> HIDE DEF product, whole, rest
  <2> QED BY <1>5, <1>6, <2>1
<1>10. \A k \in 1 .. MaxLocks : zero[k] <= rest[k] /\ rest[k] <= most[k]
  <2> SUFFICES ASSUME NEW k \in 1 .. MaxLocks PROVE 0 <= rest[k] /\ rest[k] <= most[k]
    OBVIOUS
  <2>1. /\ rest[k] = exceeded * f[k] - vested * (f[k] - h[k])
        /\ most[k] = vested * (IF Gives(first, k) THEN 1 ELSE 0)
    OBVIOUS
  <2>2. rest[k] \in Int /\ exceeded * f[k] \in Int /\ vested * (f[k] - h[k]) \in Int
    <3>1. f[k] \in Int /\ h[k] \in Int /\ f[k] - h[k] \in Int
      BY <1>2
    <3> HIDE DEF rest
    <3> QED BY <1>7, <3>1, ProductIsInt
  <2>3. vested * (f[k] - h[k]) <= exceeded * f[k]
    BY <1>3
  <2>4. exceeded * f[k] - vested * (f[k] - h[k]) <= most[k]
    <3> HIDE DEF most
    <3> QED BY <1>3, <2>1
  <2> HIDE DEF rest, most
  <2> DEFINE p == exceeded * f[k]
             w == vested * (f[k] - h[k])
  <2>5. rest[k] = p - w /\ p \in Int /\ w \in Int /\ w <= p /\ p - w <= most[k]
    BY <2>1, <2>2, <2>3, <2>4
  <2> HIDE DEF p, w
  <2> QED BY <2>5
<1>11. Total(gives, MaxLocks) = count
  <2> DEFINE v == [k \in 0 .. MaxLocks |-> 0 - Cardinality(Givers(first, k))]
  <2>1. \A k \in 0 .. MaxLocks : Cardinality(Givers(first, k)) \in Nat
    <3>1. \A k \in 0 .. MaxLocks : k \in Nat
      OBVIOUS
    <3> QED BY <3>1, GiversCount, Zenon
  <2>2. \A k \in 0 .. MaxLocks : v[k] \in Int
    BY <2>1
  <2>3. \A k \in 1 .. MaxLocks : gives[k] = v[k - 1] - v[k]
    <3> SUFFICES ASSUME NEW k \in 1 .. MaxLocks PROVE gives[k] = v[k - 1] - v[k]
      OBVIOUS
    <3>1. k \in Nat \ {0} /\ k \in 0 .. MaxLocks /\ k - 1 \in 0 .. MaxLocks
      BY BalanceAssumption
    <3>2. Cardinality(Givers(first, k)) =
            Cardinality(Givers(first, k - 1)) + (IF Gives(first, k) THEN 1 ELSE 0)
      BY <3>1, GiversCount, Zenon
    <3>3. gives[k] = IF Gives(first, k) THEN 1 ELSE 0
      OBVIOUS
    <3> HIDE DEF gives
    <3> QED BY <2>1, <3>1, <3>2, <3>3
  <2>4. v[0] = 0 /\ v[MaxLocks] = 0 - count /\ count \in Nat
    <3>1. 0 \in 0 .. MaxLocks /\ MaxLocks \in 0 .. MaxLocks
      BY BalanceAssumption
    <3>2. Cardinality(Givers(first, 0)) = 0
      BY GiversCount
    <3> QED BY <2>1, <3>1, <3>2
  <2> HIDE DEF v, gives, count
  <2>5. Total(gives, MaxLocks) = v[0] - v[MaxLocks]
    BY <1>4, <2>2, <2>3, TotalOfDifferences, BalanceAssumption
  <2> QED BY <2>4, <2>5
<1> HIDE DEF share, product, whole, rest, gives, most, zero, count
<1> DEFINE taken == Total(share, MaxLocks)
           Rest  == Total(rest, MaxLocks)
<1>12. vested = LockedByType(first, "vesting") + taken /\ taken \in Int
  <2>1. Total(f, MaxLocks) = Total(h, MaxLocks) + taken
    BY <1>2, <1>4, <1>8, TotalOfSum, BalanceAssumption
  <2> QED BY <1>2, <1>4, <2>1, TotalType, BalanceAssumption
<1>13. exceeded * vested = vested * taken + Rest
  <2>1. Total(product, MaxLocks) = exceeded * Total(f, MaxLocks)
    <3>1. exceeded \in Int
      OBVIOUS
    <3> QED BY <1>2, <1>5, <1>8, <3>1, TotalOfMultiples, BalanceAssumption
  <2>2. Total(whole, MaxLocks) = vested * taken
    <3>1. vested \in Int
      OBVIOUS
    <3> QED BY <1>4, <1>6, <1>8, <3>1, TotalOfMultiples, BalanceAssumption
  <2>3. Total(product, MaxLocks) = Total(whole, MaxLocks) + Rest
    BY <1>5, <1>6, <1>7, <1>9, TotalOfSum, BalanceAssumption
  <2> HIDE DEF taken, Rest
  <2> QED BY <1>2, <2>1, <2>2, <2>3
<1>14. 0 <= Rest /\ Rest <= vested * count /\ Rest \in Int /\ count \in Int
  <2>1. Total(zero, MaxLocks) = 0 /\ Total(zero, MaxLocks) <= Rest
    BY <1>4, <1>7, <1>8, <1>10, TotalOfZeros, TotalMonotone, BalanceAssumption
  <2>2. Rest <= Total(most, MaxLocks)
    BY <1>6, <1>7, <1>10, TotalMonotone, BalanceAssumption
  <2>3. Total(most, MaxLocks) = vested * Total(gives, MaxLocks)
    <3>1. vested \in Int
      OBVIOUS
    <3> QED BY <1>4, <1>6, <1>8, <3>1, TotalOfMultiples, BalanceAssumption
  <2>4. Rest \in Int /\ Total(gives, MaxLocks) \in Int
    BY <1>4, <1>7, TotalType, BalanceAssumption
  <2> HIDE DEF Rest
  <2> QED BY <1>11, <2>1, <2>2, <2>3, <2>4
<1>15. missing = exceeded - taken /\ missing \in Int
  <2>1. LockedByType(first, "vesting") \in Int
    BY <1>1, LockedByTypeType
  <2> HIDE DEF taken
  <2> QED BY <1>12, <2>1
<1> HIDE DEF taken, Rest
<1>16. vested * missing = Rest
  <2>1. exceeded = taken + missing
    BY <1>12, <1>15
  <2>2. vested * (taken + missing) = vested * taken + vested * missing
    BY <1>12, <1>15, Distribute
  <2>3. exceeded * vested = vested * exceeded
    OBVIOUS
  <2>4. vested * taken \in Int /\ vested * missing \in Int
    BY <1>12, <1>15, ProductIsInt
  <2>5. vested * taken + vested * missing = vested * taken + Rest
    BY <1>13, <2>1, <2>2, <2>3
  <2> QED BY <1>14, <2>4, <2>5
<1>17. 0 <= missing
  <2>1. vested * 0 <= vested * missing
    BY <1>14, <1>16
  <2> QED BY <1>15, <2>1, CancelFactor
<1>18. missing <= count
  <2>1. vested * missing <= vested * count
    BY <1>14, <1>16
  <2> QED BY <1>14, <1>15, <2>1, CancelFactor
<1> QED BY <1>15, <1>17, <1>18 DEF count

\* adjustVesting leaves what was vested, or the whole balance if that is less.
LEMMA AdjustVestingTotal ==
  ASSUME NEW ls \in Locks, NEW bal \in Nat, \A i \in Slots : Within(ls[i])
  PROVE  LockedByType(AdjustVesting(ls, bal), "vesting") = Minimum(LockedByType(ls, "vesting"), bal)
<1> DEFINE vested   == LockedByType(ls, "vesting")
           exceeded == vested - bal
           first    == FirstPass(ls, exceeded, vested)
           missing  == exceeded - (vested - LockedByType(first, "vesting"))
           second   == SecondPass(first, missing)
           ms       == RemoveExpired(second, "vesting")
<1>1. AdjustVesting(ls, bal) = IF exceeded > 0 THEN ms ELSE ls
  BY DEF AdjustVesting
<1>2. vested \in Int
  BY LockedByTypeType
<1>3. CASE exceeded > 0
  <2>1. vested \in Nat \ {0} /\ exceeded \in 0 .. vested /\ exceeded \in Int
    BY <1>2, <1>3
  <2>2. first \in Locks
    BY <1>2, <2>1, FirstPassEffect
  <2>3. missing \in Nat /\ missing <= Cardinality(Givers(first, MaxLocks))
    BY <2>1, FirstPassTotal
  <2>4. LockedByType(first, "vesting") \in Int
    BY <2>2, LockedByTypeType
  <2> HIDE DEF first
  <2> DEFINE m == missing
  <2>5. m \in Nat /\ m <= Cardinality(Givers(first, MaxLocks)) /\ second = SecondPass(first, m)
    BY <2>3
  <2> HIDE DEF m, second
  <2>6. /\ second \in Locks
        /\ LockedByType(second, "vesting") = LockedByType(first, "vesting") - m
    BY <2>2, <2>5, SecondPassEffect, SecondPassTotal
  <2>7. LockedByType(ms, "vesting") = LockedByType(second, "vesting")
    BY <2>6, RemoveExpiredKeeps
  <2>8. m = exceeded - (vested - LockedByType(first, "vesting"))
    BY DEF m
  <2> HIDE DEF vested, ms
  <2>9. LockedByType(ms, "vesting") = bal
    BY <1>2, <2>4, <2>6, <2>7, <2>8
  <2> QED BY <1>1, <1>2, <1>3, <2>9 DEF Minimum, vested
<1>4. CASE ~ (exceeded > 0)
  <2> HIDE DEF ms
  <2> QED BY <1>1, <1>2, <1>4 DEF Minimum
<1> QED BY <1>3, <1>4

\* A slash touches stakes only, and what it takes is not negative.
LEMMA SlashedVesting ==
  ASSUME NEW ls \in Locks, NEW ts \in Nat
  PROVE  /\ LockedByType(Slashed(ls, ts), "vesting") = LockedByType(ls, "vesting")
         /\ TotalSlashed(ls, ts) >= 0
<1> DEFINE ms   == Slashed(ls, ts)
           cut  == [i \in Slots |-> IF i \in SlashesDue(ls, ts) THEN ls[i].slashAmount ELSE 0]
           zero == [i \in 1 .. MaxLocks |-> 0]
<1>1. ASSUME NEW i \in Slots
      PROVE  /\ AmountsOf(ms, "vesting")[i] = AmountsOf(ls, "vesting")[i]
             /\ cut[i] \in Int /\ cut[i] >= 0
  <2>1. CASE i \in SlashesDue(ls, ts)
    <3> DEFINE old == ls[i]
               new == AfterSlash(old)
    <3>1. old \in StakingLock /\ old.type = "staking" /\ old.slashAmount > 0 /\ cut[i] = old.slashAmount
      BY <2>1, LockTypes DEF SlashesDue, OfType, Locks
    <3>2. ms[i] = new
      BY <2>1 DEF Slashed
    <3>3. new.type = "staking"
      BY <3>1, AfterSlashFields
    <3>4. old.slashAmount \in Int
      BY <3>1 DEF StakingLock
    <3> HIDE DEF new, ms
    <3> QED BY <3>1, <3>2, <3>3, <3>4 DEF AmountsOf, AmountAs
  <2>2. CASE i \notin SlashesDue(ls, ts)
    <3>1. ms[i] = ls[i] /\ cut[i] = 0
      BY <2>2 DEF Slashed
    <3> HIDE DEF ms
    <3> QED BY <3>1 DEF AmountsOf
  <2> QED BY <2>1, <2>2
<1>2. LockedByType(ms, "vesting") = LockedByType(ls, "vesting")
  <2> HIDE DEF ms
  <2> QED BY <1>1, SameAmounts
<1>3. TotalSlashed(ls, ts) = Total(cut, MaxLocks)
  BY DEF TotalSlashed
<1>4. /\ cut \in [1 .. MaxLocks -> Int] /\ zero \in [1 .. MaxLocks -> Int]
      /\ \A k \in 1 .. MaxLocks : zero[k] = 0 /\ zero[k] <= cut[k]
  BY <1>1 DEF Slots
<1> HIDE DEF cut, zero
<1>5. Total(zero, MaxLocks) = 0 /\ Total(zero, MaxLocks) <= Total(cut, MaxLocks)
  BY <1>4, TotalOfZeros, TotalMonotone, BalanceAssumption
<1>6. Total(cut, MaxLocks) \in Int
  BY <1>4, TotalType, BalanceAssumption
<1> QED BY <1>2, <1>3, <1>5, <1>6

\* What a slash leaves vested, and what it leaves to spend.
LEMMA SlashFits ==
  ASSUME InOrder, ApplyNodeSlashing
  PROVE  /\ Vested' = Minimum(Vested, balance')
         /\ Spendable' <= Maximum(0, Spendable)
<1> DEFINE total    == TotalSlashed(locks, now)
           bal      == balance - total
           slashed  == Slashed(locks, now)
           adjusted == AdjustVesting(slashed, bal)
           last     == RemoveExpired(adjusted, "staking")
<1>1. /\ balance \in Int /\ locks \in Locks /\ now \in Nat /\ Covered(locks) <= balance
      /\ \A i \in Slots : Within(locks[i])
  BY InductiveAsCovered DEF InOrder, Inductive, TypeOK, Locks, AllWithin
<1>2. /\ slashed \in Locks /\ total \in Int /\ total >= 0
      /\ LockedByType(slashed, "escrow") = LockedByType(locks, "escrow")
      /\ LockedByType(slashed, "staking") = LockedByType(locks, "staking") - total
      /\ LockedByType(slashed, "vesting") = LockedByType(locks, "vesting")
  BY <1>1, SlashedEffect, SlashedVesting
<1>3. \A k \in Slots : Within(slashed[k])
  BY <1>1, SlashedKeeps DEF Keeps
<1>4. locks' = last /\ balance' = bal
  BY DEF ApplyNodeSlashing
<1> HIDE DEF slashed, total
<1>5. bal \in Nat
  <2>1. LockedByType(slashed, "escrow") \in Nat /\ LockedByType(slashed, "staking") \in Nat
    BY <1>2, <1>3, LockedByTypeIsNat
  <2>2. LockedByType(locks, "staking") \in Int
    BY <1>1, LockedByTypeType
  <2> QED BY <1>1, <1>2, <2>1, <2>2 DEF Covered
<1>6. balance' = balance - total
  BY <1>4
<1> HIDE DEF bal
<1>7. /\ adjusted \in Locks
      /\ LockedByType(adjusted, "escrow") = LockedByType(slashed, "escrow")
      /\ LockedByType(adjusted, "staking") = LockedByType(slashed, "staking")
      /\ LockedByType(adjusted, "vesting") = Minimum(LockedByType(slashed, "vesting"), bal)
  <2>1. bal \in Int
    BY <1>5
  <2> QED BY <1>2, <1>3, <1>5, <2>1, AdjustVestingEffect, AdjustVestingTotal
<1> HIDE DEF adjusted
<1>8. /\ LockedByType(last, "escrow") = LockedByType(adjusted, "escrow")
      /\ LockedByType(last, "staking") = LockedByType(adjusted, "staking")
      /\ LockedByType(last, "vesting") = LockedByType(adjusted, "vesting")
  BY <1>7, RemoveExpiredKeeps
<1> HIDE DEF last
<1>9. /\ Escrowed' = Escrowed /\ Staked' = Staked - total
      /\ Vested' = Minimum(Vested, balance')
  BY <1>2, <1>4, <1>7, <1>8 DEF Escrowed, Staked, Vested
<1>10. Escrowed \in Nat /\ Staked \in Nat /\ Vested \in Nat
  BY <1>1, LockedByTypeIsNat DEF Escrowed, Staked, Vested
<1>11. Staked + Escrowed <= balance
  BY <1>1 DEF Covered, Staked, Escrowed
<1>12. Spendable' = balance' - (Escrowed' + Maximum(Vested', Staked'))
  BY DEF Spendable
<1>13. Spendable = balance - (Escrowed + Maximum(Vested, Staked))
  BY DEF Spendable
<1>14. balance' - (Escrowed + Maximum(Minimum(Vested, balance'), Staked - total))
         <= Maximum(0, balance - (Escrowed + Maximum(Vested, Staked)))
  <2> DEFINE b == balance'
             e == Escrowed
             s == Staked
             w == Vested
  <2>1. /\ b \in Int /\ e \in Nat /\ s \in Nat /\ w \in Nat /\ total \in Nat
        /\ b = balance - total /\ s + e <= balance
    BY <1>1, <1>2, <1>4, <1>5, <1>6, <1>10, <1>11
  <2> HIDE DEF b, e, s, w
  <2>2. b - (e + Maximum(Minimum(w, b), s - total)) <= Maximum(0, balance - (e + Maximum(w, s)))
    BY <1>1, <2>1 DEF Maximum, Minimum
  <2> QED BY <2>2 DEF b, e, s, w
<1>15. Spendable' = balance' - (Escrowed + Maximum(Minimum(Vested, balance'), Staked - total))
  BY <1>9, <1>12, Zenon
<1> QED BY <1>9, <1>13, <1>14, <1>15, Zenon

\* The two rounding passes lose and gain no unit, for any number of vesting locks, any
\* amounts and any slash.
THEOREM SlashesFitVesting ==
  ASSUME ~ ("slashing" \in Features /\ "unstaking" \in Features)
  PROVE  Spec => SlashedVestingFits
<1>1. InOrder /\ [Next]_vars => [ApplyNodeSlashing => Vested' = Minimum(Vested, balance')]_vars
  BY SlashFits
<1>2. Init => InOrder
  BY InitInOrder
<1>3. InOrder /\ [Next]_vars => InOrder'
  BY NextInOrder
<1> QED BY <1>1, <1>2, <1>3, PTL DEF Spec, SlashedVestingFits

\* No slash makes tokens spendable.
THEOREM SlashesFreeNothing ==
  ASSUME ~ ("slashing" \in Features /\ "unstaking" \in Features)
  PROVE  Spec => SlashingFreesNothing
<1>1. InOrder /\ [Next]_vars => [ApplyNodeSlashing => Spendable' <= Maximum(0, Spendable)]_vars
  BY SlashFits
<1>2. Init => InOrder
  BY InitInOrder
<1>3. InOrder /\ [Next]_vars => InOrder'
  BY NextInOrder
<1> QED BY <1>1, <1>2, <1>3, PTL DEF Spec, SlashingFreesNothing
=============================================================================
