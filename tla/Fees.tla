---------------------------------- MODULE Fees ----------------------------------
(* The gas of a microblock: what its sections take to store until the expiration of
   the chain, priced by the retention policy of the protocol, and what the scheme of
   its sealing signature costs.  Times are in ticks, Day of them make a day. *)
EXTENDS Integers, SequencesExt

CONSTANTS Day,               \* seconds of a day
          GasAtomsPerGas,    \* fractions of gas the storage cost is computed in
          RetentionPolicy,   \* tiers [maximumNumberOfDays, retentionRatio, dayDivisor]
          AdditionalCosts    \* per signature scheme, with the fixed cost

Tier == [maximumNumberOfDays : Nat \ {0}, retentionRatio : Nat, dayDivisor : Nat \ {0}]

\* Sorted when the calculator is made; no two tiers of one limit.
ASSUME FeesAssumption ==
    /\ Day \in Nat \ {0} /\ GasAtomsPerGas \in Nat \ {0}
    /\ RetentionPolicy \in Seq(Tier) /\ RetentionPolicy # <<>>
    /\ \A i, j \in DOMAIN RetentionPolicy :
         i < j => RetentionPolicy[i].maximumNumberOfDays < RetentionPolicy[j].maximumNumberOfDays

\* Math.round: half a day counts as one.
RoundedDays(ticks) == (2 * ticks + Day) \div (2 * Day)

\* An expiration of 0 is none: all the days the policy knows are paid for.
NumberOfDaysOfStorage(time, expiration) ==
    IF expiration > 0
    THEN LET days == RoundedDays(expiration - time) IN IF days > 1 THEN days ELSE 1
    ELSE Last(RetentionPolicy).maximumNumberOfDays

Smaller(a, b) == IF a < b THEN a ELSE b

\* One tier of getBreakdown: the days up to its limit that no tier before it had.
AddTier(acc, tier, base, numberOfDays) ==
    LET limit == Smaller(tier.maximumNumberOfDays, numberOfDays)
        policyDays == limit - acc.days
    IN [days |-> limit,
        cost |-> acc.cost + (base * policyDays * tier.retentionRatio) \div (1000 * tier.dayDivisor)]

\* The days and the cost after each tier; days beyond the last tier cost nothing.
CostsOf(base, numberOfDays) ==
    LET breakdown[i \in 0 .. Len(RetentionPolicy)] ==
          IF i = 0 THEN [days |-> 0, cost |-> 0]
          ELSE IF breakdown[i - 1].days < numberOfDays
               THEN AddTier(breakdown[i - 1], RetentionPolicy[i], base, numberOfDays)
               ELSE breakdown[i - 1]
    IN breakdown

StorageCost(base, numberOfDays) == CostsOf(base, numberOfDays)[Len(RetentionPolicy)].cost

\* GAS_PER_BYTE is 1.
ComputeGas(scheme, size, expiration, time) ==
    StorageCost(size * GasAtomsPerGas, NumberOfDaysOfStorage(time, expiration)) \div GasAtomsPerGas
    + AdditionalCosts[scheme]
================================================================================
