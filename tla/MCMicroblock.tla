----------------------------- MODULE MCMicroblock -----------------------------
(* Values for the runs of Microblock: two tiers, of one day and of two cheaper ones, and two
   schemes of different cost. *)
EXTENDS Microblock

MCPolicy == <<[maximumNumberOfDays |-> 1, retentionRatio |-> 3000, dayDivisor |-> 1],
              [maximumNumberOfDays |-> 3, retentionRatio |-> 2000, dayDivisor |-> 2]>>
MCCosts == [k \in Signers |-> IF k = "owner" THEN 1 ELSE 2]
================================================================================
