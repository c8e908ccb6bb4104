----------------------------- MODULE Delegation ------------------------------
(***************************************************************************)
(* DelegationManager of delegation.rs: delegators put amounts into the     *)
(* pools of validators, get rewards in proportion, move amounts between    *)
(* pools at once, or take them out after an unbonding period.  Every       *)
(* mutator takes &mut self, so a call is one step; but redelegate and      *)
(* delegate change state before their last check, so a failing call may    *)
(* leave that change behind.                                               *)
(*                                                                         *)
(* The code computes proportions in floating point and cuts off the        *)
(* fraction, which for amounts below 2^53 is the integer division here up  *)
(* to rounding of exact results.  Receipt tokens are left out.             *)
(***************************************************************************)
EXTENDS ValidatorIds, Unbonding, Integers, Sequences, SequencesExt, FiniteSetsExt

CONSTANTS
  Delegators,
  Amounts,          \* amounts in calls
  PoolRewards,        \* amounts distributed to a pool
  MinDelegation,    \* MIN_DELEGATION_AMOUNT
  MaxDelegated,     \* MAX_DELEGATED_STAKE_PER_VALIDATOR
  Modulus,          \* 2^64: total_delegated wraps around
  MaxFunds,         \* bound on what delegators pay in and rewards add
  MaxUndelegations  \* bound on a pool's undelegation requests

ASSUME DelegationAssumption ==
  /\ Amounts \subseteq Nat /\ PoolRewards \subseteq Nat
  /\ MinDelegation \in Nat \ {0} /\ MaxDelegated \in Nat /\ Modulus \in Nat \ {0}
  /\ MaxFunds \in Nat /\ MaxUndelegations \in Nat

VARIABLES
  pools,            \* validator -> ValidatorDelegationInfo
  totalDelegated,   \* total_delegated of the manager
  funds             \* paid in by delegators and rewards, less what was paid out

delegationVars == <<pools, totalDelegated, funds>>

NewPool == [total |-> 0, isActive |-> TRUE, isJailed |-> FALSE, shares |-> << >>, requests |-> << >>]
Pool(v) == IF v \in DOMAIN pools THEN pools[v] ELSE NewPool
SetPool(v, pool) == pools' = [x \in DOMAIN pools \cup {v} |-> IF x = v THEN pool ELSE pools[x]]
ValidatorDelegatedStake(v) == Pool(v).total

DelegationInit == pools = << >> /\ totalDelegated = 0 /\ funds = 0

-----------------------------------------------------------------------------
(* add_delegation, to an existing share or a new one.                       *)
Accepts(pool, amount) ==
  pool.isActive /\ ~pool.isJailed /\ pool.total + amount =< MaxDelegated

Added(pool, d, amount) ==
  LET old == IF d \in DOMAIN pool.shares THEN pool.shares[d] ELSE [amount |-> 0, rewards |-> 0]
  IN  [pool EXCEPT !.total = @ + amount,
         !.shares = [x \in DOMAIN @ \cup {d} |->
                       IF x = d THEN [old EXCEPT !.amount = @ + amount] ELSE @[x]]]

(* A refused delegation leaves the pool behind that it looked up.           *)
Delegate(d, v, amount) ==
  /\ amount >= MinDelegation /\ funds + amount =< MaxFunds
  /\ IF Accepts(Pool(v), amount)
     THEN /\ SetPool(v, Added(Pool(v), d, amount))
          /\ totalDelegated' = (totalDelegated + amount) % Modulus
          /\ funds' = funds + amount
     ELSE SetPool(v, Pool(v)) /\ UNCHANGED <<totalDelegated, funds>>

HasShare(d, v, amount) ==
  v \in DOMAIN pools /\ d \in DOMAIN pools[v].shares /\ amount =< pools[v].shares[d].amount

(* The rewards that go with an amount taken out of a share: all with all.   *)
RewardShare(share, amount) ==
  IF amount = share.amount THEN share.rewards ELSE (share.rewards * amount) \div share.amount

(* Mutant: the rewards that are taken along stay as well. *)
TakenOutKeepsRewards(pool, d, amount) ==
  LET share == pool.shares[d]
      rest  == [share EXCEPT !.amount = @ - amount]
  IN  [pool EXCEPT !.total = @ - amount,
         !.shares = [x \in {y \in DOMAIN @ : y # d \/ rest.amount > 0} |->
                       IF x = d THEN rest ELSE @[x]]]

(* Mutant: the pool keeps its total. *)
TakenOutKeepsTotal(pool, d, amount) ==
  LET share == pool.shares[d]
      rest  == [amount |-> share.amount - amount,
                rewards |-> share.rewards - RewardShare(share, amount)]
  IN  [pool EXCEPT
         !.shares = [x \in {y \in DOMAIN @ : y # d \/ rest.amount > 0} |->
                       IF x = d THEN rest ELSE @[x]]]

(* Taking an amount out of a share; an empty share is removed.              *)
TakenOut(pool, d, amount) ==
  LET share == pool.shares[d]
      rest  == [amount |-> share.amount - amount,
                rewards |-> share.rewards - RewardShare(share, amount)]
  IN  [pool EXCEPT !.total = @ - amount,
         !.shares = [x \in {y \in DOMAIN @ : y # d \/ rest.amount > 0} |->
                       IF x = d THEN rest ELSE @[x]]]

Undelegate(d, v, amount) ==
  /\ HasShare(d, v, amount)
  /\ Len(pools[v].requests) < MaxUndelegations
  /\ LET request == [amount |-> amount, unbonded |-> FALSE,
                     rewards |-> RewardShare(pools[v].shares[d], amount)]
     IN  SetPool(v, [TakenOut(pools[v], d, amount) EXCEPT !.requests = Append(@, request)])
  /\ totalDelegated' = (totalDelegated - amount) % Modulus
  /\ UNCHANGED funds

(* The amount and its rewards leave one pool; only then are the least       *)
(* amount and the other pool's state and limit looked at.  If they refuse,  *)
(* the call fails and what was taken out is in no pool.                     *)
Redelegate(d, from, to, amount) ==
  /\ HasShare(d, from, amount)
  /\ LET moved == amount + RewardShare(pools[from].shares[d], amount)
         left  == [pools EXCEPT ![from] = TakenOut(@, d, amount)]
         goal  == IF to \in DOMAIN left THEN left[to] ELSE NewPool
     IN  pools' = IF moved < MinDelegation THEN left
                  ELSE [x \in DOMAIN left \cup {to} |->
                          IF x # to THEN left[x]
                          ELSE IF Accepts(goal, moved) THEN Added(goal, d, moved) ELSE goal]
  /\ UNCHANGED <<totalDelegated, funds>>

(* The unbonding period of a pool's oldest running request ends.            *)
UndelegationPeriodEnds(v) ==
  /\ v \in DOMAIN pools
  /\ \E i \in DOMAIN pools[v].requests :
       /\ ~pools[v].requests[i].unbonded
       /\ \A j \in 1..(i - 1) : pools[v].requests[j].unbonded
       /\ pools' = [pools EXCEPT ![v].requests[i].unbonded = TRUE]
  /\ UNCHANGED <<totalDelegated, funds>>

Return(requests) == FoldLeft(LAMBDA sum, r : sum + (r.amount + r.rewards), 0, requests)

ProcessUndelegations ==
  /\ pools' = [v \in DOMAIN pools |-> [pools[v] EXCEPT !.requests = Running(@)]]
  /\ funds' = funds - MapThenSumSet(LAMBDA v : Return(Due(pools[v].requests)), DOMAIN pools)
  /\ UNCHANGED totalDelegated

DistributeRewards(v, rewards) ==
  /\ v \in DOMAIN pools /\ pools[v].total > 0
  /\ funds + rewards =< MaxFunds
  /\ pools' = [pools EXCEPT ![v].shares =
                 [d \in DOMAIN @ |->
                    [amount |-> @[d].amount,
                     rewards |-> @[d].rewards + (rewards * @[d].amount) \div pools[v].total]]]
  /\ funds' = funds + rewards
  /\ UNCHANGED totalDelegated

SetValidatorActive(v, active) ==
  /\ v \in DOMAIN pools
  /\ pools' = [pools EXCEPT ![v].isActive = active]
  /\ UNCHANGED <<totalDelegated, funds>>

SetValidatorJailed(v, jailed) ==
  /\ v \in DOMAIN pools
  /\ pools' = [pools EXCEPT ![v].isJailed = jailed]
  /\ UNCHANGED <<totalDelegated, funds>>

DelegationNext ==
  \/ \E d \in Delegators, v \in Validators, amount \in Amounts :
       Delegate(d, v, amount) \/ Undelegate(d, v, amount)
  \/ \E d \in Delegators, from, to \in Validators, amount \in Amounts :
       Redelegate(d, from, to, amount)
  \/ \E v \in Validators : UndelegationPeriodEnds(v)
  \/ ProcessUndelegations
  \/ \E v \in Validators, rewards \in PoolRewards : DistributeRewards(v, rewards)
  \/ \E v \in Validators, flag \in BOOLEAN :
       SetValidatorActive(v, flag) \/ SetValidatorJailed(v, flag)

-----------------------------------------------------------------------------
PoolTotal(v) == MapThenSumSet(LAMBDA d : pools[v].shares[d].amount, DOMAIN pools[v].shares)

Value(pool) ==
  Return(pool.requests)
    + MapThenSumSet(LAMBDA d : pool.shares[d].amount + pool.shares[d].rewards, DOMAIN pool.shares)

(* Safety: through partial and failing moves between pools every pool's     *)
(* total is the sum of its shares, no share is empty, and no pool holds     *)
(* more than the limit, although rewards are moved in together with stake.  *)
PoolsAddUp ==
  \A v \in DOMAIN pools :
    /\ pools[v].total = PoolTotal(v) /\ pools[v].total =< MaxDelegated
    /\ \A d \in DOMAIN pools[v].shares : pools[v].shares[d].amount > 0

(* Safety: no sequence of calls owes delegators more than they paid in and  *)
(* were granted, with the fractions that each division cuts off; failing    *)
(* moves can only lose value.                                               *)
NoValueCreated ==
  MapThenSumSet(LAMBDA v : Value(pools[v]), DOMAIN pools) =< funds
=============================================================================
