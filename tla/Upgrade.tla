------------------------------- MODULE Upgrade -------------------------------
(***************************************************************************)
(* UpgradeManager of upgrade.rs.  Its methods take &self and every field   *)
(* has a lock of its own, so calls from several threads interleave between *)
(* the sections of a method; an action is one section.  A call is a record *)
(* of what it does and what it read before.  Proposals and votes are valid *)
(* ones of silver_core.  A vote declares the stake it counts with and      *)
(* nothing compares it with the stake of the validator; here all votes of  *)
(* a voter declare the same.                                               *)
(***************************************************************************)
EXTENDS Integers, FiniteSetsExt

CONSTANTS
  Proposals,
  Voters, VoteWeight(_),    \* the validators that vote and the stake their votes declare
  VotingDeadline(_),        \* last cycle in which votes on a proposal count
  ActivationCycle(_),       \* cycle in which a proposal is activated
  UpgradeStakes,            \* values of the total stake
  Calls,                    \* slots for calls under way at the same time
  Genesis,                  \* the first protocol version; others are their proposals
  Idle,
  LastCycle                 \* bound on the cycle

ASSUME UpgradeAssumption ==
  /\ UpgradeStakes \subseteq Nat /\ LastCycle \in Nat /\ Genesis \notin Proposals
  /\ Idle \notin [step : {"version", "flags", "clear"}, proposal : Proposals, at : Nat]
  /\ IsFiniteSet(Voters)
  /\ \A v \in Voters : VoteWeight(v) \in Nat
  /\ \A p \in Proposals : VotingDeadline(p) \in Nat /\ ActivationCycle(p) \in Nat

VARIABLES
  pendingProposals,    \* pending_proposals
  votingResults,       \* voting_results: proposal -> votes and total stake
  approvedUpgrades,    \* approved_upgrades: cycle -> proposal and its results
  protocolVersion,     \* current_version
  featureFlags,        \* feature_flags: the proposal they come from
  totalStake,          \* total_stake
  calls,               \* the calls under way
  cycle,               \* the cycle that callers pass in
  cast                 \* all votes that were ever cast: <<proposal, voter, approve>>

upgradeVars == <<pendingProposals, votingResults, approvedUpgrades, protocolVersion,
                 featureFlags, totalStake, calls, cycle, cast>>

UpgradeInit ==
  /\ pendingProposals = {} /\ votingResults = << >> /\ approvedUpgrades = << >>
  /\ protocolVersion = Genesis /\ featureFlags = Genesis
  /\ totalStake \in UpgradeStakes
  /\ calls = [c \in Calls |-> Idle]
  /\ cycle = 0 /\ cast = {}

-----------------------------------------------------------------------------
(* Mutant: every vote is an approval. *)
AllVotes(results) == DOMAIN results.votes

(* VotingResults of silver_core. *)
Approvals(results) == {v \in DOMAIN results.votes : results.votes[v]}
Reached(results) == MapThenSumSet(VoteWeight, Approvals(results)) * 3 > results.total * 2
With(f, key, value) == [x \in DOMAIN f \cup {key} |-> IF x = key THEN value ELSE f[x]]

IsVotingOpen(p) == cycle =< VotingDeadline(p)
At(c, step) == calls[c] # Idle /\ calls[c].step = step
To(c, call) == calls' = [calls EXCEPT ![c] = call]
Step(c, step) == To(c, [calls[c] EXCEPT !.step = step])
Done(c) == To(c, Idle)

Activating == \E c \in Calls : \E step \in {"version", "flags", "clear"} : At(c, step)

UpdateTotalStake(stake) ==
  /\ totalStake' = stake
  /\ UNCHANGED <<pendingProposals, votingResults, approvedUpgrades, protocolVersion,
                 featureFlags, calls, cycle, cast>>

(* submit_proposal: validate and look, insert, read the total stake, start  *)
(* the votes from none.                                                     *)
SubmitProposal(c, p) ==
  /\ calls[c] = Idle
  /\ cycle < VotingDeadline(p) /\ VotingDeadline(p) < ActivationCycle(p)
  /\ p \notin pendingProposals
  /\ To(c, [step |-> "insert", proposal |-> p])
  /\ UNCHANGED <<pendingProposals, votingResults, approvedUpgrades, protocolVersion,
                 featureFlags, totalStake, cycle, cast>>

InsertProposal(c) ==
  /\ At(c, "insert")
  /\ pendingProposals' = pendingProposals \cup {calls[c].proposal}
  /\ Step(c, "initialize")
  /\ UNCHANGED <<votingResults, approvedUpgrades, protocolVersion, featureFlags, totalStake,
                 cycle, cast>>

ReadTotalStake(c) ==
  /\ At(c, "initialize")
  /\ To(c, [step |-> "votes", proposal |-> calls[c].proposal, total |-> totalStake])
  /\ UNCHANGED <<pendingProposals, votingResults, approvedUpgrades, protocolVersion,
                 featureFlags, totalStake, cycle, cast>>

InitializeVotes(c) ==
  /\ At(c, "votes")
  /\ votingResults' =
       With(votingResults, calls[c].proposal, [votes |-> << >>, total |-> calls[c].total])
  /\ Done(c)
  /\ UNCHANGED <<pendingProposals, approvedUpgrades, protocolVersion, featureFlags, totalStake,
                 cycle, cast>>

(* cast_vote: look, then add the vote unless the voter has one. *)
CastVote(c, p, v, approve) ==
  /\ calls[c] = Idle
  /\ p \in pendingProposals /\ IsVotingOpen(p)
  /\ To(c, [step |-> "add", proposal |-> p, voter |-> v, approve |-> approve])
  /\ cast' = cast \cup {<<p, v, approve>>}
  /\ UNCHANGED <<pendingProposals, votingResults, approvedUpgrades, protocolVersion,
                 featureFlags, totalStake, cycle>>

WithVote(results, v, approve) ==
  IF v \in DOMAIN results.votes THEN results
  ELSE [results EXCEPT !.votes = With(@, v, approve)]

AddVote(c) ==
  /\ At(c, "add")
  /\ LET p == calls[c].proposal
     IN  IF p \in DOMAIN votingResults
         THEN votingResults' =
                [votingResults EXCEPT ![p] = WithVote(@, calls[c].voter, calls[c].approve)]
         ELSE UNCHANGED votingResults
  /\ Done(c)
  /\ UNCHANGED <<pendingProposals, approvedUpgrades, protocolVersion, featureFlags, totalStake,
                 cycle, cast>>

(* finalize_voting: look, copy the results, approve, take out of pending.   *)
FinalizeVoting(c, p) ==
  /\ calls[c] = Idle
  /\ p \in pendingProposals /\ ~IsVotingOpen(p)
  /\ To(c, [step |-> "results", proposal |-> p])
  /\ UNCHANGED <<pendingProposals, votingResults, approvedUpgrades, protocolVersion,
                 featureFlags, totalStake, cycle, cast>>

CopyResults(c) ==
  /\ At(c, "results")
  /\ LET p == calls[c].proposal
     IN  IF p \notin DOMAIN votingResults THEN Done(c)
         ELSE IF Reached(votingResults[p])
         THEN To(c, [step |-> "approve", proposal |-> p, results |-> votingResults[p]])
         ELSE To(c, [step |-> "remove", proposal |-> p])
  /\ UNCHANGED <<pendingProposals, votingResults, approvedUpgrades, protocolVersion,
                 featureFlags, totalStake, cycle, cast>>

(* A proposal for the same cycle that was approved before is replaced.      *)
ApproveUpgrade(c) ==
  /\ At(c, "approve")
  /\ approvedUpgrades' =
       With(approvedUpgrades, ActivationCycle(calls[c].proposal),
            [proposal |-> calls[c].proposal, results |-> calls[c].results])
  /\ To(c, [step |-> "remove", proposal |-> calls[c].proposal])
  /\ UNCHANGED <<pendingProposals, votingResults, protocolVersion, featureFlags, totalStake,
                 cycle, cast>>

RemoveProposal(c) ==
  /\ At(c, "remove")
  /\ pendingProposals' = pendingProposals \ {calls[c].proposal}
  /\ Done(c)
  /\ UNCHANGED <<votingResults, approvedUpgrades, protocolVersion, featureFlags, totalStake,
                 cycle, cast>>

(* activate_upgrade, called once at a time at the boundary to the current   *)
(* cycle: read the upgrade, set the version, set the flags, take it out of  *)
(* the approved ones.                                                       *)
ActivateUpgrade(c) ==
  /\ calls[c] = Idle /\ ~Activating /\ cycle \in DOMAIN approvedUpgrades
  /\ To(c, [step |-> "version", proposal |-> approvedUpgrades[cycle].proposal, at |-> cycle])
  /\ UNCHANGED <<pendingProposals, votingResults, approvedUpgrades, protocolVersion,
                 featureFlags, totalStake, cycle, cast>>

SetVersion(c) ==
  /\ At(c, "version")
  /\ protocolVersion' = calls[c].proposal
  /\ Step(c, "flags")
  /\ UNCHANGED <<pendingProposals, votingResults, approvedUpgrades, featureFlags, totalStake,
                 cycle, cast>>

SetFlags(c) ==
  /\ At(c, "flags")
  /\ featureFlags' = calls[c].proposal
  /\ Step(c, "clear")
  /\ UNCHANGED <<pendingProposals, votingResults, approvedUpgrades, protocolVersion, totalStake,
                 cycle, cast>>

ClearApproved(c) ==
  /\ At(c, "clear")
  /\ approvedUpgrades' = [n \in DOMAIN approvedUpgrades \ {calls[c].at} |-> approvedUpgrades[n]]
  /\ Done(c)
  /\ UNCHANGED <<pendingProposals, votingResults, protocolVersion, featureFlags, totalStake,
                 cycle, cast>>

(* A cycle ends.  Activation belongs to its boundary and is over by then.   *)
NextCycle ==
  /\ cycle < LastCycle
  /\ ~Activating
  /\ cycle' = cycle + 1
  /\ UNCHANGED <<pendingProposals, votingResults, approvedUpgrades, protocolVersion,
                 featureFlags, totalStake, calls, cast>>

UpgradeNext ==
  \/ \E stake \in UpgradeStakes : UpdateTotalStake(stake)
  \/ NextCycle
  \/ \E c \in Calls :
       \/ \E p \in Proposals : SubmitProposal(c, p) \/ FinalizeVoting(c, p)
       \/ \E p \in Proposals, v \in Voters, approve \in BOOLEAN : CastVote(c, p, v, approve)
       \/ InsertProposal(c) \/ ReadTotalStake(c) \/ InitializeVotes(c) \/ AddVote(c)
       \/ CopyResults(c) \/ ApproveUpgrade(c) \/ RemoveProposal(c)
       \/ ActivateUpgrade(c) \/ SetVersion(c) \/ SetFlags(c) \/ ClearApproved(c)

-----------------------------------------------------------------------------
(* Safety: with submissions, votes and finalizations between the sections   *)
(* of one another, an upgrade that is approved or active has the approval   *)
(* of a quorum of different voters, each of whom voted for it while voting  *)
(* was open; and but during an activation version and flags agree.          *)
UpgradesApproved ==
  /\ \A n \in DOMAIN approvedUpgrades :
       LET a == approvedUpgrades[n]
       IN  /\ Reached(a.results)
           /\ \A v \in Approvals(a.results) : <<a.proposal, v, TRUE>> \in cast
  /\ protocolVersion # Genesis =>
       \E stake \in UpgradeStakes :
         MapThenSumSet(VoteWeight, {v \in Voters : <<protocolVersion, v, TRUE>> \in cast}) * 3
           > stake * 2
  /\ ~Activating => protocolVersion = featureFlags
=============================================================================
