----------------------------- MODULE Watchdog -----------------------------
(***************************************************************************)
(* The vault's watchdog (bil-vault/watchdog): it scans the vault once a      *)
(* poll and tells a chat channel of issues that lasted too long.  What it    *)
(* remembers is in memory only.  Scans fail, posts get lost, the process is  *)
(* restarted.  Time is counted in polls.                                    *)
(***************************************************************************)
EXTENDS Naturals, FiniteSets

CONSTANTS Requests,      \* of controllers that opted in to auto-claim
          Positions,
          Maturity,      \* time at which every position matures
          PrincipalDelay,  \* from the approval of the principal to its payment
          ClaimGrace, MaturedGrace, StuckThreshold, Realert, Digest, DigestMinWait,
          FailuresBeforeAlert,
          MaxTime,       \* bound on the clock
          MaxFaults,     \* bound on failed scans, lost posts and restarts
          MaxSwitches    \* bound on pauses and changes of the keeper

ASSUME ConstantsAssumption ==
  /\ { Maturity, PrincipalDelay, ClaimGrace, MaturedGrace, StuckThreshold, Realert, Digest,
       DigestMinWait, FailuresBeforeAlert, MaxTime, MaxFaults, MaxSwitches } \subseteq Nat
  /\ Realert > 0 /\ FailuresBeforeAlert > 0

VARIABLES now, paused, claimRole, lowGas,
          request,       \* [Requests -> status]
          position,      \* [Positions -> [state, asked, approved, availableAt]]
          settledSince, readySince,  \* time by request or position, where known
          open,          \* time of the last alert by issue, for the open ones
          rpcFailures, rpcAlerted, lastDigest,
          up,            \* is a cycle due in this poll
          heard,         \* the issues the channel believes in, and "blind"
          lost,          \* times at which a post was lost
          faults, switches,
          owed           \* since which scan a request waited for its auto-claim throughout

chain == <<now, paused, claimRole, lowGas, request, position, switches>>
memory == <<settledSince, readySince, open, rpcFailures, rpcAlerted, lastDigest>>
vars == <<chain, memory, up, heard, lost, faults, owed>>

-----------------------------------------------------------------------------
(* What a scan reads, all of it at one block *)

\* Requests are settled in order, and queueHead passes each that is settled in full.
Window == { r \in Requests : request[r] \in {"pending", "partly"} }
Settled == { r \in Requests : request[r] \in {"partly", "settled"} }
Waiting == Settled \cap Window
Live == IF claimRole /\ ~paused THEN Waiting ELSE {}

Matured == { i \in Positions : position[i].state # "Redeemed" /\ now >= Maturity }
Late(i) == now - Maturity
Asking == {"YieldWithdrawalRequested", "PrincipalWithdrawalRequested"}
AwaitsApproval(i) == position[i].state \in Asking /\ ~position[i].approved
AwaitsDelay(i) == position[i].state = "PrincipalWithdrawalRequested"
                  /\ position[i].approved /\ now < position[i].availableAt
Ready == { i \in Matured : position[i].state # "Active" /\ ~AwaitsApproval(i) /\ ~AwaitsDelay(i) }
Slow == { i \in Matured : AwaitsApproval(i) /\ now - position[i].asked >= DigestMinWait }

\* Seeded fault: each scan starts the clock again.
SinceScan(since, seen) == [k \in seen |-> now]

Since(since, seen) == [k \in seen |-> IF k \in DOMAIN since THEN since[k] ELSE now]

\* claims and readies are the clocks as the scan leaves them.
Issues(claims, readies) ==
  (IF lowGas THEN {<<"keeper:gas", 0>>} ELSE {})
  \cup (IF paused THEN {<<"vault:paused", 0>>} ELSE {})
  \cup (IF ~claimRole /\ Waiting # {} THEN {<<"claim:disabled", 0>>} ELSE {})
  \cup { <<"claim", r>> : r \in { q \in Live : now - claims[q] >= ClaimGrace } }
  \cup { <<"ready", i>> : i \in { j \in Ready : ~paused /\ now - readies[j] >= ClaimGrace } }
  \cup { <<"pos", i>> : i \in { j \in Matured :
           \/ position[j].state = "Active" /\ ~paused /\ Late(j) >= MaturedGrace
           \/ Late(j) >= StuckThreshold /\ ~AwaitsApproval(j) } }

-----------------------------------------------------------------------------
(* A cycle.  Each post it makes may be lost, and nobody notices. *)

NewAlerts(issues) == { k \in issues : k \notin DOMAIN open \/ now - open[k] >= Realert }

\* Seeded fault: seeing an issue counts as alerting.
AlertedAtSight(issues) == [k \in issues |-> now]

Alerted(issues) == [k \in issues |-> IF k \in NewAlerts(issues) THEN now ELSE open[k]]

\* Seeded fault: an issue that clears in the cycle in which others come up is not reported.
ResolvedIfQuiet(issues) == IF NewAlerts(issues) = {} THEN DOMAIN open \ issues ELSE {}

Resolved(issues) == DOMAIN open \ issues

DigestDue == Slow # {} /\ now - lastDigest >= Digest

Cycle ==
  LET claims  == Since(settledSince, Live)
      readies == Since(readySince, Ready)
      issues  == Issues(claims, readies)
      fire    == NewAlerts(issues)
      over    == Resolved(issues)
      posts   == { "recovered" : x \in { b \in {rpcAlerted} : b } }
                 \cup { "alert" : x \in fire } \cup { "resolved" : x \in over }
                 \cup { "digest" : x \in { b \in {DigestDue} : b } }
  IN \E failed \in SUBSET posts :
       /\ faults + Cardinality(failed) =< MaxFaults
       /\ faults' = faults + Cardinality(failed)
       /\ settledSince' = claims /\ readySince' = readies
       /\ open' = Alerted(issues)
       /\ rpcFailures' = 0 /\ rpcAlerted' = FALSE
       /\ lastDigest' = IF DigestDue THEN now ELSE lastDigest
       /\ heard' = ((heard \cup (IF "alert" \in failed THEN {} ELSE fire))
                    \ (IF "resolved" \in failed THEN {} ELSE over))
                   \ (IF rpcAlerted /\ "recovered" \notin failed THEN {<<"blind", 0>>} ELSE {})
       /\ lost' = IF "alert" \in failed THEN lost \cup {now} ELSE lost
       /\ owed' = [r \in { q \in Settled : claimRole /\ ~paused } |->
                     IF r \in DOMAIN owed THEN owed[r] ELSE now]
       /\ up' = FALSE
       /\ UNCHANGED chain

\* The node does not answer; the first alert is the only one.
ScanFails ==
  LET blind == rpcFailures + 1 >= FailuresBeforeAlert /\ ~rpcAlerted IN
  \E failed \in IF blind THEN BOOLEAN ELSE {FALSE} :
    /\ faults + (IF failed THEN 2 ELSE 1) =< MaxFaults
    /\ faults' = faults + (IF failed THEN 2 ELSE 1)
    /\ rpcFailures' = rpcFailures + 1
    /\ rpcAlerted' = (rpcAlerted \/ blind)
    /\ heard' = IF blind /\ ~failed THEN heard \cup {<<"blind", 0>>} ELSE heard
    /\ up' = FALSE
    /\ UNCHANGED <<chain, settledSince, readySince, open, lastDigest, lost, owed>>

None == [k \in {} |-> 0]

Restart ==
  /\ faults < MaxFaults /\ faults' = faults + 1
  /\ settledSince' = None /\ readySince' = None /\ open' = None /\ owed' = None
  /\ rpcFailures' = 0 /\ rpcAlerted' = FALSE /\ lastDigest' = 0
  /\ UNCHANGED <<chain, up, heard, lost>>

-----------------------------------------------------------------------------
(* The vault, its keeper and Decentral *)

Watch == <<memory, heard, lost, faults>>
Forget(rs) == owed' = [r \in DOMAIN owed \ rs |-> owed[r]]

\* A settlement reaches the first request that is not settled yet.
Settle(r) ==
  /\ request[r] \in {"pending", "partly"} /\ ~paused
  /\ \A q \in Requests : q < r => request[q] \in {"settled", "claimed"}
  /\ \E status \in {"partly", "settled"} : request' = [request EXCEPT ![r] = status]
  /\ UNCHANGED <<now, paused, claimRole, lowGas, position, switches, up, owed, Watch>>

Claim(r) ==
  /\ r \in Settled /\ ~paused
  /\ request' = [request EXCEPT ![r] = IF @ = "settled" THEN "claimed" ELSE "pending"]
  /\ Forget({r})
  /\ UNCHANGED <<now, paused, claimRole, lowGas, position, switches, up, Watch>>

Switch ==
  /\ switches < MaxSwitches /\ switches' = switches + 1
  /\ \/ paused' = ~paused /\ UNCHANGED <<claimRole, lowGas>>
     \/ claimRole' = ~claimRole /\ UNCHANGED <<paused, lowGas>>
     \/ lowGas' = ~lowGas /\ UNCHANGED <<paused, claimRole>>
  /\ IF paused' \/ ~claimRole' THEN Forget(Requests) ELSE UNCHANGED owed
  /\ UNCHANGED <<now, request, position, up, Watch>>

NextState == [Active |-> "YieldWithdrawalRequested", YieldWithdrawalRequested |-> "YieldClaimed",
              YieldClaimed |-> "PrincipalWithdrawalRequested",
              PrincipalWithdrawalRequested |-> "Redeemed"]

\* The keeper pokes a position.
Poke(i) ==
  /\ i \in Matured /\ ~paused /\ (position[i].state = "Active" \/ i \in Ready)
  /\ position' = [position EXCEPT ![i] = [state |-> NextState[position[i].state], asked |-> now,
                                          approved |-> FALSE, availableAt |-> 0]]
  /\ UNCHANGED <<now, paused, claimRole, lowGas, request, switches, up, owed, Watch>>

Approve(i) ==
  /\ AwaitsApproval(i)
  /\ position' = [position EXCEPT ![i].approved = TRUE, ![i].availableAt = now + PrincipalDelay]
  /\ UNCHANGED <<now, paused, claimRole, lowGas, request, switches, up, owed, Watch>>

\* Cycles are serialised, one in each poll.
Tick ==
  /\ ~up /\ now < MaxTime
  /\ now' = now + 1 /\ up' = TRUE
  /\ UNCHANGED <<paused, claimRole, lowGas, request, position, switches, owed, Watch>>

\* Timestamps are far from 0, where the time of the last digest starts.
Init ==
  /\ now = Digest /\ paused = FALSE /\ claimRole = TRUE /\ lowGas = FALSE
  /\ request = [r \in Requests |-> "pending"]
  /\ position = [i \in Positions |-> [state |-> "Active", asked |-> 0, approved |-> FALSE,
                                      availableAt |-> 0]]
  /\ settledSince = None /\ readySince = None /\ open = None /\ owed = None
  /\ rpcFailures = 0 /\ rpcAlerted = FALSE /\ lastDigest = 0
  /\ up = TRUE /\ heard = {} /\ lost = {} /\ faults = 0 /\ switches = 0

Next ==
  \/ up /\ (Cycle \/ ScanFails)
  \/ Restart \/ Switch \/ Tick
  \/ \E r \in Requests : Settle(r) \/ Claim(r)
  \/ \E i \in Positions : Poke(i) \/ Approve(i)

Spec == Init /\ [][Next]_vars

-----------------------------------------------------------------------------
(* Properties *)

\* As long as nothing got lost, the channel believes exactly what is open, and
\* that the watchdog is blind exactly when it is (docker-stack.yml:12 "alerts
\* dedupe per issue ... and post a resolved when cleared").
ChannelAgrees ==
  lost = {} /\ faults = rpcFailures =>
    heard = DOMAIN open \cup (IF rpcAlerted THEN {<<"blind", 0>>} ELSE {})

\* An open issue the channel does not know of is one whose alert was lost, and the
\* next alert is less than REALERT_SECONDS away.
HeardOrRetried ==
  \A k \in DOMAIN open : k \notin heard =>
    open[k] \in lost /\ (~up /\ rpcFailures = 0 => now - open[k] < Realert)

\* A request that is settled in part, and whose controller has had something to be
\* claimed for at every moment of CLAIM_GRACE, is an open issue, however scans
\* failed meanwhile.
Overdue(r) == ~up /\ rpcFailures = 0 /\ now - owed[r] >= ClaimGrace
PartSettledRaised ==
  \A r \in DOMAIN owed : request[r] = "partly" /\ Overdue(r) => <<"claim", r>> \in DOMAIN open

\* docker-stack.yml:4: "an opted-in settled redemption stays unclaimed past
\* CLAIM_GRACE_MINUTES".
UnclaimedRaised == \A r \in DOMAIN owed : Overdue(r) => <<"claim", r>> \in DOMAIN open
=============================================================================
