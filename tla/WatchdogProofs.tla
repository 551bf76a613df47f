--------------------------- MODULE WatchdogProofs ---------------------------
(***************************************************************************)
(* What the watchdog owes its channel, for any number of requests and      *)
(* positions, all delays and grace periods, and any number of faults.       *)
(*                                                                         *)
(* HeardOrRetried is inductive as it stands.  ChannelAgrees needs to know   *)
(* that a watchdog that told the channel it is blind has failed to scan     *)
(* (FailuresCounted), and PartSettledRaised, that a request whose claim is  *)
(* due has had its clock running since (ClockRuns).                        *)
(***************************************************************************)
EXTENDS Watchdog, FiniteSetTheorems, TLAPS

Statuses == {"pending", "partly", "settled", "claimed"}
Blind == <<"blind", 0>>
Believed == DOMAIN open \cup (IF rpcAlerted THEN {Blind} ELSE {})

\* Failed scans are faults, and the alert for them comes after one at the earliest.
FailuresCounted ==
  /\ rpcFailures \in Nat /\ faults \in Nat /\ rpcFailures <= faults
  /\ rpcAlerted \in BOOLEAN /\ (rpcAlerted => rpcFailures > 0)

\* What is owed is settled in whole or part, and for what is settled in part the
\* clock of the watchdog has run for as long.
ClockRuns ==
  \A r \in DOMAIN owed :
    /\ r \in Settled /\ claimRole /\ ~paused /\ owed[r] \in Nat
    /\ request[r] = "partly" =>
         r \in DOMAIN settledSince /\ settledSince[r] \in Nat /\ settledSince[r] <= owed[r]

IInv ==
  /\ now \in Nat
  /\ request \in [Requests -> Statuses]
  /\ \A r \in DOMAIN settledSince : settledSince[r] \in 0 .. now
  /\ \A k \in DOMAIN open : open[k] \in 0 .. now
  /\ FailuresCounted /\ ClockRuns
  /\ ChannelAgrees /\ HeardOrRetried /\ PartSettledRaised

\* Of the naturals a sum is zero only if each is, and the posts of a cycle are few.
LEMMA FailedPosts ==
  ASSUME NEW failed \in SUBSET {"recovered", "alert", "resolved", "digest"}
  PROVE  Cardinality(failed) \in Nat /\ (Cardinality(failed) = 0 => failed = {})
<1>1. IsFiniteSet({"recovered", "alert", "resolved", "digest"})
  <2>1. IsFiniteSet({} \cup {"recovered"} \cup {"alert"} \cup {"resolved"} \cup {"digest"})
    <3>1. IsFiniteSet({} \cup {"recovered"})
      BY FS_EmptySet, FS_AddElement
    <3>2. IsFiniteSet({} \cup {"recovered"} \cup {"alert"})
      BY <3>1, FS_AddElement
    <3>3. IsFiniteSet({} \cup {"recovered"} \cup {"alert"} \cup {"resolved"})
      BY <3>2, FS_AddElement
    <3> QED BY <3>3, FS_AddElement
  <2>2. {} \cup {"recovered"} \cup {"alert"} \cup {"resolved"} \cup {"digest"}
        = {"recovered", "alert", "resolved", "digest"}
    OBVIOUS
  <2> QED BY <2>1, <2>2
<1>2. IsFiniteSet(failed)
  BY <1>1, FS_Subset
<1> QED BY <1>2, FS_CardinalityType, FS_EmptySet

-----------------------------------------------------------------------------
(* A cycle *)

\* The clocks of a scan are kept or start now.
LEMMA SinceBounds ==
  ASSUME now \in Nat, NEW since, NEW seen, \A k \in DOMAIN since : since[k] \in 0 .. now
  PROVE  /\ DOMAIN Since(since, seen) = seen
         /\ \A k \in seen : /\ Since(since, seen)[k] \in 0 .. now
                            /\ k \in DOMAIN since => Since(since, seen)[k] = since[k]
BY DEF Since

\* That the watchdog is blind is no issue of the vault's.
LEMMA BlindIsNoIssue ==
  ASSUME NEW claims, NEW readies
  PROVE  Blind \notin Issues(claims, readies)
BY DEF Issues, Blind

\* What a cycle does to the channel, issue by issue.
LEMMA CycleEffect ==
  ASSUME IInv, Cycle
  PROVE  \E issues, failed :
           /\ failed \in SUBSET {"recovered", "alert", "resolved", "digest"}
           /\ issues = Issues(Since(settledSince, Live), Since(readySince, Ready))
           /\ faults' = faults + Cardinality(failed)
           /\ settledSince' = Since(settledSince, Live)
           /\ open' = Alerted(issues) /\ rpcFailures' = 0 /\ rpcAlerted' = FALSE
           /\ heard' = ((heard \cup (IF "alert" \in failed THEN {} ELSE NewAlerts(issues)))
                        \ (IF "resolved" \in failed THEN {} ELSE Resolved(issues)))
                       \ (IF rpcAlerted /\ "recovered" \notin failed THEN {Blind} ELSE {})
           /\ lost' = IF "alert" \in failed THEN lost \cup {now} ELSE lost
           /\ owed' = [r \in { q \in Settled : claimRole /\ ~paused } |->
                         IF r \in DOMAIN owed THEN owed[r] ELSE now]
           /\ up' = FALSE /\ UNCHANGED <<now, paused, claimRole, request>>
<1> DEFINE issues == Issues(Since(settledSince, Live), Since(readySince, Ready))
           posts == { "recovered" : x \in { b \in {rpcAlerted} : b } }
                    \cup { "alert" : x \in NewAlerts(issues) }
                    \cup { "resolved" : x \in Resolved(issues) }
                    \cup { "digest" : x \in { b \in {DigestDue} : b } }
<1>1. posts \subseteq {"recovered", "alert", "resolved", "digest"}
  <2> HIDE DEF issues
  <2> QED OBVIOUS
<1>2. PICK failed \in SUBSET posts :
        /\ faults' = faults + Cardinality(failed)
        /\ settledSince' = Since(settledSince, Live)
        /\ open' = Alerted(issues) /\ rpcFailures' = 0 /\ rpcAlerted' = FALSE
        /\ heard' = ((heard \cup (IF "alert" \in failed THEN {} ELSE NewAlerts(issues)))
                     \ (IF "resolved" \in failed THEN {} ELSE Resolved(issues)))
                    \ (IF rpcAlerted /\ "recovered" \notin failed THEN {<<"blind", 0>>} ELSE {})
        /\ lost' = IF "alert" \in failed THEN lost \cup {now} ELSE lost
        /\ owed' = [r \in { q \in Settled : claimRole /\ ~paused } |->
                      IF r \in DOMAIN owed THEN owed[r] ELSE now]
        /\ up' = FALSE /\ UNCHANGED <<now, paused, claimRole, request>>
  BY DEF Cycle, chain
<1> HIDE DEF issues, posts
<1>3. failed \in SUBSET {"recovered", "alert", "resolved", "digest"}
  BY <1>1
<1> QED BY <1>2, <1>3 DEF issues, Blind

\* The open issues are those of the scan, each with the time of its last alert.
LEMMA OpenAfterCycle ==
  ASSUME IInv, NEW issues
  PROVE  /\ DOMAIN Alerted(issues) = issues
         /\ \A k \in issues : Alerted(issues)[k] \in 0 .. now /\ now - Alerted(issues)[k] < Realert
         /\ \A k \in issues \ NewAlerts(issues) :
              k \in DOMAIN open /\ Alerted(issues)[k] = open[k]
         /\ \A k \in NewAlerts(issues) : Alerted(issues)[k] = now
         /\ NewAlerts(issues) \subseteq issues
         /\ issues = (DOMAIN open \cup NewAlerts(issues)) \ Resolved(issues)
<1>1. now \in Nat /\ Realert \in Nat /\ Realert > 0
  BY ConstantsAssumption DEF IInv
<1>2. DOMAIN Alerted(issues) = issues /\ NewAlerts(issues) \subseteq issues
  BY DEF Alerted, NewAlerts
<1>3. \A k \in NewAlerts(issues) : Alerted(issues)[k] = now
  BY <1>2 DEF Alerted
<1>4. \A k \in issues \ NewAlerts(issues) :
        /\ k \in DOMAIN open /\ Alerted(issues)[k] = open[k]
        /\ open[k] \in 0 .. now /\ ~(now - open[k] >= Realert)
  BY DEF Alerted, NewAlerts, IInv
<1>5. \A k \in issues : Alerted(issues)[k] \in 0 .. now /\ now - Alerted(issues)[k] < Realert
  BY <1>1, <1>3, <1>4
<1>6. issues = (DOMAIN open \cup NewAlerts(issues)) \ Resolved(issues)
  BY DEF NewAlerts, Resolved
<1> QED BY <1>2, <1>3, <1>4, <1>5, <1>6

LEMMA CycleKeepsIInv ==
  ASSUME IInv, Cycle
  PROVE  IInv'
<1>1. PICK issues, failed :
        /\ failed \in SUBSET {"recovered", "alert", "resolved", "digest"}
        /\ issues = Issues(Since(settledSince, Live), Since(readySince, Ready))
        /\ faults' = faults + Cardinality(failed)
        /\ settledSince' = Since(settledSince, Live)
        /\ open' = Alerted(issues) /\ rpcFailures' = 0 /\ rpcAlerted' = FALSE
        /\ heard' = ((heard \cup (IF "alert" \in failed THEN {} ELSE NewAlerts(issues)))
                     \ (IF "resolved" \in failed THEN {} ELSE Resolved(issues)))
                    \ (IF rpcAlerted /\ "recovered" \notin failed THEN {Blind} ELSE {})
        /\ lost' = IF "alert" \in failed THEN lost \cup {now} ELSE lost
        /\ owed' = [r \in { q \in Settled : claimRole /\ ~paused } |->
                      IF r \in DOMAIN owed THEN owed[r] ELSE now]
        /\ up' = FALSE /\ UNCHANGED <<now, paused, claimRole, request>>
  BY CycleEffect
<1>2. Cardinality(failed) \in Nat /\ (Cardinality(failed) = 0 => failed = {})
  BY <1>1, FailedPosts
<1>3. /\ DOMAIN open' = issues
      /\ \A k \in issues : open'[k] \in 0 .. now /\ now - open'[k] < Realert
      /\ \A k \in issues \ NewAlerts(issues) : k \in DOMAIN open /\ open'[k] = open[k]
      /\ \A k \in NewAlerts(issues) : open'[k] = now
      /\ NewAlerts(issues) \subseteq issues
      /\ issues = (DOMAIN open \cup NewAlerts(issues)) \ Resolved(issues)
  BY <1>1, OpenAfterCycle
<1>4. Blind \notin issues
  BY <1>1, BlindIsNoIssue
<1>5. /\ DOMAIN settledSince' = Live
      /\ \A r \in Live : /\ settledSince'[r] \in 0 .. now
                         /\ r \in DOMAIN settledSince => settledSince'[r] = settledSince[r]
  BY <1>1, SinceBounds DEF IInv
<1>6. FailuresCounted'
  <2>1. faults \in Nat
    BY DEF IInv, FailuresCounted
  <2>2. faults' \in Nat
    BY <1>1, <1>2, <2>1
  <2>3. rpcAlerted' \in BOOLEAN /\ ~rpcAlerted'
    BY <1>1
  <2>4. rpcFailures' \in Nat /\ rpcFailures' <= faults'
    BY <1>1, <2>2
  <2> QED BY <2>2, <2>3, <2>4 DEF FailuresCounted
<1>7. ChannelAgrees'
  <2> SUFFICES ASSUME lost' = {}, faults' = rpcFailures'
               PROVE  heard' = DOMAIN open' \cup (IF rpcAlerted' THEN {Blind} ELSE {})
    BY DEF ChannelAgrees, Blind
  <2>1. Cardinality(failed) = 0 /\ faults = 0 /\ rpcFailures = 0 /\ ~rpcAlerted
    <3>1. /\ rpcFailures \in Nat /\ faults \in Nat /\ rpcFailures <= faults
          /\ (rpcAlerted => rpcFailures > 0)
      BY DEF IInv, FailuresCounted
    <3>2. faults + Cardinality(failed) = 0
      BY <1>1
    <3>3. Cardinality(failed) = 0 /\ faults = 0
      BY <1>2, <3>1, <3>2
    <3>4. rpcFailures = 0
      BY <3>1, <3>3
    <3> QED BY <3>1, <3>3, <3>4
  <2>2. failed = {} /\ lost = {}
    BY <1>1, <1>2, <2>1
  <2>3. heard = DOMAIN open
    BY <2>1, <2>2 DEF IInv, ChannelAgrees
  <2>4. heard' = (DOMAIN open \cup NewAlerts(issues)) \ Resolved(issues)
    BY <1>1, <2>1, <2>2, <2>3
  <2> QED BY <1>1, <1>3, <2>4
<1>8. HeardOrRetried'
  <2> SUFFICES ASSUME NEW k \in issues, k \notin heard'
               PROVE  open'[k] \in lost' /\ now - open'[k] < Realert
    BY <1>1, <1>3 DEF HeardOrRetried
  <2>1. now - open'[k] < Realert
    BY <1>3
  <2>2. k # Blind /\ k \notin Resolved(issues)
    BY <1>3, <1>4
  <2>3. CASE k \in NewAlerts(issues)
    <3>1. "alert" \in failed
      BY <1>1, <2>2, <2>3
    <3> QED BY <1>1, <1>3, <2>1, <2>3, <3>1
  <2>4. CASE k \notin NewAlerts(issues)
    <3>1. k \notin heard
      BY <1>1, <2>2
    <3>2. k \in DOMAIN open /\ open'[k] = open[k]
      BY <1>3, <2>4
    <3>3. open[k] \in lost
      BY <3>1, <3>2 DEF IInv, HeardOrRetried
    <3> QED BY <1>1, <2>1, <3>2, <3>3
  <2> QED BY <2>3, <2>4
<1>9. \A r \in DOMAIN owed' :
        /\ r \in Settled' /\ claimRole' /\ ~paused' /\ owed'[r] \in Nat
        /\ request'[r] = "partly" =>
             r \in Live /\ settledSince'[r] \in Nat /\ settledSince'[r] <= owed'[r]
  <2> SUFFICES ASSUME NEW r \in DOMAIN owed'
               PROVE  /\ r \in Settled' /\ claimRole' /\ ~paused' /\ owed'[r] \in Nat
                      /\ request'[r] = "partly" =>
                           r \in Live /\ settledSince'[r] \in Nat /\ settledSince'[r] <= owed'[r]
    OBVIOUS
  <2>1. /\ r \in Settled /\ claimRole /\ ~paused
        /\ owed'[r] = IF r \in DOMAIN owed THEN owed[r] ELSE now
    BY <1>1
  <2>2. r \in Settled'
    BY <1>1, <2>1 DEF Settled
  <2>3. owed'[r] \in Nat
    BY <2>1 DEF IInv, ClockRuns
  <2>4. ASSUME request'[r] = "partly"
        PROVE  r \in Live /\ settledSince'[r] \in Nat /\ settledSince'[r] <= owed'[r]
    <3>1. r \in Live
      BY <1>1, <2>1, <2>4 DEF Live, Waiting, Window, Settled
    <3>2. settledSince'[r] \in 0 .. now /\ now \in Nat
      BY <1>5, <3>1 DEF IInv
    <3>3. CASE r \in DOMAIN owed
      <4>1. r \in DOMAIN settledSince /\ settledSince[r] <= owed[r]
        BY <1>1, <2>4, <3>3 DEF IInv, ClockRuns
      <4> QED BY <1>5, <2>1, <3>1, <3>2, <3>3, <4>1
    <3>4. CASE r \notin DOMAIN owed
      BY <2>1, <3>1, <3>2, <3>4
    <3> QED BY <3>3, <3>4
  <2> QED BY <1>1, <2>1, <2>2, <2>3, <2>4
<1>10. ClockRuns'
  BY <1>5, <1>9 DEF ClockRuns
<1>11. PartSettledRaised'
  <2> SUFFICES ASSUME NEW r \in DOMAIN owed', request'[r] = "partly", now - owed'[r] >= ClaimGrace
               PROVE  <<"claim", r>> \in issues
    BY <1>1, <1>3 DEF PartSettledRaised, Overdue
  <2>1. r \in Live /\ settledSince'[r] \in Nat /\ settledSince'[r] <= owed'[r] /\ owed'[r] \in Nat
    BY <1>9
  <2>2. now - settledSince'[r] >= ClaimGrace
    BY <2>1, ConstantsAssumption DEF IInv
  <2> QED BY <1>1, <2>1, <2>2 DEF Issues
<1> QED BY <1>1, <1>3, <1>5, <1>6, <1>7, <1>8, <1>10, <1>11 DEF IInv

-----------------------------------------------------------------------------
(* The other steps *)

LEMMA InitIInv == Init => IInv
<1> SUFFICES ASSUME Init PROVE IInv
  OBVIOUS
<1>1. now \in Nat
  BY ConstantsAssumption DEF Init
<1>2. request \in [Requests -> Statuses]
  BY DEF Init, Statuses
<1>3. DOMAIN open = {} /\ DOMAIN settledSince = {} /\ DOMAIN owed = {}
  BY DEF Init, None
<1>4. FailuresCounted
  <2>1. rpcAlerted \in BOOLEAN /\ ~rpcAlerted
    BY DEF Init
  <2>2. rpcFailures = 0 /\ faults = 0
    BY DEF Init
  <2> QED BY <2>1, <2>2 DEF FailuresCounted
<1>5. ChannelAgrees
  BY <1>3 DEF Init, ChannelAgrees
<1> QED BY <1>1, <1>2, <1>3, <1>4, <1>5 DEF IInv, ClockRuns, HeardOrRetried, PartSettledRaised

\* If a failed scan leaves no other faults than failed scans, it was just that.
LEMMA OneFailureMore ==
  ASSUME NEW f \in Nat, NEW r \in Nat, r <= f, NEW more \in {1, 2}, f + more = r + 1
  PROVE  more = 1 /\ f = r
OBVIOUS

LEMMA ScanFailsKeepsIInv ==
  ASSUME IInv, ScanFails
  PROVE  IInv'
<1> DEFINE blind == rpcFailures + 1 >= FailuresBeforeAlert /\ ~rpcAlerted
<1>1. PICK failed \in IF blind THEN BOOLEAN ELSE {FALSE} :
        /\ faults' = faults + (IF failed THEN 2 ELSE 1)
        /\ rpcFailures' = rpcFailures + 1
        /\ rpcAlerted' = (rpcAlerted \/ blind)
        /\ heard' = IF blind /\ ~failed THEN heard \cup {<<"blind", 0>>} ELSE heard
        /\ UNCHANGED <<now, paused, claimRole, request, settledSince, open, lost, owed>>
  BY DEF ScanFails, chain
<1>2. /\ rpcFailures \in Nat /\ faults \in Nat /\ rpcFailures <= faults /\ rpcAlerted \in BOOLEAN
      /\ now \in Nat
  BY DEF IInv, FailuresCounted
<1>3. faults' \in Nat /\ rpcFailures' \in Nat /\ rpcFailures' <= faults' /\ rpcFailures' > 0
  BY <1>1, <1>2
<1>4. FailuresCounted'
  BY <1>1, <1>2, <1>3 DEF FailuresCounted
<1>5. ChannelAgrees'
  <2> SUFFICES ASSUME lost' = {}, faults' = rpcFailures'
               PROVE  heard' = DOMAIN open' \cup (IF rpcAlerted' THEN {<<"blind", 0>>} ELSE {})
    BY DEF ChannelAgrees
  <2>1. ~failed /\ faults = rpcFailures
    <3> DEFINE more == IF failed THEN 2 ELSE 1
    <3>1. more \in {1, 2} /\ (more = 1 => ~failed)
      OBVIOUS
    <3>2. faults + more = rpcFailures + 1
      BY <1>1
    <3> HIDE DEF more
    <3>3. more = 1 /\ faults = rpcFailures
      BY <1>2, <3>1, <3>2, OneFailureMore
    <3> QED BY <3>1, <3>3
  <2>2. heard = DOMAIN open \cup (IF rpcAlerted THEN {<<"blind", 0>>} ELSE {})
    BY <1>1, <2>1 DEF IInv, ChannelAgrees
  <2> HIDE DEF blind
  <2> QED BY <1>1, <2>1, <2>2
<1>6. HeardOrRetried'
  BY <1>1, <1>3 DEF IInv, HeardOrRetried
<1>7. PartSettledRaised'
  BY <1>3 DEF PartSettledRaised, Overdue
<1>8. ClockRuns'
  BY <1>1 DEF IInv, ClockRuns, Settled
<1> QED BY <1>1, <1>2, <1>4, <1>5, <1>6, <1>7, <1>8 DEF IInv

LEMMA RestartKeepsIInv ==
  ASSUME IInv, Restart
  PROVE  IInv'
<1>1. DOMAIN open' = {} /\ DOMAIN settledSince' = {} /\ DOMAIN owed' = {}
  BY DEF Restart, None
<1>2. now' = now /\ request' = request
  BY DEF Restart, chain
<1>3. rpcFailures' = 0 /\ rpcAlerted' = FALSE /\ faults' \in Nat /\ faults' > 0
  BY DEF IInv, FailuresCounted, Restart
<1>4. FailuresCounted' /\ ChannelAgrees'
  <2>1. rpcAlerted' \in BOOLEAN /\ ~rpcAlerted'
    BY <1>3
  <2>2. rpcFailures' \in Nat /\ rpcFailures' <= faults' /\ faults' # rpcFailures'
    BY <1>3
  <2> QED BY <1>3, <2>1, <2>2 DEF FailuresCounted, ChannelAgrees
<1> QED BY <1>1, <1>2, <1>4 DEF IInv, ClockRuns, HeardOrRetried, PartSettledRaised

\* What happens on the chain, and a restart apart, leaves the memory of the watchdog and
\* the channel as they are.
LEMMA WatchKept ==
  ASSUME IInv, UNCHANGED Watch, now' \in Nat, now <= now'
  PROVE  /\ \A r \in DOMAIN settledSince' : settledSince'[r] \in 0 .. now'
         /\ \A k \in DOMAIN open' : open'[k] \in 0 .. now'
         /\ FailuresCounted' /\ ChannelAgrees'
         /\ up' \/ (now' = now /\ up' = up) => HeardOrRetried'
<1>1. UNCHANGED <<settledSince, open, rpcFailures, rpcAlerted, heard, lost, faults>>
  BY DEF Watch, memory
<1>2. FailuresCounted' /\ ChannelAgrees'
  BY <1>1 DEF IInv, FailuresCounted, ChannelAgrees
<1>3. ASSUME up' \/ (now' = now /\ up' = up)
      PROVE  HeardOrRetried'
  BY <1>1, <1>3 DEF IInv, HeardOrRetried
<1>4. now \in Nat
  BY DEF IInv
<1>5. \A r \in DOMAIN settledSince' : settledSince'[r] \in 0 .. now'
  BY <1>1, <1>4 DEF IInv
<1>6. \A k \in DOMAIN open' : open'[k] \in 0 .. now'
  BY <1>1, <1>4 DEF IInv
<1> QED BY <1>2, <1>3, <1>5, <1>6

\* A step of the chain within a poll: what it leaves owed is what was, still settled in
\* part or in full, and settled in part only if it was.
LEMMA ChainKeepsIInv ==
  ASSUME IInv, UNCHANGED <<Watch, now, up>>,
         request' \in [Requests -> Statuses],
         DOMAIN owed' \subseteq DOMAIN owed,
         \A r \in DOMAIN owed' :
           /\ owed'[r] = owed[r] /\ claimRole' /\ ~paused' /\ r \in Settled'
           /\ request'[r] = "partly" => request[r] = "partly"
  PROVE  IInv'
<1>1. now' \in Nat /\ now <= now'
  BY DEF IInv
<1>2. /\ \A r \in DOMAIN settledSince' : settledSince'[r] \in 0 .. now'
      /\ \A k \in DOMAIN open' : open'[k] \in 0 .. now'
      /\ FailuresCounted' /\ ChannelAgrees' /\ HeardOrRetried'
  BY <1>1, WatchKept
<1>3. UNCHANGED <<settledSince, open, rpcFailures>>
  BY DEF Watch, memory
<1>4. ClockRuns'
  <2> SUFFICES ASSUME NEW r \in DOMAIN owed'
               PROVE  /\ owed'[r] \in Nat
                      /\ request'[r] = "partly" =>
                           /\ r \in DOMAIN settledSince' /\ settledSince'[r] \in Nat
                           /\ settledSince'[r] <= owed'[r]
    BY DEF ClockRuns
  <2> QED BY <1>3 DEF IInv, ClockRuns
<1>5. PartSettledRaised'
  <2> SUFFICES ASSUME NEW r \in DOMAIN owed', request'[r] = "partly", Overdue(r)'
               PROVE  <<"claim", r>> \in DOMAIN open'
    BY DEF PartSettledRaised
  <2>1. r \in DOMAIN owed /\ request[r] = "partly" /\ Overdue(r)
    BY <1>3 DEF Overdue
  <2> QED BY <1>3, <2>1 DEF IInv, PartSettledRaised
<1> QED BY <1>1, <1>2, <1>4, <1>5 DEF IInv

LEMMA SettleKeepsIInv ==
  ASSUME IInv, NEW r \in Requests, Settle(r)
  PROVE  IInv'
<1>1. /\ request[r] \in {"pending", "partly"} /\ ~paused
      /\ UNCHANGED <<now, paused, claimRole, up, owed, Watch>>
  BY DEF Settle
<1>2. PICK status \in {"partly", "settled"} : request' = [request EXCEPT ![r] = status]
  BY DEF Settle
<1>3. request \in [Requests -> Statuses]
  BY DEF IInv
<1>4. request' \in [Requests -> Statuses]
  BY <1>2, <1>3 DEF Statuses
<1>5. ASSUME NEW q \in DOMAIN owed'
      PROVE  /\ claimRole' /\ ~paused' /\ q \in Settled'
             /\ request'[q] = "partly" => request[q] = "partly"
  <2>1. q \in Requests /\ request[q] \in {"partly", "settled"} /\ claimRole
    BY <1>1 DEF IInv, ClockRuns, Settled
  <2> QED BY <1>1, <1>2, <1>3, <2>1 DEF Settled
<1> QED BY <1>1, <1>4, <1>5, ChainKeepsIInv

LEMMA ClaimKeepsIInv ==
  ASSUME IInv, NEW r \in Requests, Claim(r)
  PROVE  IInv'
<1>1. /\ UNCHANGED <<now, paused, claimRole, up, Watch>>
      /\ request' = [request EXCEPT ![r] = IF @ = "settled" THEN "claimed" ELSE "pending"]
      /\ DOMAIN owed' = DOMAIN owed \ {r} /\ \A q \in DOMAIN owed' : owed'[q] = owed[q]
  BY DEF Claim, Forget
<1>2. request \in [Requests -> Statuses]
  BY DEF IInv
<1>3. request' \in [Requests -> Statuses]
  BY <1>1, <1>2 DEF Statuses
<1>4. ASSUME NEW q \in DOMAIN owed'
      PROVE  /\ claimRole' /\ ~paused' /\ q \in Settled'
             /\ request'[q] = "partly" => request[q] = "partly"
  <2>1. q \in Requests \ {r} /\ request[q] \in {"partly", "settled"} /\ claimRole /\ ~paused
    BY <1>1 DEF IInv, ClockRuns, Settled
  <2> QED BY <1>1, <1>2, <2>1 DEF Settled
<1> QED BY <1>1, <1>3, <1>4, ChainKeepsIInv

LEMMA SwitchKeepsIInv ==
  ASSUME IInv, Switch
  PROVE  IInv'
<1>1. UNCHANGED <<now, request, up, Watch>>
  BY DEF Switch
<1>2. DOMAIN owed \subseteq Requests
  BY DEF IInv, ClockRuns, Settled
<1>3. CASE paused' \/ ~claimRole'
  <2>1. DOMAIN owed' = {}
    BY <1>2, <1>3 DEF Switch, Forget
  <2>2. request' \in [Requests -> Statuses]
    BY <1>1 DEF IInv
  <2> QED BY <1>1, <2>1, <2>2, ChainKeepsIInv
<1>4. CASE ~(paused' \/ ~claimRole')
  <2>1. owed' = owed
    BY <1>4 DEF Switch
  <2>2. request' \in [Requests -> Statuses]
    BY <1>1 DEF IInv
  <2>3. \A r \in DOMAIN owed' : r \in Settled'
    BY <1>1, <2>1 DEF IInv, ClockRuns, Settled
  <2> QED BY <1>1, <1>4, <2>1, <2>2, <2>3, ChainKeepsIInv
<1> QED BY <1>3, <1>4

\* Nothing of what concerns the requests.
LEMMA StillKeepsIInv ==
  ASSUME IInv, UNCHANGED <<now, paused, claimRole, request, up, owed, Watch>>
  PROVE  IInv'
<1>1. request' \in [Requests -> Statuses]
  BY DEF IInv
<1>2. \A r \in DOMAIN owed' : claimRole' /\ ~paused' /\ r \in Settled'
  BY DEF IInv, ClockRuns, Settled
<1> QED BY <1>1, <1>2, ChainKeepsIInv

LEMMA TickKeepsIInv ==
  ASSUME IInv, Tick
  PROVE  IInv'
<1>1. /\ now' = now + 1 /\ up' = TRUE
      /\ UNCHANGED <<paused, claimRole, request, owed, Watch>>
  BY DEF Tick
<1>2. now' \in Nat /\ now <= now'
  BY <1>1 DEF IInv
<1>3. /\ \A r \in DOMAIN settledSince' : settledSince'[r] \in 0 .. now'
      /\ \A k \in DOMAIN open' : open'[k] \in 0 .. now'
      /\ FailuresCounted' /\ ChannelAgrees' /\ HeardOrRetried'
  BY <1>1, <1>2, WatchKept
<1>4. UNCHANGED settledSince
  BY <1>1 DEF Watch, memory
<1>5. ClockRuns'
  BY <1>1, <1>4 DEF IInv, ClockRuns, Settled
<1>6. PartSettledRaised'
  BY <1>1 DEF PartSettledRaised, Overdue
<1>7. request' \in [Requests -> Statuses]
  BY <1>1 DEF IInv
<1> QED BY <1>2, <1>3, <1>5, <1>6, <1>7 DEF IInv

LEMMA NextKeepsIInv == IInv /\ [Next]_vars => IInv'
<1> SUFFICES ASSUME IInv, [Next]_vars PROVE IInv'
  OBVIOUS
<1>1. CASE Cycle
  BY <1>1, CycleKeepsIInv
<1>2. CASE ScanFails
  BY <1>2, ScanFailsKeepsIInv
<1>3. CASE Restart
  BY <1>3, RestartKeepsIInv
<1>4. CASE Switch
  BY <1>4, SwitchKeepsIInv
<1>5. CASE Tick
  BY <1>5, TickKeepsIInv
<1>6. ASSUME NEW r \in Requests, Settle(r)
      PROVE  IInv'
  BY <1>6, SettleKeepsIInv
<1>7. ASSUME NEW r \in Requests, Claim(r)
      PROVE  IInv'
  BY <1>7, ClaimKeepsIInv
<1>8. ASSUME NEW i \in Positions, Poke(i) \/ Approve(i)
      PROVE  IInv'
  <2>1. UNCHANGED <<now, paused, claimRole, request, up, owed, Watch>>
    BY <1>8 DEF Poke, Approve
  <2> QED BY <2>1, StillKeepsIInv
<1>9. CASE UNCHANGED vars
  <2>1. UNCHANGED <<now, paused, claimRole, request, up, owed, Watch>>
    BY <1>9 DEF vars, chain, memory, Watch
  <2> QED BY <2>1, StillKeepsIInv
<1> QED BY <1>1, <1>2, <1>3, <1>4, <1>5, <1>6, <1>7, <1>8, <1>9 DEF Next

-----------------------------------------------------------------------------
(* The theorems *)

\* The inductive invariant holds in every behaviour of the watchdog.
THEOREM InvariantHolds == Spec => []IInv
BY InitIInv, NextKeepsIInv, PTL DEF Spec

\* The channel is told of exactly the open issues (watchdog.ts, the diff of a cycle and its
\* posts), and of the blindness of the watchdog, as long as nothing was lost.
THEOREM ChannelAlwaysAgrees == Spec => []ChannelAgrees
<1>1. IInv => ChannelAgrees
  BY DEF IInv
<1> QED BY <1>1, InvariantHolds, PTL

\* An issue the channel does not know of lost its alert, which is repeated in time
\* (REALERT_SECONDS), for any schedule of lost posts, failed scans and restarts.
THEOREM LostAlertsRepeated == Spec => []HeardOrRetried
<1>1. IInv => HeardOrRetried
  BY DEF IInv
<1> QED BY <1>1, InvariantHolds, PTL

\* A claim that has been due for all of CLAIM_GRACE is an open issue after every scan
\* that works, if the request is settled in part.
THEOREM DueClaimsRaised == Spec => []PartSettledRaised
<1>1. IInv => PartSettledRaised
  BY DEF IInv
<1> QED BY <1>1, InvariantHolds, PTL

=============================================================================
