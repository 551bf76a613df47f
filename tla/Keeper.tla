------------------------------- MODULE Keeper -------------------------------
(***************************************************************************)
(* The keeper of the vault (bil-vault/keeper).  A cycle syncs maturities,    *)
(* pokes the positions that can move, decides from values it reads one by    *)
(* one whether to poke the queue, sums what is settled for each controller   *)
(* request by request, and claims the sums for those that opted in.  Users   *)
(* and everybody else act on the vault between any two of its reads.  The    *)
(* vault is not paused.                                                      *)
(***************************************************************************)
EXTENDS VaultLedger, FiniteSets

CONSTANTS MIN_QUEUE_HOLLAR,  \* idle HOLLAR worth a poke of the queue
          MaxFaults          \* bound: how often the node fails to serve a call or the
                             \* keeper loses its role

ASSUME KeeperAssumption == MIN_QUEUE_HOLLAR \in Nat /\ MaxFaults \in Nat

VARIABLES step,
          seen,        \* what the cycle has read: a partial function
          queueLen, next, claimable, todo,
          claimRole,   \* does the keeper hold CLAIM_OPERATOR_ROLE
          autoClaim,   \* the controllers that opted in
          ready,       \* principal whose withdrawal Decentral has made ready
          faults

cycleVars == <<step, seen, queueLen, next, claimable, todo>>
othersVars == <<claimRole, autoClaim, ready, faults>>
kvars == <<vars, cycleVars, othersVars>>

Unread == [k \in {} |-> 0]
Nothing == [c \in Controllers |-> 0]

KeeperInit ==
  /\ Init
  /\ step = "rest" /\ seen = Unread /\ queueLen = 0 /\ next = 0
  /\ claimable = Nothing /\ todo = {}
  /\ claimRole = TRUE /\ autoClaim = {} /\ ready = 0 /\ faults = 0

-----------------------------------------------------------------------------
(* One cycle.                                                              *)

Go(from, to) == step = from /\ step' = to

SyncMaturitiesIfDue ==
  /\ Go("rest", "positions")
  /\ SyncMaturities
  /\ UNCHANGED <<seen, queueLen, next, claimable, todo, othersVars>>

\* pokeDecentral: a withdrawal of yield, after which the queue is left alone, or one of
\* principal, after which it is settled unless a backlog of maturities remains.
PokeYield == \E e \in 1 .. yieldValue : ClaimYield(e, e) /\ UNCHANGED ready
PokePrincipal ==
  \E e \in 1 .. ready, backlog \in BOOLEAN :
    ready' = ready - e /\ ClaimPrincipal(e, e, backlog)

\* Decentral may refuse a poke, or somebody else poked first: the loop goes on.
ProcessPosition(poke) ==
  /\ step = "positions"
  /\ poke
  /\ UNCHANGED <<cycleVars, claimRole, autoClaim, faults>>
ProcessPositions == ProcessPosition(PokeYield) \/ ProcessPosition(PokePrincipal)

EndOfPositions ==
  /\ Go("positions", "read") /\ seen' = Unread
  /\ UNCHANGED <<vars, queueLen, next, claimable, todo, othersVars>>

\* Seeded fault: without anything queued there is nothing to do.
WorthAPokeIfQueued(values) ==
  values["idle"] >= MIN_QUEUE_HOLLAR /\ values["queued"] - values["settled"] > 0

\* The difference may be negative, when a claim came between the reads.
WorthAPoke(values) ==
  LET unsettled == values["queued"] - values["settled"] IN
  \/ values["idle"] >= MIN_QUEUE_HOLLAR /\ unsettled > 0
  \/ values["idle"] >= minReinvestAmount /\ unsettled = 0

\* Three values are asked for at once and answered in any order; the last one
\* decides.
Read(name, value) ==
  LET values == [k \in DOMAIN seen \cup {name} |-> IF k = name THEN value ELSE seen[k]]
      last   == Cardinality(DOMAIN values) = 3
  IN /\ step = "read" /\ name \notin DOMAIN seen
     /\ seen' = IF last THEN Unread ELSE values
     /\ step' = IF ~last THEN "read" ELSE IF WorthAPoke(values) THEN "poke" ELSE "role"
     /\ UNCHANGED <<vars, queueLen, next, claimable, todo, othersVars>>

ReReadState ==
  \/ Read("idle", idleHollar)
  \/ Read("queued", totalQueuedBil)
  \/ Read("settled", totalSettledBil)

Poke ==
  /\ Go("poke", "role")
  /\ PokeQueue
  /\ UNCHANGED <<seen, queueLen, next, claimable, todo, othersVars>>

\* Seeded fault: starts where the settlement stands, like the watchdog.
FromQueueHead == queueHead

FirstRequest == 0

HasClaimRole ==
  /\ step = "role"
  /\ IF claimRole /\ FirstRequest < queueTail
     THEN step' = "sum" /\ next' = FirstRequest /\ queueLen' = queueTail
     ELSE step' = "rest" /\ UNCHANGED <<next, queueLen>>
  /\ UNCHANGED <<vars, seen, claimable, todo, othersVars>>

ReadRequest ==
  LET r    == queue[next]
      last == next + 1 = queueLen
  IN /\ step = "sum"
     /\ claimable' = IF r.user = NoUser THEN claimable
                     ELSE [claimable EXCEPT ![r.user] = @ + r.bilSettled]
     /\ next' = IF last THEN 0 ELSE next + 1
     /\ queueLen' = IF last THEN 0 ELSE queueLen
     /\ todo' = IF last THEN {c \in Controllers : claimable'[c] > 0} ELSE {}
     /\ step' = IF ~last THEN "sum" ELSE IF todo' = {} THEN "rest" ELSE "claim"
     /\ UNCHANGED <<vars, seen, othersVars>>

\* _authorizeClaim for the holder of CLAIM_OPERATOR_ROLE.
Authorized(c) == claimRole /\ c \in autoClaim

Claimable(c, shares) ==
  ClaimByShares(queue, settledBy[c], c, shares).remaining = 0

NextTurn(c) ==
  /\ step = "claim" /\ c \in todo /\ todo' = todo \ {c}
  /\ step' = IF todo' = {} THEN "rest" ELSE "claim"
  /\ claimable' = [claimable EXCEPT ![c] = 0]

\* A sum that is no longer there makes the call revert, and the next controller's turn comes.
AutoClaim(c) ==
  /\ NextTurn(c)
  /\ \/ Authorized(c) /\ Redeem(c, claimable[c])
     \/ ~(Authorized(c) /\ Claimable(c, claimable[c])) /\ UNCHANGED vars
  /\ UNCHANGED <<seen, queueLen, next, othersVars>>

\* The node fails a call: a read ends the cycle, a write is given up.
CycleFails ==
  /\ faults < MaxFaults /\ faults' = faults + 1
  /\ step \in {"positions", "read", "poke", "role", "sum"} /\ step' = IF step = "poke" THEN "role" ELSE "rest"
  /\ seen' = Unread /\ queueLen' = 0 /\ next' = 0 /\ claimable' = Nothing
  /\ UNCHANGED <<vars, todo, claimRole, autoClaim, ready>>

ClaimFails(c) ==
  /\ faults < MaxFaults /\ faults' = faults + 1
  /\ NextTurn(c)
  /\ UNCHANGED <<vars, seen, queueLen, next, claimRole, autoClaim, ready>>

KeeperStep ==
  \/ SyncMaturitiesIfDue \/ EndOfPositions \/ ReReadState \/ Poke
  \/ HasClaimRole \/ ReadRequest
  \/ \E c \in Controllers : AutoClaim(c)

-----------------------------------------------------------------------------
(* Everybody else.                                                         *)

\* The withdrawal of n more becomes ready: a maturity, an approval, a delay.
MakeReady(n) ==
  /\ ready + n <= totalInvestedPrincipal
  /\ ready' = ready + n
  /\ UNCHANGED <<vars, cycleVars, claimRole, autoClaim, faults>>

SetAutoClaim(c) ==
  /\ autoClaim' = IF c \in autoClaim THEN autoClaim \ {c} ELSE autoClaim \cup {c}
  /\ UNCHANGED <<vars, cycleVars, claimRole, ready, faults>>

SetClaimRole ==
  /\ claimRole' = ~claimRole
  /\ IF claimRole THEN faults < MaxFaults /\ faults' = faults + 1 ELSE UNCHANGED faults
  /\ UNCHANGED <<vars, cycleVars, autoClaim, ready>>

OthersStep ==
  \/ /\ UserStep \/ PokeQueue \/ AccrueYield
     /\ UNCHANGED <<cycleVars, othersVars>>
  \/ (PokeYield \/ PokePrincipal) /\ UNCHANGED <<cycleVars, claimRole, autoClaim, faults>>
  \/ \E n \in 1 .. totalInvestedPrincipal : MakeReady(n)
  \/ SetClaimRole \/ \E c \in Controllers : SetAutoClaim(c)

KeeperNext ==
  \/ KeeperStep \/ OthersStep \/ CycleFails
  \/ ProcessPositions
  \/ \E c \in Controllers : ClaimFails(c)

KeeperSpec == KeeperInit /\ [][KeeperNext]_kvars

\* The keeper goes on for ever.  Decentral makes every withdrawal of principal ready some
\* time, and neither refuses it nor a reinvestment each time it is asked.  It may refuse
\* to pay yield for ever.
FairKeeper ==
  /\ KeeperSpec
  /\ WF_kvars(KeeperStep)
  /\ WF_kvars(\E n \in 1 .. totalInvestedPrincipal : MakeReady(n))
  /\ SF_kvars(ProcessPosition(PokePrincipal))
  /\ SF_kvars(Poke /\ totalInvestedPrincipal' > totalInvestedPrincipal)

-----------------------------------------------------------------------------
(* Properties.                                                             *)

\* What is settled for a controller that opted in gets claimed, whatever sums the
\* keeper read that were stale when it used them, unless the controller
\* opts out or the keeper loses its role.
AutoClaimsPaid ==
  \A c \in Controllers :
    maxRedeem(c) > 0 ~> (maxRedeem(c) = 0 \/ ~Authorized(c))

\* Idle HOLLAR that nobody waits for is invested again, or somebody comes to wait for it.
IdleGoesToWork ==
  ReinvestAmount(0) > 0 ~> (ReinvestAmount(0) = 0 \/ totalQueuedBil > totalSettledBil)
=============================================================================
