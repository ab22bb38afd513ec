------------------------------ MODULE ClaimFlow ------------------------------
(***************************************************************************)
(* How contributors claim their shares of one finalized campaign: they ask *)
(* for a challenge, prove a wallet with it, get a transaction the service  *)
(* has signed (Claim), send it, and ask the backend to confirm (Claim-     *)
(* Confirm).  Claim and ClaimConfirm hold the campaign's mutex; the reads  *)
(* every other handler begins with (loadCampaign) do not.                  *)
(*                                                                         *)
(* Grain: one action per store or RPC call.  The row's allocations are a   *)
(* function `shown' from contributors to the wallet they are shown as paid *)
(* to.  The state of the campaign is read from the chain before it is used *)
(* and is finalized or completed throughout; handlers accept both.  Whoever*)
(* presents a challenge presents its wallet's signature.                   *)
(***************************************************************************)
EXTENDS ShareLife, Naturals

CONSTANTS
    Handlers,     \* requests being served
    Readers,      \* handlers that only load the campaign
    Challenges,   \* ids generateState may return
    NoProcess,    \* the mutex is free
    NoRequest,    \* nothing is asked of a process
    Kinds,        \* bound: requests that are made, of AllKinds
    MaxRestarts,  \* bound: restarts of the backend
    MayFail       \* whether RPC calls may fail: {FALSE} or {TRUE}

AllKinds == {"challenge", "claim", "confirm"}

ASSUME ClaimAssumption ==
    /\ Handlers \cap Readers = {}
    /\ NoWallet \notin Wallets /\ NoProcess \notin Handlers \cup Readers
    /\ Kinds \subseteq AllKinds
    /\ MaxRestarts \in Nat /\ MayFail \subseteq BOOLEAN

Processes == Handlers \cup Readers

Recipients == Wallets \cup {NoWallet}

Shown == [Users -> Recipients]

VARIABLES
    shown,       \* the allocations in the store's row
    challenges,  \* the challenges in the store
    txs,         \* signed transactions that may still be sent and land
    lock,        \* claimLocks of the campaign
    pc, request, \* where each process is, and what it was asked
    copy,        \* its copy of the allocations
    seen,        \* recipient its GetClaimStatus returned
    built,       \* history: transactions built for each challenge
    restarts

vars == <<shareVars, shown, challenges, txs, lock, pc, request, copy, seen, built, restarts>>

Challenge == [state: {"none", "fresh", "expired", "used"}, user: Users \cup {NoWallet}, wallet: Recipients]

NoChallenge == [state |-> "none", user |-> NoWallet, wallet |-> NoWallet]

Request == [kind: Kinds, user: Users, wallet: Wallets, challenge: Challenges]

Tx == [user: Users, wallet: Wallets]

Init ==
    /\ paid = Nobody /\ shown = Nobody
    /\ unpaid = Users
    /\ challenges = [c \in Challenges |-> NoChallenge]
    /\ txs = {}
    /\ lock = NoProcess
    /\ pc = [p \in Processes |-> "idle"]
    /\ request = [p \in Processes |-> NoRequest]
    /\ copy = [p \in Processes |-> Nobody]
    /\ seen = [p \in Processes |-> NoWallet]
    /\ built = [c \in Challenges |-> 0]
    /\ restarts = 0

-----------------------------------------------------------------------------
(* Requests.                                                               *)

Goto(p, label) == pc' = [pc EXCEPT ![p] = label]

\* Mutant: a return that forgets the mutex.
LeaveLocked(p) ==
    /\ Goto(p, "idle")
    /\ request' = [request EXCEPT ![p] = NoRequest]
    /\ copy' = [copy EXCEPT ![p] = Nobody]
    /\ seen' = [seen EXCEPT ![p] = NoWallet]
    /\ UNCHANGED lock

\* The handler returns; its locals are gone and the mutex is unlocked.
Leave(p) ==
    /\ Goto(p, "idle")
    /\ request' = [request EXCEPT ![p] = NoRequest]
    /\ copy' = [copy EXCEPT ![p] = Nobody]
    /\ seen' = [seen EXCEPT ![p] = NoWallet]
    /\ lock' = IF lock = p THEN NoProcess ELSE lock

Arrive(p) ==
    /\ pc[p] = "idle"
    /\ IF p \in Readers
       THEN Goto(p, "load") /\ UNCHANGED request
       ELSE \E r \in Request :
              /\ request' = [request EXCEPT ![p] = r]
              /\ Goto(p, IF r.kind = "challenge" THEN "load" ELSE "waiting")
    /\ UNCHANGED <<shareVars, shown, challenges, txs, lock, copy, seen, built, restarts>>

\* Mutant: the mutex is taken of another campaign, or not at all.
LockNothing(p) ==
    /\ pc[p] = "waiting"
    /\ Goto(p, "load")
    /\ UNCHANGED <<shareVars, shown, challenges, txs, lock, request, copy, seen, built, restarts>>

Lock(p) ==
    /\ pc[p] = "waiting"
    /\ lock = NoProcess
    /\ lock' = p
    /\ Goto(p, "load")
    /\ UNCHANGED <<shareVars, shown, challenges, txs, request, copy, seen, built, restarts>>

\* loadCampaign: store.Get
Read(p) ==
    /\ pc[p] = "load"
    /\ copy' = [copy EXCEPT ![p] = shown]
    /\ Goto(p, "loaded")
    /\ UNCHANGED <<shareVars, shown, challenges, txs, lock, request, seen, built, restarts>>

\* An RPC call fails where the handler gives up: GetCampaign, the claim status a
\* confirmation needs, the blockhash of a transaction.
RpcFails(p) ==
    /\ TRUE \in MayFail
    /\ \/ pc[p] \in {"loaded", "build"}
       \/ pc[p] = "status" /\ request[p].kind = "confirm"
    /\ Leave(p)
    /\ UNCHANGED <<shareVars, shown, challenges, txs, built, restarts>>

\* Mutant: the payload of the challenge is not compared with the request.
VerifiedForWallet(r) ==
    /\ challenges[r.challenge].state = "fresh"
    /\ challenges[r.challenge].wallet = r.wallet

\* loadAndVerifyWalletChallenge, and the comparison with the payload.
Verified(r) ==
    /\ challenges[r.challenge].state = "fresh"
    /\ challenges[r.challenge].wallet = r.wallet
    /\ challenges[r.challenge].user = r.user

\* validateClaimInputs, validateClaimConfirmationInputs and the wallet proof.
Accepted(p, r) ==
    CASE r.kind = "challenge" -> copy[p][r.user] = NoWallet
      [] r.kind = "claim" -> copy[p][r.user] = NoWallet /\ Verified(r)
      [] r.kind = "confirm" -> TRUE

Proceed(p, r) ==
    IF Accepted(p, r)
    THEN /\ Goto(p, IF r.kind = "challenge" THEN "issue" ELSE "status")
         /\ UNCHANGED <<lock, request, copy, seen>>
    ELSE Leave(p)

\* loadCampaign: store.Update with the merged copy, whose allocations are the row's.
Save(p) ==
    /\ pc[p] = "loaded"
    /\ shown' = copy[p]
    /\ IF p \in Readers THEN Leave(p) ELSE Proceed(p, request[p])
    /\ UNCHANGED <<shareVars, challenges, txs, built, restarts>>

\* ClaimChallenge: CreateWalletChallenge under a new id, or one of the two fails.
Issue(p) ==
    /\ pc[p] = "issue"
    /\ \/ UNCHANGED challenges
       \/ \E c \in Challenges :
             /\ challenges[c].state = "none"
             /\ challenges' = [challenges EXCEPT ![c] =
                   [state |-> "fresh", user |-> request[p].user, wallet |-> request[p].wallet]]
    /\ Leave(p)
    /\ UNCHANGED <<shareVars, shown, txs, built, restarts>>

\* GetClaimStatus in Claim, which goes on unless it hears that the share is paid,
\* also when it hears nothing.
CheckUnpaid(p) ==
    /\ pc[p] = "status" /\ request[p].kind = "claim"
    /\ \/ /\ seen' = [seen EXCEPT ![p] = paid[request[p].user]]
          /\ Goto(p, IF seen'[p] = NoWallet THEN "mark" ELSE "record")
       \/ TRUE \in MayFail /\ Goto(p, "mark") /\ UNCHANGED seen
    /\ UNCHANGED <<shareVars, shown, challenges, txs, lock, request, copy, built, restarts>>

\* Mutant: any payment will do.
MatchesAny(p) == paid[request[p].user] # NoWallet

\* The share is paid, to the wallet of the request.
Matches(p) == paid[request[p].user] = request[p].wallet

\* GetClaimStatus in ClaimConfirm.
CheckPaid(p) ==
    /\ pc[p] = "status" /\ request[p].kind = "confirm"
    /\ IF Matches(p)
       THEN /\ seen' = [seen EXCEPT ![p] = request[p].wallet]
            /\ Goto(p, "record")
            /\ UNCHANGED <<lock, request, copy>>
       ELSE Leave(p)
    /\ UNCHANGED <<shareVars, shown, challenges, txs, built, restarts>>

\* store.Update with the copy and the payment that was seen.
Record(p) ==
    /\ pc[p] = "record"
    /\ shown' = [copy[p] EXCEPT ![request[p].user] = seen[p]]
    /\ Leave(p)
    /\ UNCHANGED <<shareVars, challenges, txs, built, restarts>>

\* Mutant: the challenge stays as it is.
MarkNothing(p) ==
    /\ pc[p] = "mark"
    /\ Goto(p, "build")
    /\ UNCHANGED <<shareVars, shown, challenges, txs, lock, request, copy, seen, built, restarts>>

\* MarkWalletChallengeUsed, which only a challenge not yet used passes.
Mark(p) ==
    /\ pc[p] = "mark"
    /\ LET c == request[p].challenge IN
       IF challenges[c].state = "used"
       THEN Leave(p) /\ UNCHANGED challenges
       ELSE /\ challenges' = [challenges EXCEPT ![c].state = "used"]
            /\ Goto(p, "build")
            /\ UNCHANGED <<lock, request, copy, seen>>
    /\ UNCHANGED <<shareVars, shown, txs, built, restarts>>

\* BuildClaimTransaction: paid by and to the wallet, signed by the service.
Build(p) ==
    /\ pc[p] = "build"
    /\ txs' = txs \cup {[user |-> request[p].user, wallet |-> request[p].wallet]}
    /\ built' = [built EXCEPT ![request[p].challenge] = @ + 1]
    /\ Leave(p)
    /\ UNCHANGED <<shareVars, shown, challenges, restarts>>

-----------------------------------------------------------------------------
(* Contributors, Solana, the clock and restarts.                           *)

\* A contributor signs and sends the transaction and it executes.
Land(tx) ==
    /\ tx \in txs
    /\ Pay(tx.user, tx.wallet)
    /\ txs' = txs \ {tx}
    /\ UNCHANGED <<shown, challenges, lock, pc, request, copy, seen, built, restarts>>

\* It is not sent in time, fails, or was signed by an authority since replaced.
Drop(tx) ==
    /\ tx \in txs
    /\ txs' = txs \ {tx}
    /\ UNCHANGED <<shareVars, shown, challenges, lock, pc, request, copy, seen, built, restarts>>

\* The claim window ends; the sponsor may be refunded.
WindowEnds ==
    /\ End
    /\ UNCHANGED <<shown, challenges, txs, lock, pc, request, copy, seen, built, restarts>>

Expire(c) ==
    /\ challenges[c].state = "fresh"
    /\ challenges' = [challenges EXCEPT ![c].state = "expired"]
    /\ UNCHANGED <<shareVars, shown, txs, lock, pc, request, copy, seen, built, restarts>>

\* Requests and mutexes are gone; rows and challenges are not.
Restart ==
    /\ restarts < MaxRestarts /\ restarts' = restarts + 1
    /\ lock' = NoProcess
    /\ pc' = [p \in Processes |-> "idle"]
    /\ request' = [p \in Processes |-> NoRequest]
    /\ copy' = [p \in Processes |-> Nobody]
    /\ seen' = [p \in Processes |-> NoWallet]
    /\ UNCHANGED <<shareVars, shown, challenges, txs, built>>

Claim(p) == CheckUnpaid(p) \/ Mark(p) \/ Build(p)

Serve(p) == Read(p) \/ RpcFails(p) \/ Save(p) \/ Issue(p) \/ Claim(p) \/ CheckPaid(p) \/ Record(p)

Next ==
    \/ \E p \in Processes : Arrive(p) \/ Lock(p) \/ Serve(p)
    \/ \E tx \in Tx : Land(tx) \/ Drop(tx)
    \/ WindowEnds
    \/ \E c \in Challenges : Expire(c)
    \/ Restart

Spec == Init /\ [][Next]_vars

\* A request that arrived is worked on, and a mutex of Go is fair: a goroutine that
\* waits gets it though others keep coming.
Fairness == \A p \in Processes : WF_vars(Serve(p)) /\ SF_vars(Lock(p))

FairSpec == Spec /\ Fairness

-----------------------------------------------------------------------------
(* Properties.                                                             *)

Labels == {"idle", "waiting", "load", "loaded", "issue", "status", "mark", "build", "record"}

\* Where a request can be, and that whoever is inside Claim or ClaimConfirm holds
\* the mutex.
Placed(p) ==
    /\ pc[p] # "idle" => request[p] \in Request
    /\ pc[p] = "issue" => request[p].kind = "challenge"
    /\ pc[p] \in {"waiting", "status", "record"} => request[p].kind # "challenge"
    /\ pc[p] \in {"mark", "build"} => request[p].kind = "claim"
    /\ (pc[p] \notin {"idle", "waiting"} /\ request[p].kind # "challenge") => lock = p

\* Types, and the mutual exclusion of claims and confirmations.
TypeOK ==
    /\ paid \in Shown /\ shown \in Shown
    /\ unpaid \subseteq Users
    /\ challenges \in [Challenges -> Challenge]
    /\ txs \subseteq Tx
    /\ lock \in Processes \cup {NoProcess}
    /\ pc \in [Processes -> Labels]
    /\ request \in [Processes -> Request \cup {NoRequest}]
    /\ copy \in [Processes -> Shown]
    /\ seen \in [Processes -> Recipients]
    /\ built \in [Challenges -> Nat] /\ restarts \in 0 .. MaxRestarts
    /\ \A p \in Readers : pc[p] \in {"idle", "load", "loaded"}
    /\ \A p \in Handlers : Placed(p)

\* A challenge, whoever presents it and how often, also across a restart, buys at
\* most one transaction signed by the service.
OneTxPerChallenge == \A c \in Challenges : built[c] <= 1

Proven(user, wallet) ==
    \E c \in Challenges : challenges[c] = [state |-> "used", user |-> user, wallet |-> wallet]

\* A share goes only to a wallet that was proven for this very contributor: the
\* challenge was issued to their session, and used up.
PaidToProvenWallet ==
    \A u \in Users : paid[u] # NoWallet => Proven(u, paid[u])

\* docs/architecture.md: display state changes `only after the on-chain claim is
\* confirmed'.  However many transactions for different wallets a contributor holds,
\* and whatever stale rows are written back, a share shown as claimed was paid, to
\* the wallet shown.
ShownIsPaid == \A u \in Users : shown[u] # NoWallet => shown[u] = paid[u]

\* Nobody waits for ever on the campaign's mutex, whichever way its holder returned.
EveryRequestIsAnswered == \A p \in Processes : pc[p] = "waiting" ~> pc[p] = "idle"

\* What a request that got past its checks may rely on.
Backed(p) ==
    LET r == request[p]
        c == challenges[r.challenge]
    IN  /\ (pc[p] \in {"status", "mark"} /\ r.kind = "claim") =>
              (c.state # "none" /\ c.user = r.user /\ c.wallet = r.wallet)
        /\ pc[p] = "build" =>
              (c = [state |-> "used", user |-> r.user, wallet |-> r.wallet] /\ built[r.challenge] = 0)
        /\ pc[p] = "record" => (seen[p] # NoWallet /\ seen[p] = paid[r.user])

\* The invariant behind the three: the copies are as honest as the row, and every
\* transaction that exists comes from a challenge that was used up for it.
ClaimInv ==
    /\ OneTxPerChallenge /\ PaidToProvenWallet /\ ShownIsPaid
    /\ \A u \in unpaid : paid[u] = NoWallet
    /\ \A c \in Challenges : built[c] > 0 => challenges[c].state = "used"
    /\ \A tx \in txs : Proven(tx.user, tx.wallet)
    /\ \A p \in Processes, u \in Users : copy[p][u] # NoWallet => copy[p][u] = paid[u]
    /\ \A p \in Handlers : Backed(p)
=============================================================================
