---------------------------- MODULE FinalizeFlow ----------------------------
(***************************************************************************)
(* How the backend finalizes one campaign: the auto-finalize worker, the   *)
(* requests a sponsor signs (FinalizeWithWalletProof) and the reads every  *)
(* page view makes (loadCampaign) share one row of the store without a     *)
(* lock, and each copies the row, talks to GitHub and to Solana, and       *)
(* writes the whole row back.                                              *)
(*                                                                         *)
(* Grain: one action per store call, RPC call or fetch; what a process     *)
(* does in between touches only its own copy.  Campaigns share nothing     *)
(* here but the worker, which may pause between any two steps, so one      *)
(* campaign stands for all.  An allocation is an element of Valid or       *)
(* Invalid, as validateAllocationsPreFinalize will judge it.  A signed     *)
(* request brings a challenge of its own.  The store is SQLite's, which    *)
(* survives a restart.  Previews need a stored owner, and CreateCampaign-  *)
(* Confirm stores none: no snapshot is ever approved.                      *)
(***************************************************************************)
EXTENDS Naturals, FiniteSets

CONSTANTS
    Worker,       \* the goroutine of StartAutoFinalizeWorker
    Requests,     \* handlers of FinalizeWithWalletProof
    Readers,      \* handlers that only load the campaign
    Valid,        \* allocations that pass the validation
    Invalid,      \* allocations that do not
    NoAlloc,      \* no allocation
    MaxRetries,   \* maxAutoFinalizeRetries
    MaxRestarts,  \* bound: restarts of the backend
    Faults,       \* which of AllFaults may happen
    Listed        \* whether CreateCampaignConfirm stored the campaign: {TRUE}, ...

AllFaults == {"github", "compute", "rpc", "unheard", "drop"}

ASSUME FlowAssumption ==
    /\ Worker \notin Requests \cup Readers
    /\ Requests \cap Readers = {}
    /\ NoAlloc \notin Valid \cup Invalid
    /\ Valid \cap Invalid = {}
    /\ MaxRetries \in Nat \ {0} /\ MaxRestarts \in Nat
    /\ Faults \subseteq AllFaults
    /\ Listed \subseteq BOOLEAN

Processes == {Worker} \cup Requests \cup Readers

Results == Valid \cup Invalid

VARIABLES
    due,        \* the deadline has passed, for the backend and for Solana
    chain,      \* the campaign account: status, and allocations of the records
    sent,       \* allocations of accepted transactions that may still land
    stored,     \* the store's row; known = FALSE if there is none
    snapshot,   \* allocations of the latest finalize snapshot
    retries,    \* the worker's count of failures
    pc,         \* where each process is
    copy,       \* its copy of the campaign
    plan,       \* the allocations it is about to commit
    submitted,  \* history: allocations Solana accepted a transaction for
    restarts

vars == <<due, chain, sent, stored, snapshot, retries, pc, copy, plan, submitted, restarts>>

Chain == [status: {"active", "finalized", "closed"}, alloc: Results \cup {NoAlloc}]

\* `known' also stands for the repository's name, which only the store has.
Row ==
    [known: BOOLEAN, state: {"none", "funded", "finalized", "completed"},
     fin: {"unset", "analyzing", "needs_manual_review", "finalized"},
     alloc: Results \cup {NoAlloc}]

NoRow == [known |-> FALSE, state |-> "none", fin |-> "unset", alloc |-> NoAlloc]

Init ==
    /\ due = FALSE
    /\ chain = [status |-> "active", alloc |-> NoAlloc]
    /\ sent = {} /\ submitted = {}
    /\ \E listed \in Listed :
          stored = IF listed THEN [NoRow EXCEPT !.known = TRUE, !.state = "funded"] ELSE NoRow
    /\ snapshot = NoAlloc
    /\ retries = 0 /\ restarts = 0
    /\ pc = [p \in Processes |-> "idle"]
    /\ copy = [p \in Processes |-> NoRow]
    /\ plan = [p \in Processes |-> NoAlloc]

-----------------------------------------------------------------------------
(* The store and the copies.                                               *)

\* Mutant: Status is taken for State.
StateOfStatus(status) == status

\* decodeCampaignAccount: the State of a campaign whose account says status.
StateOf(status) ==
    CASE status = "active" -> "funded"
      [] status = "finalized" -> "finalized"
      [] status = "closed" -> "completed"

\* The account has no allocations and no finalization status to offer.
Merged(row) == [row EXCEPT !.state = StateOf(chain.status)]

\* store.Update: without a row it fails, and every caller goes on.
Update(row) == stored' = IF stored.known THEN row ELSE stored

\* store.Update, or store.Create when there is no row.
Put(row) == stored' = row

Goto(p, label) == pc' = [pc EXCEPT ![p] = label]

Copied(p, row) == copy' = [copy EXCEPT ![p] = row]

\* The process is through; its copy is gone.
Leave(p) == Goto(p, "idle") /\ Copied(p, NoRow) /\ plan' = [plan EXCEPT ![p] = NoAlloc]

\* Mutant: a failed attempt is not counted.
AfterFailureUncounted(p) == retries

\* The worker counts its failures; a handler answers with an error.
AfterFailure(p) == IF p = Worker THEN retries + 1 ELSE retries

Fail(p) == Leave(p) /\ retries' = AfterFailure(p)

(* loadCampaign, by a reader or at the start of a request.                 *)

Read(p) ==
    /\ pc[p] = "idle" /\ p # Worker
    /\ Copied(p, stored) /\ Goto(p, "read")
    /\ UNCHANGED <<due, chain, sent, stored, snapshot, retries, plan, submitted, restarts>>

Sync(p) ==
    /\ pc[p] = "read"
    /\ \/ Copied(p, Merged(copy[p])) /\ Goto(p, "synced") /\ UNCHANGED plan
       \/ "rpc" \in Faults /\ Leave(p)
    /\ UNCHANGED <<due, chain, sent, stored, snapshot, retries, submitted, restarts>>

\* validateFinalizeState
MayFinalize(row) == row.state = "funded" /\ due

\* A reader is through with it; a request goes on if the campaign allows.
Proceed(p) ==
    IF p \in Requests /\ MayFinalize(copy[p])
    THEN Goto(p, "calculate") /\ UNCHANGED <<copy, plan>>
    ELSE Leave(p)

\* Mutant: the merged campaign is returned but not written back.
SaveNothing(p) ==
    /\ pc[p] = "synced"
    /\ Proceed(p)
    /\ UNCHANGED <<due, chain, sent, stored, snapshot, retries, submitted, restarts>>

Save(p) ==
    /\ pc[p] = "synced"
    /\ Update(copy[p])
    /\ Proceed(p)
    /\ UNCHANGED <<due, chain, sent, snapshot, retries, submitted, restarts>>

(* autoFinalize, one round of the worker.                                  *)

List ==
    /\ pc[Worker] = "idle"
    /\ Copied(Worker, stored) /\ Goto(Worker, "listed")
    /\ UNCHANGED <<due, chain, sent, stored, snapshot, retries, plan, submitted, restarts>>

WorkerMayFinalize(row) ==
    /\ MayFinalize(row)
    /\ row.fin \notin {"needs_manual_review", "finalized"}

\* If the accounts cannot be listed, the worker goes on with what is stored.
MergeList ==
    /\ pc[Worker] = "listed"
    /\ \E row \in {Merged(copy[Worker])} \cup IF "rpc" \in Faults THEN {copy[Worker]} ELSE {} :
          IF WorkerMayFinalize(row)
          THEN Copied(Worker, row) /\ Goto(Worker, "chosen") /\ UNCHANGED plan
          ELSE Leave(Worker)
    /\ UNCHANGED <<due, chain, sent, stored, snapshot, retries, submitted, restarts>>

GiveUp ==
    /\ pc[Worker] = "chosen"
    /\ retries >= MaxRetries
    /\ Update([copy[Worker] EXCEPT !.fin = "needs_manual_review"])
    /\ retries' = 0
    /\ Leave(Worker)
    /\ UNCHANGED <<due, chain, sent, snapshot, submitted, restarts>>

\* Mutant: an unapproved snapshot is not taken.
UsableNever == FALSE

\* The worker takes the latest snapshot, though nobody approved it.
Usable == snapshot # NoAlloc

Choose ==
    /\ pc[Worker] = "chosen"
    /\ retries < MaxRetries
    /\ IF Usable
       THEN plan' = [plan EXCEPT ![Worker] = snapshot] /\ Goto(Worker, "commit")
       ELSE UNCHANGED plan /\ Goto(Worker, "calculate")
    /\ UNCHANGED <<due, chain, sent, stored, snapshot, retries, copy, submitted, restarts>>

(* calculateAllocations, then createFinalizeSnapshot.                      *)

Analyze(p) ==
    /\ pc[p] = "calculate"
    /\ LET row == [copy[p] EXCEPT !.fin = "analyzing"] IN Copied(p, row) /\ Update(row)
    /\ Goto(p, "fetch")
    /\ UNCHANGED <<due, chain, sent, snapshot, retries, plan, submitted, restarts>>

\* The outcome a person must look at: kept in the row, and an error for the caller.
SendToReview(p) ==
    /\ Update([copy[p] EXCEPT !.fin = "needs_manual_review"])
    /\ Fail(p)

\* GitHub fails, or the campaign is not stored and its repository not known.
FetchFails(p) ==
    /\ pc[p] = "fetch"
    /\ "github" \in Faults \/ ~copy[p].known
    /\ SendToReview(p)
    /\ UNCHANGED <<due, chain, sent, snapshot, submitted, restarts>>

\* The allocation, its normalization or the saving of the snapshot fails.
ComputeFails(p) ==
    /\ pc[p] = "fetch"
    /\ "compute" \in Faults /\ copy[p].known
    /\ Fail(p)
    /\ UNCHANGED <<due, chain, sent, stored, snapshot, submitted, restarts>>

Compute(p) ==
    /\ pc[p] = "fetch"
    /\ copy[p].known
    /\ \E result \in Results :
          snapshot' = result /\ plan' = [plan EXCEPT ![p] = result]
    /\ Goto(p, "commit")
    /\ UNCHANGED <<due, chain, sent, stored, retries, copy, submitted, restarts>>

(* commitFinalize.                                                         *)

\* Mutant: nothing is refused.
PassesAll(alloc) == TRUE

\* validateAllocationsPreFinalize
Passes(alloc) == alloc \in Valid

Reject(p) ==
    /\ pc[p] = "commit"
    /\ ~Passes(plan[p])
    /\ SendToReview(p)
    /\ UNCHANGED <<due, chain, sent, snapshot, submitted, restarts>>

\* The RPC node simulates the transaction, accepts it and answers at once: the
\* answer says nothing of the transaction landing.  The answer may get lost.
Submit(p) ==
    /\ pc[p] = "commit"
    /\ Passes(plan[p])
    /\ chain.status = "active"
    /\ sent' = sent \cup {plan[p]} /\ submitted' = submitted \cup {plan[p]}
    /\ \/ Goto(p, "record") /\ UNCHANGED <<retries, copy, plan>>
       \/ "unheard" \in Faults /\ Fail(p)
    /\ UNCHANGED <<due, chain, stored, snapshot, restarts>>

\* Mutant: the error of FinalizeCampaign is dropped.
SubmitRefusedIgnored(p) ==
    /\ pc[p] = "commit"
    /\ Passes(plan[p])
    /\ chain.status # "active" \/ "rpc" \in Faults
    /\ Goto(p, "record")
    /\ UNCHANGED <<due, chain, sent, stored, snapshot, retries, copy, plan, submitted, restarts>>

SubmitRefused(p) ==
    /\ pc[p] = "commit"
    /\ Passes(plan[p])
    /\ chain.status # "active" \/ "rpc" \in Faults
    /\ Fail(p)
    /\ UNCHANGED <<due, chain, sent, stored, snapshot, submitted, restarts>>

Record(p) ==
    /\ pc[p] = "record"
    /\ Put([copy[p] EXCEPT !.state = "finalized", !.fin = "finalized", !.alloc = plan[p]])
    /\ Leave(p)
    /\ retries' = IF p = Worker THEN 0 ELSE retries
    /\ UNCHANGED <<due, chain, sent, snapshot, submitted, restarts>>

-----------------------------------------------------------------------------
(* Solana, the clock and restarts.                                         *)

\* A transaction with all the allocations and has_more = FALSE executes.
Land(alloc) ==
    /\ alloc \in sent
    /\ sent' = sent \ {alloc}
    /\ chain' = IF chain.status = "active"
                THEN [status |-> "finalized", alloc |-> alloc] ELSE chain
    /\ UNCHANGED <<due, stored, snapshot, retries, pc, copy, plan, submitted, restarts>>

\* Its blockhash expires, or its fork is abandoned.
Drop(alloc) ==
    /\ "drop" \in Faults
    /\ alloc \in sent
    /\ sent' = sent \ {alloc}
    /\ UNCHANGED <<due, chain, stored, snapshot, retries, pc, copy, plan, submitted, restarts>>

\* The last claim or a refund closes the campaign.
Close ==
    /\ due
    /\ chain.status # "closed"
    /\ chain' = [chain EXCEPT !.status = "closed"]
    /\ UNCHANGED <<due, sent, stored, snapshot, retries, pc, copy, plan, submitted, restarts>>

DeadlinePasses ==
    /\ ~due /\ due' = TRUE
    /\ UNCHANGED <<chain, sent, stored, snapshot, retries, pc, copy, plan, submitted, restarts>>

\* Handlers and the worker's counts are gone; the row and the snapshot are not.
Restart ==
    /\ restarts < MaxRestarts /\ restarts' = restarts + 1
    /\ pc' = [p \in Processes |-> "idle"]
    /\ copy' = [p \in Processes |-> NoRow]
    /\ plan' = [p \in Processes |-> NoAlloc]
    /\ retries' = 0
    /\ UNCHANGED <<due, chain, sent, stored, snapshot, submitted>>

Calculate(p) == Analyze(p) \/ FetchFails(p) \/ ComputeFails(p) \/ Compute(p)

Commit(p) == Reject(p) \/ Submit(p) \/ SubmitRefused(p) \/ Record(p)

Round == List \/ MergeList \/ GiveUp \/ Choose \/ Calculate(Worker) \/ Commit(Worker)

Handle(p) == Sync(p) \/ Save(p) \/ Calculate(p) \/ Commit(p)

Next ==
    \/ Round
    \/ \E p \in Requests \cup Readers : Read(p) \/ Handle(p)
    \/ \E alloc \in Results : Land(alloc) \/ Drop(alloc)
    \/ Close \/ DeadlinePasses \/ Restart

Spec == Init /\ [][Next]_vars

\* The worker's ticker never stops, a request that was begun is worked on, an
\* accepted transaction lands or expires, and time passes.  Nobody has to send
\* a request.
Fairness ==
    /\ WF_vars(Round)
    /\ \A p \in Requests \cup Readers : WF_vars(Handle(p))
    /\ \A alloc \in Results : WF_vars(Land(alloc) \/ Drop(alloc))
    /\ WF_vars(DeadlinePasses)

FairSpec == Spec /\ Fairness

-----------------------------------------------------------------------------
(* Properties.                                                             *)

Labels ==
    {"idle", "read", "synced", "listed", "chosen", "calculate", "fetch", "commit", "record"}

\* Types, and the worker's bound on its counter, which it checks before each attempt.
TypeOK ==
    /\ due \in BOOLEAN
    /\ chain \in Chain
    /\ sent \subseteq Results /\ submitted \subseteq Results
    /\ stored \in Row
    /\ snapshot \in Results \cup {NoAlloc}
    /\ retries \in 0 .. MaxRetries /\ restarts \in 0 .. MaxRestarts
    /\ pc \in [Processes -> Labels]
    /\ copy \in [Processes -> Row]
    /\ plan \in [Processes -> Results \cup {NoAlloc}]
    /\ pc[Worker] \in {"calculate", "fetch", "commit", "record"} => retries < MaxRetries
    /\ pc[Worker] \notin {"read", "synced"}

Honest(row) ==
    /\ row.alloc # NoAlloc => row.alloc \in submitted
    /\ row.fin = "finalized" => row.alloc # NoAlloc

\* The row shows contributors no allocation that Solana did not accept, and says
\* `finalized' only together with one, however stale rows overwrite each other.
RowIsHonest == Honest(stored)

\* What ends up in claim records was validated, even when it comes from a snapshot
\* that was saved before the validation refused it.
OnlyValidOnChain == chain.alloc # NoAlloc => chain.alloc \in Valid

Quiet == sent = {} /\ \A p \in Processes : pc[p] = "idle"

\* Once everything has come to rest, the allocations shown are those of the claim
\* records.  It holds for the worker alone: whatever it repeats after a crash, a
\* lost answer or an expired transaction, it repeats from the same snapshot.
ShownIsOnChain ==
    Quiet /\ chain.alloc # NoAlloc /\ stored.alloc # NoAlloc => stored.alloc = chain.alloc

\* A stored campaign is not left in limbo after its deadline: it is finalized, or
\* its row says that it was submitted or that it needs a person.
Settles ==
    due /\ stored.known ~>
        chain.status # "active" \/ stored.fin \in {"needs_manual_review", "finalized"}

\* If somebody goes on looking at a finalized campaign, then a row a stale copy
\* turned back to `funded' is corrected again and again.
StoreCatchesUp ==
    (\E r \in Readers : []<>(pc[r] = "synced")) =>
        (chain.status # "active" /\ stored.known ~> stored.state # "funded")

\* The invariant behind RowIsHonest and OnlyValidOnChain: the copies are as honest
\* as the row, and only what was validated is submitted, lands or is recorded.
FlowInv ==
    /\ RowIsHonest /\ \A p \in Processes : Honest(copy[p])
    /\ sent \subseteq submitted /\ submitted \subseteq Valid
    /\ chain.alloc # NoAlloc => chain.alloc \in submitted
    /\ \A p \in Processes : pc[p] = "record" => plan[p] \in submitted

\* The invariant behind ShownIsOnChain, for the worker alone: every allocation in
\* the system is that of the one snapshot, and none exists before it.
OneResult ==
    /\ {stored.alloc, chain.alloc} \cup sent \subseteq {NoAlloc, snapshot}
    /\ \A p \in Processes : {copy[p].alloc, plan[p]} \subseteq {NoAlloc, snapshot}
    /\ pc[Worker] \in {"calculate", "fetch"} => snapshot = NoAlloc
    /\ \A p \in Readers : pc[p] \in {"idle", "read", "synced"}

\* The invariant behind KeepsStatus: who goes on to finalize has seen the deadline pass,
\* and so has whatever was submitted or landed.
Begun == {"chosen", "calculate", "fetch", "commit", "record"}

NotBeforeDue ==
    /\ \A p \in Processes : pc[p] \in Begun => due
    /\ sent # {} \/ submitted # {} \/ chain.status # "active" => due
    /\ chain.alloc # NoAlloc => chain.status # "active"

Status == INSTANCE StatusLife WITH status <- chain.status

\* Whatever worker and requests submit, repeat and restart, the account they share lives
\* the life the program gives it: nothing lands before the deadline or after another.
KeepsStatus == Status!StatusSpec

\* Once contributors can claim, no later transaction replaces their allocations.
AllocationIsFinal == [][chain.alloc # NoAlloc => chain'.alloc = chain.alloc]_vars

\* docs/architecture.md: `Backend stores finalization result and allocation
\* metadata.'  Refuted: loadCampaign writes back a row it read before the result.
ResultIsStored ==
    Quiet /\ chain.status = "finalized" /\ stored.known => stored.alloc # NoAlloc

\* docs/current-implementation.md: the worker `retries failures, and marks campaigns
\* needs_manual_review after three retries'.  Refuted: it ends with neither.
EndsFinalizedOrInReview ==
    due ~> chain.status # "active" \/ stored.fin = "needs_manual_review"
=============================================================================
