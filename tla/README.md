# Enshor (RepoBounty) in TLA+

Enshor lets a sponsor lock SOL for a public repository; after a deadline the
backend shares the pool among the contributors GitHub knows of, a Solana program
fixes the shares on chain, and contributors claim them with a wallet of their
choice. This directory holds TLA+ modules of the program and of the backend,
TLC configurations that check them on small instances, and TLAPS proofs about
them for every instance. Paths below are relative to the repository.

## 1. The system

| Part | Code | State it keeps | Operations |
|---|---|---|---|
| Solana program | `program/programs/repobounty/src` | `Config`, `Campaign` and `ClaimRecord` accounts, one escrow per campaign | eight instructions, each atomic |
| Finalization | `backend/internal/http/handlers.go`, `worker.go`, `finalize_snapshots.go` | the worker's count of failures; a copy of the campaign in every handler | auto-finalize rounds, wallet-proof finalization, `loadCampaign` |
| Claims | `handlers.go`, `wallet_challenges.go`, `walletproof` | a mutex per campaign; wallet challenges | challenge, build a partially signed transaction, confirm |
| Refunds, creation | `handlers.go` | none of their own | build a transaction, confirm what the chain says |
| Store | `backend/internal/store` | campaigns, users, challenges, finalize snapshots | `Create`, `Get`, `Update` (whole row), `MarkWalletChallengeUsed` (conditional) |
| Solana client | `backend/internal/solana/client.go` | the service key | decode accounts, build, sign and send transactions |
| Allocation | `backend/internal/ai` | none | score, normalize, redistribute |
| GitHub, OAuth, JWT | `backend/internal/github`, `githubapp`, `auth` | OAuth states | search, contributor data, sign-in |
| Plumbing | `router.go`, `middleware.go`, `ratelimit.go`, `config`, `cmd/api` | rate limiter buckets | routing, start, shutdown |
| Frontend | `frontend/src` | wallet and session | pages over the API |

How they meet. The browser calls the API; the API reads and writes one row per
campaign in the store and asks Solana over RPC. The chain is the authority on
money and status, the store is the only place that knows the repository, the
contributors' names and the allocations by name (`decodeCampaignAccount` returns
none). The two are reconciled on every page view by `loadCampaign`, which reads
the row, reads the account, merges them and writes the whole row back. The
worker ticks in a goroutine of its own next to all handlers; only claims take a
lock. A transaction is *accepted* by an RPC node long before it *lands*, and it
may never land.

What is hard in it, and therefore modelled: the program's long sequences of
legal instructions over several accounts (counters against records, money
against promises, windows that touch at one second, an admin who pauses and
rotates keys in between); and in the backend stale copies, whole-row writes,
transactions accepted but dropped, lost answers, restarts, retries and snapshots
that outlive a validation; requests a sponsor repeats because an answer got
lost; a list of pull requests that shifts while its pages are read, goroutines
that share a semaphore, integers of three widths; a map of rate limiters that one
goroutine fills and another empties. `PROJECT.json` lists each hazard at its line.

What makes each part correct:

- *program*: an escrow always covers what its campaign still owes; nobody is paid
  twice, late, or from a campaign that is not fully shared out; a campaign does
  not close over an unpaid share while the window is open; money is never stuck;
  a pause stops everything but the admin.
- *finalization*: only validated allocations reach the chain; the row never
  claims more than Solana accepted; what it shows is what the claim records say;
  a campaign past its deadline is not left in limbo.
- *claims*: a challenge builds one transaction; a share is paid to a wallet that
  proved itself for its contributor; what is shown as paid is paid; no request
  waits for ever.
- *creation and refund*: no row names another repository than the account, or a
  refund that did not happen; a repeated confirmation erases nothing; a refund
  handed out is not too early; a closed campaign is shown as closed in the end.
- *fetch and allocation*: nobody counts twice, no merged pull request is missed, the
  fetch ends; amounts are at least the minimum and sum to the pool, whatever the
  scores.
- *front door*: forgetting idle clients gives nobody a larger burst, and idle clients
  are forgotten; an OAuth state signs in once; a token's owner exists.

## 2. Modules

| Module | Models |
|---|---|
| `Sums` | the total of a function over users, and its support |
| `RepoBounty` | the Solana program, one action per instruction |
| `BountyEscrow` | what the program promises, without batches, counters, authorities or pauses |
| `CampaignLife` | what creation and refund rely on of a campaign: status, deadlines, money left or not |
| `ShareLife` | what claims rely on: who may still be paid, and who was, to which wallet |
| `StatusLife` | what the finalization relies on: the deadline and the status |
| `FinalizeFlow` | the backend's finalization of one campaign, over the store and the chain |
| `ClaimFlow` | challenges, claims and confirmations of one campaign, over the store and the chain; EXTENDS `ShareLife` |
| `SponsorFlow` | creation, confirmation and refund of campaigns; EXTENDS `CampaignLife` |
| `Allocation` | how a pool is shared out: operators over weights, shares and amounts |
| `ContributionFetch` | the fetch of contributors, pull requests and diffs from GitHub |
| `Evaluation` | from the repository to the payout: composes the last two |
| `TokenBucket` | what a rate limit promises |
| `FrontDoor` | rate limiter, OAuth states, users and tokens |
| `MCRepoBounty`, `MCFinalizeFlow`, `MCClaimFlow`, `MCSponsorFlow`, `MCEvaluation`, `MCFrontDoor` | symmetry sets and function-valued constants for TLC |
| `SumsTheorems` | lemmas about `Total` and `Support` |
| `RepoBountyProofs` | the inductive invariant of the program and what follows from it |
| `RepoBountyRefinement` | the program implements `BountyEscrow` and the three lives, and agrees with `Allocation` on payouts |
| `FinalizeFlowProofs`, `ClaimFlowProofs`, `SponsorFlowProofs` | the inductive invariants of the three flows |
| `EvaluationProofs` | the fetch, rounding and redistribution |
| `FrontDoorProofs` | the front door, and that the limiter implements `TokenBucket` |

Program and backend meet in three small specifications of what happens on chain. The
program implements each of them (`KeepsLife`, `KeepsShares`, `KeepsStatus` of
`RepoBounty`), and each model of the backend takes its chain from one: `SponsorFlow` is
built on the actions of `CampaignLife`, `ClaimFlow` on those of `ShareLife`, and the
account of `FinalizeFlow` is mapped to `StatusLife`. So what the backend's models assume
of the chain is what the program does. `Mark` and `Finalize` of `SponsorFlow` sum up
what `FinalizeFlow` does to a row and to the chain. The valid and invalid allocations
of `FinalizeFlow` are what `Evaluation` and `Valid` of `Allocation` tell apart, and
`SameVerdict` says that the program tells them apart in the same way.

### RepoBounty

`now` is the clock of the validator, `config`, `campaigns` and `records` are the
accounts, `lamports` the balances of wallets and escrows. A campaign's address is
an element of `Campaigns`; its sponsor is a seed of that address (`SponsorOf`).
An instruction is one action: account constraints and `require!`s are its guards,
and because Solana undoes a failed instruction a failure is an action that is not
enabled. A batch is a function from users to amounts, 0 for a user not in it;
`AcceptsBatch` collects every check of `finalize_campaign_batch`, of which `ValidBatch`
and `RecordsAreFree` are the ones about the batch itself. `StrayTransfer` is the transfer
to an escrow the program cannot prevent, `Tick` is the clock.

The promise: `BountyEscrow` has one pot per campaign. It opens, is shared out
exactly, pays each share once and in time or expires, and returns the rest. The
refinement mapping reads its variables off the accounts (`StageOf`, `OwedOf`, ...).
`CampaignLife` keeps less of a campaign, and is mapped with `Life`; `ShareLife` and
`StatusLife` are about one campaign, and are mapped for each with `Shares(c)` and
`Standing(c)`.

### FinalizeFlow

One campaign; `stored` is its row, `chain` its account, `snapshot` the latest
finalize snapshot. Each process (the worker, requests, readers) has a program
counter and a `copy` of the row, as each handler has a `*models.Campaign`. An
action is one store call, RPC call or fetch, with the pure code around it: the
grain at which other processes can come in between. `sent` holds the transactions
that may still land; `submitted` is a history variable. Faults are chosen by the
constant `Faults`: a failed fetch from GitHub, a failed computation, a failed RPC
call, a lost answer, a dropped transaction. An allocation is an element of `Valid`
or of `Invalid`, according to what `validateAllocationsPreFinalize` will say.

Left out there, and why: previews and `Finalize` of a GitHub owner, which demand a
stored owner while `CreateCampaignConfirm` stores none (`handlers.go:385`,
`:1702`); the in-memory store, which shares pointers instead of rows and is not
what the default configuration uses; the wallet challenge of a request; the
transaction's preflight against a state that lags, which only adds a failure
the fault `rpc` already brings.

### ClaimFlow

One finalized campaign; `paid` is its claim records, `unpaid` the shares that may still
be claimed, both changed only by the actions of `ShareLife`; `shown` the claims its row
shows, `challenges` the rows of `wallet_challenges`, `txs` the transactions the
service signed that may still be sent, `lock` the campaign's entry of `claimLocks`.
Handlers serve the three requests, one action per store or RPC call; readers are
whoever else calls `loadCampaign`. Between building and landing the contributor is
alone with the transaction: it may land at any time while the window is open, or
never. `built` is a history variable.

A request names the contributor whose session it comes from
(`validateClaimInputs` refuses any other), and whoever presents a challenge presents
its wallet's signature. The row exists, store calls succeed except for the creation
of a challenge, and the chain's state is read just before it is used, finalized or
completed throughout. A failed RPC call is a choice wherever one is made.

### SponsorFlow

Several campaigns. An element of `Campaigns` is an account, whose address is made of
sponsor and id (`create_campaign.rs:26`); `IdOf` is its id. `rows` is the store, one row
per id, and a row remembers which `account` its address, sponsor, pool and times come
from. `GetCampaign` searches all accounts by id alone and takes the one created last
(`solana/client.go:138-153`); the model takes any of them. Each handler has a program
counter, the account its request names (`target`), the `terms` a confirmation names, and
the `copy` it is about to write. `Offer` is `CreateCampaign` (the terms of the
transaction it built), `SendCreate` the sponsor's wallet that sends it at any time or
never. `Confirm`, `Lookup`, `Existing`, `Replace` and `Create` are
`CreateCampaignConfirm`; `RefundLoad` and `RefundBuild` the two RPC calls of
`RefundBuild`; `RefundConfirm`, `RefundRead`, `RefundUpdate` and `Create` those of
`RefundConfirm`; `View`, `Sync` and `ViewSave` are `loadCampaign`. A request may be
repeated, name terms that are not the account's, and come at any time. An element of
`Repos` stands for everything of a campaign a confirmation names again except its
deadline and sponsor; that the sponsor matches is `c \in GetCampaign(Id(h))`. `Sync`
takes over whatever the account found has, which is all of a row but the repository's
name, the signature and the allocations. The backend's clock and Solana's are one, and
`Timeout` bounds how long a confirmation takes: the store's and the RPC client's
timeouts are seconds, `Lead` is minutes by default.

`OneAccountPerId` says that no two accounts carry the same id. The backend's ids are
random numbers of 64 bits (`handlers.go:41-53`), so it does not hand one out twice, but
neither the program nor the backend keeps another sponsor from opening an account with
an id that exists. What is said about rows rests on it: with two accounts of one id a
page view merges the newer one into the row of the other, keeps the repository's name,
and `RowIsTrue` and `ConfirmErasesNothing` no longer hold. So it is a hypothesis of
their theorems, and `MCSponsorFlow` gives every account an id of its own. What is said
about the chain (`BuiltRefundPays`, `OpenIsFunded`, `CampaignsLiveCorrect`) does not
need it.

### ContributionFetch, Allocation and Evaluation

`stage` walks through `FetchContributionWindowData`: contributors page by page with
retries from the first page, the counts of pull requests, the fallbacks to a
branch's commits, the closed pull requests page by page, then one goroutine per
diff. `PageOf(S, n)` is what GitHub answers for page `n` of a list that is `S` at that
moment, newest first; `ClosePR` and `ReopenPR` change the list between two
pages. `todo`, `busy`, `diffs` and `lost` count the goroutines of each diff that wait
for a place of the semaphore, fetch, have appended and have failed.

`Allocation` is pure: a share is a number of basis points, `Full` of them make the
pool, `Word` and `Narrow` are where 32 and 16 bits wrap around. `Deterministic` is the
loop over ever fewer recipients until `NormalizeAllocations` accepts, `Allocated` also
what a model's answer leads to, which is an element of the constant `Answers`.
`Redistribute` and `Valid` are what `commitFinalize` does before it sends.

`Evaluation` chains them: code impact if there is any diff, otherwise the metrics;
normalization against the contributors; redistribution and validation. A pull request
of a `Ghost` has no author any more.

### FrontDoor

A request gets its limiter (`GetLimiter`, under the map's lock), asks it (`Allow`,
without the lock), and then signs in or is served. Times are ages in ticks, cut off
where nothing depends on them any more, so no clock has to be bounded. `Cleanup` is
the goroutine of `RateLimitMiddleware` at any pace. A callback takes its state out of
the map in a critical section and compares its age right after (`CheckState`), then asks
GitHub, looks the user up, creates it, and signs a token: an action each. `TokenBucket`
has a bucket per client that is never forgotten, and counts the requests it serves;
each takes a token. The refinement mapping `Left` gives a client without an entry a full
bucket, `epoch` is `restarts`, and `served`, a history variable, counts what `Allow` lets
through, whichever bucket the request holds. So a request let through by a bucket that
was forgotten meanwhile, or without taking a token, is no step of `TokenBucket`. `age`,
`drawnIn` and `passed` are history variables too: how long ago a state was drawn, in
which run of the service, and how many callbacks it let through.

## 3. Runs

| Run | Question | Instance |
|---|---|---|
| `program_life` | all safety properties of the program, `CampaignLife`, `ShareLife`, and is every escrow emptied in the end (liveness), over a whole life | 1 campaign, 2 users, 2 wallets, reward 4 or 5, minimum share 2, 6 time units, stray transfers |
| `program_two_campaigns` | does the program keep `BountyEscrow`, or do campaigns or rotating keys disturb each other? | 2 campaigns of one sponsor, 2 users, 2 keys, reward 4 |
| `finalize_flow` | is the row honest, and only valid allocations on chain, under every interleaving and fault? | worker, 1 request, 1 reader, 1 valid and 1 invalid allocation, 1 retry |
| `finalize_worker` | does the worker alone ever show something else than the chain has? is a stored campaign left in limbo, does the row catch up (liveness)? | worker and 1 reader, 2 valid and 1 invalid allocation, 3 retries (the code's value), 1 restart, stored or not |
| `claim_safety` | does a challenge build one transaction, for its contributor and wallet only, and is what is shown paid, under every interleaving? | 2 handlers, 2 contributors, 2 wallets, 2 challenges, failing calls, 1 restart |
| `claim_answers` | does every request get the mutex? (liveness) | 2 handlers, 1 reader, 2 wallets, 1 challenge, 1 restart |
| `sponsor` | do repeated and overlapping confirmations, refunds and page views keep the row true, and is a closed campaign shown as closed (liveness)? | 1 campaign with an id of its own, 2 handlers, 2 repositories, deadlines 3 and 4, lead 2, timeout 1, 6 time units, 1 restart |
| `evaluation` | does every repository and every answer of a model lead to a valid payout, does nobody count twice or go missing, and does the fetch end (liveness)? | 5 users, 4 pull requests, pages of 2, 2 attempts, 2 goroutines, 2 changes, pool 31, minimum 3, 3 recipients |
| `frontdoor` | does the forgetful limiter keep `TokenBucket`, and are idle clients forgotten (liveness)? does a state sign in once, in time and in one run of the service, and does a token's owner exist? | 2 requests, 2 clients, 3 buckets, burst 2, 2 states, 1 account, 1 restart |
| `finalize_dropped`, `finalize_lost_update`, `evaluation_fallback` | statements of the documents that the code does not keep; see section 5 | the smallest instance that shows it |

Why the bounds are enough. *Program*: shares of a reward of 4 or 5 with a minimum
of 2 include one share, two equal and two unequal shares and an amount no batch can
complete; two users give one batch or two in either order and a user left
over. The clock passes the deadline, the whole claim window including its last
second, and a second after it; `MaxTime` leaves room for every deadline the
model lets a sponsor choose. The two-campaign instance has a reward of 4 and no
stray transfers, which the first run has. *Finalization and claims*: one restart and
one fault of each kind can fall between any two steps, and `retries` wraps around, so
that longer histories repeat. Two challenges let a request present one that is fresh,
used, expired or another's. A handler that issues a challenge loads the campaign
without the mutex, so two handlers are already the two sides of it, and of a stale
copy. *Sponsor*: the times leave room for a confirmation before and after the lead
time, for finalization, claims and closing, and for a refund after the claim window;
two handlers overlap any two of the three confirmations, builds and views; two repositories
and deadlines let a confirmation name the wrong ones. *Evaluation*: four pull
requests are two full pages, so an end of the list falls on and off the end of a
page, and two changes shift it across one; 20 basis points, 11 bits and 5 bits
keep the order of the real widths. One pull request's weight overflows, one has no
author, one is by somebody who is no contributor; the model's answers are usable,
usable only after the cut to 16 bits, ambiguous, short, or about a stranger; a pool of
31 leaves something over in every split, and some shares fall below the
minimum. *Front door*: an entry is
forgotten after two ticks, a request may still hold its bucket for one of them, and the
other is just enough to refill it, so that one tick less would break the limit. Two
requests race for one bucket, or one holds a bucket of a client while the other makes a
client's first one or the cleanup forgets it; two requests of two clients never need
more than three buckets at once. Two states let two callbacks sign the same account in
at once; a state is used at the end of its life, one tick later, and after a restart.

Deadlock is checked in the runs of the finalization, the claims and the front
door. The others say `CHECK_DEADLOCK FALSE`: the program and the sponsor's flow stop
when the clock has reached its bound, an evaluation when it has its result.

Fairness. *Program*: the clock runs, and a sponsor who may have money back asks
for it; nothing is assumed of the backend, and `EscrowsDrain` is conditional on
the program not staying paused. *Finalization*: the ticker of
`StartAutoFinalizeWorker` never stops (`worker.go:46-52`, panics are recovered), a
request or read that has begun is worked on, an accepted transaction lands or
its blockhash expires, and the deadline passes. Nobody has to send a request; no
fault is assumed to stop. *Claims*: a request that arrived is worked on (RPC calls
time out after 15 seconds, `solana/client.go:60`), weakly fair; taking the mutex is
strongly fair, since a Go mutex hands itself to a goroutine that has waited for more
than a millisecond. *Sponsor*: a request that arrived is worked on; nobody has to send
one, and `ClosedIsShown` is conditional on page views that are answered again and
again. *Evaluation*: requests to GitHub are answered or time out, and goroutines are
scheduled; which goroutine gets a place is left open. *Front door*: requests are worked
on, the cleanup's ticker runs, and time passes; `IdleClientsForgotten` is conditional
on the client staying away.

## 4. Proofs

`RepoBountyProofs` and `RepoBountyRefinement` assume `ConstantsAssumption` and
`AccountsAssumption` (numbers are numbers, finitely many users and wallets,
escrows are not wallets). The invariant `IInv` is `TypeOK` and, for each campaign,
`Counted` (the counters are sums and counts over the records), `Funded` (what each
status says of escrow and counters) and `Settled` (what a closed or paid record
says of time). None of the safety properties is inductive alone: that a claim
never finds the escrow short needs the counters, the counters need that records
are created once, and closing on a counter is safe only because the counters agree
with the records. The steps are one lemma per instruction, and `SumsTheorems` says
how a total changes when one record does. From `IInv` follow the invariants and the
action properties of the runs, and `PaidOnlyInFull`: shares are paid only from a
campaign whose whole reward was shared out, between its two deadlines. About money there
are two more theorems. `LamportsConserved`: the lamports of all wallets and escrows
together never change, which takes `MoveTotal`, that a transfer keeps the total of any
finite map. `EscrowsLeakNothing`: whatever leaves an escrow is the amount of a record
that the same step marks as paid, to the wallet the record names, or everything, to the
sponsor, after the claim deadline.

The refinement shows that each instruction is a step of `BountyEscrow` or a stutter, and
the same for each of the three lives. For `CampaignLife`, `Funded` says when an escrow is
empty. For `ShareLife` of a campaign the last batch is `Fix` (an active campaign has paid
nobody, and the batch is not empty), a claim is `Pay` and leaves exactly the other unpaid
shares claimable because a campaign that closes early owes nothing (`Settled`), and the
end of the window is `End`; a refund comes after it and changes nothing. `StatusLife` is
read off `CampaignLife`'s steps with `Settled`. Since `FinalizeFlow` begins with an opened
campaign, an unopened one counts as active and not due, and opening it is a stutter.

`SameVerdict` relates the two ends. `Payout` instantiates `Allocation` with the backend's
constants and the program's minimum (50,000,000 lamports on either side, `models.go` and
`constants.rs`). When a campaign is due, nothing has been shared out and the finalize
authority signs, the program accepts a payout as one last batch if and only if the
backend's `Valid` does. What it rests on is that a campaign whose counter is 0 has no
record at all (`NothingShared`). Two things are outside of it: the backend must hold the
lamports the new records' rent takes, and nobody may have sent lamports to the address of
a record before it exists, which `claim_account_info.lamports() == 0` would refuse.

`FinalizeFlowProofs` assumes `FlowAssumption`. `FlowInv` adds to `RowIsHonest` that
every *copy* is as honest as the row, which is what makes a stale write harmless
to it, and that only what was validated is submitted, lands or is recorded.
`OneResult` is the invariant behind `ShownIsOnChain` without requests: all
allocations in the system are those of the one snapshot, and none exists
before it. `NotBeforeDue` says that whoever chooses, computes, submits or records an
allocation, and whatever was sent or landed, comes after the deadline; from it follow
`KeepsStatus`, that the account lives a `StatusLife`, and `AllocationIsFinal`, that no
later transaction replaces what contributors can claim.

`ClaimFlowProofs` assumes `ClaimAssumption`. `TypeOK` there carries the mutual
exclusion (`Placed`: whoever is inside `Claim` or `ClaimConfirm` holds the mutex),
and `ClaimInv` the rest: copies are as true as the row, a transaction that exists
comes from a challenge that was used up for its contributor and wallet, and
`Backed` says what a request past its checks may rely on. Exclusion is what makes
`OneTxPerChallenge` inductive: between marking a challenge and building nobody else
can be about to build. The lemmas are two frames, one for steps that leave the
challenges alone and one for the others, and one case per action. `ClaimsLiveCorrect`
and `PaidIsFinalCorrect` say that the flow moves the claim records only by steps of
`ShareLife`, and that of all transactions signed for a contributor at most one ever pays.

`SponsorFlowProofs` assumes `SponsorAssumption`, of which `Timeout < Lead` is the one
that matters. `IInv` says that every row *and every copy* is true of the chain if
`OneAccountPerId`, and what each step of a handler has established: what a confirmation
matched against the account, a refund that landed, a claim window that has passed. These
facts last (`Persists`), which is why steps of other handlers cannot spoil them.
`OneAccountPerId` is a hypothesis of the theorems about rows, and is used where a row is
written (`RowsMove`) and where an account is found by its id (`FoundByItsId`).
`ConfirmErasesNothing` needs the clock: a confirmation that is still running was
received less than a lead time ago, so the deadline is still ahead and neither the
finalization nor a refund can have begun. `CampaignsLiveCorrect` is the other direction
of the composition: the sponsor's flow never moves the chain otherwise than
`CampaignLife` does.

`EvaluationProofs` assumes the three assumptions of its modules. For the listing it
carries over the step from one page to the next that whoever is not on the pages read
so far is on a later one (`ListedOrToCome`), which rests on `PageBeforeIsFull`: ranks
are a bijection, so a page before somebody's is full, and the listing does not stop at
it. For the contributors it is that those found are on earlier pages
(`OnEarlierPages`). For the payout the lemmas are `AmountsWithinPool` (rounding down
never takes more than the pool), `SomebodyFirst` (an order with ties broken has a
first) and `RedistributionPaysOut`; `OneTakesAll` shows that giving everything to the
heaviest is always acceptable, so that the deterministic allocation finds something
(`DeterministicAcceptable`). The theorems about the fetch hold without further
conditions, also `RelistedByChangesOnly`: a diff counts at most once and once more for
each change of the list. Those about weights and payouts (`TypeCorrect`,
`NeverSentToReviewCorrect`, `NobodyLosesCorrect`, `OnlyStrangersRefusedCorrect`,
`SharesFollowWeightsCorrect`) have the hypothesis `Roomy`, a condition on the constants
alone: the weights of all diffs, as often as they can count, and of all contributors by
metrics, fit 32 bits. Without it the code divides by a sum that wraps around and may
be 0. In the code a diff weighs 100, a point for each line and 50 for each file, so only a
repository with billions of changed lines between two dates is not `Roomy`. The
instance of `evaluation` satisfies it, though a single product in it overflows.
`SharesFollowWeights` rests on the error of each quotient, which is below one, and on the
sum of the errors, which the last share takes (`TotalSum`, `TotalOfOnes`).

`FrontDoorProofs` assumes `DoorAssumption`. `LimitInv` says that an entry not seen for
longer than `Pause` has been filled for that long (`ClientOK`) and that a bucket
somebody holds is the one its client has in the map, and was seen since (`HoldOK`). An
entry that is stale is therefore full and held by nobody, if `Burst <= Rate * (Idle + 1
- Pause)`, and forgetting it is a stutter of `TokenBucket`. In the code the burst is 20,
the rate 100 a second and an entry lives for ten minutes (`router.go:21`,
`ratelimit.go:49`). What a request is let through by is therefore always its client's
own bucket, so `Allow` is `Admit`. `SignInv` says that a state in the map was drawn in
this run of the service, is as old as the map says and has let nobody through, and that
a request about to sign a token has seen its user.

Only model-checked: the liveness properties (`EscrowsDrain`, `Settles`,
`StoreCatchesUp`, `EveryRequestIsAnswered`, `ClosedIsShown`, `FetchEnds`,
`IdleClientsForgotten`), because the prover does not do `ENABLED`; and all refutations.
Every invariant and every safety property over steps that a run checks is a theorem too.

## 5. Where code and documents disagree

Each of these is a run that must find a counterexample.

- `finalize_lost_update` (`ResultIsStored`): a page view writes back a row it read
  before the result was recorded, and the allocations are gone. Contributors then
  see no claim although their records are on chain.
- `finalize_dropped` (`EndsFinalizedOrInReview`): a dropped transaction leaves the
  row `finalized` and the worker passes the campaign over.
- `evaluation_fallback` (`FallsBackToMetrics`): shares by code impact are normalized
  against the contributors after the fallback to the metrics was passed over; one
  author who is no contributor makes every attempt fail.

The modelled steps also allow the following, which has no run of its own.

- *Finalization*. One failed fetch marks the campaign for manual review, and the
  retries the documents describe do not happen (`handlers.go:1739`; `Settles` shows
  that it ends in review and not in limbo). Worker and request may submit different
  allocations; one lands, the other is recorded (`handlers.go:817`). A campaign that
  has no row can neither be computed nor marked, so the worker starts over (`GiveUp`).
- *Claims*. The whole-row write of `loadCampaign` can undo a confirmed claim (`Save` of
  `ClaimFlow` over `Record`); the claim record still says paid. `Claim` takes a failed
  lookup of the claim record for "unclaimed" (`CheckUnpaid`) and builds a transaction
  that cannot land.
- *Creation and refund*. A confirmation within the lead time of the deadline is
  refused although the deposit is made and the frontend offers to retry
  (`CreateCampaign.tsx:184`). `RefundBuild` refuses a campaign closed as unfinalizable,
  whose money the program would return (`docs/smart-contract.md:364`, `:394`). A page
  view may write a row back over the signature of a refund. An account is found by its
  id alone, so a second account with the id of a stored campaign would be merged into
  its row (`OneAccountPerId`, section 2).
- *Evaluation*. `weight * 10000` wraps around for weights of 429,497 and more, and the
  shares no longer follow the weights (`ai/allocator.go:250`). A pull request may be
  listed twice when the list shifts, and a reopened one can hide another
  (`NoneOverlooked` says so).

## 6. Not modelled

- The rent-exempt minimum of accounts, a rule of the Solana runtime.
- Cryptography: signatures and tokens cannot be forged in the models.
- GitHub's answers and the language model's scores, which are inputs.
- HTTP routing, logging, searches, configuration and the frontend's rendering.
- Code nothing reaches: previews and the owner's `Finalize` (no stored campaign has an
  owner), `LinkWallet` (no code issues the challenge it asks for), comments on pull
  requests through the GitHub App, the fetch by window, `ai/allocation_calculator.go`.
- GitHub's `merged` field as a list gives it; the model takes a pull request as merged
  if GitHub says so.
- A GitHub account that changes its login: the lookup by login would then miss the
  user, and the `UNIQUE` constraint on the id refuse a second row.
- The in-memory store, which the default configuration does not use: it shares
  pointers instead of rows and loses the users at a restart.
- What the contributors' list does between two of its pages (`github/client.go:190-212`):
  the model keeps it constant, and lets only the list of pull requests shift.
- Which of a contributor's commits count: without pull requests and statistics the code
  counts those among the last 100 of a branch (`github/client.go:649-653`), the model
  takes one number of commits per contributor (`CommitsOf`).
- Two accounts with one campaign id: `FinalizeFlow` and `ClaimFlow` are about one
  campaign, found by its id, and assume that it is the only account with it;
  `SponsorFlow` states the assumption as `OneAccountPerId`.
- What the assumptions exclude: a confirmation that takes longer than the lead time
  (`Timeout < Lead`; no code enforces it), a request that pauses for minutes between
  two lines of the rate limiter (`Pause`), clocks of backend and Solana that differ.

## 7. Plan

1. The allocations by name: `SponsorFlow` and `FinalizeFlow` describe what a row says of
   the finalization in two ways, which could be one specification as the chain's are.
2. `ShareLife` with the amounts of the shares, so that what `FinalizeFlow` submits and
   what `ClaimFlow` pays are related by value and not only by contributor.
3. The phases of a claim in the browser, which loses its state on a reload.
4. The comments through the GitHub App and the fetch by window, when handlers reach
   them.
