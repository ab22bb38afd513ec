----------------------------- MODULE Evaluation -----------------------------
(***************************************************************************)
(* From a repository to the payout of a campaign: ContributionFetch, and   *)
(* then what calculateAllocations and commitFinalize (internal/http) make  *)
(* of its result with Allocation.                                          *)
(***************************************************************************)
EXTENDS ContributionFetch, Allocation

CONSTANTS
    CommitsOf,   \* how many commits each contributor has
    DiffWeight,  \* the weight of each pull request's diff
    Answers      \* what a language model may answer

ASSUME EvaluationAssumption ==
    /\ CommitsOf \in [Users -> Nat]
    /\ DiffWeight \in [PRs -> Nat \ {0}]
    /\ Answers \subseteq Seq([who : Users, percentage : Int])

VARIABLES
    weights,  \* what the shares are computed from
    shares,   \* the allocation, in basis points
    payout    \* what is sent to Solana

vars == <<fetchVars, weights, shares, payout>>

Init == FetchInit /\ weights = NoShares /\ shares = NoShares /\ payout = NoShares

Known == {u \in Users : found[u] > 0}

Authors == {AuthorOf[p] : p \in {q \in PRs : diffs[q] > 0}}

\* 100 for each diff, 50 for each file of it and 1 for each line, cut or not.
DiffWeights ==
    [u \in Authors |->
        Total([p \in {q \in PRs : AuthorOf[q] = u} |-> diffs[p] * DiffWeight[p]])]

\* Three for a commit, five for each of the latest pull requests, and at least one.
MetricWeights ==
    LET pulled(u) == IF counted THEN Cardinality({p \in PageOf(PRs, 1) : AuthorOf[p] = u}) ELSE 0
        weight(u) == CommitsOf[u] * 3 + pulled(u) * 5
    IN  [u \in Known |-> IF weight(u) < 1 THEN 1 ELSE weight(u)]

\* By code impact if there is any diff at all, else by the metrics.
ChoosePath ==
    /\ stage = "fetched"
    /\ IF Authors = {}
       THEN stage' = "metrics" /\ weights' = MetricWeights
       ELSE stage' = "impact" /\ weights' = DiffWeights
    /\ UNCHANGED <<repo, page, people, pulls, shares, payout>>

\* The metrics are the fallback of the code impact, when no shares come of that.
EvaluateCodeImpact ==
    /\ stage = "impact"
    /\ shares' \in Allocated(weights, Answers)
    /\ IF shares' = NoShares
       THEN stage' = "metrics" /\ weights' = MetricWeights
       ELSE stage' = "normalize" /\ UNCHANGED weights
    /\ UNCHANGED <<repo, page, people, pulls, payout>>

EvaluateMetrics ==
    /\ stage = "metrics"
    /\ shares' \in Allocated(weights, Answers)
    /\ stage' = IF shares' = NoShares THEN "refused" ELSE "normalize"
    /\ UNCHANGED <<repo, page, people, pulls, weights, payout>>

\* Everybody with a share must be a contributor.
NormalizeAgain ==
    /\ stage = "normalize"
    /\ stage' = IF Acceptable(shares, Known) THEN "commit" ELSE "refused"
    /\ UNCHANGED <<repo, page, people, pulls, weights, shares, payout>>

Commit ==
    /\ stage = "commit"
    /\ payout' = Redistribute(Amounts(shares))
    /\ stage' = IF Valid(payout', Known) THEN "committed" ELSE "review"
    /\ UNCHANGED <<repo, page, people, pulls, weights, shares>>

Evaluate == ChoosePath \/ EvaluateCodeImpact \/ EvaluateMetrics \/ NormalizeAgain \/ Commit

Next ==
    \/ Fetch /\ UNCHANGED <<weights, shares, payout>>
    \/ Repository /\ UNCHANGED <<weights, shares, payout>>
    \/ Evaluate

Spec == Init /\ [][Next]_vars

\* Requests to GitHub time out, and the goroutines are scheduled.
FairSpec == Spec /\ WF_vars(Fetch /\ UNCHANGED <<weights, shares, payout>>)

-----------------------------------------------------------------------------
(* Properties.                                                             *)

Stages ==
    {"contributors", "counts", "branch", "branches", "commits", "listing", "diffs", "fetched",
     "impact", "metrics", "normalize", "commit", "committed", "review", "refused", "failed"}

TypeOK ==
    /\ FetchTypeOK
    /\ stage \in Stages
    /\ \A f \in {weights, shares, payout} : DOMAIN f \subseteq Users /\ f \in [DOMAIN f -> Nat]

\* Every allocation that survives the normalization can be paid out: redistribution
\* leaves nobody below the minimum and spends the pool to the last lamport.
NeverSentToReview == stage # "review"

\* Redistribution only adds: who had the minimum keeps at least what was computed.
NobodyLoses ==
    stage = "committed" =>
        \A u \in DOMAIN shares : Amount(shares[u]) >= MinShare =>
            u \in DOMAIN payout /\ payout[u] >= Amount(shares[u])

\* The deterministic allocation prefers the heaviest, and each of its shares is
\* proportional to within a basis point per recipient, as long as no weight is so
\* large that 32 bits do not hold its product with 10000.
SharesFollowWeights ==
    LET team == DOMAIN shares
        all == Over(weights, team)
        wraps == \E u \in team : weights[u] * Full >= Word
    IN  stage = "normalize" /\ shares = Deterministic(weights) /\ ~wraps =>
            /\ \A u \in team, v \in DOMAIN weights \ team : Before(weights, u, v)
            /\ \A u \in team :
                  LET error == shares[u] * all - weights[u] * Full
                  IN  error < Cardinality(team) * all /\ error > -all

\* An allocation is refused only if some author of a diff is not a contributor:
\* otherwise a payout is always found.
OnlyStrangersRefused == stage = "refused" => ~(Authors \subseteq Known)

\* The fetch ends, whatever fails: no goroutine waits for a place in the semaphore,
\* and nobody for a goroutine, for ever.
FetchEnds == <>(stage = "failed" \/ stage = "fetched")

\* handlers.go:1771: `Always attempt metric-based allocation as fallback'.  Refuted:
\* the allocation by code impact that is refused afterwards has no fallback.
FallsBackToMetrics == stage = "refused" => weights = MetricWeights
=============================================================================
