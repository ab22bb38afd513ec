-------------------------- MODULE ContributionFetch --------------------------
(***************************************************************************)
(* FetchContributionWindowData (internal/github): contributors, with       *)
(* retries and a fallback, the merged pull requests page by page, and the  *)
(* diffs of those by goroutines that share a semaphore.  The repository    *)
(* may change while it is listed.                                          *)
(***************************************************************************)
EXTENDS Sums

CONSTANTS
    Users,        \* accounts of GitHub
    PRs,          \* the repository's pull requests, by number
    AuthorOf,     \* whose each is
    Ghost,        \* the author of a pull request whose account is gone
    Committers,   \* who has commits in the repository, by the number of them
    PageSize,     \* per_page
    MaxAttempts,  \* of fetchContributorStats
    MaxParallel,  \* maxParallelDiffFetches
    MaxChanges    \* how often the repository changes during the listing

ASSUME FetchAssumption ==
    /\ Users \subseteq Nat /\ IsFiniteSet(Users)
    /\ PRs \subseteq Nat /\ IsFiniteSet(PRs)
    /\ AuthorOf \in [PRs -> Users \cup {Ghost}] /\ Ghost \notin Users
    /\ Committers \subseteq Users
    /\ {PageSize, MaxAttempts, MaxParallel} \subseteq Nat \ {0} /\ MaxChanges \in Nat

VARIABLES
    closed, merged,  \* the closed pull requests of the repository, and the merged ones
    settled,         \* history: those merged before the fetch
    changes,         \* how often the repository changed, a bound
    reopened,        \* history: a pull request left the list of closed ones
    stage, attempt, page,
    found,           \* how often each user is in the list of contributors
    counted,         \* whether the numbers of pull requests are known
    listed,          \* how often each pull request was listed
    todo, busy,      \* diffs to be fetched, and being fetched
    slots,           \* free places of the semaphore
    diffs, lost      \* diffs that arrived, and that did not

repo == <<closed, merged, settled, changes, reopened>>
people == <<attempt, found, counted>>
pulls == <<listed, todo, busy, slots, diffs, lost>>
fetchVars == <<repo, stage, page, people, pulls>>

None == [p \in PRs |-> 0]
Nobody == [u \in Users |-> 0]

FetchInit ==
    /\ closed \in SUBSET PRs /\ merged \in SUBSET closed
    /\ settled = merged /\ changes = 0 /\ reopened = FALSE
    /\ stage = "contributors" /\ attempt = 1 /\ page = 1
    /\ found = Nobody /\ counted = FALSE
    /\ listed = None /\ todo = None /\ busy = None /\ slots = MaxParallel
    /\ diffs = None /\ lost = None

-----------------------------------------------------------------------------
(* Contributors.                                                           *)

\* The elements of page number n of a list, newest first.
PageOf(S, n) ==
    LET above(x) == Cardinality({y \in S : y > x})
    IN  {x \in S : (n - 1) * PageSize <= above(x) /\ above(x) < n * PageSize}

\* Once more those of S.
Plus(tally, S) == [x \in DOMAIN tally |-> IF x \in S THEN tally[x] + 1 ELSE tally[x]]

FetchContributorPage ==
    /\ stage = "contributors"
    /\ LET got == PageOf(Committers, page)
       IN  /\ found' = Plus(found, got)
           /\ IF Cardinality(got) = PageSize
              THEN page' = page + 1 /\ UNCHANGED <<stage, attempt>>
              ELSE /\ page' = 1 /\ attempt' = 1
                   /\ stage' = IF found' = Nobody THEN "branch" ELSE "counts"
    /\ UNCHANGED <<repo, counted, pulls>>

\* Mutant: the pages of the attempt that failed are kept.
RetryKeepingPages ==
    /\ stage = "contributors"
    /\ attempt < MaxAttempts /\ attempt' = attempt + 1
    /\ page' = 1
    /\ UNCHANGED <<repo, stage, found, counted, pulls>>

\* utils.Retry: the next attempt starts from the first page.
RetryContributors ==
    /\ stage = "contributors"
    /\ attempt < MaxAttempts /\ attempt' = attempt + 1
    /\ page' = 1 /\ found' = Nobody
    /\ UNCHANGED <<repo, stage, counted, pulls>>

\* After the last attempt, or if the context ends during the delay.
GiveUpContributors ==
    /\ stage = "contributors"
    /\ stage' = "branch" /\ page' = 1 /\ attempt' = 1 /\ found' = Nobody
    /\ UNCHANGED <<repo, counted, pulls>>

\* The counts of pull requests; without them the contributors still count.
CountPullRequests ==
    /\ stage = "counts" /\ stage' = "listing"
    /\ counted' \in BOOLEAN
    /\ UNCHANGED <<repo, page, attempt, found, pulls>>

\* The default branch from the repository's metadata, if it has one.
FindDefaultBranch ==
    /\ stage = "branch" /\ stage' \in {"commits", "branches", "failed"}
    /\ UNCHANGED <<repo, page, people, pulls>>

\* Otherwise the only branch, if there is only one.
ListBranches ==
    /\ stage = "branches" /\ stage' \in {"commits", "failed"}
    /\ UNCHANGED <<repo, page, people, pulls>>

\* The authors of the latest commits, those GitHub knows.
FetchBranchCommits ==
    /\ stage = "commits"
    /\ \E authors \in SUBSET Committers :
          /\ found' = Plus(Nobody, authors)
          /\ stage' = IF authors = {} THEN "failed" ELSE "listing"
    /\ UNCHANGED <<repo, page, attempt, counted, pulls>>

-----------------------------------------------------------------------------
(* Pull requests.                                                          *)

\* The diffs to fetch: those of somebody.
Jobs(tally) == [p \in PRs |-> IF AuthorOf[p] = Ghost THEN 0 ELSE tally[p]]

\* Mutant: a page counts as the last if few of it were merged.
ListPageByMerged ==
    /\ stage = "listing"
    /\ LET got == PageOf(closed, page)
       IN  /\ listed' = Plus(listed, got \cap merged)
           /\ IF Cardinality(got \cap merged) = PageSize
              THEN page' = page + 1 /\ UNCHANGED <<stage, todo>>
              ELSE stage' = "diffs" /\ todo' = Jobs(listed') /\ page' = 1
    /\ UNCHANGED <<repo, people, busy, slots, diffs, lost>>

\* A page that is not full is the last; then a goroutine starts for each diff.
ListPage ==
    /\ stage = "listing"
    /\ LET got == PageOf(closed, page)
       IN  /\ listed' = Plus(listed, got \cap merged)
           /\ IF Cardinality(got) = PageSize
              THEN page' = page + 1 /\ UNCHANGED <<stage, todo>>
              ELSE stage' = "diffs" /\ todo' = Jobs(listed') /\ page' = 1
    /\ UNCHANGED <<repo, people, busy, slots, diffs, lost>>

FailListing ==
    /\ stage = "listing" /\ stage' = "failed"
    /\ UNCHANGED <<repo, page, people, pulls>>

Acquire(p) ==
    /\ stage = "diffs" /\ todo[p] > 0
    /\ slots > 0 /\ slots' = slots - 1
    /\ todo' = [todo EXCEPT ![p] = @ - 1] /\ busy' = [busy EXCEPT ![p] = @ + 1]
    /\ UNCHANGED <<repo, stage, page, people, listed, diffs, lost>>

\* Mutant: the author's diffs so far are replaced, not appended to.
AppendReplacing(p) ==
    /\ stage = "diffs" /\ busy[p] > 0
    /\ busy' = [busy EXCEPT ![p] = @ - 1] /\ slots' = slots + 1
    /\ diffs' = [q \in PRs |-> IF q = p THEN 1
                               ELSE IF AuthorOf[q] = AuthorOf[p] THEN 0 ELSE diffs[q]]
    /\ UNCHANGED <<repo, stage, page, people, listed, todo, lost>>

\* The diff is appended to its author's under the mutex.
AppendDiff(p) ==
    /\ stage = "diffs" /\ busy[p] > 0
    /\ busy' = [busy EXCEPT ![p] = @ - 1] /\ slots' = slots + 1
    /\ diffs' = [diffs EXCEPT ![p] = @ + 1]
    /\ UNCHANGED <<repo, stage, page, people, listed, todo, lost>>

\* Mutant: the place in the semaphore is given back only on success.
LoseDiffAndSlot(p) ==
    /\ stage = "diffs" /\ busy[p] > 0
    /\ busy' = [busy EXCEPT ![p] = @ - 1] /\ lost' = [lost EXCEPT ![p] = @ + 1]
    /\ UNCHANGED <<repo, stage, page, people, listed, todo, slots, diffs>>

\* It cannot be fetched, or is empty: that is logged, and it does not count.
LoseDiff(p) ==
    /\ stage = "diffs" /\ busy[p] > 0
    /\ busy' = [busy EXCEPT ![p] = @ - 1] /\ slots' = slots + 1
    /\ lost' = [lost EXCEPT ![p] = @ + 1]
    /\ UNCHANGED <<repo, stage, page, people, listed, todo, diffs>>

\* wg.Wait
AllFetched ==
    /\ stage = "diffs" /\ todo = None /\ busy = None
    /\ stage' = "fetched"
    /\ UNCHANGED <<repo, page, people, pulls>>

-----------------------------------------------------------------------------
(* The repository, while it is listed.                                     *)

ClosePR(p) ==
    /\ stage = "listing" /\ changes < MaxChanges /\ changes' = changes + 1
    /\ p \notin closed /\ closed' = closed \cup {p}
    /\ merged' \in {merged, merged \cup {p}}
    /\ UNCHANGED <<settled, reopened, stage, page, people, pulls>>

\* One that was not merged may be opened again.
ReopenPR(p) ==
    /\ stage = "listing" /\ changes < MaxChanges /\ changes' = changes + 1
    /\ p \in closed \ merged /\ closed' = closed \ {p}
    /\ reopened' = TRUE
    /\ UNCHANGED <<merged, settled, stage, page, people, pulls>>

FetchContributors ==
    \/ FetchContributorPage \/ RetryContributors \/ GiveUpContributors \/ CountPullRequests

FetchDiffs == AllFetched \/ \E p \in PRs : Acquire(p) \/ AppendDiff(p) \/ LoseDiff(p)

Fetch ==
    \/ FetchContributors
    \/ FindDefaultBranch \/ ListBranches \/ FetchBranchCommits
    \/ ListPage \/ FailListing
    \/ FetchDiffs

Repository == \E p \in PRs : ClosePR(p) \/ ReopenPR(p)

-----------------------------------------------------------------------------
(* Properties.                                                             *)

\* Types, and the semaphore's places: a free one for each that is not taken.
FetchTypeOK ==
    /\ closed \subseteq PRs /\ merged \subseteq closed /\ settled \subseteq merged
    /\ changes \in 0 .. MaxChanges /\ reopened \in BOOLEAN
    /\ attempt \in 1 .. MaxAttempts /\ page \in Nat \ {0}
    /\ found \in [Users -> Nat] /\ counted \in BOOLEAN
    /\ {listed, todo, busy, diffs, lost} \subseteq [PRs -> Nat]
    /\ slots \in 0 .. MaxParallel /\ slots + Total(busy) = MaxParallel

\* However many attempts it took, a contributor is in the list once: a second
\* entry would become a second allocation, and normalization refuse them all.
EachContributorOnce == \A u \in Users : found[u] <= 1

\* A pull request merged before the fetch is among those listed, on whatever page it
\* ends up while others are closed.  One reopened meanwhile can hide another.
NoneOverlooked ==
    stage \in {"diffs", "fetched"} /\ ~reopened => \A p \in settled : listed[p] > 0

\* Whichever goroutines overlap, each listed diff is waited for and counts once for
\* each time it was listed, unless its own fetch failed.
NoDiffMixedUp ==
    stage \in {"diffs", "fetched"} =>
        \A p \in PRs : Jobs(listed)[p] = todo[p] + busy[p] + diffs[p] + lost[p]
=============================================================================
