-------------------------- MODULE EvaluationProofs --------------------------
(***************************************************************************)
(* Proofs about the evaluation: the pages of a list, the fetch with its    *)
(* semaphore, and the payout.                                              *)
(***************************************************************************)
EXTENDS Evaluation, SumsTheorems

-----------------------------------------------------------------------------
(* Pages.                                                                  *)

\* How many elements of S come before x on its pages.
Rank(S, x) == Cardinality({y \in S : y > x})

LEMMA RankNat ==
    ASSUME NEW S, IsFiniteSet(S), NEW x
    PROVE  /\ Rank(S, x) \in Nat
           /\ Rank(S, x) <= Cardinality(S)
<1> DEFINE above == {y \in S : y > x}
<1>1. IsFiniteSet(above) /\ Cardinality(above) <= Cardinality(S)
  BY FS_Subset
<1> QED
  BY <1>1, FS_CardinalityType DEF Rank

LEMMA RankBelowSize ==
    ASSUME NEW S \in SUBSET Nat, IsFiniteSet(S), NEW x \in S
    PROVE  Rank(S, x) < Cardinality(S)
<1> DEFINE above == {y \in S : y > x}
<1>1. IsFiniteSet(above) /\ Cardinality(above) <= Cardinality(S)
      /\ (Cardinality(S) = Cardinality(above) => S = above)
  BY FS_Subset
<1>2. Cardinality(above) \in Nat /\ Cardinality(S) \in Nat
  BY <1>1, FS_CardinalityType
<1>3. x \notin above
  OBVIOUS
<1> QED
  BY <1>1, <1>2, <1>3 DEF Rank

\* No two have the same rank.
LEMMA RankOrders ==
    ASSUME NEW S \in SUBSET Nat, IsFiniteSet(S), NEW x \in S, NEW y \in S, x < y
    PROVE  Rank(S, y) < Rank(S, x)
<1> DEFINE low == {z \in S : z > x}
           high == {z \in S : z > y}
<1>0. \A z \in S : z \in Nat
  OBVIOUS
<1>1. IsFiniteSet(low)
  BY FS_Subset
<1>2. high \subseteq low /\ y \in low /\ y \notin high
  <2>1. \A z \in S : z > y => z > x
    BY <1>0
  <2>2. y > x /\ ~(y > y)
    BY <1>0
  <2> QED
    BY <2>1, <2>2
<1>3. /\ Cardinality(high) <= Cardinality(low)
      /\ Cardinality(low) = Cardinality(high) => low = high
  BY <1>1, <1>2, FS_Subset
<1>4. Cardinality(high) # Cardinality(low)
  BY <1>2, <1>3
<1>5. Rank(S, x) = Cardinality(low) /\ Rank(S, y) = Cardinality(high)
  BY DEF Rank
<1>6. Rank(S, x) \in Nat /\ Rank(S, y) \in Nat
  BY RankNat
<1> QED
  BY <1>3, <1>4, <1>5, <1>6

LEMMA PageByRank ==
    ASSUME NEW S, NEW n
    PROVE  PageOf(S, n) = {x \in S : (n - 1) * PageSize <= Rank(S, x) /\ Rank(S, x) < n * PageSize}
BY DEF PageOf, Rank

\* The ranks are all the numbers below the size of the set.
LEMMA EveryRankTaken ==
    ASSUME NEW S \in SUBSET Nat, IsFiniteSet(S), NEW k \in Nat, k < Cardinality(S)
    PROVE  \E x \in S : Rank(S, x) = k
<1> DEFINE ranks == 0 .. Cardinality(S) - 1
           rank == [x \in S |-> Rank(S, x)]
<1>1. Cardinality(S) \in Nat
  BY FS_CardinalityType
<1>2. IsFiniteSet(ranks) /\ Cardinality(ranks) = Cardinality(S)
  <2>1. 0 \in Int /\ Cardinality(S) - 1 \in Int
    BY <1>1
  <2>2. /\ IsFiniteSet(ranks)
        /\ Cardinality(ranks) = IF 0 > Cardinality(S) - 1 THEN 0
                                ELSE Cardinality(S) - 1 - 0 + 1
    BY <2>1, FS_Interval
  <2> QED
    BY <1>1, <2>2
<1>3. \A x \in S : Rank(S, x) \in ranks
  <2> SUFFICES ASSUME NEW x \in S PROVE Rank(S, x) \in ranks
    OBVIOUS
  <2>1. Rank(S, x) \in Nat /\ Rank(S, x) < Cardinality(S)
    BY RankNat, RankBelowSize
  <2> QED
    BY <2>1, <1>1
<1>4. \A x, y \in S : Rank(S, x) = Rank(S, y) => x = y
  <2> SUFFICES ASSUME NEW x \in S, NEW y \in S, x # y PROVE Rank(S, x) # Rank(S, y)
    OBVIOUS
  <2>1. x \in Nat /\ y \in Nat
    OBVIOUS
  <2>2. Rank(S, x) \in Nat /\ Rank(S, y) \in Nat
    BY RankNat
  <2>3. CASE x < y
    BY <2>2, <2>3, RankOrders
  <2>4. CASE y < x
    BY <2>2, <2>4, RankOrders
  <2> QED
    BY <2>1, <2>3, <2>4
<1>5. rank \in Injection(S, ranks)
  BY <1>3, <1>4, Fun_IsInj
<1>6. rank \in Surjection(S, ranks)
  BY <1>2, <1>5, FS_Injection
<1>7. k \in ranks
  BY <1>1
<1>8. \E x \in S : rank[x] = k
  BY <1>6, <1>7 DEF Surjection
<1> QED
  BY <1>8

\* If somebody comes after a page, the page is full.
LEMMA PageBeforeIsFull ==
    ASSUME NEW S \in SUBSET Nat, IsFiniteSet(S), NEW n \in Nat \ {0},
           NEW x \in S, n * PageSize <= Rank(S, x)
    PROVE  Cardinality(PageOf(S, n)) = PageSize
<1> DEFINE from == (n - 1) * PageSize
           below == n * PageSize
           places == from .. below - 1
           place == [y \in PageOf(S, n) |-> Rank(S, y)]
<1>1. PageSize \in Nat \ {0}
  BY FetchAssumption
<1>2. from \in Nat /\ below \in Nat /\ below = from + PageSize
  BY <1>1
<1>3. PageOf(S, n) = {y \in S : from <= Rank(S, y) /\ Rank(S, y) < below}
  BY PageByRank
<1>4. below <= Rank(S, x)
  OBVIOUS
<1>5. Rank(S, x) \in Nat /\ Rank(S, x) < Cardinality(S)
  BY RankNat, RankBelowSize
<1>6. Cardinality(S) \in Nat
  BY FS_CardinalityType
<1>7. \A y \in S : y \in Nat /\ Rank(S, y) \in Nat
  BY RankNat
<1> HIDE DEF from, below
<1>8. IsFiniteSet(places) /\ Cardinality(places) = PageSize
  BY <1>1, <1>2, FS_Interval
<1>9. \A y \in PageOf(S, n) : Rank(S, y) \in places
  <2> SUFFICES ASSUME NEW y \in PageOf(S, n) PROVE Rank(S, y) \in places
    OBVIOUS
  <2>1. Rank(S, y) \in Nat /\ from <= Rank(S, y) /\ Rank(S, y) < below
    BY <1>3, <1>7
  <2> QED
    BY <2>1, <1>2
<1>10. \A y, z \in PageOf(S, n) : Rank(S, y) = Rank(S, z) => y = z
  <2> SUFFICES ASSUME NEW y \in S, NEW z \in S, y # z PROVE Rank(S, y) # Rank(S, z)
    BY <1>3
  <2>1. CASE y < z
    BY <2>1, <1>7, RankOrders
  <2>2. CASE z < y
    BY <2>2, <1>7, RankOrders
  <2> QED
    BY <1>7, <2>1, <2>2
<1>11. \A k \in places : \E y \in PageOf(S, n) : Rank(S, y) = k
  <2> SUFFICES ASSUME NEW k \in places PROVE \E y \in PageOf(S, n) : Rank(S, y) = k
    OBVIOUS
  <2>1. k \in Nat /\ from <= k /\ k < below
    BY <1>2
  <2>2. k < Cardinality(S)
    BY <1>2, <1>4, <1>5, <1>6, <2>1
  <2>3. PICK y \in S : Rank(S, y) = k
    BY <2>1, <2>2, EveryRankTaken
  <2> QED
    BY <2>1, <2>3, <1>3
<1>12. place \in Injection(PageOf(S, n), places)
  BY <1>9, <1>10, Fun_IsInj
<1>13. place \in Surjection(PageOf(S, n), places)
  BY <1>9, <1>11, Fun_IsSurj
<1>14. Cardinality(PageOf(S, n)) = Cardinality(places)
  BY <1>8, <1>12, <1>13, FS_Injection
<1> QED
  BY <1>8, <1>14

\* No page has more than its size.
LEMMA PageAtMostFull ==
    ASSUME NEW S \in SUBSET Nat, IsFiniteSet(S), NEW n \in Nat \ {0}
    PROVE  IsFiniteSet(PageOf(S, n)) /\ Cardinality(PageOf(S, n)) <= PageSize
<1> DEFINE from == (n - 1) * PageSize
           below == n * PageSize
           places == from .. below - 1
           place == [y \in PageOf(S, n) |-> Rank(S, y)]
<1>1. PageSize \in Nat \ {0}
  BY FetchAssumption
<1>2. from \in Nat /\ below \in Nat /\ below = from + PageSize
  BY <1>1
<1>3. PageOf(S, n) = {y \in S : from <= Rank(S, y) /\ Rank(S, y) < below}
  BY PageByRank
<1>4. \A y \in S : y \in Nat /\ Rank(S, y) \in Nat
  BY RankNat
<1> HIDE DEF from, below
<1>5. IsFiniteSet(places) /\ Cardinality(places) = PageSize
  BY <1>1, <1>2, FS_Interval
<1>6. \A y \in PageOf(S, n) : Rank(S, y) \in places
  <2> TAKE y \in PageOf(S, n)
  <2>1. Rank(S, y) \in Nat /\ from <= Rank(S, y) /\ Rank(S, y) < below
    BY <1>3, <1>4
  <2> QED
    BY <1>2, <2>1
<1>7. \A y, z \in PageOf(S, n) : Rank(S, y) = Rank(S, z) => y = z
  <2> SUFFICES ASSUME NEW y \in S, NEW z \in S, y # z PROVE Rank(S, y) # Rank(S, z)
    BY <1>3
  <2>1. y < z \/ z < y
    BY <1>4
  <2>2. Rank(S, z) < Rank(S, y) \/ Rank(S, y) < Rank(S, z)
    BY <2>1, RankOrders
  <2> QED
    BY <1>4, <2>2
<1>8. place \in Injection(PageOf(S, n), places)
  BY <1>6, <1>7, Fun_IsInj
<1> QED
  BY <1>5, <1>8, FS_Injection

\* More before it, a greater rank.
LEMMA RankGrows ==
    ASSUME NEW S, NEW T, S \subseteq T, IsFiniteSet(T), NEW x
    PROVE  Rank(S, x) <= Rank(T, x)
<1> DEFINE mine == {y \in S : y > x}
           theirs == {y \in T : y > x}
<1>1. IsFiniteSet(theirs) /\ mine \subseteq theirs
  BY FS_Subset
<1>2. Cardinality(mine) <= Cardinality(theirs)
  BY <1>1, FS_Subset
<1> QED
  BY <1>2 DEF Rank

-----------------------------------------------------------------------------
(* Types.  The free places of the semaphore and those that are taken are   *)
(* all there are: an acquisition and a release change both.                *)

\* Some more of a makes as much more in total.
LEMMA SomeMore ==
    ASSUME NEW S, IsFiniteSet(S), NEW f \in [S -> Nat], NEW g \in [S -> Nat], NEW a \in S,
           NEW more \in Nat, f[a] = g[a] + more, \A x \in S \ {a} : f[x] = g[x]
    PROVE  Total(f) = Total(g) + more
<1> DEFINE others == [x \in S |-> IF x = a THEN 0 ELSE g[x]]
           mineOf == [x \in S |-> IF x = a THEN f[a] ELSE 0]
           mine == [x \in S |-> IF x = a THEN g[a] ELSE 0]
<1>1. others \in [S -> Nat] /\ mine \in [S -> Nat] /\ mineOf \in [S -> Nat]
  OBVIOUS
<1>2. mineOf[a] = f[a] /\ mine[a] = g[a] /\ others[a] = 0
  OBVIOUS
<1>3. \A x \in S : x # a => mineOf[x] = 0 /\ mine[x] = 0 /\ others[x] = g[x]
  OBVIOUS
<1> HIDE DEF others, mine, mineOf
<1>4. IsFiniteSet(Units(others)) /\ IsFiniteSet(Units(mine)) /\ IsFiniteSet(Units(mineOf))
  BY <1>1, TotalType
<1>5. Total(mineOf) = f[a]
  BY <1>1, <1>2, <1>3, TotalOfOne
<1>6. Total(mine) = g[a]
  BY <1>1, <1>2, <1>3, TotalOfOne
<1>7. Total(f) = Total(others) + Total(mineOf)
  BY <1>1, <1>2, <1>3, <1>4, TotalSplit
<1>8. Total(g) = Total(others) + Total(mine)
  BY <1>1, <1>2, <1>3, <1>4, TotalSplit
<1>9. Total(others) \in Nat
  BY <1>1, TotalType
<1> QED
  BY <1>5, <1>6, <1>7, <1>8, <1>9

LEMMA Constants ==
    /\ Users \in SUBSET Nat /\ IsFiniteSet(Users)
    /\ PRs \in SUBSET Nat /\ IsFiniteSet(PRs)
    /\ Committers \in SUBSET Nat /\ IsFiniteSet(Committers) /\ Committers \subseteq Users
    /\ PageSize \in Nat \ {0} /\ MaxAttempts \in Nat \ {0} /\ MaxParallel \in Nat \ {0}
    /\ MaxChanges \in Nat
<1>1. IsFiniteSet(Committers)
  BY FetchAssumption, FS_Subset
<1> QED
  BY <1>1, FetchAssumption

LEMMA OneMoreDiff ==
    \A f, g \in [PRs -> Nat], p \in PRs :
        f[p] = g[p] + 1 /\ (\A q \in PRs \ {p} : f[q] = g[q]) => Total(f) = Total(g) + 1
<1> TAKE f, g \in [PRs -> Nat], p \in PRs
<1> HAVE f[p] = g[p] + 1 /\ (\A q \in PRs \ {p} : f[q] = g[q])
<1>1. IsFiniteSet(PRs)
  BY Constants
<1> QED
  BY <1>1, SomeMore

LEMMA PlusType ==
    ASSUME NEW D, NEW tally \in [D -> Nat], NEW S
    PROVE  /\ Plus(tally, S) \in [D -> Nat]
           /\ \A x \in D : Plus(tally, S)[x] = IF x \in S THEN tally[x] + 1 ELSE tally[x]
BY DEF Plus

LEMMA JobsType ==
    ASSUME NEW tally \in [PRs -> Nat]
    PROVE  Jobs(tally) \in [PRs -> Nat]
BY DEF Jobs

LEMMA FetchTypeInit == Init => FetchTypeOK
<1> SUFFICES ASSUME Init PROVE FetchTypeOK
  OBVIOUS
<1> USE Constants
<1>1. None \in [PRs -> Nat] /\ \A p \in PRs : None[p] = 0
  BY DEF None
<1>2. Nobody \in [Users -> Nat]
  BY DEF Nobody
<1>3. Total(None) = 0
  BY <1>1, TotalZero
<1>4. {listed, todo, busy, diffs, lost} \subseteq [PRs -> Nat] /\ Total(busy) = 0
  BY <1>1, <1>3 DEF Init, FetchInit
<1>5. closed \subseteq PRs /\ merged \subseteq closed /\ settled = merged
  BY DEF Init, FetchInit
<1>6. attempt \in 1 .. MaxAttempts /\ page \in Nat \ {0} /\ changes \in 0 .. MaxChanges
  BY DEF Init, FetchInit
<1>7. slots \in 0 .. MaxParallel /\ slots + Total(busy) = MaxParallel
  BY <1>4 DEF Init, FetchInit
<1>8. found \in [Users -> Nat] /\ counted \in BOOLEAN /\ reopened \in BOOLEAN
  BY <1>2 DEF Init, FetchInit
<1> QED
  BY <1>4, <1>5, <1>6, <1>7, <1>8 DEF FetchTypeOK

\* What leaves the fetch's variables alone, but for the stage.
StillFetch == UNCHANGED <<repo, page, people, pulls>>

LEMMA FetchTypeStill == FetchTypeOK /\ StillFetch => FetchTypeOK'
BY DEF FetchTypeOK, StillFetch, repo, people, pulls

LEMMA FetchTypeAcquire ==
    ASSUME FetchTypeOK, NEW p \in PRs, Acquire(p)
    PROVE  FetchTypeOK'
<1> USE Constants
<1>1. busy \in [PRs -> Nat] /\ busy' \in [PRs -> Nat] /\ todo' \in [PRs -> Nat]
  BY DEF FetchTypeOK, Acquire
<1>2. busy'[p] = busy[p] + 1 /\ \A q \in PRs \ {p} : busy'[q] = busy[q]
  BY <1>1 DEF Acquire
<1>3. Total(busy') = Total(busy) + 1
  <2>1. IsFiniteSet(PRs) /\ p \in PRs /\ busy'[p] = busy[p] + 1
        /\ \A q \in PRs \ {p} : busy'[q] = busy[q]
    BY <1>2
  <2> QED
    BY <1>1, <2>1, OneMoreDiff, Zenon
<1>4. Total(busy) \in Nat
  BY <1>1, TotalType
<1>5. slots' \in 0 .. MaxParallel /\ slots' + Total(busy') = MaxParallel
  BY <1>3, <1>4 DEF FetchTypeOK, Acquire
<1> QED
  BY <1>1, <1>5 DEF FetchTypeOK, Acquire, repo, people

\* A place is given back whatever became of the diff.
LEMMA FetchTypeRelease ==
    ASSUME FetchTypeOK, NEW p \in PRs, AppendDiff(p) \/ LoseDiff(p)
    PROVE  FetchTypeOK'
<1> USE Constants
<1>1. busy \in [PRs -> Nat] /\ busy' \in [PRs -> Nat] /\ busy[p] > 0
  BY DEF FetchTypeOK, AppendDiff, LoseDiff
<1>2. busy[p] = busy'[p] + 1 /\ \A q \in PRs \ {p} : busy[q] = busy'[q]
  BY <1>1 DEF AppendDiff, LoseDiff
<1>3. Total(busy) = Total(busy') + 1
  <2>1. IsFiniteSet(PRs) /\ p \in PRs /\ busy[p] = busy'[p] + 1
        /\ \A q \in PRs \ {p} : busy[q] = busy'[q]
    BY <1>2
  <2> QED
    BY <1>1, <2>1, OneMoreDiff, Zenon
<1>4. Total(busy') \in Nat
  BY <1>1, TotalType
<1>5. slots' \in 0 .. MaxParallel /\ slots' + Total(busy') = MaxParallel
  BY <1>3, <1>4 DEF FetchTypeOK, AppendDiff, LoseDiff
<1>6. diffs' \in [PRs -> Nat] /\ lost' \in [PRs -> Nat]
  BY DEF FetchTypeOK, AppendDiff, LoseDiff
<1>7. {listed', todo', busy', diffs', lost'} \subseteq [PRs -> Nat]
  BY <1>1, <1>6 DEF FetchTypeOK, AppendDiff, LoseDiff
<1> QED
  BY <1>5, <1>7 DEF FetchTypeOK, AppendDiff, LoseDiff, repo, people

LEMMA FetchTypePage == FetchTypeOK /\ ListPage => FetchTypeOK'
<1> SUFFICES ASSUME FetchTypeOK, ListPage PROVE FetchTypeOK'
  OBVIOUS
<1>1. listed \in [PRs -> Nat] /\ todo \in [PRs -> Nat] /\ page \in Nat \ {0}
  BY DEF FetchTypeOK
<1>2. listed' \in [PRs -> Nat]
  BY <1>1, PlusType DEF ListPage
<1>3. todo' \in [PRs -> Nat]
  <2>1. todo' = todo \/ todo' = Jobs(listed')
    BY DEF ListPage
  <2>2. Jobs(listed') \in [PRs -> Nat]
    BY <1>2 DEF Jobs
  <2> QED
    BY <1>1, <2>1, <2>2
<1>4. page' \in Nat \ {0}
  BY <1>1 DEF ListPage
<1> QED
  BY <1>2, <1>3, <1>4 DEF FetchTypeOK, ListPage, repo, people

LEMMA FetchTypePeople ==
    FetchTypeOK /\ (FetchContributors \/ FindDefaultBranch \/ ListBranches \/ FetchBranchCommits)
        => FetchTypeOK'
<1> SUFFICES ASSUME FetchTypeOK,
                    FetchContributors \/ FindDefaultBranch \/ ListBranches \/ FetchBranchCommits
             PROVE  FetchTypeOK'
  OBVIOUS
<1> USE Constants
<1>1. found \in [Users -> Nat] /\ page \in Nat \ {0} /\ attempt \in 1 .. MaxAttempts
  BY DEF FetchTypeOK
<1>2. Nobody \in [Users -> Nat]
  BY DEF Nobody
<1>3. CASE FetchContributorPage
  <2>1. found' \in [Users -> Nat] /\ page' \in Nat \ {0} /\ attempt' \in 1 .. MaxAttempts
    BY <1>1, <1>3, PlusType DEF FetchContributorPage
  <2> QED
    BY <1>3, <2>1 DEF FetchTypeOK, FetchContributorPage, repo, pulls
<1>4. CASE RetryContributors
  BY <1>1, <1>2, <1>4 DEF FetchTypeOK, RetryContributors, repo, pulls
<1>5. CASE GiveUpContributors
  BY <1>1, <1>2, <1>5 DEF FetchTypeOK, GiveUpContributors, repo, pulls
<1>6. CASE CountPullRequests
  BY <1>1, <1>6 DEF FetchTypeOK, CountPullRequests, repo, pulls
<1>7. CASE FindDefaultBranch \/ ListBranches
  BY <1>7, FetchTypeStill DEF FindDefaultBranch, ListBranches, StillFetch
<1>8. CASE FetchBranchCommits
  <2>1. found' \in [Users -> Nat]
    <3>1. PICK authors \in SUBSET Committers : found' = Plus(Nobody, authors)
      BY <1>8 DEF FetchBranchCommits
    <3> QED
      BY <1>2, <3>1, PlusType
  <2> QED
    BY <1>8, <2>1 DEF FetchTypeOK, FetchBranchCommits, repo, pulls
<1> QED
  BY <1>3, <1>4, <1>5, <1>6, <1>7, <1>8 DEF FetchContributors

LEMMA FetchTypeRepository == FetchTypeOK /\ Repository => FetchTypeOK'
<1> SUFFICES ASSUME FetchTypeOK, NEW p \in PRs, ClosePR(p) \/ ReopenPR(p) PROVE FetchTypeOK'
  BY DEF Repository
<1> USE Constants
<1>1. changes' \in 0 .. MaxChanges
  BY DEF FetchTypeOK, ClosePR, ReopenPR
<1>2. CASE ClosePR(p)
  <2>1. closed' \subseteq PRs /\ merged' \subseteq closed' /\ settled' \subseteq merged'
    BY <1>2 DEF FetchTypeOK, ClosePR
  <2> QED
    BY <1>1, <1>2, <2>1 DEF FetchTypeOK, ClosePR, people, pulls
<1>3. CASE ReopenPR(p)
  <2>1. closed' \subseteq PRs /\ merged' \subseteq closed' /\ settled' \subseteq merged'
    BY <1>3 DEF FetchTypeOK, ReopenPR
  <2> QED
    BY <1>1, <1>3, <2>1 DEF FetchTypeOK, ReopenPR, people, pulls
<1> QED
  BY <1>2, <1>3

LEMMA EvaluateStill == Evaluate => StillFetch
BY DEF Evaluate, ChoosePath, EvaluateCodeImpact, EvaluateMetrics, NormalizeAgain, Commit, StillFetch

LEMMA FetchTypeStep == FetchTypeOK /\ [Next]_vars => FetchTypeOK'
<1> SUFFICES ASSUME FetchTypeOK, [Next]_vars PROVE FetchTypeOK'
  OBVIOUS
<1>1. CASE Fetch
  <2>1. CASE FailListing \/ AllFetched
    BY <2>1, FetchTypeStill DEF FailListing, AllFetched, StillFetch
  <2>2. CASE ListPage
    BY <2>2, FetchTypePage
  <2>3. CASE \E p \in PRs : Acquire(p) \/ AppendDiff(p) \/ LoseDiff(p)
    BY <2>3, FetchTypeAcquire, FetchTypeRelease
  <2> QED
    BY <1>1, <2>1, <2>2, <2>3, FetchTypePeople, Zenon DEF Fetch, FetchDiffs
<1>2. CASE Repository
  BY <1>2, FetchTypeRepository
<1>3. CASE Evaluate
  BY <1>3, EvaluateStill, FetchTypeStill
<1>4. CASE UNCHANGED vars
  BY <1>4, FetchTypeStill DEF vars, fetchVars, StillFetch
<1> QED
  BY <1>1, <1>2, <1>3, <1>4, Zenon DEF Next

\* The fetch's variables are well typed in every reachable state, and the semaphore
\* never loses or gains a place.
THEOREM FetchTypeCorrect == Spec => []FetchTypeOK
<1>1. Init => FetchTypeOK
  BY FetchTypeInit
<1>2. FetchTypeOK /\ [Next]_vars => FetchTypeOK'
  BY FetchTypeStep
<1> QED
  BY <1>1, <1>2, PTL DEF Spec

-----------------------------------------------------------------------------
(* The invariant of the fetch.  While the contributors are listed, those   *)
(* found are on earlier pages; while the pull requests are, one merged     *)
(* before the fetch is listed or still to come; and nothing is in the      *)
(* hands of a goroutine before the list is complete.                       *)

Before1 == {"contributors", "counts", "branch", "branches", "commits"}

FirstPage == stage \in Before1 \ {"contributors"} => page = 1

OnEarlierPages ==
    stage = "contributors" =>
        \A u \in Users : found[u] > 0 => Rank(Committers, u) < (page - 1) * PageSize

ListedOrToCome ==
    stage = "listing" /\ ~reopened =>
        \A p \in settled : listed[p] > 0 \/ (page - 1) * PageSize <= Rank(closed, p)

NothingStarted ==
    stage \in Before1 \cup {"listing"} =>
        \A p \in PRs : todo[p] = 0 /\ busy[p] = 0 /\ diffs[p] = 0 /\ lost[p] = 0

ContributorInv == OnEarlierPages /\ EachContributorOnce
ListInv == FirstPage /\ ListedOrToCome /\ NoneOverlooked
DiffInv == NothingStarted /\ NoDiffMixedUp

LEMMA ContributorInit == Init => ContributorInv
<1>1. \A u \in Users : Nobody[u] = 0
  BY DEF Nobody
<1> QED
  BY <1>1 DEF Init, FetchInit, ContributorInv, OnEarlierPages, EachContributorOnce

\* Who is on this page was on none before.
LEMMA ContributorPage ==
    ASSUME FetchTypeOK, ContributorInv, FetchContributorPage
    PROVE  ContributorInv'
<1> DEFINE here == (page - 1) * PageSize
           next == page * PageSize
<1>1. found \in [Users -> Nat] /\ page \in Nat \ {0} /\ PageSize \in Nat \ {0}
  BY Constants DEF FetchTypeOK
<1>2. here \in Nat /\ next \in Nat /\ next = here + PageSize
  BY <1>1
<1>3. (page' = page + 1) => (page' - 1) * PageSize = next
  BY <1>1
<1>4. \A u \in Users : u \in PageOf(Committers, page) =>
          here <= Rank(Committers, u) /\ Rank(Committers, u) < next
  BY PageByRank
<1>5. \A u \in Users : found'[u] = IF u \in PageOf(Committers, page) THEN found[u] + 1 ELSE found[u]
  BY <1>1, PlusType DEF FetchContributorPage
<1>6. \A u \in Users : Rank(Committers, u) \in Nat
  BY Constants, RankNat
<1>7. \A u \in Users : found[u] <= 1 /\ (found[u] > 0 => Rank(Committers, u) < here)
  BY DEF ContributorInv, OnEarlierPages, EachContributorOnce, FetchContributorPage
<1> HIDE DEF here, next
<1>8. \A u \in Users : found'[u] <= 1 /\ (found'[u] > 0 => Rank(Committers, u) < next)
  <2> SUFFICES ASSUME NEW u \in Users
               PROVE  found'[u] <= 1 /\ (found'[u] > 0 => Rank(Committers, u) < next)
    OBVIOUS
  <2>1. found[u] \in Nat
    BY <1>1
  <2>2. CASE u \in PageOf(Committers, page)
    <3>1. ~(found[u] > 0)
      BY <2>2, <1>2, <1>4, <1>6, <1>7
    <3> QED
      BY <2>1, <2>2, <3>1, <1>4, <1>5
  <2>3. CASE u \notin PageOf(Committers, page)
    <3>1. found'[u] = found[u] /\ Rank(Committers, u) \in Nat
      BY <2>3, <1>5, <1>6
    <3>2. found[u] <= 1 /\ (found[u] > 0 => Rank(Committers, u) < here)
      BY <1>7
    <3>3. here < next
      BY <1>1, <1>2
    <3> QED
      BY <3>1, <3>2, <3>3, <1>2
  <2> QED
    BY <2>2, <2>3
<1>9. stage' = "contributors" => page' = page + 1
  BY DEF FetchContributorPage
<1>10. EachContributorOnce'
  BY <1>8 DEF EachContributorOnce
<1>11. OnEarlierPages'
  BY <1>3, <1>8, <1>9 DEF OnEarlierPages
<1> QED
  BY <1>10, <1>11 DEF ContributorInv

\* The list of contributors is only made where it is.
LEMMA ContributorFrame ==
    ASSUME ContributorInv, found' = found, stage' # "contributors"
    PROVE  ContributorInv'
BY DEF ContributorInv, OnEarlierPages, EachContributorOnce

LEMMA ContributorStep == FetchTypeOK /\ ContributorInv /\ [Next]_vars => ContributorInv'
<1> SUFFICES ASSUME FetchTypeOK, ContributorInv, [Next]_vars PROVE ContributorInv'
  OBVIOUS
<1>1. \A u \in Users : Nobody[u] = 0
  BY DEF Nobody
<1>2. CASE RetryContributors \/ GiveUpContributors
  <2>1. \A u \in Users : found'[u] = 0
    BY <1>1, <1>2 DEF RetryContributors, GiveUpContributors
  <2> QED
    BY <2>1 DEF ContributorInv, OnEarlierPages, EachContributorOnce
<1>3. CASE FetchBranchCommits
  <2>1. PICK authors \in SUBSET Committers : found' = Plus(Nobody, authors)
    BY <1>3 DEF FetchBranchCommits
  <2>2. Nobody \in [Users -> Nat]
    BY DEF Nobody
  <2>3. \A u \in Users : found'[u] <= 1
    BY <1>1, <2>1, <2>2, PlusType
  <2>4. stage' # "contributors"
    BY <1>3 DEF FetchBranchCommits
  <2> QED
    BY <2>3, <2>4 DEF ContributorInv, OnEarlierPages, EachContributorOnce
<1>4. CASE CountPullRequests \/ FindDefaultBranch \/ ListBranches \/ ListPage \/ FailListing
  <2>1. found' = found /\ stage' # "contributors"
    BY <1>4 DEF CountPullRequests, FindDefaultBranch, ListBranches, ListPage, FailListing, people
  <2> QED
    BY <2>1, ContributorFrame
<1>5. CASE FetchDiffs
  <2>1. found' = found /\ stage' # "contributors"
    BY <1>5 DEF FetchDiffs, AllFetched, Acquire, AppendDiff, LoseDiff, people
  <2> QED
    BY <2>1, ContributorFrame
<1>6. CASE Repository
  <2>1. found' = found /\ stage' # "contributors"
    BY <1>6 DEF Repository, ClosePR, ReopenPR, people
  <2> QED
    BY <2>1, ContributorFrame
<1>7. CASE Evaluate
  <2>1. found' = found /\ stage' # "contributors"
    BY <1>7 DEF Evaluate, ChoosePath, EvaluateCodeImpact, EvaluateMetrics, NormalizeAgain, Commit,
                people
  <2> QED
    BY <2>1, ContributorFrame
<1>8. CASE UNCHANGED vars
  <2>1. found' = found /\ stage' = stage /\ page' = page
    BY <1>8 DEF vars, fetchVars, people
  <2> QED
    BY <2>1 DEF ContributorInv, OnEarlierPages, EachContributorOnce
<1>9. CASE FetchContributorPage
  BY <1>9, ContributorPage
<1> QED
  BY <1>2, <1>3, <1>4, <1>5, <1>6, <1>7, <1>8, <1>9, Zenon DEF Next, Fetch, FetchContributors

\* For any list of contributors, page size and number of retries, nobody is in the
\* list twice.
THEOREM EachContributorOnceCorrect == Spec => []EachContributorOnce
<1>1. Init => FetchTypeOK /\ ContributorInv
  BY FetchTypeInit, ContributorInit
<1>2. FetchTypeOK /\ ContributorInv /\ [Next]_vars => FetchTypeOK' /\ ContributorInv'
  BY FetchTypeStep, ContributorStep
<1>3. ContributorInv => EachContributorOnce
  BY DEF ContributorInv
<1> QED
  BY <1>1, <1>2, <1>3, PTL DEF Spec

LEMMA ListInit == Init => ListInv
BY DEF Init, FetchInit, ListInv, FirstPage, ListedOrToCome, NoneOverlooked, Before1

\* A page that is not full is the last, so nobody merged before is still to come.
LEMMA ListPageStep ==
    ASSUME FetchTypeOK, ListInv, ListPage
    PROVE  ListInv'
<1> DEFINE here == (page - 1) * PageSize
           next == page * PageSize
           got == PageOf(closed, page)
<1>1. /\ listed \in [PRs -> Nat] /\ page \in Nat \ {0} /\ PageSize \in Nat \ {0}
      /\ closed \in SUBSET Nat /\ IsFiniteSet(closed)
      /\ settled \subseteq closed /\ settled \subseteq merged /\ settled \subseteq PRs
  <2>1. closed \in SUBSET PRs
    BY DEF FetchTypeOK
  <2>2. IsFiniteSet(closed) /\ closed \in SUBSET Nat
    BY <2>1, Constants, FS_Subset
  <2> QED
    BY <2>1, <2>2, Constants DEF FetchTypeOK
<1>2. (page' = page + 1) => (page' - 1) * PageSize = next
  BY <1>1
<1>3. \A p \in settled : p \in got <=> here <= Rank(closed, p) /\ Rank(closed, p) < next
  BY <1>1, PageByRank
<1>4. \A p \in PRs : listed'[p] = IF p \in got \cap merged THEN listed[p] + 1 ELSE listed[p]
  BY <1>1, PlusType DEF ListPage
<1>5. \A p \in settled : Rank(closed, p) \in Nat
  BY <1>1, RankNat
<1>6. \A p \in settled : next <= Rank(closed, p) => Cardinality(got) = PageSize
  BY <1>1, PageBeforeIsFull
<1>7. ~reopened => \A p \in settled : listed[p] > 0 \/ here <= Rank(closed, p)
  BY DEF ListInv, ListedOrToCome, ListPage
<1>8. here \in Nat /\ next \in Nat
  BY <1>1
<1> HIDE DEF here, next
<1>9. ~reopened => \A p \in settled : listed'[p] > 0 \/ next <= Rank(closed, p)
  <2> SUFFICES ASSUME ~reopened, NEW p \in settled
               PROVE  listed'[p] > 0 \/ next <= Rank(closed, p)
    OBVIOUS
  <2>1. p \in merged /\ p \in PRs /\ listed[p] \in Nat
    BY <1>1
  <2>2. listed'[p] = IF p \in got THEN listed[p] + 1 ELSE listed[p]
    BY <2>1, <1>4
  <2>3. listed[p] > 0 \/ here <= Rank(closed, p)
    BY <1>7
  <2>4. Rank(closed, p) \in Nat
    BY <1>5
  <2>5. p \in got <=> here <= Rank(closed, p) /\ Rank(closed, p) < next
    BY <1>3
  <2> HIDE DEF got
  <2> QED
    BY <2>1, <2>2, <2>3, <2>4, <2>5, <1>8
<1>10. reopened' = reopened /\ settled' = settled /\ closed' = closed
  BY DEF ListPage, repo
<1>11. CASE Cardinality(got) = PageSize
  <2>1. stage' = "listing" /\ page' = page + 1
    BY <1>11 DEF ListPage
  <2> HIDE DEF got
  <2>2. ListedOrToCome'
    BY <2>1, <1>2, <1>9, <1>10 DEF ListedOrToCome
  <2> QED
    BY <2>1, <2>2 DEF ListInv, FirstPage, NoneOverlooked, Before1
<1>12. CASE Cardinality(got) # PageSize
  <2>1. stage' = "diffs"
    BY <1>12 DEF ListPage
  <2>2. ~reopened => \A p \in settled : listed'[p] > 0
    BY <1>6, <1>9, <1>12
  <2> QED
    BY <2>1, <2>2, <1>10 DEF ListInv, FirstPage, ListedOrToCome, NoneOverlooked, Before1
<1> QED
  BY <1>11, <1>12

\* What is closed meanwhile moves those listed towards later pages.
LEMMA ListRepository == FetchTypeOK /\ ListInv /\ Repository => ListInv'
<1> SUFFICES ASSUME FetchTypeOK, ListInv, NEW q \in PRs, ClosePR(q) \/ ReopenPR(q) PROVE ListInv'
  BY DEF Repository
<1>1. CASE ReopenPR(q)
  BY <1>1 DEF ListInv, FirstPage, ListedOrToCome, NoneOverlooked, Before1, ReopenPR, pulls
<1>2. CASE ClosePR(q)
  <2>1. closed \subseteq closed' /\ closed' \in SUBSET PRs
    BY <1>2 DEF FetchTypeOK, ClosePR
  <2>2. IsFiniteSet(closed) /\ IsFiniteSet(closed')
    BY <2>1, Constants, FS_Subset
  <2>3. \A p \in settled : Rank(closed, p) <= Rank(closed', p)
    BY <2>1, <2>2, RankGrows
  <2>4. \A p \in settled : Rank(closed, p) \in Nat /\ Rank(closed', p) \in Nat
    BY <2>2, RankNat
  <2>5. page \in Nat \ {0} /\ PageSize \in Nat
    BY Constants DEF FetchTypeOK
  <2>6. (page - 1) * PageSize \in Nat
    BY <2>5
  <2>7. /\ stage = "listing" /\ stage' = stage /\ page' = page /\ listed' = listed
        /\ settled' = settled /\ reopened' = reopened
    BY <1>2 DEF ClosePR, pulls
  <2>8. ~reopened => \A p \in settled : listed[p] > 0 \/ (page - 1) * PageSize <= Rank(closed', p)
    <3> SUFFICES ASSUME ~reopened, NEW p \in settled, ~(listed[p] > 0)
                 PROVE  (page - 1) * PageSize <= Rank(closed', p)
      OBVIOUS
    <3>1. (page - 1) * PageSize <= Rank(closed, p)
      BY <2>7 DEF ListInv, ListedOrToCome
    <3>2. /\ Rank(closed, p) <= Rank(closed', p)
          /\ Rank(closed, p) \in Nat /\ Rank(closed', p) \in Nat
      BY <2>3, <2>4
    <3> DEFINE here == (page - 1) * PageSize
    <3>3. here \in Nat /\ here <= Rank(closed, p)
      BY <3>1, <2>6
    <3> HIDE DEF here
    <3>4. here <= Rank(closed', p)
      BY <3>2, <3>3
    <3> QED
      BY <3>4 DEF here
  <2>9. ListedOrToCome'
    BY <2>7, <2>8 DEF ListedOrToCome
  <2> QED
    BY <2>7, <2>9 DEF ListInv, FirstPage, NoneOverlooked, Before1
<1> QED
  BY <1>1, <1>2

\* The list begins with the first page, to which everybody is still to come.
LEMMA ListBegins ==
    ASSUME FetchTypeOK, page' = 1, stage' = "listing",
           listed' = listed, settled' = settled, closed' = closed
    PROVE  ListInv'
<1>1. (page' - 1) * PageSize = 0
  BY Constants
<1>2. IsFiniteSet(closed)
  BY Constants, FS_Subset DEF FetchTypeOK
<1>3. \A p \in settled : 0 <= Rank(closed, p)
  <2>1. \A p \in settled : Rank(closed, p) \in Nat
    BY <1>2, RankNat
  <2> QED
    BY <2>1
<1>4. ListedOrToCome'
  BY <1>1, <1>3 DEF ListedOrToCome
<1> QED
  BY <1>4 DEF ListInv, FirstPage, NoneOverlooked, Before1

LEMMA ListPeople ==
    FetchTypeOK /\ ListInv
        /\ (FetchContributors \/ FindDefaultBranch \/ ListBranches \/ FetchBranchCommits)
        => ListInv'
<1> SUFFICES ASSUME FetchTypeOK, ListInv,
                    FetchContributors \/ FindDefaultBranch \/ ListBranches \/ FetchBranchCommits
             PROVE  ListInv'
  OBVIOUS
<1>1. listed' = listed /\ settled' = settled /\ closed' = closed
  BY DEF FetchContributors, FetchContributorPage, RetryContributors, GiveUpContributors,
         CountPullRequests, FindDefaultBranch, ListBranches, FetchBranchCommits, repo, pulls
<1>2. CASE FetchContributorPage \/ RetryContributors \/ GiveUpContributors
  <2>1. stage' \in {"contributors", "branch", "counts"} /\ (stage' # "contributors" => page' = 1)
    BY <1>2 DEF FetchContributorPage, RetryContributors, GiveUpContributors
  <2> QED
    BY <2>1 DEF ListInv, FirstPage, ListedOrToCome, NoneOverlooked, Before1
<1>3. CASE CountPullRequests
  <2>1. page' = 1 /\ stage' = "listing"
    BY <1>3 DEF CountPullRequests, ListInv, FirstPage, Before1
  <2> QED
    BY <2>1, <1>1, ListBegins
<1>4. CASE FindDefaultBranch \/ ListBranches
  <2>1. page' = 1 /\ stage' \in {"commits", "branches", "failed"}
    BY <1>4 DEF FindDefaultBranch, ListBranches, ListInv, FirstPage, Before1
  <2> QED
    BY <2>1 DEF ListInv, FirstPage, ListedOrToCome, NoneOverlooked, Before1
<1>5. CASE FetchBranchCommits
  <2>1. page' = 1 /\ stage' \in {"failed", "listing"}
    BY <1>5 DEF FetchBranchCommits, ListInv, FirstPage, Before1
  <2>2. CASE stage' = "listing"
    BY <2>1, <2>2, <1>1, ListBegins
  <2>3. CASE stage' = "failed"
    BY <2>3 DEF ListInv, FirstPage, ListedOrToCome, NoneOverlooked, Before1
  <2> QED
    BY <2>1, <2>2, <2>3
<1> QED
  BY <1>2, <1>3, <1>4, <1>5 DEF FetchContributors

\* What happens after the list changes nothing of it.
LEMMA ListFrame ==
    ASSUME ListInv, stage = "diffs" \/ stage' \notin {"diffs", "fetched"},
           stage' \notin Before1 \cup {"listing"},
           listed' = listed, settled' = settled, reopened' = reopened
    PROVE  ListInv'
BY DEF ListInv, FirstPage, ListedOrToCome, NoneOverlooked, Before1

LEMMA ListStep == FetchTypeOK /\ ListInv /\ [Next]_vars => ListInv'
<1> SUFFICES ASSUME FetchTypeOK, ListInv, [Next]_vars PROVE ListInv'
  OBVIOUS
<1>1. CASE FetchDiffs
  <2>1. /\ stage = "diffs" /\ stage' \in {"diffs", "fetched"}
        /\ listed' = listed /\ settled' = settled /\ reopened' = reopened
    BY <1>1 DEF FetchDiffs, AllFetched, Acquire, AppendDiff, LoseDiff, repo, pulls
  <2> QED
    BY <2>1, ListFrame DEF Before1
<1>2. CASE FailListing
  <2>1. stage' = "failed" /\ listed' = listed /\ settled' = settled /\ reopened' = reopened
    BY <1>2 DEF FailListing, repo, pulls
  <2> QED
    BY <2>1, ListFrame DEF Before1
<1>3. CASE Evaluate
  <2>1. /\ stage' \in {"metrics", "impact", "normalize", "refused", "commit", "committed", "review"}
        /\ listed' = listed /\ settled' = settled /\ reopened' = reopened
    BY <1>3 DEF Evaluate, ChoosePath, EvaluateCodeImpact, EvaluateMetrics, NormalizeAgain, Commit,
                repo, pulls
  <2> QED
    BY <2>1, ListFrame DEF Before1
<1>4. CASE UNCHANGED vars
  <2>1. stage' = stage /\ page' = page /\ listed' = listed /\ settled' = settled
        /\ reopened' = reopened /\ closed' = closed
    BY <1>4 DEF vars, fetchVars, repo, pulls
  <2> QED
    BY <2>1 DEF ListInv, FirstPage, ListedOrToCome, NoneOverlooked, Before1
<1>5. CASE ListPage
  BY <1>5, ListPageStep
<1>6. CASE Repository
  BY <1>6, ListRepository
<1> QED
  BY <1>1, <1>2, <1>3, <1>4, <1>5, <1>6, ListPeople, Zenon DEF Next, Fetch

\* For any repository and page size, and however many pull requests are closed during
\* the listing, none merged before the fetch is missing from the list.
THEOREM NoneOverlookedCorrect == Spec => []NoneOverlooked
<1>1. Init => FetchTypeOK /\ ListInv
  BY FetchTypeInit, ListInit
<1>2. FetchTypeOK /\ ListInv /\ [Next]_vars => FetchTypeOK' /\ ListInv'
  BY FetchTypeStep, ListStep
<1>3. ListInv => NoneOverlooked
  BY DEF ListInv
<1> QED
  BY <1>1, <1>2, <1>3, PTL DEF Spec

LEMMA DiffInit == Init => DiffInv
<1>1. \A p \in PRs : None[p] = 0
  BY DEF None
<1> QED
  BY <1>1 DEF Init, FetchInit, DiffInv, NothingStarted, NoDiffMixedUp, Before1

\* The last page makes a job of every listed pull request of somebody.
LEMMA DiffPage ==
    ASSUME FetchTypeOK, DiffInv, ListPage
    PROVE  DiffInv'
<1>1. \A p \in PRs : todo[p] = 0 /\ busy[p] = 0 /\ diffs[p] = 0 /\ lost[p] = 0
  BY DEF DiffInv, NothingStarted, ListPage
<1>2. busy' = busy /\ diffs' = diffs /\ lost' = lost
  BY DEF ListPage
<1>3. CASE stage' = "diffs"
  <2>1. stage # "diffs"
    BY DEF ListPage
  <2>2. todo' = Jobs(listed')
    BY <1>3, <2>1 DEF ListPage
  <2>3. listed' \in [PRs -> Nat]
    BY PlusType DEF FetchTypeOK, ListPage
  <2>4. Jobs(listed') \in [PRs -> Nat]
    BY <2>3 DEF Jobs
  <2>5. \A p \in PRs : Jobs(listed')[p] = todo'[p] + busy'[p] + diffs'[p] + lost'[p]
    BY <1>1, <1>2, <2>2, <2>4
  <2> QED
    BY <1>3, <2>5 DEF DiffInv, NothingStarted, NoDiffMixedUp, Jobs, Before1
<1>4. CASE stage' = "listing" /\ todo' = todo
  BY <1>1, <1>2, <1>4 DEF DiffInv, NothingStarted, NoDiffMixedUp
<1>5. stage' = "diffs" \/ (stage' = "listing" /\ todo' = todo)
  BY DEF ListPage
<1> QED
  BY <1>3, <1>4, <1>5

\* A diff is passed on between what is to do, what is being done and the two results.
LEMMA DiffPassedOn ==
    ASSUME FetchTypeOK, DiffInv, NEW p \in PRs, Acquire(p) \/ AppendDiff(p) \/ LoseDiff(p)
    PROVE  DiffInv'
<1>1. /\ todo \in [PRs -> Nat] /\ busy \in [PRs -> Nat]
      /\ diffs \in [PRs -> Nat] /\ lost \in [PRs -> Nat]
  BY DEF FetchTypeOK
<1>2. stage = "diffs" /\ stage' = "diffs" /\ listed' = listed
  BY DEF Acquire, AppendDiff, LoseDiff
<1>3. \A q \in PRs : todo'[q] + busy'[q] + diffs'[q] + lost'[q]
                         = todo[q] + busy[q] + diffs[q] + lost[q]
  <2> SUFFICES ASSUME NEW q \in PRs
               PROVE  todo'[q] + busy'[q] + diffs'[q] + lost'[q]
                         = todo[q] + busy[q] + diffs[q] + lost[q]
    OBVIOUS
  <2>1. todo[q] \in Nat /\ busy[q] \in Nat /\ diffs[q] \in Nat /\ lost[q] \in Nat
    BY <1>1
  <2>2. CASE Acquire(p)
    BY <1>1, <2>1, <2>2 DEF Acquire
  <2>3. CASE AppendDiff(p)
    BY <1>1, <2>1, <2>3 DEF AppendDiff
  <2>4. CASE LoseDiff(p)
    BY <1>1, <2>1, <2>4 DEF LoseDiff
  <2> QED
    BY <2>2, <2>3, <2>4
<1>4. \A q \in PRs : Jobs(listed)[q] = todo[q] + busy[q] + diffs[q] + lost[q]
  BY <1>2 DEF DiffInv, NoDiffMixedUp
<1>5. Jobs(listed') = Jobs(listed)
  BY <1>2
<1>6. \A q \in PRs : Jobs(listed')[q] = todo'[q] + busy'[q] + diffs'[q] + lost'[q]
  BY <1>3, <1>4, <1>5, Zenon
<1>7. NoDiffMixedUp'
  BY <1>6 DEF NoDiffMixedUp, Jobs
<1>8. NothingStarted'
  BY <1>2 DEF NothingStarted, Before1
<1> QED
  BY <1>7, <1>8 DEF DiffInv

LEMMA DiffFrame ==
    ASSUME DiffInv, UNCHANGED pulls,
           \/ stage \in Before1 \cup {"listing"} /\ stage' \in Before1 \cup {"listing", "failed"}
           \/ stage = "diffs" /\ stage' = "fetched"
           \/ stage' = stage
           \/ stage' \notin Before1 \cup {"listing", "diffs", "fetched"}
    PROVE  DiffInv'
BY DEF DiffInv, NothingStarted, NoDiffMixedUp, Before1, Jobs, pulls

LEMMA DiffStep == FetchTypeOK /\ DiffInv /\ [Next]_vars => DiffInv'
<1> SUFFICES ASSUME FetchTypeOK, DiffInv, [Next]_vars PROVE DiffInv'
  OBVIOUS
<1>1. CASE FetchContributors \/ FindDefaultBranch \/ ListBranches \/ FetchBranchCommits
  <2>1. /\ stage \in Before1 /\ UNCHANGED pulls
        /\ stage' \in Before1 \cup {"listing", "failed"}
    BY <1>1 DEF FetchContributors, FetchContributorPage, RetryContributors, GiveUpContributors,
                CountPullRequests, FindDefaultBranch, ListBranches, FetchBranchCommits, Before1
  <2> QED
    BY <2>1, DiffFrame
<1>2. CASE FailListing \/ Repository
  <2>1. stage = "listing" /\ stage' \in {"listing", "failed"} /\ UNCHANGED pulls
    BY <1>2 DEF FailListing, Repository, ClosePR, ReopenPR
  <2> QED
    BY <2>1, DiffFrame DEF Before1
<1>3. CASE AllFetched
  BY <1>3, DiffFrame DEF AllFetched
<1>4. CASE Evaluate
  <2>1. /\ UNCHANGED pulls
        /\ stage' \in {"metrics", "impact", "normalize", "refused", "commit", "committed", "review"}
    BY <1>4 DEF Evaluate, ChoosePath, EvaluateCodeImpact, EvaluateMetrics, NormalizeAgain, Commit
  <2> QED
    BY <2>1, DiffFrame DEF Before1
<1>5. CASE UNCHANGED vars
  BY <1>5, DiffFrame DEF vars, fetchVars
<1>6. CASE ListPage
  BY <1>6, DiffPage
<1>7. CASE \E p \in PRs : Acquire(p) \/ AppendDiff(p) \/ LoseDiff(p)
  BY <1>7, DiffPassedOn
<1> QED
  BY <1>1, <1>2, <1>3, <1>4, <1>5, <1>6, <1>7, Zenon DEF Next, Fetch, FetchDiffs

\* For any number of goroutines and pull requests, every diff to fetch is waited for,
\* and counts once or is known to be lost.
THEOREM NoDiffMixedUpCorrect == Spec => []NoDiffMixedUp
<1>1. Init => FetchTypeOK /\ DiffInv
  BY FetchTypeInit, DiffInit
<1>2. FetchTypeOK /\ DiffInv /\ [Next]_vars => FetchTypeOK' /\ DiffInv'
  BY FetchTypeStep, DiffStep
<1>3. DiffInv => NoDiffMixedUp
  BY DEF DiffInv
<1> QED
  BY <1>1, <1>2, <1>3, PTL DEF Spec

-----------------------------------------------------------------------------
(* How often a pull request can be listed.  What is closed or reopened     *)
(* moves the others by one place, so that one that was listed may come up  *)
(* again on the next page, but only once for each change.                  *)

RelistInv ==
    /\ stage \in Before1 => \A p \in PRs : listed[p] = 0
    /\ stage = "listing" =>
          \A p \in PRs : (page - 1) * PageSize <= Rank(closed, p) => listed[p] <= changes
    /\ \A p \in PRs : listed[p] <= changes + 1

\* However the repository changes while it is listed, and however often its pages are
\* read, no pull request is listed more often than once and once for each change.
RelistedByChangesOnly == \A p \in PRs : listed[p] <= changes + 1

LEMMA RelistInit == Init => RelistInv
<1> SUFFICES ASSUME Init PROVE RelistInv
  OBVIOUS
<1>1. stage = "contributors" /\ changes = 0 /\ \A p \in PRs : listed[p] = 0
  BY DEF Init, FetchInit, None
<1> QED
  BY <1>1 DEF RelistInv

LEMMA RelistPage ==
    ASSUME FetchTypeOK, RelistInv, ListPage
    PROVE  RelistInv'
<1> DEFINE here == (page - 1) * PageSize
           next == page * PageSize
<1>1. /\ listed \in [PRs -> Nat] /\ page \in Nat \ {0} /\ PageSize \in Nat \ {0}
      /\ changes \in Nat /\ IsFiniteSet(closed)
  <2>1. closed \subseteq PRs /\ IsFiniteSet(PRs)
    BY Constants DEF FetchTypeOK
  <2>2. IsFiniteSet(closed)
    BY <2>1, FS_Subset
  <2> QED
    BY <2>2, Constants DEF FetchTypeOK
<1>2. here \in Nat /\ next \in Nat /\ here <= next
      /\ (page' = page + 1 => (page' - 1) * PageSize = next)
  <2>1. next = here + PageSize
    BY <1>1
  <2>2. here \in Nat
    BY <1>1
  <2>3. page' = page + 1 => page' - 1 = page
    BY <1>1
  <2> QED
    BY <1>1, <2>1, <2>2, <2>3
<1>3. \A p \in PRs : p \in PageOf(closed, page)
                         => here <= Rank(closed, p) /\ Rank(closed, p) < next
  BY PageByRank
<1>4. \A p \in PRs : listed'[p] = IF p \in PageOf(closed, page) \cap merged
                                  THEN listed[p] + 1 ELSE listed[p]
  BY <1>1, PlusType DEF ListPage
<1>5. \A p \in PRs : here <= Rank(closed, p) => listed[p] <= changes
  BY DEF RelistInv, ListPage
<1>6. \A p \in PRs : Rank(closed, p) \in Nat
  BY <1>1, RankNat
<1>7. changes' = changes /\ closed' = closed
  BY DEF ListPage, repo
<1> HIDE DEF here, next
<1>8. ASSUME NEW p \in PRs
      PROVE  /\ listed'[p] <= changes + 1
             /\ next <= Rank(closed, p) => listed'[p] <= changes
  <2>1. listed[p] \in Nat /\ listed[p] <= changes + 1
    BY <1>1 DEF RelistInv
  <2>2. CASE p \in PageOf(closed, page)
    <3>1. here <= Rank(closed, p) /\ ~(next <= Rank(closed, p)) /\ listed[p] <= changes
      BY <1>2, <1>3, <1>5, <1>6, <2>2
    <3> QED
      BY <1>1, <1>4, <2>1, <3>1
  <2>3. CASE p \notin PageOf(closed, page)
    <3>1. listed'[p] = listed[p]
      BY <1>4, <2>3
    <3>2. next <= Rank(closed, p) => here <= Rank(closed, p)
      BY <1>2, <1>6
    <3> QED
      BY <1>5, <2>1, <3>1, <3>2
  <2> QED
    BY <2>2, <2>3
<1>9. stage' \notin Before1 /\ (stage' = "listing" => page' = page + 1)
  BY DEF ListPage, Before1
<1> QED
  BY <1>2, <1>7, <1>8, <1>9 DEF RelistInv

\* Each change allows for one more.
LEMMA RelistRepository == FetchTypeOK /\ RelistInv /\ Repository => RelistInv'
<1> SUFFICES ASSUME FetchTypeOK, RelistInv, NEW q \in PRs, ClosePR(q) \/ ReopenPR(q)
             PROVE  RelistInv'
  BY DEF Repository
<1>1. /\ stage = "listing" /\ stage' = stage /\ listed' = listed /\ changes' = changes + 1
      /\ changes \in Nat /\ \A p \in PRs : listed[p] \in Nat
  BY DEF ClosePR, ReopenPR, pulls, FetchTypeOK
<1>2. \A p \in PRs : listed'[p] <= changes' /\ listed'[p] <= changes' + 1
  BY <1>1 DEF RelistInv
<1> QED
  BY <1>1, <1>2 DEF RelistInv, Before1

LEMMA RelistPeople ==
    FetchTypeOK /\ RelistInv
        /\ (FetchContributors \/ FindDefaultBranch \/ ListBranches \/ FetchBranchCommits)
        => RelistInv'
<1> SUFFICES ASSUME FetchTypeOK, RelistInv,
                    FetchContributors \/ FindDefaultBranch \/ ListBranches \/ FetchBranchCommits
             PROVE  RelistInv'
  OBVIOUS
<1>1. stage \in Before1 /\ listed' = listed /\ changes' = changes
  BY DEF FetchContributors, FetchContributorPage, RetryContributors, GiveUpContributors,
         CountPullRequests, FindDefaultBranch, ListBranches, FetchBranchCommits, repo, pulls, Before1
<1>2. \A p \in PRs : listed'[p] = 0 /\ listed'[p] <= changes'
  BY <1>1 DEF RelistInv, FetchTypeOK
<1> QED
  BY <1>1, <1>2 DEF RelistInv

\* Once the list is complete it does not change.
LEMMA RelistFrame ==
    ASSUME RelistInv, stage' \notin Before1 \cup {"listing"}, listed' = listed, changes' = changes
    PROVE  RelistInv'
BY DEF RelistInv

LEMMA RelistStep == FetchTypeOK /\ RelistInv /\ [Next]_vars => RelistInv'
<1> SUFFICES ASSUME FetchTypeOK, RelistInv, [Next]_vars PROVE RelistInv'
  OBVIOUS
<1>1. CASE FetchDiffs \/ FailListing \/ Evaluate
  <2>1. listed' = listed /\ changes' = changes
    BY <1>1 DEF FetchDiffs, AllFetched, Acquire, AppendDiff, LoseDiff, FailListing,
                Evaluate, ChoosePath, EvaluateCodeImpact, EvaluateMetrics, NormalizeAgain, Commit,
                repo, pulls
  <2>2. stage' \notin Before1 \cup {"listing"}
    BY <1>1 DEF FetchDiffs, AllFetched, Acquire, AppendDiff, LoseDiff, FailListing,
                Evaluate, ChoosePath, EvaluateCodeImpact, EvaluateMetrics, NormalizeAgain, Commit,
                Before1
  <2> QED
    BY <2>1, <2>2, RelistFrame
<1>2. CASE UNCHANGED vars
  BY <1>2 DEF vars, fetchVars, repo, pulls, RelistInv
<1>3. CASE ListPage
  BY <1>3, RelistPage
<1>4. CASE Repository
  BY <1>4, RelistRepository
<1> QED
  BY <1>1, <1>2, <1>3, <1>4, RelistPeople, Zenon DEF Next, Fetch

\* For any repository, page size and number of changes, no diff is counted more often
\* than once and once for each change during the listing.
THEOREM RelistedByChangesOnlyCorrect == Spec => []RelistedByChangesOnly
<1>1. Init => FetchTypeOK /\ RelistInv
  BY FetchTypeInit, RelistInit
<1>2. FetchTypeOK /\ RelistInv /\ [Next]_vars => FetchTypeOK' /\ RelistInv'
  BY FetchTypeStep, RelistStep
<1>3. RelistInv => RelistedByChangesOnly
  BY DEF RelistInv, RelistedByChangesOnly
<1> QED
  BY <1>1, <1>2, <1>3, PTL DEF Spec

-----------------------------------------------------------------------------
(* Rounding.  The sum of rounded shares is no more than the pool: written  *)
(* in units, c times f has c units for each unit of f.                     *)

LEMMA Division ==
    \A m \in Nat, c \in Nat \ {0} :
        m \div c \in Nat /\ c * (m \div c) <= m /\ m < c * (m \div c) + c
OBVIOUS

\* The j-th of the c units that stand for unit i.
Part(c, i, j) == c * (i - 1) + j

LEMMA PartRange ==
    \A c \in Nat \ {0}, n \in Nat : \A i \in 1 .. n, j \in 1 .. c : Part(c, i, j) \in 1 .. c * n
<1> TAKE c \in Nat \ {0}, n \in Nat
<1> TAKE i \in 1 .. n, j \in 1 .. c
<1> DEFINE below == c * (i - 1)
           rest == c * (n - i)
<1>1. i - 1 \in Nat /\ n - i \in Nat
  OBVIOUS
<1>2. \A a, b \in Nat : a * b \in Nat
  OBVIOUS
<1>3. below \in Nat /\ rest \in Nat
  BY <1>1, <1>2
<1>4. c * n = below + c + rest
  OBVIOUS
<1> HIDE DEF below, rest
<1>5. below + j \in 1 .. below + c + rest
  BY <1>3
<1> QED
  BY <1>4, <1>5 DEF Part, below

\* An earlier unit's parts come before a later one's.
LEMMA PartOrder ==
    \A c \in Nat \ {0}, i, k \in Nat \ {0} : \A j, l \in 1 .. c :
        i < k => Part(c, i, j) < Part(c, k, l)
<1> TAKE c \in Nat \ {0}, i, k \in Nat \ {0}
<1> TAKE j, l \in 1 .. c
<1> HAVE i < k
<1> DEFINE below == c * (i - 1)
           between == c * (k - i - 1)
<1>1. \A a, b \in Nat : a * b \in Nat
  OBVIOUS
<1>2. i - 1 \in Nat /\ k - i - 1 \in Nat
  OBVIOUS
<1>3. below \in Nat /\ between \in Nat
  BY <1>1, <1>2
<1>4. c * (k - 1) = below + between + c
  OBVIOUS
<1> HIDE DEF below, between
<1>5. below + j < below + between + c + l
  BY <1>3
<1> QED
  BY <1>4, <1>5 DEF Part, below

LEMMA PartInjective ==
    \A c \in Nat \ {0}, i, k \in Nat \ {0} : \A j, l \in 1 .. c :
        Part(c, i, j) = Part(c, k, l) => i = k /\ j = l
<1> TAKE c \in Nat \ {0}, i, k \in Nat \ {0}
<1> TAKE j, l \in 1 .. c
<1> HAVE Part(c, i, j) = Part(c, k, l)
<1>0. Part(c, i, j) \in Int /\ Part(c, k, l) \in Int
  BY DEF Part
<1>1. ~(i < k) /\ ~(k < i)
  BY <1>0, PartOrder
<1>2. i = k
  BY <1>1
<1>3. c * (i - 1) \in Int
  OBVIOUS
<1>4. j = l
  BY <1>2, <1>3 DEF Part
<1> QED
  BY <1>2, <1>4

LEMMA PartSurjective ==
    \A c \in Nat \ {0}, n \in Nat : \A m \in 1 .. c * n :
        \E i \in 1 .. n, j \in 1 .. c : Part(c, i, j) = m
<1> TAKE c \in Nat \ {0}, n \in Nat
<1> TAKE m \in 1 .. c * n
<1> DEFINE q == (m - 1) \div c
           r == (m - 1) - c * q
<1>0. c * n \in Nat
  OBVIOUS
<1>1. m - 1 \in Nat /\ m \in Nat /\ m <= c * n
  BY <1>0
<1>2. q \in Nat /\ c * q <= m - 1 /\ m - 1 < c * q + c
  BY <1>1, Division
<1> HIDE DEF q
<1>3. c * q \in Nat
  BY <1>2
<1>4. r + 1 \in 1 .. c /\ m = c * q + (r + 1)
  BY <1>1, <1>2, <1>3
<1>5. q + 1 <= n
  <2> SUFFICES ASSUME n <= q PROVE FALSE
    BY <1>2
  <2>1. c * n <= c * q
    <3>1. q - n \in Nat
      BY <1>2
    <3>2. c * (q - n) \in Nat
      BY <3>1
    <3>3. c * q = c * n + c * (q - n)
      BY <1>2
    <3> QED
      BY <3>2, <3>3, <1>0, <1>3
  <2> QED
    BY <2>1, <1>0, <1>1, <1>2, <1>3
<1>6. q + 1 \in 1 .. n /\ Part(c, q + 1, r + 1) = m
  BY <1>2, <1>3, <1>4, <1>5 DEF Part
<1> QED
  BY <1>4, <1>6

\* The total of c times f.
LEMMA TotalScaled ==
    ASSUME NEW S, IsFiniteSet(S), NEW f \in [S -> Nat], NEW c \in Nat \ {0},
           NEW g \in [S -> Nat], \A x \in S : g[x] = c * f[x]
    PROVE  Total(g) = c * Total(f)
<1> DEFINE parts == Units(f) \X (1 .. c)
           unit == [t \in parts |-> <<t[1][1], Part(c, t[1][2], t[2])>>]
<1>1. \A p : p \in Units(f) <=> \E x \in S, i \in Nat : p = <<x, i>> /\ 1 <= i /\ i <= f[x]
  BY UnitsMembership
<1>2. \A p : p \in Units(g) <=> \E x \in S, i \in Nat : p = <<x, i>> /\ 1 <= i /\ i <= g[x]
  BY UnitsMembership
<1>3. \A x \in S : f[x] \in Nat /\ g[x] = c * f[x]
  OBVIOUS
<1>4. \A t \in parts : \E x \in S, i \in Nat, j \in 1 .. c :
                           i \in 1 .. f[x] /\ t = <<<<x, i>>, j>>
  <2> TAKE t \in parts
  <2>0. PICK p \in Units(f), j \in 1 .. c : t = <<p, j>>
    OBVIOUS
  <2>1. PICK x \in S, i \in Nat : p = <<x, i>> /\ 1 <= i /\ i <= f[x]
    BY <1>1
  <2>2. i \in 1 .. f[x]
    BY <2>1, <1>3
  <2> QED
    BY <2>0, <2>1, <2>2
<1>5. \A t \in parts : unit[t] \in Units(g)
  <2> SUFFICES ASSUME NEW t \in parts PROVE unit[t] \in Units(g)
    OBVIOUS
  <2>1. PICK x \in S, i \in Nat, j \in 1 .. c : i \in 1 .. f[x] /\ t = <<<<x, i>>, j>>
    BY <1>4
  <2>2. Part(c, i, j) \in 1 .. g[x]
    BY <2>1, <1>3, PartRange
  <2>3. unit[t] = <<x, Part(c, i, j)>>
    BY <2>1
  <2>4. Part(c, i, j) \in Nat /\ 1 <= Part(c, i, j) /\ Part(c, i, j) <= g[x]
    BY <2>2, <1>3
  <2> QED
    BY <2>3, <2>4, <1>2
<1>6. \A s, t \in parts : unit[s] = unit[t] => s = t
  <2> SUFFICES ASSUME NEW s \in parts, NEW t \in parts, unit[s] = unit[t] PROVE s = t
    OBVIOUS
  <2>1. PICK x \in S, i \in Nat, j \in 1 .. c : i \in 1 .. f[x] /\ s = <<<<x, i>>, j>>
    BY <1>4
  <2>2. PICK y \in S, k \in Nat, l \in 1 .. c : k \in 1 .. f[y] /\ t = <<<<y, k>>, l>>
    BY <1>4
  <2>3. x = y /\ Part(c, i, j) = Part(c, k, l)
    BY <2>1, <2>2
  <2>4. i \in Nat \ {0} /\ k \in Nat \ {0}
    BY <2>1, <2>2, <1>3
  <2>5. i = k /\ j = l
    BY <2>3, <2>4, PartInjective
  <2> QED
    BY <2>1, <2>2, <2>3, <2>5
<1>7. \A u \in Units(g) : \E t \in parts : unit[t] = u
  <2> SUFFICES ASSUME NEW u \in Units(g) PROVE \E t \in parts : unit[t] = u
    OBVIOUS
  <2>1. PICK x \in S, m \in Nat : u = <<x, m>> /\ 1 <= m /\ m <= g[x]
    BY <1>2
  <2>2. f[x] \in Nat /\ m \in 1 .. c * f[x]
    BY <2>1, <1>3
  <2>3. PICK i \in 1 .. f[x], j \in 1 .. c : Part(c, i, j) = m
    BY <2>2, PartSurjective
  <2>4. <<x, i>> \in Units(f)
    BY <2>2, <2>3, <1>1
  <2>5. <<<<x, i>>, j>> \in parts
    BY <2>4
  <2>6. unit[<<<<x, i>>, j>>] = u
    BY <2>1, <2>3, <2>5
  <2> QED
    BY <2>5, <2>6
<1>8. ExistsBijection(parts, Units(g))
  <2>1. unit \in [parts -> Units(g)]
    BY <1>5
  <2> HIDE DEF unit
  <2>2. unit \in Bijection(parts, Units(g))
    BY <2>1, <1>6, <1>7, Fun_IsBij
  <2> QED
    BY <2>2 DEF ExistsBijection
<1>9. IsFiniteSet(Units(f)) /\ Total(f) \in Nat
  BY TotalType
<1>10. IsFiniteSet(1 .. c) /\ Cardinality(1 .. c) = c
  BY FS_Interval
<1>11. IsFiniteSet(parts) /\ Cardinality(parts) = Total(f) * c
  BY <1>9, <1>10, FS_Product DEF Total
<1>12. Cardinality(Units(g)) = Cardinality(parts)
  BY <1>8, <1>11, FS_Bijection
<1> QED
  BY <1>9, <1>11, <1>12 DEF Total

\* The smaller function has the smaller total.
LEMMA TotalMonotone ==
    ASSUME NEW S, IsFiniteSet(S), NEW f \in [S -> Nat], NEW g \in [S -> Nat],
           \A x \in S : f[x] <= g[x]
    PROVE  Total(f) <= Total(g)
<1>1. \A p : p \in Units(f) <=> \E x \in S, i \in Nat : p = <<x, i>> /\ 1 <= i /\ i <= f[x]
  BY UnitsMembership
<1>2. \A p : p \in Units(g) <=> \E x \in S, i \in Nat : p = <<x, i>> /\ 1 <= i /\ i <= g[x]
  BY UnitsMembership
<1>3. \A x \in S : f[x] \in Nat /\ g[x] \in Nat
  OBVIOUS
<1>4. Units(f) \subseteq Units(g)
  <2> SUFFICES ASSUME NEW p \in Units(f) PROVE p \in Units(g)
    OBVIOUS
  <2>1. PICK x \in S, i \in Nat : p = <<x, i>> /\ 1 <= i /\ i <= f[x]
    BY <1>1
  <2>2. i <= g[x]
    BY <2>1, <1>3
  <2> QED
    BY <2>1, <2>2, <1>2
<1>5. IsFiniteSet(Units(g))
  BY TotalType
<1> QED
  BY <1>4, <1>5, FS_Subset DEF Total

LEMMA AllocationConstants ==
    /\ Full \in Nat \ {0} /\ Word \in Nat \ {0} /\ Narrow \in Nat \ {0}
    /\ MaxRecipients \in Nat \ {0} /\ MinShare \in Nat \ {0} /\ Pool \in Nat \ {0}
    /\ MinShare <= Pool
BY AllocationAssumption

\* Rounding down every share leaves something over, and never takes too much.
LEMMA AmountsWithinPool ==
    ASSUME NEW S, IsFiniteSet(S), NEW f \in [S -> Nat], Total(f) = Full
    PROVE  Amounts(f) \in [S -> Nat] /\ Total(Amounts(f)) <= Pool
<1> DEFINE rounded == Amounts(f)
           up == [u \in S |-> Full * rounded[u]]
           exact == [u \in S |-> Pool * f[u]]
<1> USE AllocationConstants
<1>1. \A a, b \in Nat : a * b \in Nat
  OBVIOUS
<1>2. \A u \in S : f[u] \in Nat /\ Pool * f[u] \in Nat
  BY <1>1
<1>3. \A u \in S : rounded[u] = (Pool * f[u]) \div Full
  BY DEF Amounts, Amount
<1>4. \A u \in S : rounded[u] \in Nat /\ Full * rounded[u] <= Pool * f[u]
  BY <1>2, <1>3, Division
<1>5. rounded \in [S -> Nat]
  BY <1>4 DEF Amounts
<1> HIDE DEF rounded
<1>6. up \in [S -> Nat] /\ exact \in [S -> Nat]
  BY <1>1, <1>2, <1>4
<1>7. Total(up) = Full * Total(rounded)
  <2>1. \A u \in S : up[u] = Full * rounded[u]
    OBVIOUS
  <2> HIDE DEF up
  <2> QED
    BY <2>1, <1>5, <1>6, TotalScaled
<1>8. Total(exact) = Pool * Full
  <2>1. \A u \in S : exact[u] = Pool * f[u]
    OBVIOUS
  <2> HIDE DEF exact
  <2>2. Total(exact) = Pool * Total(f)
    BY <2>1, <1>6, TotalScaled
  <2> QED
    BY <2>2
<1>9. Total(up) <= Total(exact)
  <2>1. \A u \in S : up[u] <= exact[u]
    BY <1>4
  <2> HIDE DEF up, exact
  <2> QED
    BY <2>1, <1>6, TotalMonotone
<1>10. Total(rounded) \in Nat
  BY <1>5, TotalType
<1>11. \A c \in Nat \ {0}, a, b \in Nat : c * a <= b * c => a <= b
  <2> TAKE c \in Nat \ {0}, a, b \in Nat
  <2> HAVE c * a <= b * c
  <2> SUFFICES ASSUME b < a PROVE FALSE
    OBVIOUS
  <2>1. a - b - 1 \in Nat
    OBVIOUS
  <2>2. c * (a - b - 1) \in Nat
    BY <2>1, <1>1
  <2>3. c * a = b * c + c * (a - b - 1) + c
    OBVIOUS
  <2>4. b * c \in Nat
    BY <1>1
  <2> DEFINE more == c * (a - b - 1)
             base == b * c
  <2>5. more \in Nat /\ base \in Nat /\ base + more + c <= base
    BY <2>2, <2>3, <2>4
  <2> HIDE DEF more, base
  <2> QED
    BY <2>5
<1>12. Full * Total(rounded) <= Pool * Full
  BY <1>7, <1>8, <1>9
<1>13. Total(rounded) <= Pool
  BY <1>10, <1>11, <1>12
<1> QED
  BY <1>5, <1>13 DEF rounded

-----------------------------------------------------------------------------
(* The order of the recipients.                                            *)

LEMMA BeforeOrders ==
    ASSUME NEW S \in SUBSET Nat, NEW f \in [S -> Nat]
    PROVE  /\ \A a \in S : ~Before(f, a, a)
           /\ \A a, b \in S : a # b => Before(f, a, b) \/ Before(f, b, a)
           /\ \A a, b, c \in S : Before(f, a, b) /\ Before(f, b, c) => Before(f, a, c)
<1>1. \A a \in S : a \in Nat /\ f[a] \in Nat
  OBVIOUS
<1> QED
  BY <1>1 DEF Before

\* Everybody has a place below the number of all, and who comes first has a lower one.
LEMMA PlacesOrdered ==
    ASSUME NEW S \in SUBSET Nat, IsFiniteSet(S), NEW f \in [S -> Nat]
    PROVE  /\ \A u \in S : Place(f, u) \in Nat /\ Place(f, u) < Cardinality(S)
           /\ \A u, v \in S : Before(f, u, v) => Place(f, u) < Place(f, v)
<1> DEFINE ahead(u) == {v \in S : Before(f, v, u)}
<1>0. Cardinality(S) \in Nat
  BY FS_CardinalityType
<1>1. \A u \in S : /\ IsFiniteSet(ahead(u)) /\ Cardinality(ahead(u)) \in Nat
                    /\ Cardinality(ahead(u)) < Cardinality(S)
  <2> TAKE u \in S
  <2>1. /\ IsFiniteSet(ahead(u)) /\ Cardinality(ahead(u)) <= Cardinality(S)
        /\ Cardinality(S) = Cardinality(ahead(u)) => S = ahead(u)
    BY FS_Subset
  <2>2. u \notin ahead(u)
    BY BeforeOrders
  <2>3. Cardinality(ahead(u)) \in Nat
    BY <2>1, FS_CardinalityType
  <2> HIDE DEF ahead
  <2> QED
    BY <2>1, <2>2, <2>3, <1>0
<1>2. \A u, v \in S : Before(f, u, v) => Cardinality(ahead(u)) < Cardinality(ahead(v))
  <2> SUFFICES ASSUME NEW u \in S, NEW v \in S, Before(f, u, v)
               PROVE  Cardinality(ahead(u)) < Cardinality(ahead(v))
    OBVIOUS
  <2>1. ahead(u) \subseteq ahead(v)
    BY BeforeOrders
  <2>2. u \in ahead(v) /\ u \notin ahead(u)
    BY BeforeOrders
  <2>3. /\ IsFiniteSet(ahead(u)) /\ Cardinality(ahead(u)) \in Nat
        /\ IsFiniteSet(ahead(v)) /\ Cardinality(ahead(v)) \in Nat
    BY <1>1
  <2> HIDE DEF ahead
  <2>4. /\ Cardinality(ahead(u)) <= Cardinality(ahead(v))
        /\ Cardinality(ahead(v)) = Cardinality(ahead(u)) => ahead(v) = ahead(u)
    BY <2>1, <2>3, FS_Subset
  <2> QED
    BY <2>2, <2>3, <2>4
<1>3. \A u \in S : Place(f, u) = Cardinality(ahead(u))
  BY DEF Place
<1> HIDE DEF ahead
<1> QED
  BY <1>1, <1>2, <1>3

\* Every place is somebody's.
LEMMA EveryPlaceTaken ==
    ASSUME NEW S \in SUBSET Nat, IsFiniteSet(S), NEW f \in [S -> Nat],
           NEW n \in Nat, n < Cardinality(S)
    PROVE  \E u \in S : Place(f, u) = n
<1> DEFINE places == 0 .. Cardinality(S) - 1
           place == [u \in S |-> Place(f, u)]
<1>1. Cardinality(S) \in Nat
  BY FS_CardinalityType
<1>2. place \in [S -> places]
  BY <1>1, PlacesOrdered
<1>3. \A u, v \in S : place[u] = place[v] => u = v
  <2> SUFFICES ASSUME NEW u \in S, NEW v \in S, u # v PROVE Place(f, u) # Place(f, v)
    OBVIOUS
  <2>1. Before(f, u, v) \/ Before(f, v, u)
    BY BeforeOrders
  <2> QED
    BY <2>1, PlacesOrdered
<1>4. IsFiniteSet(places) /\ Cardinality(places) = Cardinality(S)
  <2>1. 0 \in Int /\ Cardinality(S) - 1 \in Int
    BY <1>1
  <2>2. /\ IsFiniteSet(places)
        /\ Cardinality(places) = IF 0 > Cardinality(S) - 1 THEN 0
                                 ELSE Cardinality(S) - 1 - 0 + 1
    BY <2>1, FS_Interval
  <2> QED
    BY <1>1, <2>2
<1>5. n \in places
  BY <1>1
<1>6. \E u \in S : place[u] = n
  <2> HIDE DEF place, places
  <2>1. place \in Injection(S, places)
    BY <1>2, <1>3, Fun_IsInj
  <2>2. place \in Surjection(S, places)
    BY <2>1, <1>4, FS_Injection
  <2> QED
    BY <2>2, <1>5 DEF Surjection
<1> QED
  BY <1>6

\* Somebody comes first.
LEMMA SomebodyFirst ==
    ASSUME NEW S \in SUBSET Nat, IsFiniteSet(S), S # {}, NEW f \in [S -> Nat]
    PROVE  \E u \in S : Place(f, u) = 0 /\ \A v \in S \ {u} : Before(f, u, v)
<1>1. Cardinality(S) \in Nat /\ 0 < Cardinality(S)
  BY FS_CardinalityType, FS_EmptySet
<1>2. PICK u \in S : Place(f, u) = 0
  BY <1>1, EveryPlaceTaken
<1>3. \A v \in S \ {u} : Before(f, u, v)
  <2> TAKE v \in S \ {u}
  <2>1. Before(f, v, u) => Place(f, v) < 0 /\ Place(f, v) \in Nat
    BY <1>2, PlacesOrdered
  <2> QED
    BY <2>1, BeforeOrders
<1> QED
  BY <1>2, <1>3

\* A part of a function has at most its total.
LEMMA OverPart ==
    ASSUME NEW S, IsFiniteSet(S), NEW f \in [S -> Nat], NEW T \in SUBSET S
    PROVE  /\ Over(f, T) \in Nat /\ Over(f, T) <= Total(f)
           /\ \A u \in T : f[u] <= Over(f, T)
<1> DEFINE part == [u \in T |-> f[u]]
<1>1. part \in [T -> Nat] /\ IsFiniteSet(T)
  BY FS_Subset
<1>2. \A p : p \in Units(f) <=> \E x \in S, i \in Nat : p = <<x, i>> /\ 1 <= i /\ i <= f[x]
  BY UnitsMembership
<1>3. \A x \in T : part[x] = f[x]
  OBVIOUS
<1>4. Over(f, T) = Total(part)
  BY DEF Over
<1> HIDE DEF part
<1>5. \A p : p \in Units(part) <=> \E x \in T, i \in Nat : p = <<x, i>> /\ 1 <= i /\ i <= part[x]
  BY <1>1, UnitsMembership
<1>6. Units(part) \subseteq Units(f)
  BY <1>2, <1>3, <1>5
<1>7. IsFiniteSet(Units(f))
  BY TotalType
<1>8. Total(part) <= Total(f)
  BY <1>6, <1>7, FS_Subset DEF Total
<1>9. Total(part) \in Nat /\ \A u \in T : part[u] <= Total(part)
  BY <1>1, TotalType, TotalElement
<1> QED
  BY <1>3, <1>4, <1>8, <1>9

\* Whatever is to be paid to whomever, if it is no more than the pool, redistribution
\* makes a payout of it: the whole pool, nobody below the minimum, nobody new, and
\* nobody who had the minimum with less than before.
LEMMA RedistributionPaysOut ==
    ASSUME NEW S \in SUBSET Nat, IsFiniteSet(S), S # {}, NEW f \in [S -> Nat],
           Total(f) <= Pool
    PROVE  /\ Valid(Redistribute(f), S)
           /\ Redistribute(f) \in [DOMAIN Redistribute(f) -> Nat]
           /\ \A u \in S : f[u] >= MinShare =>
                  u \in DOMAIN Redistribute(f) /\ Redistribute(f)[u] >= f[u]
<1> USE AllocationConstants
<1> DEFINE kept == {u \in S : f[u] >= MinShare}
           first == CHOOSE u \in S : \A v \in S \ {u} : Before(f, u, v)
           rest == Pool - Over(f, kept)
           paid == Redistribute(f)
<1>0. DOMAIN f = S /\ \A u \in S : f[u] \in Nat
  OBVIOUS
<1>1. first \in S /\ \A v \in S \ {first} : Before(f, first, v)
  <2>1. \E u \in S : \A v \in S \ {u} : Before(f, u, v)
    BY SomebodyFirst
  <2> QED
    BY <2>1
<1>2. paid = IF kept = {} THEN [u \in {first} |-> Pool]
             ELSE [u \in kept |-> IF u = first THEN f[u] + rest ELSE f[u]]
  BY <1>0 DEF Redistribute
<1>3. IsFiniteSet(kept) /\ kept \in SUBSET S
  BY FS_Subset
<1>4. Total(f) \in Nat /\ Over(f, kept) \in Nat /\ Over(f, kept) <= Total(f)
  BY <1>3, TotalType, OverPart
<1>5. rest \in Nat
  BY <1>4
<1>6. \A u \in S : u \in kept <=> f[u] >= MinShare
  OBVIOUS
<1> HIDE DEF first, paid, rest
<1>7. CASE kept = {}
  <2>1. paid = [u \in {first} |-> Pool]
    BY <1>2, <1>7
  <2>2. paid \in [{first} -> Nat] /\ paid[first] = Pool /\ DOMAIN paid = {first}
    BY <2>1
  <2>3. Total(paid) = Pool
    BY <2>2, TotalOfOne
  <2>4. Valid(paid, S)
    BY <1>1, <2>2, <2>3 DEF Valid
  <2> QED
    BY <1>6, <1>7, <2>2, <2>4 DEF paid
<1>8. CASE kept # {}
  <2> DEFINE part == [u \in kept |-> f[u]]
  <2>1. paid = [u \in kept |-> IF u = first THEN f[u] + rest ELSE f[u]]
    BY <1>2, <1>8
  <2>2. first \in kept
    <3>1. PICK k \in kept : TRUE
      BY <1>8
    <3>2. k \in S /\ f[k] >= MinShare /\ f[k] \in Nat /\ f[first] \in Nat
      BY <1>0, <1>1
    <3>3. CASE k = first
      BY <3>3
    <3>4. CASE k # first
      <4>1. Before(f, first, k)
        BY <1>1, <3>2, <3>4
      <4>2. f[first] >= f[k]
        BY <3>2, <4>1 DEF Before
      <4> QED
        BY <1>1, <1>6, <3>2, <4>2
    <3> QED
      BY <3>3, <3>4
  <2>3. \A u \in kept : paid[u] = IF u = first THEN f[u] + rest ELSE f[u]
    BY <2>1
  <2>4. \A u \in kept : f[u] \in Nat /\ f[u] >= MinShare
    BY <1>0
  <2>5. DOMAIN paid = kept
    BY <2>1
  <2>6. \A u \in kept : paid[u] \in Nat /\ paid[u] >= f[u] /\ paid[u] >= MinShare
    BY <1>5, <2>3, <2>4
  <2>7. paid \in [kept -> Nat]
    BY <2>1, <2>6
  <2>8. part \in [kept -> Nat] /\ \A u \in kept : part[u] = f[u]
    BY <2>4
  <2>9. Total(part) = Over(f, kept)
    BY DEF Over
  <2> HIDE DEF part, kept
  <2>10. Total(paid) = Total(part) + rest
    <3>1. paid[first] = part[first] + rest /\ \A u \in kept \ {first} : paid[u] = part[u]
      BY <2>2, <2>3, <2>8
    <3>2. IsFiniteSet(kept) /\ first \in kept /\ rest \in Nat
      BY <1>3, <1>5, <2>2
    <3>3. paid \in [kept -> Nat] /\ part \in [kept -> Nat]
      BY <2>7, <2>8
    <3>4. \A g, h \in [kept -> Nat], more \in Nat :
              h[first] = g[first] + more /\ (\A u \in kept \ {first} : h[u] = g[u])
                  => Total(h) = Total(g) + more
      <4> TAKE g, h \in [kept -> Nat], more \in Nat
      <4> HAVE h[first] = g[first] + more /\ (\A u \in kept \ {first} : h[u] = g[u])
      <4> QED
        BY <3>2, SomeMore
    <3> QED
      BY <3>1, <3>2, <3>3, <3>4, Zenon
  <2>11. Total(paid) = Pool
    BY <1>4, <2>9, <2>10 DEF rest
  <2>12. Valid(paid, S)
    BY <1>3, <1>8, <2>5, <2>6, <2>11 DEF Valid
  <2> QED
    BY <1>6, <2>5, <2>6, <2>7, <2>12 DEF paid
<1> QED
  BY <1>7, <1>8

-----------------------------------------------------------------------------
(* What an allocation is.  The deterministic one divides by a sum of       *)
(* weights cut down to 32 bits: WeightsFit says that it is not cut.        *)

Amounted(f) == f \in [DOMAIN f -> Nat] /\ DOMAIN f \subseteq Users

Weighed(f) == f \in [DOMAIN f -> Nat \ {0}] /\ DOMAIN f \subseteq Users

WeightsFit == Total(weights) < Word

LEMMA Remainder ==
    \A a \in Int, b \in Nat \ {0} : a % b \in Nat /\ (a \in 0 .. b - 1 => a % b = a)
OBVIOUS

LEMMA ShareType ==
    ASSUME NEW weight \in Nat, NEW total \in Nat \ {0}, total < Word
    PROVE  Share(weight, total) \in Nat
<1> USE AllocationConstants
<1> DEFINE low == weight % Word
           product == low * Full
           wrapped == product % Word
<1>1. low \in Nat
  BY Remainder
<1>2. product \in Nat
  BY <1>1
<1> HIDE DEF product
<1>3. wrapped \in Nat
  BY <1>2, Remainder
<1>4. total % Word = total
  BY Remainder
<1> HIDE DEF wrapped
<1>5. wrapped \div total \in Nat
  BY <1>3, Division
<1>6. (wrapped \div total) % Narrow \in Nat
  BY <1>5, Remainder
<1> QED
  BY <1>4, <1>6 DEF Share, wrapped, product

LEMMA SharesType ==
    ASSUME NEW w, Weighed(w), Total(w) < Word, DOMAIN w # {}, NEW n \in Nat \ {0}
    PROVE  Amounted(Shares(w, n))
<1> USE AllocationConstants
<1> DEFINE team == Top(w, n)
           all == Over(w, team)
           last == CHOOSE u \in team : Place(w, u) = n - 1
           share == [u \in team \ {last} |-> Share(w[u], all)]
           left == (Full - Total(share)) % Narrow
<1>1. /\ DOMAIN w \in SUBSET Nat /\ IsFiniteSet(DOMAIN w)
      /\ w \in [DOMAIN w -> Nat] /\ \A u \in DOMAIN w : w[u] \in Nat \ {0}
  BY Constants, FS_Subset DEF Weighed
<1>2. PICK u \in DOMAIN w : Place(w, u) = 0
  BY <1>1, SomebodyFirst
<1>3. team \subseteq DOMAIN w /\ u \in team
  BY <1>2 DEF Top
<1>4. Total(w) \in Nat
  BY <1>1, TotalType
<1>5. all \in Nat /\ all <= Total(w) /\ w[u] <= all
  BY <1>1, <1>3, OverPart
<1>6. all \in Nat \ {0} /\ all < Word
  BY <1>1, <1>4, <1>5
<1> HIDE DEF all, last, team
<1>7. \A v \in team : Share(w[v], all) \in Nat
  BY <1>1, <1>3, <1>6, ShareType
<1>8. share \in [team \ {last} -> Nat]
  BY <1>7
<1>9. IsFiniteSet(team \ {last})
  BY <1>1, <1>3, FS_Subset
<1>10. Total(share) \in Nat
  <2> HIDE DEF share
  <2> QED
    BY <1>8, <1>9, TotalType
<1>11. left \in Nat
  <2> HIDE DEF share
  <2> QED
    BY <1>10, Remainder
<1>12. Shares(w, n) = [v \in team |-> IF v = last THEN left ELSE share[v]]
  BY DEF Shares, team, last, all
<1> HIDE DEF left
<1>13. \A v \in team : v # last => share[v] \in Nat
  BY <1>8
<1> HIDE DEF share
<1>14. Shares(w, n) \in [team -> Nat] /\ DOMAIN Shares(w, n) = team
  BY <1>11, <1>12, <1>13
<1> QED
  BY <1>3, <1>14 DEF Amounted, Weighed

-----------------------------------------------------------------------------
(* How far a share is from the exact one.  All but the last are rounded    *)
(* down by less than a basis point; the last gets what that left over.     *)

LEMMA Products ==
    \A a, b, c \in Nat : /\ c * a \in Nat
                         /\ a <= b => c * a <= c * b
                         /\ a < b => c * a + c <= c * b
<1> TAKE a, b, c \in Nat
<1>1. \A d, e \in Nat : d * e \in Nat
  OBVIOUS
<1>2. CASE a <= b
  <2>1. b - a \in Nat /\ c * (b - a) \in Nat
    BY <1>1, <1>2
  <2>2. c * b = c * a + c * (b - a)
    OBVIOUS
  <2>3. a < b => c * (b - a) >= c
    <3> SUFFICES ASSUME a < b PROVE c * (b - a) >= c
      OBVIOUS
    <3>1. b - a - 1 \in Nat
      BY <2>1
    <3>2. c * (b - a - 1) \in Nat
      BY <3>1, <1>1
    <3>3. c * (b - a) = c * (b - a - 1) + c
      OBVIOUS
    <3> QED
      BY <3>2, <3>3
  <2>4. c * a \in Nat /\ c * b \in Nat
    BY <1>1
  <2> QED
    BY <2>1, <2>2, <2>3, <2>4
<1> QED
  BY <1>1, <1>2

\* What the 32 and the 16 bits of the code compute, where nothing wraps around.
LEMMA ShareIsQuotient ==
    ASSUME NEW weight \in Nat, NEW total \in Nat \ {0},
           weight <= total, total < Word, weight * Full < Word
    PROVE  /\ Share(weight, total) \in Nat
           /\ total * Share(weight, total) <= Full * weight
           /\ Full * weight < total * Share(weight, total) + total
<1> USE AllocationConstants
<1> DEFINE exact == weight * Full
           q == exact \div total
<1>1. exact \in Nat /\ exact = Full * weight /\ exact < Word
  BY Products
<1>2. weight % Word = weight /\ total % Word = total
  BY Remainder
<1>3. exact % Word = exact
  BY <1>1, Remainder
<1>4. Full * weight <= Full * total /\ Full * total = total * Full
  BY Products
<1> HIDE DEF exact
<1>5. q \in Nat /\ total * q <= exact /\ exact < total * q + total
  BY <1>1, Division
<1> HIDE DEF q
<1>6. q <= Full
  <2> SUFFICES ASSUME Full < q PROVE FALSE
    BY <1>5
  <2>1. total * Full + total <= total * q
    BY <1>5, Products
  <2>2. total * Full \in Nat /\ total * q \in Nat
    BY <1>5, Products
  <2> QED
    BY <1>1, <1>4, <1>5, <2>1, <2>2
<1>7. q % Narrow = q
  <2>1. Full < Narrow
    BY AllocationAssumption
  <2>2. q \in 0 .. Narrow - 1
    BY <1>5, <1>6, <2>1
  <2> QED
    BY <2>2, Remainder
<1>8. Share(weight, total) = q
  BY <1>2, <1>3, <1>7 DEF Share, q, exact
<1> QED
  BY <1>1, <1>5, <1>8

\* What is added to nothing.
LEMMA TotalPadded ==
    ASSUME NEW S, NEW T \in SUBSET S, NEW f \in [T -> Nat], NEW g \in [S -> Nat],
           \A x \in S : g[x] = IF x \in T THEN f[x] ELSE 0
    PROVE  Total(f) = Total(g)
<1>1. \A p : p \in Units(f) <=> \E x \in T, i \in Nat : p = <<x, i>> /\ 1 <= i /\ i <= f[x]
  BY UnitsMembership
<1>2. \A p : p \in Units(g) <=> \E x \in S, i \in Nat : p = <<x, i>> /\ 1 <= i /\ i <= g[x]
  BY UnitsMembership
<1>3. \A x \in S, i \in Nat : 1 <= i /\ i <= g[x] <=> x \in T /\ 1 <= i /\ i <= f[x]
  <2> TAKE x \in S, i \in Nat
  <2>1. CASE x \in T
    BY <2>1
  <2>2. CASE x \notin T
    BY <2>2
  <2> QED
    BY <2>1, <2>2
<1>4. \A p : p \in Units(f) <=> p \in Units(g)
  BY <1>1, <1>2, <1>3
<1>5. Units(f) = Units(g)
  BY <1>4, Zenon
<1> QED
  BY <1>5 DEF Total

\* One element and the others.
LEMMA OverWithout ==
    ASSUME NEW S, IsFiniteSet(S), NEW f \in [S -> Nat], NEW a \in S
    PROVE  Total(f) = f[a] + Over(f, S \ {a})
<1> DEFINE one == [x \in S |-> IF x = a THEN f[a] ELSE 0]
           others == [x \in S |-> IF x = a THEN 0 ELSE f[x]]
           rest == [x \in S \ {a} |-> f[x]]
<1>1. one \in [S -> Nat] /\ others \in [S -> Nat] /\ rest \in [S \ {a} -> Nat]
  OBVIOUS
<1>2. \A x \in S : (one[x] = f[x] /\ others[x] = 0) \/ (one[x] = 0 /\ others[x] = f[x])
  OBVIOUS
<1>3. one[a] = f[a] /\ \A x \in S : x # a => one[x] = 0
  OBVIOUS
<1>4. \A x \in S : others[x] = IF x \in S \ {a} THEN rest[x] ELSE 0
  OBVIOUS
<1>5. Over(f, S \ {a}) = Total(rest)
  BY DEF Over
<1> HIDE DEF one, others, rest
<1>6. Total(one) = f[a]
  BY <1>1, <1>3, TotalOfOne
<1>7. IsFiniteSet(Units(one)) /\ IsFiniteSet(Units(others))
  BY <1>1, TotalType
<1>8. Total(f) = Total(one) + Total(others)
  BY <1>1, <1>2, <1>7, TotalSplit
<1>9. S \ {a} \in SUBSET S
  OBVIOUS
<1>10. Total(rest) = Total(others)
  BY <1>1, <1>4, <1>9, TotalPadded
<1> QED
  BY <1>5, <1>6, <1>8, <1>10

\* Rounded to multiples of all, the sum is too small by less than all for each.
LEMMA RoundedTotal ==
    ASSUME NEW S, IsFiniteSet(S), NEW f \in [S -> Nat], NEW q \in [S -> Nat],
           NEW all \in Nat \ {0},
           \A u \in S : all * q[u] <= Full * f[u] /\ Full * f[u] < all * q[u] + all
    PROVE  /\ all * Total(q) <= Full * Total(f)
           /\ Full * Total(f) <= all * Total(q) + all * Cardinality(S)
<1> USE AllocationConstants
<1> DEFINE exact == [u \in S |-> Full * f[u]]
           down == [u \in S |-> all * q[u]]
           ones == [u \in S |-> 1]
           next == [u \in S |-> q[u] + 1]
           up == [u \in S |-> all * next[u]]
<1>1. \A u \in S : f[u] \in Nat /\ q[u] \in Nat
  OBVIOUS
<1>2. \A u \in S : Full * f[u] \in Nat /\ all * q[u] \in Nat /\ all * (q[u] + 1) \in Nat
  BY <1>1, Products
<1>3. \A u \in S : all * (q[u] + 1) = all * q[u] + all
  BY <1>1
<1>4. /\ exact \in [S -> Nat] /\ down \in [S -> Nat] /\ ones \in [S -> Nat]
      /\ next \in [S -> Nat] /\ up \in [S -> Nat]
  BY <1>1, <1>2
<1>5. \A u \in S : /\ exact[u] = Full * f[u] /\ down[u] = all * q[u] /\ up[u] = all * next[u]
                   /\ ones[u] = 1 /\ next[u] = q[u] + ones[u]
  OBVIOUS
<1>6. \A u \in S : up[u] = all * q[u] + all
  BY <1>3
<1> HIDE DEF exact, down, ones, next, up
<1>7. \A u \in S : down[u] <= exact[u] /\ exact[u] <= up[u]
  BY <1>2, <1>5, <1>6
<1>8. Total(down) <= Total(exact) /\ Total(exact) <= Total(up)
  BY <1>4, <1>7, TotalMonotone
<1>9. Total(exact) = Full * Total(f)
  <2>1. Full \in Nat \ {0} /\ \A u \in S : exact[u] = Full * f[u]
    BY <1>5
  <2> QED
    BY ONLY <1>4, <2>1, TotalScaled, IsFiniteSet(S), f \in [S -> Nat], q \in [S -> Nat],
            all \in Nat \ {0}
<1>10. Total(down) = all * Total(q)
  <2>1. \A u \in S : down[u] = all * q[u]
    BY <1>5
  <2> QED
    BY ONLY <1>4, <2>1, TotalScaled, IsFiniteSet(S), f \in [S -> Nat], q \in [S -> Nat],
            all \in Nat \ {0}
<1>11. Total(up) = all * Total(next)
  <2>1. \A u \in S : up[u] = all * next[u]
    BY <1>5
  <2> QED
    BY ONLY <1>4, <2>1, TotalScaled, IsFiniteSet(S), f \in [S -> Nat], q \in [S -> Nat],
            all \in Nat \ {0}
<1>12. Total(next) = Total(q) + Total(ones)
  <2>1. \A u \in S : next[u] = q[u] + ones[u]
    BY <1>5
  <2> QED
    BY ONLY <1>4, <2>1, TotalSum, IsFiniteSet(S), f \in [S -> Nat], q \in [S -> Nat],
            all \in Nat \ {0}
<1>13. Total(ones) = Cardinality(S)
  BY <1>4, <1>5, TotalOfOnes
<1>14. Total(q) \in Nat /\ Cardinality(S) \in Nat
  BY TotalType, FS_CardinalityType
<1>15. all * (Total(q) + Cardinality(S)) = all * Total(q) + all * Cardinality(S)
  BY <1>14
<1> QED
  BY <1>8, <1>9, <1>10, <1>11, <1>12, <1>13, <1>15

\* The n heaviest, and for each of them a share that is less than all basis points of
\* the team's weight off for every member of it.
LEMMA SharesProportional ==
    ASSUME NEW w, Weighed(w), Total(w) < Word, NEW n \in 1 .. Cardinality(DOMAIN w),
           \A u \in Top(w, n) : w[u] * Full < Word
    PROVE  /\ DOMAIN Shares(w, n) = Top(w, n)
           /\ \A u \in Top(w, n), v \in DOMAIN w \ Top(w, n) : Before(w, u, v)
           /\ \A u \in Top(w, n) :
                 LET all == Over(w, Top(w, n))
                     error == Shares(w, n)[u] * all - w[u] * Full
                 IN  error < Cardinality(Top(w, n)) * all /\ error > -all
<1> USE AllocationConstants
<1> DEFINE team == Top(w, n)
           all == Over(w, team)
           last == CHOOSE u \in team : Place(w, u) = n - 1
           others == team \ {last}
           share == [u \in others |-> Share(w[u], all)]
           mine == [u \in team |-> w[u]]
           theirs == [u \in others |-> w[u]]
           left == (Full - Total(share)) % Narrow
<1>1. /\ DOMAIN w \in SUBSET Nat /\ IsFiniteSet(DOMAIN w) /\ Cardinality(DOMAIN w) \in Nat
      /\ w \in [DOMAIN w -> Nat] /\ \A u \in DOMAIN w : w[u] \in Nat \ {0}
  BY Constants, FS_Subset, FS_CardinalityType DEF Weighed
<1>2. /\ n \in Nat \ {0} /\ n - 1 \in Nat /\ n - 1 < Cardinality(DOMAIN w)
      /\ \A u \in DOMAIN w : Place(w, u) \in Nat
  BY <1>1, PlacesOrdered
<1>3. \A u \in team : u \in DOMAIN w /\ Place(w, u) < n
  BY DEF Top
<1>4. last \in team
  <2>1. PICK u \in DOMAIN w : Place(w, u) = n - 1
    BY <1>1, <1>2, EveryPlaceTaken
  <2>2. u \in team
    BY <1>2, <2>1 DEF Top
  <2> QED
    BY <2>1, <2>2
<1>5. \A u \in team, v \in DOMAIN w \ team : Before(w, u, v)
  <2> TAKE u \in team, v \in DOMAIN w \ team
  <2>1. u \in DOMAIN w /\ v \in DOMAIN w /\ u # v
    BY <1>3
  <2>2. Place(w, u) < n /\ ~(Place(w, v) < n)
    BY <1>3, <2>1 DEF Top
  <2>3. ~Before(w, v, u)
    BY <1>1, <1>2, <2>1, <2>2, PlacesOrdered
  <2> QED
    BY <1>1, <2>1, <2>3, BeforeOrders
<1>6. Shares(w, n) = [u \in team |-> IF u = last THEN left ELSE share[u]]
  BY DEF Shares
<1>7. team \in SUBSET DOMAIN w /\ IsFiniteSet(team) /\ \A u \in team : w[u] \in Nat \ {0}
  BY <1>1, <1>3, FS_Subset
<1>8. Total(w) \in Nat /\ all \in Nat /\ all <= Total(w) /\ \A u \in team : w[u] <= all
  BY <1>1, <1>7, OverPart, TotalType
<1>9. all \in Nat \ {0} /\ all < Word
  BY <1>4, <1>7, <1>8
<1>10. \A u \in team : w[u] * Full < Word
  OBVIOUS
<1> HIDE DEF team, last
<1>11. mine \in [team -> Nat] /\ all = Total(mine) /\ \A u \in team : mine[u] = w[u]
  BY <1>7 DEF Over
<1>12. theirs \in [others -> Nat] /\ \A u \in others : theirs[u] = w[u]
  BY <1>7
<1>13. Total(theirs) = Over(mine, others)
  <2>1. theirs = [u \in others |-> mine[u]]
    OBVIOUS
  <2> QED
    BY <2>1 DEF Over
<1>14. IsFiniteSet(others) /\ others \subseteq team
  BY <1>7, FS_Subset
<1>15. Cardinality(team) \in Nat /\ Cardinality(others) = Cardinality(team) - 1
  BY <1>4, <1>7, FS_RemoveElement, FS_CardinalityType
<1> HIDE DEF all, mine, theirs
<1>16. all = w[last] + Total(theirs)
  BY <1>4, <1>7, <1>11, <1>13, OverWithout
<1>17. \A u \in others : /\ share[u] \in Nat
                         /\ all * share[u] <= Full * theirs[u]
                         /\ Full * theirs[u] < all * share[u] + all
  <2> SUFFICES ASSUME NEW u \in others
               PROVE  /\ Share(w[u], all) \in Nat
                      /\ all * Share(w[u], all) <= Full * w[u]
                      /\ Full * w[u] < all * Share(w[u], all) + all
    BY <1>12
  <2>1. u \in team /\ w[u] \in Nat /\ w[u] <= all /\ w[u] * Full < Word
    BY <1>7, <1>8, <1>10
  <2> QED
    BY <1>9, <2>1, ShareIsQuotient
<1>18. share \in [others -> Nat]
  BY <1>17
<1>19. \A u \in others : share[u] = Share(w[u], all)
  OBVIOUS
<1> HIDE DEF share, others
<1>20. /\ all * Total(share) <= Full * Total(theirs)
       /\ Full * Total(theirs) <= all * Total(share) + all * Cardinality(others)
  BY <1>9, <1>12, <1>14, <1>17, <1>18, RoundedTotal
<1>21. Total(share) \in Nat /\ Total(theirs) \in Nat /\ w[last] \in Nat
  BY <1>4, <1>7, <1>12, <1>14, <1>18, TotalType
<1> DEFINE kept == all * Total(share)
           due == Full * Total(theirs)
<1>22. kept \in Nat /\ due \in Nat
  BY <1>9, <1>21, Products
<1>23. Total(share) <= Full
  <2> SUFFICES ASSUME Full < Total(share) PROVE FALSE
    BY <1>21
  <2>1. all * Full + all <= all * Total(share)
    BY <1>9, <1>21, Products
  <2>2. Full * Total(theirs) <= Full * all
    BY <1>9, <1>16, <1>21, Products
  <2>3. all * Full = Full * all /\ all * Full \in Nat
    BY <1>9, Products
  <2> QED
    BY <1>9, <1>20, <1>22, <2>1, <2>2, <2>3
<1>24. left = Full - Total(share)
  <2>1. Full < Narrow
    BY AllocationAssumption
  <2>2. Full - Total(share) \in 0 .. Narrow - 1
    BY <1>21, <1>23, <2>1
  <2> QED
    BY <2>2, Remainder
<1> DEFINE size == Cardinality(team)
<1>25. size \in Nat \ {0} /\ all * Cardinality(others) = size * all - all /\ all <= size * all
  <2>1. size # 0
    BY <1>4, <1>7, FS_EmptySet
  <2>2. size - 1 \in Nat /\ (size - 1) * all \in Nat
    BY <1>9, <1>15, <2>1, Products
  <2>3. all * (size - 1) = size * all - all /\ size * all = (size - 1) * all + all
    BY <1>9, <1>15
  <2> QED
    BY <1>9, <1>15, <2>1, <2>2, <2>3
<1> HIDE DEF left, size
<1>26. left * all - w[last] * Full = due - kept
  <2>1. w[last] * Full = Full * (all - Total(theirs))
    BY <1>9, <1>16, <1>21
  <2>2. Full * (all - Total(theirs)) = Full * all - due
    BY <1>9, <1>21
  <2>3. left * all = Full * all - kept
    BY <1>9, <1>21, <1>24
  <2>4. Full * all \in Nat
    BY <1>9, Products
  <2> HIDE DEF due, kept
  <2> QED
    BY <1>22, <2>1, <2>2, <2>3, <2>4
<1> DEFINE s == Shares(w, n)
<1>27. s[last] = left /\ \A u \in team : u # last => u \in others /\ s[u] = share[u]
  BY <1>4, <1>6 DEF others
<1>28. ASSUME NEW u \in team
       PROVE  LET error == s[u] * all - w[u] * Full IN error < size * all /\ error > -all
  <2>1. CASE u = last
    <3>1. s[u] * all - w[u] * Full = due - kept
      BY <1>26, <1>27, <2>1
    <3>2. kept <= due /\ due <= kept + (size * all - all)
      BY <1>20, <1>25
    <3>3. size * all \in Nat
      BY <1>9, <1>25, Products
    <3> HIDE DEF due, kept, s
    <3> DEFINE most == size * all
    <3>4. most \in Nat /\ due <= kept + (most - all)
      BY <3>2, <3>3
    <3> HIDE DEF most
    <3>5. due - kept < most /\ due - kept > -all
      BY <1>9, <1>22, <3>2, <3>4
    <3> QED
      BY <3>1, <3>5 DEF most
  <2>2. CASE u # last
    <3> DEFINE got == all * share[u]
               want == Full * w[u]
               most == size * all
    <3>1. u \in others /\ s[u] = share[u] /\ share[u] \in Nat /\ w[u] \in Nat
      BY <1>7, <1>17, <1>27, <2>2
    <3>2. s[u] * all = got /\ w[u] * Full = want /\ got \in Nat /\ want \in Nat
      BY <1>9, <3>1, Products
    <3>3. got <= want /\ want < got + all
      BY <1>12, <1>17, <3>1
    <3>4. most \in Nat /\ all <= most
      BY <1>9, <1>25, Products
    <3> HIDE DEF got, want, most, s
    <3>5. got - want < most /\ got - want > -all
      BY <1>9, <3>2, <3>3, <3>4
    <3> QED
      BY <3>2, <3>5 DEF most
  <2> QED
    BY <2>1, <2>2
<1>29. DOMAIN s = team
  BY <1>6
<1> HIDE DEF s
<1> QED
  BY <1>5, <1>28, <1>29 DEF s, size, team, all

LEMMA NoSharesType == Amounted(NoShares) /\ Weighed(NoShares) /\ DOMAIN NoShares = {}
BY DEF NoShares, Amounted, Weighed

\* A finite set of numbers has a greatest element.
LEMMA Greatest ==
    ASSUME NEW S \in SUBSET Nat, IsFiniteSet(S), S # {}
    PROVE  \E n \in S : \A m \in S : m <= n
<1> DEFINE self == [n \in S |-> n]
<1>1. self \in [S -> Nat] /\ \A n \in S : self[n] = n /\ n \in Nat
  OBVIOUS
<1> HIDE DEF self
<1>2. PICK n \in S : \A m \in S \ {n} : Before(self, n, m)
  BY <1>1, SomebodyFirst
<1>3. \A m \in S : m <= n
  <2> TAKE m \in S
  <2>1. CASE m = n
    BY <1>1, <2>1
  <2>2. CASE m # n
    <3>1. Before(self, n, m)
      BY <1>2, <2>2
    <3> QED
      BY <1>1, <3>1 DEF Before
  <2> QED
    BY <2>1, <2>2
<1> QED
  BY <1>3

\* The team has the greatest size with which everybody gets something.
LEMMA GreatestSize ==
    ASSUME NEW w, Weighed(w)
    PROVE  LET sizes == {n \in 1 .. Cardinality(DOMAIN w) :
                            n <= MaxRecipients /\ Acceptable(Shares(w, n), DOMAIN w)}
               size == CHOOSE n \in sizes : \A m \in sizes : m <= n
           IN  sizes # {} => size \in sizes /\ size \in 1 .. Cardinality(DOMAIN w)
<1> DEFINE sizes == {n \in 1 .. Cardinality(DOMAIN w) :
                        n <= MaxRecipients /\ Acceptable(Shares(w, n), DOMAIN w)}
           size == CHOOSE n \in sizes : \A m \in sizes : m <= n
<1>1. IsFiniteSet(DOMAIN w)
  BY Constants, FS_Subset DEF Weighed
<1>2. Cardinality(DOMAIN w) \in Nat
  BY <1>1, FS_CardinalityType
<1>3. IsFiniteSet(1 .. Cardinality(DOMAIN w)) /\ \A n \in 1 .. Cardinality(DOMAIN w) : n \in Nat
  BY <1>2, FS_Interval
<1>4. sizes \subseteq 1 .. Cardinality(DOMAIN w)
  OBVIOUS
<1> HIDE DEF sizes
<1>5. IsFiniteSet(sizes) /\ sizes \in SUBSET Nat
  BY <1>3, <1>4, FS_Subset
<1>6. sizes # {} => \E n \in sizes : \A m \in sizes : m <= n
  BY <1>5, Greatest
<1>7. sizes # {} => size \in sizes
  BY <1>6
<1> HIDE DEF size
<1>8. sizes # {} => size \in sizes /\ size \in 1 .. Cardinality(DOMAIN w)
  BY <1>4, <1>7
<1> QED
  BY <1>8 DEF size, sizes

LEMMA DeterministicType ==
    ASSUME NEW w, Weighed(w), Total(w) < Word
    PROVE  Amounted(Deterministic(w))
<1> DEFINE sizes == {n \in 1 .. Cardinality(DOMAIN w) :
                        n <= MaxRecipients /\ Acceptable(Shares(w, n), DOMAIN w)}
           size == CHOOSE n \in sizes : \A m \in sizes : m <= n
<1>1. Deterministic(w) = IF sizes = {} THEN NoShares ELSE Shares(w, size)
  BY DEF Deterministic
<1>2. CASE sizes # {}
  <2>1. size \in 1 .. Cardinality(DOMAIN w)
    BY <1>2, GreatestSize
  <2>2. Cardinality(DOMAIN w) \in Nat
    BY Constants, FS_Subset, FS_CardinalityType DEF Weighed
  <2> HIDE DEF size
  <2>3. size \in Nat \ {0} /\ Cardinality(DOMAIN w) # 0
    BY <2>1, <2>2
  <2>4. DOMAIN w # {}
    BY <2>3, FS_EmptySet
  <2>5. Amounted(Shares(w, size))
    BY <2>3, <2>4, SharesType
  <2> QED
    BY <1>1, <1>2, <2>5
<1>3. CASE sizes = {}
  BY <1>1, <1>3, NoSharesType
<1> QED
  BY <1>2, <1>3

LEMMA SharesOfType ==
    ASSUME NEW answer \in Seq([who : Users, percentage : Int])
    PROVE  Amounted(SharesOf(answer))
<1> DEFINE place(u) == CHOOSE i \in DOMAIN answer : answer[i].who = u
<1>1. \A i \in DOMAIN answer : answer[i].who \in Users /\ answer[i].percentage \in Int
  <2> TAKE i \in DOMAIN answer
  <2>1. DOMAIN answer = 1 .. Len(answer)
    OBVIOUS
  <2>2. answer[i] \in [who : Users, percentage : Int]
    <3> DEFINE entries == [who : Users, percentage : Int]
    <3>1. answer \in Seq(entries) /\ i \in 1 .. Len(answer)
      BY <2>1
    <3> HIDE DEF entries
    <3>2. answer[i] \in entries
      BY <3>1
    <3> QED
      BY <3>2 DEF entries
  <2> QED
    BY <2>2
<1>2. Named(answer) \subseteq Users
  BY <1>1 DEF Named
<1>3. \A u \in Named(answer) : place(u) \in DOMAIN answer
  BY DEF Named
<1>4. SharesOf(answer) = [u \in Named(answer) |-> answer[place(u)].percentage % Narrow]
  BY DEF SharesOf
<1> HIDE DEF place
<1>5. \A u \in Named(answer) : answer[place(u)].percentage % Narrow \in Nat
  BY <1>1, <1>3, Remainder, AllocationConstants
<1> QED
  BY <1>2, <1>4, <1>5 DEF Amounted

LEMMA AllocatedType ==
    ASSUME NEW w, Weighed(w), Total(w) < Word, NEW f \in Allocated(w, Answers)
    PROVE  Amounted(f)
<1>1. CASE f = Deterministic(w)
  BY <1>1, DeterministicType
<1>2. CASE \E answer \in Answers : f = SharesOf(answer)
  BY <1>2, SharesOfType, EvaluationAssumption
<1> QED
  BY <1>1, <1>2 DEF Allocated

-----------------------------------------------------------------------------
(* The weights of contributors.                                            *)

\* Whose diffs are in is somebody, since no diff of anybody else is fetched.
LEMMA AuthorsKnown == FetchTypeOK /\ NoDiffMixedUp /\ stage = "fetched" => Authors \subseteq Users
<1> SUFFICES ASSUME FetchTypeOK, NoDiffMixedUp, stage = "fetched",
                    NEW p \in PRs, diffs[p] > 0
             PROVE  AuthorOf[p] \in Users
  BY DEF Authors
<1>1. Jobs(listed)[p] = todo[p] + busy[p] + diffs[p] + lost[p]
  BY DEF NoDiffMixedUp
<1>2. todo[p] \in Nat /\ busy[p] \in Nat /\ diffs[p] \in Nat /\ lost[p] \in Nat
  BY DEF FetchTypeOK
<1>3. Jobs(listed)[p] # 0
  BY <1>1, <1>2
<1>4. AuthorOf[p] # Ghost
  BY <1>3 DEF Jobs
<1> QED
  BY <1>4, FetchAssumption

LEMMA DiffWeightsType ==
    FetchTypeOK /\ NoDiffMixedUp /\ stage = "fetched" => Weighed(DiffWeights)
<1> SUFFICES ASSUME FetchTypeOK, NoDiffMixedUp, stage = "fetched" PROVE Weighed(DiffWeights)
  OBVIOUS
<1>1. Authors \subseteq Users
  BY AuthorsKnown
<1>2. ASSUME NEW u \in Authors
      PROVE  Total([p \in {q \in PRs : AuthorOf[q] = u} |-> diffs[p] * DiffWeight[p]]) \in Nat \ {0}
  <2> DEFINE theirs == {q \in PRs : AuthorOf[q] = u}
             parts == [p \in theirs |-> diffs[p] * DiffWeight[p]]
  <2>1. PICK p \in theirs : diffs[p] > 0
    BY DEF Authors
  <2>2. \A a, b \in Nat : a * b \in Nat /\ (a > 0 /\ b > 0 => a * b > 0)
    OBVIOUS
  <2>3. \A q \in theirs : diffs[q] \in Nat /\ DiffWeight[q] \in Nat /\ DiffWeight[q] > 0
    BY EvaluationAssumption DEF FetchTypeOK
  <2>4. \A q \in theirs : diffs[q] * DiffWeight[q] \in Nat
    BY <2>2, <2>3
  <2>5. diffs[p] * DiffWeight[p] > 0
    BY <2>1, <2>2, <2>3
  <2>6. parts \in [theirs -> Nat] /\ parts[p] > 0
    BY <2>4, <2>5
  <2>7. IsFiniteSet(theirs)
    BY Constants, FS_Subset
  <2> HIDE DEF parts, theirs
  <2>8. Total(parts) \in Nat /\ parts[p] <= Total(parts) /\ parts[p] \in Nat
    BY <2>6, <2>7, TotalType, TotalElement
  <2>9. Total(parts) \in Nat \ {0}
    BY <2>6, <2>8
  <2> QED
    BY <2>9 DEF parts, theirs
<1> QED
  BY <1>1, <1>2 DEF Weighed, DiffWeights

LEMMA MetricWeightsType == Weighed(MetricWeights)
<1> DEFINE theirs(u) == {p \in PageOf(PRs, 1) : AuthorOf[p] = u}
           pulled(u) == IF counted THEN Cardinality(theirs(u)) ELSE 0
           weight(u) == CommitsOf[u] * 3 + pulled(u) * 5
<1>1. \A u \in Users : pulled(u) \in Nat
  <2> TAKE u \in Users
  <2>1. theirs(u) \subseteq PRs
    BY DEF PageOf
  <2>2. Cardinality(theirs(u)) \in Nat
    BY <2>1, Constants, FS_Subset, FS_CardinalityType
  <2> QED
    BY <2>2
<1> HIDE DEF pulled
<1>2. \A u \in Users : CommitsOf[u] \in Nat
  BY EvaluationAssumption
<1>3. \A u \in Users : weight(u) \in Nat
  BY <1>1, <1>2
<1> HIDE DEF weight
<1>4. \A u \in Users : (IF weight(u) < 1 THEN 1 ELSE weight(u)) \in Nat \ {0}
  BY <1>3
<1>5. MetricWeights = [u \in Known |-> IF weight(u) < 1 THEN 1 ELSE weight(u)]
  BY DEF MetricWeights, weight, pulled
<1>6. Known \subseteq Users
  BY DEF Known
<1> QED
  BY <1>4, <1>5, <1>6 DEF Weighed

-----------------------------------------------------------------------------
(* The weights fit 32 bits if the repository is not too large: a diff      *)
(* counts at most once and once for each change during the listing, and    *)
(* the diffs of all authors are no more than all diffs.                    *)

Roomy ==
    /\ (MaxChanges + 1) * Total(DiffWeight) < Word
    /\ Total([u \in Users |-> CommitsOf[u] * 3 + PageSize * 5 + 1]) < Word

LEMMA DiffWeightsFit ==
    ASSUME Roomy, FetchTypeOK, NoDiffMixedUp, RelistInv, stage = "fetched"
    PROVE  Total(DiffWeights) < Word
<1> DEFINE often == MaxChanges + 1
           f == [p \in PRs |-> diffs[p] * DiffWeight[p]]
           most == [p \in PRs |-> often * DiffWeight[p]]
<1>1. IsFiniteSet(PRs) /\ DiffWeight \in [PRs -> Nat] /\ often \in Nat \ {0}
  BY Constants, EvaluationAssumption
<1>2. ASSUME NEW p \in PRs PROVE diffs[p] \in Nat /\ diffs[p] <= often
  <2>1. Jobs(listed)[p] = todo[p] + busy[p] + diffs[p] + lost[p]
    BY DEF NoDiffMixedUp
  <2>2. /\ todo[p] \in Nat /\ busy[p] \in Nat /\ diffs[p] \in Nat /\ lost[p] \in Nat
        /\ listed[p] \in Nat
    BY DEF FetchTypeOK
  <2>3. Jobs(listed)[p] <= listed[p]
    BY <2>2 DEF Jobs
  <2>4. listed[p] <= changes + 1 /\ changes \in Nat /\ changes <= MaxChanges /\ MaxChanges \in Nat
    BY Constants DEF RelistInv, FetchTypeOK
  <2> QED
    BY <2>1, <2>2, <2>3, <2>4
<1>3. \A p \in PRs : /\ diffs[p] * DiffWeight[p] \in Nat /\ often * DiffWeight[p] \in Nat
                     /\ diffs[p] * DiffWeight[p] <= often * DiffWeight[p]
  <2> TAKE p \in PRs
  <2>1. DiffWeight[p] \in Nat /\ diffs[p] \in Nat /\ diffs[p] <= often /\ often \in Nat
    BY <1>1, <1>2
  <2> HIDE DEF often
  <2>2. DiffWeight[p] * diffs[p] <= DiffWeight[p] * often
    BY <2>1, Products
  <2> QED
    BY <2>1, <2>2, Products
<1>4. f \in [PRs -> Nat] /\ most \in [PRs -> Nat]
  BY <1>3
<1>5. \A p \in PRs : f[p] <= most[p]
  BY <1>3
<1>6. \A p \in PRs : most[p] = often * DiffWeight[p]
  OBVIOUS
<1>7. Authors \subseteq Users /\ IsFiniteSet(Authors)
  BY AuthorsKnown, Constants, FS_Subset
<1>8. \A u \in Authors : DiffWeights[u] = GroupTotal(f, PRs, AuthorOf, u)
  <2> TAKE u \in Authors
  <2>1. [p \in {q \in PRs : AuthorOf[q] = u} |-> f[p]]
          = [p \in {q \in PRs : AuthorOf[q] = u} |-> diffs[p] * DiffWeight[p]]
    OBVIOUS
  <2> QED
    BY <2>1 DEF DiffWeights, GroupTotal
<1>9. DiffWeights \in [Authors -> Nat]
  <2>1. Weighed(DiffWeights) /\ DOMAIN DiffWeights = Authors
    BY DiffWeightsType DEF DiffWeights
  <2> QED
    BY <2>1 DEF Weighed
<1> HIDE DEF f, most, often
<1>10. Total(DiffWeights) <= Total(f)
  BY <1>1, <1>4, <1>7, <1>8, <1>9, TotalOfGroups
<1>11. Total(f) <= Total(most)
  BY <1>1, <1>4, <1>5, TotalMonotone
<1>12. Total(most) = often * Total(DiffWeight)
  BY <1>1, <1>4, <1>6, TotalScaled
<1>13. Total(DiffWeights) \in Nat /\ Total(f) \in Nat /\ Total(most) \in Nat
  BY <1>1, <1>4, <1>7, <1>9, TotalType
<1>14. often * Total(DiffWeight) < Word
  BY DEF Roomy, often
<1> QED
  BY <1>10, <1>11, <1>12, <1>13, <1>14, AllocationConstants

LEMMA MetricWeightsFit == Roomy => Total(MetricWeights) < Word
<1> SUFFICES ASSUME Roomy PROVE Total(MetricWeights) < Word
  OBVIOUS
<1> DEFINE theirs(u) == {p \in PageOf(PRs, 1) : AuthorOf[p] = u}
           pulled(u) == IF counted THEN Cardinality(theirs(u)) ELSE 0
           weight(u) == CommitsOf[u] * 3 + pulled(u) * 5
           most == [u \in Users |-> CommitsOf[u] * 3 + PageSize * 5 + 1]
           part == [u \in Known |-> most[u]]
<1>1. PageSize \in Nat /\ \A u \in Users : CommitsOf[u] \in Nat
  BY Constants, EvaluationAssumption
<1>2. ASSUME NEW u \in Users PROVE pulled(u) \in Nat /\ pulled(u) <= PageSize
  <2>1. IsFiniteSet(PageOf(PRs, 1)) /\ Cardinality(PageOf(PRs, 1)) <= PageSize
    BY Constants, PageAtMostFull
  <2>2. /\ IsFiniteSet(theirs(u)) /\ Cardinality(theirs(u)) <= Cardinality(PageOf(PRs, 1))
    BY <2>1, FS_Subset
  <2>3. Cardinality(theirs(u)) \in Nat /\ Cardinality(PageOf(PRs, 1)) \in Nat
    BY <2>1, <2>2, FS_CardinalityType
  <2> HIDE DEF theirs
  <2> QED
    BY <1>1, <2>1, <2>2, <2>3
<1> HIDE DEF pulled
<1>3. \A u \in Users : most[u] \in Nat /\ weight(u) \in Nat /\ weight(u) + 1 <= most[u]
  BY <1>1, <1>2
<1>4. most \in [Users -> Nat]
  BY <1>3
<1>5. MetricWeights = [u \in Known |-> IF weight(u) < 1 THEN 1 ELSE weight(u)]
  BY DEF MetricWeights, weight, pulled
<1>6. Known \in SUBSET Users /\ IsFiniteSet(Known) /\ IsFiniteSet(Users)
  BY Constants, FS_Subset DEF Known
<1>7. part \in [Known -> Nat] /\ Over(most, Known) = Total(part)
  BY <1>3, <1>6 DEF Over
<1>8. \A u \in Known : MetricWeights[u] <= part[u]
  BY <1>3, <1>5, <1>6
<1>9. MetricWeights \in [Known -> Nat]
  BY <1>3, <1>5, <1>6
<1>10. Total(most) < Word
  BY DEF Roomy
<1> HIDE DEF most, part
<1>11. Total(MetricWeights) <= Total(part)
  BY <1>6, <1>7, <1>8, <1>9, TotalMonotone
<1>12. Total(part) <= Total(most)
  BY <1>4, <1>6, <1>7, OverPart
<1>13. Total(MetricWeights) \in Nat /\ Total(part) \in Nat /\ Total(most) \in Nat
  BY <1>4, <1>6, <1>7, <1>9, TotalType
<1> QED
  BY <1>10, <1>11, <1>12, <1>13, AllocationConstants

LEMMA NoWeightsFit == weights = NoShares => WeightsFit
<1>1. NoShares \in [{} -> Nat] /\ IsFiniteSet({})
  BY FS_EmptySet DEF NoShares
<1>2. Total(NoShares) = 0
  BY <1>1, TotalZero
<1> QED
  BY <1>2, AllocationConstants DEF WeightsFit

LEMMA WeightsFitStep ==
    ASSUME Roomy, FetchTypeOK, NoDiffMixedUp, RelistInv, WeightsFit, [Next]_vars
    PROVE  WeightsFit'
<1>1. CASE ChoosePath
  <2>1. stage = "fetched" /\ weights' \in {DiffWeights, MetricWeights}
    BY <1>1 DEF ChoosePath
  <2> QED
    BY <2>1, DiffWeightsFit, MetricWeightsFit DEF WeightsFit
<1>2. CASE EvaluateCodeImpact
  <2>1. weights' \in {weights, MetricWeights}
    BY <1>2 DEF EvaluateCodeImpact
  <2> QED
    BY <2>1, MetricWeightsFit DEF WeightsFit
<1>3. CASE UNCHANGED weights
  BY <1>3 DEF WeightsFit
<1> QED
  BY <1>1, <1>2, <1>3 DEF Next, Evaluate, EvaluateMetrics, NormalizeAgain, Commit, vars

-----------------------------------------------------------------------------
(* The invariant of the evaluation: what is committed was accepted.        *)

PayoutInv ==
    /\ stage \in Stages
    /\ Weighed(weights) /\ Amounted(shares) /\ Amounted(payout)
    /\ stage = "commit" => Acceptable(shares, Known)
    /\ NeverSentToReview
    /\ NobodyLoses

LEMMA PayoutInit == Init => PayoutInv
BY NoSharesType DEF Init, FetchInit, PayoutInv, Stages, NeverSentToReview, NobodyLoses

LEMMA PayoutFetch ==
    PayoutInv /\ (Fetch \/ Repository) /\ UNCHANGED <<weights, shares, payout>> => PayoutInv'
<1> SUFFICES ASSUME PayoutInv, Fetch \/ Repository, UNCHANGED <<weights, shares, payout>>
             PROVE  PayoutInv'
  OBVIOUS
<1>1. stage' \in {"contributors", "counts", "branch", "branches", "commits", "listing", "diffs",
                  "fetched", "failed"}
  <2>1. CASE FetchContributors \/ FindDefaultBranch \/ ListBranches \/ FetchBranchCommits
    BY <2>1 DEF FetchContributors, FetchContributorPage, RetryContributors, GiveUpContributors,
                CountPullRequests, FindDefaultBranch, ListBranches, FetchBranchCommits
  <2>2. CASE ListPage \/ FailListing \/ FetchDiffs
    BY <2>2 DEF ListPage, FailListing, FetchDiffs, AllFetched, Acquire, AppendDiff, LoseDiff
  <2>3. CASE Repository
    BY <2>3 DEF Repository, ClosePR, ReopenPR
  <2> QED
    BY <2>1, <2>2, <2>3, Zenon DEF Fetch
<1> QED
  BY <1>1 DEF PayoutInv, Stages, NeverSentToReview, NobodyLoses

LEMMA PayoutCommit == PayoutInv /\ Commit => PayoutInv'
<1> SUFFICES ASSUME PayoutInv, Commit PROVE PayoutInv'
  OBVIOUS
<1> DEFINE team == DOMAIN shares
           amounts == Amounts(shares)
<1>1. /\ shares \in [team -> Nat] /\ team \subseteq Users /\ team # {}
      /\ team \subseteq Known /\ Total(shares) = Full
  BY DEF PayoutInv, Commit, Acceptable, Amounted
<1>2. team \in SUBSET Nat /\ IsFiniteSet(team)
  BY <1>1, Constants, FS_Subset
<1>3. \A u \in team : amounts[u] = Amount(shares[u])
  BY DEF Amounts
<1> HIDE DEF team
<1>4. amounts \in [team -> Nat] /\ Total(amounts) <= Pool
  BY <1>1, <1>2, AmountsWithinPool
<1> HIDE DEF amounts
<1>5. /\ Valid(Redistribute(amounts), team)
      /\ Redistribute(amounts) \in [DOMAIN Redistribute(amounts) -> Nat]
      /\ \A u \in team : amounts[u] >= MinShare =>
            u \in DOMAIN Redistribute(amounts) /\ Redistribute(amounts)[u] >= amounts[u]
  BY <1>1, <1>2, <1>4, RedistributionPaysOut
<1>6. payout' = Redistribute(amounts) /\ UNCHANGED <<weights, shares, found>>
  BY DEF Commit, amounts, people
<1>7. Valid(payout', Known) /\ DOMAIN payout' \subseteq team
  BY <1>1, <1>5, <1>6 DEF Valid
<1>8. stage' = "committed"
  BY <1>7 DEF Commit
<1>9. Amounted(payout')
  BY <1>1, <1>5, <1>6, <1>7 DEF Amounted
<1>10. \A u \in team : Amount(shares[u]) >= MinShare =>
           u \in DOMAIN payout' /\ payout'[u] >= Amount(shares[u])
  BY <1>3, <1>5, <1>6
<1>11. NobodyLoses'
  BY <1>6, <1>10 DEF NobodyLoses, team
<1> QED
  BY <1>6, <1>8, <1>9, <1>11 DEF PayoutInv, Stages, NeverSentToReview

LEMMA PayoutEvaluate ==
    FetchTypeOK /\ NoDiffMixedUp /\ WeightsFit /\ PayoutInv /\ Evaluate => PayoutInv'
<1> SUFFICES ASSUME FetchTypeOK, NoDiffMixedUp, WeightsFit, PayoutInv, Evaluate PROVE PayoutInv'
  OBVIOUS
<1>1. CASE ChoosePath
  <2>1. Weighed(weights')
    BY <1>1, DiffWeightsType, MetricWeightsType DEF ChoosePath
  <2>2. stage' \in {"metrics", "impact"} /\ shares' = shares /\ payout' = payout
    BY <1>1 DEF ChoosePath
  <2> QED
    BY <2>1, <2>2 DEF PayoutInv, Stages, NeverSentToReview, NobodyLoses
<1>2. CASE EvaluateCodeImpact
  <2>1. Amounted(shares')
    BY <1>2, AllocatedType DEF EvaluateCodeImpact, PayoutInv, WeightsFit
  <2>2. Weighed(weights')
    BY <1>2, MetricWeightsType DEF EvaluateCodeImpact, PayoutInv
  <2>3. stage' \in {"metrics", "normalize"} /\ payout' = payout
    BY <1>2 DEF EvaluateCodeImpact
  <2> QED
    BY <2>1, <2>2, <2>3 DEF PayoutInv, Stages, NeverSentToReview, NobodyLoses
<1>3. CASE EvaluateMetrics
  <2>1. Amounted(shares')
    BY <1>3, AllocatedType DEF EvaluateMetrics, PayoutInv, WeightsFit
  <2>2. stage' \in {"refused", "normalize"} /\ payout' = payout /\ weights' = weights
    BY <1>3 DEF EvaluateMetrics
  <2> QED
    BY <2>1, <2>2 DEF PayoutInv, Stages, NeverSentToReview, NobodyLoses
<1>4. CASE NormalizeAgain
  <2>1. /\ stage' \in {"refused", "commit"} /\ payout' = payout /\ weights' = weights
        /\ shares' = shares /\ found' = found
        /\ stage' = "commit" => Acceptable(shares, Known)
    BY <1>4 DEF NormalizeAgain, people
  <2>2. stage' = "commit" => Acceptable(shares', Known')
    BY <2>1 DEF Known
  <2> QED
    BY <2>1, <2>2 DEF PayoutInv, Stages, NeverSentToReview, NobodyLoses
<1>5. CASE Commit
  BY <1>5, PayoutCommit
<1> QED
  BY <1>1, <1>2, <1>3, <1>4, <1>5 DEF Evaluate

LEMMA PayoutStep ==
    FetchTypeOK /\ NoDiffMixedUp /\ WeightsFit /\ PayoutInv /\ [Next]_vars => PayoutInv'
<1> SUFFICES ASSUME FetchTypeOK, NoDiffMixedUp, WeightsFit, PayoutInv, [Next]_vars
             PROVE  PayoutInv'
  OBVIOUS
<1>1. CASE UNCHANGED vars
  <2>1. UNCHANGED <<stage, weights, shares, payout, found>>
    BY <1>1 DEF vars, fetchVars, people
  <2>2. Known' = Known
    BY <2>1 DEF Known
  <2> QED
    BY <2>1, <2>2 DEF PayoutInv, Stages, NeverSentToReview, NobodyLoses
<1>2. CASE Next
  BY <1>2, PayoutFetch, PayoutEvaluate DEF Next
<1> QED
  BY <1>1, <1>2

LEMMA PayoutHolds ==
    ASSUME Roomy
    PROVE  Spec => [](PayoutInv /\ FetchTypeOK /\ WeightsFit)
<1>1. Init => FetchTypeOK /\ DiffInv /\ RelistInv /\ PayoutInv /\ WeightsFit
  BY FetchTypeInit, DiffInit, RelistInit, PayoutInit, NoWeightsFit DEF Init
<1>2. FetchTypeOK /\ DiffInv /\ RelistInv /\ PayoutInv /\ WeightsFit /\ [Next]_vars
          => FetchTypeOK' /\ DiffInv' /\ RelistInv' /\ PayoutInv' /\ WeightsFit'
  BY FetchTypeStep, DiffStep, RelistStep, PayoutStep, WeightsFitStep DEF DiffInv
<1> QED
  BY <1>1, <1>2, PTL DEF Spec

\* As long as the repository is not too large for 32 bits: every reachable state is well
\* typed, and the semaphore never loses or gains a place.
THEOREM TypeCorrect ==
    ASSUME Roomy
    PROVE  Spec => []TypeOK
<1>1. PayoutInv /\ FetchTypeOK => TypeOK
  BY DEF PayoutInv, TypeOK, Amounted, Weighed
<1> QED
  BY <1>1, PayoutHolds, PTL

\* Whatever a language model answers and however the shares are rounded, an allocation
\* that survives the normalization can be paid out, for any pool and minimum.
THEOREM NeverSentToReviewCorrect ==
    ASSUME Roomy
    PROVE  Spec => []NeverSentToReview
<1>1. PayoutInv => NeverSentToReview
  BY DEF PayoutInv
<1> QED
  BY <1>1, PayoutHolds, PTL

\* Redistribution takes nothing from anybody who had the minimum.
THEOREM NobodyLosesCorrect ==
    ASSUME Roomy
    PROVE  Spec => []NobodyLoses
<1>1. PayoutInv => NobodyLoses
  BY DEF PayoutInv
<1> QED
  BY <1>1, PayoutHolds, PTL

LEMMA SharesFollow == PayoutInv /\ WeightsFit => SharesFollowWeights
<1> SUFFICES ASSUME PayoutInv, WeightsFit, shares = Deterministic(weights),
                    \A u \in DOMAIN shares : ~(weights[u] * Full >= Word)
             PROVE  /\ \A u \in DOMAIN shares, v \in DOMAIN weights \ DOMAIN shares :
                          Before(weights, u, v)
                    /\ \A u \in DOMAIN shares :
                          LET all == Over(weights, DOMAIN shares)
                              error == shares[u] * all - weights[u] * Full
                          IN  error < Cardinality(DOMAIN shares) * all /\ error > -all
  BY DEF SharesFollowWeights
<1> DEFINE sizes == {n \in 1 .. Cardinality(DOMAIN weights) :
                        n <= MaxRecipients /\ Acceptable(Shares(weights, n), DOMAIN weights)}
           size == CHOOSE n \in sizes : \A m \in sizes : m <= n
<1>1. shares = IF sizes = {} THEN NoShares ELSE Shares(weights, size)
  BY DEF Deterministic
<1>2. Weighed(weights) /\ Total(weights) < Word
  BY DEF PayoutInv, WeightsFit
<1>3. CASE sizes = {}
  BY <1>1, <1>3, NoSharesType
<1>4. CASE sizes # {}
  <2>1. size \in sizes /\ size \in 1 .. Cardinality(DOMAIN weights)
    BY <1>2, <1>4, GreatestSize
  <2>2. shares = Shares(weights, size)
    BY <1>1, <1>4
  <2> HIDE DEF size
  <2>3. DOMAIN shares = Top(weights, size)
    BY <2>2 DEF Shares
  <2>4. \A u \in Top(weights, size) : weights[u] \in Nat /\ weights[u] * Full \in Nat
    BY <1>2, AllocationConstants, Products DEF Weighed, Top
  <2>5. \A u \in Top(weights, size) : weights[u] * Full < Word
    BY <2>3, <2>4, AllocationConstants
  <2> QED
    BY <1>2, <2>1, <2>2, <2>3, <2>5, SharesProportional
<1> QED
  BY <1>3, <1>4

\* For any weights, team and number of basis points: who is heavier comes first, and
\* the rounding takes from nobody, and gives to nobody, more than a basis point for each
\* member of the team.
THEOREM SharesFollowWeightsCorrect ==
    ASSUME Roomy
    PROVE  Spec => []SharesFollowWeights
<1>1. PayoutInv /\ WeightsFit => SharesFollowWeights
  BY SharesFollow
<1> QED
  BY <1>1, PayoutHolds, PTL

-----------------------------------------------------------------------------
(* Refusals.  One recipient of everything is always acceptable, so the     *)
(* deterministic allocation finds something if there is anybody at all.    *)

LEMMA OneTakesAll ==
    ASSUME NEW w, Weighed(w), DOMAIN w # {}
    PROVE  Acceptable(Shares(w, 1), DOMAIN w)
<1> USE AllocationConstants
<1> DEFINE team == Top(w, 1)
           last == CHOOSE u \in team : Place(w, u) = 1 - 1
           share == [u \in team \ {last} |-> Share(w[u], Over(w, team))]
           all == Shares(w, 1)
<1>1. /\ DOMAIN w \in SUBSET Nat /\ IsFiniteSet(DOMAIN w)
      /\ w \in [DOMAIN w -> Nat] /\ \A u \in DOMAIN w : w[u] \in Nat \ {0}
  BY Constants, FS_Subset DEF Weighed
<1>2. PICK u \in DOMAIN w : Place(w, u) = 0 /\ \A v \in DOMAIN w \ {u} : Before(w, u, v)
  BY <1>1, SomebodyFirst
<1>3. ASSUME NEW v \in DOMAIN w, v # u
      PROVE  Place(w, v) \in Nat \ {0}
  <2> DEFINE ahead == {x \in DOMAIN w : Before(w, x, v)}
  <2>1. IsFiniteSet(ahead) /\ u \in ahead
    BY <1>1, <1>2, <1>3, FS_Subset
  <2> HIDE DEF ahead
  <2>2. Cardinality(ahead) \in Nat /\ Cardinality(ahead) # 0
    BY <2>1, FS_CardinalityType, FS_EmptySet
  <2> QED
    BY <2>2 DEF Place, ahead
<1>4. team = {u}
  <2>1. \A v \in DOMAIN w : Place(w, v) < 1 <=> v = u
    BY <1>2, <1>3
  <2> QED
    BY <2>1 DEF Top
<1>5. last = u
  <2>1. 1 - 1 = 0
    OBVIOUS
  <2> QED
    BY <1>2, <1>4, <2>1
<1>6. all = [v \in team |-> IF v = last THEN (Full - Total(share)) % Narrow ELSE share[v]]
  BY DEF Shares
<1>7. Total(share) = 0
  <2>1. team \ {last} = {}
    BY <1>4, <1>5
  <2>2. share \in [{} -> Nat]
    BY <2>1
  <2> HIDE DEF share
  <2>3. IsFiniteSet({})
    BY FS_EmptySet
  <2> QED
    BY <2>2, <2>3, TotalZero
<1>8. (Full - 0) % Narrow = Full
  BY AllocationAssumption, Remainder
<1> HIDE DEF share, last, team
<1>9. all = [v \in {u} |-> Full]
  BY <1>4, <1>5, <1>6, <1>7, <1>8
<1> HIDE DEF all
<1>10. DOMAIN all = {u} /\ all[u] = Full /\ all \in [{u} -> Nat]
  BY <1>9
<1>11. Total(all) = Full
  BY <1>10, TotalOfOne
<1>12. Cardinality(DOMAIN all) = 1
  BY <1>10, FS_Singleton
<1>13. Amount(Full) > 0
  <2> DEFINE whole == Pool * Full
             pays == whole \div Full
  <2>1. whole \in Nat /\ Full <= whole
    <3>1. Pool - 1 \in Nat
      OBVIOUS
    <3>2. (Pool - 1) * Full \in Nat
      BY <3>1
    <3>3. whole = (Pool - 1) * Full + Full
      OBVIOUS
    <3> QED
      BY <3>2, <3>3
  <2> HIDE DEF whole
  <2>2. pays \in Nat /\ whole < Full * pays + Full
    BY <2>1, Division
  <2> HIDE DEF pays
  <2>3. pays # 0
    BY <2>1, <2>2
  <2> QED
    BY <2>2, <2>3 DEF Amount, pays, whole
<1>14. MaxRecipients >= 1 /\ Full > 0
  OBVIOUS
<1>15. Acceptable(all, DOMAIN w)
  BY <1>10, <1>11, <1>12, <1>13, <1>14 DEF Acceptable
<1> QED
  BY <1>15 DEF all

LEMMA DeterministicAcceptable ==
    ASSUME NEW w, Weighed(w), DOMAIN w # {}
    PROVE  Acceptable(Deterministic(w), DOMAIN w)
<1> DEFINE sizes == {n \in 1 .. Cardinality(DOMAIN w) :
                        n <= MaxRecipients /\ Acceptable(Shares(w, n), DOMAIN w)}
           size == CHOOSE n \in sizes : \A m \in sizes : m <= n
<1>1. Deterministic(w) = IF sizes = {} THEN NoShares ELSE Shares(w, size)
  BY DEF Deterministic
<1>2. IsFiniteSet(DOMAIN w)
  BY Constants, FS_Subset DEF Weighed
<1>3. Cardinality(DOMAIN w) \in Nat \ {0}
  BY <1>2, FS_CardinalityType, FS_EmptySet
<1>4. Acceptable(Shares(w, 1), DOMAIN w)
  BY OneTakesAll
<1>5. 1 \in sizes
  BY <1>3, <1>4, AllocationConstants
<1>6. size \in sizes
  BY <1>5, GreatestSize
<1>7. \A n \in sizes : Acceptable(Shares(w, n), DOMAIN w)
  OBVIOUS
<1> HIDE DEF sizes, size
<1> QED
  BY <1>1, <1>5, <1>6, <1>7

\* What the model's answer may lead to is just as acceptable, and never nothing.
LEMMA AllocatedAcceptable ==
    ASSUME NEW w, Weighed(w), DOMAIN w # {}, NEW f \in Allocated(w, Answers)
    PROVE  Acceptable(f, DOMAIN w) /\ f # NoShares
<1>1. Acceptable(f, DOMAIN w)
  BY DeterministicAcceptable DEF Allocated
<1>2. DOMAIN f # {}
  BY <1>1 DEF Acceptable
<1> QED
  BY <1>1, <1>2, NoSharesType

RefusalInv ==
    /\ stage \in {"counts", "listing", "diffs", "fetched", "impact", "metrics"} => Known # {}
    /\ stage = "impact" => DOMAIN weights = Authors /\ Authors # {}
    /\ stage = "metrics" => DOMAIN weights = Known
    /\ stage = "normalize" => /\ DOMAIN weights \in {Authors, Known}
                              /\ Acceptable(shares, DOMAIN weights)
    /\ OnlyStrangersRefused

LEMMA RefusalInit == Init => RefusalInv
BY DEF Init, FetchInit, RefusalInv, OnlyStrangersRefused

\* The list of pull requests begins with somebody in the list of contributors.
LEMMA RefusalPeople ==
    ASSUME FetchTypeOK, RefusalInv,
           FetchContributors \/ FindDefaultBranch \/ ListBranches \/ FetchBranchCommits
    PROVE  RefusalInv'
<1>1. CASE FetchContributorPage
  <2>1. found' \in [Users -> Nat]
    BY <1>1, PlusType DEF FetchTypeOK, FetchContributorPage
  <2>2. stage' \in {"contributors", "branch"} \/ (stage' = "counts" /\ found' # Nobody)
    BY <1>1 DEF FetchContributorPage
  <2>3. ASSUME found' # Nobody PROVE Known' # {}
    <3>1. PICK u \in Users : found'[u] # 0
      BY <2>1, <2>3 DEF Nobody
    <3>2. found'[u] > 0
      BY <2>1, <3>1
    <3> QED
      BY <3>2 DEF Known
  <2> QED
    BY <2>2, <2>3 DEF RefusalInv, OnlyStrangersRefused
<1>2. CASE RetryContributors \/ GiveUpContributors
  <2>1. stage' \in {"contributors", "branch"}
    BY <1>2 DEF RetryContributors, GiveUpContributors
  <2> QED
    BY <2>1 DEF RefusalInv, OnlyStrangersRefused
<1>3. CASE CountPullRequests
  <2>1. stage = "counts" /\ stage' = "listing" /\ Known' = Known
    BY <1>3 DEF CountPullRequests, Known
  <2> QED
    BY <2>1 DEF RefusalInv, OnlyStrangersRefused
<1>4. CASE FindDefaultBranch \/ ListBranches
  <2>1. stage' \in {"commits", "branches", "failed"}
    BY <1>4 DEF FindDefaultBranch, ListBranches
  <2> QED
    BY <2>1 DEF RefusalInv, OnlyStrangersRefused
<1>5. CASE FetchBranchCommits
  <2>1. PICK authors \in SUBSET Committers :
            /\ found' = Plus(Nobody, authors)
            /\ stage' = IF authors = {} THEN "failed" ELSE "listing"
    BY <1>5 DEF FetchBranchCommits
  <2>2. ASSUME authors # {} PROVE Known' # {}
    <3>1. PICK u \in authors : TRUE
      BY <2>2
    <3>2. u \in Users /\ Nobody \in [Users -> Nat] /\ Nobody[u] = 0
      BY Constants DEF Nobody
    <3>3. found'[u] = 1
      BY <2>1, <3>2, PlusType
    <3> QED
      BY <3>2, <3>3 DEF Known
  <2>3. stage' = "failed" \/ (stage' = "listing" /\ Known' # {})
    BY <2>1, <2>2
  <2> QED
    BY <2>3 DEF RefusalInv, OnlyStrangersRefused
<1> QED
  BY <1>1, <1>2, <1>3, <1>4, <1>5 DEF FetchContributors

LEMMA RefusalListed ==
    ASSUME RefusalInv, found' = found,
           stage \in {"listing", "diffs"}, stage' \in {"listing", "diffs", "fetched", "failed"}
    PROVE  RefusalInv'
BY DEF RefusalInv, OnlyStrangersRefused, Known

LEMMA RefusalEvaluate ==
    ASSUME FetchTypeOK, NoDiffMixedUp, PayoutInv, RefusalInv, Evaluate
    PROVE  RefusalInv'
<1>1. Known' = Known /\ Authors' = Authors
  BY DEF Evaluate, ChoosePath, EvaluateCodeImpact, EvaluateMetrics, NormalizeAgain, Commit,
         people, pulls, Known, Authors
<1>2. DOMAIN DiffWeights = Authors /\ DOMAIN MetricWeights = Known
  BY DEF DiffWeights, MetricWeights
<1>3. CASE ChoosePath
  <2>1. \/ stage' = "metrics" /\ weights' = MetricWeights
        \/ stage' = "impact" /\ weights' = DiffWeights /\ Authors # {}
    BY <1>3 DEF ChoosePath
  <2>2. Known # {}
    BY <1>3 DEF ChoosePath, RefusalInv
  <2> QED
    BY <1>1, <1>2, <2>1, <2>2 DEF RefusalInv, OnlyStrangersRefused
<1>4. ASSUME stage \in {"impact", "metrics"}, shares' \in Allocated(weights, Answers)
      PROVE  Acceptable(shares', DOMAIN weights) /\ shares' # NoShares
  <2>1. Weighed(weights) /\ DOMAIN weights # {}
    BY <1>4 DEF PayoutInv, RefusalInv
  <2> QED
    BY <1>4, <2>1, AllocatedAcceptable
<1>5. CASE EvaluateCodeImpact \/ EvaluateMetrics
  <2>1. stage \in {"impact", "metrics"} /\ shares' \in Allocated(weights, Answers)
    BY <1>5 DEF EvaluateCodeImpact, EvaluateMetrics
  <2>2. stage' = "normalize" /\ weights' = weights
    BY <1>4, <1>5, <2>1 DEF EvaluateCodeImpact, EvaluateMetrics
  <2>3. DOMAIN weights \in {Authors, Known}
    BY <2>1 DEF RefusalInv
  <2> QED
    BY <1>1, <1>4, <2>1, <2>2, <2>3 DEF RefusalInv, OnlyStrangersRefused
<1>6. CASE NormalizeAgain
  <2>1. stage = "normalize" /\ stage' = IF Acceptable(shares, Known) THEN "commit" ELSE "refused"
    BY <1>6 DEF NormalizeAgain
  <2>2. DOMAIN weights \in {Authors, Known} /\ Acceptable(shares, DOMAIN weights)
    BY <2>1 DEF RefusalInv
  <2>3. Authors \subseteq Known => Acceptable(shares, Known)
    BY <2>2 DEF Acceptable
  <2> QED
    BY <1>1, <2>1, <2>3 DEF RefusalInv, OnlyStrangersRefused
<1>7. CASE Commit
  <2>1. stage' \in {"committed", "review"}
    BY <1>7 DEF Commit
  <2> QED
    BY <2>1 DEF RefusalInv, OnlyStrangersRefused
<1> QED
  BY <1>3, <1>5, <1>6, <1>7 DEF Evaluate

LEMMA RefusalStep ==
    FetchTypeOK /\ NoDiffMixedUp /\ PayoutInv /\ RefusalInv /\ [Next]_vars => RefusalInv'
<1> SUFFICES ASSUME FetchTypeOK, NoDiffMixedUp, PayoutInv, RefusalInv, [Next]_vars
             PROVE  RefusalInv'
  OBVIOUS
<1>1. CASE UNCHANGED vars
  <2>1. UNCHANGED <<stage, weights, shares, found, diffs>>
    BY <1>1 DEF vars, fetchVars, people, pulls
  <2>2. Known' = Known /\ Authors' = Authors
    BY <2>1 DEF Known, Authors
  <2> QED
    BY <2>1, <2>2 DEF RefusalInv, OnlyStrangersRefused
<1>2. CASE ListPage \/ FailListing \/ FetchDiffs
  <2>1. /\ stage \in {"listing", "diffs"} /\ stage' \in {"listing", "diffs", "fetched", "failed"}
        /\ found' = found
    BY <1>2 DEF ListPage, FailListing, FetchDiffs, AllFetched, Acquire, AppendDiff, LoseDiff, people
  <2> QED
    BY <2>1, RefusalListed
<1>3. CASE Repository
  <2>1. stage = "listing" /\ stage' = "listing" /\ found' = found
    BY <1>3 DEF Repository, ClosePR, ReopenPR, people
  <2> QED
    BY <2>1, RefusalListed
<1>4. CASE Evaluate
  BY <1>4, RefusalEvaluate
<1> QED
  BY <1>1, <1>2, <1>3, <1>4, RefusalPeople, Zenon DEF Next, Fetch

\* For any contributors, answers and limits, an allocation is refused only if some
\* author of a diff is not in the list of contributors.
THEOREM OnlyStrangersRefusedCorrect ==
    ASSUME Roomy
    PROVE  Spec => []OnlyStrangersRefused
<1>1. Init => RefusalInv
  BY RefusalInit
<1>2. Spec => []NoDiffMixedUp
  BY NoDiffMixedUpCorrect
<1>3. FetchTypeOK /\ NoDiffMixedUp /\ PayoutInv /\ RefusalInv /\ [Next]_vars => RefusalInv'
  BY RefusalStep
<1>4. RefusalInv => OnlyStrangersRefused
  BY DEF RefusalInv
<1> QED
  BY <1>1, <1>2, <1>3, <1>4, PayoutHolds, PTL DEF Spec
=============================================================================
