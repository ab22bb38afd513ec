----------------------------- MODULE Allocation -----------------------------
(***************************************************************************)
(* How a pool is shared out (internal/ai, and the checks of handlers.go    *)
(* around it).  A share is a number of basis points, Full of them make the *)
(* pool; weights and shares are functions over the users they concern,     *)
(* who are numbers: a number stands for the name and for the id, by which  *)
(* the code breaks ties.                                                   *)
(***************************************************************************)
EXTENDS Sums, Sequences

CONSTANTS
    Full,           \* basis points of the whole pool
    Word,           \* 2^32: where a weight times Full wraps around
    Narrow,         \* 2^16: what a share is cut down to
    MaxRecipients,  \* maxContractAllocations
    MinShare,       \* MinAllocationLamports
    Pool            \* the reward of the campaign

ASSUME AllocationAssumption ==
    /\ {Full, Word, Narrow, MaxRecipients, MinShare, Pool} \subseteq Nat \ {0}
    /\ Full < Narrow
    /\ MinShare <= Pool

Over(f, users) == Total([u \in users |-> f[u]])

\* a comes before b: more of it, or the same and the smaller number.
Before(f, a, b) == f[a] > f[b] \/ (f[a] = f[b] /\ a < b)

\* Mutant: the lightest come first.
PlaceOfLight(f, u) == Cardinality({v \in DOMAIN f : Before(f, u, v)})

\* How many come before u.
Place(f, u) == Cardinality({v \in DOMAIN f : Before(f, v, u)})

Top(f, n) == {u \in DOMAIN f : Place(f, u) < n}

-----------------------------------------------------------------------------
(* Normalization.                                                          *)

NoShares == [u \in {} |-> 0]

Amount(share) == (Pool * share) \div Full

Amounts(shares) == [u \in DOMAIN shares |-> Amount(shares[u])]

\* What NormalizeAllocations accepts.
Acceptable(shares, known) ==
    /\ DOMAIN shares # {} /\ DOMAIN shares \subseteq known
    /\ Cardinality(DOMAIN shares) <= MaxRecipients
    /\ \A u \in DOMAIN shares : shares[u] > 0 /\ Amount(shares[u]) > 0
    /\ Total(shares) = Full

-----------------------------------------------------------------------------
(* The deterministic allocation.                                           *)

\* uint16(uint32(weight) * 10000 / uint32(total))
Share(weight, total) == ((((weight % Word) * Full) % Word) \div (total % Word)) % Narrow

\* The n heaviest share the pool; the last of them gets what rounding left over.
Shares(w, n) ==
    LET team == Top(w, n)
        last == CHOOSE u \in team : Place(w, u) = n - 1
        share == [u \in team \ {last} |-> Share(w[u], Over(w, team))]
    IN  [u \in team |-> IF u = last THEN (Full - Total(share)) % Narrow ELSE share[u]]

\* Mutant: the first attempt is the only one.
DeterministicOnce(w) ==
    Shares(w, IF Cardinality(DOMAIN w) < MaxRecipients
              THEN Cardinality(DOMAIN w) ELSE MaxRecipients)

\* As many of the heaviest as share out without a share that comes to nothing.
Deterministic(w) ==
    LET sizes == {n \in 1 .. Cardinality(DOMAIN w) :
                     n <= MaxRecipients /\ Acceptable(Shares(w, n), DOMAIN w)}
    IN  IF sizes = {} THEN NoShares
        ELSE Shares(w, CHOOSE n \in sizes : \A m \in sizes : m <= n)

-----------------------------------------------------------------------------
(* The answer of a language model: a list of names and integers.           *)

Named(answer) == {answer[i].who : i \in DOMAIN answer}

WellFormed(answer) ==
    /\ Len(answer) <= MaxRecipients
    /\ Cardinality(Named(answer)) = Len(answer)

\* Only the lowest 16 bits of a percentage are looked at.
SharesOf(answer) ==
    [u \in Named(answer) |->
        LET i == CHOOSE i \in DOMAIN answer : answer[i].who = u
        IN  answer[i].percentage % Narrow]

\* What the model's answer may lead to: its shares if they can be used, those of
\* the deterministic allocation otherwise, and also if the call fails or there is
\* no model at all.
Allocated(w, answers) ==
    {Deterministic(w)} \cup
    {SharesOf(answer) : answer \in
        {a \in answers : WellFormed(a) /\ Acceptable(SharesOf(a), DOMAIN w)}}

-----------------------------------------------------------------------------
(* Before the transaction.                                                 *)

\* Mutant: what was taken from the small shares is kept from everybody.
RedistributeNothing(amounts) ==
    LET kept == {u \in DOMAIN amounts : amounts[u] >= MinShare}
        first == CHOOSE u \in DOMAIN amounts :
                    \A v \in DOMAIN amounts \ {u} : Before(amounts, u, v)
    IN  IF kept = {} THEN [u \in {first} |-> Pool] ELSE [u \in kept |-> amounts[u]]

\* Mutant: the minimum itself counts as too small.
RedistributeTheMinimum(amounts) ==
    LET kept == {u \in DOMAIN amounts : amounts[u] > MinShare}
        first == CHOOSE u \in DOMAIN amounts :
                    \A v \in DOMAIN amounts \ {u} : Before(amounts, u, v)
    IN  IF kept = {} THEN [u \in {first} |-> Pool]
        ELSE [u \in kept |->
                 IF u = first THEN amounts[u] + (Pool - Over(amounts, kept)) ELSE amounts[u]]

\* Amounts below the minimum and what rounding left over go to the first; if none
\* reaches the minimum, the first gets everything.
Redistribute(amounts) ==
    LET kept == {u \in DOMAIN amounts : amounts[u] >= MinShare}
        first == CHOOSE u \in DOMAIN amounts :
                    \A v \in DOMAIN amounts \ {u} : Before(amounts, u, v)
    IN  IF kept = {} THEN [u \in {first} |-> Pool]
        ELSE [u \in kept |->
                 IF u = first THEN amounts[u] + (Pool - Over(amounts, kept)) ELSE amounts[u]]

Valid(amounts, known) ==
    /\ DOMAIN amounts # {} /\ DOMAIN amounts \subseteq known
    /\ \A u \in DOMAIN amounts : amounts[u] >= MinShare
    /\ Total(amounts) = Pool
=============================================================================
