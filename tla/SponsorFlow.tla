---------------------------- MODULE SponsorFlow ----------------------------
(***************************************************************************)
(* What a sponsor does through the backend: CreateCampaign builds a        *)
(* transaction the sponsor's wallet signs and sends, CreateCampaignConfirm *)
(* stores the campaign, RefundBuild builds the refund and RefundConfirm    *)
(* records it, while page views and the finalization rewrite the same row. *)
(* Only the sponsor's wallet knows whether it sent what was built, and     *)
(* when.                                                                   *)
(*                                                                         *)
(* Campaigns on Solana behave as CampaignLife says: an element of          *)
(* Campaigns is an account, whose address is made of its sponsor and its   *)
(* id.  The store keeps one row per id, and the backend finds an account   *)
(* by id alone.  One action per RPC or store call.  An element of Repos    *)
(* stands for repository and reward, which a confirmation names again and  *)
(* the account must match.  The backend's clock and Solana's are one;      *)
(* FinalizeFlow refines what Mark and Finalize sum up.                     *)
(***************************************************************************)
EXTENDS CampaignLife

CONSTANTS
    IdOf,        \* account -> the campaign id in its address
    Handlers,    \* goroutines that serve these requests
    Repos,
    Deadlines,   \* deadlines a sponsor may ask for
    NoRepo,      \* a campaign whose repository the row does not name
    NoCampaign,  \* no account: there is no row
    NoTerms,     \* no transaction was built
    OtherRefund, \* the refund of a campaign that is not among Campaigns
    Lead,        \* minCampaignLeadTime
    Timeout,     \* a confirmation takes no longer, once received
    MaxTime,     \* bound: the clock
    MaxRestarts  \* bound: restarts of the backend

Ids == {IdOf[c] : c \in Campaigns}

\* No two sponsors have accounts with the same id.  Ids are random numbers of 64
\* bits, so the backend does not hand one out twice; but nobody else is kept from
\* opening an account with an id that exists, and the backend does not tell the two
\* apart.  What a row is worth rests on this; the instances and the theorems about
\* rows say that they assume it.
OneAccountPerId == \A c, d \in Campaigns : IdOf[c] = IdOf[d] => c = d

Terms == [repo: Repos, deadline: Deadlines]

ASSUME SponsorAssumption ==
    /\ Deadlines \subseteq Nat
    /\ NoRepo \notin Repos
    /\ NoCampaign \notin Campaigns
    /\ NoTerms \notin Terms
    /\ OtherRefund \notin Campaigns
    /\ MinDeadline \in Nat /\ ClaimWindow \in Nat
    /\ Lead \in Nat /\ Timeout \in Nat /\ Timeout < Lead
    /\ MaxTime \in Nat /\ MaxRestarts \in Nat

VARIABLES
    repo,       \* campaign -> the repository (and so on) its account names
    offer,      \* campaign -> the terms of the transaction CreateCampaign built
    refundTxs,  \* campaigns RefundBuild built a transaction for
    refunded,   \* history: campaigns whose refund has landed
    rows,       \* the store: id -> row
    pc,         \* where each handler is
    target,     \* the account its request names
    terms,      \* the terms a confirmation names
    started,    \* when the confirmation was received
    copy,       \* the row it is about to write
    restarts

sponsorVars == <<repo, offer, refundTxs, refunded, rows, pc, target, terms, started, copy, restarts>>
vars == <<lifeVars, sponsorVars>>

\* `account': whose address, sponsor, pool and times the row has; `finalizing':
\* finalization status or allocations are set; `signature': which transaction
\* TxSignature names.  SQLite keeps no status, close reason or claim
\* deadline: they are read from the chain.
Row ==
    [known: BOOLEAN, account: Campaigns \cup {NoCampaign}, repo: Repos \cup {NoRepo},
     state: {"none", "funded", "finalized", "completed"},
     finalizing: BOOLEAN, signature: {"none", "create", "refund"}]

NoRow ==
    [known |-> FALSE, account |-> NoCampaign, repo |-> NoRepo, state |-> "none",
     finalizing |-> FALSE, signature |-> "none"]

Init ==
    /\ LifeInit
    /\ repo = [c \in Campaigns |-> NoRepo]
    /\ offer = [c \in Campaigns |-> NoTerms]
    /\ refundTxs = {} /\ refunded = {}
    /\ rows = [i \in Ids |-> NoRow]
    /\ pc = [h \in Handlers |-> "idle"]
    /\ target \in [Handlers -> Campaigns]
    /\ terms = [h \in Handlers |-> NoTerms]
    /\ started = [h \in Handlers |-> 0]
    /\ copy = [h \in Handlers |-> NoRow]
    /\ restarts = 0

\* Mutant: Status is taken for State.
StateOfStatus(c) == status[c]

\* decodeCampaignAccount: the State of a campaign whose account says status.
StateOf(c) ==
    CASE status[c] = "active" -> "funded"
      [] status[c] = "finalized" -> "finalized"
      [] status[c] = "closed" -> "completed"
      [] OTHER -> "none"

\* GetCampaign looks for an account with the id, of any sponsor, and takes the one
\* created last; which that is, is left open.
GetCampaign(id) == {c \in Campaigns : status[c] # "none" /\ IdOf[c] = id}

-----------------------------------------------------------------------------
(* Handlers.                                                               *)

\* The campaign id of the request.
Id(h) == IdOf[target[h]]

Goto(h, label) == pc' = [pc EXCEPT ![h] = label]

Copied(h, row) == copy' = [copy EXCEPT ![h] = row]

\* The handler answers, with a result or an error.
Answer(h) ==
    /\ Goto(h, "idle") /\ Copied(h, NoRow)
    /\ terms' = [terms EXCEPT ![h] = NoTerms] /\ started' = [started EXCEPT ![h] = 0]
    /\ UNCHANGED target

Begin(h, c, label) ==
    /\ pc[h] = "idle" /\ Goto(h, label)
    /\ target' = [target EXCEPT ![h] = c]

Write(h) == rows' = [rows EXCEPT ![Id(h)] = copy[h]]

(* CreateCampaign.  Its ids are random, so no account is offered twice.     *)

Offer(c) ==
    /\ offer[c] = NoTerms
    /\ \E t \in Terms :
          /\ t.deadline >= now + Lead
          /\ offer' = [offer EXCEPT ![c] = t]
    /\ UNCHANGED <<lifeVars, repo, refundTxs, refunded, rows, pc, target, terms, started,
                   copy, restarts>>

\* The sponsor signs and sends it, at any time; the program checks the deadline.
SendCreate(c) ==
    /\ offer[c] # NoTerms
    /\ deadline' = [deadline EXCEPT ![c] = offer[c].deadline]
    /\ Open(c)
    /\ repo' = [repo EXCEPT ![c] = offer[c].repo]
    /\ UNCHANGED <<offer, refundTxs, refunded, rows, pc, target, terms, started, copy, restarts>>

(* CreateCampaignConfirm, sent by anybody with any terms, any number of times. *)

\* Mutant: the lead time is checked when the transaction is built, not again.
InTimeAlways(t) == TRUE

InTime(t) == t.deadline >= now + Lead

Confirm(h, c) ==
    /\ Begin(h, c, "lookup")
    /\ \E t \in Terms : InTime(t) /\ terms' = [terms EXCEPT ![h] = t]
    /\ started' = [started EXCEPT ![h] = now]
    /\ UNCHANGED <<lifeVars, repo, offer, refundTxs, refunded, rows, copy, restarts>>

\* Mutant: the account's repository is not compared.
MatchesDeadline(c, t) == status[c] # "none" /\ deadline[c] = t.deadline

Matches(c, t) == status[c] # "none" /\ deadline[c] = t.deadline /\ repo[c] = t.repo

\* GetCampaign and the comparisons, of which the sponsor's says that the account found
\* is the one the request names; Solana or GitHub may also fail.
Lookup(h) ==
    /\ pc[h] = "lookup"
    /\ LET c == target[h] IN
       \/ /\ c \in GetCampaign(Id(h)) /\ Matches(c, terms[h])
          /\ Copied(h, [known |-> TRUE, account |-> c, repo |-> terms[h].repo,
                        state |-> StateOf(c), finalizing |-> FALSE, signature |-> "create"])
          /\ Goto(h, "existing")
          /\ UNCHANGED <<target, terms, started>>
       \/ Answer(h)
    /\ UNCHANGED <<lifeVars, repo, offer, refundTxs, refunded, rows, restarts>>

\* store.Get: any error counts as a campaign that is not stored.
Existing(h) ==
    /\ pc[h] = "existing"
    /\ \/ rows[Id(h)].known /\ Goto(h, "replace")
       \/ Goto(h, "create")
    /\ UNCHANGED <<lifeVars, repo, offer, refundTxs, refunded, rows, target, terms, started,
                   copy, restarts>>

Replace(h) ==
    /\ pc[h] = "replace"
    /\ Write(h) /\ Answer(h)
    /\ UNCHANGED <<lifeVars, repo, offer, refundTxs, refunded, restarts>>

\* store.Create fails if there is a row by now.  RefundConfirm ends with it, too.
Create(h) ==
    /\ pc[h] \in {"create", "refund-create"}
    /\ IF rows[Id(h)].known THEN UNCHANGED rows ELSE Write(h)
    /\ Answer(h)
    /\ UNCHANGED <<lifeVars, repo, offer, refundTxs, refunded, restarts>>

(* RefundBuild.                                                            *)

RefundLoad(h, c) ==
    /\ Begin(h, c, "build")
    /\ status[c] \notin {"none", "closed"}
    /\ UNCHANGED <<lifeVars, repo, offer, refundTxs, refunded, rows, terms, started, copy,
                   restarts>>

\* Mutant: the campaign's deadline is taken for that of its claims.
MayRefundWhenDue(c) == Due(c)

MayRefund(c) == Expired(c)

RefundBuild(h) ==
    /\ pc[h] = "build"
    /\ \/ MayRefund(target[h]) /\ refundTxs' = refundTxs \cup {target[h]}
       \/ UNCHANGED refundTxs
    /\ Answer(h)
    /\ UNCHANGED <<lifeVars, repo, offer, refunded, rows, restarts>>

\* A transaction RefundBuild built, or one of another client, lands.
SendRefund(c) ==
    /\ Return(c)
    /\ refunded' = refunded \cup {c}
    /\ UNCHANGED <<repo, offer, refundTxs, rows, pc, target, terms, started, copy, restarts>>

(* RefundConfirm.                                                          *)

\* VerifyRefundTransaction: the transaction has succeeded and is final.
Landed(refund) == refund \in refunded \cup {OtherRefund}

\* Mutant: any refund proves any refund.
NamesAny(refund, c) == status[c] # "none"

\* verifyRefundTransaction: its instruction is a refund of this campaign's escrow.
Names(refund, c) == refund = c

RefundConfirm(h, c) ==
    /\ Begin(h, c, "verified")
    /\ \E refund \in Campaigns \cup {OtherRefund} : Landed(refund) /\ Names(refund, c)
    /\ UNCHANGED <<lifeVars, repo, offer, refundTxs, refunded, rows, terms, started, copy,
                   restarts>>

\* The account is closed for good by now, so it makes no difference when it is read.
\* If the read fails, the row's account or the request's is kept.  An account names no
\* repository.
RefundRead(h) ==
    /\ pc[h] = "verified"
    /\ LET row == rows[Id(h)] IN
       \E e \in GetCampaign(Id(h)) \cup {IF row.known THEN row.account ELSE target[h]} :
          Copied(h, [row EXCEPT !.known = TRUE, !.account = e, !.state = "completed",
                                !.signature = "refund"])
    /\ Goto(h, "refund-update")
    /\ UNCHANGED <<lifeVars, repo, offer, refundTxs, refunded, rows, target, terms, started,
                   restarts>>

RefundUpdate(h) ==
    /\ pc[h] = "refund-update"
    /\ IF rows[Id(h)].known
       THEN Write(h) /\ Answer(h)
       ELSE Goto(h, "refund-create") /\ UNCHANGED <<rows, target, terms, started, copy>>
    /\ UNCHANGED <<lifeVars, repo, offer, refundTxs, refunded, restarts>>

(* loadCampaign.                                                           *)

View(h, c) ==
    /\ Begin(h, c, "read")
    /\ Copied(h, rows[IdOf[c]])
    /\ UNCHANGED <<lifeVars, repo, offer, refundTxs, refunded, rows, terms, started, restarts>>

\* mergeCampaignWithChainData, unless Solana fails or there is nothing to merge.
\* Everything the account found has is taken over; an account has no repository's name,
\* no signature and no allocations by name, so the row's remain.
Sync(h) ==
    /\ pc[h] = "read"
    /\ \/ /\ copy[h].known
          /\ \E e \in GetCampaign(Id(h)) :
                Copied(h, [copy[h] EXCEPT !.account = e, !.state = StateOf(e)])
          /\ Goto(h, "synced")
          /\ UNCHANGED <<target, terms, started>>
       \/ Answer(h)
    /\ UNCHANGED <<lifeVars, repo, offer, refundTxs, refunded, rows, restarts>>

\* Mutant: the merged campaign is shown but not stored.
SaveNothing(h) == rows' = rows

Save(h) == IF rows[Id(h)].known THEN Write(h) ELSE UNCHANGED rows

ViewSave(h) ==
    /\ pc[h] = "synced"
    /\ Save(h) /\ Answer(h)
    /\ UNCHANGED <<lifeVars, repo, offer, refundTxs, refunded, restarts>>

-----------------------------------------------------------------------------
(* The finalization, contributors, the clock and restarts.                 *)

\* The finalization records what it is at: its status, an error, allocations.
Mark(c) ==
    /\ LET row == rows[IdOf[c]] IN
       /\ row.known /\ status[c] = "active" /\ Due(c)
       /\ \E e \in {row.account, c}, state \in {row.state, "finalized"} :
             rows' = [rows EXCEPT ![IdOf[c]] =
                         [row EXCEPT !.finalizing = TRUE, !.account = e, !.state = state]]
    /\ UNCHANGED <<lifeVars, repo, offer, refundTxs, refunded, pc, target, terms, started,
                   copy, restarts>>

\* The worker knows the repository of a stored campaign only.
Finalize(c) == rows[IdOf[c]].known /\ Share(c) /\ UNCHANGED sponsorVars

Others(c) == (PayLast(c) \/ Abandon(c) \/ TopUp(c)) /\ UNCHANGED sponsorVars

Confirming == {"lookup", "existing", "replace", "create"}

Tick ==
    /\ now < MaxTime
    /\ \A h \in Handlers : pc[h] \in Confirming => now < started[h] + Timeout
    /\ TimePasses
    /\ UNCHANGED sponsorVars

Restart ==
    /\ restarts < MaxRestarts /\ restarts' = restarts + 1
    /\ pc' = [h \in Handlers |-> "idle"]
    /\ terms' = [h \in Handlers |-> NoTerms]
    /\ started' = [h \in Handlers |-> 0]
    /\ copy' = [h \in Handlers |-> NoRow]
    /\ UNCHANGED <<lifeVars, repo, offer, refundTxs, refunded, rows, target>>

Work(h) ==
    \/ Lookup(h) \/ Existing(h) \/ Replace(h) \/ Create(h)
    \/ RefundBuild(h) \/ RefundRead(h) \/ RefundUpdate(h)
    \/ Sync(h) \/ ViewSave(h)

Next ==
    \/ \E c \in Campaigns :
          Offer(c) \/ SendCreate(c) \/ SendRefund(c) \/ Mark(c) \/ Finalize(c) \/ Others(c)
    \/ \E h \in Handlers :
          \/ \E c \in Campaigns :
                Confirm(h, c) \/ RefundLoad(h, c) \/ RefundConfirm(h, c) \/ View(h, c)
          \/ Work(h)
    \/ Tick \/ Restart

Spec == Init /\ [][Next]_vars

\* A request that was begun is worked on.
FairSpec == Spec /\ \A h \in Handlers : WF_vars(Work(h))

-----------------------------------------------------------------------------
(* Properties.                                                             *)

Labels ==
    Confirming \cup {"idle", "build", "verified", "refund-update", "refund-create",
                     "read", "synced"}

\* Types, and the bounds.
TypeOK ==
    /\ now \in 0 .. MaxTime
    /\ status \in [Campaigns -> {"none", "active", "finalized", "closed"}]
    /\ deadline \in [Campaigns -> Deadlines \cup {0}]
    /\ funded \in [Campaigns -> BOOLEAN]
    /\ repo \in [Campaigns -> Repos \cup {NoRepo}]
    /\ offer \in [Campaigns -> Terms \cup {NoTerms}]
    /\ refundTxs \subseteq Campaigns /\ refunded \subseteq Campaigns
    /\ rows \in [Ids -> Row]
    /\ pc \in [Handlers -> Labels]
    /\ target \in [Handlers -> Campaigns]
    /\ terms \in [Handlers -> Terms \cup {NoTerms}]
    /\ started \in [Handlers -> 0 .. MaxTime]
    /\ copy \in [Handlers -> Row]
    /\ restarts \in 0 .. MaxRestarts

TrueOf(row, id) ==
    row.known =>
        /\ row.account \in GetCampaign(id)
        /\ row.repo \in {NoRepo, repo[row.account]}
        /\ row.state = "completed" => status[row.account] = "closed"
        /\ row.signature = "refund" => row.account \in refunded

\* Confirmations, refunds, page views and the finalization overwrite each other's
\* rows with copies of any age, but if no two accounts carry the same id, no row ever
\* names another repository than its account, or a refund or a completion that did
\* not happen.
RowIsTrue == \A id \in Ids : TrueOf(rows[id], id)

\* A confirmation that is about to replace a row (it may be repeated, or a retry of
\* one whose answer got lost) never replaces what the finalization or a refund has
\* written: it takes less time than the lead it checked again.  (If no two accounts
\* carry the same id.)
ConfirmErasesNothing ==
    \A h \in Handlers :
        pc[h] = "replace" =>
            ~rows[Id(h)].finalizing /\ rows[Id(h)].signature # "refund"

\* A refund transaction the backend has handed out is never too early, and comes for
\* nothing only if the campaign was closed in the meantime: claims and refunds are
\* the only way out of an escrow, and the last of them closes the campaign.
BuiltRefundPays ==
    \A c \in refundTxs : Expired(c) /\ (funded[c] \/ status[c] = "closed")

\* If page views of a campaign are answered again and again, a closed campaign that
\* is stored is in the end shown as completed, and stays so, whatever stale copies
\* are still to be written.  (If no two accounts carry the same id.)
ClosedIsShown ==
    \A c \in Campaigns :
        []<>(\E h \in Handlers : pc[h] = "synced" /\ target[h] = c) =>
            (status[c] = "closed" /\ rows[IdOf[c]].known
                ~> [](rows[IdOf[c]].state = "completed"))
=============================================================================
