-------------------------- MODULE SponsorFlowProofs --------------------------
(* Theorems about SponsorFlow, for any sets of campaigns, handlers and      *)
(* repositories and any limits with Timeout < Lead.  IInv says of every     *)
(* handler what it has established so far, and, if no two accounts carry    *)
(* the same id, of every row and of every copy of one that it is true; the  *)
(* facts it relies on outlive any other step.                               *)
EXTENDS SponsorFlow, TLAPS

\* What a row, stored or about to be, says about account c.
Tells(row, c) ==
    row.known =>
        /\ row.account = c /\ status[c] # "none"
        /\ row.repo \in {NoRepo, repo[c]}
        /\ row.state = "completed" => status[c] = "closed"
        /\ row.signature = "refund" => c \in refunded

RowOK(row, c) ==
    /\ Tells(row, c)
    /\ row.finalizing => status[c] # "none" /\ Due(c)
    /\ ~row.known => row = NoRow

CampaignOK(c) ==
    /\ OneAccountPerId => RowOK(rows[IdOf[c]], c)
    /\ c \in refunded => status[c] = "closed" /\ Expired(c)
    /\ c \in refundTxs => status[c] # "none" /\ Expired(c)
    /\ status[c] \in {"active", "finalized"} => funded[c]

Timely(h) ==
    /\ terms[h] \in Terms
    /\ terms[h].deadline >= started[h] + Lead
    /\ now <= started[h] + Timeout

Found(h) ==
    status[target[h]] # "none" /\ deadline[target[h]] = terms[h].deadline

HandlerOK(h) ==
    /\ OneAccountPerId => RowOK(copy[h], target[h])
    /\ pc[h] = "idle" => copy[h] = NoRow
    /\ pc[h] \in {"existing", "replace", "create", "refund-update", "refund-create", "synced"} =>
          copy[h].known
    /\ pc[h] \in Confirming => Timely(h)
    /\ pc[h] \in {"existing", "replace", "create"} => Found(h)
    /\ pc[h] = "build" => status[target[h]] # "none"
    /\ pc[h] \in {"verified", "refund-update", "refund-create"} => target[h] \in refunded

IInv ==
    /\ TypeOK
    /\ \A c \in Campaigns : CampaignOK(c)
    /\ \A h \in Handlers : HandlerOK(h)

\* What no step undoes.
Persists(c) ==
    /\ now \in Nat /\ now' \in Nat /\ now' >= now
    /\ status[c] # "none" =>
          status'[c] # "none" /\ deadline'[c] = deadline[c] /\ repo'[c] = repo[c]
    /\ status[c] = "closed" => status'[c] = "closed"
    /\ c \in refunded => c \in refunded'

-----------------------------------------------------------------------------
(* Types.                                                                  *)

LEMMA NoRowType == NoRow \in Row /\ ~NoRow.known /\ ~NoRow.finalizing
  BY DEF NoRow, Row

LEMMA IdType == \A c \in Campaigns : IdOf[c] \in Ids
  BY DEF Ids

LEMMA RequestId ==
    ASSUME TypeOK, NEW h \in Handlers
    PROVE  /\ target[h] \in Campaigns /\ Id(h) = IdOf[target[h]] /\ Id(h) \in Ids
           /\ copy[h] \in Row /\ rows[Id(h)] \in Row
<1>1. target[h] \in Campaigns
  BY DEF TypeOK
<1>2. Id(h) \in Ids
  BY <1>1, IdType DEF Id
<1> QED
  BY <1>1, <1>2 DEF TypeOK, Id

\* What GetCampaign finds, by the id of account c.
LEMMA FoundByItsId ==
    ASSUME NEW c \in Campaigns, NEW e \in GetCampaign(IdOf[c])
    PROVE  /\ e \in Campaigns /\ status[e] # "none"
           /\ OneAccountPerId => e = c
  BY DEF GetCampaign, OneAccountPerId

LEMMA WriteType ==
    ASSUME TypeOK, NEW h \in Handlers, Write(h)
    PROVE  rows' \in [Ids -> Row]
  BY RequestId DEF Write, TypeOK

LEMMA StateOfType == ASSUME NEW c \in Campaigns
                     PROVE  StateOf(c) \in {"none", "funded", "finalized", "completed"}
  BY DEF StateOf

LEMMA AnswerType ==
    ASSUME TypeOK, NEW h \in Handlers, Answer(h)
    PROVE  /\ pc' \in [Handlers -> Labels] /\ copy' \in [Handlers -> Row]
           /\ terms' \in [Handlers -> Terms \cup {NoTerms}] /\ target' = target
           /\ started' \in [Handlers -> 0 .. MaxTime]
  BY NoRowType, SponsorAssumption DEF TypeOK, Answer, Goto, Copied, Labels

\* A step of the campaigns' lives keeps their types.
LEMMA LifeType ==
    ASSUME TypeOK, NEW c \in Campaigns,
           Share(c) \/ PayLast(c) \/ Abandon(c) \/ Return(c) \/ TopUp(c)
    PROVE  /\ now' = now /\ deadline' = deadline
           /\ status' \in [Campaigns -> {"none", "active", "finalized", "closed"}]
           /\ funded' \in [Campaigns -> BOOLEAN]
  BY DEF TypeOK, Share, PayLast, Abandon, Return, TopUp

LEMMA TypeInit == Init => TypeOK
  BY NoRowType, SponsorAssumption DEF Init, LifeInit, TypeOK, Labels

LEMMA SendCreateType ==
    ASSUME TypeOK, NEW c \in Campaigns, SendCreate(c)
    PROVE  TypeOK'
<1>1. offer[c] \in Terms
  BY DEF SendCreate, TypeOK
<1>2. offer[c].repo \in Repos /\ offer[c].deadline \in Deadlines
  BY <1>1 DEF Terms
<1>3. deadline' \in [Campaigns -> Deadlines \cup {0}] /\ repo' \in [Campaigns -> Repos \cup {NoRepo}]
  BY <1>2 DEF SendCreate, TypeOK
<1>4. /\ status' \in [Campaigns -> {"none", "active", "finalized", "closed"}]
      /\ funded' \in [Campaigns -> BOOLEAN] /\ now' = now
  BY DEF SendCreate, Open, TypeOK
<1> QED
  BY <1>3, <1>4 DEF SendCreate, TypeOK

LEMMA RequestType ==
    ASSUME TypeOK, NEW h \in Handlers, NEW c \in Campaigns,
           Confirm(h, c) \/ RefundLoad(h, c) \/ RefundConfirm(h, c) \/ View(h, c)
    PROVE  TypeOK'
<1>1. CASE Confirm(h, c)
  BY <1>1 DEF TypeOK, Confirm, Begin, Goto, Labels, Confirming, lifeVars
<1>2. CASE RefundLoad(h, c)
  BY <1>2 DEF TypeOK, RefundLoad, Begin, Goto, Labels, lifeVars
<1>3. CASE RefundConfirm(h, c)
  BY <1>3 DEF TypeOK, RefundConfirm, Begin, Goto, Labels, lifeVars
<1>4. CASE View(h, c)
  <2>1. rows[IdOf[c]] \in Row
    BY IdType DEF TypeOK
  <2> QED
    BY <1>4, <2>1 DEF TypeOK, View, Begin, Goto, Copied, Labels, lifeVars
<1> QED
  BY <1>1, <1>2, <1>3, <1>4

LEMMA WorkType ==
    ASSUME TypeOK, NEW h \in Handlers, Work(h)
    PROVE  TypeOK'
<1> DEFINE c == target[h]
<1>0. c \in Campaigns /\ copy[h] \in Row /\ rows[Id(h)] \in Row /\ Id(h) = IdOf[c]
  BY RequestId
<1>1. CASE Lookup(h)
  <2>1. UNCHANGED <<lifeVars, repo, offer, refundTxs, refunded, rows, restarts>>
    BY <1>1 DEF Lookup
  <2>2. CASE Answer(h)
    BY <2>1, <2>2, AnswerType DEF TypeOK, lifeVars
  <2>3. CASE ~Answer(h)
    <3>1. /\ copy' = [copy EXCEPT ![h] =
                        [known |-> TRUE, account |-> c, repo |-> terms[h].repo,
                         state |-> StateOf(c), finalizing |-> FALSE, signature |-> "create"]]
          /\ Matches(c, terms[h]) /\ pc' = [pc EXCEPT ![h] = "existing"]
          /\ UNCHANGED <<target, terms, started>>
      BY <1>1, <2>3 DEF Lookup, Copied, Goto
    <3>2. terms[h].repo \in Repos \cup {NoRepo}
      BY <1>0, <3>1 DEF Matches, TypeOK
    <3>3. [known |-> TRUE, account |-> c, repo |-> terms[h].repo,
           state |-> StateOf(c), finalizing |-> FALSE, signature |-> "create"] \in Row
      BY <1>0, <3>2, StateOfType DEF Row
    <3>4. copy' \in [Handlers -> Row] /\ pc' \in [Handlers -> Labels]
      BY <3>1, <3>3 DEF TypeOK, Labels, Confirming
    <3> QED
      BY <2>1, <3>1, <3>4 DEF TypeOK, lifeVars
  <2> QED
    BY <2>2, <2>3
<1>2. CASE Existing(h)
  BY <1>2 DEF TypeOK, Existing, Goto, Labels, Confirming, lifeVars
<1>3. CASE Replace(h)
  <2>1. rows' \in [Ids -> Row]
    BY <1>3, WriteType DEF Replace, TypeOK
  <2> QED
    BY <1>3, <2>1, AnswerType DEF Replace, TypeOK, lifeVars
<1>4. CASE Create(h)
  <2>1. rows' \in [Ids -> Row]
    BY <1>4, WriteType DEF Create, TypeOK
  <2> QED
    BY <1>4, <2>1, AnswerType DEF Create, TypeOK, lifeVars
<1>5. CASE RefundBuild(h)
  <2>1. refundTxs' \subseteq Campaigns
    BY <1>0, <1>5 DEF RefundBuild, TypeOK
  <2> QED
    BY <1>5, <2>1, AnswerType DEF RefundBuild, TypeOK, lifeVars
<1>6. CASE RefundRead(h)
  <2>1. PICK e \in GetCampaign(Id(h))
                    \cup {IF rows[Id(h)].known THEN rows[Id(h)].account ELSE c} :
            copy' = [copy EXCEPT ![h] =
                        [rows[Id(h)] EXCEPT !.known = TRUE, !.account = e,
                                            !.state = "completed", !.signature = "refund"]]
    BY <1>6 DEF RefundRead, Copied
  <2>2. e \in Campaigns \cup {NoCampaign}
    BY <1>0, FoundByItsId DEF Row
  <2>3. [rows[Id(h)] EXCEPT !.known = TRUE, !.account = e,
                            !.state = "completed", !.signature = "refund"] \in Row
    BY <1>0, <2>2 DEF Row
  <2>4. copy' \in [Handlers -> Row] /\ pc' \in [Handlers -> Labels]
    BY <1>6, <2>1, <2>3 DEF RefundRead, Goto, TypeOK, Labels
  <2> QED
    BY <1>6, <2>4 DEF RefundRead, TypeOK, lifeVars
<1>7. CASE RefundUpdate(h)
  <2>1. rows' \in [Ids -> Row]
    BY <1>7, WriteType DEF RefundUpdate, TypeOK
  <2>2. CASE Answer(h)
    BY <1>7, <2>1, <2>2, AnswerType DEF RefundUpdate, TypeOK, lifeVars
  <2>3. CASE ~Answer(h)
    BY <1>7, <2>1, <2>3 DEF RefundUpdate, Goto, TypeOK, Labels, lifeVars
  <2> QED
    BY <2>2, <2>3
<1>8. CASE Sync(h)
  <2>1. CASE Answer(h)
    BY <1>8, <2>1, AnswerType DEF Sync, TypeOK, lifeVars
  <2>2. CASE ~Answer(h)
    <3>1. PICK e \in GetCampaign(Id(h)) :
              copy' = [copy EXCEPT ![h] = [copy[h] EXCEPT !.account = e, !.state = StateOf(e)]]
      BY <1>8, <2>2 DEF Sync, Copied
    <3>2. e \in Campaigns
      BY <1>0, FoundByItsId
    <3>3. [copy[h] EXCEPT !.account = e, !.state = StateOf(e)] \in Row
      BY <1>0, <3>2, StateOfType DEF Row
    <3>4. copy' \in [Handlers -> Row] /\ pc' \in [Handlers -> Labels]
      BY <1>8, <2>2, <3>1, <3>3 DEF Sync, Goto, TypeOK, Labels
    <3> QED
      BY <1>8, <2>2, <3>4 DEF Sync, TypeOK, lifeVars
  <2> QED
    BY <2>1, <2>2
<1>9. CASE ViewSave(h)
  <2>1. rows' \in [Ids -> Row]
    BY <1>9, WriteType DEF ViewSave, Save, TypeOK
  <2> QED
    BY <1>9, <2>1, AnswerType DEF ViewSave, TypeOK, lifeVars
<1> QED
  BY <1>1, <1>2, <1>3, <1>4, <1>5, <1>6, <1>7, <1>8, <1>9 DEF Work

LEMMA TypeStep ==
    ASSUME TypeOK, [Next]_vars
    PROVE  TypeOK'
<1>1. CASE UNCHANGED vars
  BY <1>1 DEF vars, lifeVars, sponsorVars, TypeOK
<1>2. ASSUME NEW c \in Campaigns, Offer(c) PROVE TypeOK'
  BY <1>2 DEF Offer, TypeOK, lifeVars
<1>3. ASSUME NEW c \in Campaigns, SendCreate(c) PROVE TypeOK'
  BY <1>3, SendCreateType
<1>4. ASSUME NEW c \in Campaigns, SendRefund(c) PROVE TypeOK'
  BY <1>4, LifeType DEF SendRefund, TypeOK
<1>5. ASSUME NEW c \in Campaigns, Mark(c) PROVE TypeOK'
  <2>1. rows[IdOf[c]] \in Row /\ IdOf[c] \in Ids
    BY IdType DEF TypeOK
  <2>2. PICK e \in {rows[IdOf[c]].account, c}, state \in {rows[IdOf[c]].state, "finalized"} :
            rows' = [rows EXCEPT ![IdOf[c]] =
                        [rows[IdOf[c]] EXCEPT !.finalizing = TRUE, !.account = e, !.state = state]]
    BY <1>5 DEF Mark
  <2>3. [rows[IdOf[c]] EXCEPT !.finalizing = TRUE, !.account = e, !.state = state] \in Row
    BY <2>1 DEF Row
  <2>4. rows' \in [Ids -> Row]
    BY <2>1, <2>2, <2>3 DEF TypeOK
  <2> QED
    BY <1>5, <2>4 DEF Mark, TypeOK, lifeVars
<1>6. ASSUME NEW c \in Campaigns, Finalize(c) \/ Others(c) PROVE TypeOK'
  BY <1>6, LifeType DEF Finalize, Others, TypeOK, sponsorVars
<1>7. CASE Tick
  BY <1>7, SponsorAssumption DEF Tick, TimePasses, TypeOK, sponsorVars
<1>8. CASE Restart
  BY <1>8, NoRowType, SponsorAssumption DEF Restart, TypeOK, lifeVars, Labels
<1>9. CASE Next
  BY <1>2, <1>3, <1>4, <1>5, <1>6, <1>7, <1>8, <1>9, RequestType, WorkType, Zenon DEF Next
<1> QED
  BY <1>1, <1>9

\* Every reachable state is well typed and within its bounds.
THEOREM TypeCorrect == Spec => []TypeOK
<1>1. Init => TypeOK
  BY TypeInit
<1>2. TypeOK /\ [Next]_vars => TypeOK'
  BY TypeStep
<1> QED
  BY <1>1, <1>2, PTL DEF Spec

-----------------------------------------------------------------------------
(* What lasts.                                                             *)

LEMMA LifeLasts ==
    ASSUME TypeOK, NEW c \in Campaigns, NEW d \in Campaigns, CampaignOK(d),
           Share(c) \/ PayLast(c) \/ Abandon(c) \/ Return(c) \/ TopUp(c)
    PROVE  /\ now' = now /\ deadline' = deadline
           /\ status[d] # "none" => status'[d] # "none"
           /\ status[d] = "closed" => status'[d] = "closed"
           /\ status'[d] \in {"active", "finalized"} => funded'[d]
  BY DEF TypeOK, CampaignOK, Share, PayLast, Abandon, Return, TopUp

LEMMA StepLasts ==
    ASSUME TypeOK, [Next]_vars, NEW d \in Campaigns, CampaignOK(d)
    PROVE  /\ Persists(d)
           /\ status'[d] \in {"active", "finalized"} => funded'[d]
<1> DEFINE Goal == /\ Persists(d)
                   /\ status'[d] \in {"active", "finalized"} => funded'[d]
<1> SUFFICES Goal
  OBVIOUS
<1>1. now \in Nat
  BY SponsorAssumption DEF TypeOK
<1>2. UNCHANGED <<lifeVars, repo>> /\ (d \in refunded => d \in refunded') => Goal
  BY <1>1 DEF lifeVars, Persists, CampaignOK
<1>3. CASE UNCHANGED vars
  BY <1>2, <1>3 DEF vars, sponsorVars
<1>4. ASSUME NEW c \in Campaigns, Offer(c) \/ Mark(c) PROVE Goal
  BY <1>2, <1>4 DEF Offer, Mark
<1>5. ASSUME NEW c \in Campaigns, SendCreate(c) PROVE Goal
  BY <1>1, <1>5 DEF SendCreate, Open, TypeOK, CampaignOK, Persists
<1>6. ASSUME NEW c \in Campaigns, SendRefund(c) PROVE Goal
  BY <1>1, <1>6, LifeLasts DEF SendRefund, Persists
<1>7. ASSUME NEW c \in Campaigns, Finalize(c) \/ Others(c) PROVE Goal
  BY <1>1, <1>7, LifeLasts DEF Finalize, Others, sponsorVars, Persists
<1>8. ASSUME NEW h \in Handlers, NEW c \in Campaigns,
             Confirm(h, c) \/ RefundLoad(h, c) \/ RefundConfirm(h, c) \/ View(h, c)
      PROVE  Goal
  BY <1>2, <1>8 DEF Confirm, RefundLoad, RefundConfirm, View
<1>9. ASSUME NEW h \in Handlers, Work(h) PROVE Goal
  BY <1>2, <1>9 DEF Work, Lookup, Existing, Replace, Create, RefundBuild, RefundRead,
                   RefundUpdate, Sync, ViewSave
<1>10. CASE Tick
  BY <1>1, <1>10 DEF Tick, TimePasses, sponsorVars, Persists, CampaignOK
<1>11. CASE Restart
  BY <1>2, <1>11 DEF Restart
<1> HIDE DEF Goal
<1>12. CASE Next
  BY <1>4, <1>5, <1>6, <1>7, <1>8, <1>9, <1>10, <1>11, <1>12, Zenon DEF Next
<1> QED
  BY <1>3, <1>12

\* Time has passed for c, if anything: what was due or expired still is.
LEMMA DueLasts ==
    ASSUME TypeOK, NEW c \in Campaigns, Persists(c), status[c] # "none"
    PROVE  (Due(c) => Due(c)') /\ (Expired(c) => Expired(c)')
<1>1. deadline[c] \in Nat /\ ClaimWindow \in Nat
  <2>1. Deadlines \cup {0} \subseteq Nat
    BY SponsorAssumption
  <2> QED
    BY <2>1, SponsorAssumption DEF TypeOK
<1>2. deadline'[c] = deadline[c]
  BY DEF Persists
<1> QED
  BY <1>1, <1>2 DEF Persists, Due, Expired

\* A row that is true stays so, in the store, in a copy, and when a copy is stored.
LEMMA StoredLasts ==
    ASSUME TypeOK, NEW c \in Campaigns, Persists(c), RowOK(rows[IdOf[c]], c),
           rows'[IdOf[c]] = rows[IdOf[c]]
    PROVE  RowOK(rows[IdOf[c]], c)'
  BY DueLasts DEF RowOK, Tells, Persists

LEMMA CopyLasts ==
    ASSUME TypeOK, NEW h \in Handlers, Persists(target[h]), RowOK(copy[h], target[h]),
           copy'[h] = copy[h], target'[h] = target[h]
    PROVE  RowOK(copy[h], target[h])'
<1>1. target[h] \in Campaigns
  BY DEF TypeOK
<1> QED
  BY <1>1, DueLasts DEF RowOK, Tells, Persists

LEMMA CopyStored ==
    ASSUME TypeOK, NEW h \in Handlers, NEW c \in Campaigns, c = target[h], Persists(c),
           RowOK(copy[h], target[h]), rows'[IdOf[c]] = copy[h]
    PROVE  RowOK(rows[IdOf[c]], c)'
  BY DueLasts DEF RowOK, Tells, Persists

LEMMA RowCopied ==
    ASSUME TypeOK, NEW h \in Handlers, NEW c \in Campaigns, target'[h] = c, Persists(c),
           RowOK(rows[IdOf[c]], c), copy'[h] = rows[IdOf[c]]
    PROVE  RowOK(copy[h], target[h])'
  BY DueLasts DEF RowOK, Tells, Persists

\* Nothing is said by no row.
LEMMA NoCopy ==
    ASSUME NEW h \in Handlers, copy'[h] = NoRow
    PROVE  RowOK(copy[h], target[h])'
  BY NoRowType DEF RowOK, Tells

-----------------------------------------------------------------------------
(* The invariant, campaign by campaign and handler by handler.             *)

LEMMA InvInit == Init => IInv
<1> SUFFICES ASSUME Init PROVE IInv
  OBVIOUS
<1>1. TypeOK
  BY TypeInit
<1>2. ASSUME NEW c \in Campaigns PROVE CampaignOK(c)
  <2>1. rows[IdOf[c]] = NoRow
    BY IdType DEF Init
  <2> QED
    BY <2>1, NoRowType DEF Init, LifeInit, CampaignOK, RowOK, Tells
<1>3. ASSUME NEW h \in Handlers PROVE HandlerOK(h)
  BY NoRowType DEF Init, HandlerOK, RowOK, Tells, Confirming
<1> QED
  BY <1>1, <1>2, <1>3 DEF IInv

\* A row changes only when a handler stores its copy or the finalization marks it, which
\* is the account's own if no other has its id.
LEMMA RowsMove ==
    ASSUME TypeOK, [Next]_vars, OneAccountPerId, NEW c \in Campaigns
    PROVE  \/ rows'[IdOf[c]] = rows[IdOf[c]]
           \/ \E h \in Handlers : target[h] = c /\ rows'[IdOf[c]] = copy[h]
           \/ Mark(c)
<1> DEFINE Goal == \/ rows'[IdOf[c]] = rows[IdOf[c]]
                   \/ \E h \in Handlers : target[h] = c /\ rows'[IdOf[c]] = copy[h]
                   \/ Mark(c)
<1> SUFFICES Goal
  OBVIOUS
<1>1. rows' = rows => Goal
  OBVIOUS
<1>2. CASE UNCHANGED vars
  BY <1>1, <1>2 DEF vars, sponsorVars
<1>3. ASSUME NEW d \in Campaigns,
             Offer(d) \/ SendCreate(d) \/ SendRefund(d) \/ Finalize(d) \/ Others(d)
      PROVE  Goal
  BY <1>1, <1>3 DEF Offer, SendCreate, SendRefund, Finalize, Others, sponsorVars
<1>4. ASSUME NEW d \in Campaigns, Mark(d) PROVE Goal
  <2>1. d # c => IdOf[d] # IdOf[c] /\ IdOf[c] \in Ids
    BY IdType DEF OneAccountPerId
  <2>2. d # c => rows'[IdOf[c]] = rows[IdOf[c]]
    BY <1>4, <2>1 DEF Mark, TypeOK
  <2> QED
    BY <1>4, <2>2
<1>5. ASSUME NEW h \in Handlers, NEW d \in Campaigns,
             Confirm(h, d) \/ RefundLoad(h, d) \/ RefundConfirm(h, d) \/ View(h, d)
      PROVE  Goal
  BY <1>1, <1>5 DEF Confirm, RefundLoad, RefundConfirm, View
<1>6. ASSUME NEW h \in Handlers, Work(h) PROVE Goal
  <2>1. rows' = rows \/ Write(h)
    BY <1>6 DEF Work, Lookup, Existing, Replace, Create, RefundBuild, RefundRead,
                RefundUpdate, Sync, ViewSave, Save
  <2>2. ASSUME Write(h) PROVE Goal
    <3>1. target[h] \in Campaigns /\ Id(h) = IdOf[target[h]] /\ Id(h) \in Ids /\ IdOf[c] \in Ids
      BY RequestId, IdType
    <3>2. target[h] # c => Id(h) # IdOf[c]
      BY <3>1 DEF OneAccountPerId
    <3> QED
      BY <2>2, <3>1, <3>2 DEF Write, TypeOK
  <2> QED
    BY <1>1, <2>1, <2>2
<1>7. CASE Tick \/ Restart
  BY <1>1, <1>7 DEF Tick, Restart, sponsorVars
<1> HIDE DEF Goal
<1>8. CASE Next
  BY <1>3, <1>4, <1>5, <1>6, <1>7, <1>8, Zenon DEF Next
<1> QED
  BY <1>2, <1>8

\* A refund lands, or is offered, of an expired campaign.
LEMMA RefundsMove ==
    ASSUME IInv, [Next]_vars, NEW c \in Campaigns
    PROVE  /\ c \in refunded' => c \in refunded \/ Return(c)
           /\ c \in refundTxs' => c \in refundTxs \/ (status[c] # "none" /\ Expired(c))
<1> DEFINE Goal == /\ c \in refunded' => c \in refunded \/ Return(c)
                   /\ c \in refundTxs' => c \in refundTxs \/ (status[c] # "none" /\ Expired(c))
<1> SUFFICES Goal
  OBVIOUS
<1>1. refunded' = refunded /\ refundTxs' = refundTxs => Goal
  OBVIOUS
<1>2. CASE UNCHANGED vars
  BY <1>1, <1>2 DEF vars, sponsorVars
<1>3. ASSUME NEW d \in Campaigns,
             Offer(d) \/ SendCreate(d) \/ Mark(d) \/ Finalize(d) \/ Others(d)
      PROVE  Goal
  BY <1>1, <1>3 DEF Offer, SendCreate, Mark, Finalize, Others, sponsorVars
<1>4. ASSUME NEW d \in Campaigns, SendRefund(d) PROVE Goal
  BY <1>4 DEF SendRefund
<1>5. ASSUME NEW h \in Handlers, NEW d \in Campaigns,
             Confirm(h, d) \/ RefundLoad(h, d) \/ RefundConfirm(h, d) \/ View(h, d)
      PROVE  Goal
  BY <1>1, <1>5 DEF Confirm, RefundLoad, RefundConfirm, View
<1>6. ASSUME NEW h \in Handlers, RefundBuild(h) PROVE Goal
  <2>1. status[target[h]] # "none" /\ refunded' = refunded
    BY <1>6 DEF IInv, HandlerOK, RefundBuild
  <2> QED
    BY <1>6, <2>1 DEF RefundBuild, MayRefund
<1>7. ASSUME NEW h \in Handlers, Work(h) PROVE Goal
  BY <1>1, <1>6, <1>7 DEF Work, Lookup, Existing, Replace, Create, RefundRead,
                          RefundUpdate, Sync, ViewSave
<1>8. CASE Tick \/ Restart
  BY <1>1, <1>8 DEF Tick, Restart, sponsorVars
<1> HIDE DEF Goal
<1>9. CASE Next
  BY <1>3, <1>4, <1>5, <1>7, <1>8, <1>9, Zenon DEF Next
<1> QED
  BY <1>2, <1>9

LEMMA CampaignStep ==
    ASSUME IInv, [Next]_vars, NEW c \in Campaigns
    PROVE  CampaignOK(c)'
<1>1. TypeOK /\ TypeOK' /\ CampaignOK(c)
  BY TypeStep DEF IInv
<1>2. Persists(c) /\ (status'[c] \in {"active", "finalized"} => funded'[c])
  BY <1>1, StepLasts
<1>3. ASSUME OneAccountPerId PROVE RowOK(rows[IdOf[c]], c)'
  <2>0. RowOK(rows[IdOf[c]], c)
    BY <1>1, <1>3 DEF CampaignOK
  <2>1. CASE rows'[IdOf[c]] = rows[IdOf[c]]
    BY <1>1, <1>2, <2>0, <2>1, StoredLasts
  <2>2. ASSUME NEW h \in Handlers, target[h] = c, rows'[IdOf[c]] = copy[h]
        PROVE  RowOK(rows[IdOf[c]], c)'
    <3>1. RowOK(copy[h], target[h])
      BY <1>3 DEF IInv, HandlerOK
    <3> QED
      BY <1>1, <1>2, <2>2, <3>1, CopyStored
  <2>3. CASE Mark(c)
    <3>1. rows[IdOf[c]] \in Row /\ IdOf[c] \in Ids
      BY <1>1, IdType DEF TypeOK
    <3>2. PICK e \in {rows[IdOf[c]].account, c}, state \in {rows[IdOf[c]].state, "finalized"} :
              rows' = [rows EXCEPT ![IdOf[c]] =
                  [rows[IdOf[c]] EXCEPT !.finalizing = TRUE, !.account = e, !.state = state]]
      BY <2>3 DEF Mark
    <3>3. status[c] = "active" /\ Due(c) /\ rows[IdOf[c]].known
      BY <2>3 DEF Mark
    <3>4. Tells(rows[IdOf[c]], c) /\ UNCHANGED <<lifeVars, repo, refunded>>
      BY <2>0, <2>3 DEF RowOK, Mark
    <3>5. e = c
      BY <3>2, <3>3, <3>4 DEF Tells
    <3>6. rows'[IdOf[c]] =
              [rows[IdOf[c]] EXCEPT !.finalizing = TRUE, !.account = e, !.state = state]
      BY <1>1, <3>1, <3>2 DEF TypeOK
    <3>7. /\ rows'[IdOf[c]].known /\ rows'[IdOf[c]].repo = rows[IdOf[c]].repo
          /\ rows'[IdOf[c]].state = state
          /\ rows'[IdOf[c]].signature = rows[IdOf[c]].signature
          /\ rows'[IdOf[c]].account = c
      BY <3>1, <3>3, <3>5, <3>6 DEF Row
    <3> QED
      BY <3>2, <3>3, <3>4, <3>7 DEF RowOK, Tells, Due, lifeVars
  <2> QED
    BY <1>1, <1>3, <2>1, <2>2, <2>3, RowsMove
<1>4. c \in refunded' => status'[c] = "closed" /\ Expired(c)'
  <2>1. CASE c \in refunded
    BY <1>1, <1>2, <2>1, DueLasts DEF CampaignOK, Persists
  <2>2. CASE Return(c)
    BY <1>1, <2>2 DEF Return, Expired, TypeOK
  <2> QED
    BY <2>1, <2>2, RefundsMove
<1>5. c \in refundTxs' => status'[c] # "none" /\ Expired(c)'
  BY <1>1, <1>2, RefundsMove, DueLasts DEF CampaignOK, Persists
<1> QED
  BY <1>2, <1>3, <1>4, <1>5 DEF CampaignOK

\* A handler that does not move keeps what it knows.
LEMMA HandlerLasts ==
    ASSUME IInv, [Next]_vars, NEW h \in Handlers,
           pc'[h] = pc[h], target'[h] = target[h], terms'[h] = terms[h],
           started'[h] = started[h], copy'[h] = copy[h],
           pc[h] \in Confirming => now' <= started[h] + Timeout
    PROVE  HandlerOK(h)'
<1>1. TypeOK /\ HandlerOK(h) /\ target[h] \in Campaigns
  BY DEF IInv, TypeOK
<1>2. Persists(target[h])
  BY <1>1, StepLasts DEF IInv
<1>3. OneAccountPerId => RowOK(copy[h], target[h])'
  BY <1>1, <1>2, CopyLasts DEF HandlerOK
<1>4. pc[h] \in Confirming => Timely(h)'
  BY <1>1 DEF HandlerOK, Timely
<1>5. pc[h] \in {"existing", "replace", "create"} => Found(h)'
  BY <1>1, <1>2 DEF HandlerOK, Found, Persists
<1>6. pc[h] = "build" => status'[target[h]] # "none"
  BY <1>1, <1>2 DEF HandlerOK, Persists
<1>7. pc[h] \in {"verified", "refund-update", "refund-create"} => target[h] \in refunded'
  BY <1>1, <1>2 DEF HandlerOK, Persists
<1> QED
  BY <1>1, <1>3, <1>4, <1>5, <1>6, <1>7 DEF HandlerOK

LEMMA HandlerAnswers ==
    ASSUME TypeOK, NEW h \in Handlers, pc'[h] = "idle", copy'[h] = NoRow
    PROVE  HandlerOK(h)'
  BY NoCopy DEF HandlerOK, Confirming

LEMMA RequestInv ==
    ASSUME IInv, [Next]_vars, NEW h \in Handlers, NEW c \in Campaigns,
           Confirm(h, c) \/ RefundLoad(h, c) \/ RefundConfirm(h, c) \/ View(h, c)
    PROVE  HandlerOK(h)'
<1>1. TypeOK /\ HandlerOK(h) /\ CampaignOK(c)
  BY DEF IInv
<1>2. Persists(c)
  BY <1>1, StepLasts
<1>3. target'[h] = c /\ pc[h] = "idle" /\ copy[h] = NoRow
  BY <1>1 DEF Confirm, RefundLoad, RefundConfirm, View, Begin, TypeOK, HandlerOK
<1>4. CASE Confirm(h, c)
  <2>1. pc'[h] = "lookup" /\ copy'[h] = NoRow /\ now' = now /\ started'[h] = now
    BY <1>1, <1>3, <1>4 DEF Confirm, Begin, Goto, TypeOK, lifeVars
  <2>2. terms'[h] \in Terms /\ terms'[h].deadline >= now + Lead
    BY <1>1, <1>4 DEF Confirm, InTime, TypeOK
  <2>3. now <= now + Timeout
    BY <1>2, SponsorAssumption DEF Persists
  <2>4. RowOK(copy[h], target[h])'
    BY <2>1, NoCopy
  <2> QED
    BY <2>1, <2>2, <2>3, <2>4 DEF HandlerOK, Timely, Confirming
<1>5. CASE RefundLoad(h, c)
  <2>1. pc'[h] = "build" /\ copy'[h] = NoRow /\ status'[c] # "none"
    BY <1>1, <1>2, <1>3, <1>5 DEF RefundLoad, Begin, Goto, TypeOK, Persists
  <2>2. RowOK(copy[h], target[h])'
    BY <2>1, NoCopy
  <2> QED
    BY <1>3, <2>1, <2>2 DEF HandlerOK, Confirming
<1>6. CASE RefundConfirm(h, c)
  <2>1. pc'[h] = "verified" /\ copy'[h] = NoRow /\ refunded' = refunded
    BY <1>1, <1>3, <1>6 DEF RefundConfirm, Begin, Goto, TypeOK
  <2>2. c \in refunded
    BY <1>6, SponsorAssumption DEF RefundConfirm, Names, Landed
  <2>3. RowOK(copy[h], target[h])'
    BY <2>1, NoCopy
  <2> QED
    BY <1>3, <2>1, <2>2, <2>3 DEF HandlerOK, Confirming
<1>7. CASE View(h, c)
  <2>1. pc'[h] = "read" /\ copy'[h] = rows[IdOf[c]]
    BY <1>1, <1>7 DEF View, Begin, Goto, Copied, TypeOK
  <2>2. OneAccountPerId => RowOK(copy[h], target[h])'
    BY <1>1, <1>2, <1>3, <2>1, RowCopied DEF CampaignOK
  <2> QED
    BY <2>1, <2>2 DEF HandlerOK, Confirming
<1> QED
  BY <1>4, <1>5, <1>6, <1>7

LEMMA WorkInv ==
    ASSUME IInv, [Next]_vars, NEW h \in Handlers, Work(h)
    PROVE  HandlerOK(h)'
<1> DEFINE c == target[h]
<1>1. /\ TypeOK /\ HandlerOK(h) /\ c \in Campaigns /\ CampaignOK(c)
      /\ copy[h] \in Row /\ rows[Id(h)] \in Row /\ Id(h) = IdOf[c]
  BY RequestId DEF IInv
<1>2. Persists(c)
  BY <1>1, StepLasts
<1>3. CASE Answer(h)
  BY <1>1, <1>3, HandlerAnswers DEF Answer, Goto, Copied, TypeOK
<1>4. CASE Lookup(h) /\ ~Answer(h)
  <2>1. /\ Matches(c, terms[h]) /\ pc[h] = "lookup" /\ pc'[h] = "existing"
        /\ copy'[h] = [known |-> TRUE, account |-> c, repo |-> terms[h].repo,
                       state |-> StateOf(c), finalizing |-> FALSE, signature |-> "create"]
        /\ UNCHANGED <<lifeVars, repo, refunded, target, terms, started>>
    BY <1>1, <1>4 DEF Lookup, Copied, Goto, TypeOK
  <2>2. /\ copy'[h].known /\ ~copy'[h].finalizing /\ copy'[h].signature = "create"
        /\ copy'[h].repo = repo[c] /\ copy'[h].state = StateOf(c) /\ copy'[h].account = c
    BY <2>1 DEF Matches
  <2>3. StateOf(c) = "completed" => status[c] = "closed"
    BY <1>1 DEF StateOf, TypeOK
  <2>4. RowOK(copy[h], target[h])'
    BY <2>1, <2>2, <2>3 DEF RowOK, Tells, Matches, lifeVars
  <2>5. Timely(h)' /\ Found(h)'
    BY <1>1, <2>1 DEF HandlerOK, Timely, Found, Matches, Confirming, lifeVars
  <2> QED
    BY <2>1, <2>2, <2>4, <2>5 DEF HandlerOK
<1>5. CASE Existing(h)
  <2>1. /\ pc[h] = "existing" /\ pc'[h] \in {"replace", "create"}
        /\ UNCHANGED <<lifeVars, target, terms, started, copy>>
    BY <1>1, <1>5 DEF Existing, Goto, TypeOK
  <2>2. OneAccountPerId => RowOK(copy[h], target[h])'
    BY <1>1, <1>2, <2>1, CopyLasts DEF HandlerOK
  <2>3. Timely(h)' /\ Found(h)' /\ copy'[h].known
    BY <1>1, <2>1 DEF HandlerOK, Timely, Found, Confirming, lifeVars
  <2> QED
    BY <2>1, <2>2, <2>3 DEF HandlerOK
<1>6. CASE RefundRead(h)
  <2>1. PICK e \in GetCampaign(Id(h))
                    \cup {IF rows[Id(h)].known THEN rows[Id(h)].account ELSE c} :
            copy' = [copy EXCEPT ![h] =
                        [rows[Id(h)] EXCEPT !.known = TRUE, !.account = e,
                                            !.state = "completed", !.signature = "refund"]]
    BY <1>6 DEF RefundRead, Copied
  <2>2. /\ pc[h] = "verified" /\ pc'[h] = "refund-update"
        /\ UNCHANGED <<lifeVars, repo, refunded, target>>
    BY <1>1, <1>6 DEF RefundRead, Goto, TypeOK
  <2>3. /\ copy'[h].known /\ copy'[h].signature = "refund" /\ copy'[h].state = "completed"
        /\ copy'[h].repo = rows[Id(h)].repo /\ copy'[h].account = e
    BY <1>1, <2>1 DEF TypeOK, Row
  <2>4. c \in refunded /\ status[c] = "closed" /\ Due(c)
    <3>1. c \in refunded /\ status[c] = "closed" /\ Expired(c)
      BY <1>1, <2>2 DEF HandlerOK, CampaignOK
    <3>2. deadline[c] \in Nat /\ now \in Nat /\ ClaimWindow \in Nat
      <4>1. Deadlines \cup {0} \subseteq Nat
        BY SponsorAssumption
      <4> QED
        BY <1>1, <1>2, <4>1, SponsorAssumption DEF TypeOK, Persists
    <3> QED
      BY <3>1, <3>2 DEF Due, Expired
  <2>5. ASSUME OneAccountPerId PROVE RowOK(copy[h], target[h])'
    <3>1. RowOK(rows[Id(h)], c)
      BY <1>1, <2>5 DEF CampaignOK
    <3>2. e = c
      BY <1>1, <2>5, <3>1, FoundByItsId DEF RowOK, Tells
    <3>3. rows[Id(h)].repo \in {NoRepo, repo[c]}
      BY <3>1 DEF RowOK, Tells, NoRow
    <3> QED
      BY <2>2, <2>3, <2>4, <3>2, <3>3 DEF RowOK, Tells, Due, lifeVars
  <2> QED
    BY <2>2, <2>3, <2>4, <2>5 DEF HandlerOK, Confirming
<1>7. CASE RefundUpdate(h) /\ ~Answer(h)
  <2>1. /\ pc[h] = "refund-update" /\ pc'[h] = "refund-create"
        /\ UNCHANGED <<refunded, target, copy>>
    BY <1>1, <1>7 DEF RefundUpdate, Goto, TypeOK
  <2>2. OneAccountPerId => RowOK(copy[h], target[h])'
    BY <1>1, <1>2, <2>1, CopyLasts DEF HandlerOK
  <2> QED
    BY <1>1, <2>1, <2>2 DEF HandlerOK, Confirming
<1>8. CASE Sync(h) /\ ~Answer(h)
  <2>1. PICK e \in GetCampaign(Id(h)) :
            copy' = [copy EXCEPT ![h] = [copy[h] EXCEPT !.account = e, !.state = StateOf(e)]]
    BY <1>8 DEF Sync, Copied
  <2>2. copy[h].known /\ pc'[h] = "synced" /\ UNCHANGED <<lifeVars, repo, refunded, target>>
    BY <1>1, <1>8 DEF Sync, Goto, TypeOK
  <2>3. /\ copy'[h].known = copy[h].known /\ copy'[h].signature = copy[h].signature
        /\ copy'[h].state = StateOf(e) /\ copy'[h].account = e
        /\ copy'[h].repo = copy[h].repo /\ copy'[h].finalizing = copy[h].finalizing
    BY <1>1, <2>1 DEF TypeOK, Row
  <2>4. StateOf(c) = "completed" => status[c] = "closed"
    BY <1>1 DEF StateOf, TypeOK
  <2>5. ASSUME OneAccountPerId PROVE RowOK(copy[h], target[h])'
    <3>1. e = c
      BY <1>1, <2>5, FoundByItsId
    <3>2. RowOK(copy[h], c)
      BY <1>1, <2>5 DEF HandlerOK
    <3> QED
      BY <2>2, <2>3, <2>4, <3>1, <3>2 DEF RowOK, Tells, Due, lifeVars
  <2> QED
    BY <2>2, <2>3, <2>5 DEF HandlerOK, Confirming
<1> QED
  BY <1>3, <1>4, <1>5, <1>6, <1>7, <1>8
  DEF Work, Replace, Create, RefundBuild, ViewSave

LEMMA HandlerStep ==
    ASSUME IInv, [Next]_vars, NEW h \in Handlers
    PROVE  HandlerOK(h)'
<1>1. TypeOK /\ HandlerOK(h) /\ now \in Nat
  BY SponsorAssumption DEF IInv, TypeOK
<1>2. ASSUME now' = now, pc'[h] = pc[h], target'[h] = target[h], terms'[h] = terms[h],
             started'[h] = started[h], copy'[h] = copy[h]
      PROVE  HandlerOK(h)'
  <2>1. pc[h] \in Confirming => now' <= started[h] + Timeout
    BY <1>1, <1>2 DEF HandlerOK, Timely
  <2> QED
    BY <1>2, <2>1, HandlerLasts
<1>3. CASE UNCHANGED vars
  BY <1>2, <1>3 DEF vars, lifeVars, sponsorVars
<1>4. ASSUME NEW d \in Campaigns, Offer(d) \/ Mark(d) PROVE HandlerOK(h)'
  BY <1>2, <1>4 DEF Offer, Mark, lifeVars
<1>5. ASSUME NEW d \in Campaigns, SendCreate(d) \/ SendRefund(d) PROVE HandlerOK(h)'
  BY <1>2, <1>5 DEF SendCreate, SendRefund, Open, Return
<1>6. ASSUME NEW d \in Campaigns, Finalize(d) \/ Others(d) PROVE HandlerOK(h)'
  BY <1>2, <1>6 DEF Finalize, Others, sponsorVars, Share, PayLast, Abandon, TopUp
<1>7. ASSUME NEW k \in Handlers, NEW d \in Campaigns,
             Confirm(k, d) \/ RefundLoad(k, d) \/ RefundConfirm(k, d) \/ View(k, d)
      PROVE  HandlerOK(h)'
  <2>1. CASE k = h
    BY <1>7, <2>1, RequestInv
  <2>2. CASE k # h
    <3>1. /\ now' = now /\ pc'[h] = pc[h] /\ target'[h] = target[h] /\ terms'[h] = terms[h]
          /\ started'[h] = started[h] /\ copy'[h] = copy[h]
      BY <1>1, <1>7, <2>2
      DEF Confirm, RefundLoad, RefundConfirm, View, Begin, Goto, Copied, TypeOK, lifeVars
    <3> QED
      BY <1>2, <3>1
  <2> QED
    BY <2>1, <2>2
<1>8. ASSUME NEW k \in Handlers, Work(k) PROVE HandlerOK(h)'
  <2>1. CASE k = h
    BY <1>8, <2>1, WorkInv
  <2>2. CASE k # h
    <3>1. Answer(k) => /\ pc'[h] = pc[h] /\ target'[h] = target[h] /\ terms'[h] = terms[h]
                       /\ started'[h] = started[h] /\ copy'[h] = copy[h]
      BY <1>1, <2>2 DEF Answer, Goto, Copied, TypeOK
    <3>2. ~Answer(k) => /\ pc'[h] = pc[h] /\ target'[h] = target[h] /\ terms'[h] = terms[h]
                        /\ started'[h] = started[h] /\ copy'[h] = copy[h]
      BY <1>1, <1>8, <2>2
      DEF Work, Lookup, Existing, Replace, Create, RefundBuild, RefundRead, RefundUpdate,
          Sync, ViewSave, Goto, Copied, TypeOK
    <3>3. now' = now
      BY <1>8 DEF Work, Lookup, Existing, Replace, Create, RefundBuild, RefundRead,
                  RefundUpdate, Sync, ViewSave, lifeVars
    <3> QED
      BY <1>2, <3>1, <3>2, <3>3
  <2> QED
    BY <2>1, <2>2
<1>9. CASE Tick
  <2>1. pc[h] \in Confirming => now' <= started[h] + Timeout
    <3>1. started[h] \in Nat /\ Timeout \in Nat
      BY <1>1, SponsorAssumption DEF TypeOK
    <3> QED
      BY <1>1, <1>9, <3>1 DEF Tick, TimePasses
  <2> QED
    BY <1>9, <2>1, HandlerLasts DEF Tick, sponsorVars
<1>10. CASE Restart
  BY <1>1, <1>10, HandlerAnswers DEF Restart
<1>11. CASE Next
  BY <1>4, <1>5, <1>6, <1>7, <1>8, <1>9, <1>10, <1>11, Zenon DEF Next
<1> QED
  BY <1>3, <1>11

\* Rows and copies are true, and handlers know what they rely on.
THEOREM InvariantHolds == Spec => []IInv
<1>1. Init => IInv
  BY InvInit
<1>2. IInv /\ [Next]_vars => IInv'
  <2> SUFFICES ASSUME IInv, [Next]_vars PROVE IInv'
    OBVIOUS
  <2>1. TypeOK'
    BY TypeStep DEF IInv
  <2>2. \A c \in Campaigns : CampaignOK(c)'
    BY CampaignStep
  <2>3. \A h \in Handlers : HandlerOK(h)'
    BY HandlerStep
  <2> QED
    BY <2>1, <2>2, <2>3 DEF IInv
<1> QED
  BY <1>1, <1>2, PTL DEF Spec

-----------------------------------------------------------------------------
(* What follows from the invariant.                                        *)

\* If no two accounts carry the same id, no stored row names another repository than
\* its account, or a refund or a completion that did not happen.
THEOREM RowIsTrueCorrect == OneAccountPerId => (Spec => []RowIsTrue)
<1> SUFFICES ASSUME OneAccountPerId PROVE Spec => []RowIsTrue
  OBVIOUS
<1>1. IInv => RowIsTrue
  <2> SUFFICES ASSUME IInv, NEW c \in Campaigns PROVE TrueOf(rows[IdOf[c]], IdOf[c])
    BY DEF RowIsTrue, Ids
  <2>1. Tells(rows[IdOf[c]], c)
    BY DEF IInv, CampaignOK, RowOK
  <2> QED
    BY <2>1 DEF Tells, TrueOf, GetCampaign
<1> QED
  BY <1>1, InvariantHolds, PTL

\* If no two accounts carry the same id, a confirmation never replaces what the
\* finalization or a refund has written: both come after the deadline, which is further
\* away than a confirmation takes.
THEOREM ConfirmErasesNothingCorrect == OneAccountPerId => (Spec => []ConfirmErasesNothing)
<1> SUFFICES ASSUME OneAccountPerId PROVE Spec => []ConfirmErasesNothing
  OBVIOUS
<1>1. IInv => ConfirmErasesNothing
  <2> SUFFICES ASSUME IInv, NEW h \in Handlers, pc[h] = "replace"
               PROVE  ~rows[Id(h)].finalizing /\ rows[Id(h)].signature # "refund"
    BY DEF ConfirmErasesNothing
  <2> DEFINE c == target[h]
  <2>1. /\ TypeOK /\ c \in Campaigns /\ Id(h) = IdOf[c] /\ CampaignOK(c)
        /\ Timely(h) /\ Found(h)
    BY RequestId DEF IInv, HandlerOK, Confirming
  <2>2. /\ now \in Nat /\ started[h] \in Nat /\ deadline[c] \in Nat
        /\ Timeout \in Nat /\ Lead \in Nat /\ ClaimWindow \in Nat /\ Timeout < Lead
    <3>1. Deadlines \cup {0} \subseteq Nat /\ 0 .. MaxTime \subseteq Nat
      BY SponsorAssumption
    <3>2. now \in Nat /\ started[h] \in Nat /\ deadline[c] \in Nat
      BY <2>1, <3>1, Zenon DEF TypeOK
    <3> QED
      BY <3>2, SponsorAssumption
  <2>3. now < deadline[c]
    <3>1. deadline[c] >= started[h] + Lead /\ now <= started[h] + Timeout
      BY <2>1 DEF Timely, Found
    <3>2. \A d, n, s, l, t \in Nat : d >= s + l /\ n <= s + t /\ t < l => n < d
      OBVIOUS
    <3> HIDE DEF c
    <3> QED
      BY <2>2, <3>1, <3>2
  <2>4. ~Due(c) /\ ~Expired(c)
    BY <2>2, <2>3 DEF Due, Expired
  <2>5. ~rows[Id(h)].finalizing /\ c \notin refunded
    BY <2>1, <2>4 DEF CampaignOK, RowOK
  <2>6. rows[Id(h)].signature # "refund"
    BY <2>1, <2>5 DEF CampaignOK, RowOK, Tells, NoRow
  <2> QED
    BY <2>5, <2>6
<1> QED
  BY <1>1, InvariantHolds, PTL

\* A refund transaction that was handed out is not too early, and its escrow is empty
\* only if the campaign was closed in the meantime.
THEOREM BuiltRefundPaysCorrect == Spec => []BuiltRefundPays
<1>1. IInv => BuiltRefundPays
  <2> SUFFICES ASSUME IInv, NEW c \in refundTxs
               PROVE  Expired(c) /\ (funded[c] \/ status[c] = "closed")
    BY DEF BuiltRefundPays
  <2>1. TypeOK /\ c \in Campaigns /\ CampaignOK(c)
    BY DEF IInv, TypeOK
  <2>2. status[c] \in {"active", "finalized", "closed"}
    BY <2>1 DEF TypeOK, CampaignOK
  <2> QED
    BY <2>1, <2>2 DEF CampaignOK
<1> QED
  BY <1>1, InvariantHolds, PTL

-----------------------------------------------------------------------------
(* The campaigns' lives.                                                   *)

LEMMA LivesStep ==
    ASSUME [Next]_vars
    PROVE  [LifeNext]_lifeVars
<1>1. CASE UNCHANGED vars
  BY <1>1 DEF vars
<1>2. ASSUME NEW c \in Campaigns, Offer(c) \/ Mark(c) PROVE UNCHANGED lifeVars
  BY <1>2 DEF Offer, Mark
<1>3. ASSUME NEW c \in Campaigns,
             SendCreate(c) \/ SendRefund(c) \/ Finalize(c) \/ Others(c)
      PROVE  LifeNext
  BY <1>3 DEF SendCreate, SendRefund, Finalize, Others, LifeNext
<1>4. ASSUME NEW h \in Handlers, NEW c \in Campaigns,
             Confirm(h, c) \/ RefundLoad(h, c) \/ RefundConfirm(h, c) \/ View(h, c)
      PROVE  UNCHANGED lifeVars
  BY <1>4 DEF Confirm, RefundLoad, RefundConfirm, View
<1>5. ASSUME NEW h \in Handlers, Work(h) PROVE UNCHANGED lifeVars
  BY <1>5 DEF Work, Lookup, Existing, Replace, Create, RefundBuild, RefundRead, RefundUpdate,
              Sync, ViewSave
<1>6. Tick => LifeNext
  BY DEF Tick, LifeNext
<1>7. Restart => UNCHANGED lifeVars
  BY DEF Restart
<1> QED
  BY <1>1, <1>2, <1>3, <1>4, <1>5, <1>6, <1>7, Zenon DEF Next

\* Whatever sponsors, handlers, the worker and anybody else do, in any order and with
\* restarts in between, a campaign only goes through what the program allows
\* (RepoBountyRefinement proves that CampaignLife is what it allows): this model of
\* the backend adds no behaviour to the chain's.
THEOREM CampaignsLiveCorrect == Spec => LifeSpec
<1>1. Init => LifeInit
  BY DEF Init
<1>2. [Next]_vars => [LifeNext]_lifeVars
  BY LivesStep
<1> QED
  BY <1>1, <1>2, PTL DEF Spec, LifeSpec

\* Until it is closed, a campaign has money in its escrow.
THEOREM OpenIsFundedCorrect == Spec => []OpenIsFunded
<1>1. IInv => OpenIsFunded
  BY DEF IInv, CampaignOK, OpenIsFunded
<1> QED
  BY <1>1, InvariantHolds, PTL
=============================================================================
