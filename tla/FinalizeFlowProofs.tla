-------------------------- MODULE FinalizeFlowProofs --------------------------
(***************************************************************************)
(* Theorems about FinalizeFlow, for any number of requests and readers,    *)
(* any results, faults, retries and restarts.                              *)
(***************************************************************************)
EXTENDS FinalizeFlow, TLAPS

LEMMA TypeInit == Init => TypeOK
<1> SUFFICES ASSUME Init PROVE TypeOK
  OBVIOUS
<1> USE FlowAssumption
<1>1. NoRow \in Row /\ [NoRow EXCEPT !.known = TRUE, !.state = "funded"] \in Row
  BY DEF NoRow, Row
<1>2. stored \in Row
  BY <1>1 DEF Init
<1>3. chain \in Chain
  BY DEF Init, Chain
<1>4. Worker \in Processes
  BY DEF Processes
<1>5. retries \in 0 .. MaxRetries /\ restarts \in 0 .. MaxRestarts
  BY DEF Init
<1>6. /\ pc \in [Processes -> Labels] /\ copy \in [Processes -> Row]
      /\ plan \in [Processes -> Results \cup {NoAlloc}] /\ pc[Worker] = "idle"
  BY <1>1, <1>4 DEF Init, Labels
<1> QED
  BY <1>2, <1>3, <1>5, <1>6 DEF Init, TypeOK

\* What a step of process p may be; a reader or a request begins with Read.
Act(p) ==
    \/ p # Worker /\ (Read(p) \/ Sync(p) \/ Save(p))
    \/ Calculate(p) \/ Commit(p)

\* The steps that are no process's.
Outside ==
    \/ \E alloc \in Results : Land(alloc) \/ Drop(alloc)
    \/ Close \/ DeadlinePasses \/ Restart

LEMMA StepCases ==
  ASSUME Next
  PROVE  \/ List \/ MergeList \/ GiveUp \/ Choose
         \/ \E p \in Processes : Act(p)
         \/ Outside
  BY FlowAssumption DEF Next, Round, Handle, Act, Outside, Processes

-----------------------------------------------------------------------------
(* Types.                                                                  *)

LEMMA MergedType ==
  ASSUME TypeOK, NEW row \in Row
  PROVE  Merged(row) \in Row
  BY DEF TypeOK, Chain, Row, Merged, StateOf

LEMMA WorkerType == TypeOK /\ (List \/ MergeList \/ GiveUp \/ Choose) => TypeOK'
<1> SUFFICES ASSUME TypeOK, List \/ MergeList \/ GiveUp \/ Choose PROVE TypeOK'
  OBVIOUS
<1> USE FlowAssumption
<1>0. Worker \in Processes /\ copy[Worker] \in Row /\ NoRow \in Row
  BY DEF TypeOK, Processes, NoRow, Row
<1>1. CASE List
  BY <1>0, <1>1 DEF TypeOK, List, Copied, Goto, Labels
<1>2. CASE MergeList
  <2>1. Merged(copy[Worker]) \in Row
    BY <1>0, MergedType
  <2>2. PICK row \in {Merged(copy[Worker]), copy[Worker]} :
          IF WorkerMayFinalize(row)
          THEN Copied(Worker, row) /\ Goto(Worker, "chosen") /\ UNCHANGED plan
          ELSE Leave(Worker)
    BY <1>2 DEF MergeList
  <2> QED
    BY <1>0, <1>2, <2>1, <2>2 DEF TypeOK, MergeList, Copied, Goto, Leave, Labels
<1>3. CASE GiveUp
  <2>1. [copy[Worker] EXCEPT !.fin = "needs_manual_review"] \in Row
    BY <1>0 DEF Row
  <2> QED
    BY <1>0, <1>3, <2>1 DEF TypeOK, GiveUp, Update, Copied, Goto, Leave, Labels
<1>4. CASE Choose
  BY <1>0, <1>4 DEF TypeOK, Choose, Usable, Goto, Labels
<1> QED
  BY <1>1, <1>2, <1>3, <1>4

LEMMA ActType ==
  ASSUME TypeOK, NEW p \in Processes, Act(p)
  PROVE  TypeOK'
<1> USE FlowAssumption
<1>0. /\ copy[p] \in Row /\ NoRow \in Row /\ Worker \in Processes
      /\ [copy[p] EXCEPT !.fin = "analyzing"] \in Row
      /\ [copy[p] EXCEPT !.fin = "needs_manual_review"] \in Row
  BY DEF TypeOK, NoRow, Row, Processes
<1>a. /\ pc[p] \in {"calculate", "fetch", "commit"} => AfterFailure(p) \in 0 .. MaxRetries
      /\ p # Worker => AfterFailure(p) = retries
  BY DEF TypeOK, AfterFailure
<1>1. CASE p # Worker /\ Read(p)
  BY <1>0, <1>1 DEF TypeOK, Read, Copied, Goto, Labels
<1>2. CASE p # Worker /\ Sync(p)
  <2>1. Merged(copy[p]) \in Row
    BY <1>0, MergedType
  <2> QED
    BY <1>0, <1>2, <2>1 DEF TypeOK, Sync, Copied, Goto, Leave, Labels
<1>3. CASE p # Worker /\ Save(p)
  BY <1>0, <1>3 DEF TypeOK, Save, Update, Proceed, Copied, Goto, Leave, Labels
<1>4. CASE Analyze(p)
  BY <1>0, <1>4 DEF TypeOK, Analyze, Update, Copied, Goto, Labels
<1>5. CASE FetchFails(p)
  BY <1>0, <1>a, <1>5 DEF TypeOK, FetchFails, SendToReview, Fail, Update, Copied, Goto, Leave, Labels
<1>6. CASE ComputeFails(p)
  BY <1>0, <1>a, <1>6 DEF TypeOK, ComputeFails, Fail, Copied, Goto, Leave, Labels
<1>7. CASE Compute(p)
  BY <1>0, <1>7 DEF TypeOK, Compute, Goto, Labels
<1>8. CASE Reject(p)
  BY <1>0, <1>a, <1>8 DEF TypeOK, Reject, SendToReview, Fail, Update, Copied, Goto, Leave, Labels
<1>9. CASE Submit(p)
  BY <1>0, <1>a, <1>9 DEF TypeOK, Submit, Passes, Results, Fail, Copied, Goto, Leave, Labels
<1>10. CASE SubmitRefused(p)
  BY <1>0, <1>a, <1>10 DEF TypeOK, SubmitRefused, Fail, Copied, Goto, Leave, Labels
<1>11. CASE Record(p)
  <2>1. [copy[p] EXCEPT !.state = "finalized", !.fin = "finalized", !.alloc = plan[p]] \in Row
    BY <1>0 DEF TypeOK, Row
  <2> QED
    BY <1>0, <1>11, <2>1 DEF TypeOK, Record, Put, Copied, Goto, Leave, Labels
<1> QED
  BY <1>1, <1>2, <1>3, <1>4, <1>5, <1>6, <1>7, <1>8, <1>9, <1>10, <1>11 DEF Act, Calculate, Commit

LEMMA OutsideType == TypeOK /\ Outside => TypeOK'
<1> SUFFICES ASSUME TypeOK, Outside PROVE TypeOK'
  OBVIOUS
<1> USE FlowAssumption
<1>0. NoRow \in Row /\ Worker \in Processes
  BY DEF NoRow, Row, Processes
<1>1. CASE \E alloc \in Results : Land(alloc) \/ Drop(alloc)
  BY <1>1 DEF TypeOK, Land, Drop, Chain
<1>2. CASE Close \/ DeadlinePasses
  BY <1>2 DEF TypeOK, Close, DeadlinePasses, Chain
<1>3. CASE Restart
  BY <1>0, <1>3 DEF TypeOK, Restart, Labels
<1> QED
  BY <1>1, <1>2, <1>3 DEF Outside

LEMMA TypeStep == TypeOK /\ [Next]_vars => TypeOK'
<1> SUFFICES ASSUME TypeOK, [Next]_vars PROVE TypeOK'
  OBVIOUS
<1>1. CASE Next
  BY <1>1, StepCases, WorkerType, ActType, OutsideType
<1>2. CASE UNCHANGED vars
  BY <1>2 DEF TypeOK, vars
<1> QED
  BY <1>1, <1>2

\* The types hold, and the worker never counts more than MaxRetries failures.
THEOREM TypeCorrect == Spec => []TypeOK
<1>1. Init => TypeOK
  BY TypeInit
<1>2. TypeOK /\ [Next]_vars => TypeOK'
  BY TypeStep
<1> QED
  BY <1>1, <1>2, PTL DEF Spec

-----------------------------------------------------------------------------
(* Honest rows.                                                            *)

LEMMA FlowInit == Init => FlowInv
<1> SUFFICES ASSUME Init PROVE FlowInv
  OBVIOUS
<1>1. Honest(NoRow) /\ Honest(stored)
  BY DEF Init, Honest, NoRow
<1> QED
  BY <1>1 DEF Init, FlowInv, RowIsHonest

\* A row stays honest when it is merged with the chain, marked or forgotten.
LEMMA HonestRows ==
  ASSUME NEW row \in Row, Honest(row)
  PROVE  /\ Honest(Merged(row)) /\ Honest(NoRow)
         /\ Honest([row EXCEPT !.fin = "analyzing"])
         /\ Honest([row EXCEPT !.fin = "needs_manual_review"])
  BY DEF Honest, Merged, Row, NoRow

\* The frame of a step of p that writes old or honest rows and submits nothing.
LEMMA FlowFrame ==
  ASSUME TypeOK, FlowInv, NEW p \in Processes, NEW row, Honest(row), NEW saved, Honest(saved),
         UNCHANGED <<chain, sent, submitted>>,
         stored' \in {stored, saved},
         copy' \in {copy, [copy EXCEPT ![p] = row]},
         \A q \in Processes : pc'[q] = "record" => pc[q] = "record" /\ plan'[q] = plan[q]
  PROVE  FlowInv'
<1>1. \A q \in Processes : copy'[q] \in {copy[q], row}
  BY DEF TypeOK
<1>2. Honest(stored') /\ \A q \in Processes : Honest(copy'[q])
  BY <1>1 DEF FlowInv, RowIsHonest
<1>3. Honest(stored)' /\ \A q \in Processes : Honest(copy[q])'
  BY <1>2 DEF Honest
<1> QED
  BY <1>3 DEF FlowInv, RowIsHonest

LEMMA WorkerFlow ==
  TypeOK /\ FlowInv /\ (List \/ MergeList \/ GiveUp \/ Choose) => FlowInv'
<1> SUFFICES ASSUME TypeOK, FlowInv, List \/ MergeList \/ GiveUp \/ Choose PROVE FlowInv'
  OBVIOUS
<1>0. /\ Worker \in Processes /\ copy[Worker] \in Row
      /\ Honest(copy[Worker]) /\ Honest(stored)
  BY DEF TypeOK, FlowInv, RowIsHonest, Processes
<1>a. /\ Honest(Merged(copy[Worker])) /\ Honest(NoRow)
      /\ Honest([copy[Worker] EXCEPT !.fin = "needs_manual_review"])
  BY <1>0, HonestRows
<1>b. UNCHANGED <<chain, sent, submitted>>
  BY DEF List, MergeList, GiveUp, Choose
<1>c. \A q \in Processes : pc'[q] = "record" => pc[q] = "record" /\ plan'[q] = plan[q]
  BY DEF TypeOK, List, MergeList, GiveUp, Choose, Goto, Leave
<1>1. CASE List
  BY <1>0, <1>b, <1>c, <1>1, FlowFrame DEF List, Copied
<1>2. CASE MergeList
  <2>1. PICK row \in {Merged(copy[Worker]), copy[Worker]} :
          IF WorkerMayFinalize(row)
          THEN Copied(Worker, row) /\ Goto(Worker, "chosen") /\ UNCHANGED plan
          ELSE Leave(Worker)
    BY <1>2 DEF MergeList
  <2>2. PICK left \in {row, NoRow} : Copied(Worker, left)
    BY <2>1 DEF Leave
  <2>3. Honest(left)
    BY <1>0, <1>a, <2>2
  <2> QED
    BY <1>0, <1>b, <1>c, <1>2, <2>2, <2>3, FlowFrame DEF MergeList, Copied
<1>3. CASE GiveUp
  BY <1>0, <1>a, <1>b, <1>c, <1>3, FlowFrame DEF GiveUp, Leave, Copied, Update
<1>4. CASE Choose
  BY <1>0, <1>b, <1>c, <1>4, FlowFrame DEF Choose
<1> QED
  BY <1>1, <1>2, <1>3, <1>4

\* The steps of p that neither submit nor record.
Harmless(p) ==
    \/ p # Worker /\ (Read(p) \/ Sync(p) \/ Save(p))
    \/ Calculate(p) \/ Reject(p) \/ SubmitRefused(p)

LEMMA HarmlessFlow ==
  ASSUME TypeOK, FlowInv, NEW p \in Processes, Harmless(p)
  PROVE  FlowInv'
<1>0. copy[p] \in Row /\ Honest(copy[p]) /\ Honest(stored)
  BY DEF TypeOK, FlowInv, RowIsHonest
<1>a. /\ Honest(Merged(copy[p])) /\ Honest(NoRow)
      /\ Honest([copy[p] EXCEPT !.fin = "analyzing"])
      /\ Honest([copy[p] EXCEPT !.fin = "needs_manual_review"])
  BY <1>0, HonestRows
<1>1. UNCHANGED <<chain, sent, submitted>>
  BY DEF Harmless, Read, Sync, Save, Calculate, Analyze, FetchFails, ComputeFails, Compute,
     Reject, SubmitRefused
<1>2. \A q \in Processes : pc'[q] = "record" => pc[q] = "record" /\ plan'[q] = plan[q]
  BY DEF TypeOK, Harmless, Read, Sync, Save, Proceed, Calculate, Analyze, FetchFails,
     ComputeFails, Compute, Reject, SendToReview, SubmitRefused, Fail, Goto, Leave
<1>3. PICK row \in {stored, Merged(copy[p]), NoRow, [copy[p] EXCEPT !.fin = "analyzing"]} :
        copy' \in {copy, [copy EXCEPT ![p] = row]}
  BY DEF Harmless, Read, Sync, Save, Proceed, Calculate, Analyze, FetchFails,
     ComputeFails, Compute, Reject, SendToReview, SubmitRefused, Fail, Copied, Leave
<1>4. PICK saved \in {copy[p], [copy[p] EXCEPT !.fin = "analyzing"],
                      [copy[p] EXCEPT !.fin = "needs_manual_review"]} :
        stored' \in {stored, saved}
  BY DEF Harmless, Read, Sync, Save, Calculate, Analyze, FetchFails,
     ComputeFails, Compute, Reject, SendToReview, SubmitRefused, Update
<1>5. Honest(row) /\ Honest(saved)
  BY <1>0, <1>a, <1>3, <1>4
<1> QED
  BY <1>1, <1>2, <1>3, <1>4, <1>5, FlowFrame

\* A submission makes every row that was honest no less so.
LEMMA SubmitFlow ==
  ASSUME TypeOK, FlowInv, NEW p \in Processes, Submit(p)
  PROVE  FlowInv'
<1>1. /\ plan[p] \in Valid /\ UNCHANGED <<chain, stored>>
      /\ sent' = sent \cup {plan[p]} /\ submitted' = submitted \cup {plan[p]}
  BY DEF Submit, Passes
<1>2. \A q \in Processes : copy'[q] \in {copy[q], NoRow}
  BY DEF TypeOK, Submit, Fail, Leave, Copied
<1>3. \A row : Honest(row) => Honest(row)'
  BY <1>1 DEF Honest
<1>4. RowIsHonest' /\ \A q \in Processes : Honest(copy[q])'
  <2>1. Honest(NoRow)
    BY DEF Honest, NoRow
  <2> QED
    BY <1>1, <1>2, <2>1 DEF FlowInv, RowIsHonest, Honest
<1>5. \A q \in Processes : pc'[q] = "record" => plan'[q] \in submitted'
  <2> SUFFICES ASSUME NEW q \in Processes, pc'[q] = "record" PROVE plan'[q] \in submitted'
    OBVIOUS
  <2>1. plan'[q] = plan[q] /\ (q = p \/ pc[q] = "record")
    BY DEF TypeOK, Submit, Fail, Leave, Goto
  <2> QED
    BY <1>1, <2>1 DEF FlowInv
<1> QED
  BY <1>1, <1>4, <1>5 DEF FlowInv

LEMMA RecordFlow ==
  ASSUME TypeOK, FlowInv, NEW p \in Processes, Record(p)
  PROVE  FlowInv'
<1> DEFINE row == [copy[p] EXCEPT !.state = "finalized", !.fin = "finalized", !.alloc = plan[p]]
<1>1. copy[p] \in Row /\ plan[p] \in submitted /\ plan[p] # NoAlloc
  BY FlowAssumption DEF TypeOK, FlowInv, Record, Results
<1>2. Honest(row) /\ Honest(NoRow)
  BY <1>1 DEF Honest, NoRow, Row
<1>3. /\ UNCHANGED <<chain, sent, submitted>> /\ stored' = row
      /\ copy' = [copy EXCEPT ![p] = NoRow]
      /\ \A q \in Processes : pc'[q] = "record" => pc[q] = "record" /\ plan'[q] = plan[q]
  BY DEF TypeOK, Record, Put, Leave, Copied, Goto
<1> QED
  BY <1>2, <1>3, FlowFrame

LEMMA OutsideFlow == TypeOK /\ FlowInv /\ Outside => FlowInv'
<1> SUFFICES ASSUME TypeOK, FlowInv, Outside PROVE FlowInv'
  OBVIOUS
<1>1. CASE \E alloc \in Results : Land(alloc) \/ Drop(alloc)
  BY <1>1 DEF TypeOK, FlowInv, RowIsHonest, Honest, Land, Drop, Chain
<1>2. CASE Close \/ DeadlinePasses
  BY <1>2 DEF TypeOK, FlowInv, RowIsHonest, Honest, Close, DeadlinePasses, Chain
<1>3. CASE Restart
  BY <1>3 DEF TypeOK, FlowInv, RowIsHonest, Honest, Restart, NoRow
<1> QED
  BY <1>1, <1>2, <1>3 DEF Outside

LEMMA FlowStep == TypeOK /\ FlowInv /\ [Next]_vars => FlowInv'
<1> SUFFICES ASSUME TypeOK, FlowInv, [Next]_vars PROVE FlowInv'
  OBVIOUS
<1>1. ASSUME NEW p \in Processes, Act(p) PROVE FlowInv'
  <2>1. Harmless(p) \/ Submit(p) \/ Record(p)
    BY <1>1 DEF Act, Harmless, Commit
  <2> QED
    BY <1>1, <2>1, HarmlessFlow, SubmitFlow, RecordFlow
<1>2. CASE UNCHANGED vars
  BY <1>2 DEF FlowInv, RowIsHonest, Honest, vars
<1> QED
  BY <1>1, <1>2, StepCases, WorkerFlow, OutsideFlow

\* Copies are as honest as the row, and only what was validated is submitted, lands or
\* is recorded.
THEOREM FlowHolds == Spec => []FlowInv
<1>1. Init => FlowInv
  BY FlowInit
<1>2. TypeOK /\ FlowInv /\ [Next]_vars => FlowInv'
  BY FlowStep
<1> QED
  BY <1>1, <1>2, TypeCorrect, PTL DEF Spec

\* The row never shows an allocation Solana did not accept, however many
\* requests, readers and rounds of the worker overwrite each other's rows.
THEOREM RowIsHonestCorrect == Spec => []RowIsHonest
<1>1. FlowInv => RowIsHonest
  BY DEF FlowInv
<1> QED
  BY <1>1, FlowHolds, PTL

\* Only validated allocations become claim records.
THEOREM OnlyValidOnChainCorrect == Spec => []OnlyValidOnChain
<1>1. FlowInv => OnlyValidOnChain
  BY DEF FlowInv, OnlyValidOnChain
<1> QED
  BY <1>1, FlowHolds, PTL

-----------------------------------------------------------------------------
(* The worker alone.                                                       *)

LEMMA OneInit == Init => OneResult
  BY DEF Init, OneResult, NoRow, Processes

\* A step that leaves the snapshot alone and brings in no other allocation.
LEMMA OneFrame ==
  ASSUME TypeOK, OneResult, UNCHANGED snapshot,
         ({stored.alloc, chain.alloc} \cup sent)' \subseteq {NoAlloc, snapshot},
         NEW p \in Processes, NEW row, row.alloc \in {NoAlloc, snapshot},
         NEW alloc \in {NoAlloc, snapshot},
         copy' \in {copy, [copy EXCEPT ![p] = row]},
         plan' \in {plan, [plan EXCEPT ![p] = alloc]},
         pc'[Worker] \in {"calculate", "fetch"} => snapshot = NoAlloc,
         \A r \in Readers : pc'[r] \in {"idle", "read", "synced"}
  PROVE  OneResult'
<1>1. \A q \in Processes : copy'[q] \in {copy[q], row} /\ plan'[q] \in {plan[q], alloc}
  BY DEF TypeOK
<1> QED
  BY <1>1 DEF OneResult

\* The worker chooses a campaign, and gives up or takes the snapshot.
LEMMA OneRound ==
  ASSUME TypeOK, OneResult, List \/ MergeList \/ GiveUp \/ Choose
  PROVE  OneResult'
<1> USE FlowAssumption
<1>0. /\ Worker \in Processes /\ Worker \notin Readers /\ NoRow.alloc = NoAlloc
      /\ copy[Worker].alloc \in {NoAlloc, snapshot} /\ stored.alloc \in {NoAlloc, snapshot}
      /\ copy[Worker] \in Row
  BY DEF OneResult, TypeOK, Processes, NoRow
<1>a. /\ Merged(copy[Worker]).alloc = copy[Worker].alloc
      /\ [copy[Worker] EXCEPT !.fin = "needs_manual_review"].alloc = copy[Worker].alloc
  BY <1>0 DEF Merged, Row
<1>b. UNCHANGED <<snapshot, chain, sent>>
  BY DEF List, MergeList, GiveUp, Choose
<1>c. ({stored.alloc, chain.alloc} \cup sent)' \subseteq {NoAlloc, snapshot}
  BY <1>0, <1>a, <1>b DEF OneResult, List, MergeList, GiveUp, Choose, Update
<1>d. /\ pc'[Worker] \in {"calculate", "fetch"} => snapshot = NoAlloc
      /\ \A r \in Readers : pc'[r] \in {"idle", "read", "synced"}
  BY <1>0 DEF OneResult, TypeOK, Processes, List, MergeList, GiveUp, Choose, Usable, Goto, Leave
<1>e. PICK row \in {stored, copy[Worker], Merged(copy[Worker]), NoRow} :
        copy' \in {copy, [copy EXCEPT ![Worker] = row]}
  BY DEF List, MergeList, GiveUp, Choose, Copied, Leave
<1>f. PICK alloc \in {NoAlloc, snapshot} : plan' \in {plan, [plan EXCEPT ![Worker] = alloc]}
  BY DEF List, MergeList, GiveUp, Choose, Leave
<1>g. row.alloc \in {NoAlloc, snapshot}
  BY <1>0, <1>a, <1>e
<1> QED
  BY <1>0, <1>b, <1>c, <1>d, <1>e, <1>f, <1>g, OneFrame

LEMMA OneRead ==
  ASSUME Requests = {}, TypeOK, OneResult, NEW p \in Readers, Read(p) \/ Sync(p) \/ Save(p)
  PROVE  OneResult'
<1> USE FlowAssumption
<1>0. /\ p \in Processes /\ p # Worker /\ NoRow.alloc = NoAlloc
      /\ copy[p].alloc \in {NoAlloc, snapshot} /\ stored.alloc \in {NoAlloc, snapshot}
      /\ copy[p] \in Row
  BY DEF OneResult, TypeOK, Processes, NoRow
<1>a. Merged(copy[p]).alloc = copy[p].alloc
  BY <1>0 DEF Merged, Row
<1>b. UNCHANGED <<snapshot, chain, sent>>
  BY DEF Read, Sync, Save
<1>c. ({stored.alloc, chain.alloc} \cup sent)' \subseteq {NoAlloc, snapshot}
  BY <1>0, <1>b DEF OneResult, Read, Sync, Save, Update
<1>d. /\ pc'[Worker] \in {"calculate", "fetch"} => snapshot = NoAlloc
      /\ \A r \in Readers : pc'[r] \in {"idle", "read", "synced"}
  BY <1>0 DEF OneResult, TypeOK, Processes, Read, Sync, Save, Proceed, Goto, Leave
<1>e. PICK row \in {stored, Merged(copy[p]), NoRow} :
        copy' \in {copy, [copy EXCEPT ![p] = row]}
  BY DEF Read, Sync, Save, Proceed, Copied, Leave
<1>f. plan' \in {plan, [plan EXCEPT ![p] = NoAlloc]}
  BY DEF Read, Sync, Save, Proceed, Leave
<1>g. row.alloc \in {NoAlloc, snapshot}
  BY <1>0, <1>a, <1>e
<1> QED
  BY <1>0, <1>b, <1>c, <1>d, <1>e, <1>f, <1>g, OneFrame

\* The worker works out an allocation only before the first snapshot.
LEMMA OneCompute ==
  ASSUME Requests = {}, TypeOK, OneResult, Compute(Worker)
  PROVE  OneResult'
<1>1. /\ snapshot = NoAlloc /\ plan' = [plan EXCEPT ![Worker] = snapshot']
      /\ UNCHANGED <<stored, chain, sent, copy>> /\ pc' = [pc EXCEPT ![Worker] = "commit"]
  BY DEF OneResult, Compute, Goto
<1>2. \A q \in Processes : plan'[q] \in {plan[q], snapshot'}
  BY <1>1 DEF TypeOK
<1>3. pc'[Worker] = "commit" /\ \A r \in Readers : pc'[r] = pc[r]
  BY <1>1, FlowAssumption DEF TypeOK, Processes
<1> QED
  BY <1>1, <1>2, <1>3 DEF OneResult

LEMMA OneCommit ==
  ASSUME Requests = {}, TypeOK, OneResult,
         Analyze(Worker) \/ FetchFails(Worker) \/ ComputeFails(Worker) \/ Commit(Worker)
  PROVE  OneResult'
<1> USE FlowAssumption
<1> DEFINE old == copy[Worker]
           analyzing == [old EXCEPT !.fin = "analyzing"]
           review == [old EXCEPT !.fin = "needs_manual_review"]
           recorded == [old EXCEPT !.state = "finalized", !.fin = "finalized",
                                   !.alloc = plan[Worker]]
<1>0. /\ Worker \in Processes /\ Worker \notin Readers /\ NoRow.alloc = NoAlloc
      /\ old \in Row
      /\ {old.alloc, plan[Worker], stored.alloc} \subseteq {NoAlloc, snapshot}
  BY DEF OneResult, TypeOK, Processes, NoRow
<1>a. /\ analyzing.alloc = old.alloc /\ review.alloc = old.alloc
      /\ recorded.alloc = plan[Worker]
  BY <1>0 DEF Row
<1>b. UNCHANGED snapshot
  BY DEF Analyze, FetchFails, ComputeFails, Commit, Reject, Submit, SubmitRefused, Record
<1>c. /\ stored' \in {stored, analyzing, review, recorded} /\ UNCHANGED chain
      /\ sent' \in {sent, sent \cup {plan[Worker]}}
  BY DEF Analyze, FetchFails, ComputeFails, Commit, Reject, Submit, SubmitRefused, Record,
     SendToReview, Update, Put
<1>d. ({stored.alloc, chain.alloc} \cup sent)' \subseteq {NoAlloc, snapshot}
  BY <1>0, <1>a, <1>c DEF OneResult
<1>e. /\ pc'[Worker] \in {"calculate", "fetch"} => snapshot = NoAlloc
      /\ \A r \in Readers : pc'[r] \in {"idle", "read", "synced"}
  BY <1>0 DEF OneResult, TypeOK, Processes, Analyze, FetchFails, ComputeFails, Commit, Reject,
     Submit, SubmitRefused, Record, SendToReview, Fail, Goto, Leave
<1>f. PICK row \in {analyzing, NoRow} : copy' \in {copy, [copy EXCEPT ![Worker] = row]}
  BY DEF Analyze, FetchFails, ComputeFails, Commit, Reject, Submit, SubmitRefused, Record,
     SendToReview, Fail, Copied, Leave
<1>g. plan' \in {plan, [plan EXCEPT ![Worker] = NoAlloc]}
  BY DEF Analyze, FetchFails, ComputeFails, Commit, Reject, Submit, SubmitRefused, Record,
     SendToReview, Fail, Leave
<1>h. row.alloc \in {NoAlloc, snapshot}
  BY <1>0, <1>a, <1>f
<1> HIDE DEF analyzing, review, recorded
<1> QED
  BY <1>0, <1>b, <1>d, <1>e, <1>f, <1>g, <1>h, OneFrame

LEMMA OneOutside == TypeOK /\ OneResult /\ Outside => OneResult'
<1> SUFFICES ASSUME TypeOK, OneResult, Outside PROVE OneResult'
  OBVIOUS
<1>1. CASE \E alloc \in Results : Land(alloc) \/ Drop(alloc)
  <2>1. PICK alloc \in Results : Land(alloc) \/ Drop(alloc)
    BY <1>1
  <2>2. /\ chain'.alloc \in {chain.alloc, alloc} /\ sent' \subseteq sent /\ alloc \in sent
        /\ UNCHANGED <<stored, snapshot, pc, copy, plan>>
    BY <2>1 DEF Land, Drop
  <2> QED
    BY <2>2 DEF OneResult
<1>2. CASE Close \/ DeadlinePasses
  BY <1>2 DEF TypeOK, OneResult, Close, DeadlinePasses, Chain
<1>3. CASE Restart
  BY <1>3 DEF TypeOK, OneResult, Restart, NoRow, Processes
<1> QED
  BY <1>1, <1>2, <1>3 DEF Outside

LEMMA OneStep ==
  ASSUME Requests = {}, TypeOK, OneResult, [Next]_vars
  PROVE  OneResult'
<1>1. ASSUME NEW p \in Processes, Act(p) PROVE OneResult'
  <2>1. CASE p = Worker
    <3>1. \/ Compute(Worker)
          \/ Analyze(Worker) \/ FetchFails(Worker) \/ ComputeFails(Worker) \/ Commit(Worker)
      BY <1>1, <2>1 DEF Act, Calculate
    <3> QED
      BY <3>1, OneCompute, OneCommit
  <2>2. CASE p \in Readers
    <3>1. pc[p] \in {"idle", "read", "synced"}
      BY <2>2 DEF OneResult
    <3>2. Read(p) \/ Sync(p) \/ Save(p)
      BY <1>1, <3>1 DEF Act, Calculate, Commit, Analyze, FetchFails, ComputeFails, Compute,
         Reject, Submit, SubmitRefused, Record
    <3> QED
      BY <2>2, <3>2, OneRead
  <2> QED
    BY <2>1, <2>2 DEF Processes
<1>2. CASE UNCHANGED vars
  BY <1>2 DEF OneResult, vars
<1> QED
  BY <1>1, <1>2, StepCases, OneRound, OneOutside

\* If sponsors send no requests, then after any crashes, lost answers and expired
\* transactions the allocations shown are those of the claim records.
THEOREM ShownIsOnChainCorrect ==
  ASSUME Requests = {} PROVE Spec => []ShownIsOnChain
<1>1. Init => OneResult
  BY OneInit
<1>2. TypeOK /\ OneResult /\ [Next]_vars => OneResult'
  BY OneStep
<1>3. OneResult => ShownIsOnChain
  BY DEF OneResult, ShownIsOnChain
<1> QED
  BY <1>1, <1>2, <1>3, TypeCorrect, PTL DEF Spec

-----------------------------------------------------------------------------
(* The life of the account.                                                *)

LEMMA DueInit == Init => NotBeforeDue
  BY DEF Init, NotBeforeDue, Begun

\* A step that leaves the chain alone, submits nothing, and lets nobody begin too early.
LEMMA DueFrame ==
  ASSUME NotBeforeDue, UNCHANGED <<due, chain, submitted>>, sent' \subseteq sent,
         \A p \in Processes : pc'[p] \in Begun => pc[p] \in Begun \/ due
  PROVE  NotBeforeDue'
  BY DEF NotBeforeDue, Begun

LEMMA DueWorker ==
  ASSUME TypeOK, NotBeforeDue, List \/ MergeList \/ GiveUp \/ Choose
  PROVE  NotBeforeDue'
<1>1. UNCHANGED <<due, chain, submitted, sent>>
  BY DEF List, MergeList, GiveUp, Choose
<1>2. Worker \in Processes
  BY DEF Processes
<1>3. \A p \in Processes : pc'[p] \in Begun => pc[p] \in Begun \/ due
  <2>1. CASE List
    BY <1>2, <2>1 DEF TypeOK, List, Goto, Begun
  <2>2. CASE MergeList
    <3>1. PICK row : IF WorkerMayFinalize(row)
                     THEN Copied(Worker, row) /\ Goto(Worker, "chosen") /\ UNCHANGED plan
                     ELSE Leave(Worker)
      BY <2>2 DEF MergeList
    <3> QED
      BY <1>2, <3>1 DEF TypeOK, WorkerMayFinalize, MayFinalize, Goto, Leave, Begun
  <2>3. CASE GiveUp
    BY <1>2, <2>3 DEF TypeOK, GiveUp, Goto, Leave, Begun
  <2>4. CASE Choose
    BY <1>2, <2>4 DEF TypeOK, Choose, Goto, Begun
  <2> QED
    BY <2>1, <2>2, <2>3, <2>4
<1> QED
  BY <1>1, <1>3, DueFrame

LEMMA DueHarmless ==
  ASSUME TypeOK, NotBeforeDue, NEW p \in Processes, Harmless(p) \/ Record(p)
  PROVE  NotBeforeDue'
<1>1. UNCHANGED <<due, chain, submitted, sent>>
  BY DEF Harmless, Read, Sync, Save, Calculate, Analyze, FetchFails, ComputeFails, Compute,
     Reject, SubmitRefused, Record
<1>2. \A q \in Processes : pc'[q] \in Begun => pc[q] \in Begun \/ due
  <2>1. CASE Read(p) \/ Sync(p)
    BY <2>1 DEF TypeOK, Read, Sync, Goto, Leave, Begun
  <2>2. CASE Save(p)
    BY <2>2 DEF TypeOK, Save, Proceed, MayFinalize, Goto, Leave, Begun
  <2>3. CASE Calculate(p) \/ Reject(p) \/ SubmitRefused(p) \/ Record(p)
    BY <2>3 DEF TypeOK, Calculate, Analyze, FetchFails, ComputeFails, Compute, Reject,
       SendToReview, SubmitRefused, Record, Fail, Goto, Leave, Begun
  <2> QED
    BY <2>1, <2>2, <2>3 DEF Harmless
<1> QED
  BY <1>1, <1>2, DueFrame

LEMMA DueSubmit ==
  ASSUME TypeOK, NotBeforeDue, NEW p \in Processes, Submit(p)
  PROVE  NotBeforeDue'
<1>1. due /\ UNCHANGED <<due, chain>>
  BY DEF NotBeforeDue, Begun, Submit
<1> QED
  BY <1>1 DEF NotBeforeDue

LEMMA DueOutside ==
  ASSUME TypeOK, NotBeforeDue, Outside
  PROVE  NotBeforeDue'
<1>1. ASSUME NEW alloc \in Results, Land(alloc) PROVE NotBeforeDue'
  <2>1. due /\ UNCHANGED <<due, pc, submitted>>
    BY <1>1 DEF NotBeforeDue, Land
  <2>2. chain' = chain \/ chain'.status = "finalized"
    BY <1>1 DEF Land
  <2> QED
    BY <2>1, <2>2 DEF NotBeforeDue
<1>2. ASSUME NEW alloc \in Results, Drop(alloc) PROVE NotBeforeDue'
  BY <1>2, DueFrame DEF Drop
<1>3. CASE Close
  BY <1>3 DEF TypeOK, Chain, NotBeforeDue, Close
<1>4. CASE DeadlinePasses
  BY <1>4 DEF NotBeforeDue, DeadlinePasses
<1>5. CASE Restart
  BY <1>5 DEF NotBeforeDue, Restart, Begun
<1> QED
  BY <1>1, <1>2, <1>3, <1>4, <1>5 DEF Outside

LEMMA DueStep ==
  ASSUME TypeOK, NotBeforeDue, [Next]_vars
  PROVE  NotBeforeDue'
<1>1. ASSUME NEW p \in Processes, Act(p) PROVE NotBeforeDue'
  <2>1. Harmless(p) \/ Submit(p) \/ Record(p)
    BY <1>1 DEF Act, Harmless, Commit
  <2> QED
    BY <1>1, <2>1, DueHarmless, DueSubmit
<1>2. CASE UNCHANGED vars
  BY <1>2, DueFrame DEF vars
<1> QED
  BY <1>1, <1>2, StepCases, DueWorker, DueOutside

\* Nobody works out, submits or lands an allocation before the deadline, however old the
\* row is that a process read.
THEOREM DueHolds == Spec => []NotBeforeDue
<1>1. Init => NotBeforeDue
  BY DueInit
<1>2. TypeOK /\ NotBeforeDue /\ [Next]_vars => NotBeforeDue'
  BY DueStep
<1> QED
  BY <1>1, <1>2, TypeCorrect, PTL DEF Spec

LEMMA StatusStep ==
  ASSUME TypeOK, NotBeforeDue, [Next]_vars
  PROVE  /\ [Status!StatusNext]_(Status!statusVars)
         /\ chain.alloc # NoAlloc => chain'.alloc = chain.alloc
<1> DEFINE Frozen == chain' = chain /\ due' = due
           Goal == /\ Status!StatusNext \/ UNCHANGED Status!statusVars
                   /\ chain.alloc # NoAlloc => chain'.alloc = chain.alloc
<1>1. Frozen => Goal
  BY DEF Status!statusVars
<1>2. CASE List \/ MergeList \/ GiveUp \/ Choose
  BY <1>1, <1>2 DEF List, MergeList, GiveUp, Choose
<1>3. ASSUME NEW p \in Processes, Act(p) PROVE Goal
  BY <1>1, <1>3 DEF Act, Read, Sync, Save, Calculate, Analyze, FetchFails, ComputeFails,
     Compute, Commit, Reject, Submit, SubmitRefused, Record
<1>4. ASSUME NEW alloc \in Results, Land(alloc) PROVE Goal
  <2>1. due /\ due' = due
    BY <1>4 DEF NotBeforeDue, Land
  <2>2. CASE chain.status = "active"
    BY <1>4, <2>1, <2>2 DEF Land, NotBeforeDue, Status!Settle, Status!StatusNext
  <2>3. CASE chain.status # "active"
    BY <1>1, <1>4, <2>3 DEF Land
  <2> QED
    BY <2>2, <2>3
<1>5. ASSUME NEW alloc \in Results, Drop(alloc) PROVE Goal
  BY <1>1, <1>5 DEF Drop
<1>6. CASE Close
  BY <1>6 DEF TypeOK, Chain, Close, Status!Finish, Status!StatusNext
<1>7. CASE DeadlinePasses
  BY <1>7 DEF DeadlinePasses, Status!Lapse, Status!StatusNext
<1>8. CASE Restart
  BY <1>1, <1>8 DEF Restart
<1>9. CASE UNCHANGED vars
  BY <1>1, <1>9 DEF vars
<1> SUFFICES Goal
  OBVIOUS
<1> HIDE DEF Goal
<1>10. CASE Next
  <2>1. Outside => Goal
    BY <1>4, <1>5, <1>6, <1>7, <1>8, Zenon DEF Outside, Goal
  <2> QED
    BY <1>2, <1>3, <1>10, <2>1, StepCases, Zenon DEF Goal
<1> QED
  BY <1>9, <1>10 DEF Goal

\* The account the backend's processes share lives the life the program gives each of
\* its campaigns: RepoBounty has a theorem of the same name about the same StatusLife.
THEOREM KeepsStatusCorrect == Spec => KeepsStatus
<1>1. Init => Status!StatusInit
  BY DEF Init, Status!StatusInit
<1>2. TypeOK /\ NotBeforeDue /\ [Next]_vars => [Status!StatusNext]_(Status!statusVars)
  BY StatusStep
<1> QED
  BY <1>1, <1>2, TypeCorrect, DueHolds, PTL DEF Spec, KeepsStatus, Status!StatusSpec

\* No transaction that lands later, of another process, of a retry or of a process before
\* a restart, replaces the allocations of the claim records.
THEOREM AllocationIsFinalCorrect == Spec => AllocationIsFinal
<1>1. TypeOK /\ NotBeforeDue /\ [Next]_vars =>
          [chain.alloc # NoAlloc => chain'.alloc = chain.alloc]_vars
  BY StatusStep
<1> QED
  BY <1>1, TypeCorrect, DueHolds, PTL DEF Spec, AllocationIsFinal
=============================================================================
