--------------------------- MODULE ClaimFlowProofs ---------------------------
(***************************************************************************)
(* Theorems about ClaimFlow, for any number of requests, contributors,     *)
(* wallets, challenges and restarts.                                       *)
(***************************************************************************)
EXTENDS ClaimFlow, TLAPS

USE DEF shareVars

\* The steps that are no process's.
Outside ==
    \/ \E tx \in Tx : Land(tx) \/ Drop(tx)
    \/ WindowEnds
    \/ \E c \in Challenges : Expire(c)
    \/ Restart

Act(p) == Arrive(p) \/ Lock(p) \/ Serve(p)

\* The steps of p that write none of row, chain, challenges and transactions.
Quiet(p) == Arrive(p) \/ Lock(p) \/ Read(p) \/ RpcFails(p) \/ CheckUnpaid(p) \/ CheckPaid(p)

LEMMA StepCases ==
  ASSUME Next
  PROVE  Outside \/ \E p \in Processes : Act(p)
  BY DEF Next, Outside, Act

LEMMA ActCases ==
  ASSUME NEW p, Act(p)
  PROVE  Quiet(p) \/ Save(p) \/ Issue(p) \/ Mark(p) \/ Build(p) \/ Record(p)
  BY DEF Act, Serve, Claim, Quiet

-----------------------------------------------------------------------------
(* Types and mutual exclusion.                                             *)

LEMMA ConstantTypes ==
  /\ NoWallet \in Recipients /\ Nobody \in Shown /\ NoChallenge \in Challenge
  /\ \A q \in Handlers : q \in Processes /\ q \notin Readers /\ q # NoProcess
  BY ClaimAssumption DEF Recipients, Nobody, Shown, NoChallenge, Challenge, Processes

LEMMA TypeInit == Init => TypeOK
<1> SUFFICES ASSUME Init PROVE TypeOK
  OBVIOUS
<1> USE ClaimAssumption, ConstantTypes
<1>1. /\ paid \in Shown /\ shown \in Shown /\ unpaid \subseteq Users /\ txs \subseteq Tx
      /\ challenges \in [Challenges -> Challenge] /\ lock \in Processes \cup {NoProcess}
  BY DEF Init
<1>2. /\ copy \in [Processes -> Shown] /\ seen \in [Processes -> Recipients]
      /\ built \in [Challenges -> Nat] /\ restarts \in 0 .. MaxRestarts
  BY DEF Init
<1>3. /\ pc \in [Processes -> Labels] /\ request \in [Processes -> Request \cup {NoRequest}]
      /\ \A q \in Processes : pc[q] = "idle"
  BY DEF Init, Labels
<1>4. \A q \in Handlers : Placed(q)
  BY <1>3 DEF Placed
<1>5. Readers \subseteq Processes
  BY DEF Processes
<1> QED
  BY <1>1, <1>2, <1>3, <1>4, <1>5 DEF TypeOK

\* The frame of the steps of p: one process moves, and the mutex is its own or free.
LEMMA TypeFrame ==
  ASSUME TypeOK, NEW p \in Processes, NEW label \in Labels, NEW r \in Request \cup {NoRequest},
         pc' = [pc EXCEPT ![p] = label],
         request' = [request EXCEPT ![p] = r],
         paid' \in Shown, shown' \in Shown, unpaid' \subseteq Users,
         challenges' \in [Challenges -> Challenge], txs' \subseteq Tx,
         copy' \in [Processes -> Shown], seen' \in [Processes -> Recipients],
         built' \in [Challenges -> Nat], restarts' \in 0 .. MaxRestarts,
         p \in Readers => label \in {"idle", "load", "loaded"},
         p \in Handlers => Placed(p)',
         lock' \in {lock, NoProcess, p},
         lock' # lock => lock \in {NoProcess, p}
  PROVE  TypeOK'
<1> USE ClaimAssumption, ConstantTypes
<1>1. pc' \in [Processes -> Labels] /\ request' \in [Processes -> Request \cup {NoRequest}]
      /\ lock' \in Processes \cup {NoProcess}
  BY DEF TypeOK
<1>2. \A q \in Readers : pc'[q] \in {"idle", "load", "loaded"}
  BY DEF TypeOK, Processes
<1>3. ASSUME NEW q \in Handlers PROVE Placed(q)'
  <2>1. CASE q = p
    BY <1>3, <2>1
  <2>2. CASE q # p
    <3>1. pc'[q] = pc[q] /\ request'[q] = request[q] /\ Placed(q)
      BY <1>3, <2>2 DEF TypeOK
    <3>2. lock = q => lock' = q
      BY <1>3, <2>2
    <3> QED
      BY <3>1, <3>2 DEF Placed
  <2> QED
    BY <2>1, <2>2
<1> QED
  BY <1>1, <1>2, <1>3 DEF TypeOK

LEMMA ActType ==
  ASSUME TypeOK, NEW p \in Processes, Act(p)
  PROVE  TypeOK'
<1> USE ClaimAssumption, ConstantTypes
<1>0. /\ request[p] \in Request \cup {NoRequest} /\ p # NoProcess
      /\ p \in Handlers => Placed(p)
      /\ p \in Readers => pc[p] \in {"idle", "load", "loaded"}
      /\ p \in Handlers \/ p \in Readers
      /\ lock \in Processes \cup {NoProcess}
  BY DEF TypeOK, Processes
<1>a. pc[p] \in Labels /\ pc \in [Processes -> Labels]
      /\ request \in [Processes -> Request \cup {NoRequest}]
      /\ copy \in [Processes -> Shown] /\ seen \in [Processes -> Recipients]
  BY DEF TypeOK
<1>b. [request EXCEPT ![p] = request[p]] = request
  BY <1>a
\* A return, whatever else the step wrote.
<1>c. ASSUME Leave(p), TypeOK,
             paid' \in Shown, shown' \in Shown, unpaid' \subseteq Users,
             challenges' \in [Challenges -> Challenge], txs' \subseteq Tx,
             built' \in [Challenges -> Nat], restarts' \in 0 .. MaxRestarts
      PROVE  TypeOK'
  <2>1. /\ pc' = [pc EXCEPT ![p] = "idle"] /\ request' = [request EXCEPT ![p] = NoRequest]
        /\ copy' \in [Processes -> Shown] /\ seen' \in [Processes -> Recipients]
        /\ lock' \in {lock, NoProcess} /\ (lock' # lock => lock = p)
        /\ "idle" \in Labels
    BY <1>a, <1>c DEF Leave, Goto, Labels
  <2>2. Placed(p)'
    BY <1>a, <2>1 DEF Placed
  <2> QED
    BY <1>c, <2>1, <2>2, TypeFrame
<1>1. CASE Arrive(p)
  <2>1. /\ paid' \in Shown /\ shown' \in Shown /\ unpaid' \subseteq Users
        /\ challenges' \in [Challenges -> Challenge] /\ txs' \subseteq Tx
        /\ copy' \in [Processes -> Shown] /\ seen' \in [Processes -> Recipients]
        /\ built' \in [Challenges -> Nat] /\ restarts' \in 0 .. MaxRestarts /\ lock' = lock
    BY <1>1 DEF Arrive, TypeOK
  <2>2. CASE p \in Readers
    <3>1. pc' = [pc EXCEPT ![p] = "load"] /\ request' = request /\ p \notin Handlers /\ "load" \in Labels
      BY <1>1, <2>2 DEF Arrive, Goto, Labels
    <3> QED
      BY <1>0, <1>b, <2>1, <2>2, <3>1, TypeFrame
  <2>3. CASE p \notin Readers
    <3>1. PICK r \in Request :
            /\ request' = [request EXCEPT ![p] = r]
            /\ Goto(p, IF r.kind = "challenge" THEN "load" ELSE "waiting")
      BY <1>1, <2>3 DEF Arrive
    <3>2. PICK label \in Labels : /\ pc' = [pc EXCEPT ![p] = label]
                                  /\ label = IF r.kind = "challenge" THEN "load" ELSE "waiting"
      BY <3>1 DEF Goto, Labels
    <3>3. Placed(p)'
      BY <1>a, <3>1, <3>2 DEF Placed
    <3> QED
      BY <2>1, <2>3, <3>1, <3>2, <3>3, TypeFrame
  <2> QED
    BY <2>2, <2>3
<1>2. CASE Lock(p)
  <2>1. /\ paid' \in Shown /\ shown' \in Shown /\ unpaid' \subseteq Users
        /\ challenges' \in [Challenges -> Challenge] /\ txs' \subseteq Tx
        /\ copy' \in [Processes -> Shown] /\ seen' \in [Processes -> Recipients]
        /\ built' \in [Challenges -> Nat] /\ restarts' \in 0 .. MaxRestarts
        /\ request' = request /\ pc' = [pc EXCEPT ![p] = "load"] /\ "load" \in Labels
        /\ lock' = p /\ lock = NoProcess /\ pc[p] = "waiting"
    BY <1>2 DEF Lock, TypeOK, Goto, Labels
  <2>2. p \in Handlers => Placed(p)'
    BY <1>0, <1>a, <2>1 DEF Placed
  <2> QED
    BY <1>0, <1>b, <2>1, <2>2, TypeFrame
<1>3. CASE Read(p)
  <2>1. /\ paid' \in Shown /\ shown' \in Shown /\ unpaid' \subseteq Users
        /\ challenges' \in [Challenges -> Challenge] /\ txs' \subseteq Tx
        /\ copy' \in [Processes -> Shown] /\ seen' \in [Processes -> Recipients]
        /\ built' \in [Challenges -> Nat] /\ restarts' \in 0 .. MaxRestarts
        /\ request' = request /\ pc' = [pc EXCEPT ![p] = "loaded"] /\ "loaded" \in Labels
        /\ lock' = lock /\ pc[p] = "load"
    BY <1>3 DEF Read, TypeOK, Goto, Labels
  <2>2. p \in Handlers => Placed(p)'
    BY <1>0, <1>a, <2>1 DEF Placed
  <2> QED
    BY <1>0, <1>b, <2>1, <2>2, TypeFrame
<1>4. CASE RpcFails(p)
  BY <1>4, <1>c DEF RpcFails, TypeOK
<1>5. CASE Save(p)
  <2>1. /\ paid' \in Shown /\ shown' \in Shown /\ unpaid' \subseteq Users
        /\ challenges' \in [Challenges -> Challenge] /\ txs' \subseteq Tx
        /\ built' \in [Challenges -> Nat] /\ restarts' \in 0 .. MaxRestarts
    BY <1>5 DEF Save, TypeOK
  <2>2. CASE Leave(p)
    BY <1>c, <2>1, <2>2
  <2>3. CASE ~Leave(p)
    <3>1. PICK label \in Labels :
            /\ pc' = [pc EXCEPT ![p] = label] /\ UNCHANGED <<lock, request, copy, seen>>
            /\ label = IF request[p].kind = "challenge" THEN "issue" ELSE "status"
            /\ p \notin Readers /\ pc[p] = "loaded"
      BY <1>5, <2>3 DEF Save, Proceed, Goto, Labels
    <3>2. Placed(p)'
      BY <1>0, <1>a, <3>1 DEF Placed
    <3> QED
      BY <1>0, <1>a, <1>b, <2>1, <3>1, <3>2, TypeFrame
  <2> QED
    BY <2>2, <2>3
<1>6. CASE Issue(p)
  <2>1. request[p] \in Request
    BY <1>0, <1>6 DEF Issue, Placed
  <2>2. [state |-> "fresh", user |-> request[p].user, wallet |-> request[p].wallet] \in Challenge
    BY <2>1 DEF Request, Challenge, Recipients
  <2>3. challenges' \in [Challenges -> Challenge]
    BY <1>6, <2>2 DEF Issue, TypeOK
  <2> QED
    BY <1>6, <1>c, <2>3 DEF Issue, TypeOK
<1>7. CASE CheckUnpaid(p)
  <2>1. request[p] \in Request /\ p \in Handlers
    BY <1>0, <1>7 DEF CheckUnpaid, Placed
  <2>2. /\ paid' \in Shown /\ shown' \in Shown /\ unpaid' \subseteq Users
        /\ challenges' \in [Challenges -> Challenge] /\ txs' \subseteq Tx
        /\ copy' \in [Processes -> Shown]
        /\ built' \in [Challenges -> Nat] /\ restarts' \in 0 .. MaxRestarts
        /\ request' = request /\ lock' = lock /\ pc[p] = "status" /\ request[p].kind = "claim"
    BY <1>7 DEF CheckUnpaid, TypeOK
  <2>3. paid[request[p].user] \in Recipients
    BY <2>1 DEF TypeOK, Shown, Request
  <2>4. seen' \in [Processes -> Recipients]
    BY <1>7, <1>a, <2>3 DEF CheckUnpaid
  <2>5. PICK label \in {"mark", "record"} : pc' = [pc EXCEPT ![p] = label]
    BY <1>7 DEF CheckUnpaid, Goto
  <2>6. Placed(p)' /\ label \in Labels
    BY <1>0, <1>a, <2>1, <2>2, <2>5 DEF Placed, Labels
  <2> QED
    BY <1>b, <2>1, <2>2, <2>4, <2>5, <2>6, TypeFrame
<1>8. CASE CheckPaid(p)
  <2>1. request[p] \in Request /\ p \in Handlers
    BY <1>0, <1>8 DEF CheckPaid, Placed
  <2>2. /\ paid' \in Shown /\ shown' \in Shown /\ unpaid' \subseteq Users
        /\ challenges' \in [Challenges -> Challenge] /\ txs' \subseteq Tx
        /\ built' \in [Challenges -> Nat] /\ restarts' \in 0 .. MaxRestarts
        /\ pc[p] = "status" /\ request[p].kind = "confirm"
    BY <1>8 DEF CheckPaid, TypeOK
  <2>3. CASE Leave(p)
    BY <1>c, <2>2, <2>3
  <2>4. CASE ~Leave(p)
    <3>1. /\ seen' = [seen EXCEPT ![p] = request[p].wallet]
          /\ pc' = [pc EXCEPT ![p] = "record"] /\ UNCHANGED <<lock, request, copy>>
      BY <1>8, <2>4 DEF CheckPaid, Goto
    <3>2. seen' \in [Processes -> Recipients] /\ "record" \in Labels
      BY <1>a, <2>1, <3>1 DEF Request, Recipients, Labels
    <3>3. Placed(p)'
      BY <1>0, <1>a, <2>1, <2>2, <3>1 DEF Placed
    <3> QED
      BY <1>a, <1>b, <2>1, <2>2, <3>1, <3>2, <3>3, TypeFrame
  <2> QED
    BY <2>3, <2>4
<1>9. CASE Record(p)
  <2>1. request[p] \in Request
    BY <1>0, <1>9 DEF Record, Placed
  <2>2. shown' \in Shown
    BY <1>9, <1>a, <2>1 DEF Record, Request, Shown
  <2> QED
    BY <1>9, <1>c, <2>2 DEF Record, TypeOK
<1>10. CASE Mark(p)
  <2>1. request[p] \in Request /\ p \in Handlers /\ request[p].kind = "claim" /\ pc[p] = "mark"
    BY <1>0, <1>10 DEF Mark, Placed
  <2>2. /\ paid' \in Shown /\ shown' \in Shown /\ unpaid' \subseteq Users
        /\ txs' \subseteq Tx
        /\ built' \in [Challenges -> Nat] /\ restarts' \in 0 .. MaxRestarts
    BY <1>10 DEF Mark, TypeOK
  <2>3. challenges' \in [Challenges -> Challenge]
    <3> DEFINE c == request[p].challenge
    <3>1. challenges \in [Challenges -> Challenge] /\ challenges[c] \in Challenge
      BY <2>1 DEF TypeOK, Request
    <3>2. [challenges[c] EXCEPT !.state = "used"] \in Challenge
      BY <3>1 DEF Challenge
    <3>3. \/ challenges' = challenges
          \/ challenges' = [challenges EXCEPT ![c] = [challenges[c] EXCEPT !.state = "used"]]
      BY <1>10 DEF Mark
    <3> QED
      BY <3>1, <3>2, <3>3
  <2>4. CASE Leave(p)
    BY <1>c, <2>2, <2>3, <2>4
  <2>5. CASE ~Leave(p)
    <3>1. pc' = [pc EXCEPT ![p] = "build"] /\ UNCHANGED <<lock, request, copy, seen>> /\ "build" \in Labels
      BY <1>10, <2>5 DEF Mark, Goto, Labels
    <3>2. Placed(p)'
      BY <1>0, <1>a, <2>1, <3>1 DEF Placed
    <3> QED
      BY <1>a, <1>b, <2>1, <2>2, <2>3, <3>1, <3>2, TypeFrame
  <2> QED
    BY <2>4, <2>5
<1>11. CASE Build(p)
  <2>1. request[p] \in Request
    BY <1>0, <1>11 DEF Build, Placed
  <2>2. txs' \subseteq Tx /\ built' \in [Challenges -> Nat]
    BY <1>11, <2>1 DEF Build, TypeOK, Tx, Request
  <2> QED
    BY <1>11, <1>c, <2>2 DEF Build, TypeOK
<1> QED
  BY <1>1, <1>2, <1>3, <1>4, <1>5, <1>6, <1>7, <1>8, <1>9, <1>10, <1>11, ActCases DEF Quiet

LEMMA OutsideType == TypeOK /\ Outside => TypeOK'
<1> SUFFICES ASSUME TypeOK, Outside PROVE TypeOK'
  OBVIOUS
<1> USE ClaimAssumption, ConstantTypes
<1>1. CASE Restart
  <2>1. /\ copy' \in [Processes -> Shown] /\ seen' \in [Processes -> Recipients]
        /\ pc' \in [Processes -> Labels]
        /\ request' \in [Processes -> Request \cup {NoRequest}]
        /\ lock' = NoProcess /\ restarts' \in 0 .. MaxRestarts
        /\ \A q \in Processes : pc'[q] = "idle"
        /\ UNCHANGED <<shareVars, shown, challenges, txs, built>>
    BY <1>1 DEF TypeOK, Restart, Labels
  <2>2. \A q \in Handlers : Placed(q)'
    BY <2>1 DEF Placed
  <2>3. Readers \subseteq Processes
    BY DEF Processes
  <2> QED
    BY <2>1, <2>2, <2>3 DEF TypeOK
<1>2. CASE WindowEnds \/ \E c \in Challenges : Expire(c)
  <2>1. /\ UNCHANGED <<paid, shown, txs, lock, pc, request, copy, seen, built, restarts>>
        /\ unpaid' \subseteq Users
    BY <1>2 DEF TypeOK, WindowEnds, End, Expire
  <2>2. challenges' \in [Challenges -> Challenge]
    <3>1. CASE WindowEnds
      BY <3>1 DEF TypeOK, WindowEnds
    <3>2. CASE \E c \in Challenges : Expire(c)
      <4>1. PICK c \in Challenges : challenges' = [challenges EXCEPT ![c].state = "expired"]
        BY <3>2 DEF Expire
      <4>2. [challenges[c] EXCEPT !.state = "expired"] \in Challenge
        BY DEF TypeOK, Challenge
      <4> QED
        BY <4>1, <4>2 DEF TypeOK
    <3> QED
      BY <1>2, <3>1, <3>2
  <2>3. \A q \in Handlers : Placed(q)'
    BY <2>1 DEF TypeOK, Placed
  <2> QED
    BY <2>1, <2>2, <2>3 DEF TypeOK
<1>3. CASE \E tx \in Tx : Land(tx) \/ Drop(tx)
  <2>1. PICK tx \in Tx : Land(tx) \/ Drop(tx)
    BY <1>3
  <2>2. paid' \in Shown
    <3>1. tx.user \in Users /\ tx.wallet \in Recipients
      BY DEF Tx, Recipients
    <3>2. paid' \in {paid, [paid EXCEPT ![tx.user] = tx.wallet]}
      BY <2>1 DEF Land, Pay, Drop
    <3> QED
      BY <3>1, <3>2 DEF TypeOK, Shown
  <2>3. unpaid' \subseteq Users /\ txs' \subseteq Tx
        /\ UNCHANGED <<shown, challenges, lock, pc, request, copy, seen, built, restarts>>
    BY <2>1 DEF TypeOK, Land, Pay, Drop
  <2>4. \A q \in Handlers : Placed(q)'
    BY <2>3 DEF TypeOK, Placed
  <2> QED
    BY <2>2, <2>3, <2>4 DEF TypeOK
<1> QED
  BY <1>1, <1>2, <1>3 DEF Outside

LEMMA TypeStep == TypeOK /\ [Next]_vars => TypeOK'
<1> SUFFICES ASSUME TypeOK, [Next]_vars PROVE TypeOK'
  OBVIOUS
<1>1. CASE UNCHANGED vars
  BY <1>1 DEF TypeOK, Placed, vars
<1> QED
  BY <1>1, StepCases, ActType, OutsideType

\* The types hold, and whoever is inside Claim or ClaimConfirm holds the mutex.
THEOREM TypeCorrect == Spec => []TypeOK
<1>1. Init => TypeOK
  BY TypeInit
<1>2. TypeOK /\ [Next]_vars => TypeOK'
  BY TypeStep
<1> QED
  BY <1>1, <1>2, PTL DEF Spec

-----------------------------------------------------------------------------
(* Honest copies, challenges and transactions.                             *)

LEMMA ClaimInit == Init => ClaimInv
  BY ClaimAssumption, ConstantTypes DEF Init, ClaimInv, OneTxPerChallenge, PaidToProvenWallet,
     ShownIsPaid, Backed, Nobody, Processes

\* What a row or a copy may say.
Truthful(row) == \A u \in Users : row[u] # NoWallet => row[u] = paid[u]

\* The frame of a step of p that leaves the chain and the challenges alone.
LEMMA QuietFrame ==
  ASSUME TypeOK, ClaimInv, NEW p \in Processes,
         UNCHANGED <<shareVars, challenges, txs, built>>,
         Truthful(shown'),
         NEW row, Truthful(row), copy' \in {copy, [copy EXCEPT ![p] = row]},
         \A q \in Handlers \ {p} :
            pc'[q] = pc[q] /\ request'[q] = request[q] /\ seen'[q] = seen[q],
         p \in Handlers => Backed(p)'
  PROVE  ClaimInv'
<1>1. \A q \in Processes : copy'[q] \in {copy[q], row}
  BY DEF TypeOK
<1>2. \A q \in Processes, u \in Users : copy'[q][u] # NoWallet => copy'[q][u] = paid'[u]
  BY <1>1 DEF ClaimInv, Truthful
<1>3. ASSUME NEW q \in Handlers PROVE Backed(q)'
  <2>1. CASE q = p
    BY <1>3, <2>1
  <2>2. CASE q # p
    BY <1>3, <2>2 DEF ClaimInv, Backed
  <2> QED
    BY <2>1, <2>2
<1>4. OneTxPerChallenge' /\ PaidToProvenWallet' /\ ShownIsPaid'
  BY DEF ClaimInv, OneTxPerChallenge, PaidToProvenWallet, Proven, ShownIsPaid, Truthful
<1>5. /\ \A c \in Challenges : built'[c] > 0 => challenges'[c].state = "used"
      /\ \A tx \in txs' : Proven(tx.user, tx.wallet)'
  BY DEF ClaimInv, Proven
<1> QED
  BY <1>2, <1>3, <1>4, <1>5 DEF ClaimInv

\* A process that returns has nothing to back.
LEMMA LeaveFrame ==
  ASSUME TypeOK, NEW p \in Processes, Leave(p)
  PROVE  /\ copy' = [copy EXCEPT ![p] = Nobody] /\ Truthful(Nobody)
         /\ \A q \in Handlers \ {p} :
               pc'[q] = pc[q] /\ request'[q] = request[q] /\ seen'[q] = seen[q]
         /\ pc'[p] = "idle" /\ Backed(p)'
<1>1. /\ copy' = [copy EXCEPT ![p] = Nobody] /\ Truthful(Nobody)
      /\ \A q \in Handlers \ {p} :
            pc'[q] = pc[q] /\ request'[q] = request[q] /\ seen'[q] = seen[q]
      /\ pc'[p] = "idle"
  BY ConstantTypes DEF TypeOK, Leave, Goto, Truthful, Nobody
<1> QED
  BY <1>1 DEF Backed

LEMMA QuietClaim ==
  ASSUME TypeOK, ClaimInv, NEW p \in Processes, Quiet(p)
  PROVE  ClaimInv'
<1> USE ClaimAssumption, ConstantTypes
<1>0. /\ Truthful(shown) /\ UNCHANGED <<shareVars, challenges, txs, built, shown>>
      /\ p \in Handlers => Placed(p) /\ Backed(p)
      /\ p \in Readers => pc[p] \in {"idle", "load", "loaded"}
      /\ p \in Handlers \/ p \in Readers
  BY DEF ClaimInv, ShownIsPaid, Truthful, TypeOK, Quiet, Arrive, Lock, Read, RpcFails,
     CheckUnpaid, CheckPaid, Processes
<1>1. CASE Leave(p)
  BY <1>0, <1>1, LeaveFrame, QuietFrame
<1>2. CASE Arrive(p) \/ Lock(p) \/ Read(p)
  <2>1. PICK row \in {shown} : copy' \in {copy, [copy EXCEPT ![p] = row]}
    BY <1>2 DEF Arrive, Lock, Read
  <2>2. /\ \A q \in Handlers \ {p} :
             pc'[q] = pc[q] /\ request'[q] = request[q] /\ seen'[q] = seen[q]
        /\ pc'[p] \in {"load", "waiting", "loaded"}
    BY <1>2 DEF TypeOK, Arrive, Lock, Read, Goto
  <2>3. Backed(p)'
    BY <2>2 DEF Backed
  <2> QED
    BY <1>0, <2>1, <2>2, <2>3, QuietFrame
<1>3. CASE CheckUnpaid(p)
  <2>1. /\ copy' = copy /\ request' = request
        /\ \A q \in Handlers \ {p} :
             pc'[q] = pc[q] /\ request'[q] = request[q] /\ seen'[q] = seen[q]
        /\ pc[p] = "status" /\ request[p].kind = "claim"
        /\ \/ pc'[p] = "mark"
           \/ pc'[p] = "record" /\ seen'[p] = paid[request[p].user] /\ seen'[p] # NoWallet
    BY <1>3 DEF TypeOK, CheckUnpaid, Goto
  <2>2. p \in Handlers => Backed(p)'
    BY <1>0, <2>1 DEF Backed
  <2> QED
    BY <1>0, <2>1, <2>2, QuietFrame
<1>4. CASE CheckPaid(p) /\ ~Leave(p)
  <2>1. /\ copy' = copy /\ request' = request
        /\ \A q \in Handlers \ {p} :
             pc'[q] = pc[q] /\ request'[q] = request[q] /\ seen'[q] = seen[q]
        /\ pc'[p] = "record" /\ pc[p] = "status" /\ request[p].kind = "confirm"
        /\ seen'[p] = request[p].wallet /\ paid[request[p].user] = request[p].wallet
    BY <1>4 DEF TypeOK, CheckPaid, Matches, Goto
  <2>2. p \in Handlers => seen'[p] # NoWallet
    BY <1>0, <2>1 DEF Placed, Request
  <2>3. p \in Handlers => Backed(p)'
    BY <1>0, <2>1, <2>2 DEF Backed
  <2> QED
    BY <1>0, <2>1, <2>3, QuietFrame
<1>5. CASE RpcFails(p)
  BY <1>1, <1>5 DEF RpcFails
<1> QED
  BY <1>1, <1>2, <1>3, <1>4, <1>5 DEF Quiet

\* The handlers' saves: a copy of a row is as true as the row was.
LEMMA SaveClaim ==
  ASSUME TypeOK, ClaimInv, NEW p \in Processes, Save(p)
  PROVE  ClaimInv'
<1> USE ClaimAssumption, ConstantTypes
<1>1. /\ UNCHANGED <<shareVars, challenges, txs, built>> /\ shown' = copy[p] /\ Truthful(shown')
      /\ pc[p] = "loaded"
  BY DEF Save, ClaimInv, Truthful
<1>2. CASE Leave(p)
  BY <1>1, <1>2, LeaveFrame, QuietFrame
<1>3. CASE ~Leave(p)
  <2>1. /\ UNCHANGED <<request, copy, seen>> /\ Accepted(p, request[p]) /\ p \notin Readers
        /\ pc' = [pc EXCEPT ![p] = IF request[p].kind = "challenge" THEN "issue" ELSE "status"]
    BY <1>3 DEF Save, Proceed, Goto
  <2>2. request[p] \in Request /\ p \in Handlers
    BY <1>1, <2>1 DEF TypeOK, Placed, Processes
  <2>3. /\ \A q \in Handlers \ {p} :
             pc'[q] = pc[q] /\ request'[q] = request[q] /\ seen'[q] = seen[q]
        /\ pc'[p] = IF request[p].kind = "challenge" THEN "issue" ELSE "status"
    BY <2>1 DEF TypeOK
  <2>4. request[p].kind = "claim" => Verified(request[p])
    BY <2>1 DEF Accepted
  <2>5. Backed(p)'
    BY <1>1, <2>1, <2>3, <2>4 DEF Backed, Verified
  <2> QED
    BY <1>1, <2>1, <2>3, <2>5, QuietFrame
<1> QED
  BY <1>2, <1>3

\* The write after a payment was seen.
LEMMA RecordClaim ==
  ASSUME TypeOK, ClaimInv, NEW p \in Processes, Record(p)
  PROVE  ClaimInv'
<1> USE ClaimAssumption, ConstantTypes
<1>1. p \in Handlers /\ Backed(p) /\ copy[p] \in Shown /\ Truthful(copy[p])
  BY DEF TypeOK, ClaimInv, Record, Processes, Truthful
<1>2. /\ seen[p] = paid[request[p].user] /\ UNCHANGED <<shareVars, challenges, txs, built>>
      /\ shown' = [copy[p] EXCEPT ![request[p].user] = seen[p]] /\ Leave(p)
  BY <1>1 DEF Record, Backed
<1>3. Truthful(shown')
  BY <1>1, <1>2 DEF Truthful, Shown
<1> QED
  BY <1>2, <1>3, LeaveFrame, QuietFrame

\* The frame of a step of p that moves challenges and builds transactions: a
\* challenge once used stays as it is, and an issued one keeps its contributor
\* and its wallet.
LEMMA ChallengeFrame ==
  ASSUME TypeOK, ClaimInv, NEW p \in Processes, Leave(p) \/ UNCHANGED <<request, copy, seen>>,
         UNCHANGED <<shareVars, shown>>,
         \A q \in Handlers \ {p} : pc'[q] = pc[q],
         \A c \in Challenges : challenges[c].state = "used" => challenges'[c] = challenges[c],
         \A c \in Challenges : challenges[c].state # "none" =>
             /\ challenges'[c].state # "none" /\ challenges'[c].user = challenges[c].user
             /\ challenges'[c].wallet = challenges[c].wallet,
         \A q \in Handlers \ {p} : pc[q] = "build" =>
             built'[request[q].challenge] = built[request[q].challenge],
         \A c \in Challenges : built'[c] <= 1,
         \A c \in Challenges : built'[c] > 0 => challenges'[c].state = "used",
         \A tx \in txs' : tx \in txs \/ Proven(tx.user, tx.wallet),
         p \in Handlers => Backed(p)'
  PROVE  ClaimInv'
<1> USE ClaimAssumption, ConstantTypes
<1>1. /\ \A q \in Handlers \ {p} : request'[q] = request[q] /\ seen'[q] = seen[q]
      /\ \A q \in Processes : copy'[q] \in {copy[q], Nobody}
  BY DEF TypeOK, Leave
<1>2. \A q \in Processes, u \in Users : copy'[q][u] # NoWallet => copy'[q][u] = paid'[u]
  BY <1>1 DEF ClaimInv, Nobody
<1>3. ASSUME NEW user, NEW wallet, Proven(user, wallet) PROVE Proven(user, wallet)'
  BY <1>3 DEF Proven
<1>4. ASSUME NEW q \in Handlers PROVE Backed(q)'
  <2>1. CASE q = p
    BY <1>4, <2>1
  <2>2. CASE q # p
    <3>1. /\ pc'[q] = pc[q] /\ request'[q] = request[q] /\ seen'[q] = seen[q] /\ Backed(q)
          /\ Placed(q)
      BY <1>1, <1>4, <2>2 DEF ClaimInv, TypeOK
    <3>2. pc[q] \in {"status", "mark", "build"} => request[q].challenge \in Challenges
      BY <3>1 DEF Placed, Request
    <3> QED
      BY <1>4, <2>2, <3>1, <3>2 DEF Backed
  <2> QED
    BY <2>1, <2>2
<1>5. OneTxPerChallenge' /\ ShownIsPaid'
  BY DEF ClaimInv, OneTxPerChallenge, ShownIsPaid
<1>6. PaidToProvenWallet'
  BY <1>3 DEF ClaimInv, PaidToProvenWallet
<1>7. \A tx \in txs' : Proven(tx.user, tx.wallet)'
  BY <1>3 DEF ClaimInv
<1> QED
  BY <1>2, <1>4, <1>5, <1>6, <1>7 DEF ClaimInv

\* Two requests with one challenge: the mutex lets no other into Claim, and the
\* second finds the challenge used.
LEMMA MarkClaim ==
  ASSUME TypeOK, ClaimInv, NEW p \in Processes, Mark(p)
  PROVE  ClaimInv'
<1> USE ClaimAssumption, ConstantTypes
<1> DEFINE c == request[p].challenge
<1>1. /\ p \in Handlers /\ request[p] \in Request /\ request[p].kind = "claim"
      /\ c \in Challenges /\ Backed(p) /\ pc[p] = "mark"
      /\ UNCHANGED <<shareVars, shown, txs, built>>
  BY DEF TypeOK, ClaimInv, Mark, Processes, Placed, Request
<1>2. \A q \in Handlers \ {p} : pc'[q] = pc[q]
  BY DEF TypeOK, Mark, Leave, Goto
<1>3. CASE challenges[c].state = "used"
  <2>1. Leave(p) /\ UNCHANGED challenges
    BY <1>3 DEF Mark
  <2> QED
    BY <1>1, <1>2, <2>1, LeaveFrame, ChallengeFrame DEF ClaimInv, OneTxPerChallenge
<1>4. CASE challenges[c].state # "used"
  <2>1. /\ challenges' = [challenges EXCEPT ![c].state = "used"]
        /\ pc' = [pc EXCEPT ![p] = "build"] /\ UNCHANGED <<lock, request, copy, seen>>
    BY <1>4 DEF Mark, Goto
  <2>2. /\ challenges[c] \in Challenge /\ challenges[c].state # "none"
        /\ challenges[c].user = request[p].user /\ challenges[c].wallet = request[p].wallet
    BY <1>1 DEF TypeOK, Backed
  <2>3. challenges'[c] = [state |-> "used", user |-> request[p].user, wallet |-> request[p].wallet]
    BY <1>1, <2>1, <2>2 DEF TypeOK, Challenge
  <2>4. \A d \in Challenges \ {c} : challenges'[d] = challenges[d]
    BY <2>1 DEF TypeOK
  <2>5. built[c] = 0
    BY <1>1, <1>4 DEF TypeOK, ClaimInv
  <2>6. pc'[p] = "build"
    BY <2>1 DEF TypeOK
  <2>7. Backed(p)'
    BY <1>1, <2>1, <2>3, <2>5, <2>6 DEF Backed
  <2>8. \A d \in Challenges : built[d] <= 1 /\ (built[d] > 0 => challenges'[d].state = "used")
    BY <2>3, <2>4 DEF ClaimInv, OneTxPerChallenge
  <2> QED
    BY <1>1, <1>2, <1>4, <2>1, <2>2, <2>3, <2>4, <2>7, <2>8, ChallengeFrame
<1> QED
  BY <1>3, <1>4

\* Whoever builds holds the mutex, so nobody else is about to build.
LEMMA BuildClaim ==
  ASSUME TypeOK, ClaimInv, NEW p \in Processes, Build(p)
  PROVE  ClaimInv'
<1> USE ClaimAssumption, ConstantTypes
<1> DEFINE c == request[p].challenge
           tx == [user |-> request[p].user, wallet |-> request[p].wallet]
<1>1. /\ p \in Handlers /\ request[p] \in Request /\ request[p].kind = "claim" /\ lock = p
      /\ c \in Challenges /\ Backed(p) /\ pc[p] = "build" /\ Leave(p)
      /\ UNCHANGED <<shareVars, shown, challenges>>
      /\ built' = [built EXCEPT ![c] = @ + 1] /\ txs' = txs \cup {tx}
  BY DEF TypeOK, ClaimInv, Build, Processes, Placed, Request
<1>2. \A q \in Handlers \ {p} : pc'[q] = pc[q] /\ pc[q] # "build"
  BY <1>1 DEF TypeOK, Leave, Goto, Placed
<1>3. built[c] = 0 /\ challenges[c] = [state |-> "used", user |-> tx.user, wallet |-> tx.wallet]
  BY <1>1 DEF Backed
<1>4. \A d \in Challenges : built'[d] = IF d = c THEN 1 ELSE built[d]
  BY <1>1, <1>3 DEF TypeOK
<1>5. \A d \in Challenges : built'[d] <= 1 /\ (built'[d] > 0 => challenges'[d].state = "used")
  BY <1>1, <1>3, <1>4 DEF ClaimInv, OneTxPerChallenge
<1>6. Proven(tx.user, tx.wallet)
  BY <1>1, <1>3 DEF Proven
<1>7. Backed(p)'
  BY <1>1, LeaveFrame
<1> HIDE DEF tx
<1> QED
  BY <1>1, <1>2, <1>5, <1>6, <1>7, ChallengeFrame

LEMMA IssueClaim ==
  ASSUME TypeOK, ClaimInv, NEW p \in Processes, Issue(p)
  PROVE  ClaimInv'
<1> USE ClaimAssumption, ConstantTypes
<1>1. Leave(p) /\ UNCHANGED <<shareVars, shown, txs, built>> /\ Backed(p)'
      /\ \A q \in Handlers \ {p} : pc'[q] = pc[q]
  BY LeaveFrame DEF Issue
<1>2. \A c \in Challenges :
        challenges[c].state # "none" => challenges'[c] = challenges[c]
  BY DEF TypeOK, Issue
<1>3. \A c \in Challenges : built[c] <= 1 /\ (built[c] > 0 => challenges'[c].state = "used")
  BY <1>2 DEF ClaimInv, OneTxPerChallenge
<1> QED
  BY <1>1, <1>2, <1>3, ChallengeFrame

LEMMA OutsideClaim == TypeOK /\ ClaimInv /\ Outside => ClaimInv'
<1> SUFFICES ASSUME TypeOK, ClaimInv, Outside PROVE ClaimInv'
  OBVIOUS
<1> USE ClaimAssumption, ConstantTypes
<1>1. CASE Restart
  BY <1>1 DEF ClaimInv, Restart, OneTxPerChallenge, PaidToProvenWallet, Proven, ShownIsPaid,
     Backed, Nobody
<1>2. CASE WindowEnds
  BY <1>2 DEF ClaimInv, WindowEnds, End, OneTxPerChallenge, PaidToProvenWallet, Proven,
     ShownIsPaid, Backed
<1>3. CASE \E tx \in Tx : Drop(tx)
  BY <1>3 DEF ClaimInv, Drop, OneTxPerChallenge, PaidToProvenWallet, Proven,
     ShownIsPaid, Backed
<1>4. CASE \E tx \in Tx : Land(tx)
  <2>1. PICK tx \in Tx : Land(tx)
    BY <1>4
  <2>2. /\ paid[tx.user] = NoWallet /\ tx \in txs /\ tx.user \in Users
        /\ unpaid' = unpaid \ {tx.user}
        /\ paid' = [paid EXCEPT ![tx.user] = tx.wallet] /\ txs' \subseteq txs
        /\ UNCHANGED <<shown, challenges, pc, request, copy, seen, built>>
    BY <2>1 DEF ClaimInv, Land, Pay, Tx
  <2>3. \A u \in Users : /\ paid[u] # NoWallet => paid'[u] = paid[u]
                         /\ paid'[u] = IF u = tx.user THEN tx.wallet ELSE paid[u]
    BY <2>2 DEF TypeOK, Shown
  <2>4. PaidToProvenWallet' /\ OneTxPerChallenge' /\ ShownIsPaid'
    BY <2>2, <2>3 DEF ClaimInv, PaidToProvenWallet, OneTxPerChallenge, ShownIsPaid, Proven
  <2>5. \A q \in Processes, u \in Users : copy[q][u] # NoWallet => copy[q][u] = paid'[u]
    BY <2>3 DEF ClaimInv
  <2>6. ASSUME NEW q \in Handlers PROVE Backed(q)'
    <3>1. pc[q] = "record" => request[q].user \in Users
      BY <2>6 DEF TypeOK, Placed, Request
    <3> QED
      BY <2>2, <2>3, <2>6, <3>1 DEF ClaimInv, Backed
  <2>7. \A u \in unpaid' : paid'[u] = NoWallet
    BY <2>2 DEF ClaimInv
  <2> QED
    BY <2>2, <2>4, <2>5, <2>6, <2>7 DEF ClaimInv, Proven
<1>5. CASE \E c \in Challenges : Expire(c)
  <2>1. PICK c \in Challenges : Expire(c)
    BY <1>5
  <2>2. /\ challenges[c].state = "fresh"
        /\ challenges' = [challenges EXCEPT ![c].state = "expired"]
        /\ UNCHANGED <<shareVars, shown, txs, pc, request, copy, seen, built>>
    BY <2>1 DEF Expire
  <2>3. \A d \in Challenges :
          /\ challenges[d].state = "used" => challenges'[d] = challenges[d]
          /\ challenges[d].state # "none" => challenges'[d].state # "none"
          /\ challenges'[d].user = challenges[d].user
          /\ challenges'[d].wallet = challenges[d].wallet
    BY <2>2 DEF TypeOK, Challenge
  <2>4. \A user, wallet : Proven(user, wallet) => Proven(user, wallet)'
    BY <2>3 DEF Proven
  <2>5. PaidToProvenWallet' /\ OneTxPerChallenge' /\ ShownIsPaid'
    BY <2>2, <2>4 DEF ClaimInv, PaidToProvenWallet, OneTxPerChallenge, ShownIsPaid
  <2>6. ASSUME NEW q \in Handlers PROVE Backed(q)'
    <3>1. pc[q] \in {"status", "mark", "build"} => request[q].challenge \in Challenges
      BY <2>6 DEF TypeOK, Placed, Request
    <3> QED
      BY <2>2, <2>3, <2>6, <3>1 DEF ClaimInv, Backed
  <2>7. \A d \in Challenges : built[d] > 0 => challenges'[d].state = "used"
    BY <2>3 DEF ClaimInv
  <2> QED
    BY <2>2, <2>4, <2>5, <2>6, <2>7 DEF ClaimInv
<1> QED
  BY <1>1, <1>2, <1>3, <1>4, <1>5 DEF Outside

LEMMA ClaimStep == TypeOK /\ ClaimInv /\ [Next]_vars => ClaimInv'
<1> SUFFICES ASSUME TypeOK, ClaimInv, [Next]_vars PROVE ClaimInv'
  OBVIOUS
<1>1. CASE UNCHANGED vars
  BY <1>1 DEF vars, ClaimInv, OneTxPerChallenge, PaidToProvenWallet, Proven, ShownIsPaid, Backed
<1>2. ASSUME NEW p \in Processes, Act(p) PROVE ClaimInv'
  BY <1>2, ActCases, QuietClaim, SaveClaim, RecordClaim, MarkClaim, BuildClaim, IssueClaim
<1> QED
  BY <1>1, <1>2, StepCases, OutsideClaim

\* Copies are as true as the row, transactions come from used challenges, and a request
\* past its checks may rely on them.
THEOREM ClaimHolds == Spec => []ClaimInv
<1>1. Init => ClaimInv
  BY ClaimInit
<1>2. TypeOK /\ ClaimInv /\ [Next]_vars => ClaimInv'
  BY ClaimStep
<1> QED
  BY <1>1, <1>2, TypeCorrect, PTL DEF Spec

\* The service signs at most one transaction for each challenge, however often the
\* challenge is presented and wherever the backend restarts.
THEOREM OneTxPerChallengeCorrect == Spec => []OneTxPerChallenge
<1>1. ClaimInv => OneTxPerChallenge
  BY DEF ClaimInv
<1> QED
  BY <1>1, ClaimHolds, PTL

\* No share is paid to a wallet that was not proven for its contributor.
THEOREM PaidToProvenWalletCorrect == Spec => []PaidToProvenWallet
<1>1. ClaimInv => PaidToProvenWallet
  BY DEF ClaimInv
<1> QED
  BY <1>1, ClaimHolds, PTL

\* A share the row shows as claimed was paid, to the wallet the row shows.
THEOREM ShownIsPaidCorrect == Spec => []ShownIsPaid
<1>1. ClaimInv => ShownIsPaid
  BY DEF ClaimInv
<1> QED
  BY <1>1, ClaimHolds, PTL

-----------------------------------------------------------------------------
(* The shares' lives.                                                      *)

LEMMA SharesStep ==
  ASSUME [Next]_vars
  PROVE  [ShareNext]_shareVars
<1>1. CASE UNCHANGED vars
  BY <1>1 DEF vars
<1>2. ASSUME NEW p \in Processes, Act(p) PROVE UNCHANGED shareVars
  BY <1>2, ActCases
  DEF Quiet, Arrive, Lock, Read, RpcFails, CheckUnpaid, CheckPaid, Save, Issue, Mark, Build, Record
<1>3. ASSUME NEW tx \in Tx, Land(tx) PROVE ShareNext
  <2>1. tx.user \in Users /\ tx.wallet \in Wallets /\ Pay(tx.user, tx.wallet)
    BY <1>3 DEF Land, Tx
  <2> QED
    BY <2>1 DEF ShareNext
<1>4. ASSUME NEW tx \in Tx, Drop(tx) PROVE UNCHANGED shareVars
  BY <1>4 DEF Drop
<1>5. WindowEnds => ShareNext
  BY DEF WindowEnds, ShareNext
<1>6. (\E c \in Challenges : Expire(c)) \/ Restart => UNCHANGED shareVars
  BY DEF Expire, Restart
<1>7. CASE Outside
  BY <1>3, <1>4, <1>5, <1>6, <1>7, Zenon DEF Outside
<1> QED
  BY <1>1, <1>2, <1>7, StepCases

\* Whatever requests, races and restarts do, claims move as the program lets them: this
\* model, which begins once the reward is shared out, adds nothing to ShareLife, which
\* the program implements.
THEOREM ClaimsLiveCorrect == Spec => [][ShareNext]_shareVars
<1>1. [Next]_vars => [ShareNext]_shareVars
  BY SharesStep
<1> QED
  BY <1>1, PTL DEF Spec

\* A payment is never taken back, repeated or sent to another wallet, so what was once
\* read of a claim record as paid is true for ever.
PaidIsFinal == [][\A u \in Users : paid[u] # NoWallet => paid'[u] = paid[u]]_vars

\* Of all signed transactions of a contributor, whoever holds them, at most one ever pays.
THEOREM PaidIsFinalCorrect == Spec => PaidIsFinal
<1>1. ASSUME TypeOK, ClaimInv, [Next]_vars, NEW u \in Users, paid[u] # NoWallet
      PROVE  paid'[u] = paid[u]
  <2>1. u \notin unpaid
    BY <1>1 DEF ClaimInv
  <2>2. CASE UNCHANGED shareVars
    BY <2>2
  <2>3. ASSUME NEW v \in Users, NEW w \in Wallets, Pay(v, w) PROVE paid'[u] = paid[u]
    BY <2>1, <2>3 DEF Pay
  <2>4. ASSUME NEW S \in SUBSET Users, Fix(S) PROVE paid'[u] = paid[u]
    BY <2>4 DEF Fix
  <2>5. CASE End
    BY <2>5 DEF End
  <2> QED
    BY <1>1, <2>2, <2>3, <2>4, <2>5, SharesStep DEF ShareNext
<1>2. TypeOK /\ ClaimInv /\ [Next]_vars =>
          [\A u \in Users : paid[u] # NoWallet => paid'[u] = paid[u]]_vars
  BY <1>1
<1> QED
  BY <1>2, TypeCorrect, ClaimHolds, PTL DEF Spec, PaidIsFinal
=============================================================================
