--------------------------- MODULE FrontDoorProofs ---------------------------
(* Theorems about FrontDoor, for any sets of requests, clients, states and  *)
(* accounts.  The limiter's invariant says that a bucket in use is the one  *)
(* in the map, and how much of a bucket has come back while its client was  *)
(* away; that of the sign-in, what a state, a token and a callback imply.   *)
EXTENDS FrontDoor, TLAPS

-----------------------------------------------------------------------------
(* Types.                                                                  *)

LEMMA OlderType ==
    ASSUME NEW limit \in Nat, NEW ticks \in 0 .. limit + 1
    PROVE  /\ Older(ticks, limit) \in 0 .. limit + 1
           /\ ticks <= limit => Older(ticks, limit) = ticks + 1
           /\ ticks > limit => Older(ticks, limit) = ticks
  BY DEF Older

LEMMA RefilledType ==
    ASSUME TypeOK, NEW b \in Buckets
    PROVE  /\ Refilled(b) \in 0 .. Burst /\ Refilled(b) >= tokens[b]
           /\ Refilled(b) = Burst \/ Refilled(b) = tokens[b] + Rate
<1>1. tokens[b] \in 0 .. Burst /\ Burst \in Nat /\ Rate \in Nat
  BY DoorAssumption DEF TypeOK
<1> QED
  BY <1>1 DEF Refilled

LEMMA TypeInit == Init => TypeOK
  BY DoorAssumption DEF Init, Fresh, TypeOK, Ages

LEMMA GetLimiterType ==
    ASSUME TypeOK, NEW r \in Requests, NEW c \in Clients, GetLimiter(r, c)
    PROVE  TypeOK'
<1>1. /\ pc' = [pc EXCEPT ![r] = "limited"] /\ waited' = [waited EXCEPT ![r] = 0]
      /\ from' = [from EXCEPT ![r] = c]
      /\ seen' = [seen EXCEPT ![c] = 0] /\ UNCHANGED <<served, signVars, restarts>> /\ pc[r] = "idle"
  BY DEF GetLimiter, Goto, Touch
<1>2. /\ limits' \in [Clients -> Buckets \cup {NoBucket}] /\ tokens' \in [Buckets -> 0 .. Burst]
      /\ \E b \in Buckets : holds' = [holds EXCEPT ![r] = b]
  <2>1. CASE limits[c] # NoBucket
    <3>1. limits[c] \in Buckets
      BY <2>1 DEF TypeOK
    <3>2. holds' = [holds EXCEPT ![r] = limits[c]] /\ UNCHANGED <<limits, tokens>>
      BY <2>1 DEF GetLimiter
    <3> QED
      BY <3>1, <3>2 DEF TypeOK
  <2>2. CASE limits[c] = NoBucket
    <3>1. PICK b \in Free : /\ limits' = [limits EXCEPT ![c] = b]
                            /\ tokens' = [tokens EXCEPT ![b] = Burst]
                            /\ holds' = [holds EXCEPT ![r] = b]
      BY <2>2 DEF GetLimiter
    <3>2. b \in Buckets
      BY DEF Free
    <3>3. limits' \in [Clients -> Buckets \cup {NoBucket}]
      BY <3>1, <3>2 DEF TypeOK
    <3>4. tokens' \in [Buckets -> 0 .. Burst]
      BY <3>1, <3>2, DoorAssumption DEF TypeOK
    <3> QED
      BY <3>1, <3>2, <3>3, <3>4
  <2> QED
    BY <2>1, <2>2
<1>3. /\ holds' \in [Requests -> Buckets \cup {NoBucket}]
      /\ \A q \in Requests : (holds'[q] # NoBucket) = (pc'[q] = "limited")
      /\ from' \in [Requests -> Clients \cup {NoClient}]
      /\ \A q \in Requests : (from'[q] # NoClient) = (pc'[q] = "limited")
  BY <1>1, <1>2, DoorAssumption DEF TypeOK
<1>4. /\ pc' \in [Requests -> {"idle", "limited", "serve", "exchange", "lookup", "create", "token"}]
      /\ seen' \in [Clients -> 0 .. Idle + 1]
  BY <1>1, DoorAssumption DEF TypeOK
<1>5. waited' \in [Requests -> 0 .. Pause]
  BY <1>1, DoorAssumption DEF TypeOK
<1> QED
  BY <1>1, <1>2, <1>3, <1>4, <1>5 DEF TypeOK, signVars

LEMMA AllowType ==
    ASSUME TypeOK, NEW r \in Requests, Allow(r)
    PROVE  /\ TypeOK' /\ pc[r] = "limited"
           /\ holds[r] \in Buckets /\ from[r] \in Clients
<1>1. pc[r] = "limited" /\ holds[r] \in Buckets /\ from[r] \in Clients
  BY DEF Allow, TypeOK
<1>2. tokens' \in [Buckets -> 0 .. Burst] /\ served' \in [Clients -> Nat]
  BY <1>1, DoorAssumption DEF Allow, Count, TypeOK
<1>3. /\ holds' = [holds EXCEPT ![r] = NoBucket] /\ waited' = [waited EXCEPT ![r] = 0]
      /\ from' = [from EXCEPT ![r] = NoClient]
      /\ \E label \in {"serve", "idle"} : pc' = [pc EXCEPT ![r] = label]
      /\ UNCHANGED <<limits, seen, signVars, restarts>>
  BY DEF Allow, LetGo, Goto
<1>4. /\ holds' \in [Requests -> Buckets \cup {NoBucket}]
      /\ \A q \in Requests : (holds'[q] # NoBucket) = (pc'[q] = "limited")
      /\ from' \in [Requests -> Clients \cup {NoClient}]
      /\ \A q \in Requests : (from'[q] # NoClient) = (pc'[q] = "limited")
  BY <1>3, DoorAssumption DEF TypeOK
<1> QED
  BY <1>1, <1>2, <1>3, <1>4, DoorAssumption DEF TypeOK, signVars

\* What the sign-in and other requests leave alone: no handler is in the limiter.
LEMMA HandleFrame ==
    ASSUME TypeOK, NEW r \in Requests, Handle(r)
    PROVE  /\ UNCHANGED <<limitVars, waitVars, restarts>>
           /\ \E label \in {"idle", "exchange", "lookup", "create", "token"} :
                  pc' = [pc EXCEPT ![r] = label]
           /\ pc[r] # "limited"
<1>1. UNCHANGED <<limitVars, waitVars, restarts>> /\ pc[r] # "limited"
  BY DEF Handle, GetGitHubAuthURL, CheckState, Serve, ExchangeCode, LookupUser, CreateUser,
         GenerateToken, signVars
<1>2. \/ pc' = [pc EXCEPT ![r] = "idle"] \/ pc' = [pc EXCEPT ![r] = "exchange"]
      \/ pc' = [pc EXCEPT ![r] = "lookup"] \/ pc' = [pc EXCEPT ![r] = "create"]
      \/ pc' = [pc EXCEPT ![r] = "token"]
  BY DEF Handle, GetGitHubAuthURL, CheckState, Serve, ExchangeCode, LookupUser, CreateUser,
         CreateFails, GenerateToken, Respond, Goto
<1> QED
  BY <1>1, <1>2

LEMMA HandleType ==
    ASSUME TypeOK, NEW r \in Requests, Handle(r),
           pc[r] = "token" => account[r] \in Accounts,
           pc[r] = "create" => account[r] \in Accounts
    PROVE  TypeOK'
<1>1. /\ UNCHANGED <<limitVars, waitVars, restarts>> /\ pc[r] # "limited"
      /\ pc' \in [Requests -> {"idle", "limited", "serve", "exchange", "lookup", "create", "token"}]
      /\ \A q \in Requests : (holds'[q] # NoBucket) = (pc'[q] = "limited")
      /\ \A q \in Requests : (from'[q] # NoClient) = (pc'[q] = "limited")
  BY HandleFrame DEF TypeOK, waitVars
<1>2. account' \in [Requests -> Accounts \cup {NoAccount}]
  BY DEF Handle, GetGitHubAuthURL, CheckState, Serve, ExchangeCode, LookupUser, CreateUser,
         CreateFails, GenerateToken, Respond, signVars, TypeOK
<1>3. users' \subseteq Accounts
  BY DEF Handle, GetGitHubAuthURL, CheckState, Serve, ExchangeCode, LookupUser, CreateUser,
         GenerateToken, signVars, TypeOK
<1>4. session' \in [Accounts -> Ages(TokenLife)]
  <2>1. 0 \in Ages(TokenLife)
    BY DoorAssumption DEF Ages
  <2> QED
    BY <2>1 DEF Handle, GetGitHubAuthURL, CheckState, Serve, ExchangeCode, LookupUser,
                CreateUser, GenerateToken, signVars, TypeOK
<1>5. age' \in [States -> Ages(StateLife)] /\ drawnIn' \in [States -> 0 .. MaxRestarts]
  <2>1. 0 \in Ages(StateLife)
    BY DoorAssumption DEF Ages
  <2> QED
    BY <2>1 DEF Handle, GetGitHubAuthURL, CheckState, Serve, ExchangeCode, LookupUser,
                CreateUser, GenerateToken, signVars, TypeOK
<1>6. oauth' \in [States -> Ages(StateLife)]
  <2>1. 0 \in Ages(StateLife) /\ NoAge \in Ages(StateLife)
    BY DoorAssumption DEF Ages
  <2>2. CASE GetGitHubAuthURL(r)
    BY <2>1, <2>2 DEF GetGitHubAuthURL, TypeOK
  <2>3. CASE CheckState(r)
    BY <2>1, <2>3 DEF CheckState, Take, TypeOK
  <2> QED
    BY <2>2, <2>3 DEF Handle, Serve, ExchangeCode, LookupUser, CreateUser, GenerateToken,
                      signVars, TypeOK
<1>7. passed' \in [States -> Nat]
  BY DEF Handle, GetGitHubAuthURL, CheckState, Serve, ExchangeCode, LookupUser, CreateUser,
         GenerateToken, signVars, TypeOK
<1> QED
  BY <1>1, <1>2, <1>3, <1>4, <1>5, <1>6, <1>7 DEF TypeOK, limitVars, waitVars

LEMMA TickType ==
    ASSUME TypeOK, Tick
    PROVE  TypeOK'
<1>1. seen' \in [Clients -> 0 .. Idle + 1]
  BY OlderType, DoorAssumption DEF Tick, TypeOK
<1>2. tokens' \in [Buckets -> 0 .. Burst] /\ served' \in [Clients -> Nat]
  BY RefilledType DEF Tick, TypeOK
<1>3. waited' \in [Requests -> 0 .. Pause]
  BY DoorAssumption DEF Tick, TypeOK
<1>4. oauth' \in [States -> Ages(StateLife)] /\ age' \in [States -> Ages(StateLife)]
  BY OlderType, DoorAssumption DEF Tick, TypeOK, Ages
<1>5. session' \in [Accounts -> Ages(TokenLife)]
  BY OlderType, DoorAssumption DEF Tick, TypeOK, Ages
<1> QED
  BY <1>1, <1>2, <1>3, <1>4, <1>5 DEF Tick, TypeOK

LEMMA CleanupType ==
    ASSUME TypeOK, Cleanup
    PROVE  TypeOK'
<1>1. limits' \in [Clients -> Buckets \cup {NoBucket}]
  BY DEF Cleanup, TypeOK
<1> QED
  BY <1>1 DEF Cleanup, TypeOK, signVars, waitVars

LEMMA RestartType ==
    ASSUME TypeOK, Restart
    PROVE  TypeOK'
  BY DoorAssumption DEF Restart, Fresh, TypeOK, Ages

-----------------------------------------------------------------------------
(* Signing in.                                                             *)

\* A state in the map is as old as the map says, of this run of the service, and has
\* let nobody through.
StateOK(s) ==
    /\ oauth[s] # NoAge => age[s] = oauth[s] /\ drawnIn[s] = restarts /\ passed[s] = 0
    /\ age[s] = NoAge => passed[s] = 0

RequestOK(r) ==
    /\ pc[r] \in {"lookup", "create", "token"} => account[r] \in Accounts
    /\ pc[r] = "token" => account[r] \in users

SignInv ==
    /\ TypeOK
    /\ \A s \in States : StateOK(s)
    /\ \A r \in Requests : RequestOK(r)
    /\ \A a \in Accounts : session[a] # NoAge => a \in users

LEMMA SignInit == Init => SignInv
<1> SUFFICES ASSUME Init PROVE SignInv
  OBVIOUS
<1>1. TypeOK
  BY TypeInit
<1> QED
  BY <1>1 DEF Init, SignInv, StateOK, RequestOK

\* A state that was let through once is neither in the map nor drawn again, and one
\* that is in the map keeps its age.
LEMMA StateStep ==
    ASSUME SignInv, NEW r \in Requests, Handle(r), NEW s \in States
    PROVE  StateOK(s)'
<1>1. TypeOK /\ StateOK(s)
  BY DEF SignInv
<1>2. CASE GetGitHubAuthURL(r)
  <2>1. PICK d \in States :
            /\ age[d] = NoAge /\ age' = [age EXCEPT ![d] = 0]
            /\ drawnIn' = [drawnIn EXCEPT ![d] = restarts]
            /\ oauth' = [x \in States |->
                            IF x = d THEN 0
                            ELSE IF oauth[x] # NoAge /\ Expired(x) THEN NoAge ELSE oauth[x]]
    BY <1>2 DEF GetGitHubAuthURL
  <2>2. passed' = passed /\ restarts' = restarts
    BY <1>2 DEF GetGitHubAuthURL
  <2>3. CASE s = d
    <3>1. /\ oauth'[s] = 0 /\ age'[s] = 0 /\ drawnIn'[s] = restarts
          /\ passed[s] = 0 /\ 0 # NoAge
      BY <1>1, <2>1, <2>3, DoorAssumption DEF StateOK, TypeOK
    <3> QED
      BY <2>2, <3>1 DEF StateOK
  <2>4. CASE s # d
    <3>1. /\ oauth'[s] \in {NoAge, oauth[s]} /\ age'[s] = age[s]
          /\ drawnIn'[s] = drawnIn[s]
      BY <1>1, <2>1, <2>4 DEF TypeOK
    <3> QED
      BY <1>1, <2>2, <3>1 DEF StateOK
  <2> QED
    BY <2>3, <2>4
<1>3. CASE CheckState(r)
  <2>1. PICK d \in States :
            IF oauth[d] = NoAge
            THEN UNCHANGED <<oauth, passed>>
            ELSE /\ oauth' = [oauth EXCEPT ![d] = NoAge]
                 /\ \/ UNCHANGED passed
                    \/ passed' = [passed EXCEPT ![d] = passed[d] + 1]
    BY <1>3 DEF CheckState, Take
  <2>2. /\ UNCHANGED <<age, drawnIn, restarts>>
        /\ oauth \in [States -> Ages(StateLife)] /\ passed \in [States -> Nat]
    BY <1>1, <1>3 DEF CheckState, TypeOK
  <2>3. CASE oauth[d] # NoAge /\ s = d
    <3>1. oauth'[s] = NoAge /\ age'[s] # NoAge
      <4>1. age[s] = oauth[s]
        BY <1>1, <2>3 DEF StateOK
      <4> QED
        BY <2>1, <2>2, <2>3, <4>1
    <3> QED
      BY <3>1 DEF StateOK
  <2>4. CASE oauth[d] = NoAge \/ s # d
    <3>1. oauth'[s] = oauth[s] /\ passed'[s] = passed[s]
      BY <2>1, <2>2, <2>4
    <3> QED
      BY <1>1, <2>2, <3>1 DEF StateOK
  <2> QED
    BY <2>3, <2>4
<1>4. UNCHANGED <<oauth, age, drawnIn, passed, restarts>> => StateOK(s)'
  BY <1>1 DEF StateOK
<1>5. CASE ~GetGitHubAuthURL(r) /\ ~CheckState(r)
  BY <1>4, <1>5 DEF Handle, Serve, ExchangeCode, LookupUser, CreateUser, GenerateToken, signVars
<1> QED
  BY <1>2, <1>3, <1>5

LEMMA UsersStep ==
    ASSUME SignInv, NEW r \in Requests, Handle(r)
    PROVE  /\ users \subseteq users'
           /\ \A q \in Requests : RequestOK(q)'
           /\ \A a \in Accounts : session'[a] # NoAge => a \in users'
<1>1. TypeOK /\ RequestOK(r)
  BY DEF SignInv
<1>2. users \subseteq users'
  BY DEF Handle, GetGitHubAuthURL, CheckState, Serve, ExchangeCode, LookupUser, CreateUser,
         GenerateToken, signVars
<1>3. ASSUME NEW q \in Requests, q # r PROVE RequestOK(q)'
  <2>1. RequestOK(q)
    BY DEF SignInv
  <2>2. pc'[q] = pc[q] /\ account'[q] = account[q]
    BY <1>1, <1>3 DEF Handle, GetGitHubAuthURL, CheckState, Serve, ExchangeCode, LookupUser,
                      CreateUser, CreateFails, GenerateToken, Respond, Goto, signVars, TypeOK
  <2> QED
    BY <1>2, <2>1, <2>2 DEF RequestOK
<1>4. RequestOK(r)'
  <2>1. Respond(r) => pc'[r] = "idle"
    BY <1>1 DEF Respond, Goto, TypeOK
  <2>2. CASE GetGitHubAuthURL(r) \/ Serve(r) \/ GenerateToken(r)
    BY <2>1, <2>2 DEF GetGitHubAuthURL, Serve, GenerateToken, RequestOK
  <2>3. CASE CheckState(r)
    <3>1. pc'[r] \in {"idle", "exchange"}
      BY <1>1, <2>1, <2>3 DEF CheckState, Goto, TypeOK
    <3> QED
      BY <3>1 DEF RequestOK
  <2>4. CASE ExchangeCode(r)
    <3>1. pc'[r] = "idle" \/ (pc'[r] = "lookup" /\ account'[r] \in Accounts)
      BY <1>1, <2>1, <2>4 DEF ExchangeCode, Goto, TypeOK
    <3> QED
      BY <3>1 DEF RequestOK
  <2>5. CASE LookupUser(r)
    <3>1. /\ account'[r] \in Accounts /\ users' = users
          /\ (pc'[r] = "token" /\ account'[r] \in users') \/ pc'[r] = "create"
      BY <1>1, <2>5 DEF LookupUser, RequestOK, Goto, signVars, TypeOK
    <3> QED
      BY <3>1 DEF RequestOK
  <2>6. CASE CreateUser(r)
    <3>1. \/ pc'[r] = "idle"
          \/ pc'[r] = "token" /\ account'[r] \in Accounts /\ account'[r] \in users'
      BY <1>1, <2>1, <2>6 DEF CreateUser, CreateFails, RequestOK, Goto, TypeOK
    <3> QED
      BY <3>1 DEF RequestOK
  <2> QED
    BY <2>2, <2>3, <2>4, <2>5, <2>6 DEF Handle
<1>5. ASSUME NEW a \in Accounts, session'[a] # NoAge PROVE a \in users'
  <2>1. CASE session' = session
    BY <1>2, <1>5, <2>1 DEF SignInv
  <2>2. CASE GenerateToken(r)
    BY <1>1, <1>2, <1>5, <2>2 DEF GenerateToken, RequestOK, SignInv, TypeOK
  <2> QED
    BY <2>1, <2>2 DEF Handle, GetGitHubAuthURL, CheckState, Serve, ExchangeCode, LookupUser,
                      CreateUser, signVars
<1> QED
  BY <1>2, <1>3, <1>4, <1>5

LEMMA SignStep ==
    ASSUME SignInv, [Next]_vars
    PROVE  SignInv'
<1>1. TypeOK
  BY DEF SignInv
<1>2. TypeOK' /\ UNCHANGED <<oauth, age, drawnIn, passed, account, users, session, restarts>>
      /\ (\A r \in Requests : pc'[r] \in {"lookup", "create", "token"} => pc'[r] = pc[r])
      => SignInv'
  BY DEF SignInv, StateOK, RequestOK
<1>3. CASE UNCHANGED vars
  BY <1>3 DEF vars, limitVars, waitVars, signVars, SignInv, TypeOK, StateOK, RequestOK
<1>4. ASSUME NEW r \in Requests, NEW c \in Clients, GetLimiter(r, c) PROVE SignInv'
  <2>1. \A q \in Requests : pc'[q] \in {"lookup", "create", "token"} => pc'[q] = pc[q]
    BY <1>1, <1>4 DEF GetLimiter, Goto, TypeOK
  <2> QED
    BY <1>1, <1>2, <1>4, <2>1, GetLimiterType DEF GetLimiter, signVars
<1>5. ASSUME NEW r \in Requests, Allow(r) PROVE SignInv'
  <2>1. \A q \in Requests : pc'[q] \in {"lookup", "create", "token"} => pc'[q] = pc[q]
    BY <1>1, <1>5 DEF Allow, Goto, TypeOK
  <2> QED
    BY <1>1, <1>2, <1>5, <2>1, AllowType DEF Allow, signVars
<1>6. ASSUME NEW r \in Requests, Handle(r) PROVE SignInv'
  <2>1. TypeOK'
    BY <1>1, <1>6, HandleType DEF SignInv, RequestOK
  <2> QED
    BY <1>6, <2>1, StateStep, UsersStep DEF SignInv
<1>7. CASE Cleanup
  BY <1>1, <1>2, <1>7, CleanupType DEF Cleanup, signVars
<1>8. CASE Tick
  <2>1. TypeOK'
    BY <1>1, <1>8, TickType
  <2>2. ASSUME NEW s \in States PROVE StateOK(s)'
    <3>1. StateOK(s) /\ UNCHANGED <<drawnIn, passed, restarts>>
      BY <1>8 DEF SignInv, Tick
    <3>2. /\ oauth'[s] = (IF oauth[s] = NoAge THEN NoAge ELSE Older(oauth[s], StateLife))
          /\ age'[s] = (IF age[s] = NoAge THEN NoAge ELSE Older(age[s], StateLife))
      BY <1>8 DEF Tick
    <3>3. age[s] # NoAge => age'[s] # NoAge
      <4>1. age[s] # NoAge => age[s] \in 0 .. StateLife + 1
        BY <1>1 DEF TypeOK, Ages
      <4>2. age[s] # NoAge => Older(age[s], StateLife) \in Nat
        BY <4>1, OlderType, DoorAssumption
      <4> QED
        BY <3>2, <4>2, DoorAssumption
    <3> QED
      BY <3>1, <3>2, <3>3 DEF StateOK
  <2>3. \A a \in Accounts : session'[a] # NoAge => session[a] # NoAge
    BY <1>8 DEF Tick
  <2> QED
    BY <1>8, <2>1, <2>2, <2>3 DEF Tick, SignInv, RequestOK
<1>9. CASE Restart
  <2>1. TypeOK'
    BY <1>1, <1>9, RestartType
  <2> QED
    BY <1>9, <2>1, DoorAssumption DEF Restart, SignInv, StateOK, RequestOK
<1>10. CASE Next
  BY <1>4, <1>5, <1>6, <1>7, <1>8, <1>9, <1>10, Zenon DEF Next
<1> QED
  BY <1>3, <1>10

LEMMA SignHolds == Spec => []SignInv
<1>1. Init => SignInv
  BY SignInit
<1>2. SignInv /\ [Next]_vars => SignInv'
  BY SignStep
<1> QED
  BY <1>1, <1>2, PTL DEF Spec

\* Every reachable state is well typed, and exactly the requests between getLimiter
\* and Allow hold a bucket.
THEOREM TypeCorrect == Spec => []TypeOK
<1>1. SignInv => TypeOK
  BY DEF SignInv
<1> QED
  BY <1>1, SignHolds, PTL

\* At most one callback gets through with a state, within StateLife of the moment the
\* state was drawn, and not after a restart.
THEOREM OneSignInPerStateCorrect == Spec => OneSignInPerState
<1>1. ASSUME SignInv, [Next]_vars, passed' # passed
      PROVE  \A s \in States :
                passed'[s] # passed[s] =>
                    passed[s] = 0 /\ age[s] \in 0 .. StateLife /\ drawnIn[s] = restarts
  <2>1. PICK r \in Requests : CheckState(r)
    <3>1. ~UNCHANGED vars
      BY <1>1 DEF vars, signVars
    <3>2. \A r \in Requests : Handle(r) => CheckState(r)
      BY <1>1 DEF Handle, GetGitHubAuthURL, Serve, ExchangeCode, LookupUser, CreateUser,
                  GenerateToken, signVars
    <3>3. \A r \in Requests : ~Allow(r) /\ \A c \in Clients : ~GetLimiter(r, c)
      BY <1>1 DEF Allow, GetLimiter, signVars
    <3>4. ~Cleanup /\ ~Tick /\ ~Restart
      BY <1>1 DEF Cleanup, Tick, Restart, signVars
    <3> QED
      BY <1>1, <3>1, <3>2, <3>3, <3>4, Zenon DEF Next
  <2>2. PICK d \in States :
            /\ oauth[d] # NoAge /\ ~Expired(d)
            /\ passed' = [passed EXCEPT ![d] = passed[d] + 1]
    BY <1>1, <2>1 DEF CheckState
  <2>3. StateOK(d) /\ oauth \in [States -> Ages(StateLife)] /\ passed \in [States -> Nat]
    BY <1>1 DEF SignInv, TypeOK
  <2>4. age[d] = oauth[d] /\ age[d] \in 0 .. StateLife /\ drawnIn[d] = restarts /\ passed[d] = 0
    BY <2>2, <2>3, DoorAssumption DEF StateOK, Expired, Ages
  <2>5. \A s \in States : passed'[s] # passed[s] => s = d
    BY <2>2, <2>3
  <2> QED
    BY <2>4, <2>5
<1>2. SignInv /\ [Next]_vars =>
        [\A s \in States :
            passed'[s] # passed[s] =>
                passed[s] = 0 /\ age[s] \in 0 .. StateLife /\ drawnIn[s] = restarts]_passed
  BY <1>1
<1> QED
  BY <1>2, SignHolds, PTL DEF Spec, OneSignInPerState

\* A token in force belongs to an account with a row.
THEOREM TokensAreHonouredCorrect == Spec => []TokensAreHonoured
<1>1. SignInv => TokensAreHonoured
  BY DEF SignInv, InForce, TokensAreHonoured
<1> QED
  BY <1>1, SignHolds, PTL

-----------------------------------------------------------------------------
(* The limiter implements TokenBucket.                                     *)

Least(n) == IF n < Burst THEN n ELSE Burst

\* A client's bucket is its own, and holds at least what came back since a request of
\* this client can last have taken from it.
ClientOK(c) ==
    limits[c] # NoBucket =>
        /\ \A d \in Clients \ {c} : limits[d] # limits[c]
        /\ seen[c] > Pause => tokens[limits[c]] >= Least(Rate * (seen[c] - Pause))

\* A bucket that a request is about to use is its client's in the map, and the client
\* was seen since.
HoldOK(r) ==
    holds[r] # NoBucket => limits[from[r]] = holds[r] /\ seen[from[r]] <= waited[r]

LimitInv ==
    /\ TypeOK
    /\ \A c \in Clients : ClientOK(c)
    /\ \A r \in Requests : HoldOK(r)

LEMMA LimitInit == Init => LimitInv
<1> SUFFICES ASSUME Init PROVE LimitInv
  OBVIOUS
<1>1. TypeOK
  BY TypeInit
<1> QED
  BY <1>1 DEF Init, Fresh, LimitInv, ClientOK, HoldOK

\* An entry that is stale is not in use, and its bucket is full.
LEMMA StaleIsFull ==
    ASSUME LimitInv, NEW c \in Clients, Stale(c), limits[c] # NoBucket
    PROVE  tokens[limits[c]] = Burst /\ \A r \in Requests : holds[r] # limits[c]
<1>1. /\ seen[c] = Idle + 1 /\ tokens[limits[c]] \in 0 .. Burst
      /\ Idle \in Nat /\ Pause \in Nat /\ Pause <= Idle /\ Burst \in Nat
  BY DoorAssumption DEF LimitInv, TypeOK, Stale
<1>2. tokens[limits[c]] >= Least(Rate * (Idle + 1 - Pause))
  <2>1. seen[c] > Pause
    BY <1>1
  <2>2. ClientOK(c)
    BY DEF LimitInv
  <2>3. tokens[limits[c]] >= Least(Rate * (seen[c] - Pause))
    BY <2>1, <2>2 DEF ClientOK
  <2> QED
    BY <1>1, <2>3
<1>3. Burst <= Rate * (Idle + 1 - Pause)
  BY DoorAssumption
<1>4. Rate * (Idle + 1 - Pause) \in Nat
  <2>1. Idle + 1 - Pause \in Nat /\ Rate \in Nat
    BY <1>1, DoorAssumption
  <2> QED
    BY <2>1
<1>5. Least(Rate * (Idle + 1 - Pause)) = Burst
  <2> DEFINE n == Rate * (Idle + 1 - Pause)
  <2>1. n \in Nat /\ Burst <= n
    BY <1>3, <1>4
  <2> HIDE DEF n
  <2>2. Least(n) = Burst
    BY <1>1, <2>1 DEF Least
  <2> QED
    BY <2>2 DEF n
<1>6. ASSUME NEW r \in Requests, holds[r] = limits[c] PROVE FALSE
  <2>1. PICK d \in Clients : limits[d] = holds[r] /\ seen[d] <= waited[r]
    BY <1>6 DEF LimitInv, HoldOK, TypeOK
  <2>2. d = c
    BY <1>6, <2>1 DEF LimitInv, ClientOK
  <2>3. waited[r] \in Nat /\ waited[r] <= Pause
    BY <1>1 DEF LimitInv, TypeOK
  <2> QED
    BY <1>1, <2>1, <2>2, <2>3
<1> QED
  BY <1>1, <1>2, <1>5, <1>6

LEMMA GetLimiterLimits ==
    ASSUME LimitInv, NEW r \in Requests, NEW c \in Clients, GetLimiter(r, c)
    PROVE  LimitInv' /\ Left' = Left
<1>1. TypeOK /\ TypeOK'
  BY GetLimiterType DEF LimitInv
<1>2. /\ waited' = [waited EXCEPT ![r] = 0] /\ seen' = [seen EXCEPT ![c] = 0]
      /\ from' = [from EXCEPT ![r] = c]
  BY DEF GetLimiter, Touch
<1>3. PICK b \in Buckets :
          /\ limits' = [limits EXCEPT ![c] = b] /\ holds' = [holds EXCEPT ![r] = b]
          /\ \/ limits[c] = b /\ tokens' = tokens
             \/ limits[c] = NoBucket /\ b \in Free /\ tokens' = [tokens EXCEPT ![b] = Burst]
  <2>1. CASE limits[c] # NoBucket
    <3>1. limits[c] \in Buckets
      BY <1>1, <2>1 DEF TypeOK
    <3>2. holds' = [holds EXCEPT ![r] = limits[c]] /\ limits' = limits /\ tokens' = tokens
      BY <2>1 DEF GetLimiter
    <3>3. limits = [limits EXCEPT ![c] = limits[c]]
      BY <1>1 DEF TypeOK
    <3> QED
      BY <3>1, <3>2, <3>3
  <2>2. CASE limits[c] = NoBucket
    <3>1. PICK b \in Free : /\ limits' = [limits EXCEPT ![c] = b]
                            /\ tokens' = [tokens EXCEPT ![b] = Burst]
                            /\ holds' = [holds EXCEPT ![r] = b]
      BY <2>2 DEF GetLimiter
    <3> QED
      BY <2>2, <3>1 DEF Free
  <2> QED
    BY <2>1, <2>2
<1>4. \A d \in Clients \ {c} : limits'[d] = limits[d] /\ limits[d] # b /\ seen'[d] = seen[d]
  <2>1. \A d \in Clients \ {c} : limits'[d] = limits[d] /\ seen'[d] = seen[d]
    BY <1>1, <1>2, <1>3 DEF TypeOK
  <2>2. ASSUME NEW d \in Clients \ {c} PROVE limits[d] # b
    <3>1. CASE limits[c] = b
      <4>1. b # NoBucket /\ ClientOK(c)
        BY DoorAssumption DEF LimitInv
      <4> QED
        BY <3>1, <4>1 DEF ClientOK
    <3>2. CASE b \in Free
      BY <3>2 DEF Free
    <3> QED
      BY <1>3, <3>1, <3>2
  <2> QED
    BY <2>1, <2>2
<1>5. limits'[c] = b /\ seen'[c] = 0 /\ b # NoBucket
  BY <1>1, <1>2, <1>3, DoorAssumption DEF TypeOK
<1>6. \A a \in Buckets \ {b} : tokens'[a] = tokens[a]
  BY <1>1, <1>3 DEF TypeOK
<1>7. ASSUME NEW d \in Clients PROVE ClientOK(d)'
  <2>1. CASE d = c
    <3>1. ~(seen'[c] > Pause)
      BY <1>5, DoorAssumption
    <3> QED
      BY <1>4, <1>5, <2>1, <3>1 DEF ClientOK
  <2>2. CASE d # c
    <3>1. ClientOK(d)
      BY DEF LimitInv
    <3>2. limits[d] # NoBucket => limits[d] \in Buckets \ {b}
      BY <1>1, <1>4, <2>2 DEF TypeOK
    <3>3. limits'[d] = limits[d] /\ seen'[d] = seen[d]
      BY <1>4, <2>2
    <3>4. limits[d] # NoBucket => tokens'[limits[d]] = tokens[limits[d]]
      BY <1>6, <3>2
    <3>5. limits[d] # NoBucket => \A e \in Clients \ {d} : limits'[e] # limits[d]
      BY <1>4, <1>5, <2>2, <3>1 DEF ClientOK
    <3> QED
      BY <3>1, <3>3, <3>4, <3>5 DEF ClientOK
  <2> QED
    BY <2>1, <2>2
<1>8. ASSUME NEW q \in Requests PROVE HoldOK(q)'
  <2>1. CASE q = r
    <3>1. holds'[r] = b /\ waited'[r] = 0 /\ from'[r] = c
      BY <1>1, <1>2, <1>3 DEF TypeOK
    <3> QED
      BY <1>5, <2>1, <3>1 DEF HoldOK
  <2>2. ASSUME q # r, holds'[q] # NoBucket PROVE HoldOK(q)'
    <3>1. /\ holds'[q] = holds[q] /\ waited'[q] = waited[q] /\ waited[q] \in Nat
          /\ from'[q] = from[q]
      BY <1>1, <1>2, <1>3, <2>2, DoorAssumption DEF TypeOK
    <3>2. PICK d \in Clients : /\ d = from[q] /\ limits[d] = holds[q]
                               /\ seen[d] <= waited[q]
      BY <1>1, <2>2, <3>1 DEF LimitInv, HoldOK, TypeOK
    <3>3. CASE d # c
      BY <1>4, <3>1, <3>2, <3>3 DEF HoldOK
    <3>4. CASE d = c
      <4>1. limits'[c] = holds[q]
        BY <1>3, <1>5, <2>2, <3>1, <3>2, <3>4
      <4> QED
        BY <1>5, <3>1, <3>2, <3>4, <4>1 DEF HoldOK
    <3> QED
      BY <3>3, <3>4
  <2> QED
    BY <2>1, <2>2 DEF HoldOK
<1>9. \A d \in Clients : Left'[d] = Left[d]
  <2>1. \A d \in Clients \ {c} : limits[d] # NoBucket => tokens'[limits[d]] = tokens[limits[d]]
    BY <1>1, <1>4, <1>6 DEF TypeOK
  <2>2. tokens'[b] = IF limits[c] = NoBucket THEN Burst ELSE tokens[b]
    BY <1>1, <1>3, <1>5 DEF TypeOK
  <2> QED
    BY <1>3, <1>4, <1>5, <2>1, <2>2 DEF Left
<1> QED
  BY <1>1, <1>7, <1>8, <1>9 DEF LimitInv, Left

LEMMA AllowLimits ==
    ASSUME LimitInv, NEW r \in Requests, Allow(r)
    PROVE  /\ LimitInv'
           /\ (Left' = Left /\ served' = served) \/ \E c \in Clients : Promise!Admit(c)
<1> DEFINE c == from[r]
<1>1. /\ TypeOK /\ TypeOK' /\ holds[r] \in Buckets /\ holds[r] # NoBucket
      /\ c \in Clients
  BY AllowType, DoorAssumption DEF LimitInv
<1>2. limits[c] = holds[r] /\ seen[c] <= waited[r]
  BY <1>1 DEF LimitInv, HoldOK
<1>3. /\ \/ tokens' = tokens /\ served' = served
         \/ /\ tokens[limits[c]] > 0
            /\ tokens' = [tokens EXCEPT ![limits[c]] = tokens[limits[c]] - 1]
            /\ served' = [served EXCEPT ![c] = served[c] + 1]
      /\ UNCHANGED <<limits, seen, restarts>>
      /\ holds' = [holds EXCEPT ![r] = NoBucket] /\ waited' = [waited EXCEPT ![r] = 0]
      /\ from' = [from EXCEPT ![r] = NoClient]
  BY <1>2 DEF Allow, Count, LetGo
<1> HIDE DEF c
<1>4. ~(seen[c] > Pause)
  <2>1. waited[r] \in Nat /\ waited[r] <= Pause /\ seen[c] \in Nat /\ Pause \in Nat
    BY <1>1, DoorAssumption DEF TypeOK
  <2> QED
    BY <1>2, <2>1
<1>5. \A d \in Clients \ {c} : limits[d] # NoBucket => tokens'[limits[d]] = tokens[limits[d]]
  BY <1>1, <1>2, <1>3 DEF LimitInv, ClientOK, TypeOK
<1>6. ASSUME NEW d \in Clients PROVE ClientOK(d)'
  <2>1. ClientOK(d)
    BY DEF LimitInv
  <2>2. CASE d = c
    BY <1>3, <1>4, <2>1, <2>2 DEF ClientOK
  <2>3. CASE d # c
    BY <1>3, <1>5, <2>1, <2>3 DEF ClientOK
  <2> QED
    BY <2>2, <2>3
<1>7. ASSUME NEW q \in Requests PROVE HoldOK(q)'
  <2>1. CASE q = r
    BY <1>1, <1>3, <2>1 DEF HoldOK, TypeOK
  <2>2. CASE q # r
    <3>1. holds'[q] = holds[q] /\ waited'[q] = waited[q] /\ from'[q] = from[q]
      BY <1>1, <1>3, <2>2 DEF TypeOK
    <3> QED
      BY <1>3, <3>1 DEF LimitInv, HoldOK
  <2> QED
    BY <2>1, <2>2
<1>8. (Left' = Left /\ served' = served) \/ Promise!Admit(c)
  <2>1. CASE tokens' = tokens /\ served' = served
    BY <1>3, <2>1 DEF Left
  <2>2. CASE /\ tokens[limits[c]] > 0
             /\ tokens' = [tokens EXCEPT ![limits[c]] = tokens[limits[c]] - 1]
             /\ served' = [served EXCEPT ![c] = served[c] + 1]
    <3>1. Left[c] = tokens[limits[c]]
      BY <1>1, <1>2 DEF Left
    <3>2. Left'[c] = tokens[limits[c]] - 1
      BY <1>1, <1>2, <1>3, <2>2 DEF Left, TypeOK
    <3>3. \A d \in Clients \ {c} : Left'[d] = Left[d]
      BY <1>3, <1>5 DEF Left
    <3>4. Left' = [Left EXCEPT ![c] = Left[c] - 1]
      BY <3>1, <3>2, <3>3 DEF Left
    <3> QED
      BY <1>3, <2>2, <3>1, <3>4 DEF Promise!Admit
  <2> QED
    BY <1>3, <2>1, <2>2
<1> QED
  BY <1>1, <1>6, <1>7, <1>8 DEF LimitInv

LEMMA CleanupLimits ==
    ASSUME LimitInv, Cleanup
    PROVE  LimitInv' /\ Left' = Left
<1>1. TypeOK /\ TypeOK'
  BY CleanupType DEF LimitInv
<1>2. /\ limits' = [c \in Clients |-> IF Stale(c) THEN NoBucket ELSE limits[c]]
      /\ UNCHANGED <<seen, tokens, from, holds, waited>>
  BY DEF Cleanup, waitVars
<1>3. ASSUME NEW c \in Clients PROVE ClientOK(c)'
  <2>1. ClientOK(c)
    BY DEF LimitInv
  <2> QED
    BY <1>2, <2>1 DEF ClientOK
<1>4. ASSUME NEW r \in Requests, holds[r] # NoBucket PROVE HoldOK(r)'
  <2>1. PICK c \in Clients : c = from[r] /\ limits[c] = holds[r] /\ seen[c] <= waited[r]
    BY <1>1, <1>4 DEF LimitInv, HoldOK, TypeOK
  <2>2. limits'[c] = limits[c]
    BY <1>2, <1>4, <2>1, StaleIsFull
  <2> QED
    BY <1>2, <2>1, <2>2 DEF HoldOK
<1>5. \A c \in Clients : Left'[c] = Left[c]
  BY <1>2, StaleIsFull DEF Left
<1> QED
  BY <1>1, <1>2, <1>3, <1>4, <1>5 DEF LimitInv, HoldOK, Left

LEMMA TickLimits ==
    ASSUME LimitInv, Tick
    PROVE  LimitInv' /\ Promise!Refill
<1>1. TypeOK /\ TypeOK'
  BY TickType DEF LimitInv
<1>2. /\ seen' = [c \in Clients |-> Older(seen[c], Idle)]
      /\ tokens' = [b \in Buckets |-> Refilled(b)]
      /\ waited' = [r \in Requests |-> IF pc[r] = "limited" THEN waited[r] + 1 ELSE 0]
      /\ served' = [c \in Clients |-> 0]
      /\ UNCHANGED <<limits, from, holds, restarts>>
  BY DEF Tick
<1>3. ASSUME NEW c \in Clients, limits[c] # NoBucket PROVE ClientOK(c)'
  <2> DEFINE b == limits[c]
             s == seen[c]
             n == Rate * (s - Pause)
  <2>1. /\ b \in Buckets /\ s \in 0 .. Idle + 1 /\ tokens[b] \in 0 .. Burst
        /\ Idle \in Nat /\ Pause \in Nat /\ Rate \in Nat /\ Burst \in Nat
    BY <1>1, <1>3, DoorAssumption DEF TypeOK
  <2>2. /\ tokens'[b] = Refilled(b) /\ tokens'[b] \in Nat /\ tokens[b] \in Nat
        /\ tokens'[b] >= tokens[b]
        /\ tokens'[b] = Burst \/ tokens'[b] = tokens[b] + Rate
    BY <1>1, <1>2, <2>1, RefilledType
  <2>3. seen'[c] = s \/ seen'[c] = s + 1
    <3>1. seen'[c] = Older(s, Idle)
      BY <1>2
    <3> QED
      BY <2>1, <3>1 DEF Older
  <2>4. ASSUME seen'[c] > Pause PROVE tokens'[b] >= Least(Rate * (seen'[c] - Pause))
    <3>1. CASE tokens'[b] = Burst
      <4>1. Rate * (seen'[c] - Pause) \in Int
        <5>1. seen'[c] - Pause \in Int
          BY <2>1, <2>3
        <5> QED
          BY <2>1, <5>1
      <4> QED
        BY <2>1, <3>1, <4>1 DEF Least
    <3>2. CASE seen'[c] = s
      <4>1. tokens[b] >= Least(Rate * (s - Pause))
        BY <1>3, <2>4, <3>2 DEF LimitInv, ClientOK
      <4>2. Least(Rate * (s - Pause)) \in Int
        <5>1. s - Pause \in Int
          BY <2>1
        <5> QED
          BY <2>1, <5>1 DEF Least
      <4> QED
        BY <2>2, <3>2, <4>1, <4>2
    <3>3. CASE seen'[c] = s + 1 /\ tokens'[b] = tokens[b] + Rate
      <4> DEFINE k == s - Pause
                 y == seen'[c] - Pause
      <4>1. k \in Nat /\ y = k + 1
        BY <2>1, <2>4, <3>3
      <4>2. Rate * y = n + Rate /\ n \in Nat
        <5>1. \A i, m \in Nat : m * (i + 1) = m * i + m /\ m * i \in Nat
          OBVIOUS
        <5>2. n = Rate * k
          OBVIOUS
        <5> HIDE DEF n, k, y
        <5> QED
          BY <2>1, <4>1, <5>1, <5>2
      <4>3. tokens[b] >= n \/ tokens[b] >= Burst
        <5>1. CASE s = Pause
          <6>1. n = 0
            BY <2>1, <5>1
          <6> QED
            BY <2>2, <6>1
        <5>2. CASE s # Pause
          <6>1. s > Pause
            BY <2>1, <4>1, <5>2
          <6>2. tokens[b] >= Least(n)
            BY <1>3, <6>1 DEF LimitInv, ClientOK
          <6> QED
            BY <6>2 DEF Least
        <5> QED
          BY <5>1, <5>2
      <4>4. tokens'[b] >= n + Rate \/ tokens'[b] >= Burst
        <5> DEFINE t == tokens[b]
                   u == tokens'[b]
        <5>1. t \in Nat /\ Burst \in Nat /\ Rate \in Nat /\ n \in Nat /\ u = t + Rate
          BY <2>1, <2>2, <3>3, <4>2
        <5>2. t >= n \/ t >= Burst
          BY <4>3
        <5> HIDE DEF t, u, n
        <5>3. u >= n + Rate \/ u >= Burst
          BY <5>1, <5>2
        <5> QED
          BY <5>3 DEF t, u
      <4>5. tokens'[b] >= Least(n + Rate)
        <5> DEFINE u == tokens'[b]
        <5>1. u \in Nat /\ Burst \in Nat /\ n + Rate \in Nat
          BY <2>1, <2>2, <4>2
        <5>2. u >= n + Rate \/ u >= Burst
          BY <4>4
        <5> HIDE DEF u, n
        <5>3. u >= Least(n + Rate)
          BY <5>1, <5>2 DEF Least
        <5> QED
          BY <5>3 DEF u
      <4> HIDE DEF n, k
      <4> QED
        BY <4>2, <4>5
    <3> QED
      BY <2>2, <2>3, <3>1, <3>2, <3>3
  <2> QED
    BY <1>2, <1>3, <2>4 DEF LimitInv, ClientOK
<1>4. ASSUME NEW r \in Requests, holds[r] # NoBucket PROVE HoldOK(r)'
  <2>1. PICK c \in Clients : c = from[r] /\ limits[c] = holds[r] /\ seen[c] <= waited[r]
    BY <1>1, <1>4 DEF LimitInv, HoldOK, TypeOK
  <2>2. waited'[r] = waited[r] + 1
    BY <1>1, <1>2, <1>4 DEF TypeOK
  <2>3. seen'[c] <= seen[c] + 1 /\ seen[c] \in Nat /\ waited[r] \in Nat /\ seen'[c] \in Nat
    <3>1. seen[c] \in 0 .. Idle + 1 /\ seen'[c] \in 0 .. Idle + 1 /\ waited[r] \in 0 .. Pause
      BY <1>1 DEF TypeOK
    <3>2. seen'[c] = seen[c] \/ seen'[c] = seen[c] + 1
      BY <1>2, <3>1, DoorAssumption DEF Older
    <3> QED
      BY <3>1, <3>2, DoorAssumption
  <2>4. seen'[c] <= waited'[r]
    BY <2>1, <2>2, <2>3
  <2> QED
    BY <1>2, <2>1, <2>4 DEF HoldOK
<1>5. Left' = [c \in Clients |-> Promise!Refilled(Left[c])]
  <2>1. ASSUME NEW c \in Clients PROVE Left'[c] = Promise!Refilled(Left[c])
    <3>1. CASE limits[c] = NoBucket
      <4>1. Left'[c] = Burst /\ Left[c] = Burst
        BY <1>2, <3>1 DEF Left
      <4>2. Burst + Rate > Burst
        BY DoorAssumption
      <4> QED
        BY <4>1, <4>2 DEF Promise!Refilled
    <3>2. CASE limits[c] # NoBucket
      <4>1. limits[c] \in Buckets
        BY <1>1, <3>2 DEF TypeOK
      <4>2. Left'[c] = Refilled(limits[c]) /\ Left[c] = tokens[limits[c]]
        BY <1>2, <3>2, <4>1 DEF Left
      <4> QED
        BY <4>2 DEF Refilled, Promise!Refilled
    <3> QED
      BY <3>1, <3>2
  <2> QED
    BY <2>1 DEF Left
<1>6. \A c \in Clients : limits[c] = NoBucket => ClientOK(c)'
  BY <1>2 DEF ClientOK
<1>7. \A r \in Requests : holds[r] = NoBucket => HoldOK(r)'
  BY <1>2 DEF HoldOK
<1> QED
  BY <1>1, <1>2, <1>3, <1>4, <1>5, <1>6, <1>7 DEF LimitInv, Promise!Refill, Promise!None

LEMMA LimitStep ==
    ASSUME LimitInv, [Next]_vars, SignInv
    PROVE  LimitInv' /\ [Promise!Next]_<<Left, served, restarts>>
<1> DEFINE Goal == LimitInv' /\ [Promise!Next]_<<Left, served, restarts>>
<1> SUFFICES Goal
  OBVIOUS
<1>1. TypeOK
  BY DEF LimitInv
<1>2. TypeOK' /\ UNCHANGED <<limitVars, waitVars>> => LimitInv' /\ Left' = Left /\ served' = served
  BY DEF limitVars, waitVars, LimitInv, ClientOK, HoldOK, Left
<1>3. CASE UNCHANGED vars
  <2>1. TypeOK'
    BY <1>1, <1>3 DEF vars, limitVars, waitVars, signVars, TypeOK
  <2> QED
    BY <1>2, <1>3, <2>1 DEF vars
<1>4. ASSUME NEW r \in Requests, NEW c \in Clients, GetLimiter(r, c) PROVE Goal
  BY <1>4, GetLimiterLimits DEF GetLimiter
<1>5. ASSUME NEW r \in Requests, Allow(r) PROVE Goal
  <2>1. restarts' = restarts
    BY <1>5 DEF Allow
  <2> QED
    BY <1>5, <2>1, AllowLimits DEF Promise!Next
<1>6. ASSUME NEW r \in Requests, Handle(r) PROVE Goal
  <2>1. TypeOK'
    BY <1>1, <1>6, HandleType DEF SignInv, RequestOK
  <2> QED
    BY <1>1, <1>2, <1>6, <2>1, HandleFrame
<1>7. CASE Cleanup
  BY <1>7, CleanupLimits DEF Cleanup
<1>8. CASE Tick
  BY <1>8, TickLimits DEF Promise!Next
<1>9. CASE Restart
  <2>1. TypeOK'
    BY <1>1, <1>9, RestartType
  <2>2. limits' = Fresh /\ holds' = [r \in Requests |-> NoBucket] /\ restarts' = restarts + 1
    BY <1>9 DEF Restart
  <2>3. Left' = [c \in Clients |-> Burst] /\ served' = Promise!None
    BY <1>9, <2>2 DEF Left, Fresh, Restart, Promise!None
  <2>4. LimitInv'
    BY <2>1, <2>2 DEF LimitInv, ClientOK, HoldOK, Fresh
  <2> QED
    BY <2>2, <2>3, <2>4 DEF Promise!Next, Promise!Reset
<1> HIDE DEF Goal
<1>10. CASE Next
  BY <1>4, <1>5, <1>6, <1>7, <1>8, <1>9, <1>10, Zenon DEF Next
<1> QED
  BY <1>3, <1>10

\* Every request that is let through has taken a token its client would have had in a
\* bucket of its own for good, although buckets are forgotten and made again.
THEOREM KeepsLimitCorrect == Spec => KeepsLimit
<1>1. Init => LimitInv
  BY LimitInit
<1>2. Init => Promise!Init
  BY DEF Init, Fresh, Left, Promise!Init, Promise!None
<1>3. LimitInv /\ SignInv /\ [Next]_vars => LimitInv'
  BY LimitStep
<1>4. LimitInv /\ SignInv /\ [Next]_vars => [Promise!Next]_<<Left, served, restarts>>
  BY LimitStep
<1> QED
  BY <1>1, <1>2, <1>3, <1>4, SignHolds, PTL DEF Spec, KeepsLimit, Promise!Spec
=============================================================================
