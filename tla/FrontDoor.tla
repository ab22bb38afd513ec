------------------------------ MODULE FrontDoor -----------------------------
(***************************************************************************)
(* What every request passes first: the rate limiter, whose buckets are    *)
(* made on demand and forgotten by a cleanup goroutine, then the sign-in   *)
(* with GitHub, a map of one-time OAuth states and the table of users, and *)
(* the middleware that honours the tokens.                                 *)
(*                                                                         *)
(* One action per critical section, store call or call to GitHub.  Times   *)
(* are ages in ticks, so nothing but restarts is bounded.  A lazily filled *)
(* bucket (x/time/rate) holds what one that is filled at every tick would. *)
(* An account keeps its login; a token cannot be forged.                   *)
(***************************************************************************)
EXTENDS Integers

CONSTANTS
    Requests,    \* goroutines that serve requests
    Clients,     \* addresses they come from
    NoClient,
    Buckets,     \* limiters, enough of them
    NoBucket,
    Burst,       \* tokens of a full bucket
    Rate,        \* tokens per tick
    Idle,        \* a client is forgotten when it was not seen for longer
    Pause,       \* a request waits no longer between getLimiter and Allow
    States,      \* OAuth states; each is drawn at most once
    StateLife,
    Accounts,    \* of GitHub
    NoAccount,
    NoAge,
    TokenLife,
    MaxRestarts  \* bound: restarts of the service

ASSUME DoorAssumption ==
    /\ NoClient \notin Clients /\ NoBucket \notin Buckets
    /\ NoAccount \notin Accounts /\ NoAge \notin Nat
    /\ Burst \in Nat \ {0} /\ Rate \in Nat \ {0}
    /\ Idle \in Nat /\ Pause \in 0 .. Idle
    /\ Burst <= Rate * (Idle + 1 - Pause)
    /\ StateLife \in Nat /\ TokenLife \in Nat /\ MaxRestarts \in Nat

VARIABLES
    limits,    \* client -> its bucket in the map
    seen,      \* client -> ticks since its entry's lastSeen
    tokens,    \* bucket -> tokens left
    served,    \* history: client -> its requests let through since the last tick
    pc,        \* where each request is
    from,      \* the client it comes from, while it is in the limiter
    holds,     \* the bucket getLimiter gave it
    waited,    \* ticks since
    oauth,     \* state -> its age, NoAge if it is not in the map
    age,       \* history: state -> ticks since it was drawn, whatever became of it
    drawnIn,   \* history: restarts of the service by then
    passed,    \* history: how many callbacks each state let through
    account,   \* the account a callback signs in
    users,     \* accounts with a row
    session,   \* account -> age of its latest token
    restarts

limitVars == <<limits, seen, tokens, served>>
waitVars == <<from, holds, waited>>
signVars == <<oauth, age, drawnIn, passed, account, users, session>>
vars == <<limitVars, waitVars, signVars, pc, restarts>>

\* rate.Limiter: what is left plus Rate, up to Burst.
Refilled(b) == IF tokens[b] + Rate > Burst THEN Burst ELSE tokens[b] + Rate

Older(ticks, limit) == IF ticks > limit THEN ticks ELSE ticks + 1

Fresh == [c \in Clients |-> NoBucket]

Init ==
    /\ limits = Fresh /\ seen = [c \in Clients |-> 0]
    /\ tokens = [b \in Buckets |-> Burst] /\ served = [c \in Clients |-> 0]
    /\ pc = [r \in Requests |-> "idle"] /\ from = [r \in Requests |-> NoClient]
    /\ holds = [r \in Requests |-> NoBucket] /\ waited = [r \in Requests |-> 0]
    /\ oauth = [s \in States |-> NoAge] /\ age = [s \in States |-> NoAge]
    /\ drawnIn = [s \in States |-> 0] /\ passed = [s \in States |-> 0]
    /\ account = [r \in Requests |-> NoAccount]
    /\ users = {} /\ session = [a \in Accounts |-> NoAge]
    /\ restarts = 0

Goto(r, label) == pc' = [pc EXCEPT ![r] = label]

Respond(r) == Goto(r, "idle") /\ account' = [account EXCEPT ![r] = NoAccount]

-----------------------------------------------------------------------------
(* The rate limiter.                                                       *)

Free == {b \in Buckets : (\A c \in Clients : limits[c] # b) /\ (\A r \in Requests : holds[r] # b)}

\* Mutant: a bucket keeps the time of its first use.
TouchNew(c) == seen' = IF limits[c] = NoBucket THEN [seen EXCEPT ![c] = 0] ELSE seen

Touch(c) == seen' = [seen EXCEPT ![c] = 0]

GetLimiter(r, c) ==
    /\ pc[r] = "idle" /\ Goto(r, "limited")
    /\ from' = [from EXCEPT ![r] = c] /\ waited' = [waited EXCEPT ![r] = 0]
    /\ Touch(c)
    /\ IF limits[c] # NoBucket
       THEN holds' = [holds EXCEPT ![r] = limits[c]] /\ UNCHANGED <<limits, tokens>>
       ELSE /\ Free # {}
            /\ LET b == CHOOSE b \in Free : TRUE IN
               /\ limits' = [limits EXCEPT ![c] = b]
               /\ tokens' = [tokens EXCEPT ![b] = Burst]
               /\ holds' = [holds EXCEPT ![r] = b]
    /\ UNCHANGED <<served, signVars, restarts>>

\* The request has its answer from the limiter.
LetGo(r) ==
    /\ from' = [from EXCEPT ![r] = NoClient] /\ holds' = [holds EXCEPT ![r] = NoBucket]
    /\ waited' = [waited EXCEPT ![r] = 0]

Count(r) == served' = [served EXCEPT ![from[r]] = served[from[r]] + 1]

\* Mutant: Reserve is called, which lets an empty bucket go into debt.
AllowReserving(r) ==
    /\ pc[r] = "limited" /\ Goto(r, "serve")
    /\ tokens' = [tokens EXCEPT ![holds[r]] = tokens[holds[r]] - 1]
    /\ Count(r) /\ LetGo(r)
    /\ UNCHANGED <<limits, seen, signVars, restarts>>

\* Without a token the answer is 429.
Allow(r) ==
    /\ pc[r] = "limited"
    /\ IF tokens[holds[r]] > 0
       THEN /\ tokens' = [tokens EXCEPT ![holds[r]] = tokens[holds[r]] - 1]
            /\ Count(r) /\ Goto(r, "serve")
       ELSE UNCHANGED <<tokens, served>> /\ Goto(r, "idle")
    /\ LetGo(r)
    /\ UNCHANGED <<limits, seen, signVars, restarts>>

\* Mutant: the entries used last are the ones dropped.
Recent(c) == seen[c] <= Idle

Stale(c) == seen[c] > Idle

\* Its ticker runs at any pace.
Cleanup ==
    /\ \E c \in Clients : limits[c] # NoBucket /\ Stale(c)
    /\ limits' = [c \in Clients |-> IF Stale(c) THEN NoBucket ELSE limits[c]]
    /\ UNCHANGED <<seen, tokens, served, waitVars, signVars, pc, restarts>>

-----------------------------------------------------------------------------
(* Signing in.                                                             *)

Expired(s) == oauth[s] > StateLife

GetGitHubAuthURL(r) ==
    /\ pc[r] = "serve"
    /\ \E s \in States :
          /\ age[s] = NoAge /\ age' = [age EXCEPT ![s] = 0]
          /\ drawnIn' = [drawnIn EXCEPT ![s] = restarts]
          /\ oauth' = [x \in States |->
                          IF x = s THEN 0
                          ELSE IF oauth[x] # NoAge /\ Expired(x) THEN NoAge ELSE oauth[x]]
    /\ Respond(r)
    /\ UNCHANGED <<limitVars, waitVars, passed, users, session, restarts>>

\* Mutant: the state stays in the map until it expires.
TakeKeeps(s) == oauth' = oauth

Take(s) == oauth' = [oauth EXCEPT ![s] = NoAge]

\* GitHubCallback, with any state the browser may send.
CheckState(r) ==
    /\ pc[r] = "serve"
    /\ \E s \in States :
          IF oauth[s] = NoAge
          THEN Respond(r) /\ UNCHANGED <<oauth, passed>>
          ELSE /\ Take(s)
               /\ IF Expired(s)
                  THEN Respond(r) /\ UNCHANGED passed
                  ELSE /\ Goto(r, "exchange") /\ UNCHANGED account
                       /\ passed' = [passed EXCEPT ![s] = passed[s] + 1]
    /\ UNCHANGED <<limitVars, waitVars, age, drawnIn, users, session, restarts>>

ExchangeCode(r) ==
    /\ pc[r] = "exchange"
    /\ \/ \E a \in Accounts : account' = [account EXCEPT ![r] = a] /\ Goto(r, "lookup")
       \/ Respond(r)
    /\ UNCHANGED <<limitVars, waitVars, oauth, age, drawnIn, passed, users, session,
                   restarts>>

\* Any error of the store counts as an unknown user.
LookupUser(r) ==
    /\ pc[r] = "lookup"
    /\ \/ account[r] \in users /\ Goto(r, "token")
       \/ Goto(r, "create")
    /\ UNCHANGED <<limitVars, waitVars, signVars, restarts>>

\* Mutant: the error of CreateUser is dropped.
CreateFailsIgnored(r) == Goto(r, "token") /\ UNCHANGED account

CreateFails(r) == Respond(r)

\* The INSERT fails if another callback was faster, or for a reason of its own.
CreateUser(r) ==
    /\ pc[r] = "create"
    /\ \/ /\ account[r] \notin users
          /\ users' = users \cup {account[r]}
          /\ Goto(r, "token") /\ UNCHANGED account
       \/ CreateFails(r) /\ UNCHANGED users
    /\ UNCHANGED <<limitVars, waitVars, oauth, age, drawnIn, passed, session, restarts>>

GenerateToken(r) ==
    /\ pc[r] = "token"
    /\ session' = [session EXCEPT ![account[r]] = 0]
    /\ Respond(r)
    /\ UNCHANGED <<limitVars, waitVars, oauth, age, drawnIn, passed, users, restarts>>

\* ValidateToken accepts the account's latest token.
InForce(a) == session[a] # NoAge /\ session[a] <= TokenLife

\* Any other request is served, or refused by RequireAuth; neither is seen here.
Serve(r) ==
    /\ pc[r] = "serve"
    /\ Respond(r)
    /\ UNCHANGED <<limitVars, waitVars, oauth, age, drawnIn, passed, users, session,
                   restarts>>

-----------------------------------------------------------------------------
(* Time and restarts.                                                      *)

Tick ==
    /\ \A r \in Requests : pc[r] = "limited" => waited[r] < Pause
    /\ seen' = [c \in Clients |-> Older(seen[c], Idle)]
    /\ tokens' = [b \in Buckets |-> Refilled(b)] /\ served' = [c \in Clients |-> 0]
    /\ waited' = [r \in Requests |-> IF pc[r] = "limited" THEN waited[r] + 1 ELSE 0]
    /\ oauth' = [s \in States |->
                    IF oauth[s] = NoAge THEN NoAge ELSE Older(oauth[s], StateLife)]
    /\ age' = [s \in States |->
                  IF age[s] = NoAge THEN NoAge ELSE Older(age[s], StateLife)]
    /\ session' = [a \in Accounts |->
                      IF session[a] = NoAge THEN NoAge ELSE Older(session[a], TokenLife)]
    /\ UNCHANGED <<limits, pc, from, holds, drawnIn, passed, account, users, restarts>>

\* Maps and requests are gone; the users' table and the secret of the tokens stay.
Restart ==
    /\ restarts < MaxRestarts /\ restarts' = restarts + 1
    /\ limits' = Fresh /\ seen' = [c \in Clients |-> 0]
    /\ tokens' = [b \in Buckets |-> Burst] /\ served' = [c \in Clients |-> 0]
    /\ pc' = [r \in Requests |-> "idle"] /\ from' = [r \in Requests |-> NoClient]
    /\ holds' = [r \in Requests |-> NoBucket] /\ waited' = [r \in Requests |-> 0]
    /\ oauth' = [s \in States |-> NoAge]
    /\ account' = [r \in Requests |-> NoAccount]
    /\ UNCHANGED <<age, drawnIn, passed, users, session>>

Handle(r) ==
    \/ GetGitHubAuthURL(r) \/ CheckState(r) \/ Serve(r)
    \/ ExchangeCode(r) \/ LookupUser(r) \/ CreateUser(r) \/ GenerateToken(r)

Next ==
    \/ \E r \in Requests : (\E c \in Clients : GetLimiter(r, c)) \/ Allow(r) \/ Handle(r)
    \/ Cleanup \/ Tick \/ Restart

Spec == Init /\ [][Next]_vars

\* Requests are worked on, the cleanup's ticker runs and time passes.
FairSpec ==
    /\ Spec
    /\ \A r \in Requests : WF_vars(Allow(r)) /\ WF_vars(Handle(r))
    /\ WF_vars(Cleanup) /\ WF_vars(Tick)

-----------------------------------------------------------------------------
(* Properties.                                                             *)

Ages(limit) == 0 .. limit + 1 \cup {NoAge}

TypeOK ==
    /\ limits \in [Clients -> Buckets \cup {NoBucket}]
    /\ seen \in [Clients -> 0 .. Idle + 1]
    /\ tokens \in [Buckets -> 0 .. Burst] /\ served \in [Clients -> Nat]
    /\ pc \in [Requests -> {"idle", "limited", "serve", "exchange", "lookup", "create", "token"}]
    /\ holds \in [Requests -> Buckets \cup {NoBucket}]
    /\ from \in [Requests -> Clients \cup {NoClient}]
    /\ \A r \in Requests : (holds[r] # NoBucket) = (pc[r] = "limited")
    /\ \A r \in Requests : (from[r] # NoClient) = (pc[r] = "limited")
    /\ waited \in [Requests -> 0 .. Pause]
    /\ oauth \in [States -> Ages(StateLife)] /\ age \in [States -> Ages(StateLife)]
    /\ drawnIn \in [States -> 0 .. MaxRestarts]
    /\ passed \in [States -> Nat]
    /\ account \in [Requests -> Accounts \cup {NoAccount}]
    /\ users \subseteq Accounts
    /\ session \in [Accounts -> Ages(TokenLife)]
    /\ restarts \in 0 .. MaxRestarts

\* What is left to a client, in its entry or in the one it would get.
Left == [c \in Clients |-> IF limits[c] = NoBucket THEN Burst ELSE tokens[limits[c]]]

Promise == INSTANCE TokenBucket WITH level <- Left, epoch <- restarts

\* Every request that is let through has taken a token of a bucket its client has for
\* good: one that waits between getLimiter and Allow while its client's bucket is
\* forgotten and made again is not let through by the old one on top, and a bucket
\* that is forgotten had nothing left to refill.
KeepsLimit == Promise!Spec

\* A client that stays away is forgotten in the end: the map does not keep an entry
\* for every address that was ever seen.
IdleClientsForgotten ==
    \A c \in Clients :
        <>[](\A r \in Requests : holds[r] = NoBucket \/ holds[r] # limits[c]) =>
            <>[](limits[c] = NoBucket)

\* However many callbacks race with one state, at most one gets through, no later than
\* StateLife after the state was drawn, and only in the run of the service that drew
\* it.  The state's real age is compared, not what the map says.
OneSignInPerState ==
    [][\A s \in States :
          passed'[s] # passed[s] =>
              passed[s] = 0 /\ age[s] \in 0 .. StateLife /\ drawnIn[s] = restarts]_passed

\* Whoever holds a token that has not expired is found by RequireAuth: a failed or
\* overtaken CreateUser ends without a token, and a restart loses no user.
TokensAreHonoured == \A a \in Accounts : InForce(a) => a \in users
=============================================================================
