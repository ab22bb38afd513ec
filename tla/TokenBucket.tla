----------------------------- MODULE TokenBucket ----------------------------
(***************************************************************************)
(* What a limit of Rate requests per tick with bursts of Burst promises:   *)
(* each client has a bucket of tokens for as long as the service runs, and *)
(* every request that is served has taken one of its client's tokens.      *)
(***************************************************************************)
EXTENDS Integers

CONSTANTS Clients, Burst, Rate

VARIABLES
    level,   \* client -> tokens left
    served,  \* client -> its requests that were served since the last refill
    epoch    \* how often the service was started

None == [c \in Clients |-> 0]

Refilled(tokens) == IF tokens + Rate > Burst THEN Burst ELSE tokens + Rate

Init == level = [c \in Clients |-> Burst] /\ served = None /\ epoch = 0

Admit(c) ==
    /\ level[c] > 0 /\ level' = [level EXCEPT ![c] = level[c] - 1]
    /\ served' = [served EXCEPT ![c] = served[c] + 1]
    /\ UNCHANGED epoch

Refill ==
    /\ level' = [c \in Clients |-> Refilled(level[c])] /\ served' = None
    /\ UNCHANGED epoch

Reset ==
    /\ level' = [c \in Clients |-> Burst] /\ served' = None
    /\ epoch' = epoch + 1

Next == (\E c \in Clients : Admit(c)) \/ Refill \/ Reset

Spec == Init /\ [][Next]_<<level, served, epoch>>
=============================================================================
