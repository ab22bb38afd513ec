---------------------------- MODULE MCRepoBounty ----------------------------
(* Instances of RepoBounty.  The real limits are 0.5 and 0.05 SOL; the     *)
(* instances keep a campaign minimum of two allocation minimums, so that a *)
(* reward has several splits and a batch can leave too little for another. *)
EXTENDS RepoBounty, TLC

CONSTANT sponsor

OneSponsor == [c \in Campaigns |-> sponsor]

Balances == [w \in Wallets |-> IF w = sponsor THEN 7 ELSE 0]
TwoBalances == [w \in Wallets |-> IF w = sponsor THEN 10 ELSE 0]

\* No constant names a user or a key; both are only compared for equality.
UserSymmetry == Permutations(Users)
UserKeySymmetry == Permutations(Users) \cup Permutations(Keys)
=============================================================================
