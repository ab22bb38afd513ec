---------------------------- MODULE MCClaimFlow ----------------------------
(* Instances of ClaimFlow.                                                 *)
EXTENDS ClaimFlow, TLC

\* No constant names a request, a contributor, a wallet or a challenge.
ClaimSymmetry ==
    Permutations(Handlers) \cup Permutations(Users) \cup Permutations(Wallets)
        \cup Permutations(Challenges)
=============================================================================
