---------------------------- MODULE MCEvaluation ----------------------------
(* Instances of Evaluation.                                                *)
EXTENDS Evaluation, TLC

\* The third pull request's weight overflows; the fourth has no author.
AuthorOfPR == 1 :> 2 @@ 2 :> 1 @@ 3 :> 5 @@ 4 :> 0
WeightOfPR == 1 :> 3 @@ 2 :> 2 @@ 3 :> 110 @@ 4 :> 1

\* Two pull requests, one of them by a stranger.
AuthorOfPR2 == 1 :> 2 @@ 3 :> 5
WeightOfPR2 == 1 :> 3 @@ 3 :> 4

CommitsOfUser2 == 1 :> 1 @@ 2 :> 20 @@ 5 :> 0
CommitsOfUser == 1 :> 1 @@ 2 :> 20 @@ 3 :> 1 @@ 4 :> 1 @@ 5 :> 0

Answer(who1, p1, who2, p2) ==
    <<[who |-> who1, percentage |-> p1], [who |-> who2, percentage |-> p2]>>

\* Usable; usable after the cut to 16 bits; a name twice; short; somebody unknown.
SomeAnswers ==
    {Answer(1, 18, 2, 2), Answer(1, 32 + 10, 2, -22), Answer(2, 8, 2, 12), Answer(1, 12, 2, 7),
     Answer(5, 10, 1, 10)}
=============================================================================
