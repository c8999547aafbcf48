----------------------------- MODULE MCGradedRun ------------------------------
(* Two questions and two arms; the pinned order interleaves them.          *)
EXTENDS GradedRun, TLC

CONSTANTS s1, s2, s3

TwoArms == <<"plain", "aphelion">>
Pinned == <<<<2, "plain">>, <<1, "aphelion">>, <<1, "plain">>, <<2, "aphelion">>>>

\* The answers to question 1 vary.
Varying == <<{"t", "u"}, {"t"}>>

\* s2 differs from s1 in its judge alone, s3 in its extractor.
ThreeExperiments == s1 :> "e1" @@ s2 :> "e1" @@ s3 :> "e2"
Alone == s1 :> "e1"

=============================================================================
