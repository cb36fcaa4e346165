------------------------------ MODULE MCScoreFormat ------------------------------
(***************************************************************************)
(* Scores such as 1.5, 15000, 0.00025, 1e20, 1.5e20, 2.5e-10 for TLC.      *)
(***************************************************************************)
EXTENDS ScoreFormat

SomeExponents == {-10, -5, -4, 0, 4, 16, 17, 20, 100}
=============================================================================
