------------------------------ MODULE MCGlobMatch ------------------------------
(***************************************************************************)
(* Classes of one range for TLC, with ends below and above ], and texts of *)
(* one character.                                                          *)
(***************************************************************************)
EXTENDS GlobMatch

Ends == {48, 65, Close, 97}   \* 0, A, ], a

OneRange ==
    {<<Open, x, Hyphen, y>> : x \in Ends, y \in Ends} \X {<<c>> : c \in 48 .. 97}
=============================================================================
