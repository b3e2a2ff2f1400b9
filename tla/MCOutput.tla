------------------------------ MODULE MCOutput ------------------------------
(***************************************************************************)
(* Output on a screen of three lines of four cells, with two more lines of *)
(* memory behind it, and 6-bit words.                                      *)
(***************************************************************************)
EXTENDS Output

MCStrings == {<< >>, <<"h", "i">>, <<"t", "e", "x", "t">>}
=============================================================================
