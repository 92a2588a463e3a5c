----------------------------- MODULE MCITCPrint -----------------------------
(***************************************************************************)
(* Instances of ITCPrint: writes of one and two characters, the line ends  *)
(* at the end of a write as itc_puts() sends them.                         *)
(***************************************************************************)
EXTENDS ITCPrint

MCChars == {"a", "b", "n", Nul, Eol}
MCWords == {<<"a">>, <<"a", Eol>>, <<Nul>>, <<"b", "a">>}
MCNls == {<<"n">>}

ASSUME MCLikeMain == Eager => LikeMain
=============================================================================
