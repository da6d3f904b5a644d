------------------------------ MODULE MCShell ------------------------------
(***************************************************************************)
(* A buffer of nine characters: the longest input does not fit in it.  A   *)
(* screen of two rows of eleven columns: the prompt and a full line just   *)
(* fit, unless printf has left something before the prompt.                *)
(***************************************************************************)
EXTENDS Shell

MCInputs ==
  {MEM, CLEAR, PRINTF \o <<"m">>, RUN \o <<TAB, "m">>,
   EXEC, EXIT, ECHO \o <<"m", "e", "m", "e">>}

MCOutputs == {<<"a", NL>>, <<NL, TAB, "a", NL>>, <<"a", "a", "a", CR>>}
=============================================================================
