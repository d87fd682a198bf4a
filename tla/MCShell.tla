------------------------------ MODULE MCShell ------------------------------
(***************************************************************************)
(* An instance of Shell on a small screen, with two letters that nothing   *)
(* tells apart, and a prompt that is longer than a row.                    *)
(***************************************************************************)
EXTENDS Shell

CONSTANTS ka, kb

MCTyped   == {ka, kb}
MCLetters == Permutations(MCTyped)
MCFirst   == <<"u">>
MCNames   == {MCFirst, <<"m", "e">>, <<"l", "o", "n", "g">>}
MCRest    == <<">">>
MCOutputs == {<<"TAB", "x", "CR", "LF">>, <<"cls">>, <<"history">>}
=============================================================================
