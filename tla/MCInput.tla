------------------------------- MODULE MCInput -------------------------------
(***************************************************************************)
(* Instances of Input: one letter key, the name is that letter and the     *)
(* password is the capital letter.                                         *)
(***************************************************************************)
EXTENDS Input

MCUpper == [l \in Letters |-> "N"]
MCUser  == <<"n">>
MCPass  == <<"N">>

Press(k) == [key |-> k, up |-> FALSE]

MCBytes == {Press(k) : k \in {"n", "enter", "back", "caps"}}
=============================================================================
