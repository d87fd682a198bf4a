------------------------------ MODULE MCClock ------------------------------
(***************************************************************************)
(* Instances of Clock: the turns of a month, of noon, and of an hour after *)
(* midnight, of up to two updates.                                         *)
(***************************************************************************)
EXTENDS Clock

Time(h, m, s, d, mon, y) ==
  [r \in Reg |-> CASE r = "seconds" -> s [] r = "minutes" -> m [] r = "hours" -> h
                   [] r = "day" -> d [] r = "month" -> mon [] r = "year" -> y]

MCHistories ==
  {<<Time(23, 59, 59, 31, 8, 26), Time(0, 0, 0, 1, 9, 26)>>,
   <<Time(11, 59, 58, 19, 8, 24), Time(11, 59, 59, 19, 8, 24), Time(12, 0, 0, 19, 8, 24)>>,
   <<Time(0, 59, 59, 9, 3, 7), Time(1, 0, 0, 9, 3, 7), Time(1, 0, 1, 9, 3, 7)>>}
=============================================================================
