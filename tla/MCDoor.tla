------------------------------- MODULE MCDoor -------------------------------
(* Two beeps of the alarm; one of the connection's beeps has a pause, the  *)
(* other has none.                                                         *)
EXTENDS Door

MCAlarmBeep == <<1, 2, 2>>
MCOtherBeeps == {<<1, 1, 2>>, <<2, 0, 1>>}
=============================================================================
