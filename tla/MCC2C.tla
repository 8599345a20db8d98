------------------------------- MODULE MCC2C -------------------------------
(* The ping-pong with the counter starting at 5 instead of 1000, and old   *)
(* mailbox contents 0 (what the touch of area[0] and the clear kernel      *)
(* leave) and 2 (a value the counter will pass through).                   *)
EXTENDS C2C

MCOldValues == {0, 2}
=============================================================================
