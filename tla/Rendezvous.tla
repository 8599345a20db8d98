----------------------------- MODULE Rendezvous -----------------------------
(***************************************************************************)
(* What the benchmark's barrier protocols promise (spec 4.2 and 5), with   *)
(* no barrier in it: a fixed set of parties goes through Rounds            *)
(* rendezvous, and a party leaves rendezvous r only once every party has   *)
(* reached r.  Which of the possible parties take part is fixed when the   *)
(* rendezvous is set up.  Nothing is said about how the parties find out.  *)
(*                                                                         *)
(* reached[p] counts the rendezvous party p has come to, passed[p] those   *)
(* it has left; a party is at most one rendezvous ahead of what it has     *)
(* left.  start_threads (Harness, four rounds of Main and the workers) and *)
(* do_c2c_test (C2C, one round of Main and the two threads) are shown to  *)
(* implement it.                                                           *)
(***************************************************************************)
EXTENDS Naturals

CONSTANTS
  Parties,   \* the threads that may meet
  Rounds     \* how many times each of them meets the others

VARIABLES
  members,   \* the parties that take part, chosen at set-up
  reached,   \* reached[p]: the rendezvous p has arrived at so far
  passed     \* passed[p]: the rendezvous p has left so far

rvars == <<members, reached, passed>>

Init ==
  /\ members \in SUBSET Parties
  /\ reached = [p \in Parties |-> 0]
  /\ passed = [p \in Parties |-> 0]

(* Party p, having left its last rendezvous, comes to the next one.        *)
Reach(p) ==
  /\ p \in members
  /\ reached[p] = passed[p]
  /\ reached[p] < Rounds
  /\ reached' = [reached EXCEPT ![p] = @ + 1]
  /\ UNCHANGED <<members, passed>>

(* Party p leaves the rendezvous it is at, once everyone has reached it.   *)
Pass(p) ==
  /\ passed[p] < reached[p]
  /\ \A q \in members : reached[q] >= reached[p]
  /\ passed' = [passed EXCEPT ![p] = @ + 1]
  /\ UNCHANGED <<members, reached>>

Next == \E p \in Parties : Reach(p) \/ Pass(p)

(* Every member keeps going until it has met the others Rounds times.      *)
Spec ==
  /\ Init /\ [][Next]_rvars
  /\ \A p \in Parties : WF_rvars(Reach(p)) /\ WF_rvars(Pass(p))
=============================================================================
