--------------------------- MODULE PthreadBarrier ---------------------------
(***************************************************************************)
(* A reusable POSIX barrier (pthread_barrier_t) as the benchmark uses it:  *)
(* pthread_barrier_init(&barrier, NULL, count) followed by any number of   *)
(* rounds of pthread_barrier_wait.  The count-th thread to arrive in a     *)
(* round releases every thread waiting in that round and opens the next    *)
(* round; a released thread that arrives again is counted in the new       *)
(* round, never in the one it has just left.                               *)
(*                                                                         *)
(* The module holds only the barrier's own state; the modules that use it  *)
(* substitute their variables for arrived, round, waitRound and count and  *)
(* call BarrierInit where the code initialises the barrier and             *)
(* Arrive inside the action of the thread that calls                       *)
(* pthread_barrier_wait.                                                   *)
(***************************************************************************)
EXTENDS Naturals, FiniteSets

CONSTANTS
  Parties     \* the threads that may call pthread_barrier_wait

VARIABLES
  arrived,    \* threads blocked in the current round
  round,      \* number of rounds completed so far
  waitRound,  \* waitRound[t]: the round thread t last arrived in
  count       \* the count given to pthread_barrier_init

(* pthread_barrier_init(&barrier, NULL, n).                                *)
BarrierInit(n) ==
  /\ arrived = {}
  /\ round = 0
  /\ waitRound = [t \in Parties |-> 0]
  /\ count = n

BarrierTypeOK ==
  /\ arrived \subseteq Parties
  /\ round \in Nat
  /\ waitRound \in [Parties -> Nat]
  /\ count \in Nat \ {0}

(* Thread t enters pthread_barrier_wait.  If it is the count-th arrival,   *)
(* the round completes: every waiter is released and t does not block.     *)
Arrive(t) ==
  /\ t \notin arrived
  /\ waitRound' = [waitRound EXCEPT ![t] = round]
  /\ UNCHANGED count
  /\ IF Cardinality(arrived) + 1 >= count
       THEN /\ arrived' = {}
            /\ round' = round + 1
       ELSE /\ arrived' = arrived \cup {t}
            /\ UNCHANGED round

(* Thread t, having arrived, has been released: its round has completed.   *)
Released(t) == round > waitRound[t]

(* No thread is blocked in the barrier: pthread_barrier_destroy is only    *)
(* defined in this state.                                                  *)
Idle == arrived = {}
=============================================================================
