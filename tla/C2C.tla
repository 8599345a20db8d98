-------------------------------- MODULE C2C --------------------------------
(***************************************************************************)
(* The core-to-core latency protocol of mb_enzian.c: do_c2c_test (lines    *)
(* 468-504), thread_c2c_1 (428-445) and thread_c2c_2 (447-460).            *)
(*                                                                         *)
(* Two 64-bit mailboxes, c2c_data[0] and c2c_data[16], sit in two          *)
(* different cache lines.  Thread 1 writes a counter from MaxI down to 0   *)
(* into mailbox 0, fences and spins until mailbox 16 shows the same        *)
(* value.  Thread 2 copies mailbox 0 into mailbox 16, fences, and stops    *)
(* after copying 0.  Against the FPGA (second_cpu == -1) thread 2 is not   *)
(* created; the mailboxes are two FPGA cache lines and the FPGA itself     *)
(* copies the first into the second (Echo, modelled from spec 4.6: the     *)
(* FPGA logic is not part of this repository).                             *)
(*                                                                         *)
(* Memory: the mailboxes are volatile and every store is followed by       *)
(* __sync_synchronize, so each load and store is one atomic step on a      *)
(* sequentially consistent memory.                                         *)
(***************************************************************************)
EXTENDS Integers, FiniteSets

CONSTANTS
  MaxI,       \* first counter value of thread 1 (1000 in the code)
  OldValues   \* what the mailbox words may hold before the test starts

ASSUME MaxI \in Nat /\ OldValues \subseteq Nat

Threads == {"main", "t1", "t2"}

VARIABLES
  mbox0, mbox16,   \* c2c_data[0] and c2c_data[16]
  mpc,             \* do_c2c_test, run by the main thread
  pc1, i1,         \* thread_c2c_1 and its loop counter i
  pc2, v2,         \* thread_c2c_2 and its local v
  echoed,          \* values the peer copied into mailbox 16 (history)
  trips,           \* round trips thread 1 has completed (history)
  useFpga,         \* the argument second_cpu == -1: the peer is the FPGA
  arrived, round, waitRound, count

vars == <<mbox0, mbox16, mpc, pc1, i1, pc2, v2, echoed, trips, useFpga,
          arrived, round, waitRound, count>>

\* Barrier that does not wait for thread 1.
BarrierCountNoT1 == 2

(* pthread_barrier_init(&barrier, NULL, second_cpu != -1 ? 3 : 2)          *)
BarrierCount == IF useFpga THEN 2 ELSE 3

Bar == INSTANCE PthreadBarrier WITH Parties <- Threads

(* Entry of do_c2c_test(first_cpu, second_cpu), called by main both with  *)
(* a second core and with -1 for the FPGA: c2c_data points at memory that  *)
(* earlier tests (or the touch of area[0] in main) left with arbitrary     *)
(* contents.  The barrier is initialised before either thread is created.  *)
Init ==
  /\ useFpga \in BOOLEAN
  /\ mbox0 \in OldValues
  /\ mbox16 \in OldValues
  /\ mpc = "create1"
  /\ pc1 = "unborn" /\ i1 = MaxI
  /\ pc2 = "unborn" /\ v2 = 0
  /\ echoed = {}
  /\ trips = 0
  /\ Bar!BarrierInit(BarrierCount)

BarVars == <<arrived, round, waitRound, count>>
T1Vars == <<pc1, i1, trips>>
T2Vars == <<pc2, v2>>

(***************************************************************************)
(* do_c2c_test                                                             *)
(***************************************************************************)

(* pthread_create of thread 1, then of thread 2 unless the peer is the     *)
(* FPGA.                                                                   *)
Create1 ==
  /\ mpc = "create1"
  /\ pc1' = "init"
  /\ mpc' = IF useFpga THEN "wait" ELSE "create2"
  /\ UNCHANGED <<mbox0, mbox16, i1, trips, echoed>> /\ UNCHANGED T2Vars
  /\ UNCHANGED <<useFpga, BarVars>>

Create2 ==
  /\ mpc = "create2"
  /\ pc2' = "barrier"
  /\ mpc' = "wait"
  /\ UNCHANGED <<mbox0, mbox16, v2, echoed>> /\ UNCHANGED T1Vars
  /\ UNCHANGED <<useFpga, BarVars>>

MainWait ==
  /\ mpc = "wait"
  /\ Bar!Arrive("main")
  /\ UNCHANGED useFpga
  /\ mpc' = "blocked"
  /\ UNCHANGED <<mbox0, mbox16, echoed>> /\ UNCHANGED T1Vars /\ UNCHANGED T2Vars

(* Main leaves the barrier and joins thread 1, then thread 2 if it exists, *)
(* then destroys the barrier and returns thread 1's cycle count.           *)
MainLeave ==
  /\ mpc = "blocked"
  /\ Bar!Released("main")
  /\ mpc' = "join1"
  /\ UNCHANGED <<mbox0, mbox16, echoed>> /\ UNCHANGED T1Vars /\ UNCHANGED T2Vars
  /\ UNCHANGED <<useFpga, BarVars>>

Join1 ==
  /\ mpc = "join1"
  /\ pc1 = "done"
  /\ mpc' = IF useFpga THEN "done" ELSE "join2"
  /\ UNCHANGED <<mbox0, mbox16, echoed>> /\ UNCHANGED T1Vars /\ UNCHANGED T2Vars
  /\ UNCHANGED <<useFpga, BarVars>>

Join2 ==
  /\ mpc = "join2"
  /\ pc2 = "done"
  /\ mpc' = "done"
  /\ UNCHANGED <<mbox0, mbox16, echoed>> /\ UNCHANGED T1Vars /\ UNCHANGED T2Vars
  /\ UNCHANGED <<useFpga, BarVars>>

(***************************************************************************)
(* thread_c2c_1                                                            *)
(***************************************************************************)

(* c2c_data[0] = 1; c2c_data[16] = 1; before the barrier.                  *)
T1Init ==
  /\ pc1 = "init"
  /\ mbox0' = 1
  /\ mbox16' = 1
  /\ pc1' = "barrier"
  /\ UNCHANGED <<mpc, i1, trips, echoed>> /\ UNCHANGED T2Vars
  /\ UNCHANGED <<useFpga, BarVars>>

T1Wait ==
  /\ pc1 = "barrier"
  /\ Bar!Arrive("t1")
  /\ UNCHANGED useFpga
  /\ pc1' = "blocked"
  /\ UNCHANGED <<mbox0, mbox16, mpc, i1, trips, echoed>> /\ UNCHANGED T2Vars

\* Variant whose counter starts one above MaxI.
T1LeaveFromAbove ==
  /\ pc1 = "blocked"
  /\ Bar!Released("t1")
  /\ pc1' = "store"
  /\ i1' = MaxI + 1
  /\ UNCHANGED <<mbox0, mbox16, mpc, trips, echoed>> /\ UNCHANGED T2Vars
  /\ UNCHANGED <<useFpga, BarVars>>

(* Released: cycle = now(); for (i = 1000; ...                            *)
T1Leave ==
  /\ pc1 = "blocked"
  /\ Bar!Released("t1")
  /\ pc1' = "store"
  /\ i1' = MaxI
  /\ UNCHANGED <<mbox0, mbox16, mpc, trips, echoed>> /\ UNCHANGED T2Vars
  /\ UNCHANGED <<useFpga, BarVars>>

(* c2c_data[0] = i; __sync_synchronize();                                  *)
T1Store ==
  /\ pc1 = "store"
  /\ mbox0' = i1
  /\ pc1' = "spin"
  /\ UNCHANGED <<mbox16, mpc, i1, trips, echoed>> /\ UNCHANGED T2Vars
  /\ UNCHANGED <<useFpga, BarVars>>

\* Variant whose spin loop does not wait for the echo.
T1SpinNoWait ==
  /\ pc1 = "spin"
  /\ i1' = i1 - 1
  /\ trips' = trips + 1
  /\ pc1' = IF i1 - 1 >= 0 THEN "store" ELSE "done"
  /\ UNCHANGED <<mbox0, mbox16, mpc, echoed>> /\ UNCHANGED T2Vars
  /\ UNCHANGED <<useFpga, BarVars>>

(* while (i != c2c_data[16]); exits once the echo is seen, then i-- and    *)
(* the loop test i >= 0; after the loop cycle = now() - cycle.             *)
T1Spin ==
  /\ pc1 = "spin"
  /\ mbox16 = i1
  /\ i1' = i1 - 1
  /\ trips' = trips + 1
  /\ pc1' = IF i1 - 1 >= 0 THEN "store" ELSE "done"
  /\ UNCHANGED <<mbox0, mbox16, mpc, echoed>> /\ UNCHANGED T2Vars
  /\ UNCHANGED <<useFpga, BarVars>>

(***************************************************************************)
(* thread_c2c_2                                                            *)
(***************************************************************************)

T2Wait ==
  /\ pc2 = "barrier"
  /\ Bar!Arrive("t2")
  /\ UNCHANGED useFpga
  /\ pc2' = "blocked"
  /\ UNCHANGED <<mbox0, mbox16, mpc, v2, echoed>> /\ UNCHANGED T1Vars

T2Leave ==
  /\ pc2 = "blocked"
  /\ Bar!Released("t2")
  /\ pc2' = "read"
  /\ UNCHANGED <<mbox0, mbox16, mpc, v2, echoed>> /\ UNCHANGED T1Vars
  /\ UNCHANGED <<useFpga, BarVars>>

(* v = c2c_data[0];                                                        *)
T2Read ==
  /\ pc2 = "read"
  /\ v2' = mbox0
  /\ pc2' = "write"
  /\ UNCHANGED <<mbox0, mbox16, mpc, echoed>> /\ UNCHANGED T1Vars
  /\ UNCHANGED <<useFpga, BarVars>>

\* Variant that never leaves its loop.
T2WriteNoBreak ==
  /\ pc2 = "write"
  /\ mbox16' = v2
  /\ echoed' = echoed \cup {v2}
  /\ pc2' = "read"
  /\ UNCHANGED <<mbox0, mpc, v2>> /\ UNCHANGED T1Vars
  /\ UNCHANGED <<useFpga, BarVars>>

(* c2c_data[16] = v; __sync_synchronize(); if (v == 0) break;              *)
T2Write ==
  /\ pc2 = "write"
  /\ mbox16' = v2
  /\ echoed' = echoed \cup {v2}
  /\ pc2' = IF v2 = 0 THEN "done" ELSE "read"
  /\ UNCHANGED <<mbox0, mpc, v2>> /\ UNCHANGED T1Vars
  /\ UNCHANGED <<useFpga, BarVars>>

(***************************************************************************)
(* The FPGA as peer: it copies the first cache line into the second.       *)
(***************************************************************************)
Echo ==
  /\ useFpga
  /\ mbox16 # mbox0
  /\ mbox16' = mbox0
  /\ echoed' = echoed \cup {mbox0}
  /\ UNCHANGED <<mbox0, mpc>> /\ UNCHANGED T1Vars /\ UNCHANGED T2Vars
  /\ UNCHANGED <<useFpga, BarVars>>

MainStep == Create1 \/ Create2 \/ MainWait \/ MainLeave \/ Join1 \/ Join2
T1Step == T1Init \/ T1Wait \/ T1Leave \/ T1Store \/ T1Spin
T2Step == T2Wait \/ T2Leave \/ T2Read \/ T2Write

Next == MainStep \/ T1Step \/ T2Step \/ Echo

(* Both threads are pinned to cores of their own and spin rather than      *)
(* block, and the FPGA keeps serving its cache lines: each of them that    *)
(* can step eventually does.                                               *)
Fairness ==
  /\ WF_vars(MainStep)
  /\ WF_vars(T1Step)
  /\ WF_vars(T2Step)
  /\ WF_vars(Echo)

Spec == Init /\ [][Next]_vars /\ Fairness

-----------------------------------------------------------------------------
(***************************************************************************)
(* Properties                                                              *)
(***************************************************************************)

TypeOK ==
  /\ mbox0 \in OldValues \cup (0..MaxI)
  /\ mbox16 \in OldValues \cup (0..MaxI)
  /\ mpc \in {"create1", "create2", "wait", "blocked", "join1", "join2", "done"}
  /\ pc1 \in {"unborn", "init", "barrier", "blocked", "store", "spin", "done"}
  /\ i1 \in -1..MaxI
  /\ pc2 \in {"unborn", "barrier", "blocked", "read", "write", "done"}
  /\ v2 \in OldValues \cup (0..MaxI)
  /\ echoed \subseteq OldValues \cup (0..MaxI)
  /\ trips \in 0..MaxI + 1
  /\ useFpga \in BOOLEAN
  /\ Bar!BarrierTypeOK

(* Thread 2 stops only after thread 1 has stored 0: it never mistakes a    *)
(* stale word left in mailbox 0 by an earlier test for the final value.    *)
(* This rests on thread 1 storing 1 before the barrier and on the barrier  *)
(* counting thread 1.                                                      *)
NoEarlyExit ==
  pc2 = "done" => (pc1 = "spin" /\ i1 = 0) \/ pc1 = "done"

(* When thread 1 finishes, the peer has copied every counter value MaxI,   *)
(* ..., 0 back into mailbox 16: every timed round trip went through the    *)
(* peer and none was satisfied by a stale or skipped echo.                 *)
EveryRoundEchoed ==
  pc1 = "done" => 0..MaxI \subseteq echoed

(* The test always completes: thread 1 sees every echo, thread 2 (or the   *)
(* FPGA) sees 0, and both joins return.                                    *)
Termination == <>(mpc = "done")

(* Spec 4.6: the timed ping-pong is 1000 round trips (MaxI in the model),  *)
(* which is what the report's division by 200 assumes.  The loop           *)
(* `for (i = 1000; i >= 0; i--)` makes MaxI + 1; expected to fail.         *)
RoundTripsAsSpecified ==
  pc1 = "done" => trips = MaxI
(* Spec 4.6 and 5: do_c2c_test is one rendezvous of main, thread 1 and,    *)
(* against a second core, thread 2 (lines 496, 435 and 449): nobody starts *)
(* the timed ping-pong or the join before every party created for this     *)
(* test has arrived.  A party has reached the rendezvous once it has       *)
(* called pthread_barrier_wait and passed it once the call has returned.   *)
Reached(t) ==
  CASE t = "main" -> mpc \in {"blocked", "join1", "join2", "done"}
    [] t = "t1"   -> pc1 \in {"blocked", "store", "spin", "done"}
    [] t = "t2"   -> pc2 \in {"blocked", "read", "write", "done"}

Passed(t) ==
  CASE t = "main" -> mpc \in {"join1", "join2", "done"}
    [] t = "t1"   -> pc1 \in {"store", "spin", "done"}
    [] t = "t2"   -> pc2 \in {"read", "write", "done"}

Count(b) == IF b THEN 1 ELSE 0

Members == IF useFpga THEN {"main", "t1"} ELSE Threads

R == INSTANCE Rendezvous WITH Parties <- Threads, Rounds <- 1,
       members <- Members,
       reached <- [t \in Threads |-> Count(Reached(t))],
       passed <- [t \in Threads |-> Count(Passed(t))]

(* The barrier count of line 479 makes the barrier a rendezvous of exactly *)
(* the threads that exist: main and thread 1 against the FPGA, all three   *)
(* against a second core.                                                  *)
ImplementsRendezvous == R!Spec
=============================================================================
