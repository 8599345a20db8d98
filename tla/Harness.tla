------------------------------ MODULE Harness ------------------------------
(***************************************************************************)
(* The thread/barrier harness of mb_enzian.c: start_threads (lines         *)
(* 134-162) together with the worker loop that the three throughput        *)
(* kernels share (thread_write_cache_area, thread_clear_cache_area,        *)
(* thread_read_cache_area).                                                *)
(*                                                                         *)
(* The orchestrating thread Main initialises a barrier for                 *)
(* last_cpu - first_cpu + 2 parties, creates one worker per core in        *)
(* first_cpu..last_cpu (the worker's argument is the core number), waits   *)
(* at the barrier once and then three more times, joins the workers in     *)
(* core order summing their results and returns the truncated average.    *)
(* Each worker runs four phases: wait at the barrier, take now(), run the  *)
(* kernel body, take now() again and keep the minimum elapsed value.       *)
(*                                                                         *)
(* The kernel body and the counter are abstracted to the elapsed cycle     *)
(* count of a phase, chosen from Durations: the harness never looks at     *)
(* what the body does, only at how long it took.                           *)
(***************************************************************************)
EXTENDS Naturals, Sequences, FiniteSets, FiniteSetsExt

CONSTANTS
  FirstCpu, LastCpu, \* the -f and -l core numbers
  Main,              \* the orchestrating thread (a model value)
  Durations,         \* elapsed cycles a timed phase may take
  UINT64_MAX         \* stands for UINT64_MAX: larger than every duration

ASSUME FirstCpu \in Nat /\ LastCpu \in Nat /\ FirstCpu <= LastCpu
ASSUME Durations \subseteq Nat /\ Durations # {}
ASSUME \A d \in Durations : d < UINT64_MAX

Cores == FirstCpu..LastCpu
Threads == Cores \cup {Main}
NumThreads == LastCpu - FirstCpu + 1
\* The worker loop `for (k = 0; k < 4; k++)`.
Phases == 4

VARIABLES
  mpc,        \* where Main is in start_threads
  i,          \* Main's loop counter (reused by the three loops, as in the code)
  sum,        \* Main's accumulator `min` during the join loop
  result,     \* the value start_threads returns
  wpc,        \* wpc[c]: where the worker on core c is
  k,          \* k[c]: the worker's phase counter
  wmin,       \* wmin[c]: the worker's `min`
  samples,    \* samples[c]: the elapsed values of its phases (history)
  arrived, round, waitRound, count  \* the barrier

vars == <<mpc, i, sum, result, wpc, k, wmin, samples, arrived, round, waitRound, count>>

(* pthread_barrier_init(&barrier, NULL, last_cpu - first_cpu + 2): the     *)
(* workers and Main.                                                       *)
BarrierCount == LastCpu - FirstCpu + 2

Bar == INSTANCE PthreadBarrier WITH Parties <- Threads

\* Entry state in which each worker's `min` starts at 0.
InitMinZero ==
  /\ mpc = "create"
  /\ i = FirstCpu
  /\ sum = 0
  /\ result = 0
  /\ wpc = [c \in Cores |-> "unborn"]
  /\ k = [c \in Cores |-> 0]
  /\ wmin = [c \in Cores |-> 0]
  /\ samples = [c \in Cores |-> <<>>]
  /\ Bar!BarrierInit(BarrierCount)

(***************************************************************************)
(* Entry of start_threads: min = UINT64_MAX and pthread_barrier_init with  *)
(* last_cpu - first_cpu + 2 parties.  No worker exists yet.                *)
(***************************************************************************)
Init ==
  /\ mpc = "create"
  /\ i = FirstCpu
  /\ sum = 0
  /\ result = 0
  /\ wpc = [c \in Cores |-> "unborn"]
  /\ k = [c \in Cores |-> 0]
  /\ wmin = [c \in Cores |-> UINT64_MAX]
  /\ samples = [c \in Cores |-> <<>>]
  /\ Bar!BarrierInit(BarrierCount)

WorkerVars == <<wpc, k, wmin, samples>>
MainVars == <<mpc, i, sum, result>>
BarVars == <<arrived, round, waitRound, count>>

(* One iteration of the creation loop: pthread_create for core i, the new  *)
(* worker starts at the top of its phase loop.                             *)
CreateWorker ==
  /\ mpc = "create"
  /\ wpc' = [wpc EXCEPT ![i] = "barrier"]
  /\ i' = IF i < LastCpu THEN i + 1 ELSE i
  /\ mpc' = IF i < LastCpu THEN "create" ELSE "wait1"
  /\ UNCHANGED <<sum, result, k, wmin, samples>>
  /\ UNCHANGED BarVars

(* The first pthread_barrier_wait of Main, after the creation loop.        *)
MainWait1 ==
  /\ mpc = "wait1"
  /\ Bar!Arrive(Main)
  /\ mpc' = "blocked1"
  /\ UNCHANGED <<i, sum, result>>
  /\ UNCHANGED WorkerVars

(* Main leaves the first wait and enters `for (i = 0; i < 3; i++)`.        *)
MainLeave1 ==
  /\ mpc = "blocked1"
  /\ Bar!Released(Main)
  /\ mpc' = "wait3"
  /\ i' = 0
  /\ UNCHANGED <<sum, result>>
  /\ UNCHANGED WorkerVars
  /\ UNCHANGED BarVars

(* pthread_barrier_wait inside the loop of three.                          *)
MainWait3 ==
  /\ mpc = "wait3"
  /\ Bar!Arrive(Main)
  /\ mpc' = "blocked3"
  /\ UNCHANGED <<i, sum, result>>
  /\ UNCHANGED WorkerVars

\* Variant in which Main's loop waits only twice.
MainLeave3Twice ==
  /\ mpc = "blocked3"
  /\ Bar!Released(Main)
  /\ mpc' = IF i + 1 < 2 THEN "wait3" ELSE "join"
  /\ i' = IF i + 1 < 2 THEN i + 1 ELSE FirstCpu
  /\ UNCHANGED <<sum, result>>
  /\ UNCHANGED WorkerVars
  /\ UNCHANGED BarVars

MainLeave3 ==
  /\ mpc = "blocked3"
  /\ Bar!Released(Main)
  /\ mpc' = IF i + 1 < 3 THEN "wait3" ELSE "join"
  /\ i' = IF i + 1 < 3 THEN i + 1 ELSE FirstCpu
  /\ UNCHANGED <<sum, result>>
  /\ UNCHANGED WorkerVars
  /\ UNCHANGED BarVars

\* Variant that reads a worker's result without waiting for it to exit.
JoinNoWait ==
  /\ mpc = "join"
  /\ sum' = sum + wmin[i]
  /\ IF i < LastCpu
       THEN /\ i' = i + 1
            /\ UNCHANGED <<mpc, result>>
       ELSE /\ mpc' = "done"
            /\ result' = (sum + wmin[i]) \div NumThreads
            /\ UNCHANGED i
  /\ UNCHANGED WorkerVars
  /\ UNCHANGED BarVars

(* min = 0 before the loop is folded into the first join.  pthread_join    *)
(* returns once worker i has returned; its result is added to the sum.     *)
(* After the last join the barrier is destroyed and the average returned. *)
Join ==
  /\ mpc = "join"
  /\ wpc[i] = "exited"
  /\ sum' = sum + wmin[i]
  /\ IF i < LastCpu
       THEN /\ i' = i + 1
            /\ UNCHANGED <<mpc, result>>
       ELSE /\ mpc' = "done"
            /\ result' = (sum + wmin[i]) \div NumThreads
            /\ UNCHANGED i
  /\ UNCHANGED WorkerVars
  /\ UNCHANGED BarVars

(* The worker calls pthread_barrier_wait at the top of phase k.            *)
WorkerWait(c) ==
  /\ wpc[c] = "barrier"
  /\ Bar!Arrive(c)
  /\ wpc' = [wpc EXCEPT ![c] = "blocked"]
  /\ UNCHANGED <<k, wmin, samples>>
  /\ UNCHANGED MainVars

\* Worker that starts timing without waiting to be released.
WorkerStartEarly(c) ==
  /\ wpc[c] = "blocked"
  /\ wpc' = [wpc EXCEPT ![c] = "timed"]
  /\ UNCHANGED <<k, wmin, samples>>
  /\ UNCHANGED MainVars
  /\ UNCHANGED BarVars

(* Released from the barrier, the worker takes cycles = now() and enters   *)
(* its timed region.                                                       *)
WorkerStart(c) ==
  /\ wpc[c] = "blocked"
  /\ Bar!Released(c)
  /\ wpc' = [wpc EXCEPT ![c] = "timed"]
  /\ UNCHANGED <<k, wmin, samples>>
  /\ UNCHANGED MainVars
  /\ UNCHANGED BarVars

(* The kernel body runs, cycles = now() - cycles, the minimum is kept and  *)
(* the loop either goes round again or the thread returns its min.       *)
WorkerFinish(c) ==
  /\ wpc[c] = "timed"
  /\ \E cycles \in Durations :
       /\ samples' = [samples EXCEPT ![c] = Append(@, cycles)]
       /\ wmin' = [wmin EXCEPT ![c] = IF cycles < @ THEN cycles ELSE @]
  /\ k' = [k EXCEPT ![c] = @ + 1]
  /\ wpc' = [wpc EXCEPT ![c] = IF k[c] + 1 < Phases THEN "barrier" ELSE "exited"]
  /\ UNCHANGED MainVars
  /\ UNCHANGED BarVars

MainStep ==
  \/ CreateWorker
  \/ MainWait1
  \/ MainLeave1
  \/ MainWait3
  \/ MainLeave3
  \/ Join

WorkerStep(c) ==
  \/ WorkerWait(c)
  \/ WorkerStart(c)
  \/ WorkerFinish(c)

Next ==
  \/ MainStep
  \/ \E c \in Cores : WorkerStep(c)

(* Every thread is pinned to a core of its own and the OS keeps running a  *)
(* runnable thread: each thread that can take a step eventually does.      *)
Fairness ==
  /\ WF_vars(MainStep)
  /\ \A c \in Cores : WF_vars(WorkerStep(c))

Spec == Init /\ [][Next]_vars /\ Fairness

-----------------------------------------------------------------------------
(***************************************************************************)
(* Properties                                                              *)
(***************************************************************************)

SetMin(S) == CHOOSE x \in S : \A y \in S : x <= y
SeqMin(s) == SetMin({s[j] : j \in DOMAIN s})

TypeOK ==
  /\ mpc \in {"create", "wait1", "blocked1", "wait3", "blocked3", "join", "done"}
  /\ i \in 0..LastCpu
  /\ wpc \in [Cores -> {"unborn", "barrier", "blocked", "timed", "exited"}]
  /\ k \in [Cores -> 0..Phases]
  /\ wmin \in [Cores -> Durations \cup {UINT64_MAX}]
  /\ \A c \in Cores : samples[c] \in Seq(Durations) /\ Len(samples[c]) <= Phases
  /\ Bar!BarrierTypeOK

(* How many times thread t has entered pthread_barrier_wait so far.        *)
Arrivals(t) ==
  IF t = Main
    THEN CASE mpc \in {"create", "wait1"} -> 0
           [] mpc = "blocked1"          -> 1
           [] mpc = "wait3"             -> 1 + i
           [] mpc = "blocked3"          -> 2 + i
           [] mpc \in {"join", "done"}  -> 4
    ELSE k[t] + (IF wpc[t] \in {"blocked", "timed"} THEN 1 ELSE 0)

(* How many barrier waits thread t has returned from so far.               *)
Passes(t) ==
  IF t = Main
    THEN CASE mpc \in {"create", "wait1", "blocked1"} -> 0
           [] mpc \in {"wait3", "blocked3"}           -> 1 + i
           [] mpc \in {"join", "done"}                -> 4
    ELSE k[t] + (IF wpc[t] = "timed" THEN 1 ELSE 0)

R == INSTANCE Rendezvous WITH
       Parties <- Threads,
       Rounds <- Phases,
       members <- Threads,
       reached <- [t \in Threads |-> Arrivals(t)],
       passed <- [t \in Threads |-> Passes(t)]

(* start_threads implements the rendezvous of spec 4.2: Main and every     *)
(* worker meet four times, none leaves a meeting before all have come to  *)
(* it, and all of them go through all four.  It takes the barrier's count *)
(* (line 142), Main's 1 + 3 waits (151-154) and the workers' wait at the  *)
(* top of each phase (177) to agree.                                       *)
ImplementsRendezvous == R!Spec

(* When start_threads returns, its value is the truncated mean over the    *)
(* workers of each worker's minimum over all four of its phases: Main has  *)
(* joined every worker only after that worker finished its last phase.     *)
ResultIsMeanOfMinima ==
  mpc = "done" =>
    result = MapThenSumSet(LAMBDA c : SeqMin(samples[c]), Cores) \div NumThreads

(* Every call of start_threads returns: the barrier counts of Main and the *)
(* workers match, so no thread is left waiting for a round that never      *)
(* completes and Main's joins all return.                                  *)
Termination == <>(mpc = "done")
=============================================================================
