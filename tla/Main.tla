-------------------------------- MODULE Main --------------------------------
(***************************************************************************)
(* main() of mb_enzian.c (505-755): the option loop, the per-thread L2     *)
(* share, the calibration and mapping of the area, then the modes in the   *)
(* order the code runs them: overall (-b), throughput (-m), stress (-r),   *)
(* core-to-core (-c), pointer chasing (-t) and sequential latency (-s).    *)
(*                                                                         *)
(* The latency tests are the engines of module Latency, entered with       *)
(* CallChase and CallSeq and run step by step.  The other engines are      *)
(* modelled by the arguments main passes them: every start_threads call is *)
(* recorded in `calls` with the core range, the area size and the L2       *)
(* share the read kernel compares the area with (module Harness checks the *)
(* threads of one call); do_c2c_test is a single step (module C2C checks   *)
(* it).  The process is single-threaded outside those calls.               *)
(*                                                                         *)
(* Unsigned arithmetic keeps its width: first_cpu and last_cpu are         *)
(* `unsigned` (32 bits) in main and uint64_t in start_threads.  A division *)
(* by zero is undefined: the build either traps (SIGFPE, x86) or yields 0  *)
(* (udiv, aarch64), and the model allows both.                             *)
(***************************************************************************)
EXTENDS Latency, Integers, Sequences, FiniteSets

CONSTANTS
  Argvs     \* the argument vectors main may be run with: sequences of
            \* <<letter>> or <<letter, argument>> as getopt returns them

VARIABLES
  argv,            \* the options getopt has still to return
  mpc,             \* where main is
  opts,            \* the globals the options set (first_cpu, do_overall, ...)
  l2_cache_size,   \* global uint64_t l2_cache_size
  area_test_size,  \* global uint64_t area_test_size
  itn,             \* global uint64_t itn
  i,               \* main's loop counter, reused by every loop
  calls            \* the start_threads calls made so far (history)

MainVars == <<argv, mpc, opts, l2_cache_size, area_test_size, itn, i, calls>>

vars == <<MainVars, LatencyVars>>

\* 16 MiB of L2, shared by the threads of a throughput run.
L2_TOTAL == 16777216

\* The throughput sizes: for (i = 14; i <= 25; i++) area_test_size = 1 << i.
TputSizes == 14..25

(* The values the unsigned division a / d can give, d being the           *)
(* mathematical value of an expression computed modulo 2^32 or 2^64.  A    *)
(* negative d wraps to 2^w + d, larger than every dividend here, so the    *)
(* quotient is 0; a zero d is undefined and either traps or gives 0.       *)
Quotient(q) == [trap |-> FALSE, q |-> q]

\* Signed division: a negative divisor gives a negative quotient.
UDivSigned(a, d) ==
  IF d # 0 THEN {Quotient(a \div d)} ELSE {Quotient(0), [trap |-> TRUE, q |-> 0]}

UDiv(a, d) ==
  IF d > 0 THEN {Quotient(a \div d)}
  ELSE IF d < 0 THEN {Quotient(0)}
  ELSE {Quotient(0), [trap |-> TRUE, q |-> 0]}

Trapped(r) == r.trap

(* The options as the switch at 551-593 applies them.  `-r` takes the      *)
(* first letter of its argument; an unknown letter only prints a message.  *)
StressMode == [w |-> 1, c |-> 2, r |-> 3, l |-> 4]

ApplyOpt(o, a) ==
  CASE a[1] = "b" -> [o EXCEPT !.do_overall = 1]
    [] a[1] = "f" -> [o EXCEPT !.first_cpu = a[2]]
    [] a[1] = "l" -> [o EXCEPT !.last_cpu = a[2]]
    [] a[1] = "s" -> [o EXCEPT !.do_seq_latency = 1]
    [] a[1] = "t" -> [o EXCEPT !.do_latency = 1]
    [] a[1] = "m" -> [o EXCEPT !.do_throughput = 1]
    [] a[1] = "c" -> [o EXCEPT !.do_cache_to_cache = 1]
    [] a[1] = "p" -> [o EXCEPT !.use_cpu_memory = 1]
    [] a[1] = "r" /\ a[2] \in DOMAIN StressMode ->
                     [o EXCEPT !.do_stress = StressMode[a[2]]]
    [] OTHER -> o   \* -h prints the usage, -r with an unknown mode a message

(* The threads start_threads(first, last, ...) creates: i = first..last. *)
Threads(first, last) == IF first <= last THEN last - first + 1 ELSE 0

(* start_threads(first_cpu, last_cpu, k) for each kernel k of ks, with the *)
(* globals of the moment, as a record of its arguments.                   *)
KernelCalls(ks, first, last, area) ==
  {[kernel |-> k, first |-> first, last |-> last, area |-> area,
    l2 |-> l2_cache_size] : k \in ks}

(* What Main's first pthread_barrier_wait does.  start_threads inits the  *)
(* barrier with last_cpu - first_cpu + 2, taken modulo 2^32 as the         *)
(* unsigned count: the parties, threads and Main, when first <= last + 1.  *)
(* For first = last + 2 the count is 0, init fails with EINVAL and the     *)
(* wait on the uninitialised barrier is undefined (glibc computes a        *)
(* remainder modulo the count: it traps, or Main blocks); for a larger     *)
(* first the count wraps to 2^32 - k and Main, the only party, blocks.     *)
\* Barrier counted without Main.
BarrierWaitNoMain(first, last) ==
  LET count == last - first + 1
  IN  IF count > 0 THEN {"pass"} ELSE IF count = 0 THEN {"hang", "trap"} ELSE {"hang"}

BarrierWait(first, last) ==
  LET count == last - first + 2
  IN  IF count > 0 THEN {"pass"} ELSE IF count = 0 THEN {"hang", "trap"} ELSE {"hang"}

(* The start_threads calls, in order, of the kernels ks, with the core   *)
(* range and area of the moment.  Each returns min / (last_cpu -          *)
(* first_cpu + 1) in uint64_t: with first = last + 1 no thread ran and the *)
(* divisor is 0.  Main goes on to `next` unless the first call blocks in  *)
(* the barrier or traps.                                                   *)
StartThreads(ks, area, next) ==
  LET f == opts.first_cpu
      l == opts.last_cpu
  IN  \E w \in BarrierWait(f, l), r \in UDiv(0, l - f + 1) :
        IF w # "pass" \/ Trapped(r)
          THEN /\ calls' = calls \cup KernelCalls({ks[1]}, f, l, area)
               /\ mpc' = IF w = "hang" THEN "hung" ELSE "killed"
          ELSE /\ calls' = calls \cup KernelCalls({ks[j] : j \in DOMAIN ks}, f, l, area)
               /\ mpc' = next

-----------------------------------------------------------------------------
(* Globals start as main sets them (do_seq_latency is a zeroed static).    *)
Init ==
  /\ argv \in Argvs
  /\ mpc = "getopt"
  /\ opts = [first_cpu |-> 0, last_cpu |-> 0, do_overall |-> 0,
             do_cache_to_cache |-> 0, do_latency |-> 0, do_seq_latency |-> 0,
             do_throughput |-> 0, use_cpu_memory |-> 0, do_stress |-> 0]
  /\ l2_cache_size = 0
  /\ area_test_size = 0
  /\ itn = 0
  /\ i = 0
  /\ calls = {}
  /\ EngineInit

(* One round of while ((opt = getopt(...)) != -1); an option getopt does   *)
(* not know makes it return '?' and the default case assert(0) aborts.     *)
GetOpt ==
  /\ mpc = "getopt"
  /\ argv # <<>>
  /\ IF Head(argv)[1] = "?"
       THEN mpc' = "abort" /\ UNCHANGED opts
       ELSE opts' = ApplyOpt(opts, Head(argv)) /\ UNCHANGED mpc
  /\ argv' = Tail(argv)
  /\ UNCHANGED <<l2_cache_size, area_test_size, itn, i, calls>>
  /\ UNCHANGED LatencyVars

(* l2_cache_size = 16777216 / (last_cpu - first_cpu + 1), in unsigned int; *)
(* then the TSC calibration, which only sets `rate`.                       *)
L2Share ==
  /\ mpc = "getopt"
  /\ argv = <<>>
  /\ \E r \in UDiv(L2_TOTAL, opts.last_cpu - opts.first_cpu + 1) :
       IF Trapped(r) THEN mpc' = "killed" /\ UNCHANGED l2_cache_size
                     ELSE mpc' = "map" /\ l2_cache_size' = r.q
  /\ UNCHANGED <<argv, opts, area_test_size, itn, i, calls>>
  /\ UNCHANGED LatencyVars

(* The FPGA memory: open("/dev/fpgamem") with assert(fd >= 0) and a fixed  *)
(* mmap; the CPU memory: mmap of 1 GiB huge pages, exit(1) if it fails.    *)
(* Then the three touches of the area.                                     *)
MapArea ==
  /\ mpc = "map"
  /\ \E ok \in BOOLEAN :
       mpc' = IF ok THEN "overall"
              ELSE IF opts.use_cpu_memory = 0 THEN "abort" ELSE "exit"
  /\ UNCHANGED <<argv, opts, l2_cache_size, area_test_size, itn, i, calls>>
  /\ UNCHANGED LatencyVars

(* if (do_overall): cores 0 and 1 (overwriting the globals), a 32 MiB     *)
(* area, one iteration; write, clear and read through start_threads; the  *)
(* core-to-core test; then do_seq_latency_test(26).                        *)
Overall ==
  /\ mpc = "overall"
  /\ opts.do_overall = 1
  /\ opts' = [opts EXCEPT !.first_cpu = 0, !.last_cpu = 1]
  /\ area_test_size' = 2 ^ 25
  /\ itn' = 1
  /\ calls' = calls \cup KernelCalls({"write", "clear", "read"}, 0, 1, 2 ^ 25)
  /\ mpc' = "overall_seq"
  /\ CallSeq(26)
  /\ UNCHANGED <<argv, l2_cache_size, i>>

(* After the overall mode, or without it, the throughput loop starts at   *)
(* i = 14.                                                                 *)
OverallDone ==
  /\ \/ mpc = "overall" /\ opts.do_overall = 0
     \/ mpc = "overall_seq" /\ pc = "ret"
  /\ mpc' = "throughput"
  /\ i' = 14
  /\ UNCHANGED <<argv, opts, l2_cache_size, area_test_size, itn, calls>>
  /\ UNCHANGED LatencyVars

\* The throughput loop without its increment.
ThroughputNoStep ==
  /\ mpc = "throughput"
  /\ opts.do_throughput = 1
  /\ i \in TputSizes
  /\ area_test_size' = 2 ^ i
  /\ itn' = IF i > 22 THEN 1 ELSE 2 ^ (22 - i)
  /\ UNCHANGED i
  /\ StartThreads(<<"write", "clear", "read">>, 2 ^ i, "throughput")
  /\ UNCHANGED <<argv, opts, l2_cache_size>>
  /\ UNCHANGED LatencyVars

(* One size of the throughput loop: area_test_size = 1 << i, itn = i > 22 *)
(* ? 1 : 1 << (22 - i), and write, clear and read through start_threads.  *)
Throughput ==
  /\ mpc = "throughput"
  /\ opts.do_throughput = 1
  /\ i \in TputSizes
  /\ area_test_size' = 2 ^ i
  /\ itn' = IF i > 22 THEN 1 ELSE 2 ^ (22 - i)
  /\ i' = i + 1
  /\ StartThreads(<<"write", "clear", "read">>, 2 ^ i, "throughput")
  /\ UNCHANGED <<argv, opts, l2_cache_size>>
  /\ UNCHANGED LatencyVars

(* After the loop: if (do_stress) the stress loop with a 32 MiB area and  *)
(* itn = 100, else on to the core-to-core test.                            *)
ThroughputDone ==
  /\ mpc = "throughput"
  /\ opts.do_throughput = 0 \/ i \notin TputSizes
  /\ IF opts.do_stress # 0
       THEN mpc' = "stress" /\ area_test_size' = 2 ^ 25 /\ itn' = 100
       ELSE mpc' = "c2c" /\ UNCHANGED <<area_test_size, itn>>
  /\ UNCHANGED <<argv, opts, l2_cache_size, i, calls>>
  /\ UNCHANGED LatencyVars

(* One round of for (;;) in stress mode: the kernel do_stress names        *)
(* through start_threads, or (mode l) do_seq_latency_test(0), which never  *)
(* returns.                                                                *)
StressKernel == <<"write", "clear", "read">>

StressRound ==
  /\ mpc = "stress"
  /\ IF opts.do_stress \in 1..3
       THEN /\ StartThreads(<<StressKernel[opts.do_stress]>>, area_test_size, "stress")
            /\ UNCHANGED LatencyVars
       ELSE /\ mpc' = "stress_seq"
            /\ CallSeq(0)
            /\ UNCHANGED calls
  /\ UNCHANGED <<argv, opts, l2_cache_size, area_test_size, itn, i>>

(* if (do_cache_to_cache) do_c2c_test(first_cpu, use_cpu_memory ?          *)
(* last_cpu : -1); then the -t loop starts at i = 14.                      *)
CacheToCache ==
  /\ mpc = "c2c"
  /\ mpc' = "latency"
  /\ i' = FirstSize
  /\ UNCHANGED <<argv, opts, l2_cache_size, area_test_size, itn, calls>>
  /\ UNCHANGED LatencyVars

(* for (i = 14; i <= 26; i++) do_latency_test(i), once the previous test  *)
(* has returned; then the -s loop, then munmap and return 0.               *)
LatencyLoop ==
  /\ mpc \in {"latency", "seqlatency"}
  /\ pc \in {"idle", "ret"}
  /\ LET on == IF mpc = "latency" THEN opts.do_latency ELSE opts.do_seq_latency
     IN  IF on = 1 /\ i <= LastSize
           THEN /\ IF mpc = "latency" THEN CallChase(i) ELSE CallSeq(i)
                /\ i' = i + 1
                /\ UNCHANGED mpc
           ELSE /\ mpc' = IF mpc = "latency" THEN "seqlatency" ELSE "done"
                /\ i' = FirstSize
                /\ UNCHANGED LatencyVars
  /\ UNCHANGED <<argv, opts, l2_cache_size, area_test_size, itn, calls>>

Engine == EngineNext /\ UNCHANGED MainVars

Next ==
  \/ GetOpt \/ L2Share \/ MapArea
  \/ Overall \/ OverallDone \/ Throughput \/ ThroughputDone \/ StressRound
  \/ CacheToCache \/ LatencyLoop
  \/ Engine

(* main is one thread; while it runs it is eventually scheduled.           *)
Spec == Init /\ [][Next]_vars /\ WF_vars(Next)

-----------------------------------------------------------------------------
(***************************************************************************)
(* Properties                                                              *)
(***************************************************************************)

Ends == mpc \in {"done", "abort", "exit", "killed"}

Call == [kernel : {"write", "clear", "read"}, first : Nat,
         last : Nat, area : {2 ^ k : k \in TputSizes}, l2 : 0..L2_TOTAL]

TypeOK ==
  /\ mpc \in {"getopt", "map", "overall", "overall_seq", "throughput", "stress",
              "stress_seq", "c2c", "latency", "seqlatency", "hung"} \cup
             {"done", "abort", "exit", "killed"}
  /\ opts.first_cpu \in Nat /\ opts.last_cpu \in Nat
  /\ opts.do_stress \in 0..4
  /\ l2_cache_size \in 0..L2_TOTAL
  /\ area_test_size \in {0} \cup {2 ^ k : k \in TputSizes}
  /\ itn \in 0..2 ^ 8 \cup {100}
  /\ calls \subseteq Call
  /\ LatencyTypeOK

(* Every run of the benchmark without a stress mode, and with a core range *)
(* that is not reversed, ends: the loops of main and of the engines it    *)
(* calls all terminate and start_threads' barrier lets Main through.      *)
(* Stress mode (-r) loops for ever by design (spec 5), and a range with    *)
(* first > last + 1 is the caller's responsibility (spec 4.2): the        *)
(* barrier count wraps and Main may block for good.                       *)
ReturnsUnlessStress ==
  (mpc = "map" /\ opts.do_stress = 0 /\ opts.first_cpu <= opts.last_cpu + 1) ~> Ends

(* The prefetch tier thread_read_cache_area picks for an area of `area`    *)
(* bytes against the threshold l2.                                         *)
Prefetch(area, l2) ==
  IF area <= 32768 THEN "none" ELSE IF area <= l2 THEN "L1" ELSE "L1+L2"

(* Spec 4.3: the read kernel chooses its prefetch distance by comparing    *)
(* the working set with the per-thread L2 capacity, 16 MiB shared by the   *)
(* threads that run.  So every read call that runs threads picks the tier  *)
(* that l2 = 16 MiB / threads gives.  At risk because l2_cache_size is     *)
(* computed once (line 596) from the core range of the options, and the   *)
(* overall mode (-b) replaces that range by cores 0 and 1 (639-640) for    *)
(* its own calls and for every mode after it.                              *)
ReadKernelUsesPerThreadL2 ==
  \A c \in calls :
    c.kernel = "read" /\ Threads(c.first, c.last) > 0 =>
      Prefetch(c.area, c.l2) = Prefetch(c.area, L2_TOTAL \div Threads(c.first, c.last))
====
