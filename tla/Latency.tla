------------------------------ MODULE Latency ------------------------------
(***************************************************************************)
(* The two single-threaded latency engines of mb_enzian.c:                 *)
(* do_latency_test(size) (294-361) and do_seq_latency_test(size)           *)
(* (364-423), as routines a caller enters with CallChase or CallSeq and    *)
(* that hand control back in pc = "ret".  Main (module Main) is the        *)
(* caller: its -t and -s loops, the overall mode's test of size 26 and the *)
(* continuous test (size 0) of stress mode l.                              *)
(*                                                                         *)
(* Each test times five trials of an empty loop (the base), keeping the    *)
(* minimum of trials 1..4, and five trials of the measured loop, again     *)
(* keeping the minimum of trials 1..4.  The pointer-chasing test first     *)
(* fills a chain of next-cell indices with the recurrence                  *)
(* next = (13 * cur + 7) & (l - 1) from cell 0 and then follows it with    *)
(* dependent loads.  Elapsed times are chosen from Durations; the memory   *)
(* `area`, seen as an array of 128-byte cells, is the function mem from    *)
(* cell index to the word c[o][0][0] it holds.                             *)
(***************************************************************************)
EXTENDS Naturals, Sequences, FiniteSets

CONSTANTS
  FirstSize, LastSize,  \* log2 of the working sets main's loops use (14..26)
  Durations,            \* elapsed cycles a trial may take
  UINT64_MAX            \* stands for UINT64_MAX: larger than every duration

ASSUME FirstSize \in Nat /\ LastSize \in Nat /\ 7 <= FirstSize /\ FirstSize <= LastSize
ASSUME Durations \subseteq Nat /\ Durations # {} /\ \A d \in Durations : d < UINT64_MAX

CACHELINE_SIZE == 128
\* Number of trials of every timing loop: `for (p = 0; p < 5; p++)`.
Trials == 5

(* l = (1 << size) / CACHELINE_SIZE, the number of cells.                  *)
Lines(size) == (2 ^ size) \div CACHELINE_SIZE

(* ITS = size < 12 ? 1 << (12 - size) : 1; if (ITS == 0) ITS = 1;          *)
Its(size) == IF size < 12 THEN 2 ^ (12 - size) ELSE 1

MaxLines == Lines(LastSize)
Cells == 0..MaxLines - 1

VARIABLES
  pc,          \* which loop of which test the engine is in
  size,        \* the argument of the current test
  p,           \* trial counter
  min,         \* the running minimum
  base,        \* the base latency of the current test
  baseTrials,  \* elapsed values of the base trials of this test (history)
  runTrials,   \* elapsed values of the measured trials of this test (history)
  mem,         \* c[o][0][0] for every cell o of area
  visited,     \* cells loaded by the last chasing trial
  report       \* <<size, base, avg>> of the last line printed

LatencyVars == <<pc, size, p, min, base, baseTrials, runTrials, mem, visited, report>>

(***************************************************************************)
(* The chain recurrence and the two loops that use it.                     *)
(***************************************************************************)

(* The masks below are `& (l - 1)` with l a power of two, that is a       *)
(* reduction modulo l; written as % to keep TLC's evaluation shallow.      *)

\* Recurrence with an even increment.
LcgNextEvenStep(o, l) == (o * 13 + 8) % l

(* uint64_t no = ((o * 13 + 7) & (l - 1));                                 *)
LcgNext(o, l) == (o * 13 + 7) % l

(* The fill loop: o = 0; ITS * l times { no = next(o); c[o][0][0] = no; *)
(* o = no; }.  It writes at the cursors o_0 = 0, o_(j+1) = next(o_j) for   *)
(* j < ITS * l, and every write at o stores next(o), so the loop leaves    *)
(* next(o) at each of those cursors and the rest of the area unchanged.    *)
(* A run of n steps is the set of cursors it visits and the cursor it     *)
(* leaves.  Join(first, Second) is `first` followed by the run Second(o)   *)
(* from the cursor o it leaves.  The runs are bound with \in, not LET, so  *)
(* that TLC evaluates each once, also when it evaluates ENABLED.           *)
Join(first, Second(_)) ==
  CHOOSE r \in UNION {{[cells |-> h.cells \cup t.cells, o |-> t.o] : t \in {Second(h.o)}} :
                      h \in {first}} : TRUE

(* FillRun(o, n, l): the n cursors of the fill loop from o, in halves to   *)
(* keep the evaluation shallow.                                            *)
RECURSIVE FillRun(_, _, _)
FillRun(o, n, l) ==
  IF n = 0 THEN [cells |-> {}, o |-> o]
  ELSE IF n = 1 THEN [cells |-> {o}, o |-> LcgNext(o, l)]
  ELSE Join(FillRun(o, n \div 2, l), LAMBDA x : FillRun(x, n - n \div 2, l))

\* The cursors the fill loop of each size main tests writes at.
FillWrites ==
  [sz \in FirstSize..LastSize |-> FillRun(0, Its(sz) * Lines(sz), Lines(sz)).cells]

\* The area after the fill loop (W bound once, as in Join).
FillFrom(m, sz) ==
  CHOOSE f \in {[o \in DOMAIN m |-> IF o \in W THEN LcgNext(o, Lines(sz)) ELSE m[o]] :
                W \in {FillWrites[sz]}} : TRUE

(* The addresses of n dependent loads o = c[o][0][0] from cursor o, and    *)
(* the cursor they leave.                                                  *)
RECURSIVE LoadRun(_, _, _)
LoadRun(m, o, n) ==
  IF n = 0 THEN [cells |-> {}, o |-> o]
  ELSE IF n = 1 THEN [cells |-> {o}, o |-> m[o]]
  ELSE Join(LoadRun(m, o, n \div 2), LAMBDA x : LoadRun(m, x, n - n \div 2))

LoadsFrom(m, n) == LoadRun(m, 0, n).cells

(* Number of loads of one chasing trial: ITS * l / 8 iterations of 8.      *)
ChaseLoads(sz) == ((Its(sz) * Lines(sz)) \div 8) * 8

\* Keeps every trial, the warm-up trial 0 included.
KeepMinAll(diff) == IF diff < min THEN diff ELSE min

(* if (p > 0 && diff < min) min = diff;                                    *)
KeepMin(diff) == IF p > 0 /\ diff < min THEN diff ELSE min

(***************************************************************************)
(* Actions                                                                 *)
(***************************************************************************)

(* No test running yet.  The area is freshly mapped huge pages            *)
(* (zero-filled) touched by main.                                          *)
EngineInit ==
  /\ pc = "idle"
  /\ size = 0
  /\ p = 0
  /\ min = UINT64_MAX
  /\ base = 0
  /\ baseTrials = <<>>
  /\ runTrials = <<>>
  /\ mem = [o \in Cells |-> 0]
  /\ visited = {}
  /\ report = <<>>

(* Entry of do_latency_test(sz) or do_seq_latency_test(sz) from a caller   *)
(* that is not inside a test: min = UINT64_MAX before the base loop.       *)
EnterTest(entry, sz) ==
  /\ pc \in {"idle", "ret"}
  /\ pc' = entry
  /\ size' = sz
  /\ p' = 0
  /\ min' = UINT64_MAX
  /\ baseTrials' = <<>>
  /\ runTrials' = <<>>
  /\ visited' = {}
  /\ UNCHANGED <<base, mem, report>>

CallChase(sz) == EnterTest("base", sz)

CallSeq(sz) == EnterTest("seqbase", sz)

(* One trial of the nop loop of either test; after the fifth, base = min.  *)
(* The chasing test then fills the chain; the sequential test has no fill  *)
(* and resets min for the measured loop at the top of its do-while.        *)
BaseTrial ==
  /\ pc \in {"base", "seqbase"}
  /\ \E diff \in Durations :
       LET m == KeepMin(diff) IN
       /\ baseTrials' = Append(baseTrials, diff)
       /\ IF p + 1 < Trials
            THEN /\ p' = p + 1 /\ min' = m
                 /\ UNCHANGED <<pc, base>>
            ELSE /\ base' = m
                 /\ pc' = IF pc = "base" THEN "fill" ELSE "seq"
                 /\ p' = 0
                 /\ min' = IF pc = "base" THEN m ELSE UINT64_MAX
  /\ UNCHANGED <<size, runTrials, mem, visited, report>>

(* Fill the pointers using the recurrence, then min = UINT64_MAX.          *)
Fill ==
  /\ pc = "fill"
  /\ mem' = FillFrom(mem, size)
  /\ min' = UINT64_MAX
  /\ pc' = "chase"
  /\ UNCHANGED <<size, p, base, baseTrials, runTrials, visited, report>>

(* One chasing trial: o = 0 and ITS * l / 8 rounds of eight dependent      *)
(* loads, timed.                                                           *)
ChaseTrial ==
  /\ pc = "chase"
  /\ \E diff \in Durations :
       /\ runTrials' = Append(runTrials, diff)
       /\ min' = KeepMin(diff)
  /\ visited' = LoadsFrom(mem, ChaseLoads(size))
  /\ p' = p + 1
  /\ pc' = IF p + 1 < Trials THEN "chase" ELSE "report"
  /\ UNCHANGED <<size, base, baseTrials, mem, report>>

(* One sequential trial: o |= c[i + j][0][0] for every cell i + j < l, in  *)
(* rounds of eight, timed.  The loads do not change any state the model    *)
(* keeps.                                                                  *)
SeqTrial ==
  /\ pc = "seq"
  /\ \E diff \in Durations :
       /\ runTrials' = Append(runTrials, diff)
       /\ min' = KeepMin(diff)
  /\ p' = p + 1
  /\ pc' = IF p + 1 < Trials THEN "seq" ELSE "seqreport"
  /\ UNCHANGED <<size, base, baseTrials, mem, visited, report>>

(* avg = min; the net latency (avg - base) / rate / loads is printed.  A   *)
(* sequential test of size 0 (the continuous mode) goes round its          *)
(* do-while again with min = UINT64_MAX; every other test returns.         *)
Report ==
  /\ pc \in {"report", "seqreport"}
  /\ report' = <<size, base, min>>
  /\ IF pc = "seqreport" /\ size = 0
       THEN /\ pc' = "seq"
            /\ p' = 0
            /\ min' = UINT64_MAX
            /\ runTrials' = <<>>
       ELSE /\ pc' = "ret"
            /\ UNCHANGED <<p, min, runTrials>>
  /\ UNCHANGED <<size, base, baseTrials, mem, visited>>

EngineNext == BaseTrial \/ Fill \/ ChaseTrial \/ SeqTrial \/ Report

-----------------------------------------------------------------------------
(***************************************************************************)
(* Properties                                                              *)
(***************************************************************************)

SetMin(S) == CHOOSE x \in S : \A y \in S : x <= y
SeqMin(s) == SetMin({s[j] : j \in DOMAIN s})

LatencyTypeOK ==
  /\ pc \in {"idle", "base", "fill", "chase", "report", "seqbase", "seq", "seqreport", "ret"}
  /\ size \in Nat
  /\ p \in 0..Trials
  /\ min \in Durations \cup {UINT64_MAX}
  /\ mem \in [Cells -> Cells]
  /\ visited \subseteq Cells
  /\ baseTrials \in Seq(Durations) /\ runTrials \in Seq(Durations)

(* Reference for the chain: iterating the recurrence from 0 (with mod l in *)
(* place of the mask) l times meets every index in 0..l-1.                 *)
(* x_j = 7 * (13^j - 1) / 12 mod l, the closed form of x_0 = 0,           *)
(* x_(j+1) = 13 * x_j + 7; 13^j is taken mod 12 * l by squaring.          *)
RECURSIVE PowMod(_, _, _)
PowMod(b, e, m) ==
  IF e = 0 THEN 1 % m
  ELSE LET h == PowMod(b, e \div 2, m)
           hh == (h * h) % m
       IN  IF e % 2 = 0 THEN hh ELSE (hh * b) % m

Orbit(l) == {(7 * ((PowMod(13, j, 12 * l) - 1) \div 12)) % l : j \in 0..l - 1}

(* Spec 3 and 8: the permutation table is a single cycle through all l     *)
(* cells, so that a chasing trial of l loads touches the whole working     *)
(* set once each, whatever an earlier, smaller or larger, test left in the *)
(* cells.  Checked on the loads the code makes over the memory its fill    *)
(* loop wrote, and against the reference orbit.                            *)
ChaseVisitsEveryCell ==
  pc = "report" =>
    /\ visited = 0..Lines(size) - 1
    /\ Cardinality(visited) = ChaseLoads(size)
    /\ visited = Orbit(Lines(size))

(* Spec 8: every reported base and measured value is the minimum of the    *)
(* trials 1..4, the warm-up trial 0 being excluded, for both engines.      *)
KeptMinimum ==
  pc \in {"report", "seqreport"} =>
    /\ base = SeqMin(Tail(baseTrials))
    /\ min = SeqMin(Tail(runTrials))
=============================================================================
