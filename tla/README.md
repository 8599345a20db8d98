# TLA+ models of enzian-memory

This directory holds TLA+ specifications of the Enzian memory benchmark
(`src/mb_enzian.c`) and of its companion programs. TLC checks them. Each module
is translated from the C source. `PROJECT.json` maps every definition to the
source lines it models. It also lists the runs, the mutants that show each
property can fail, the findings, and the hazards of the code.

## 1. The system

### Inventory

| Part | Source | State | Operations | Concurrency |
|---|---|---|---|---|
| Timebase | `mb_enzian.c` 86-96, 597-605 | `rate` (global double) | `now()`, one calibration at startup | none |
| Thread/Barrier Harness | `mb_enzian.c` 134-162 | `barrier`, `tids[]`, each worker's `min`, Main's sum | barrier init, create, 1+3 waits, joins, average | Main plus one pinned worker per core |
| Memory Access Kernels | `mb_enzian.c` 164-291 | the worker's `min`, `k`; the area slice | 4 phases: barrier wait, timed body, keep min | one per core, disjoint slices |
| Pointer-Chasing Engine | `mb_enzian.c` 294-361 | `min`, `base`, the cell array `c[o][0][0]` | 5 base trials, fill of the chain, 5 chasing trials, report | single thread |
| Sequential Latency Engine | `mb_enzian.c` 364-423 | `min`, `base` | 5 base trials, 5 scans (forever when size is 0), report | single thread |
| Core-to-Core Protocol | `mb_enzian.c` 426-504 | `c2c_data[0]`, `c2c_data[16]`, `i`, `v` | barrier of 3 (CPU) or 2 (FPGA), countdown ping-pong | Main, thread 1, thread 2 or the FPGA |
| Driver `main` | `mb_enzian.c` 507-754 | option flags, `first_cpu`, `last_cpu`, `area`, `l2_cache_size` | parse, calibrate, map, run the chosen modes in a fixed order | calls the above |
| FPI interrupt driver | `enzian_fpi.c` | `wq`, `wq_flag`, `dev_major`, the chrdev region, cdev and per-CPU IRQ | init (chrdev, device file, queue, IRQ), exit, `open`, `read` (wait, clear), `fpi_handler` (set, wake), `ioctl` | insmod/rmmod, readers, IRQ handlers on any CPU |
| FPI clients | `receive_fpi.c`, `send_fpi.c` | none | open, one `read`, close; open, one `ioctl`, close | separate processes |
| Device-memory utility | `mem.c` | none | one read or write of one address | none |
| Redis CSV loader and queries | `redis_fpga.c` | arena cursor, schema, `tokens[]`, rows | fpga_alloc, next_line, load (header, first row, other rows), 4 queries | single thread against a Redis server |
| Redis loader | `redis_loader.c` | the same | the same | does not compile (line 167) |

### How the parts interact

`main` calls start_threads once per kernel and size. start_threads puts Main
and the workers through one barrier: one rendezvous to start, then one per
phase. The latency engines run on the main thread alone. do_c2c_test creates
its own threads and re-initialises the same global barrier.

The FPI driver is a separate kernel module. `receive_fpi` blocks in its `read`
until `fpi_handler` runs on an interrupt from the FPGA. `send_fpi` asks the
driver, via ioctl 0, to write an SGI towards the FPGA. insmod and rmmod run
the module's init and exit while clients and interrupts may already, or
still, be active.

### Behaviours that are hard to test

- **Barrier pairing.** The barrier has a count of `last-first+2`. Main waits
  four times and each worker waits four times, and the waits must pair round
  by round.
- **Stale mailboxes in the c2c protocol.** The round count there is also off by
  one.
- **The chain recurrence.** It must be a full cycle for every size, over
  memory that an earlier test left behind.
- **main's arithmetic.** The per-thread L2 share is computed once from the
  option range, which a later mode overwrites. Unsigned divisions can be by
  zero or by a wrapped value.
- **The FPI flag.** One flag serves any number of readers and interrupts.
  Signals can interrupt the wait.
- **The FPI module's lifecycle.** The device file is live before the wait
  queue is initialised; exit must silence the IRQ before the module's memory
  goes, and must undo the registrations so that the module can be reloaded.
- **The barrier count of a reversed core range.** `last-first+2` wraps in
  the unsigned count, to 0 or to about 2^32.

## 2. The modules

| Module | Models | Lines |
|---|---|---|
| `PthreadBarrier` | the semantics of the POSIX barrier the code relies on | calls at `mb_enzian.c` 142, 151-154, 177, 160 |
| `Rendezvous` | the abstract promise of both barrier protocols (spec 4.2, 5): members leave rendezvous r only once every member reached r | none: an abstract specification |
| `Harness` | start_threads plus the shared worker loop | 134-197 |
| `C2C` | do_c2c_test, thread_c2c_1, thread_c2c_2, and the FPGA echo | 426-504 |
| `Latency` | do_latency_test and do_seq_latency_test, as engines main calls | 294-423 |
| `Main` | main: options, L2 share, mapping, the modes in order; EXTENDS `Latency` | 507-754, 134-161, 239-270 |
| `Fpi` | the module's init and exit, enzian_fpi_open, enzian_fpi_read, fpi_handler, enzian_fpi_ioctl, with receive_fpi and send_fpi as clients | `enzian_fpi.c` 38-174, `receive_fpi.c`, `send_fpi.c` |
| `CsvLoader` | redis_fpga.c's main, arena check, file read, next_line, load_dataset_generic and the queries | `redis_fpga.c` 32-374, 420-466 |

`MCHarness`, `MCC2C`, `MCMain`, `MCFpi` and `MCCsvLoader` fix the constants
for TLC.

### PthreadBarrier

The barrier's state is:
- `arrived`: the threads blocked in the current round;
- `round`: the number of rounds completed;
- `waitRound[t]`: the round thread t entered;
- `count`: the count given to `pthread_barrier_init`.

Its operators are:
- `BarrierInit(n)` is `pthread_barrier_init(&barrier, NULL, n)`.
- `Arrive(t)` is a call of `pthread_barrier_wait`. The `count`-th arrival
  completes the round.
- `Released(t)` is the return from that call.

The using modules instantiate it with `INSTANCE ... WITH`, mapping `Parties`
to their threads, and call `BarrierInit` with the count the code computes.
The count is state, not a constant, because `do_c2c_test` computes it from
its argument `second_cpu`.

### Harness

Main's program counter `mpc` follows start_threads:
- `CreateWorker`: the creation loop;
- `MainWait1`/`MainLeave1`: the first barrier wait;
- `MainWait3`/`MainLeave3`: the loop of three waits;
- `Join`: the join loop, which sums into `sum` and sets `result`.

Each worker `c` has:
- `wpc[c]`;
- `k[c]` (the phase);
- `wmin[c]` (its `min`);
- a history `samples[c]` of its phase times.

A worker's actions are:
- `WorkerWait`: pthread_barrier_wait;
- `WorkerStart`: released, takes `cycles = now()`;
- `WorkerFinish`: the body, `cycles = now() - cycles`, keep the minimum, and
  loop or return.

The three kernels have the same loop. Their bodies are abstracted to an
elapsed time chosen from `Durations`, because the harness reads nothing else
of them.

`ImplementsRendezvous` shows that `Harness` implements `Rendezvous`. The
instance has the four rounds, and every thread (Main and the workers) is a
member. The refinement mapping takes `reached[t]` from `Arrivals(t)`, the
barrier waits thread t has entered. It takes `passed[t]` from `Passes(t)`,
the waits that have returned: for a worker, its phase `k` plus one while it
is timing.

### Rendezvous

`reached[p]` counts the rendezvous party p has come to, and `passed[p]` those
it has left. `members` is fixed in `Init`, and says which of the possible
parties take part.
- `Reach(p)`: a member at no rendezvous comes to its next one.
- `Pass(p)`: a party leaves its rendezvous once every member has reached it.

Weak fairness on both actions promises that every member goes through all
`Rounds`. A concrete module implements it when its behaviours, seen through
the mapping, are behaviours of `Rendezvous!Spec`. Its liveness part is
included.

### C2C

The state is:
- the mailboxes `mbox0` (`c2c_data[0]`) and `mbox16` (`c2c_data[16]`), which
  start with arbitrary old values;
- Main's `mpc`;
- thread 1's `pc1` and counter `i1`;
- thread 2's `pc2` and value `v2`;
- `useFpga`, the argument `second_cpu == -1`, chosen in `Init` because main
  calls the test both ways;
- the barrier.

Every action is one load or one store. The code fences each store
(`__sync_synchronize`) and the mailboxes are `volatile`, so sequentially
consistent steps are adequate. `Echo` is the FPGA copying the first line into
the second. It is modelled from spec 4.6, because the FPGA logic is not part
of this repository.

The history variables are:
- `echoed`: the values thread 2 or the FPGA copied;
- `trips`: the round trips thread 1 completed.

`MaxI` stands for the 1000 of the countdown.

`ImplementsRendezvous` shows that the barrier of lines 479 and 496 is one
round of `Rendezvous`. Its members are the threads that exist: main and
thread 1 against the FPGA, and also thread 2 against a core. A thread has
reached the rendezvous once it is blocked in pthread_barrier_wait. It has
passed it once the call returned.

### Latency

The state is:
- `pc` (which loop of which test), `size`, `p`, `min` and `base`;
- `mem`, the word `c[o][0][0]` of every cell;
- `visited`, the cells the last chasing trial loaded;
- `report`, the last line printed, as `<<size, base, min>>`;
- the trial histories.

The module is a library of engines: `EngineInit`, `CallChase(sz)` and
`CallSeq(sz)` (the calls), and `EngineNext`, the steps of a running test.
`Main` composes it. `Report` returns to the caller, except in the continuous
mode (`do_seq_latency_test(0)`), where it goes round the do-while again.

`Fill` applies the fill loop, with the code's recurrence, to the real `mem`.
Each write at cursor o stores next(o), so the loop leaves next(o) at every
cursor it passes and nothing else changes. `FillWrites` holds those cursors
for each size. `ChaseTrial` follows the pointers the fill wrote. The cursor
walks are recursive operators (`FillRun`, `LoadRun`) that split the walk in
halves. `Join` binds each half with `\in` rather than `LET`, so that TLC
evaluates it once even when it evaluates `ENABLED` for fairness. The mask
`& (l - 1)` is written `% l`: l is a power of two, so the two are equal.

### Main

`Main` EXTENDS `Latency`. Its state is:
- `argv`, the options getopt has still to return, from the constant `Argvs`;
- `mpc`, where main is;
- `opts`, the globals the options set;
- `l2_cache_size`, `area_test_size`, `itn` and the loop counter `i`;
- `calls`, a history of every start_threads call with its core range, area
  and the L2 share at the time.

Its actions follow main in order:
- `GetOpt` is one round of the getopt loop (an unknown option aborts);
- `L2Share` is the L2 share at line 596;
- `MapArea` is the mapping, with the FPGA path's assert and the CPU path's
  exit;
- `Overall` is the `-b` mode (cores 0 and 1, three kernels, then the
  sequential test of size 26);
- `Throughput` is one size of the `-m` loop;
- `StressRound` is one round of the `for (;;)` of `-r`;
- `CacheToCache` is the `-c` step;
- `LatencyLoop` is one call of the `-t` or `-s` loop;
- `Engine` is a step of the latency engine that is running.

A division by an unsigned expression is modelled by `UDiv`. A negative
mathematical divisor wraps to 2^w + d, which exceeds every dividend, so the
quotient is 0. A divisor of 0 is undefined: the build traps on x86 and gives 0
on aarch64, so the model allows both. A trap ends the process (`"killed"`).
Each start_threads call appends its arguments to `calls`: the threads it runs
are `Harness`'s subject, and the run of `Harness` shows that for a range with
at least one core Main passes the barrier and start_threads returns.
`StartThreads` keeps what decides whether Main gets through, the count given
to `pthread_barrier_init` (`BarrierWait`): `last-first+2` in an unsigned int
equals the parties when first <= last+1. It is 0 for first = last+2: init
fails with EINVAL and the wait on the uninitialised barrier is undefined
(glibc takes a remainder modulo the count, so it traps or blocks). It wraps to
2^32-k beyond that, and Main, the only party, blocks for good (`"hung"`).
The prefetch tier the read kernel picks (`Prefetch`, lines 239-270) is a
function of the area and the share.

### Fpi

The state is:
- `wq_flag`;
- each reader's position `rpc[r]`: idle, with the file open, testing the
  condition, asleep on `wq`, past the wait, or oopsed;
- the counts of reads, returns, handled interrupts and signals that ended a sleep;
- the ioctl results;
- the module's stage `mod`: out, device file live (after line 133), queue
  initialised (135-136), live (init returned);
- `major`, and the sets `regions` and `cdevs` of the majors whose char device
  region and cdev are registered; `irqOn`, whether fpi_handler is requested
  and enabled; `loads`; `oops`, what ran on an uninitialised wait queue.

`LoadChrdev`, `InitQueue` and `InitIrq` are enzian_fpi_init cut at the points
that readers and interrupts can observe. Every error there is only
`WARN_ON`'d. A failed `alloc_chrdev_region` leaves `dev` uninitialised, so the
major is any value. A failed IRQ mapping returns an unsigned 0 that
`WARN_ON(err < 0)` misses, so `InitIrq` chooses whether a handler is in
place. `Exit` runs once no reader holds the file: the open took a module
reference through `cdev.owner`, and delete_module refuses a module whose
count is not 0. That guard is the kernel's, so no property restates it. It
disables and frees the IRQ and destroys
the device file. It leaves the region, whose minor count MINORMASK matches
nothing, and the cdev, which it never deletes. A reader opens while the device
file exists (`Open`). Its `Read` queues it on `wq`, or oopses on a queue that
is not yet initialised.

`wait_event_interruptible` queues the reader before it tests the condition,
so a wake-up is never lost between the test and the sleep. The model therefore
tests and sleeps in one step (`Check`). `Handler` sets the flag and moves every
sleeper back to testing. `Signal` ends a sleep, and the code then carries on
as if woken.

### CsvLoader

The dataset is a sequence of bytes from a small set: a digit `"1"`, a letter
`"a"`, `","`, `"CR"` and `"NL"`. The constant `Files` is the set of datasets
to try.

The two string routines are modelled by what they do to such a sequence:
- `NextLine` is `next_line`. It cuts at the next newline, trims one `\r`
  except on an unterminated last line, and returns NULL at the end.
- `Strtok` gives the tokens `strtok_r` returns. Runs of commas are one
  separator, so empty fields vanish.

Redis hashes are sets of `<<row, field, value>>` triples with HSET's
overwrite semantics.

The actions follow `load_dataset_generic`'s phases:
- `Header`;
- `FirstRow`, which fills `tokens[]` and infers `is_int`;
- `StoreFirst`, which writes the schema hash and row 1. Reading an unset
  `tokens[i]` is undefined, so the action either crashes or stores garbage,
  and in both cases sets `ub`;
- `NextRow`, one iteration of the remaining-rows loop;
- `Select`, `Project` and `Aggregate`, which are main's queries.

`ReadFile` and `Setup` carry the failure paths:
- the open or mmap of the device fails;
- Redis does not connect;
- stat, fopen or fread fails;
- the arena is too small.

A reference reading of the file as CSV is written independently of the
code's routines:
- `RefLines` cuts at every newline;
- `RefFields` cuts at every comma, keeping empty fields;
- `RefRows` gives the records;
- `RefStore` and `RefIntSum` give what should be stored and summed.

## 3. The runs

Every passing run has one mutant per property, listed in `PROJECT.json`. Each
mutant is a plausible bug in the mapped code, and TLC reports it as a
violation of that property.

| Run | Config | Expect | Checks |
|---|---|---|---|
| harness | `MCHarness.cfg` | pass | `TypeOK`, `ResultIsMeanOfMinima`, `Termination`, `ImplementsRendezvous` (four rounds of the abstract rendezvous, liveness included; its safety part is that no worker starts timing phase k while a thread has not reached phase k's barrier) |
| c2c | `MCC2C.cfg` | pass | against a second core and against the FPGA: `TypeOK`, `NoEarlyExit` (thread 2 never stops on a stale 0), `EveryRoundEchoed`, `Termination`, `ImplementsRendezvous` (one round; its members depend on `second_cpu`) |
| main | `MCMain.cfg` | pass | every command line of up to two options: `TypeOK` (the unsigned arithmetic stays in range), `ReturnsUnlessStress` (without `-r`, and with a core range that is not reversed, main always ends; a reversed range reaches `"hung"`) |
| main_latency | `MCMainLatency.cfg` | pass | `-t -s` and stress mode l: `ChaseVisitsEveryCell` (the chain is one cycle through all cells, compared with a closed-form orbit), `KeptMinimum` (min of trials 1..4, for both engines) |
| main_l2 | `MCMainL2.cfg` | violation | `ReadKernelUsesPerThreadL2`: after `-b`, the read kernel uses the share of the wrong core range |
| fpi | `MCFpi.cfg` | pass | one reader, signals possible, two loads: `TypeOK`, `WokenReaderReturns`, `HandlerFindsQueue` (an enabled handler always has an initialised queue) |
| fpi_two_readers | `MCFpiTwoReaders.cfg` | violation | `NoReadWithoutInterrupt`: one interrupt returns two reads |
| fpi_unload | `MCFpiUnload.cfg` | violation | `ExitReleasesDevice`: after rmmod the region and cdev stay registered |
| fpi_lost | `MCFpiLost.cfg` | violation | `NoInterruptLost`: two interrupts merge into one return |
| csv | `MCCsvLoader.cfg` | pass | `TypeOK`, `FilledFileLoaded` (a CSV with every field filled is stored as it reads), `QueriesSumIntColumns` (both queries sum exactly its integer columns) |
| csv_empty_field | `MCCsvLoaderEmptyField.cfg` | violation | `FieldsKeepTheirColumn`: an empty field shifts later values to the previous column |
| csv_short_row | `MCCsvLoaderShortRow.cfg` | violation | `NoUninitialisedToken`: a short first record leaves tokens[] unset, and StoreFirst reads it |

### Bounds

- **Harness.** Cores 1..2 with Main, and `Durations = {1, 2}`. Two workers and
  Main give every order of arrival at each of the four barrier rounds. Two
  durations make the per-worker minima differ, and make phase 0 the unique
  minimum in some behaviours.
- **C2C.** `MaxI = 5`, and the old mailbox values are {0, 2}. The values
  include 0, the stale-zero case, and a value the countdown reaches.
- **Main.** Every argument vector of up to two options over `-h`, `-b`, `-s`,
  `-t`, `-m`, `-c`, `-p`, `-f 1`, `-f 2`, `-l 1`, `-r w`, `-r l`, `-r x` and
  an option getopt rejects. `-f 1`, `-f 2` and `-l 1` give ranges with one
  and two threads, an empty range (divisor 0, barrier count 1, also with
  `-m`) and a reversed one (a wrapped divisor, barrier count 0). The main run takes one trial length, because the trials' values
  are main_latency's subject. main_latency runs `-t -s` and `-r l` with two
  trial lengths.
- **Latency.** The `-t` and `-s` loops run over `FirstSize..LastSize` = 14..15
  instead of 14..26: 2^14 and 2^15 bytes, that is 128 and 256 cells, which is
  what main's first two iterations use. The second test runs over the memory
  the first left behind. Below 2^12 the code's ITS factor applies. The check
  over the real cell counts covers the recurrence at the sizes main uses
  first. The closed-form orbit also covers any power of two one cares to
  instantiate.
- **Fpi.** Three interrupts, four reads, two ioctl calls, and one or two
  readers. That is enough for an interrupt before, between and after each step
  of a read. Two loads of the module: with one free major (`Majors = {m1}`)
  the second load finds none and takes the uninitialised major; the unload
  run has two.

- **CsvLoader.** The pass run tries every file of up to seven bytes over the
  five-byte alphabet, about 97,000 files and 3.2 million states. That includes
  a header and records of two fields, blank lines, CRLF endings, headers wider
  than `MAX_COLS = 2`, and short and empty records. A later record with an
  empty field needs ten bytes, so the empty-field run takes a two-column
  header and record followed by every tail of up to three bytes. The arena is
  scaled down to five bytes, so that a file larger than the mapping is among
  the inputs.

### Fairness

- **Harness and C2C.** Each thread is pinned to a core of its own. C2C threads
  spin rather than block, and the OS runs a runnable thread, so each thread
  gets weak fairness. The FPGA echo gets weak fairness too, because spec 4.6
  describes the FPGA as always serving the line. `Rendezvous` asks weak
  fairness of each member's `Reach` and `Pass`, and these concrete fairness
  conditions are what deliver it.
- **Main and CsvLoader.** They are sequential: weak fairness on `Next`.
- **Fpi.** A reader's own steps are fair: the kernel runs a woken task. So
  is the rest of enzian_fpi_init once insmod has started it. Interrupts,
  signals, new calls, insmod and rmmod are never forced.

The configs say `CHECK_DEADLOCK FALSE` in three cases:
- the modelled function returns (start_threads, do_c2c_test);
- the program ends (main returns, aborts, exits or is killed);
- a read may wait forever for an interrupt that never comes (Fpi).

## 4. Findings

1. **Stale L2 share (benchmark bug).** `l2_cache_size` is computed once from
   the option range (line 596). `-b` then sets cores 0 and 1 (639-640), and
   every later mode uses that range with the old share. With `-m -b`, the
   read kernel treats a 16 MiB working set as fitting a 16 MiB share and
   prefetches into L1 only. Spec 4.3's per-thread share for two threads is
   8 MiB, which calls for the L1+L2 tier.
2. **Driver leaks its device on unload (driver bug).** `enzian_fpi_exit`
   calls `unregister_chrdev_region(MKDEV(dev_major, 0), MINORMASK)` for a
   region of one minor. The kernel releases only a region whose minor count
   matches, so the major stays registered. `cdev_del` is never called, so the
   cdev stays mapped into the unloaded module. Each reload takes a new major.
   When none is left, the failed allocation is only warned about, and the
   uninitialised `dev` supplies the major.
3. **Two reads per interrupt (driver bug).** One interrupt wakes every blocked
   reader, and two of them can return.
4. **Lost interrupt (driver bug).** Two interrupts that arrive before a read
   clears the flag make one read return. The next read blocks.
5. **Empty-field shift (loader bug).** The CSV loader drops empty fields
   (`strtok_r`). The record `,1` under the header `a,1` stores `1` as column
   `a`.
6. **Uninitialised tokens (loader bug).** A blank or short first data record
   makes the loader pass uninitialised `tokens[i]` to HSET (line 238).

## 5. What is not modelled, and why

- **Timebase.** Arithmetic on two clock readings. The calibration skew is a
  documented, accepted limitation (spec 4.1).
- **The kernel bodies and the prefetch tier of the read kernel.** They change
  no state the harness reads. Caching effects are outside a functional model.
- **Weak memory ordering.** Every shared store in the c2c protocol is followed
  by a full fence, and the harness shares only through the barrier and
  pthread_join, so sequential consistency is adequate.
- **Three observations without a run of their own.** The c2c loop makes
  1001 round trips while the `/200` normalisation assumes 1000: `C2C`'s
  `RoundTripsAsSpecified` fails, but spec 4.6 itself runs the counter from
  1000 down to 0. A reader that opens `/dev/fpi` between `device_create` (line
  133) and `init_waitqueue_head` (135) oopses: the fpi run reaches that state
  (`rpc = "oops"`) without a property against it. A signal makes `read`
  return 0 without an interrupt (`enzian_fpi.c` 79): `NoReadWithoutInterrupt`
  fails that way too when `Signals` is TRUE, but its run shows the two-reader
  case. Spec 8 says the harness result excludes phase 0; the worker keeps it,
  as spec 4.2 says, so the spec disagrees with itself rather than with the
  code.
- **The core-to-core test inside main.** One step in `Main`; `C2C` checks it
  alone. `tids[128]` (line 148) is indexed by core number; the models use
  cores below 128, so the overflow is listed as a hazard and not checked.
- **The mapping's contents, calibration and printing.** I/O.
- **The rest of `redis_fpga.c`.** The Gaussian key draw, the timings,
  `set_persistence`, `print_memory` and the summary printout read from Redis
  or print. The summary divides by `row_count`, which may be 0 (listed as a
  hazard).
- **`mem.c` and `redis_loader.c`.** `mem.c` is one sequential access: open,
  map, one read or one write with a write-back ioctl, unmap. No state outlives
  it, and its one edge, an offset never checked against the 1 TiB mapping, is
  a single input that a unit test reaches. `redis_loader.c` does
  not compile.
- **The FPI driver's printk and the SGI word.** `send_fpi` ORs an unmasked
  affinity into the ICC_SGI1R_EL1 word; the model counts SGIs and leaves the
  register layout out.

## 6. Plan

Done so far:
- `PthreadBarrier`, `Harness`, `C2C`, `Latency`, `Fpi` and `CsvLoader`, with
  their runs and mutants.
- `Main`: main's option loop, L2 share, mapping and modes, composed with the
  latency engines (including the continuous mode), with the main,
  main_latency and main_l2 runs; the barrier count of reversed ranges.
- `Fpi`: the module's load, unload and reload, with the fpi_unload run.
- `Rendezvous`, the abstract specification of the barrier protocols. `Harness`
  and `C2C` are shown to implement it (`ImplementsRendezvous`).

Next, in order:
1. **`CsvLoader` additions.** Duplicate header names (HSET overwrites one
   column with the other), and typing from a shifted first record.
2. **Main with Harness.** Run the threads of each recorded start_threads call
   through `Harness`. `Main` already keeps the barrier count of the empty and
   reversed ranges.
