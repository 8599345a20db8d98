-------------------------------- MODULE Fpi --------------------------------
(***************************************************************************)
(* The FPGA-processor interrupt driver enzian_fpi.c together with its two  *)
(* user-space clients: receive_fpi.c, which opens /dev/fpi and blocks in   *)
(* one read(), and send_fpi.c, which asks the driver by ioctl(fd, 0, ...)  *)
(* to raise an SGI towards the FPGA.                                       *)
(*                                                                         *)
(* The driver's whole state is the wait queue wq and the word wq_flag.     *)
(* enzian_fpi_read runs wait_event_interruptible(wq, wq_flag != 0) and     *)
(* then clears wq_flag and returns 0; fpi_handler sets wq_flag = 1 and     *)
(* wakes the queue.  wait_event_interruptible is the kernel's loop         *)
(* `prepare_to_wait; if (cond) break; if (signal) return -ERESTARTSYS;     *)
(* schedule();`: a reader tests the condition, sleeps if it is false and   *)
(* tests it again each time it is woken.  Because the reader is queued     *)
(* before it tests, a wake-up that follows the test is never missed; the   *)
(* model therefore tests and goes to sleep in one step.                    *)
(*                                                                         *)
(* Readers are receive_fpi processes; one that has returned may be run     *)
(* again.  Interrupts are raised by the FPGA at any time, up to MaxIrqs.   *)
(*                                                                         *)
(* The module itself is loaded and unloaded: enzian_fpi_init registers a   *)
(* char device region and cdev, creates /dev/fpi, initialises wq and then  *)
(* requests and enables the per-CPU SGI; enzian_fpi_exit undoes part of    *)
(* that.  Both run in insmod's or rmmod's thread while readers and the     *)
(* FPGA go on, so init is split at the points where others can observe     *)
(* it: the device file exists (line 133), the queue is initialised (135),  *)
(* the interrupt is enabled (153-156).                                     *)
(***************************************************************************)
EXTENDS Integers

CONSTANTS
  Readers,   \* receive_fpi processes (model values)
  Signals,   \* TRUE if a sleeping reader may receive a signal
  MaxIrqs,   \* bound on the interrupts the FPGA raises
  MaxReads,  \* bound on the read() calls the readers make
  MaxSends,  \* bound on the ioctl() calls send_fpi makes
  Majors,    \* the dynamic char device majors alloc_chrdev_region may give
  MaxLoads   \* bound on the insmod calls

ASSUME Signals \in BOOLEAN
ASSUME MaxIrqs \in Nat /\ MaxReads \in Nat /\ MaxSends \in Nat /\ MaxLoads \in Nat

\* The ioctl commands a caller may pass: 0 and one the driver does not know.
Cmds == {0, 1}
EINVAL == 22

VARIABLES
  wq_flag,   \* the driver's global int wq_flag
  rpc,       \* rpc[r]: where reader r is in its read()
  irqs,      \* interrupts handled so far (history)
  reads,     \* read() calls made so far
  returns,   \* read() calls that returned 0 so far (history)
  sgis,      \* SGIs written to ICC_SGI1R_EL1 by the ioctl
  ioctlRet,  \* the value the last ioctl() returned
  sends,     \* ioctl() calls made so far
  signals,   \* sleeps ended by a signal so far (history)
  mod,       \* the module: "out", or where enzian_fpi_init is, or "live"
  major,     \* dev_major
  regions,   \* majors of the char device regions named "fpi"
  cdevs,     \* majors with an fpi cdev in the kernel's cdev map
  irqOn,     \* fpi_handler requested and enabled on the CPUs
  loads,     \* insmod calls so far
  oops       \* what has oopsed on an uninitialised wait queue (history)

vars == <<wq_flag, rpc, irqs, reads, returns, sgis, ioctlRet, sends, signals,
          mod, major, regions, cdevs, irqOn, loads, oops>>

IoctlVars == <<sgis, ioctlRet, sends>>

LifeVars == <<mod, major, regions, cdevs, irqOn, loads, oops>>

\* init_waitqueue_head(&wq) has run in the module's present incarnation.
WqInit == mod \in {"queue", "live"}

\* Readers with /dev/fpi open: each holds a reference on the module, taken
\* by the open through cdev.owner = THIS_MODULE.
Users == {r \in Readers : rpc[r] \in {"open", "wait", "sleep", "clear"}}

(* The module is not loaded; its statics are zero: wq_flag = 0 and wq.     *)
Init ==
  /\ wq_flag = 0
  /\ rpc = [r \in Readers |-> "idle"]
  /\ irqs = 0
  /\ reads = 0
  /\ returns = 0
  /\ sgis = 0
  /\ ioctlRet = 0
  /\ sends = 0
  /\ signals = 0
  /\ mod = "out"
  /\ major \in Majors
  /\ regions = {}
  /\ cdevs = {}
  /\ irqOn = FALSE
  /\ loads = 0
  /\ oops = {}

(* insmod, lines 122-133: alloc_chrdev_region(&dev, 0, 1, "fpi"),          *)
(* class_create, cdev_init, cdev_add and device_create.  Every error is    *)
(* only WARN_ON'd: when no dynamic major is free the allocation fails and  *)
(* leaves dev, an uninitialised local, to give whatever major it holds;    *)
(* cdev_add maps it regardless.  /dev/fpi exists from here on.             *)
LoadChrdev ==
  /\ mod = "out"
  /\ loads < MaxLoads
  /\ LET free == Majors \ regions
     IN  IF free # {}
           THEN \E m \in free : major' = m /\ regions' = regions \cup {m}
           ELSE \E m \in Majors : major' = m /\ UNCHANGED regions
  /\ cdevs' = cdevs \cup {major'}
  /\ mod' = "node"
  /\ loads' = loads + 1
  /\ UNCHANGED <<irqOn, oops, wq_flag, rpc, irqs, reads, returns, signals, IoctlVars>>

(* Lines 135-136: init_waitqueue_head(&wq); wq_flag = 0.                   *)
InitQueue ==
  /\ mod = "node"
  /\ mod' = "queue"
  /\ wq_flag' = 0
  /\ UNCHANGED <<major, regions, cdevs, irqOn, loads, oops>>
  /\ UNCHANGED <<rpc, irqs, reads, returns, signals, IoctlVars>>

(* Lines 138-158: map SGI 8 (irq_create_fwspec_mapping), request the       *)
(* per-CPU irq with fpi_handler and enable it on every online CPU, then    *)
(* return 0.  A failed mapping returns 0, which WARN_ON(err < 0) misses,   *)
(* and request_percpu_irq of irq 0 then fails with a warning only: init   *)
(* succeeds either way, with or without a handler.                         *)
InitIrq ==
  /\ mod = "queue"
  /\ mod' = "live"
  /\ irqOn' \in BOOLEAN
  /\ UNCHANGED <<major, regions, cdevs, loads, oops>>
  /\ UNCHANGED <<wq_flag, rpc, irqs, reads, returns, signals, IoctlVars>>

\* Exit that leaves the interrupt requested and enabled.
ExitKeepIrq ==
  /\ mod = "live"
  /\ Users = {}
  /\ mod' = "out"
  /\ wq_flag' = 0
  /\ UNCHANGED <<irqOn, major, regions, cdevs, loads, oops>>
  /\ UNCHANGED <<rpc, irqs, reads, returns, signals, IoctlVars>>

(* rmmod, lines 161-174, once no file holds the module (delete_module     *)
(* refuses a live module whose count is not 0, and a module still in init). *)
(* The irq is disabled on every CPU and freed, the mapping disposed of and *)
(* the device file destroyed.  cdev_del is never called, and               *)
(* unregister_chrdev_region(MKDEV(dev_major, 0), MINORMASK) asks for a     *)
(* region of MINORMASK minors, which matches no region of one minor: both  *)
(* registrations stay.  The module's memory, wq and wq_flag, goes; a       *)
(* later insmod starts from zeroed statics.                                *)
Exit ==
  /\ mod = "live"
  /\ Users = {}
  /\ mod' = "out"
  /\ irqOn' = FALSE
  /\ wq_flag' = 0
  /\ UNCHANGED <<major, regions, cdevs, loads, oops>>
  /\ UNCHANGED <<rpc, irqs, reads, returns, signals, IoctlVars>>

(* receive_fpi: open("/dev/fpi", O_RDWR), which the assert requires to     *)
(* succeed, so only while the device file exists.                          *)
Open(r) ==
  /\ rpc[r] = "idle"
  /\ mod # "out"
  /\ reads < MaxReads
  /\ rpc' = [rpc EXCEPT ![r] = "open"]
  /\ reads' = reads + 1
  /\ UNCHANGED <<wq_flag, irqs, returns, signals, IoctlVars, LifeVars>>

(* read(fd, NULL, 0): wait_event_interruptible first tests wq_flag != 0    *)
(* and, if it is false, queues the reader on wq.  Queueing on a wq that    *)
(* init_waitqueue_head has not yet set up follows a null list pointer.     *)
Read(r) ==
  /\ rpc[r] = "open"
  /\ IF WqInit \/ wq_flag # 0
       THEN rpc' = [rpc EXCEPT ![r] = "wait"] /\ UNCHANGED oops
       ELSE rpc' = [rpc EXCEPT ![r] = "oops"] /\ oops' = oops \cup {"read"}
  /\ UNCHANGED <<wq_flag, irqs, reads, returns, signals, IoctlVars>>
  /\ UNCHANGED <<mod, major, regions, cdevs, irqOn, loads>>

(* wait_event_interruptible tests wq_flag != 0: if it holds the wait ends, *)
(* otherwise the reader sleeps on wq.                                      *)
Check(r) ==
  /\ rpc[r] = "wait"
  /\ rpc' = [rpc EXCEPT ![r] = IF wq_flag # 0 THEN "clear" ELSE "sleep"]
  /\ UNCHANGED <<wq_flag, irqs, reads, returns>>
  /\ UNCHANGED <<signals, IoctlVars, LifeVars>>

(* A signal ends the interruptible sleep with -ERESTARTSYS; the read       *)
(* ignores that value and goes on to its next line.                        *)
Signal(r) ==
  /\ Signals
  /\ rpc[r] = "sleep"
  /\ rpc' = [rpc EXCEPT ![r] = "clear"]
  /\ signals' = signals + 1
  /\ UNCHANGED <<wq_flag, irqs, reads, returns, IoctlVars, LifeVars>>

(* wq_flag = 0; smp_wmb(); return 0.  The process prints, closes the file  *)
(* (dropping its reference on the module) and may be run again.           *)
Clear(r) ==
  /\ rpc[r] = "clear"
  /\ wq_flag' = 0
  /\ rpc' = [rpc EXCEPT ![r] = "idle"]
  /\ returns' = returns + 1
  /\ UNCHANGED <<irqs, reads>>
  /\ UNCHANGED <<signals, IoctlVars, LifeVars>>

\* Handler that counts interrupts in the flag: wq_flag++.
HandlerIncrement ==
  /\ irqOn
  /\ irqs < MaxIrqs
  /\ wq_flag' = wq_flag + 1
  /\ irqs' = irqs + 1
  /\ rpc' = [r \in Readers |-> IF rpc[r] = "sleep" THEN "wait" ELSE rpc[r]]
  /\ UNCHANGED <<reads, returns>>
  /\ UNCHANGED <<signals, IoctlVars, LifeVars>>

\* Handler that sets the flag but does not wake the queue.
HandlerNoWake ==
  /\ irqOn
  /\ irqs < MaxIrqs
  /\ wq_flag' = 1
  /\ irqs' = irqs + 1
  /\ UNCHANGED <<rpc, reads, returns>>
  /\ UNCHANGED <<signals, IoctlVars, LifeVars>>

(* fpi_handler: wq_flag = 1; smp_wmb(); wake_up_interruptible(&wq).  The   *)
(* readers wait non-exclusively, so every sleeping reader is woken and     *)
(* goes back to test the condition.  It runs only while it is requested   *)
(* and enabled.                                                            *)
Handler ==
  /\ irqOn
  /\ irqs < MaxIrqs
  /\ wq_flag' = 1
  /\ irqs' = irqs + 1
  /\ rpc' = [r \in Readers |-> IF rpc[r] = "sleep" THEN "wait" ELSE rpc[r]]
  /\ UNCHANGED <<reads, returns>>
  /\ UNCHANGED <<signals, IoctlVars, LifeVars>>

(* send_fpi: open("/dev/fpi") (asserted), ioctl(fd, cmd, ...) and close.  *)
(* enzian_fpi_ioctl writes the argument to ICC_SGI1R_EL1 for command 0    *)
(* and returns -EINVAL for any other.                                      *)
Ioctl ==
  /\ mod # "out"
  /\ sends < MaxSends
  /\ \E cmd \in Cmds :
       IF cmd = 0
         THEN /\ sgis' = sgis + 1
              /\ ioctlRet' = 0
         ELSE /\ ioctlRet' = -EINVAL
              /\ UNCHANGED sgis
  /\ sends' = sends + 1
  /\ UNCHANGED <<wq_flag, rpc, irqs, reads, returns, signals, LifeVars>>

ReaderStep(r) == Open(r) \/ Read(r) \/ Check(r) \/ Signal(r) \/ Clear(r)

Next ==
  \/ \E r \in Readers : ReaderStep(r)
  \/ Handler
  \/ Ioctl
  \/ LoadChrdev \/ InitQueue \/ InitIrq \/ Exit

(* The kernel runs a runnable task: a reader that has the file open and is *)
(* not asleep eventually takes its step, and insmod, once started, runs    *)
(* enzian_fpi_init to its end.  Neither the FPGA's interrupts nor the      *)
(* users' calls, insmod and rmmod are forced to happen.                    *)
Fairness ==
  /\ \A r \in Readers : WF_vars(Read(r) \/ Check(r) \/ Clear(r))
  /\ WF_vars(InitQueue \/ InitIrq)

Spec == Init /\ [][Next]_vars /\ Fairness

-----------------------------------------------------------------------------
(***************************************************************************)
(* Properties                                                              *)
(***************************************************************************)

TypeOK ==
  /\ wq_flag \in {0, 1}
  /\ rpc \in [Readers -> {"idle", "open", "wait", "sleep", "clear", "oops"}]
  /\ irqs \in 0..MaxIrqs
  /\ reads \in 0..MaxReads
  /\ returns \in 0..reads
  /\ sgis \in 0..sends
  /\ ioctlRet \in {0, -EINVAL}
  /\ sends \in 0..MaxSends
  /\ signals \in 0..reads
  /\ mod \in {"out", "node", "queue", "live"}
  /\ major \in Majors
  /\ regions \subseteq Majors /\ cdevs \subseteq Majors
  /\ irqOn \in BOOLEAN
  /\ loads \in 0..MaxLoads
  /\ oops \subseteq {"read"}

(* The interrupt device's contract (spec 1 and 6): a read returns after an *)
(* interrupt, one reader per interrupt.  So no more reads have returned    *)
(* than interrupts have been handled.  At risk where two readers both see  *)
(* wq_flag = 1 before either clears it (enzian_fpi.c:79-80), and where a   *)
(* signal ends the wait and the ignored -ERESTARTSYS is returned as 0.     *)
NoReadWithoutInterrupt == returns <= irqs

(* Every interrupt is delivered to a read: a reader goes to sleep only     *)
(* when every interrupt handled so far has made a read return.  At risk    *)
(* where a second interrupt sets wq_flag again before a reader clears it   *)
(* (enzian_fpi.c:95 against 80).                                           *)
NoInterruptLost ==
  \A r \in Readers : rpc[r] = "sleep" => returns >= irqs

(* A reader blocked in read() while an interrupt is pending (wq_flag = 1)  *)
(* returns: fpi_handler's wake-up reaches it and its retest succeeds.      *)
WokenReaderReturns ==
  \A r \in Readers :
    (rpc[r] \in {"wait", "sleep"} /\ wq_flag = 1) ~> rpc[r] = "idle"

(* fpi_handler only ever runs on an initialised wait queue: init requests  *)
(* and enables the SGI (151-156) after init_waitqueue_head (135), and exit *)
(* disables and frees it (165-169) before the module's memory, wq with it, *)
(* goes.  A handler left enabled across rmmod, or requested first, wakes   *)
(* a queue of zeroes or of freed memory.                                   *)
HandlerFindsQueue == irqOn => WqInit

(* enzian_fpi_exit undoes what enzian_fpi_init registered: once the module *)
(* is out, no char device region named "fpi" and no fpi cdev is left, so   *)
(* /proc/devices no longer lists it and no device number leads into the   *)
(* unloaded module (the contract of module_exit with alloc_chrdev_region   *)
(* and cdev_add).                                                          *)
ExitReleasesDevice == mod = "out" => regions = {} /\ cdevs = {}
=============================================================================
