------------------------------- MODULE MCFpi -------------------------------
(* Bounds for checking Fpi: up to three interrupts, four reads and two     *)
(* ioctl calls, enough for a second interrupt to arrive before, between    *)
(* and after the steps of a read; two loads of the module, with one or two *)
(* free majors.                                                            *)
EXTENDS Fpi

MCMaxIrqs == 3
MCMaxReads == 4
MCMaxSends == 2
MCMaxLoads == 2
=============================================================================
