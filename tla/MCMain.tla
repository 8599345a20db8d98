------------------------------- MODULE MCMain -------------------------------
(* Every command line of up to two options over -h, -b, -s, -t, -m, -c,    *)
(* -p, -f 1, -f 2, -l 1, -r with a known and an unknown mode, and an      *)
(* option getopt rejects (-f 1 and -f 2 give an empty and a reversed core *)
(* range); the latency loops over 16 and 32 KiB.  One trial               *)
(* length: the trials' values are the subject of MCMainLatency.cfg.        *)
EXTENDS Main

LOCAL SE == INSTANCE SequencesExt

MCOpts ==
  {<<"h">>, <<"?">>, <<"b">>, <<"s">>, <<"t">>, <<"m">>, <<"c">>, <<"p">>,
   <<"f", 1>>, <<"f", 2>>, <<"l", 1>>, <<"r", "w">>, <<"r", "l">>, <<"r", "x">>}

MCArgvs == SE!BoundedSeq(MCOpts, 2)

MCDurations == {1}

(* The latency engines alone: -t -s, and the continuous sequential test of *)
(* stress mode l; two trial lengths, so that the warm-up trial can be the  *)
(* fastest one.                                                            *)
MCLatencyArgvs == {<<<<"t">>, <<"s">>>>, <<<<"r", "l">>>>}
MCTrialDurations == {1, 2}
MCUint64Max == 1000
=============================================================================
