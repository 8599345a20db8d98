----------------------------- MODULE MCCsvLoader -----------------------------
(* Datasets for checking CsvLoader.  Sizes are scaled down: the arena      *)
(* holds five bytes, so that a file larger than the mapping is among the   *)
(* inputs.                                                                 *)
EXTENDS CsvLoader

(* Every file of up to seven bytes: enough for a header and two records of *)
(* two fields, a blank line, CRLF endings and an empty field.              *)
MCFiles == BoundedSeq(Bytes, 7)

(* A header and a record of two fields, then every tail of up to three     *)
(* bytes: a later record with an empty field needs ten bytes in all.       *)
MCTailFiles ==
  {<<"a", ",", "1", "NL", "1", ",", "1", "NL">> \o t : t \in BoundedSeq(Bytes, 3)}
=============================================================================
