--------------------------- MODULE SequenceTracker ---------------------------
(***************************************************************************)
(* The fee payer's sequence cache (rent-keeper/src/sequence.rs).  The      *)
(* tracker has one mutex-protected Option<i64>; its operations are         *)
(* fragments of the steps of RentKeeper, which has one caller.             *)
(***************************************************************************)
EXTENDS Integers

CONSTANT NoSeq      \* the empty cache

ASSUME NoSeqAssumption == NoSeq \notin Int

VARIABLE cached

TrackerInit == cached = NoSeq

(* next_sequence: `committed` is the account's sequence number at the      *)
(* node, which is asked for only when the cache is empty.                  *)
NextSeq(committed) == IF cached = NoSeq THEN committed + 1 ELSE cached + 1

NextSequence(committed) == cached' = NextSeq(committed)

(* A mistake: the cache survives a bad sequence.                           *)
ReportNothing(badSeq) == badSeq \in BOOLEAN /\ cached' = cached

(* report_failure: the cache is dropped when the text of the error looks   *)
(* like a sequence error.                                                  *)
ReportFailure(badSeq) == cached' = IF badSeq THEN NoSeq ELSE cached
=============================================================================
