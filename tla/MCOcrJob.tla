------------------------------- MODULE MCOcrJob -------------------------------
(* Instances of OcrJob for TLC. *)
EXTENDS OcrJob, TLC

CONSTANTS f1, f2

=============================================================================
