------------------------------ MODULE MCExcelLog ------------------------------
(* Two threads of one process. *)
EXTENDS ExcelLogProperties, TLC

Threads == Permutations(Workers)

==============================================================================
