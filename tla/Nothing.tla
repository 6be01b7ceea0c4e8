------------------------------ MODULE Nothing ------------------------------
(* What stands for no value: SQL NULL on the server, null in the browser.   *)
CONSTANT Null
=============================================================================
