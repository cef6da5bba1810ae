---------------------------- MODULE MCVendorTool ----------------------------
(* Model-checking instance of VendorTool: two transactions, three blocks. *)
EXTENDS VendorTool, TLC

CONSTANTS t1, t2

MCTxs == {t1, t2}
=============================================================================
