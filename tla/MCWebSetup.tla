----------------------------- MODULE MCWebSetup -----------------------------
(***************************************************************************)
(* Two wallet files of which one opens with the password at start, two db *)
(* paths, a good and a malformed redeem, and a config file naming the     *)
(* test net, both passwords filled in and no redeem yet.                  *)
(***************************************************************************)
EXTENDS WebSetup

CONSTANTS w1, w2, p1, d1, d2, r1, rx

MCInitUnlocks == {<<w1, p1>>}

MCInitConf == [wallet |-> w1, opwd |-> p1, bwallet |-> w1, bpwd |-> p1,
               net |-> "test", db |-> d1, redeem |-> ""]
=============================================================================
