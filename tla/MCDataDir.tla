------------------------------ MODULE MCDataDir ------------------------------
(***************************************************************************)
(* DataDir with a passphrase that fits into koe_account_t and one that is  *)
(* too long, of which only the beginning is kept.                          *)
(***************************************************************************)
EXTENDS DataDir

CONSTANTS short, long, beginning

MCPassphrases == {short, long}

MCKept == [pass \in MCPassphrases |-> IF pass = long THEN beginning ELSE pass]

==============================================================================
