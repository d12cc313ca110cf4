---------------------------- MODULE MCWrappers ----------------------------
(***************************************************************************)
(* Model values for Wrappers: a vault with a key inside the membrane, and  *)
(* one object of the caller outside of it.                                 *)
(***************************************************************************)
EXTENDS Wrappers

CONSTANTS vault, key, caller

VaultAndKey == {vault, key}
Caller == {caller}
=============================================================================
