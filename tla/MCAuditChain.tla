---------------------------- MODULE MCAuditChain ----------------------------
(***************************************************************************)
(* Small instances of the audit chain for TLC.                             *)
(***************************************************************************)
EXTENDS AuditChain

CONSTANT Referral \* the closing transactions that refer: three events each

Events3 == [w \in Writers |-> IF w \in Referral THEN 3 ELSE 1]
=============================================================================
