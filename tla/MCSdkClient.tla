----------------------------- MODULE MCSdkClient -----------------------------
(* An instance of SdkClient for TLC: one message of each kind.               *)
EXTENDS SdkClient, TLC

CONSTANTS created, unknown, garbled

MCMessages == {created, unknown, garbled}
MCKind == (created :> "reported") @@ (unknown :> "silent") @@ (garbled :> "malformed")
=============================================================================
