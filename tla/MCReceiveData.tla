--------------------------- MODULE MCReceiveData ---------------------------
(* Instances of ReceiveData for TLC. *)
EXTENDS ReceiveData

TwoAddresses == {"a", "b"}
AllEnv == EnvEvents
=============================================================================
