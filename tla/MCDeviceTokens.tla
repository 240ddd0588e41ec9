--------------------------- MODULE MCDeviceTokens ---------------------------
(* Instances of DeviceTokens for TLC. *)
EXTENDS DeviceTokens, TLC

Interchangeable ==
    Permutations(Handler) \cup Permutations(Device) \cup Permutations(Refresh)

==============================================================================
