---------------------------- MODULE MCDeviceStore ----------------------------
(* DeviceStore with a few addresses, which are alike. *)
EXTENDS DeviceStore, TLC

AddrSymmetry == Permutations(Addrs)

==============================================================================
