---------------------------- MODULE MCDiscovery ----------------------------
(* Two devices, one of them on IPv4 and on two IPv6 addresses.             *)
EXTENDS Discovery

MCDevice == {"reader", "phone"}

At(d, h, scheme) == [device |-> d, host |-> h, scheme |-> scheme]

MCAnnounced == {At("reader", 1, "http"), At("phone", 2, "https")}

MCRegistered == {At("phone", 3, "https")}

=============================================================================
