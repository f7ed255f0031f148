-------------------------- MODULE MCAddressHelpers --------------------------
EXTENDS AddressHelpers

(* Dotted quads over the byte values at the edges and in the middle.      *)
MCOctets == {0, 1, 127, 128, 255}
MCQuads == [1..4 -> MCOctets]

MCAddrKinds == {"IpV4Addr", "IpV6Addr"}
====
