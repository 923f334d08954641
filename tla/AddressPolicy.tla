----------------------------- MODULE AddressPolicy -----------------------------
(* Which addresses the engine may reach (src/engine/network-policy.ts), and     *)
(* which peers a tracker or a DHT answer may name (src/engine/peer-admission.ts *)
(* and the compact lists of src/engine/dht-wire.ts).  An address is the         *)
(* sequence of the numbers it is written with: four of them, each at most 255,  *)
(* when it is an IPv4 address.                                                  *)
EXTENDS Lists

CONSTANT LocalPeerId  \* the client's own peer id

IsIpv4(address) ==
    /\ Len(address) = 4
    /\ \A i \in 1..4 : address[i] \in 0..255

\* The first bits of two addresses agree.
InRange(address, network, bits) ==
    \A i \in 1..4 :
        LET kept == IF bits >= 8 * i THEN 8
                    ELSE IF bits <= 8 * (i - 1) THEN 0 ELSE bits % 8
        IN  address[i] \div 2^(8 - kept) = network[i] \div 2^(8 - kept)

BlockedRanges ==
    {<<<<0, 0, 0, 0>>, 8>>, <<<<10, 0, 0, 0>>, 8>>, <<<<100, 64, 0, 0>>, 10>>,
     <<<<127, 0, 0, 0>>, 8>>, <<<<169, 254, 0, 0>>, 16>>,
     <<<<172, 16, 0, 0>>, 12>>, <<<<192, 0, 0, 0>>, 24>>,
     <<<<192, 0, 2, 0>>, 24>>, <<<<192, 168, 0, 0>>, 16>>,
     <<<<198, 18, 0, 0>>, 15>>, <<<<198, 51, 100, 0>>, 24>>,
     <<<<203, 0, 113, 0>>, 24>>, <<<<224, 0, 0, 0>>, 4>>, <<<<240, 0, 0, 0>>, 4>>}

IsPublicIpv4(address) ==
    /\ IsIpv4(address)
    /\ \A range \in BlockedRanges : ~InRange(address, range[1], range[2])

IsPrivateNetworkIpv4(address) ==
    /\ IsIpv4(address)
    /\ \/ InRange(address, <<10, 0, 0, 0>>, 8)
       \/ InRange(address, <<172, 16, 0, 0>>, 12)
       \/ InRange(address, <<192, 168, 0, 0>>, 16)

IsLoopbackIpv4(address) ==
    IsIpv4(address) /\ InRange(address, <<127, 0, 0, 0>>, 8)

\* What EgressPolicy may connect to.
AddressAllowed(address, allowPrivate, allowLoopback) ==
    \/ IsPublicIpv4(address)
    \/ allowPrivate /\ IsPrivateNetworkIpv4(address)
    \/ allowLoopback /\ IsLoopbackIpv4(address)

\* Which candidates may be handed to the client: peerId is {} when the source
\* did not say it.
PeerAllowed(peer, allowPrivate) ==
    /\ IsPublicIpv4(peer.address) \/ (allowPrivate /\ IsPrivateNetworkIpv4(peer.address))
    /\ LocalPeerId \notin peer.peerId

Ports == 1..65535

\* A contact's address and port, as the DHT hands them on.
ContactAllowed(contact) ==
    contact.port \in Ports /\ IsPublicIpv4(contact.address)

\* The first at most maximum contacts that are allowed, in their order.
SanitizeContacts(contacts, maximum) ==
    LET allowed == Kept(contacts, {c \in ToSet(contacts) : ContactAllowed(c)})
    IN  SubSeq(allowed, 1, IF Len(allowed) < maximum THEN Len(allowed) ELSE maximum)

(* ------------------------------- properties --------------------------------- *)

\* Lexicographic order: the order of the addresses' 32-bit numbers.
AtMost(a, b) ==
    \/ a = b
    \/ \E i \in 1..4 : a[i] < b[i] /\ \A j \in 1..(i - 1) : a[j] = b[j]

Within(address, first, last) == AtMost(first, address) /\ AtMost(address, last)

\* The three blocks of private networks.
PrivateUse(a) ==
    \/ Within(a, <<10, 0, 0, 0>>, <<10, 255, 255, 255>>)
    \/ Within(a, <<172, 16, 0, 0>>, <<172, 31, 255, 255>>)
    \/ Within(a, <<192, 168, 0, 0>>, <<192, 168, 255, 255>>)

\* The special-purpose blocks, by the first and the last address of each.
SpecialPurpose(a) ==
    \/ PrivateUse(a)
    \/ Within(a, <<0, 0, 0, 0>>, <<0, 255, 255, 255>>)
    \/ Within(a, <<100, 64, 0, 0>>, <<100, 127, 255, 255>>)
    \/ Within(a, <<127, 0, 0, 0>>, <<127, 255, 255, 255>>)
    \/ Within(a, <<169, 254, 0, 0>>, <<169, 254, 255, 255>>)
    \/ Within(a, <<192, 0, 0, 0>>, <<192, 0, 0, 255>>)
    \/ Within(a, <<192, 0, 2, 0>>, <<192, 0, 2, 255>>)
    \/ Within(a, <<198, 18, 0, 0>>, <<198, 19, 255, 255>>)
    \/ Within(a, <<198, 51, 100, 0>>, <<198, 51, 100, 255>>)
    \/ Within(a, <<203, 0, 113, 0>>, <<203, 0, 113, 255>>)
    \/ Within(a, <<224, 0, 0, 0>>, <<255, 255, 255, 255>>)

===============================================================================
