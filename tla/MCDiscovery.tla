---------------------------- MODULE MCDiscovery -----------------------------
(* Instances of Discovery for TLC: a segment and the half of it that is    *)
(* scanned again as a target of its own, and a network elsewhere between.  *)
EXTENDS Discovery, TLC

Nested == 1 :> {1, 2} @@ 2 :> {} @@ 3 :> {1}
Sent(from, named, detail) == [from |-> from, named |-> named, detail |-> detail]

(* Two devices with descriptions, 1 and 2; a stranger, 3, which asks and   *)
(* names others.                                                           *)
Some ==
    <<1, "ssdp">> :> {Sent(1, {}, TRUE), Sent(2, {}, TRUE)} @@
    <<1, "mdns">> :> {Sent(1, {1}, FALSE), Sent(2, {}, TRUE)} @@
    <<3, "mdns">> :> {Sent(1, {1, 3}, FALSE)} @@
    [c \in {1, 2, 3} \X {"ssdp", "mdns"} |-> {}]

(* One target, all the protocols.                                          *)
Single == 1 :> {1, 2}
Described == [c \in {1} \X {"ssdp", "mdns", "llmnr", "wsd"} |->
                IF c[2] = "ssdp" THEN {Sent(1, {}, TRUE), Sent(2, {}, TRUE)}
                ELSE {Sent(2, {2}, TRUE)}]
=============================================================================
