------------------------------ MODULE MCTargets ------------------------------
(***************************************************************************)
(* Networks of every size from one address to half the address space, at   *)
(* both its ends, alone and in overlapping pairs; port lists with ranges   *)
(* that overlap, and each error parsePorts knows.                          *)
(***************************************************************************)
EXTENDS Targets

Powers == [len \in 0..Bits |-> 2^(Bits - len)]

Net(ip, len) == [ip |-> ip, len |-> len]
Nets == {Net(0, 0), Net(0, 1), Net(24, 2), Net(13, 2), Net(28, 3), Net(9, 3), Net(14, 4), Net(31, 5)}
Lists == {<<c>> : c \in Nets} \cup {<<c, d>> : c, d \in Nets}

Span(lo, hi) == [lo |-> lo, hi |-> hi]
Specs == {<<Span(2, 4), Span(3, 3), Span(1, 2)>>, <<>>, <<Span(1, 5)>>, <<Span(0, 1)>>, <<Span(3, 2)>>}
=============================================================================
