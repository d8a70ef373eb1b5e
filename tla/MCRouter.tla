------------------------------- MODULE MCRouter -------------------------------
(***************************************************************************)
(* Values for TLC: two interfaces; on interface 1 a host h and a gateway g *)
(* with a network behind it, on interface 0 a sender s.                    *)
(***************************************************************************)
EXTENDS Router, TLC

CONSTANTS h, g, far, s, r0, r1, nowhere, m1, m2

RouterIp == (0 :> r0) @@ (1 :> r1)

Routes ==
    (h :> [next_hop |-> h, interface |-> 1])
    @@ (far :> [next_hop |-> g, interface |-> 1])
    @@ (s :> [next_hop |-> s, interface |-> 0])
    @@ (r1 :> [next_hop |-> h, interface |-> 1])

FromHost(from, to, src, dst, ttl, kind, sum) ==
    [from |-> from, to |-> to, src |-> src, dst |-> dst, ttl |-> ttl,
     kind |-> kind, sum |-> sum]

\* Across the router, to both next hops of interface 1.
Across ==
    { FromHost(0, "router", s, h, 64, "data", TRUE),
      FromHost(0, "router", s, far, 64, "data", TRUE) }

\* Everything that is treated otherwise.
Odd ==
    { FromHost(0, "router", s, far, 1, "data", TRUE),
      FromHost(0, "broadcast", s, h, 0, "data", TRUE),
      FromHost(1, "router", h, r1, 64, "echo_request", TRUE),
      FromHost(1, "router", h, r1, 1, "unreachable", TRUE),
      FromHost(1, "router", h, nowhere, 64, "data", TRUE),
      FromHost(1, "router", nowhere, nowhere, 64, "data", TRUE),
      FromHost(0, "router", nowhere, nowhere, 64, "data", TRUE),
      FromHost(0, "other", s, h, 64, "data", TRUE),
      FromHost(1, "router", h, s, 64, "data", FALSE) }
All == Across \cup Odd

=============================================================================
