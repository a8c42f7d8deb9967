---------------------------- MODULE MCPublicEdge ----------------------------
(* Two clients behind up to two proxies, of which some or none are         *)
(* trusted; headers that name the other client, a proxy, or nobody.        *)
EXTENDS PublicEdge, TLC

CONSTANTS c1, c2, p1, p2, r1, r2, ua

Entry(host, mapped) == [host |-> host, mapped |-> mapped]
ForgedHeaders ==
  {<<>>, <<Entry(c1, FALSE)>>, <<Entry(c2, TRUE), Entry(p1, TRUE)>>,
   <<Entry(p1, FALSE), Entry(c1, FALSE)>>, <<Entry(c1, FALSE), Garbage>>}
ProxyRoutes == {<<>>, <<p1>>, <<p1, p2>>}
Allowances == [f \in Features |-> 1]
Symmetry == Permutations(Handlers)
=============================================================================
