----------------------------- MODULE MCDiscovery -----------------------------
(***************************************************************************)
(* Discovery on small instances.  One file route; three discovered routes, *)
(* one of which ties with the file route's rule, one of which is more      *)
(* specific; the route of container c1 is also a Service's, so that a      *)
(* snapshot can equal an earlier or another one.                           *)
(***************************************************************************)
EXTENDS Discovery

CONSTANTS c1, c2

MCLower == [h \in {"api"} |-> h]

MCRoute(host, prefix, source, upstream) ==
  [host |-> host, path_prefix |-> prefix, source |-> source, upstream |-> upstream]

FileRoute == MCRoute("", << "/", "v" >>, "file", "u0")
RouteA == MCRoute("", << "/", "v" >>, "discovered", "u1")
RouteB == MCRoute("api", << "/" >>, "discovered", "u2")

MCRoutes == {FileRoute, RouteA, RouteB}
MCFileRoutes == << FileRoute >>
MCObjectRoutes == {RouteA, RouteB}
MCContainers == {c1, c2}
MCContainerRoutes == [c \in MCContainers |-> IF c = c1 THEN << RouteA >> ELSE << RouteA, RouteB >>]

EnabledDocker == {"docker"}
EnabledKubernetes == {"kubernetes"}
EnabledBoth == {"docker", "kubernetes"}
OneKey == {1}
TwoKeys == {1, 2}
=============================================================================
