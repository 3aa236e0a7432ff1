----------------------------- MODULE MCRouting -----------------------------
(***************************************************************************)
(* The pure parts of routing, over inputs built piece by piece: either a   *)
(* list of routes, asked for every request (two spellings of one host,     *)
(* prefixes with and without trailing slashes and two that share           *)
(* characters but no segment), or one container's label map (names with a  *)
(* dot, names and fields in two cases, keys that only look like a route's).*)
(* A behaviour builds one of the two.                                      *)
(***************************************************************************)
EXTENDS RouteList, Labels

MCLower == [h \in {"api", "API", "web"} |-> IF h = "API" THEN "api" ELSE h]

MCHosts == DOMAIN MCLower

Slash == << "/" >>
V1 == << "/", "v" >>
V1Slash == << "/", "v", "/" >>
V1Sub == << "/", "v", "/", "a" >>
V12 == << "/", "v", "v" >>

MCPaths == { Slash, V1, V1Slash, V1Sub, V12, << "/", "a" >> }

MCListable ==
  [ host : {"", "api", "API"}, path_prefix : {<<>>, V1, V1Slash, V1Sub},
    source : {"file", "discovered"} ]

\* All segments, in the order of their bytes.
MCByteOrder ==
  << "", "A", "Upstream", "a", "archetype", "attestation", "b", "enable", "host",
     "pathprefix", "route", "routes", "strict", "upstream" >>

MCWords == {MCByteOrder[i] : i \in DOMAIN MCByteOrder}
MCFromLast ==
  [s \in MCWords |-> Len(MCByteOrder) - CHOOSE i \in DOMAIN MCByteOrder : MCByteOrder[i] = s]
MCLowerField ==
  [s \in MCWords |-> CASE s = "A" -> "a" [] s = "Upstream" -> "upstream" [] OTHER -> s]

MCNames == { << "a" >>, << "A" >>, << "a", "b" >>, << "b" >>, << "" >> }

MCKeys ==
  {Enable, GlobalStrict, Top("upstream"), Top("host"),
   << "archetype", "route", "a" >>, << "archetype", "routes", "a", "upstream" >>}
  \cup {RoutePrefix \o Append(n, "upstream") : n \in MCNames}
  \cup {RoutePrefix \o << "a", f >> : f \in {"Upstream", "host", "pathprefix", "strict"}}
  \cup {RoutePrefix \o << "a", "b", "host" >>}

Init == ListInit /\ LabelsInit

Next ==
  \/ DOMAIN labels = {} /\ AddRoute /\ UNCHANGED labels
  \/ listed = <<>> /\ AddLabel /\ UNCHANGED listed

Spec == Init /\ [][Next]_<< listed, labels >>
=============================================================================
