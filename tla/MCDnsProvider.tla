---------------------------- MODULE MCDnsProvider ----------------------------
(***************************************************************************)
(* DnsProvider for a wildcard and its base, which share a record name, and *)
(* the parent domain, in an account that can have a zone for either name.  *)
(***************************************************************************)
EXTENDS DnsProvider

Base == << "foo", "example" >>
Parent == << "example" >>
MCDomains ==
  {[wildcard |-> w, base |-> Base] : w \in BOOLEAN} \cup {[wildcard |-> FALSE, base |-> Parent]}
MCZoneNames == {Base, Parent}
MCKinds == {"cloudflare", "manual"}
=============================================================================
