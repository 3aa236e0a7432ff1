------------------------------- MODULE MCAcme -------------------------------
(***************************************************************************)
(* Acme with certificates of three units of 30 days.                       *)
(***************************************************************************)
EXTENDS Acme

Config(challenge, domains, directory) ==
  [challenge |-> challenge, domains |-> domains, directory |-> directory]

MCDns == {Config("dns-01", {"a"}, "prod")}
MCAlpn == {Config("tls-alpn-01", {"a"}, "prod")}
MCAll == MCAlpn \cup {Config("http-01", {"a"}, "prod"), Config("dns-01", {"a", "b"}, "staging")}
=============================================================================
