------------------------------ MODULE MCStartup ------------------------------
(***************************************************************************)
(* Startup with edits that reach every refusal and every way to serve.     *)
(***************************************************************************)
EXTENDS Startup

In(layer, values) == [layer |-> layer, values |-> values]

Tls(cert, key, acme, domains, challenge, dns, api_token_env) ==
  [tls |-> [cert |-> cert, key |-> key, acme |-> acme, domains |-> domains,
            challenge |-> challenge, dns |-> dns, api_token |-> FALSE,
            api_token_env |-> api_token_env]]

TpmSettings ==
  {In("file", [allow_mock |-> FALSE, tee_provider |-> "tpm", verifier |-> "tpm"]),
   In("file", [pcrs |-> TRUE, pinned |-> TRUE]),
   In("file", [pcrs |-> TRUE]),
   In("file", [ek_roots |-> TRUE]),
   In("env", [pcrs |-> TRUE, ek_roots |-> TRUE]),
   In("file", [table |-> TRUE]),
   In("env", [unpinned |-> TRUE]),
   In("env", [selection |-> TRUE]),
   In("env", [pinned |-> Malformed])}

LayerSettings ==
  {In("file", [docker |-> FALSE, namespace |-> "a"]),
   In("env", [docker |-> FALSE]),
   In("cli", [docker |-> TRUE]),
   In("env", [docker |-> Malformed]),
   In("env", [namespace |-> ""]),
   In("file", [allow_mock |-> FALSE, tee_provider |-> "tdx"]),
   In("file", [allow_mock |-> FALSE, tee_provider |-> "snp", verifier |-> "snp"]),
   In("env", [tee_provider |-> "bogus"]),
   In("env", [tee_provider |-> "tpm"]),
   In("env", [verifier |-> "ita", verifier_endpoint |-> "url"]),
   In("env", [verifier |-> "dcap"]),
   In("file", [verifier_endpoint |-> "url", verifier_api_key |-> "key"])}

TlsSettings ==
  {In("file", Tls(TRUE, TRUE, FALSE, "none", "tls-alpn-01", "manual", FALSE)),
   In("file", Tls(TRUE, TRUE, TRUE, "plain", "dns-01", "manual", FALSE)),
   In("file", Tls(FALSE, FALSE, TRUE, "wildcard", "http-01", "manual", FALSE)),
   In("file", Tls(FALSE, FALSE, TRUE, "wildcard", "dns-01", "cloudflare", TRUE)),
   In("file", Tls(FALSE, FALSE, TRUE, "plain", "http-01", "cloudflare", FALSE))}

MCSettings == TpmSettings \cup LayerSettings \cup TlsSettings
=============================================================================
