------------------------------- MODULE Startup -------------------------------
(***************************************************************************)
(* From command line, environment and configuration file to a serving      *)
(* process: Args (src/src/cli.rs), Config::load and dump                   *)
(* (src/src/config.rs), the attestation guard and builders                 *)
(* (src/src/attestation.rs), the static certificate (src/src/tls.rs) and   *)
(* main.rs up to the bind.  An operator edits the layers and starts the    *)
(* process; boot goes through its stages, each of which can refuse, and    *)
(* the files it reads can change meanwhile.                                *)
(*                                                                         *)
(* Of the some twenty settings the ones that decide about boot are kept,   *)
(* and one (the namespace) that a higher layer can clear.  A value is a    *)
(* token as written; the TPM section is some fields of a layer.            *)
(***************************************************************************)
EXTENDS Naturals, FiniteSets

CONSTANTS
  Settings,     \* the [layer, values] edits an operator can make
  MaxSettings,  \* bound: edits made
  MaxFileEdits, \* bound: changes of the files that boot reads
  Silent,       \* the layer does not set the field
  Malformed,    \* a value that does not parse
  None          \* Option::None

ASSUME StartupConstants == MaxSettings \in Nat /\ MaxFileEdits \in Nat

\* From the lowest to the highest precedence.
Layers == {"file", "env", "cli"}
LayerRank == [file |-> 1, env |-> 2, cli |-> 3]

\* The built-in defaults.
Default == [allow_mock |-> TRUE, tee_provider |-> "mock", verifier |-> "mock",
            verifier_endpoint |-> None, verifier_api_key |-> None, tpm |-> None,
            tls |-> None, docker |-> FALSE, namespace |-> None]
Fields == DOMAIN Default

\* [attestation.tpm], or the variables for it: PCRs to expect, a pinned AK,
\* PCRs to quote, trusted EK roots, an AK that need not be trusted.
TpmParts == {"pcrs", "pinned", "selection", "ek_roots", "unpinned"}

\* A file can also have the table without any of them.
TpmKeys == TpmParts \cup {"table"}
Written == (Fields \ {"tpm"}) \cup TpmKeys

VARIABLES
  layers,   \* [Layers -> [Written -> token or Silent]]
  made,     \* how many edits were made
  build,    \* the binary and its environment: [release, insecure_dev, features]
  files,    \* the trusted EK roots can be read; generations of certificate and key
  edits,    \* how often files changed
  stage,    \* edit, loaded, guarded, provider, verifier, cert, serving, dumped, failed
  cfg,      \* the resolved Config, None before it is loaded
  prov,     \* its provenance: [Fields -> layer or "default"]
  listener  \* what the listener serves: [kind, cert, key]

startupVars == << layers, made, build, files, edits, stage, cfg, prov, listener >>

\* TeeProviderKind::from_str and VerifierKind::from_str: tokens and their kinds.
TeeProviderKind ==
  [mock |-> "mock", tdx |-> "tdx", sev_snp |-> "sev_snp", sevsnp |-> "sev_snp",
   snp |-> "sev_snp", sgx |-> "sgx", trustzone |-> "trustzone", trust_zone |-> "trustzone",
   aws_nitro |-> "aws_nitro", nitro |-> "aws_nitro", tpm |-> "tpm"]
VerifierKind ==
  [mock |-> "mock", maa |-> "maa", ita |-> "ita", amd_snp |-> "amd_snp", amdsnp |-> "amd_snp",
   sev_snp |-> "amd_snp", snp |-> "amd_snp", tpm |-> "tpm", nvidia |-> "nvidia",
   nvidia_gpu |-> "nvidia", dcap |-> "dcap"]

KindNames == {TeeProviderKind[v] : v \in DOMAIN TeeProviderKind}
             \cup {VerifierKind[v] : v \in DOMAIN VerifierKind}

ASSUME SilentIsNoValue ==
  Silent \notin {None, Malformed} \cup KindNames \cup [TpmParts -> BOOLEAN]

FromStr(kinds, v) == IF v \in DOMAIN kinds THEN kinds[v] ELSE Malformed

\* A field's value from its token; an empty namespace clears it.
Parse(f, v) ==
  CASE f = "tee_provider" -> FromStr(TeeProviderKind, v)
    [] f = "verifier" -> FromStr(VerifierKind, v)
    [] f = "namespace" -> (IF v = "" THEN None ELSE v)
    [] OTHER -> v

\* A section that takes what it does not have from the file.
ReadTpmMutant(l) ==
  IF \A k \in TpmKeys : layers[l][k] = Silent THEN Silent
  ELSE [p \in TpmParts |-> IF layers[l][p] = Silent THEN layers["file"][p] = TRUE
                                                    ELSE layers[l][p] = TRUE]

\* FileTpm::resolve: what the section leaves out is empty.
TpmSection(l) == [p \in TpmParts |-> layers[l][p] = TRUE]

\* read_tpm_env, and alike the file: a layer with any part of a section, or an
\* empty one, has a section.
ReadTpm(l) == IF \A k \in TpmKeys : layers[l][k] = Silent THEN Silent ELSE TpmSection(l)

\* An empty namespace is taken for none, not for one that clears a lower one.
ReadLayerMutant(l, path, f) ==
  IF l = "file" /\ path = "missing" THEN Silent
  ELSE IF f = "tpm" THEN ReadTpm(l)
  ELSE IF layers[l][f] = Silent \/ (f = "namespace" /\ layers[l][f] = "") THEN Silent
  ELSE Parse(f, layers[l][f])

\* read_file (a file that does not exist is silent), read_env and overrides.
ReadLayer(l, path, f) ==
  IF l = "file" /\ path = "missing" THEN Silent
  ELSE IF f = "tpm" THEN ReadTpm(l)
  ELSE IF layers[l][f] = Silent THEN Silent ELSE Parse(f, layers[l][f])

Setters(path, f) == {l \in Layers : ReadLayer(l, path, f) # Silent}

\* The layer of the highest precedence among those that set a field.
Highest(setters) ==
  IF setters = {} THEN "default"
  ELSE CHOOSE l \in setters : \A k \in setters : LayerRank[k] <= LayerRank[l]

\* resolve: the last layer that is not silent.
Winner(path, f) == Highest(Setters(path, f))

Resolve(path, f) ==
  LET winner == Winner(path, f)
  IN  IF winner = "default" THEN Default[f] ELSE ReadLayer(winner, path, f)

\* Only the first layer that has a value is recorded.
RecordMutant(path, f) ==
  IF Setters(path, f) = {} THEN "default"
  ELSE CHOOSE l \in Setters(path, f) :
         \A k \in Setters(path, f) : LayerRank[l] <= LayerRank[k]

\* Provenance::record.
Record(path, f) == Winner(path, f)

ResolveLayers(path) == [f \in Fields |-> Resolve(path, f)]

Init ==
  /\ layers = [l \in Layers |-> [f \in Written |-> Silent]]
  /\ made = 0
  /\ build \in [release : BOOLEAN, insecure_dev : BOOLEAN,
                features : {{}, {"tdx", "sev_snp", "maa", "ita", "amd_snp", "tpm"}}]
  /\ files \in [roots : BOOLEAN, cert : {1}, key : {1}] /\ edits = 0
  /\ stage = "edit" /\ cfg = None /\ prov = None
  /\ listener = [kind |-> "none", cert |-> None, key |-> None]

\* Args::overrides: a flag can only enable; and no variable sets [server.tls],
\* or a TPM section without a part.
Expressible(s) ==
  /\ s.layer = "cli" => DOMAIN s.values = {"docker"} /\ s.values.docker
  /\ s.layer = "env" => DOMAIN s.values \cap {"tls", "table"} = {}

Set(s) ==
  /\ stage = "edit" /\ made < MaxSettings
  /\ Expressible(s)
  /\ \A f \in DOMAIN s.values : layers[s.layer][f] = Silent
  /\ layers' = [layers EXCEPT ![s.layer] =
                  [f \in Written |-> IF f \in DOMAIN s.values THEN s.values[f] ELSE @[f]]]
  /\ made' = made + 1
  /\ UNCHANGED << build, files, edits, stage, cfg, prov, listener >>

\* Files are replaced while the process boots: roots that could be read cannot
\* or the other way round, a new certificate, a new key.
FilesChange ==
  /\ edits < MaxFileEdits
  /\ edits' = edits + 1
  /\ \/ /\ stage \in {"loaded", "guarded", "provider"}
        /\ files' = [files EXCEPT !.roots = ~@]
     \/ /\ stage \in {"verifier", "cert"} /\ cfg.tls # None
        /\ \/ files' = [files EXCEPT !.cert = @ + 1]
           \/ files' = [files EXCEPT !.key = @ + 1]
  /\ UNCHANGED << layers, made, build, stage, cfg, prov, listener >>

-----------------------------------------------------------------------------
UsesTpm(c) == c.verifier = "tpm" \/ c.tee_provider = "tpm"

\* A validation that does not look for an AK-trust mode.
ValidateMutant(c) == UsesTpm(c) => c.tpm # None /\ c.tpm.pcrs

\* Config::validate: a TPM needs PCRs, some AK-trust mode, readable roots.
Validate(c) ==
  UsesTpm(c) =>
    /\ c.tpm # None /\ c.tpm.pcrs
    /\ c.tpm.pinned \/ c.tpm.ek_roots \/ c.tpm.unpinned
    /\ c.tpm.ek_roots => files.roots

\* Args::config_path, then the variable, then the default path; the operator's
\* file is at the default path, and a path can name no file.
ConfigPath(args) ==
  IF args.config # None THEN args.config
  ELSE IF args.config_path # None THEN args.config_path
  ELSE IF args.env # None THEN args.env ELSE "there"

Paths ==
  LET given == {None, "there", "missing"}
  IN  {ConfigPath(args) : args \in [config : given, config_path : given, env : given]}

\* read_file and read_env succeed: every value that is written parses.
Reads(path) ==
  \A l \in Layers, f \in Written :
    l # "file" \/ path # "missing" =>
      layers[l][f] # Malformed /\ (layers[l][f] # Silent => Parse(f, layers[l][f]) # Malformed)

\* Config::load: a value that does not parse, or a configuration that does not
\* validate, ends the process.
Load ==
  /\ stage = "edit"
  /\ \E path \in Paths :
       \/ /\ Reads(path) /\ Validate(ResolveLayers(path))
          /\ cfg' = ResolveLayers(path)
          /\ prov' = [f \in Fields |-> Record(path, f)]
          /\ stage' = "loaded"
       \/ /\ Reads(path) => ~Validate(ResolveLayers(path))
          /\ stage' = "failed"
          /\ UNCHANGED << cfg, prov >>
  /\ UNCHANGED << layers, made, build, files, edits, listener >>

\* dump: one line per setting but the API key, and one per part of the TPM
\* section but the PCRs to quote; the source is looked up under the line's own name.
DumpLines == (Fields \ {"tpm", "verifier_api_key"}) \cup (TpmParts \ {"selection"})
DumpValue(line) == IF line \in TpmParts THEN cfg.tpm # None /\ cfg.tpm[line] ELSE cfg[line]
DumpSource(line) == IF line \in DOMAIN prov THEN prov[line] ELSE "default"

\* The dump subcommand prints and returns.
Dump ==
  /\ stage = "loaded"
  /\ stage' = "dumped"
  /\ UNCHANGED << layers, made, build, files, edits, cfg, prov, listener >>

\* A guard that forgets the verifier.
UsesMockMutant(c) == c.allow_mock \/ c.tee_provider = "mock"

UsesMock(c) == c.allow_mock \/ c.tee_provider = "mock" \/ c.verifier = "mock"

Proceed(ok, next) ==
  /\ stage' = IF ok THEN next ELSE "failed"
  /\ UNCHANGED << layers, made, build, files, edits, cfg, prov >>

\* startup_attestation_decision.
Guard ==
  /\ stage = "loaded"
  /\ Proceed(~UsesMock(cfg) \/ ~build.release \/ build.insecure_dev, "guarded")
  /\ UNCHANGED listener

\* build_tee_provider: mock, or a provider whose feature was compiled in.
BuildTeeProvider ==
  /\ stage = "guarded"
  /\ Proceed(cfg.tee_provider = "mock" \/ cfg.tee_provider \in build.features, "provider")
  /\ UNCHANGED listener

\* build_verifier: the feature, what the verifier needs, and for a TPM the
\* root files once more.  dcap and nvidia have no implementation.
BuildsVerifier ==
  \/ cfg.verifier = "mock"
  \/ /\ cfg.verifier \in build.features \cap {"maa", "ita", "amd_snp", "tpm"}
     /\ cfg.verifier \in {"maa", "ita"} => cfg.verifier_endpoint # None
     /\ cfg.verifier = "ita" => cfg.verifier_api_key # None
     /\ cfg.verifier = "tpm" =>
          /\ cfg.tpm # None /\ cfg.tpm.pcrs
          /\ cfg.tpm.ek_roots => files.roots

BuildVerifier ==
  /\ stage = "provider"
  /\ Proceed(BuildsVerifier, "verifier")
  /\ UNCHANGED listener

\* TlsConfig::validate: exactly one certificate source, and a complete one.
TlsValidate(t) ==
  \/ ~t.acme /\ t.cert /\ t.key
  \/ /\ t.acme /\ ~t.cert /\ ~t.key
     /\ t.domains # "none"
     /\ t.domains = "wildcard" => t.challenge = "dns-01"

\* AcmeManager::new: Cloudflare needs a token, inline or in the variable named,
\* whatever the challenge.
AcmeManagerNew(t) == t.dns = "cloudflare" => t.api_token \/ t.api_token_env

Listens(kind, cert, key) == listener' = [kind |-> kind, cert |-> cert, key |-> key]

\* A plaintext listener without [server.tls].  With it, the certificate file
\* is read first; or ACME is set up, and brings a certificate or does not.
Bind ==
  /\ stage = "verifier"
  /\ \/ cfg.tls = None /\ Proceed(TRUE, "serving") /\ Listens("plaintext", None, None)
     \/ /\ cfg.tls # None /\ ~TlsValidate(cfg.tls)
        /\ Proceed(FALSE, "serving") /\ UNCHANGED listener
     \/ /\ cfg.tls # None /\ TlsValidate(cfg.tls) /\ ~cfg.tls.acme
        /\ Proceed(TRUE, "cert") /\ Listens("static", files.cert, None)
     \/ /\ cfg.tls # None /\ TlsValidate(cfg.tls) /\ cfg.tls.acme
        /\ \/ AcmeManagerNew(cfg.tls) /\ Proceed(TRUE, "serving") /\ Listens("acme", None, None)
           \/ Proceed(FALSE, "serving") /\ UNCHANGED listener

\* keys_match is not asked.
KeysMatchMutant(cert, key) == TRUE

KeysMatch(cert, key) == cert = key

\* load_certified_key from the key file on; either file can be unusable.
ReadKey ==
  /\ stage = "cert"
  /\ \E usable \in BOOLEAN :
       /\ Proceed(usable /\ KeysMatch(listener.cert, files.key), "serving")
       /\ Listens("static", listener.cert, files.key)

Next ==
  \/ \E s \in Settings : Set(s)
  \/ FilesChange \/ Load \/ Dump \/ Guard \/ BuildTeeProvider \/ BuildVerifier \/ Bind \/ ReadKey

Spec == Init /\ [][Next]_startupVars
-----------------------------------------------------------------------------
\* Whatever layers it came from, mock attestation in a release build serves
\* only behind ARCHETYPE_PROXY_INSECURE_DEV, and a verifier or provider that
\* is not mock serves only in a build that has it.
ServesAsBuilt ==
  stage = "serving" =>
    /\ build.release /\ ~build.insecure_dev =>
         ~cfg.allow_mock /\ "mock" \notin {cfg.tee_provider, cfg.verifier}
    /\ {cfg.tee_provider, cfg.verifier} \subseteq {"mock"} \cup build.features

\* A process that serves TPM attestation has PCRs to compare with and an AK
\* it can trust, whichever layer's [attestation.tpm] section won; and if its
\* verifier trusts root certificates it has read them, although the files can
\* change between Config::validate and build_tpm_verifier.
TpmServesWithTrust ==
  stage = "serving" /\ UsesTpm(cfg) =>
    /\ cfg.tpm.pcrs
    /\ cfg.tpm.pinned \/ cfg.tpm.ek_roots \/ cfg.tpm.unpinned
    /\ cfg.verifier = "tpm" /\ cfg.tpm.ek_roots => files.roots

\* The TPM policy in force is one that somebody wrote: all of one layer's
\* section and nothing of another's, so that variables and file never mix
\* into a policy with, say, one's PCRs and the other's allow_unpinned_ak.
TpmSectionIsWhole ==
  cfg # None /\ cfg.tpm # None =>
    \E l \in Layers :
      /\ \E k \in TpmKeys : layers[l][k] # Silent
      /\ \A p \in TpmParts : cfg.tpm[p] <=> layers[l][p] = TRUE

\* "aborts rather than falling back to plaintext": the listener is plaintext
\* exactly if [server.tls] is absent, and static files that are replaced while
\* they are read never make it serve a certificate with another one's key.
NoPlaintextFallback ==
  stage = "serving" =>
    /\ listener.kind = "plaintext" <=> cfg.tls = None
    /\ listener.kind = "static" => listener.cert = listener.key

\* "Each resolved static field records the layer that set it": the layer a line
\* of the dump names has the value that the line shows, whichever file was
\* read.  The lines of the TPM section, for which nothing is recorded, excepted.
DumpNamesTheLayer ==
  stage = "dumped" =>
    \A line \in DumpLines \ TpmParts :
      DumpValue(line) = IF DumpSource(line) = "default" THEN Default[line]
                        ELSE Parse(line, layers[DumpSource(line)][line])

\* "defaults < file < env < CLI", without what resolve does.
Outranks(k, l) == << k, l >> \in {<< "env", "file" >>, << "cli", "file" >>, << "cli", "env" >>}
KeysOf(f) == IF f = "tpm" THEN TpmKeys ELSE {f}
Speaks(l, path, f) == /\ l = "file" => path # "missing"
                      /\ \E k \in KeysOf(f) : layers[l][k] # Silent
Meant(l, f) == IF f = "tpm" THEN TpmSection(l) ELSE Parse(f, layers[l][f])

\* "Highest wins": with one file read or none, each field of the configuration
\* in force is what the highest layer that mentions it means, be it to clear
\* what a lower one sets, and the default only if no layer does.
HighestWins ==
  cfg # None =>
    \E path \in Paths : \A f \in Fields :
      \/ \E l \in Layers : /\ Speaks(l, path, f)
                           /\ \A k \in Layers : Outranks(k, l) => ~Speaks(k, path, f)
                           /\ cfg[f] = Meant(l, f)
      \/ (\A l \in Layers : ~Speaks(l, path, f)) /\ cfg[f] = Default[f]
=============================================================================
