---------------------------- MODULE InputProofs ----------------------------
(***************************************************************************)
(* What the operator writes and what it comes to.  Startup: for any edits  *)
(* of the layers and of the files that boot reads.  RouteList: path        *)
(* prefixes match whole segments.  Labels: the routes are those the label  *)
(* schema declares.                                                        *)
(***************************************************************************)
EXTENDS Startup, RouteList, Labels, TLAPS

\* The stages of boot from one on.
AfterVerifier == {"verifier", "cert", "serving"}
AfterProvider == {"provider"} \cup AfterVerifier
AfterGuard == {"guarded"} \cup AfterProvider
AfterLoad == {"loaded", "dumped"} \cup AfterGuard

FilesOK == files \in [roots : BOOLEAN, cert : Nat, key : Nat]

\* The configuration in force and its provenance are still what the layers say.
LoadInv ==
  /\ stage = "edit" => cfg = None
  /\ cfg # None \/ stage \in AfterLoad =>
       \E path \in Paths : /\ cfg = ResolveLayers(path)
                           /\ prov = [f \in Fields |-> Record(path, f)]

\* What each stage has settled for those behind it.
BootInv ==
  /\ stage \in AfterLoad /\ UsesTpm(cfg) =>
       cfg.tpm.pcrs /\ (cfg.tpm.pinned \/ cfg.tpm.ek_roots \/ cfg.tpm.unpinned)
  /\ stage \in AfterGuard => ~UsesMock(cfg) \/ ~build.release \/ build.insecure_dev
  /\ stage \in AfterProvider => cfg.tee_provider \in {"mock"} \cup build.features
  /\ stage \in AfterVerifier =>
       /\ cfg.verifier \in {"mock"} \cup build.features
       /\ cfg.verifier = "tpm" /\ cfg.tpm.ek_roots => files.roots
  /\ stage = "cert" => cfg.tls # None /\ listener.kind = "static"
  /\ stage = "serving" =>
       /\ listener.kind = "plaintext" <=> cfg.tls = None
       /\ listener.kind = "static" => listener.cert = listener.key

StartupInv == FilesOK /\ LoadInv /\ BootInv

-----------------------------------------------------------------------------
\* resolve takes the one layer that is highest among those that are not silent.
LEMMA HighestExists ==
  ASSUME NEW S \in SUBSET Layers, S # {}
  PROVE  \E l \in S : \A k \in S : LayerRank[k] <= LayerRank[l]
<1>1. LayerRank["file"] = 1 /\ LayerRank["env"] = 2 /\ LayerRank["cli"] = 3
  BY DEF LayerRank
<1>2. \A k \in S : k = "file" \/ k = "env" \/ k = "cli"
  BY DEF Layers
<1>3. CASE "cli" \in S
  <2>1. \A k \in S : LayerRank[k] <= LayerRank["cli"]
    BY <1>1, <1>2
  <2> QED
    BY <1>3, <2>1
<1>4. CASE "cli" \notin S /\ "env" \in S
  <2>1. \A k \in S : LayerRank[k] <= LayerRank["env"]
    BY <1>1, <1>2, <1>4
  <2> QED
    BY <1>4, <2>1
<1>5. CASE "cli" \notin S /\ "env" \notin S
  <2>1. \A k \in S : k = "file"
    BY <1>2, <1>5
  <2> QED
    BY <1>1, <2>1
<1> QED
  BY <1>3, <1>4, <1>5

LEMMA HighestOf ==
  ASSUME NEW S \in SUBSET Layers
  PROVE  /\ S = {} => Highest(S) = "default"
         /\ S # {} => /\ Highest(S) \in S /\ Highest(S) # "default"
                      /\ \A k \in S : LayerRank[k] <= LayerRank[Highest(S)]
<1>1. "default" \notin Layers
  BY DEF Layers
<1> QED
  BY <1>1, HighestExists, ZenonT(60) DEF Highest

\* A value that does not come from the defaults is the winner's own.
LEMMA ResolvedFrom ==
  ASSUME NEW path, NEW f
  PROVE  /\ Winner(path, f) = "default" => Resolve(path, f) = Default[f]
         /\ Winner(path, f) # "default" =>
              /\ Winner(path, f) \in Layers
              /\ ReadLayer(Winner(path, f), path, f) # Silent
              /\ Resolve(path, f) = ReadLayer(Winner(path, f), path, f)
<1>1. Setters(path, f) \in SUBSET Layers
  BY DEF Setters
<1>2. Winner(path, f) # "default" => Winner(path, f) \in Setters(path, f)
  BY <1>1, HighestOf DEF Winner
<1> QED
  BY <1>2 DEF Resolve, Setters

-----------------------------------------------------------------------------
\* Layers that stay as they are resolve to what they did.
LEMMA SameLayers ==
  ASSUME UNCHANGED layers, NEW path
  PROVE  /\ ResolveLayers(path)' = ResolveLayers(path)
         /\ [f \in Fields |-> Record(path, f)]' = [f \in Fields |-> Record(path, f)]
<1>1. ASSUME NEW l, NEW f  PROVE ReadLayer(l, path, f)' = ReadLayer(l, path, f)
  BY DEF ReadLayer, ReadTpm, TpmSection
<1>2. ASSUME NEW f  PROVE Setters(path, f)' = Setters(path, f)
  BY <1>1 DEF Setters
<1>3. ASSUME NEW f  PROVE Winner(path, f)' = Winner(path, f)
  BY <1>2 DEF Winner
<1>4. ASSUME NEW f  PROVE Resolve(path, f)' = Resolve(path, f)
  BY <1>1, <1>3 DEF Resolve
<1> QED
  BY <1>3, <1>4 DEF ResolveLayers, Record

\* A step behind Load.
LEMMA LoadKept ==
  ASSUME LoadInv, UNCHANGED << layers, cfg, prov >>, stage # "edit", stage' # "edit",
         stage' \in AfterLoad => stage \in AfterLoad
  PROVE  LoadInv'
  BY SameLayers DEF LoadInv

LEMMA LoadStep == LoadInv /\ [Next]_startupVars => LoadInv'
<1> SUFFICES ASSUME LoadInv, [Next]_startupVars  PROVE LoadInv'
  OBVIOUS
<1> USE DEF AfterLoad, AfterGuard, AfterProvider, AfterVerifier
<1>1. ASSUME NEW s \in Settings, Set(s)  PROVE LoadInv'
  BY <1>1 DEF LoadInv, Set
<1>2. CASE Load
  <2>1. stage = "edit" /\ cfg = None /\ UNCHANGED layers
    BY <1>2 DEF LoadInv, Load
  <2>2. PICK path \in Paths :
          \/ /\ cfg' = ResolveLayers(path)
             /\ prov' = [f \in Fields |-> Record(path, f)]
             /\ stage' = "loaded"
          \/ stage' = "failed" /\ UNCHANGED << cfg, prov >>
    BY <1>2, ZenonT(60) DEF Load
  <2> QED
    BY <2>1, <2>2, SameLayers DEF LoadInv
<1>3. CASE UNCHANGED startupVars
  BY <1>3, SameLayers DEF LoadInv, startupVars
<1>4. CASE FilesChange
  BY <1>4, LoadKept DEF FilesChange
<1>5. CASE Dump \/ Guard \/ BuildTeeProvider \/ BuildVerifier \/ ReadKey
  BY <1>5, LoadKept DEF Dump, Guard, BuildTeeProvider, BuildVerifier, ReadKey, Proceed
<1>6. CASE Bind
  BY <1>6, LoadKept DEF Bind, Proceed
<1> QED
  BY <1>1, <1>2, <1>3, <1>4, <1>5, <1>6 DEF Next

-----------------------------------------------------------------------------
\* BootInv speaks of the configuration, the build, the files and the listener.
LEMMA BootKept ==
  ASSUME BootInv, UNCHANGED << cfg, build, files, listener >>, stage' = stage
  PROVE  BootInv'
  BY ZenonT(60) DEF BootInv, UsesTpm, UsesMock

\* A process that refuses to go on, or has gone no further than to be edited.
LEMMA BootStopped == stage' \in {"failed", "edit"} => BootInv'
  BY DEF BootInv, AfterLoad, AfterGuard, AfterProvider, AfterVerifier

LEMMA FilesStep == FilesOK /\ [Next]_startupVars => FilesOK'
<1> SUFFICES ASSUME FilesOK, [Next]_startupVars  PROVE FilesOK'
  OBVIOUS
<1>1. CASE FilesChange
  <2>1. CASE files' = [files EXCEPT !.roots = ~@]
    <3>1. (~files.roots) \in BOOLEAN
      BY ZenonT(60)
    <3> QED
      BY <2>1, <3>1, ZenonT(60) DEF FilesOK
  <2>2. CASE files' = [files EXCEPT !.cert = @ + 1]
    BY <2>2 DEF FilesOK
  <2>3. CASE files' = [files EXCEPT !.key = @ + 1]
    BY <2>3 DEF FilesOK
  <2> QED
    BY <1>1, <2>1, <2>2, <2>3, ZenonT(60) DEF FilesChange
<1>2. CASE UNCHANGED files
  BY <1>2 DEF FilesOK
<1>3. ASSUME NEW s \in Settings, Set(s)  PROVE UNCHANGED files
  BY <1>3 DEF Set
<1>4. Load \/ Dump => UNCHANGED files
  BY DEF Load, Dump
<1>5. Guard \/ BuildTeeProvider \/ BuildVerifier \/ Bind \/ ReadKey => UNCHANGED files
  BY ZenonT(60) DEF Guard, BuildTeeProvider, BuildVerifier, Bind, ReadKey, Proceed
<1>6. UNCHANGED startupVars => UNCHANGED files
  BY DEF startupVars
<1> QED
  BY <1>1, <1>2, <1>3, <1>4, <1>5, <1>6, ZenonT(60) DEF Next

LEMMA BootStep == FilesOK /\ BootInv /\ [Next]_startupVars => BootInv'
<1> SUFFICES ASSUME FilesOK, BootInv, [Next]_startupVars  PROVE BootInv'
  OBVIOUS
<1> USE DEF AfterLoad, AfterGuard, AfterProvider, AfterVerifier
<1>1. ASSUME NEW s \in Settings, Set(s)  PROVE BootInv'
  BY <1>1, BootStopped DEF Set
<1>2. CASE FilesChange
  <2>1. UNCHANGED << build, stage, cfg, listener >>
    BY <1>2 DEF FilesChange
  <2>2. stage \in AfterVerifier => files'.roots = files.roots
    BY <1>2 DEF FilesChange, FilesOK
  <2> QED
    BY <2>1, <2>2, ZenonT(60) DEF BootInv, UsesTpm, UsesMock
<1>3. CASE Load
  <2>1. CASE stage' = "failed"
    BY <2>1, BootStopped
  <2>2. CASE stage' # "failed"
    <3>1. PICK path \in Paths : /\ Validate(ResolveLayers(path)) /\ cfg' = ResolveLayers(path)
                                /\ stage' = "loaded"
      BY <1>3, <2>2, ZenonT(60) DEF Load
    <3> HIDE DEF AfterLoad, AfterGuard, AfterProvider, AfterVerifier
    <3>2. UsesTpm(cfg)' => /\ cfg'.tpm.pcrs
                           /\ cfg'.tpm.pinned \/ cfg'.tpm.ek_roots \/ cfg'.tpm.unpinned
      BY <3>1, ZenonT(60) DEF Validate, UsesTpm
    <3>3. /\ stage' \notin AfterGuard /\ stage' \notin AfterProvider
          /\ stage' \notin AfterVerifier /\ stage' \notin {"cert", "serving"}
      BY <3>1 DEF AfterGuard, AfterProvider, AfterVerifier
    <3> QED
      BY <3>2, <3>3, ZenonT(60) DEF BootInv
  <2> QED
    BY <2>1, <2>2
<1>4. CASE Dump
  BY <1>4 DEF Dump, BootInv, UsesTpm, UsesMock
<1>5. CASE Guard
  BY <1>5 DEF Guard, Proceed, BootInv, UsesTpm, UsesMock
<1>6. CASE BuildTeeProvider
  BY <1>6 DEF BuildTeeProvider, Proceed, BootInv, UsesTpm, UsesMock
<1>7. CASE BuildVerifier
  BY <1>7 DEF BuildVerifier, BuildsVerifier, Proceed, BootInv, UsesTpm, UsesMock
<1>8. CASE Bind
  BY <1>8 DEF Bind, Proceed, Listens, BootInv, UsesTpm, UsesMock
<1>9. CASE ReadKey
  BY <1>9 DEF ReadKey, KeysMatch, Proceed, Listens, BootInv, UsesTpm, UsesMock
<1>10. CASE UNCHANGED startupVars
  BY <1>10, BootKept DEF startupVars
<1> QED
  BY <1>1, <1>2, <1>3, <1>4, <1>5, <1>6, <1>7, <1>8, <1>9, <1>10 DEF Next

\* The inductive invariant of boot.
LEMMA StartupInvariant == Spec => []StartupInv
<1>1. Init => StartupInv
  BY BootStopped DEF Init, StartupInv, FilesOK, LoadInv, BootInv, AfterLoad, AfterGuard, AfterProvider,
                     AfterVerifier
<1>2. StartupInv /\ [Next]_startupVars => StartupInv'
  BY FilesStep, LoadStep, BootStep, ZenonT(60) DEF StartupInv
<1> QED
  BY <1>1, <1>2, PTL DEF Spec

-----------------------------------------------------------------------------
\* startup_attestation_decision and the two builders: a process that serves has
\* passed all three with the configuration it serves under.
THEOREM ServesWhatItIs == Spec => []ServesAsBuilt
<1>1. StartupInv => ServesAsBuilt
  BY ZenonT(60) DEF StartupInv, BootInv, ServesAsBuilt, UsesMock, AfterGuard, AfterProvider,
                    AfterVerifier
<1> QED
  BY <1>1, StartupInvariant, PTL

\* Config::validate and build_tpm_verifier, with the root files replaced between
\* them: whoever serves TPM attestation has something to trust.
THEOREM TpmIsTrusted == Spec => []TpmServesWithTrust
<1>1. StartupInv => TpmServesWithTrust
  BY ZenonT(60) DEF StartupInv, BootInv, TpmServesWithTrust, AfterLoad, AfterGuard, AfterProvider,
                    AfterVerifier
<1> QED
  BY <1>1, StartupInvariant, PTL

\* resolve takes the TPM section as a whole, read_tpm_env and the file alike.
THEOREM TpmSectionIsOneLayers == Spec => []TpmSectionIsWhole
<1>1. StartupInv => TpmSectionIsWhole
  <2> SUFFICES ASSUME StartupInv, cfg # None, cfg.tpm # None
               PROVE  \E l \in Layers : /\ \E k \in TpmKeys : layers[l][k] # Silent
                                        /\ \A p \in TpmParts : cfg.tpm[p] <=> layers[l][p] = TRUE
    BY ZenonT(60) DEF TpmSectionIsWhole
  <2>1. PICK path \in Paths : cfg = ResolveLayers(path)
    BY DEF StartupInv, LoadInv
  <2> DEFINE l == Winner(path, "tpm")
  <2>2. cfg.tpm = Resolve(path, "tpm") /\ Default.tpm = None
    BY <2>1 DEF ResolveLayers, Fields, Default
  <2>3. l \in Layers /\ ReadLayer(l, path, "tpm") # Silent /\ cfg.tpm = ReadLayer(l, path, "tpm")
    BY <2>2, ResolvedFrom
  <2> HIDE DEF l
  <2>4. cfg.tpm = ReadTpm(l) /\ ReadTpm(l) # Silent
    BY <2>3, ZenonT(60) DEF ReadLayer
  <2>5. cfg.tpm = TpmSection(l) /\ \E k \in TpmKeys : layers[l][k] # Silent
    BY <2>4, ZenonT(60) DEF ReadTpm
  <2>6. \A p \in TpmParts : cfg.tpm[p] <=> layers[l][p] = TRUE
    BY <2>5, ZenonT(60) DEF TpmSection
  <2> QED
    BY <2>3, <2>5, <2>6
<1> QED
  BY <1>1, StartupInvariant, PTL

\* main's match on [server.tls] and load_certified_key: no refusal on the way to
\* TLS ends in a plaintext listener, no replaced file in a pair that is none.
THEOREM TlsNeverFallsBack == Spec => []NoPlaintextFallback
<1>1. StartupInv => NoPlaintextFallback
  BY DEF StartupInv, BootInv, NoPlaintextFallback
<1> QED
  BY <1>1, StartupInvariant, PTL

\* Provenance::record and dump: the layer that a line names has the line's value.
THEOREM DumpIsRight == Spec => []DumpNamesTheLayer
<1>1. StartupInv => DumpNamesTheLayer
  <2> SUFFICES ASSUME StartupInv, stage = "dumped", NEW line \in DumpLines \ TpmParts
               PROVE  DumpValue(line) = IF DumpSource(line) = "default" THEN Default[line]
                                        ELSE Parse(line, layers[DumpSource(line)][line])
    BY DEF DumpNamesTheLayer
  <2>1. PICK path \in Paths : /\ cfg = ResolveLayers(path)
                              /\ prov = [f \in Fields |-> Record(path, f)]
    BY DEF StartupInv, LoadInv, AfterLoad
  <2>2. line \in Fields /\ line # "tpm" /\ line \notin TpmParts
    BY DEF DumpLines
  <2>3. DumpValue(line) = Resolve(path, line)
    BY <2>1, <2>2 DEF DumpValue, ResolveLayers
  <2>4. DumpSource(line) = Winner(path, line)
    BY <2>1, <2>2 DEF DumpSource, Record
  <2>5. ASSUME NEW l, ReadLayer(l, path, line) # Silent
        PROVE  ReadLayer(l, path, line) = Parse(line, layers[l][line])
    BY <2>2, <2>5, ZenonT(60) DEF ReadLayer
  <2>6. CASE Winner(path, line) = "default"
    BY <2>3, <2>4, <2>6, ResolvedFrom
  <2>7. CASE Winner(path, line) # "default"
    BY <2>3, <2>4, <2>5, <2>7, ResolvedFrom
  <2> QED
    BY <2>6, <2>7
<1> QED
  BY <1>1, StartupInvariant, PTL

\* A layer is read as silent only if it says nothing of the field: no value that
\* can be written, one that clears the field included, is taken for silence.
LEMMA ReadAsMeant ==
  ASSUME NEW l \in Layers, NEW path, NEW f
  PROVE  /\ ReadLayer(l, path, f) # Silent <=> Speaks(l, path, f)
         /\ Speaks(l, path, f) => ReadLayer(l, path, f) = Meant(l, f)
<1>1. CASE l = "file" /\ path = "missing"
  BY <1>1, ZenonT(60) DEF ReadLayer, Speaks
<1>2. CASE ~(l = "file" /\ path = "missing") /\ f = "tpm"
  <2>1. TpmSection(l) \in [TpmParts -> BOOLEAN]
    BY ZenonT(60) DEF TpmSection
  <2>2. TpmSection(l) # Silent
    BY <2>1, SilentIsNoValue, ZenonT(60)
  <2>3. ReadLayer(l, path, f) = ReadTpm(l) /\ Meant(l, f) = TpmSection(l)
    BY <1>2, ZenonT(60) DEF ReadLayer, Meant
  <2>4. Speaks(l, path, f) <=> \E k \in TpmKeys : layers[l][k] # Silent
    BY <1>2, ZenonT(60) DEF Speaks, KeysOf
  <2> QED
    BY <2>2, <2>3, <2>4, ZenonT(60) DEF ReadTpm
<1>3. CASE ~(l = "file" /\ path = "missing") /\ f # "tpm"
  <2>1. Speaks(l, path, f) <=> layers[l][f] # Silent
    BY <1>3, ZenonT(60) DEF Speaks, KeysOf
  <2>2. /\ layers[l][f] = Silent => ReadLayer(l, path, f) = Silent
        /\ layers[l][f] # Silent => ReadLayer(l, path, f) = Parse(f, layers[l][f])
        /\ Meant(l, f) = Parse(f, layers[l][f])
    BY <1>3, ZenonT(60) DEF ReadLayer, Meant
  <2>3. ASSUME NEW v, v # Silent  PROVE Parse(f, v) # Silent
    <3>1. Silent # None /\ Silent # Malformed /\ Silent \notin KindNames
      BY SilentIsNoValue, ZenonT(60)
    <3>2. FromStr(TeeProviderKind, v) # Silent
      BY <3>1, ZenonT(60) DEF FromStr, KindNames
    <3>3. FromStr(VerifierKind, v) # Silent
      BY <3>1, ZenonT(60) DEF FromStr, KindNames
    <3> QED
      BY <2>3, <3>1, <3>2, <3>3 DEF Parse
  <2> QED
    BY <2>1, <2>2, <2>3, ZenonT(60)
<1> QED
  BY <1>1, <1>2, <1>3

\* read_file, read_env, overrides and resolve together: each field of the
\* configuration in force is what the highest layer that mentions it means.
THEOREM PrecedenceHolds == Spec => []HighestWins
<1>1. StartupInv => HighestWins
  <2> SUFFICES ASSUME StartupInv, cfg # None  PROVE HighestWins
    BY DEF HighestWins
  <2>1. PICK path \in Paths : cfg = ResolveLayers(path)
    BY DEF StartupInv, LoadInv
  <2> SUFFICES ASSUME NEW f \in Fields
               PROVE  \/ \E l \in Layers : /\ Speaks(l, path, f)
                                           /\ \A k \in Layers : Outranks(k, l) => ~Speaks(k, path, f)
                                           /\ cfg[f] = Meant(l, f)
                      \/ (\A l \in Layers : ~Speaks(l, path, f)) /\ cfg[f] = Default[f]
    BY ZenonT(60) DEF HighestWins
  <2> DEFINE S == Setters(path, f)
  <2>2. S \in SUBSET Layers /\ \A l \in Layers : l \in S <=> Speaks(l, path, f)
    BY ReadAsMeant, ZenonT(60) DEF Setters
  <2>3. cfg[f] = Resolve(path, f) /\ Winner(path, f) = Highest(S)
    BY <2>1 DEF ResolveLayers, Winner
  <2> HIDE DEF S
  <2>4. CASE S = {}
    <3>1. Winner(path, f) = "default"
      BY <2>2, <2>3, <2>4, HighestOf
    <3>2. cfg[f] = Default[f]
      BY <2>3, <3>1, ResolvedFrom
    <3> QED
      BY <2>2, <2>4, <3>2, ZenonT(60)
  <2>5. CASE S # {}
    <3>1. PICK l : l = Highest(S)
      OBVIOUS
    <3>2. l \in S /\ l \in Layers /\ l # "default" /\ \A k \in S : LayerRank[k] <= LayerRank[l]
      BY <2>2, <2>5, <3>1, HighestOf
    <3>3. cfg[f] = Meant(l, f)
      <4>1. cfg[f] = ReadLayer(l, path, f)
        BY <2>3, <3>1, <3>2, ResolvedFrom
      <4>2. Speaks(l, path, f)
        BY <2>2, <3>2, ZenonT(60)
      <4> QED
        BY <3>2, <4>1, <4>2, ReadAsMeant
    <3>4. ASSUME NEW k \in Layers, Outranks(k, l)  PROVE ~Speaks(k, path, f)
      <4>1. ~(LayerRank[k] <= LayerRank[l])
        BY <3>4 DEF Outranks, LayerRank
      <4> QED
        BY <2>2, <3>2, <4>1, ZenonT(60)
    <3> QED
      BY <2>2, <3>2, <3>3, <3>4, ZenonT(60)
  <2> QED
    BY <2>4, <2>5
<1> QED
  BY <1>1, StartupInvariant, PTL

-----------------------------------------------------------------------------
INSTANCE WellFoundedInduction

\* Numbers have a least one among them.
LEMMA LeastNumber ==
  ASSUME NEW T \in SUBSET Nat, T # {}
  PROVE  \E n \in T : \A m \in T : n <= m
<1> DEFINE R == OpToRel(<, Nat)
<1>1. \A x, y \in Nat : << x, y >> \in R <=> x < y
  BY ZenonT(60) DEF OpToRel
<1>2. IsWellFoundedOn(R, Nat)
  BY NatLessThanWellFounded, ZenonT(60)
<1> HIDE DEF R
<1>3. \E x \in T : \A y \in T : ~(<< y, x >> \in R)
  BY <1>2, WFMin, ZenonT(60)
<1>4. \A x, y \in T : ~(<< y, x >> \in R) => x <= y
  BY <1>1
<1> QED
  BY <1>3, <1>4, ZenonT(60)

\* trim_end_matches keeps everything up to the last character that is no slash.
LEMMA Trimmed ==
  ASSUME NEW p \in Seq(STRING)
  PROVE  \E n \in 0 .. Len(p) : /\ TrimSlashes(p) = SubSeq(p, 1, n)
                                /\ n = 0 \/ p[n] # "/"
                                /\ \A i \in n + 1 .. Len(p) : p[i] = "/"
<1> DEFINE ends == {n \in 0 .. Len(p) : \A i \in n + 1 .. Len(p) : p[i] = "/"}
           n == CHOOSE n \in ends : \A m \in ends : n <= m
<1>1. Len(p) \in ends /\ ends \in SUBSET Nat
  OBVIOUS
<1>2. \E k \in ends : \A m \in ends : k <= m
  BY <1>1, LeastNumber, ZenonT(60)
<1>3. n \in ends /\ \A m \in ends : n <= m
  BY <1>2, ZenonT(60)
<1> HIDE DEF n
<1>4. ASSUME n # 0, p[n] = "/" PROVE FALSE
  <2>1. n - 1 \in ends
    BY <1>3, <1>4
  <2> QED
    BY <1>3, <2>1
<1>5. TrimSlashes(p) = SubSeq(p, 1, n)
  BY ZenonT(60) DEF TrimSlashes, n
<1> QED
  BY <1>3, <1>4, <1>5, ZenonT(60)

NoSlash(p, i, j) == \A k \in i + 1 .. j - 1 : p[k] # "/"

\* What the bounds of a segment are.
LEMMA BoundsAre ==
  ASSUME NEW p \in Seq(STRING), NEW i, NEW j
  PROVE  << i, j >> \in SegmentBounds(p) <=>
           /\ i \in 0 .. Len(p) /\ (i = 0 \/ p[i] = "/")
           /\ j \in 1 .. Len(p) + 1 /\ (j = Len(p) + 1 \/ p[j] = "/")
           /\ i < j /\ NoSlash(p, i, j)
<1>1. DOMAIN p = 1 .. Len(p) /\ Len(p) \in Nat
  OBVIOUS
<1>2. ASSUME << i, j >> \in SegmentBounds(p)
      PROVE  /\ i \in 0 .. Len(p) /\ (i = 0 \/ p[i] = "/")
             /\ j \in 1 .. Len(p) + 1 /\ (j = Len(p) + 1 \/ p[j] = "/")
             /\ i < j /\ NoSlash(p, i, j)
  <2> DEFINE S == {k \in DOMAIN p : p[k] = "/"}
  <2>1. i \in S \cup {0} /\ j \in S \cup {Len(p) + 1}
    BY <1>2 DEF SegmentBounds
  <2>2. i < j /\ \A k \in S : ~ (i < k /\ k < j)
    BY <1>2 DEF SegmentBounds
  <2>3. /\ i \in 0 .. Len(p) /\ (i = 0 \/ p[i] = "/")
        /\ j \in 1 .. Len(p) + 1 /\ (j = Len(p) + 1 \/ p[j] = "/")
    BY <1>1, <2>1
  <2>4. NoSlash(p, i, j)
    BY <1>1, <2>2, <2>3 DEF NoSlash
  <2> QED
    BY <2>2, <2>3, <2>4, ZenonT(60)
<1>3. ASSUME i \in 0 .. Len(p), (i = 0 \/ p[i] = "/"),
             j \in 1 .. Len(p) + 1, (j = Len(p) + 1 \/ p[j] = "/"),
             i < j, NoSlash(p, i, j)
      PROVE  << i, j >> \in SegmentBounds(p)
  BY <1>1, <1>3 DEF SegmentBounds, NoSlash
<1> QED
  BY <1>2, <1>3, ZenonT(60)

\* Where a segment ends: at the first slash behind its start, or the end.
LEMMA SegmentStarts ==
  ASSUME NEW p \in Seq(STRING), NEW i \in 0 .. Len(p), i = 0 \/ p[i] = "/"
  PROVE  \E j \in i + 1 .. Len(p) + 1 : << i, j >> \in SegmentBounds(p)
<1> DEFINE ends == {j \in i + 1 .. Len(p) + 1 : j = Len(p) + 1 \/ p[j] = "/"}
<1>1. Len(p) + 1 \in ends /\ ends \in SUBSET Nat
  OBVIOUS
<1>2. PICK j \in ends : \A m \in ends : j <= m
  BY <1>1, LeastNumber, ZenonT(60)
<1>3. << i, j >> \in SegmentBounds(p)
  BY <1>2, BoundsAre DEF NoSlash
<1> QED
  BY <1>3, ZenonT(60)

\* Every character that is no slash lies in a segment.
LEMMA SegmentAround ==
  ASSUME NEW p \in Seq(STRING), NEW k \in DOMAIN p, p[k] # "/"
  PROVE  \E i \in 0 .. k - 1, j \in k + 1 .. Len(p) + 1 : << i, j >> \in SegmentBounds(p)
<1> DEFINE behind == {m \in 1 .. k : k - m = 0 \/ p[k - m] = "/"}
<1>1. k \in behind /\ behind \in SUBSET Nat /\ k \in 1 .. Len(p)
  OBVIOUS
<1>2. PICK m \in behind : \A n \in behind : m <= n
  BY <1>1, LeastNumber, ZenonT(60)
<1>3. PICK i : i = k - m
  BY ZenonT(60)
<1>4. i \in 0 .. Len(p) /\ i < k /\ (i = 0 \/ p[i] = "/")
  BY <1>1, <1>2, <1>3
<1>5. \A n \in i + 1 .. k : p[n] # "/"
  <2> SUFFICES ASSUME NEW n \in i + 1 .. k, p[n] = "/" PROVE FALSE
    BY ZenonT(60)
  <2>1. n # k /\ k - n \in behind /\ k - n < m
    BY <1>1, <1>2, <1>3, SMTT(60)
  <2> QED
    BY <1>2, <2>1
<1>6. PICK j \in i + 1 .. Len(p) + 1 : << i, j >> \in SegmentBounds(p)
  BY <1>4, SegmentStarts, ZenonT(60)
<1>7. j \in k + 1 .. Len(p) + 1
  <2>1. j = Len(p) + 1 \/ p[j] = "/"
    BY <1>6, BoundsAre, ZenonT(60)
  <2> QED
    BY <1>1, <1>4, <1>5, <1>6, <2>1
<1>8. i \in 0 .. k - 1
  BY <1>1, <1>4
<1> QED
  BY <1>6, <1>7, <1>8, ZenonT(60)

\* The segment of p between i and j.
Segment(p, i, j) == [at |-> i, text |-> SubSeq(p, i + 1, j - 1)]

LEMMA SegmentsAre ==
  ASSUME NEW p \in Seq(STRING), NEW s
  PROVE  s \in Segments(p) <=>
           \E i, j : << i, j >> \in SegmentBounds(p) /\ s = Segment(p, i, j)
<1>1. ASSUME s \in Segments(p)
      PROVE  \E i, j : << i, j >> \in SegmentBounds(p) /\ s = Segment(p, i, j)
  <2>1. PICK b \in SegmentBounds(p) : s = Segment(p, b[1], b[2])
    BY <1>1, ZenonT(60) DEF Segments, Segment
  <2>2. b = << b[1], b[2] >>
    BY DEF SegmentBounds
  <2> QED
    BY <2>1, <2>2, ZenonT(60)
<1>2. ASSUME NEW i, NEW j, << i, j >> \in SegmentBounds(p), s = Segment(p, i, j)
      PROVE  s \in Segments(p)
  <2>1. PICK b \in SegmentBounds(p) : b = << i, j >>
    BY <1>2, ZenonT(60)
  <2>2. b[1] = i /\ b[2] = j
    BY <2>1, ZenonT(60)
  <2> QED
    BY <1>2, <2>2, ZenonT(60) DEF Segments, Segment
<1> QED
  BY <1>1, <1>2, ZenonT(60)

\* A segment with text in it has its first character behind its start.
TextIs(p, i, j) ==
  /\ i \in Nat /\ j \in Nat /\ Len(Segment(p, i, j).text) = j - 1 - i
  /\ Segment(p, i, j).at = i
  /\ \A k \in 1 .. j - 1 - i : Segment(p, i, j).text[k] = p[i + k]
  /\ Segment(p, i, j).text # <<>> <=> i + 1 < j

LEMMA SegmentText ==
  ASSUME NEW p \in Seq(STRING), NEW i, NEW j, << i, j >> \in SegmentBounds(p)
  PROVE  TextIs(p, i, j)
<1>1. i \in 0 .. Len(p) /\ j \in 1 .. Len(p) + 1 /\ i < j
  BY BoundsAre, ZenonT(60)
<1>2. /\ i + 1 \in Nat /\ j - 1 \in Nat /\ i + 1 >= 1 /\ j - 1 <= Len(p) /\ j - 1 >= i
      /\ i \in Nat /\ j \in Nat
  BY <1>1
<1>3. /\ SubSeq(p, i + 1, j - 1) \in Seq(STRING)
      /\ Len(SubSeq(p, i + 1, j - 1)) = j - 1 - i
      /\ \A k \in 1 .. j - 1 - i : SubSeq(p, i + 1, j - 1)[k] = p[i + k]
  BY <1>2
<1>4. Segment(p, i, j).text = SubSeq(p, i + 1, j - 1) /\ Segment(p, i, j).at = i
  BY ZenonT(60) DEF Segment
<1>5. \A q \in Seq(STRING) : q # <<>> <=> Len(q) # 0
  OBVIOUS
<1>6. SubSeq(p, i + 1, j - 1) # <<>> <=> i + 1 < j
  BY <1>2, <1>3, <1>5
<1> QED
  BY <1>2, <1>3, <1>4, <1>6, ZenonT(60) DEF TextIs

\* The last character that is no slash.
LastAt(p, n) ==
  n \in 1 .. Len(p) /\ p[n] # "/" /\ \A i \in n + 1 .. Len(p) : p[i] = "/"

\* The segments a prefix asks for are those that start before its last
\* character that is no slash, and they end right behind it at the latest.
LEMMA DemandedAre ==
  ASSUME NEW p \in Seq(STRING), NEW n, LastAt(p, n),
         NEW i, NEW j, << i, j >> \in SegmentBounds(p)
  PROVE  /\ Segment(p, i, j) \in Demanded(p) <=> i < n
         /\ i < n => j <= n + 1
<1>1. /\ i \in 0 .. Len(p) /\ j \in 1 .. Len(p) + 1 /\ i < j
      /\ NoSlash(p, i, j)
  BY BoundsAre, ZenonT(60)
<1>2. i < n => j <= n + 1
  <2> SUFFICES ASSUME i < n, j > n + 1 PROVE FALSE
    BY <1>1 DEF LastAt
  <2>1. n + 1 \in i + 1 .. j - 1 /\ n + 1 \in n + 1 .. Len(p)
    BY <1>1 DEF LastAt
  <2> QED
    BY <1>1, <2>1, ZenonT(60) DEF LastAt, NoSlash
<1>3. Segment(p, i, j) \in Segments(p)
  BY SegmentsAre, ZenonT(60)
<1>4. ASSUME Segment(p, i, j) \in Demanded(p) PROVE i < n
  <2>1. PICK t \in Segments(p) : t.text # <<>> /\ Segment(p, i, j).at <= t.at
    BY <1>4, ZenonT(60) DEF Demanded
  <2>2. PICK k, m : << k, m >> \in SegmentBounds(p) /\ t = Segment(p, k, m)
    BY <2>1, SegmentsAre, ZenonT(60)
  <2>3. i <= k /\ k + 1 < m
    <3>1. TextIs(p, k, m) /\ TextIs(p, i, j)
      BY <2>2, SegmentText, ZenonT(60)
    <3> QED
      BY <2>1, <2>2, <3>1 DEF TextIs
  <2>4. /\ k \in 0 .. Len(p) /\ m \in 1 .. Len(p) + 1
        /\ NoSlash(p, k, m)
    BY <2>2, BoundsAre, ZenonT(60)
  <2>5. k + 1 \in k + 1 .. m - 1 /\ k + 1 \in 1 .. Len(p)
    BY <2>3, <2>4
  <2>6. p[k + 1] # "/"
    BY <2>4, <2>5, ZenonT(60) DEF NoSlash
  <2>7. k + 1 <= n
    BY <2>4, <2>5, <2>6 DEF LastAt
  <2> QED
    BY <1>1, <2>3, <2>4, <2>7 DEF LastAt
<1>5. ASSUME i < n PROVE Segment(p, i, j) \in Demanded(p)
  <2>1. n \in DOMAIN p /\ p[n] # "/"
    BY DEF LastAt
  <2>2. PICK k \in 0 .. n - 1, m \in n + 1 .. Len(p) + 1 : << k, m >> \in SegmentBounds(p)
    BY <2>1, SegmentAround, ZenonT(60)
  <2>3. i <= k
    <3> SUFFICES ASSUME k < i PROVE FALSE
      BY <1>1, <2>2 DEF LastAt
    <3>1. i # 0 /\ p[i] = "/"
      <4>1. i = 0 \/ p[i] = "/"
        BY BoundsAre, ZenonT(60)
      <4> QED
        BY <1>1, <2>2, <4>1
    <3>2. NoSlash(p, k, m)
      BY <2>2, BoundsAre, ZenonT(60)
    <3>3. i \in k + 1 .. m - 1
      BY <1>1, <1>5, <2>2 DEF LastAt
    <3> QED
      BY <3>1, <3>2, <3>3, ZenonT(60) DEF NoSlash
  <2>4. Segment(p, k, m) \in Segments(p)
    BY <2>2, SegmentsAre, ZenonT(60)
  <2>5. Segment(p, k, m).text # <<>> /\ Segment(p, i, j).at <= Segment(p, k, m).at
    <3>1. Segment(p, k, m).at = k /\ (Segment(p, k, m).text # <<>> <=> k + 1 < m)
      <4>1. TextIs(p, k, m)
        BY <2>2, SegmentText, ZenonT(60)
      <4> QED
        BY <4>1 DEF TextIs
    <3>2. Segment(p, i, j).at = i
      BY ZenonT(60) DEF Segment
    <3> QED
      BY <2>1, <2>2, <2>3, <3>1, <3>2
  <2> QED
    BY <1>3, <2>4, <2>5, ZenonT(60) DEF Demanded
<1> QED
  BY <1>2, <1>4, <1>5, ZenonT(60)

\* The first n characters are the same.
Agree(p, q, n) == n <= Len(q) /\ \A k \in 1 .. n : q[k] = p[k]

LEMMA PrefixAgrees ==
  ASSUME NEW p \in Seq(STRING), NEW q \in Seq(STRING), NEW n \in 0 .. Len(p)
  PROVE  /\ Len(SubSeq(p, 1, n)) = n /\ (SubSeq(p, 1, n) = <<>> <=> n = 0)
         /\ HasPrefix(q, SubSeq(p, 1, n)) <=> Agree(p, q, n)
<1> DEFINE s == SubSeq(p, 1, n)
           t == SubSeq(q, 1, n)
<1>1. /\ s \in Seq(STRING) /\ Len(s) = n /\ \A k \in 1 .. n : s[k] = p[k]
      /\ s = <<>> <=> n = 0
  OBVIOUS
<1>2. ASSUME n <= Len(q)
      PROVE  t \in Seq(STRING) /\ Len(t) = n /\ \A k \in 1 .. n : t[k] = q[k]
  BY <1>2
<1> HIDE DEF s, t
<1>3. ASSUME n <= Len(q) PROVE t = s <=> \A k \in 1 .. n : q[k] = p[k]
  BY <1>1, <1>2, <1>3
<1>4. HasPrefix(q, s) <=> n <= Len(q) /\ t = s
  BY <1>1, ZenonT(60) DEF HasPrefix, t
<1> QED
  BY <1>1, <1>3, <1>4, ZenonT(60) DEF Agree, s

\* A matching path has every segment the prefix asks for.
LEMMA MatchHasSegments ==
  ASSUME NEW p \in Seq(STRING), NEW q \in Seq(STRING), NEW n, LastAt(p, n),
         Agree(p, q, n), Len(q) = n \/ q[n + 1] = "/",
         NEW s \in Demanded(p)
  PROVE  s \in Segments(q)
<1>1. PICK i, j : << i, j >> \in SegmentBounds(p) /\ s = Segment(p, i, j)
  <2>1. s \in Segments(p)
    BY ZenonT(60) DEF Demanded
  <2> QED
    BY <2>1, SegmentsAre, ZenonT(60)
<1>2. i < n /\ j <= n + 1
  BY <1>1, DemandedAre, ZenonT(60)
<1>3. /\ i \in 0 .. Len(p) /\ (i = 0 \/ p[i] = "/")
      /\ j \in 1 .. Len(p) + 1 /\ (j = Len(p) + 1 \/ p[j] = "/")
      /\ i < j /\ NoSlash(p, i, j)
  BY <1>1, BoundsAre, ZenonT(60)
<1>4. n \in 1 .. Len(p) /\ n <= Len(q) /\ \A k \in 1 .. n : q[k] = p[k]
  BY ZenonT(60) DEF LastAt, Agree
<1>5. i \in 0 .. Len(q) /\ (i = 0 \/ q[i] = "/")
  BY <1>2, <1>3, <1>4
<1>6. j \in 1 .. Len(q) + 1 /\ (j = Len(q) + 1 \/ q[j] = "/")
  <2>1. CASE j = n + 1
    BY <1>4, <2>1
  <2>2. CASE j # n + 1
    BY <1>2, <1>3, <1>4, <2>2
  <2> QED
    BY <2>1, <2>2, ZenonT(60)
<1>7. NoSlash(q, i, j)
  BY <1>2, <1>3, <1>4 DEF NoSlash
<1>8. << i, j >> \in SegmentBounds(q)
  BY <1>3, <1>5, <1>6, <1>7, BoundsAre, ZenonT(60)
<1>9. SubSeq(p, i + 1, j - 1) = SubSeq(q, i + 1, j - 1)
  <2>1. /\ i + 1 \in Nat /\ j - 1 \in Nat /\ i + 1 >= 1 /\ j - 1 >= i
        /\ j - 1 <= Len(p) /\ j - 1 <= Len(q)
    BY <1>2, <1>3, <1>4
  <2>2. \A k \in i + 1 .. j - 1 : q[k] = p[k]
    BY <1>2, <1>3, <1>4
  <2> QED
    BY <2>1, <2>2, SMTT(60)
<1>10. s = Segment(q, i, j)
  BY <1>1, <1>9, ZenonT(60) DEF Segment
<1> QED
  BY <1>8, <1>10, SegmentsAre, ZenonT(60)

\* A segment that two strings share lies at the same characters of both.
LEMMA SharedSegment ==
  ASSUME NEW p \in Seq(STRING), NEW q \in Seq(STRING), NEW i, NEW j,
         << i, j >> \in SegmentBounds(p), Segment(p, i, j) \in Segments(q)
  PROVE  << i, j >> \in SegmentBounds(q) /\ \A k \in i + 1 .. j - 1 : q[k] = p[k]
<1>1. PICK a, b : << a, b >> \in SegmentBounds(q) /\ Segment(p, i, j) = Segment(q, a, b)
  BY SegmentsAre, ZenonT(60)
<1>2. /\ i \in Nat /\ j \in Nat /\ Len(Segment(p, i, j).text) = j - 1 - i
      /\ Segment(p, i, j).at = i
      /\ \A k \in 1 .. j - 1 - i : Segment(p, i, j).text[k] = p[i + k]
  <2>1. TextIs(p, i, j)
    BY SegmentText, ZenonT(60)
  <2> QED
    BY <2>1 DEF TextIs
<1>3. /\ a \in Nat /\ b \in Nat /\ Len(Segment(q, a, b).text) = b - 1 - a
      /\ Segment(q, a, b).at = a
      /\ \A k \in 1 .. b - 1 - a : Segment(q, a, b).text[k] = q[a + k]
  <2>1. << a, b >> \in SegmentBounds(q)
    BY <1>1, ZenonT(60)
  <2>2. TextIs(q, a, b)
    BY <2>1, SegmentText, ZenonT(60)
  <2> QED
    BY <2>2, ZenonT(60) DEF TextIs
<1>4. a = i /\ b = j
  BY <1>1, <1>2, <1>3
<1>5. ASSUME NEW k \in i + 1 .. j - 1 PROVE q[k] = p[k]
  <2>1. k - i \in 1 .. j - 1 - i /\ i + (k - i) = k
    BY <1>2
  <2>2. Segment(p, i, j).text[k - i] = p[k] /\ Segment(q, a, b).text[k - i] = q[k]
    BY <1>2, <1>3, <1>4, <2>1, ZenonT(60)
  <2> QED
    BY <1>1, <2>2, ZenonT(60)
<1> QED
  BY <1>1, <1>4, <1>5, ZenonT(60)

\* A path that has every segment the prefix asks for matches it.
LEMMA SegmentsMatch ==
  ASSUME NEW p \in Seq(STRING), NEW q \in Seq(STRING), NEW n, LastAt(p, n),
         Demanded(p) \subseteq Segments(q)
  PROVE  Agree(p, q, n) /\ (Len(q) = n \/ q[n + 1] = "/")
<1>0. n \in 1 .. Len(p) /\ n \in DOMAIN p /\ p[n] # "/" /\ Len(p) \in Nat /\ Len(q) \in Nat
  BY DEF LastAt
<1>1. ASSUME NEW k \in 1 .. n PROVE k \in 1 .. Len(q) /\ q[k] = p[k]
  <2>1. CASE p[k] = "/"
    <3>1. k \in 0 .. Len(p) /\ k < n
      BY <1>0, <2>1
    <3>2. PICK j \in k + 1 .. Len(p) + 1 : << k, j >> \in SegmentBounds(p)
      BY <2>1, <3>1, SegmentStarts, ZenonT(60)
    <3>3. << k, j >> \in SegmentBounds(q)
      BY <3>1, <3>2, DemandedAre, SharedSegment, ZenonT(60)
    <3>4. k \in 0 .. Len(q) /\ (k = 0 \/ q[k] = "/")
      BY <3>3, BoundsAre, ZenonT(60)
    <3> QED
      BY <2>1, <3>4
  <2>2. CASE p[k] # "/"
    <3>1. k \in DOMAIN p
      BY <1>0
    <3>2. PICK i \in 0 .. k - 1, j \in k + 1 .. Len(p) + 1 : << i, j >> \in SegmentBounds(p)
      BY <2>2, <3>1, SegmentAround, ZenonT(60)
    <3>3. i < n
      BY <1>0, <3>2
    <3>4. << i, j >> \in SegmentBounds(q) /\ \A m \in i + 1 .. j - 1 : q[m] = p[m]
      <4>1. Segment(p, i, j) \in Demanded(p)
        BY <3>2, <3>3, DemandedAre
      <4> QED
        BY <3>2, <4>1, SharedSegment
    <3>5. j \in 1 .. Len(q) + 1
      BY <3>4, BoundsAre, ZenonT(60)
    <3> QED
      BY <1>0, <3>2, <3>4, <3>5
  <2> QED
    BY <2>1, <2>2, ZenonT(60)
<1>2. Agree(p, q, n)
  BY <1>0, <1>1 DEF Agree
<1>3. Len(q) = n \/ q[n + 1] = "/"
  <2>1. PICK i \in 0 .. n - 1, j \in n + 1 .. Len(p) + 1 : << i, j >> \in SegmentBounds(p)
    BY <1>0, SegmentAround, ZenonT(60)
  <2>2. i < n /\ j <= n + 1 /\ Segment(p, i, j) \in Demanded(p)
    <3>1. i < n
      BY <1>0, <2>1
    <3> QED
      BY <2>1, <3>1, DemandedAre, ZenonT(60)
  <2>3. << i, j >> \in SegmentBounds(q)
    BY <2>1, <2>2, SharedSegment, ZenonT(60)
  <2>4. j = Len(q) + 1 \/ q[j] = "/"
    BY <2>3, BoundsAre, ZenonT(60)
  <2> QED
    BY <1>0, <2>1, <2>2, <2>4
<1> QED
  BY <1>2, <1>3, ZenonT(60)

\* A prefix of slashes alone asks for nothing.
LEMMA SlashesAskNothing ==
  ASSUME NEW p \in Seq(STRING), \A i \in 1 .. Len(p) : p[i] = "/"
  PROVE  Demanded(p) = {}
<1> SUFFICES ASSUME NEW t \in Segments(p), t.text # <<>> PROVE FALSE
  BY ZenonT(60) DEF Demanded
<1>1. PICK i, j : << i, j >> \in SegmentBounds(p) /\ t = Segment(p, i, j)
  BY SegmentsAre, ZenonT(60)
<1>2. i + 1 < j
  BY <1>1, SegmentText, ZenonT(60) DEF TextIs
<1>3. i \in 0 .. Len(p) /\ j \in 1 .. Len(p) + 1 /\ NoSlash(p, i, j)
  BY <1>1, BoundsAre, ZenonT(60)
<1> QED
  BY <1>2, <1>3, SMTT(60) DEF NoSlash

\* path_prefix_matches compares characters and looks at the one behind the
\* prefix; for all prefixes and paths it holds exactly when every segment that
\* the prefix, its trailing slashes aside, asks for is a segment of the path.
THEOREM PrefixMatchesSegments ==
  ASSUME NEW prefix \in Seq(STRING), NEW path \in Seq(STRING)
  PROVE  PathPrefixMatches(prefix, path) <=> Demanded(prefix) \subseteq Segments(path)
<1>1. PICK n \in 0 .. Len(prefix) : /\ TrimSlashes(prefix) = SubSeq(prefix, 1, n)
                                    /\ n = 0 \/ prefix[n] # "/"
                                    /\ \A i \in n + 1 .. Len(prefix) : prefix[i] = "/"
  BY Trimmed, ZenonT(60)
<1>2. PathPrefixMatches(prefix, path) <=>
        n = 0 \/ (Agree(prefix, path, n) /\ (Len(path) = n \/ path[n + 1] = "/"))
  <2> DEFINE s == SubSeq(prefix, 1, n)
  <2>1. Len(s) = n /\ (s = <<>> <=> n = 0) /\ (HasPrefix(path, s) <=> Agree(prefix, path, n))
    BY PrefixAgrees, ZenonT(60)
  <2> HIDE DEF s
  <2>2. TrimSlashes(prefix) = s
    BY <1>1, ZenonT(60) DEF s
  <2>3. PathPrefixMatches(prefix, path) <=>
          s = <<>> \/ (HasPrefix(path, s) /\ (Len(path) = Len(s) \/ path[Len(s) + 1] = "/"))
    BY <2>2, ZenonT(60) DEF PathPrefixMatches, HasPrefix
  <2> QED
    BY <2>1, <2>3, ZenonT(60) DEF PathPrefixMatches, HasPrefix, Agree
<1>3. CASE n = 0
  <2>1. \A i \in 1 .. Len(prefix) : prefix[i] = "/"
    BY <1>1, <1>3
  <2>2. Demanded(prefix) = {}
    BY <2>1, SlashesAskNothing, ZenonT(60)
  <2> QED
    BY <1>2, <1>3, <2>2, ZenonT(60) DEF PathPrefixMatches
<1>4. CASE n # 0
  <2>1. LastAt(prefix, n)
    BY <1>1, <1>4 DEF LastAt
  <2> QED
    <3>1. ASSUME Agree(prefix, path, n), Len(path) = n \/ path[n + 1] = "/",
                 NEW s \in Demanded(prefix)
          PROVE  s \in Segments(path)
      BY <2>1, <3>1, MatchHasSegments, ZenonT(60)
    <3>2. ASSUME Demanded(prefix) \subseteq Segments(path)
          PROVE  Agree(prefix, path, n) /\ (Len(path) = n \/ path[n + 1] = "/")
      BY <2>1, <3>2, SegmentsMatch, ZenonT(60)
    <3> QED
      BY <1>2, <1>4, <3>1, <3>2, ZenonT(60)
<1> QED
  BY <1>3, <1>4, ZenonT(60)

\* What PrefixMatchIsSegmentwise asks of a list holds for lists of any length
\* and for all prefixes and paths.
THEOREM MatchingIsSegmentwise == ListSpec => []PrefixMatchIsSegmentwise
<1> DEFINE Inv == listed \in Seq(Listable)
<1>1. ListInit => Inv
  BY DEF ListInit
<1>2. Inv /\ [AddRoute]_listed => Inv'
  BY DEF AddRoute
<1>3. Inv => PrefixMatchIsSegmentwise
  <2> SUFFICES ASSUME Inv, NEW i \in DOMAIN listed, NEW path \in RequestPaths
               PROVE  PathPrefixMatches(listed[i].path_prefix, path)
                        <=> Demanded(listed[i].path_prefix) \subseteq Segments(path)
    BY ZenonT(60) DEF PrefixMatchIsSegmentwise
  <2>1. listed[i] \in Listable
    OBVIOUS
  <2>2. listed[i].path_prefix \in Seq(STRING) /\ path \in Seq(STRING)
    BY <2>1, RouteListConstants, ZenonT(60)
  <2> QED
    BY <2>2, PrefixMatchesSegments, ZenonT(60)
<1> QED
  BY <1>1, <1>2, <1>3, PTL DEF ListSpec
-----------------------------------------------------------------------------
INSTANCE SequenceTheorems

LEMMA PairIsSeq ==
  ASSUME NEW S, NEW a \in S, NEW b \in S
  PROVE  << a, b >> \in Seq(S) /\ Len(<< a, b >>) = 2
OBVIOUS

\* Where the parts of a key are, and what a key with these parts is.
LEMMA KeyParts ==
  ASSUME NEW n \in Seq(Words), NEW w \in Words, NEW k \in Seq(Words)
  PROVE  k = RoutePrefix \o Append(n, w) <=>
           /\ Len(k) = Len(n) + 3
           /\ k[1] = RoutePrefix[1] /\ k[2] = RoutePrefix[2]
           /\ \A i \in 1..Len(n) : k[i + 2] = n[i]
           /\ k[Len(n) + 3] = w
<1> DEFINE p == RoutePrefix
           e == Append(n, w)
           key == p \o e
<1>0. p \in Seq(Words) /\ Len(p) = 2
  BY LabelsConstants, PairIsSeq, ZenonT(60) DEF RoutePrefix
<1>1. /\ e \in Seq(Words) /\ Len(e) = Len(n) + 1 /\ e[Len(n) + 1] = w
      /\ \A i \in 1..Len(n) : e[i] = n[i]
  OBVIOUS
<1> HIDE DEF p, e
<1>2. /\ key \in Seq(Words) /\ Len(key) = Len(p) + Len(e)
      /\ \A i \in 1..(Len(p) + Len(e)) : key[i] = IF i <= Len(p) THEN p[i] ELSE e[i - Len(p)]
  BY <1>0, <1>1, ConcatProperties, ZenonT(60)
<1> HIDE DEF key
<1>3. Len(n) \in Nat /\ Len(key) = Len(n) + 3
  BY <1>0, <1>1, <1>2
<1>4. key[1] = p[1] /\ key[2] = p[2]
  BY <1>0, <1>1, <1>2, <1>3
<1>5. \A i \in 1..(Len(n) + 1) : key[i + 2] = e[i]
  <2> TAKE i \in 1..(Len(n) + 1)
  <2>1. i + 2 \in 1..(Len(p) + Len(e)) /\ ~(i + 2 <= Len(p)) /\ (i + 2) - Len(p) = i
    BY <1>0, <1>1, <1>3
  <2> QED
    BY <1>2, <2>1, ZenonT(60)
<1>6. \A i \in 1..Len(n) : key[i + 2] = n[i]
  BY <1>1, <1>3, <1>5
<1>7. key[Len(n) + 3] = w
  BY <1>1, <1>3, <1>5
<1>8. ASSUME Len(k) = Len(n) + 3, k[1] = p[1], k[2] = p[2],
             \A i \in 1..Len(n) : k[i + 2] = n[i], k[Len(n) + 3] = w
      PROVE  k = key
  <2>1. ASSUME NEW j \in 1..Len(k) PROVE k[j] = key[j]
    <3>1. CASE j = 1 \/ j = 2 \/ j = Len(n) + 3
      BY <1>4, <1>7, <1>8, <3>1
    <3>2. CASE j \in 3..(Len(n) + 2)
      <4>1. j - 2 \in 1..Len(n) /\ (j - 2) + 2 = j
        BY <1>3, <3>2
      <4>2. k[(j - 2) + 2] = n[j - 2] /\ key[(j - 2) + 2] = n[j - 2]
        BY <1>6, <1>8, <4>1, ZenonT(60)
      <4> QED
        BY <4>1, <4>2
    <3> QED
      BY <1>3, <1>8, <3>1, <3>2
  <2>2. Len(k) = Len(key)
    BY <1>3, <1>8
  <2> QED
    BY <1>2, <2>1, <2>2, SeqEqual, ZenonT(60)
<1>9. k = key => /\ Len(k) = Len(n) + 3
                 /\ k[1] = p[1] /\ k[2] = p[2]
                 /\ \A i \in 1..Len(n) : k[i + 2] = n[i]
                 /\ k[Len(n) + 3] = w
  BY <1>3, <1>4, <1>6, <1>7, ZenonT(60)
<1> QED
  BY <1>8, <1>9, ZenonT(60) DEF key, p, e

\* A key that the code groups under a name is the one the schema writes for it.
LEMMA GroupedIsSchema ==
  ASSUME NEW n \in Seq(Words), n # <<>>, NEW k \in Seq(Words), NEW w \in Words
  PROVE  Grouped(k) /\ NameOf(k) = n /\ k[Len(k)] = w <=> k = RoutePrefix \o Append(n, w)
<1>3. Len(n) \in Nat /\ Len(n) >= 1 /\ Len(k) \in Nat
  OBVIOUS
<1>4. Len(k) >= 4 => /\ Len(NameOf(k)) = Len(k) - 3
                     /\ NameOf(k) \in Seq(Words)
                     /\ \A i \in 1..(Len(k) - 3) : NameOf(k)[i] = k[i + 2]
  BY <1>3 DEF NameOf
<1> DEFINE Parts == /\ Len(k) = Len(n) + 3
                    /\ k[1] = RoutePrefix[1] /\ k[2] = RoutePrefix[2]
                    /\ \A i \in 1..Len(n) : k[i + 2] = n[i]
                    /\ k[Len(n) + 3] = w
<1>5. ASSUME Grouped(k), NameOf(k) = n, k[Len(k)] = w
      PROVE  Parts
  <2>1. Len(k) >= 4 /\ k[1] = RoutePrefix[1] /\ k[2] = RoutePrefix[2]
    BY <1>5 DEF Grouped
  <2>2. Len(k) = Len(n) + 3 /\ Len(k) - 3 = Len(n)
    BY <1>3, <1>4, <1>5, <2>1
  <2> QED
    BY <1>4, <1>5, <2>1, <2>2, ZenonT(60)
<1>6. ASSUME Parts
      PROVE  Grouped(k) /\ NameOf(k) = n /\ k[Len(k)] = w
  <2>1. Len(k) >= 4 /\ Len(k) - 3 = Len(n)
    BY <1>3, <1>6
  <2>2. Grouped(k) /\ k[Len(k)] = w
    BY <1>6, <2>1, ZenonT(60) DEF Grouped
  <2>3. NameOf(k) \in Seq(Words) /\ Len(NameOf(k)) = Len(n)
        /\ \A i \in 1..Len(NameOf(k)) : NameOf(k)[i] = n[i]
    BY <1>4, <1>6, <2>1, ZenonT(60)
  <2>4. NameOf(k) = n
    BY <2>3, SeqEqual, ZenonT(60)
  <2> QED
    BY <2>2, <2>4
<1>7. Parts <=> k = RoutePrefix \o Append(n, w)
  BY KeyParts, ZenonT(60)
<1> HIDE DEF Parts
<1> QED
  BY <1>5, <1>6, <1>7, ZenonT(60)

\* The labels of a container have keys it may have, and values.
LabelsInv ==
  /\ DOMAIN labels \subseteq LabelKeys
  /\ \A k \in DOMAIN labels : labels[k] # Missing

\* The labels grouped as a field of a name are those the schema gives to it.
LEMMA FieldKeysAreSchemaKeys ==
  ASSUME LabelsInv, NEW n \in Seq(Words), n # <<>>, NEW f
  PROVE  FieldKeys(labels, n, f) = SchemaKeys(n, f) \cap DOMAIN labels
<1> SUFFICES ASSUME NEW k \in DOMAIN labels
             PROVE  Grouped(k) /\ NameOf(k) = n /\ LowerField[k[Len(k)]] = f
                      <=> \E w \in Words : LowerField[w] = f /\ k = RoutePrefix \o Append(n, w)
  BY ZenonT(60) DEF FieldKeys, SchemaKeys
<1>1. k \in Seq(Words)
  BY LabelsConstants, ZenonT(60) DEF LabelsInv
<1>2. Grouped(k) => k[Len(k)] \in Words
  BY <1>1 DEF Grouped
<1> QED
  BY <1>1, <1>2, GroupedIsSchema, ZenonT(60)

\* A field has the value of one of its labels, or none if there is no label.
LEMMA FieldIs ==
  ASSUME LabelsInv, NEW n, NEW f
  PROVE  /\ FieldKeys(labels, n, f) = {} => Field(labels, n, f) = Missing
         /\ FieldKeys(labels, n, f) # {} =>
              \E k \in FieldKeys(labels, n, f) : Field(labels, n, f) = labels[k]
<1> DEFINE ks == FieldKeys(labels, n, f)
           Last(k) == FromLast[k[Len(k)]]
<1>1. ASSUME ks # {}
      PROVE  \E k \in ks : \A j \in ks : Last(k) <= Last(j)
  <2>1. \A k \in ks : Last(k) \in Nat
    <3> SUFFICES ASSUME NEW k \in ks PROVE Last(k) \in Nat
      BY ZenonT(60)
    <3>1. k \in DOMAIN labels /\ Grouped(k)
      BY ZenonT(60) DEF FieldKeys
    <3>2. k \in Seq(Words)
      BY <3>1, LabelsConstants, ZenonT(60) DEF LabelsInv
    <3>3. k[Len(k)] \in Words
      BY <3>1, <3>2 DEF Grouped
    <3> QED
      BY <3>3, LabelsConstants, ZenonT(60)
  <2> DEFINE T == {Last(k) : k \in ks}
  <2>2. T \in SUBSET Nat /\ T # {}
    BY <1>1, <2>1, ZenonT(60)
  <2>3. PICK t \in T : \A u \in T : t <= u
    BY <2>2, LeastNumber, ZenonT(60)
  <2>4. PICK k \in ks : t = Last(k)
    BY <2>3, ZenonT(60)
  <2> QED
    BY <2>3, <2>4, ZenonT(60)
<1>2. ASSUME ks # {}
      PROVE  (CHOOSE k \in ks : \A j \in ks : Last(k) <= Last(j)) \in ks
  BY <1>1, <1>2, ZenonT(60)
<1>3. Field(labels, n, f) = IF ks = {} THEN Missing
                            ELSE labels[CHOOSE k \in ks : \A j \in ks : Last(k) <= Last(j)]
  BY ZenonT(60) DEF Field
<1> QED
  BY <1>2, <1>3, ZenonT(60)

\* What the code reads of a field is what the labels of the schema say of it.
LEMMA FieldIsSaid ==
  ASSUME LabelsInv, NEW n \in Seq(Words), n # <<>>, NEW f, NEW otherwise
  PROVE  /\ Or(Field(labels, n, f), otherwise) \in Said(n, f, otherwise)
         /\ Field(labels, n, f) \in Said(n, f, Missing)
         /\ Field(labels, n, f) # Missing <=> SchemaKeys(n, f) \cap DOMAIN labels # {}
<1> DEFINE ks == SchemaKeys(n, f) \cap DOMAIN labels
<1>1. FieldKeys(labels, n, f) = ks
  BY FieldKeysAreSchemaKeys, ZenonT(60)
<1>2. \A d : Said(n, f, d) = IF ks = {} THEN {d} ELSE {labels[k] : k \in ks}
  BY ZenonT(60) DEF Said
<1>3. ks = {} => Field(labels, n, f) = Missing
  BY <1>1, FieldIs, ZenonT(60)
<1>4. ks # {} => \E k \in ks : Field(labels, n, f) = labels[k] /\ labels[k] # Missing
  BY <1>1, FieldIs, ZenonT(60) DEF LabelsInv
<1> HIDE DEF ks
<1>5. Or(Field(labels, n, f), otherwise) \in Said(n, f, otherwise)
  BY <1>2, <1>3, <1>4, ZenonT(60) DEF Or
<1>6. Field(labels, n, f) \in Said(n, f, Missing)
  BY <1>2, <1>3, <1>4, ZenonT(60)
<1>7. Field(labels, n, f) # Missing <=> ks # {}
  BY <1>3, <1>4, ZenonT(60)
<1> QED
  BY <1>5, <1>6, <1>7, ZenonT(60) DEF ks

\* The names that the code finds have at least one word.
LEMMA GroupNamesAreNames ==
  ASSUME LabelsInv
  PROVE  \A n \in GroupNames(labels) : n \in Seq(Words) /\ n # <<>>
<1> SUFFICES ASSUME NEW k \in DOMAIN labels, Grouped(k)
             PROVE  NameOf(k) \in Seq(Words) /\ NameOf(k) # <<>>
  BY ZenonT(60) DEF GroupNames
<1>1. k \in Seq(Words)
  BY LabelsConstants, ZenonT(60) DEF LabelsInv
<1>2. Len(k) >= 4
  BY DEF Grouped
<1>3. NameOf(k) \in Seq(Words) /\ Len(NameOf(k)) = Len(k) - 3
  BY <1>1, <1>2 DEF NameOf
<1> QED
  BY <1>1, <1>2, <1>3

\* The routes of an opted-in container, and that there are none of another.
LEMMA RoutesAre ==
  /\ ~OptedIn => Routes = {}
  /\ OptedIn => Routes = NamedRoutes(labels) \cup ImplicitRoute(labels)
  /\ \A r \in NamedRoutes(labels) : \E n \in GroupNames(labels) :
       r = NamedRoute(labels, n) /\ r.name = n /\ Field(labels, n, "upstream") # Missing
  /\ \A n \in GroupNames(labels) : Field(labels, n, "upstream") # Missing =>
       \E r \in NamedRoutes(labels) : r.name = n
  /\ \A r \in ImplicitRoute(labels) : r.name = <<>> /\ NamedRoutes(labels) = {}
  /\ \A r, q \in ImplicitRoute(labels) : r = q
<1>1. (~OptedIn => Routes = {}) /\ (OptedIn => Routes = NamedRoutes(labels) \cup ImplicitRoute(labels))
  BY ZenonT(60) DEF Routes, RoutesFromLabels, OptedIn
<1>2. \A n : NamedRoute(labels, n).name = n
  BY ZenonT(60) DEF NamedRoute, Route
<1>3. \A r \in NamedRoutes(labels) : \E n \in GroupNames(labels) :
        r = NamedRoute(labels, n) /\ r.name = n /\ Field(labels, n, "upstream") # Missing
  BY <1>2, ZenonT(60) DEF NamedRoutes
<1>4. \A n \in GroupNames(labels) : Field(labels, n, "upstream") # Missing =>
        \E r \in NamedRoutes(labels) : r.name = n
  BY <1>2, ZenonT(60) DEF NamedRoutes
<1>5. \A h, p, u, s : Route(<<>>, h, p, u, s).name = <<>>
  BY ZenonT(60) DEF Route
<1>6. \A r \in ImplicitRoute(labels) : r.name = <<>> /\ NamedRoutes(labels) = {}
  BY <1>5, ZenonT(60) DEF ImplicitRoute
<1>7. \A r, q \in ImplicitRoute(labels) : r = q
  BY ZenonT(60) DEF ImplicitRoute
<1> QED
  BY <1>1, <1>3, <1>4, <1>6, <1>7, ZenonT(60)

\* The fields of the route of one name, against what the labels say.
LEMMA NamedRouteIsSaid ==
  ASSUME LabelsInv, NEW n \in Seq(Words), n # <<>>, NEW r, r = NamedRoute(labels, n)
  PROVE  /\ r.upstream \in Said(n, "upstream", Missing)
         /\ r.host \in Said(n, "host", "")
         /\ r.path_prefix \in Said(n, "pathprefix", "")
         /\ \E s \in Said(n, "strict", Missing) :
              r.strict = Or(ParseBoolToken(s), ParseBoolToken(Get(labels, GlobalStrict)))
<1>1. /\ r.upstream = Field(labels, n, "upstream")
      /\ r.host = Or(Field(labels, n, "host"), "")
      /\ r.path_prefix = Or(Field(labels, n, "pathprefix"), "")
      /\ r.strict = Or(ParseBoolToken(Field(labels, n, "strict")), ParseBoolToken(Get(labels, GlobalStrict)))
  BY ZenonT(60) DEF NamedRoute, Route
<1>2. r.upstream \in Said(n, "upstream", Missing)
  BY <1>1, FieldIsSaid, ZenonT(60)
<1>3. r.host \in Said(n, "host", "")
  BY <1>1, FieldIsSaid, ZenonT(60)
<1>4. r.path_prefix \in Said(n, "pathprefix", "")
  BY <1>1, FieldIsSaid, ZenonT(60)
<1>5. Field(labels, n, "strict") \in Said(n, "strict", Missing)
  BY FieldIsSaid, ZenonT(60)
<1> QED
  BY <1>1, <1>2, <1>3, <1>4, <1>5, ZenonT(60)

\* Whatever labels a container has, in whatever order they came, grouping the
\* flat map of labels.rs gives the routes that the label schema declares.
THEOREM LabelsAreTheSchema == LabelsSpec => []RoutesAsDeclared
<1>1. LabelsInit => LabelsInv
  BY ZenonT(60) DEF LabelsInit, LabelsInv
<1>2. ASSUME LabelsInv, AddLabel
      PROVE  LabelsInv'
  <2>1. PICK k \in LabelKeys \ DOMAIN labels : \E v \in Values(k) :
          labels' = [j \in DOMAIN labels \cup {k} |-> IF j = k THEN v ELSE labels[j]]
    BY <1>2, ZenonT(60) DEF AddLabel
  <2>2. PICK v \in Values(k) :
          labels' = [j \in DOMAIN labels \cup {k} |-> IF j = k THEN v ELSE labels[j]]
    BY <2>1, ZenonT(60)
  <2>3. v # Missing
    BY LabelsConstants, ZenonT(60) DEF Values
  <2> QED
    BY <1>2, <2>2, <2>3, ZenonT(60) DEF LabelsInv
<1>3. LabelsInv /\ [AddLabel]_labels => LabelsInv'
  BY <1>2, ZenonT(60) DEF LabelsInv
<1>4. ASSUME LabelsInv
      PROVE  RoutesAsDeclared
  <2>1. ASSUME NEW n \in Names
        PROVE  (\E r \in Routes : r.name = n)
                 <=> OptedIn /\ SchemaKeys(n, "upstream") \cap DOMAIN labels # {}
    <3>1. n \in Seq(Words) /\ n # <<>>
      BY LabelsConstants, ZenonT(60)
    <3>2. Field(labels, n, "upstream") # Missing <=> SchemaKeys(n, "upstream") \cap DOMAIN labels # {}
      BY <1>4, <3>1, FieldIsSaid, ZenonT(60)
    <3>3. Field(labels, n, "upstream") # Missing => n \in GroupNames(labels)
      <4>1. Field(labels, n, "upstream") # Missing => FieldKeys(labels, n, "upstream") # {}
        BY <1>4, FieldIs, ZenonT(60)
      <4> QED
        BY <4>1, ZenonT(60) DEF FieldKeys, GroupNames
    <3>4. (\E r \in Routes : r.name = n) => OptedIn /\ Field(labels, n, "upstream") # Missing
      <4> SUFFICES ASSUME NEW r \in Routes, r.name = n
                   PROVE  OptedIn /\ Field(labels, n, "upstream") # Missing
        BY ZenonT(60)
      <4>1. OptedIn /\ (r \in NamedRoutes(labels) \/ r \in ImplicitRoute(labels))
        BY RoutesAre, ZenonT(60)
      <4>2. r \in NamedRoutes(labels)
        BY <3>1, <4>1, RoutesAre, ZenonT(60)
      <4>3. PICK g \in GroupNames(labels) : r.name = g /\ Field(labels, g, "upstream") # Missing
        BY <4>2, RoutesAre, ZenonT(60)
      <4> QED
        BY <4>1, <4>3, ZenonT(60)
    <3>5. OptedIn /\ Field(labels, n, "upstream") # Missing => \E r \in Routes : r.name = n
      BY <3>3, RoutesAre, ZenonT(60)
    <3> QED
      BY <3>2, <3>4, <3>5, ZenonT(60)
  <2>2. ASSUME NEW r \in Routes, r.name # <<>>
        PROVE  /\ r.upstream \in Said(r.name, "upstream", Missing)
               /\ r.host \in Said(r.name, "host", "")
               /\ r.path_prefix \in Said(r.name, "pathprefix", "")
               /\ \E s \in Said(r.name, "strict", Missing) :
                    r.strict = Or(ParseBoolToken(s), ParseBoolToken(Get(labels, GlobalStrict)))
    <3>1. PICK n \in GroupNames(labels) : r = NamedRoute(labels, n) /\ r.name = n
      BY <2>2, RoutesAre, ZenonT(60)
    <3>2. n \in Seq(Words) /\ n # <<>>
      BY <1>4, GroupNamesAreNames, ZenonT(60)
    <3> QED
      BY <1>4, <3>1, <3>2, NamedRouteIsSaid, ZenonT(60)
  <2>3. ASSUME NEW r \in Routes, NEW q \in Routes, r.name = q.name \/ r.name = <<>>
        PROVE  r = q
    <3>1. \A x \in NamedRoutes(labels) : x.name # <<>> /\ x = NamedRoute(labels, x.name)
      BY <1>4, RoutesAre, GroupNamesAreNames, ZenonT(60)
    <3>2. r \in NamedRoutes(labels) \/ r \in ImplicitRoute(labels)
      BY RoutesAre, ZenonT(60)
    <3>3. q \in NamedRoutes(labels) \/ q \in ImplicitRoute(labels)
      BY RoutesAre, ZenonT(60)
    <3> QED
      BY <2>3, <3>1, <3>2, <3>3, RoutesAre, ZenonT(60)
  <2> QED
    BY <2>1, <2>2, <2>3, ZenonT(60) DEF RoutesAsDeclared
<1> QED
  BY <1>1, <1>3, <1>4, PTL DEF LabelsSpec
=============================================================================
