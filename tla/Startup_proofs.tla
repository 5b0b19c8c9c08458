--------------------------- MODULE Startup_proofs ---------------------------
(***************************************************************************)
(* What Startup promises, for every set of deployments and realms, however *)
(* often the process is started and wherever it dies.                      *)
(*                                                                         *)
(* StartupInv has three independent parts: how the configuration comes     *)
(* about (Layered, ConfigOK, Judged), what is under tls/ (VolumeOK,        *)
(* IssueOK, Provided) and what the witness knows (KeysOK, ServedOK).  Each *)
(* conjunct is kept by a lemma of its own.                                 *)
(***************************************************************************)
EXTENDS Startup, SequenceTheorems, WellFoundedInduction, TLAPS

----------------------------------------------------------------------------
(* What every step keeps *)

\* The configuration after the file, the environment and the command line.
AfterFile == IF Serves THEN ApplyPairs(InitialConfig, deployment.file.layer)
                       ELSE InitialConfig
AfterEnvironment == ApplyPairs(AfterFile, deployment.environment)
AfterFlags       == ApplyPairs(AfterEnvironment, deployment.flags)

FileRead == Serves => LayerReads(deployment.file.layer)

\* How far the layers are applied, phase by phase.
Layered ==
    /\ phase \in {"load", "file"} => config = InitialConfig
    /\ phase = "file" => Serves
    /\ phase = "environment" => config = AfterFile /\ FileRead
    /\ phase = "flags" =>
           config = AfterEnvironment /\ FileRead /\ LayerReads(deployment.environment)
    /\ LayersRead =>
           /\ config.set = AfterFlags.set /\ config.tls = AfterFlags.tls
           /\ FileRead /\ LayerReads(deployment.environment)
           /\ LayerReads(deployment.flags)

Positive == Nat \ {0}

ConfigOK ==
    /\ deployment \in Deployments
    /\ DOMAIN config = {"set", "tls", "stated", "realms", "extra"}
    /\ Len(config.realms) \in Nat /\ DOMAIN config.realms = 1..Len(config.realms)
    /\ \A i \in 1..Len(config.realms) : config.realms[i].name \in RealmNames

\* What validation found still holds when the server serves.
Judged ==
    phase \in {"pseudonym", "assemble", "realm", "serving"} =>
        /\ RealmsHold(config)
        /\ \A f \in Surface : TlsHolds(config.tls[f], Files)

ClientPair == There("client.pem") /\ There("client.key")

\* What is under tls/, whichever death interrupted its making.
VolumeOK ==
    /\ DOMAIN tls = TlsFile
    /\ authorities \in Nat
    /\ There("server.key") =>
           /\ There("server.pem")
           /\ tls["server.key"].by = tls["server.pem"].by
           /\ There("ca.pem") => tls["ca.pem"].by = tls["server.pem"].by
    /\ ClientPair =>
           /\ There("server.pem") => tls["server.pem"].whole
           /\ There("server.key") => tls["server.key"].whole

\* How far `issue` is, on a volume that held no pair.
IssueOK ==
    phase = "issue" =>
        /\ at \in 1..Len(Issued)
        /\ authorities # 0
        /\ \A i \in 1..(at - 1) : tls[Issued[i]] = Made(authorities)
        /\ at <= 4 => ~There("server.key")
        /\ at <= 5 => ~ClientPair

\* A start that may generate goes on with all of it.
Provided ==
    phase \in {"validate", "pseudonym", "assemble", "realm", "serving"}
    /\ config.set.autogenerate =>
        (\A f \in Surface : config.tls[f] = NoTls) \/ Pairs = TlsPairs

\* The first line of a witness file that names a version.
Place(lines, version) == SelectInSeq(lines, LAMBDA line : line.version = version)

\* The version was first seen with this key.
FirstSeen(lines, version, key) ==
    Place(lines, version) # 0 /\ lines[Place(lines, version)].key = key

Known(owner, version) ==
    keys[owner] # Unset => FirstSeen(witness[owner], version, keys[owner])

IsLines(lines) == lines \in Seq(ToSet(lines))

\* Which keys a start holds, and which of them it has compared.
KeysOK ==
    /\ DOMAIN witness = Owners /\ DOMAIN keys = Owners
    /\ \A o \in Owners : IsLines(witness[o])
    /\ phase \notin {"assemble", "realm", "serving", "down", "failed"} =>
           \A o \in Owners : keys[o] = Unset
    /\ phase = "assemble" => \A o \in RealmNames \ {Server} : keys[o] = Unset
    /\ phase \in {"assemble", "realm"} => Known(Server, config.set.key_version)
    /\ phase = "realm" =>
           /\ at \in Positive
           /\ \A o \in RealmNames \ {Server} :
                  keys[o] # Unset =>
                      \E i \in 1..Len(config.realms) : config.realms[i].name = o
           /\ \A i \in 1..Len(config.realms) :
                  i < at => Known(config.realms[i].name, config.realms[i].key_version)

\* Unless a witness file was cut short, it knows what records were written under.
ServedOK ==
    ~forgot =>
        \A x \in served :
            x.owner \in Owners /\ FirstSeen(witness[x.owner], x.version, x.key)

StartupInv ==
    /\ Layered /\ ConfigOK /\ Judged
    /\ VolumeOK /\ IssueOK /\ Provided
    /\ KeysOK /\ ServedOK

----------------------------------------------------------------------------
(* The configuration *)

\* Once the realms are resolved, nothing but another start touches the
\* configuration; the process goes on, is refused, or ends.
LEMMA ConfigStands ==
    ASSUME \/ Provisioning \/ Serving \/ Dying
           \/ Exit \/ ReplaceSecret \/ ClearCertificates
           \/ UNCHANGED vars
    PROVE  /\ config' = config /\ deployment' = deployment
           /\ \/ phase' = phase
              \/ phase' \in {"failed", "down"}
              \/ /\ phase \in {"prepare", "secrets", "certificates", "issue", "validate",
                               "pseudonym", "assemble", "realm", "serving"}
                 /\ phase' \in {"secrets", "certificates", "issue", "validate",
                                "pseudonym", "assemble", "realm", "serving"}
<1>1. CASE Prepare \/ DrawSecret \/ SecretsDone \/ PrepareCertificates \/ Issue
  BY <1>1 DEF Prepare, DrawSecret, GenerateSecret, SecretsDone, PrepareCertificates,
     Issue, To
<1>2. CASE Validate \/ CheckServerKey \/ AssembleRealms \/ CheckRealmKey \/ Serve
  BY <1>2 DEF Validate, CheckServerKey, AssembleRealms, CheckRealmKey, Serve, To
<1>3. CASE Crash \/ CrashDrawing \/ CrashIssuing \/ CrashWitnessing
  BY <1>3 DEF Crash, CrashDrawing, GenerateSecret, CrashIssuing, CrashWitnessing,
     CrashRecording, Die, To
<1>4. CASE Exit \/ ReplaceSecret \/ ClearCertificates \/ UNCHANGED vars
  BY <1>4 DEF Exit, ReplaceSecret, ClearCertificates, vars, To
<1>5. QED
  BY <1>1, <1>2, <1>3, <1>4 DEF Provisioning, Serving, Dying

\* Every step is one of these.
LEMMA StepKinds ==
    ASSUME [Next]_vars
    PROVE  \/ Load \/ ApplyFile \/ ApplyEnvironment \/ ApplyCommandLine
           \/ ResolveRealms \/ Start
           \/ (Provisioning \/ Serving \/ Dying \/ Exit \/ ReplaceSecret
               \/ ClearCertificates \/ UNCHANGED vars)
BY DEF Next, FromLayers, Between

\* What applying a layer leaves alone.
LEMMA AppliedShape ==
    ASSUME NEW c, NEW layer,
           DOMAIN c = {"set", "tls", "stated", "realms", "extra"}
    PROVE  /\ DOMAIN ApplyPairs(c, layer) = DOMAIN c
           /\ ApplyPairs(c, layer).realms = c.realms
           /\ ApplyPairs(c, layer).set =
                  [s \in Setting |-> IF s \in Supplied(layer.plain)
                                     THEN ValueOf(s, layer.plain[s]) ELSE c.set[s]]
           /\ ApplyPairs(c, layer).tls =
                  [f \in Surface |-> TlsOf(f, layer.tls[f], c.tls[f])]
BY DEF ApplyPairs

\* What resolving the realms leaves alone.
LEMMA ResolvedShape ==
    ASSUME NEW c, NEW inputs,
           DOMAIN c = {"set", "tls", "stated", "realms", "extra"}
    PROVE  /\ DOMAIN WithRealms(c, inputs) = DOMAIN c
           /\ WithRealms(c, inputs).set = c.set /\ WithRealms(c, inputs).tls = c.tls
           /\ WithRealms(c, inputs).realms =
                  [i \in DOMAIN inputs |-> ResolveRealm(c, inputs[i])]
BY DEF WithRealms

\* The configuration a start begins with.
LEMMA InitialShape ==
    /\ DOMAIN InitialConfig = {"set", "tls", "stated", "realms", "extra"}
    /\ InitialConfig.set = Defaults
    /\ InitialConfig.tls = [f \in Surface |-> NoTls]
    /\ InitialConfig.realms = <<>>
BY DEF InitialConfig

\* A start that was read has a configuration of the right fields.
LEMMA LayeredShape ==
    /\ DOMAIN AfterFile = {"set", "tls", "stated", "realms", "extra"}
    /\ DOMAIN AfterEnvironment = {"set", "tls", "stated", "realms", "extra"}
    /\ DOMAIN AfterFlags = {"set", "tls", "stated", "realms", "extra"}
<1>1. DOMAIN AfterFile = {"set", "tls", "stated", "realms", "extra"}
  BY InitialShape, AppliedShape DEF AfterFile
<1>2. DOMAIN AfterEnvironment = {"set", "tls", "stated", "realms", "extra"}
  BY <1>1, AppliedShape DEF AfterEnvironment
<1>3. QED
  BY <1>1, <1>2, AppliedShape DEF AfterFlags

\* The layers are applied in their order, whatever the start is given.
LEMMA LayersKept ==
    ASSUME Layered, ConfigOK, [Next]_vars
    PROVE  Layered'
<1>1. CASE Load
  <2>1. /\ deployment' = deployment /\ config' = config /\ config = InitialConfig
        /\ \/ phase' = "environment" /\ ~Serves
           \/ phase' = "file" /\ Serves
           \/ phase' = "failed"
    BY <1>1 DEF Load, To, Layered
  <2>2. Serves' = Serves /\ AfterFile' = AfterFile /\ FileRead' = FileRead
    BY <2>1 DEF Serves, AfterFile, FileRead
  <2>3. QED
    BY <2>1, <2>2 DEF Layered, LayersRead, Phases, AfterFile, FileRead
<1>2. CASE ApplyFile
  <2>1. /\ deployment' = deployment /\ config = InitialConfig /\ Serves
        /\ \/ /\ phase' = "environment" /\ LayerReads(deployment.file.layer)
              /\ config' = ApplyPairs(config, deployment.file.layer)
           \/ phase' = "failed"
    BY <1>2 DEF ApplyFile, ApplyLayer, To, Layered
  <2>2. AfterFile' = AfterFile /\ FileRead' = FileRead
    BY <2>1 DEF Serves, AfterFile, FileRead
  <2>3. QED
    BY <2>1, <2>2 DEF Layered, LayersRead, Phases, AfterFile, FileRead
<1>3. CASE ApplyEnvironment
  <2>1. /\ deployment' = deployment /\ config = AfterFile /\ FileRead
        /\ \/ /\ phase' = "flags" /\ LayerReads(deployment.environment)
              /\ config' = ApplyPairs(config, deployment.environment)
           \/ phase' = "failed"
    BY <1>3 DEF ApplyEnvironment, ApplyLayer, To, Layered
  <2>2. AfterEnvironment' = AfterEnvironment /\ FileRead' = FileRead
    BY <2>1 DEF Serves, AfterFile, AfterEnvironment, FileRead
  <2>3. QED
    BY <2>1, <2>2 DEF Layered, LayersRead, Phases, AfterEnvironment
<1>4. CASE ApplyCommandLine
  <2>1. /\ deployment' = deployment /\ config = AfterEnvironment /\ FileRead
        /\ LayerReads(deployment.environment)
        /\ \/ /\ phase' \in {"realms", "answered"} /\ LayerReads(deployment.flags)
              /\ config' = ApplyPairs(config, deployment.flags)
           \/ phase' = "failed"
    BY <1>4 DEF ApplyCommandLine, ApplyLayer, To, Layered
  <2>2. AfterFlags' = AfterFlags /\ FileRead' = FileRead
    BY <2>1 DEF Serves, AfterFile, AfterEnvironment, AfterFlags, FileRead
  <2>3. QED
    BY <2>1, <2>2 DEF Layered, LayersRead, Phases, AfterFlags
<1>5. CASE ResolveRealms
  <2>1. /\ deployment' = deployment /\ phase = "realms"
        /\ \/ /\ phase' = "prepare"
              /\ config' = WithRealms(config, DeclaredRealms(deployment.file))
           \/ phase' = "failed"
    BY <1>5 DEF ResolveRealms, To
  <2>2. LayersRead
    BY <2>1 DEF LayersRead, Phases
  <2>3. phase' = "prepare" => config'.set = config.set /\ config'.tls = config.tls
    <3>1. DOMAIN config = {"set", "tls", "stated", "realms", "extra"}
      BY DEF ConfigOK
    <3>2. /\ WithRealms(config, DeclaredRealms(deployment.file)).set = config.set
          /\ WithRealms(config, DeclaredRealms(deployment.file)).tls = config.tls
      BY <3>1, ResolvedShape, Zenon
    <3>3. QED
      BY <2>1, <3>2
  <2>4. AfterFlags' = AfterFlags /\ FileRead' = FileRead
    BY <2>1 DEF Serves, AfterFile, AfterEnvironment, AfterFlags, FileRead
  <2>5. QED
    BY <2>1, <2>2, <2>3, <2>4 DEF Layered, LayersRead
<1>6. CASE Start
  BY <1>6 DEF Start, To, Layered, LayersRead
<1>7. CASE \/ Provisioning \/ Serving \/ Dying \/ Exit \/ ReplaceSecret
           \/ ClearCertificates \/ UNCHANGED vars
  <2>1. /\ config' = config /\ deployment' = deployment
        /\ \/ phase' = phase
           \/ phase' \in {"failed", "down"}
           \/ LayersRead /\ phase' \notin {"load", "file", "environment", "flags"}
    BY <1>7, ConfigStands DEF LayersRead, Phases
  <2>2. /\ Serves' = Serves /\ AfterFile' = AfterFile
        /\ AfterEnvironment' = AfterEnvironment
        /\ AfterFlags' = AfterFlags /\ FileRead' = FileRead
    BY <2>1 DEF Serves, AfterFile, AfterEnvironment, AfterFlags, FileRead
  <2>3. QED
    BY <2>1, <2>2 DEF Layered, LayersRead
<1>8. QED
  BY <1>1, <1>2, <1>3, <1>4, <1>5, <1>6, <1>7, StepKinds

\* The value of a setting once a layer is applied.
LEMMA AppliedSetting ==
    ASSUME NEW c, NEW layer, NEW s \in Setting,
           DOMAIN c = {"set", "tls", "stated", "realms", "extra"}
    PROVE  ApplyPairs(c, layer).set[s] =
               IF s \in Supplied(layer.plain) THEN ValueOf(s, layer.plain[s]) ELSE c.set[s]
<1>1. ApplyPairs(c, layer).set =
          [x \in Setting |-> IF x \in Supplied(layer.plain)
                             THEN ValueOf(x, layer.plain[x]) ELSE c.set[x]]
  BY DEF ApplyPairs
<1>2. QED
  BY <1>1

\* What a surface's block is once a layer is applied.
LEMMA AppliedTls ==
    ASSUME NEW c, NEW layer, NEW f \in Surface,
           DOMAIN c = {"set", "tls", "stated", "realms", "extra"}
    PROVE  ApplyPairs(c, layer).tls[f] =
               IF NamesBoth(layer.tls[f]) THEN TlsOf(f, layer.tls[f], NoTls) ELSE c.tls[f]
<1>1. ApplyPairs(c, layer).tls[f] = TlsOf(f, layer.tls[f], c.tls[f])
  <2>1. ApplyPairs(c, layer).tls = [x \in Surface |-> TlsOf(x, layer.tls[x], c.tls[x])]
    BY AppliedShape, Zenon
  <2>2. QED
    BY <2>1
<1>2. CASE NamesBoth(layer.tls[f])
  <2>1. TlsOf(f, layer.tls[f], c.tls[f]) = TlsOf(f, layer.tls[f], NoTls)
    BY <1>2, Zenon DEF TlsOf
  <2>2. QED
    BY <1>1, <1>2, <2>1
<1>3. CASE ~NamesBoth(layer.tls[f])
  <2>1. TlsOf(f, layer.tls[f], c.tls[f]) = c.tls[f]
    BY <1>3, Zenon DEF TlsOf
  <2>2. QED
    BY <1>1, <1>3, <2>1
<1>4. QED
  BY <1>2, <1>3

\* The last of a set of layers.
LEMMA LastOfIs ==
    ASSUME NEW n \in SUBSET {1, 2, 3}, NEW i \in n, \A j \in n : j <= i
    PROVE  LastOf(n) = i
<1>1. \A k \in n : (\A j \in n : j <= k) => k = i
  OBVIOUS
<1>2. QED
  BY <1>1 DEF LastOf

\* Short sequences put together.
LEMMA Together ==
    ASSUME NEW a, NEW b, NEW c
    PROVE  /\ <<a>> \o <<b, c>> = <<a, b, c>>
           /\ <<>> \o <<b, c>> = <<b, c>>
<1> DEFINE S == {a, b, c}
<1>1. <<a>> \in Seq(S) /\ <<b, c>> \in Seq(S) /\ <<a, b, c>> \in Seq(S)
  OBVIOUS
<1>2. /\ <<a>> \o <<b, c>> \in Seq(S)
      /\ Len(<<a>> \o <<b, c>>) = Len(<<a>>) + Len(<<b, c>>)
      /\ \A i \in 1..Len(<<a>>) + Len(<<b, c>>) :
             (<<a>> \o <<b, c>>)[i] =
                 IF i <= Len(<<a>>) THEN <<a>>[i] ELSE <<b, c>>[i - Len(<<a>>)]
  BY <1>1, ConcatProperties, Zenon
<1>3. \A i \in 1..3 : (<<a>> \o <<b, c>>)[i] = <<a, b, c>>[i]
  BY <1>2
<1>4. <<a>> \o <<b, c>> = <<a, b, c>>
  <2>1. Len(<<a>> \o <<b, c>>) = 3 /\ Len(<<a, b, c>>) = 3
    BY <1>2
  <2>2. QED
    BY <1>1, <1>2, <1>3, <2>1, SeqEqual, Zenon
<1>5. QED
  BY <1>1, <1>4, ConcatEmptySeq, Zenon

\* The layers a start reads, one by one.
LEMMA LayersAre ==
    /\ Serves => Layers = <<deployment.file.layer, deployment.environment,
                            deployment.flags>>
    /\ ~Serves => Layers = <<deployment.environment, deployment.flags>>
<1>1. CASE Serves
  BY <1>1, Together, Zenon DEF Layers
<1>2. CASE ~Serves
  BY <1>2, Together, Zenon DEF Layers
<1>3. QED
  BY <1>1, <1>2

\* Layer after layer, the configuration is what the last word on a setting is.
LEMMA LastWordStands ==
    ASSUME NEW s \in Setting
    PROVE  AfterFlags.set[s] = LastWord(s)
<1> DEFINE F == deployment.file.layer
           E == deployment.environment
           G == deployment.flags
           by == {i \in DOMAIN Layers : s \in Supplied(Layers[i].plain)}
<1>1. AfterFlags.set[s] =
          IF s \in Supplied(G.plain) THEN ValueOf(s, G.plain[s])
          ELSE AfterEnvironment.set[s]
  BY AppliedSetting, LayeredShape DEF AfterFlags
<1>2. AfterEnvironment.set[s] =
          IF s \in Supplied(E.plain) THEN ValueOf(s, E.plain[s])
          ELSE AfterFile.set[s]
  BY AppliedSetting, LayeredShape DEF AfterEnvironment
<1>3. AfterFile.set[s] =
          IF Serves /\ s \in Supplied(F.plain) THEN ValueOf(s, F.plain[s])
          ELSE Defaults[s]
  BY AppliedSetting, InitialShape DEF AfterFile
<1>4. LastWord(s) = IF by = {} THEN Defaults[s]
                    ELSE ValueOf(s, Layers[LastOf(by)].plain[s])
  BY DEF LastWord
<1>5. CASE Serves
  <2>1. Layers = <<F, E, G>>
    BY <1>5, LayersAre
  <2>2. /\ Layers[1] = F /\ Layers[2] = E /\ Layers[3] = G
        /\ DOMAIN Layers = {1, 2, 3}
    <3> HIDE DEF F, E, G
    <3> QED BY <2>1
  <2>3. /\ by \subseteq {1, 2, 3}
        /\ 1 \in by <=> s \in Supplied(F.plain)
        /\ 2 \in by <=> s \in Supplied(E.plain)
        /\ 3 \in by <=> s \in Supplied(G.plain)
    <3> HIDE DEF F, E, G
    <3> QED BY <2>2
  <2> HIDE DEF F, E, G, by
  <2>4. CASE s \in Supplied(G.plain)
    <3>1. LastOf(by) = 3
      <4>1. 3 \in by /\ by \in SUBSET {1, 2, 3}
        BY <2>3, <2>4
      <4>2. \A j \in by : j <= 3
        BY <4>1
      <4>3. QED
        BY <4>1, <4>2, LastOfIs
    <3>2. by # {}
      BY <2>3, <2>4
    <3>3. QED
      BY <1>1, <1>4, <2>2, <2>4, <3>1, <3>2
  <2>5. CASE s \notin Supplied(G.plain) /\ s \in Supplied(E.plain)
    <3>1. LastOf(by) = 2
      <4>1. 2 \in by /\ by \subseteq 1..2 /\ by \in SUBSET {1, 2, 3}
        BY <2>3, <2>5
      <4>2. \A j \in by : j <= 2
        BY <4>1
      <4>3. QED
        BY <4>1, <4>2, LastOfIs
    <3>2. by # {}
      BY <2>3, <2>5
    <3>3. QED
      BY <1>1, <1>2, <1>4, <2>2, <2>5, <3>1, <3>2
  <2>6. CASE s \notin Supplied(G.plain) /\ s \notin Supplied(E.plain) /\ s \in Supplied(F.plain)
    <3>1. LastOf(by) = 1
      <4>1. 1 \in by /\ by \subseteq 1..1 /\ by \in SUBSET {1, 2, 3}
        BY <2>3, <2>6
      <4>2. \A j \in by : j <= 1
        BY <4>1
      <4>3. QED
        BY <4>1, <4>2, LastOfIs
    <3>2. by # {}
      BY <2>3, <2>6
    <3>3. QED
      BY <1>1, <1>2, <1>3, <1>4, <1>5, <2>2, <2>6, <3>1, <3>2
  <2>7. CASE s \notin Supplied(G.plain) /\ s \notin Supplied(E.plain) /\ s \notin Supplied(F.plain)
    <3>1. by = {}
      BY <2>3, <2>7
    <3>2. QED
      BY <1>1, <1>2, <1>3, <1>4, <2>7, <3>1
  <2>8. QED
    BY <2>4, <2>5, <2>6, <2>7
<1>6. CASE ~Serves
  <2>1. Layers = <<E, G>>
    BY <1>6, LayersAre
  <2>2. /\ Layers[1] = E /\ Layers[2] = G
        /\ DOMAIN Layers = {1, 2}
    <3> HIDE DEF F, E, G
    <3> QED BY <2>1
  <2>3. /\ by \subseteq {1, 2}
        /\ 1 \in by <=> s \in Supplied(E.plain)
        /\ 2 \in by <=> s \in Supplied(G.plain)
    <3> HIDE DEF F, E, G
    <3> QED BY <2>2
  <2> HIDE DEF F, E, G, by
  <2>4. CASE s \in Supplied(G.plain)
    <3>1. LastOf(by) = 2
      <4>1. by \in SUBSET {1, 2, 3} /\ 2 \in by /\ \A j \in by : j <= 2
        BY <2>3, <2>4
      <4>2. QED
        BY <4>1, LastOfIs
    <3>2. by # {}
      BY <2>3, <2>4
    <3>3. QED
      BY <1>1, <1>4, <2>2, <2>4, <3>1, <3>2
  <2>5. CASE s \notin Supplied(G.plain) /\ s \in Supplied(E.plain)
    <3>1. LastOf(by) = 1
      <4>1. by \in SUBSET {1, 2, 3} /\ 1 \in by /\ \A j \in by : j <= 1
        BY <2>3, <2>5
      <4>2. QED
        BY <4>1, LastOfIs
    <3>2. by # {}
      BY <2>3, <2>5
    <3>3. QED
      BY <1>1, <1>2, <1>4, <2>2, <2>5, <3>1, <3>2
  <2>6. CASE s \notin Supplied(G.plain) /\ s \notin Supplied(E.plain)
    <3>1. by = {}
      BY <2>3, <2>6
    <3>2. QED
      BY <1>1, <1>2, <1>3, <1>4, <1>6, <2>6, <3>1
  <2>7. QED
    BY <2>4, <2>5, <2>6
<1>7. QED
  BY <1>5, <1>6

\* The last of some of the layers, one by one.
LEMMA LastLayer ==
    ASSUME NEW by \in SUBSET DOMAIN Layers
    PROVE  /\ Serves => /\ DOMAIN Layers = {1, 2, 3}
                        /\ Layers[1] = deployment.file.layer
                        /\ Layers[2] = deployment.environment
                        /\ Layers[3] = deployment.flags
           /\ ~Serves => /\ DOMAIN Layers = {1, 2}
                         /\ Layers[1] = deployment.environment
                         /\ Layers[2] = deployment.flags
           /\ 3 \in by => LastOf(by) = 3
           /\ 3 \notin by /\ 2 \in by => LastOf(by) = 2
           /\ by = {1} => LastOf(by) = 1
<1> DEFINE F == deployment.file.layer
           E == deployment.environment
           G == deployment.flags
<1>1. (Serves => Layers = <<F, E, G>>) /\ (~Serves => Layers = <<E, G>>)
  BY LayersAre
<1> HIDE DEF F, E, G
<1>2. /\ Serves => /\ DOMAIN Layers = {1, 2, 3}
                   /\ Layers[1] = F /\ Layers[2] = E /\ Layers[3] = G
      /\ ~Serves => DOMAIN Layers = {1, 2} /\ Layers[1] = E /\ Layers[2] = G
  BY <1>1
<1>3. by \in SUBSET {1, 2, 3}
  BY <1>2
<1>4. 3 \in by => LastOf(by) = 3
  <2>1. \A j \in by : j <= 3
    BY <1>3
  <2>2. QED
    BY <1>3, <2>1, LastOfIs
<1>5. 3 \notin by /\ 2 \in by => LastOf(by) = 2
  <2>1. 3 \notin by => \A j \in by : j <= 2
    BY <1>3
  <2>2. QED
    BY <1>3, <2>1, LastOfIs
<1>6. by = {1} => LastOf(by) = 1
  <2>1. by = {1} => 1 \in by /\ \A j \in by : j <= 1
    OBVIOUS
  <2>2. QED
    BY <1>3, <2>1, LastOfIs
<1>7. QED
  BY <1>2, <1>4, <1>5, <1>6 DEF F, E, G

\* Layer after layer, a surface's block is the last one that is whole.
LEMMA LastBlockStands ==
    ASSUME NEW f \in Surface
    PROVE  AfterFlags.tls[f] = LastBlock(f)
<1> DEFINE F == deployment.file.layer
           E == deployment.environment
           G == deployment.flags
           by == {i \in DOMAIN Layers : NamesBoth(Layers[i].tls[f])}
           Block(layer) == TlsOf(f, layer.tls[f], NoTls)
<1>1. AfterFlags.tls[f] =
          IF NamesBoth(G.tls[f]) THEN Block(G) ELSE AfterEnvironment.tls[f]
  BY AppliedTls, LayeredShape DEF AfterFlags
<1>2. AfterEnvironment.tls[f] =
          IF NamesBoth(E.tls[f]) THEN Block(E) ELSE AfterFile.tls[f]
  BY AppliedTls, LayeredShape DEF AfterEnvironment
<1>3. AfterFile.tls[f] = IF Serves /\ NamesBoth(F.tls[f]) THEN Block(F) ELSE NoTls
  <2>1. InitialConfig.tls[f] = NoTls
    BY InitialShape
  <2>2. CASE Serves
    <3>1. AfterFile.tls[f] =
              IF NamesBoth(F.tls[f]) THEN Block(F) ELSE InitialConfig.tls[f]
      BY <2>2, AppliedTls, InitialShape DEF AfterFile
    <3>2. QED
      BY <2>1, <2>2, <3>1
  <2>3. CASE ~Serves
    BY <2>1, <2>3 DEF AfterFile
  <2>4. QED
    BY <2>2, <2>3
<1>4. LastBlock(f) = IF by = {} THEN NoTls ELSE Block(Layers[LastOf(by)])
  BY Zenon DEF LastBlock
<1>5. /\ by \in SUBSET DOMAIN Layers
      /\ \A i \in DOMAIN Layers : i \in by <=> NamesBoth(Layers[i].tls[f])
  OBVIOUS
<1>6. /\ Serves => /\ DOMAIN Layers = {1, 2, 3}
                   /\ Layers[1] = F /\ Layers[2] = E /\ Layers[3] = G
      /\ ~Serves => DOMAIN Layers = {1, 2} /\ Layers[1] = E /\ Layers[2] = G
      /\ 3 \in by => LastOf(by) = 3
      /\ 3 \notin by /\ 2 \in by => LastOf(by) = 2
      /\ by = {1} => LastOf(by) = 1
  BY <1>5, LastLayer
<1> HIDE DEF F, E, G, by, Block
<1>7. CASE Serves
  <2>1. /\ by \subseteq {1, 2, 3}
        /\ 1 \in by <=> NamesBoth(F.tls[f])
        /\ 2 \in by <=> NamesBoth(E.tls[f])
        /\ 3 \in by <=> NamesBoth(G.tls[f])
    BY <1>5, <1>6, <1>7
  <2>2. CASE 3 \in by
    BY <1>1, <1>4, <1>6, <1>7, <2>1, <2>2
  <2>3. CASE 3 \notin by /\ 2 \in by
    BY <1>1, <1>2, <1>4, <1>6, <1>7, <2>1, <2>3
  <2>4. CASE 3 \notin by /\ 2 \notin by /\ 1 \in by
    <3>1. by = {1}
      BY <2>1, <2>4
    <3>2. QED
      BY <1>1, <1>2, <1>3, <1>4, <1>6, <1>7, <2>1, <2>4, <3>1
  <2>5. CASE 3 \notin by /\ 2 \notin by /\ 1 \notin by
    <3>1. by = {}
      BY <2>1, <2>5
    <3>2. QED
      BY <1>1, <1>2, <1>3, <1>4, <2>1, <2>5, <3>1
  <2>6. QED
    BY <2>2, <2>3, <2>4, <2>5
<1>8. CASE ~Serves
  <2>1. /\ by \subseteq {1, 2} /\ 3 \notin by
        /\ 1 \in by <=> NamesBoth(E.tls[f])
        /\ 2 \in by <=> NamesBoth(G.tls[f])
    BY <1>5, <1>6, <1>8
  <2>2. CASE 2 \in by
    BY <1>1, <1>4, <1>6, <1>8, <2>1, <2>2
  <2>3. CASE 2 \notin by /\ 1 \in by
    <3>1. by = {1}
      BY <2>1, <2>3
    <3>2. QED
      BY <1>1, <1>2, <1>4, <1>6, <1>8, <2>1, <2>3, <3>1
  <2>4. CASE 2 \notin by /\ 1 \notin by
    <3>1. by = {}
      BY <2>1, <2>4
    <3>2. QED
      BY <1>1, <1>2, <1>3, <1>4, <1>8, <2>1, <2>4, <3>1
  <2>5. QED
    BY <2>2, <2>3, <2>4
<1>9. QED
  BY <1>7, <1>8

\* The layers applied in their order have what LayersDecide says.
LEMMA LayersHaveTheirSay ==
    ASSUME Layered
    PROVE  LayersDecide
<1> SUFFICES ASSUME LayersRead
             PROVE  /\ \A s \in Setting :
                           /\ \A i \in DOMAIN Layers :
                                  s \in Supplied(Layers[i].plain) => Reads(s, Layers[i].plain[s])
                           /\ config.set[s] = LastWord(s)
                    /\ \A f \in Surface : config.tls[f] = LastBlock(f)
  BY DEF LayersDecide
<1>1. /\ config.set = AfterFlags.set /\ config.tls = AfterFlags.tls
      /\ FileRead /\ LayerReads(deployment.environment) /\ LayerReads(deployment.flags)
  BY DEF Layered
<1>2. \A i \in DOMAIN Layers : LayerReads(Layers[i])
  <2> DEFINE F == deployment.file.layer
             E == deployment.environment
             G == deployment.flags
  <2>1. (Serves => LayerReads(F)) /\ LayerReads(E) /\ LayerReads(G)
    BY <1>1 DEF FileRead
  <2>2. /\ Serves => Layers = <<F, E, G>>
        /\ ~Serves => Layers = <<E, G>>
    BY LayersAre
  <2> HIDE DEF F, E, G
  <2>3. CASE Serves
    <3>1. Layers[1] = F /\ Layers[2] = E /\ Layers[3] = G /\ DOMAIN Layers = {1, 2, 3}
      BY <2>2, <2>3
    <3>2. QED
      BY <2>1, <2>3, <3>1
  <2>4. CASE ~Serves
    <3>1. Layers[1] = E /\ Layers[2] = G /\ DOMAIN Layers = {1, 2}
      BY <2>2, <2>4
    <3>2. QED
      BY <2>1, <3>1
  <2>5. QED
    BY <2>3, <2>4
<1>3. \A s \in Setting : config.set[s] = LastWord(s)
  BY <1>1, LastWordStands
<1>4. \A f \in Surface : config.tls[f] = LastBlock(f)
  BY <1>1, LastBlockStands
<1>5. \A s \in Setting, i \in DOMAIN Layers :
          s \in Supplied(Layers[i].plain) => Reads(s, Layers[i].plain[s])
  BY <1>2 DEF LayerReads
<1>6. QED
  BY <1>3, <1>4, <1>5

\* A function on the first n numbers is a sequence.
LEMMA Counted ==
    ASSUME NEW n \in Nat, NEW f, f = [i \in 1..n |-> f[i]]
    PROVE  Len(f) = n /\ DOMAIN f = 1..n
<1>1. f \in Seq({f[i] : i \in 1..n})
  OBVIOUS
<1>2. Len(f) \in Nat /\ DOMAIN f = 1..Len(f) /\ DOMAIN f = 1..n
  BY <1>1
<1>3. QED
  BY <1>2

\* Whatever is declared, the configuration keeps its shape.
LEMMA ConfigKept ==
    ASSUME ConfigOK, [Next]_vars
    PROVE  ConfigOK'
<1>1. DOMAIN config = {"set", "tls", "stated", "realms", "extra"}
  BY DEF ConfigOK
<1>2. ASSUME NEW layer, NEW now, NEW next, ApplyLayer(now, layer, next)
      PROVE  ConfigOK'
  <2>1. CASE LayerReads(layer)
    <3>1. config' = ApplyPairs(config, layer) /\ deployment' = deployment
      BY <1>2, <2>1 DEF ApplyLayer
    <3>2. /\ DOMAIN ApplyPairs(config, layer) = DOMAIN config
          /\ ApplyPairs(config, layer).realms = config.realms
      BY <1>1, AppliedShape, Zenon
    <3>3. DOMAIN config' = DOMAIN config /\ config'.realms = config.realms
      BY <3>1, <3>2
    <3>4. QED
      BY <3>1, <3>3 DEF ConfigOK
  <2>2. CASE ~LayerReads(layer)
    BY <1>2, <2>2 DEF ApplyLayer, ConfigOK
  <2>3. QED
    BY <2>1, <2>2
<1>3. CASE ResolveRealms
  <2> DEFINE inputs == DeclaredRealms(deployment.file)
  <2>1. \/ config' = config /\ deployment' = deployment
        \/ /\ config' = WithRealms(config, inputs) /\ deployment' = deployment
           /\ \A in \in ToSet(inputs) : RealmReads(in)
    BY <1>3 DEF ResolveRealms
  <2>2. CASE config' = config /\ deployment' = deployment
    BY <2>2 DEF ConfigOK
  <2>3. CASE /\ config' = WithRealms(config, inputs) /\ deployment' = deployment
             /\ \A in \in ToSet(inputs) : RealmReads(in)
    <3>1. /\ inputs \in Seq(ToSet(inputs))
          /\ \A in \in ToSet(inputs) : in.name \in RealmNames
      BY StartupAssumption DEF ConfigOK
    <3>2. /\ DOMAIN WithRealms(config, inputs) = DOMAIN config
          /\ WithRealms(config, inputs).set = config.set
          /\ WithRealms(config, inputs).realms =
                 [i \in DOMAIN inputs |-> ResolveRealm(config, inputs[i])]
      <4> HIDE DEF inputs
      <4>1. /\ DOMAIN WithRealms(config, inputs) = DOMAIN config
            /\ WithRealms(config, inputs).set = config.set
        BY <1>1, ResolvedShape, Zenon
      <4>2. WithRealms(config, inputs).realms =
                [i \in DOMAIN inputs |-> ResolveRealm(config, inputs[i])]
        BY <1>1 DEF WithRealms
      <4>3. QED
        BY <4>1, <4>2
    <3>3. /\ DOMAIN config' = DOMAIN config /\ config'.set = config.set
          /\ config'.realms = [i \in DOMAIN inputs |-> ResolveRealm(config, inputs[i])]
      BY <2>3, <3>2
    <3> HIDE DEF inputs
    <3>4. Len(inputs) \in Nat /\ DOMAIN inputs = 1..Len(inputs)
      BY <3>1
    <3>5. config'.realms = [i \in 1..Len(inputs) |-> config'.realms[i]]
      BY <3>3, <3>4
    <3>6. Len(config'.realms) = Len(inputs) /\ DOMAIN config'.realms = 1..Len(inputs)
      BY <3>4, <3>5, Counted
    <3>7. ASSUME NEW i \in 1..Len(inputs)
          PROVE  config'.realms[i].name \in RealmNames
      <4>1. inputs[i] \in ToSet(inputs)
        BY <3>4 DEF ToSet
      <4>2. ResolveRealm(config, inputs[i]).name = inputs[i].name
        BY Zenon DEF ResolveRealm
      <4>3. config'.realms[i] = ResolveRealm(config, inputs[i])
        BY <3>3, <3>4
      <4>4. QED
        BY <3>1, <4>1, <4>2, <4>3
    <3>8. \A i \in 1..Len(config'.realms) : config'.realms[i].name \in RealmNames
      BY <3>6, <3>7
    <3>9. QED
      BY <2>3, <3>3, <3>4, <3>6, <3>8 DEF ConfigOK
  <2>4. QED
    BY <2>1, <2>2, <2>3
<1>4. CASE Start
  <2>1. config' = InitialConfig /\ deployment' \in Deployments
    BY <1>4, StartupAssumption DEF Start
  <2>2. /\ DOMAIN config' = {"set", "tls", "stated", "realms", "extra"}
        /\ config'.set = Defaults /\ config'.realms = <<>>
    BY <2>1, InitialShape
  <2>3. QED
    BY <2>1, <2>2 DEF ConfigOK
<1>5. CASE Load
  BY <1>5 DEF Load, ConfigOK
<1>6. CASE \/ Provisioning \/ Serving \/ Dying \/ Exit \/ ReplaceSecret
           \/ ClearCertificates \/ UNCHANGED vars
  <2>1. config' = config /\ deployment' = deployment
    BY <1>6, ConfigStands
  <2>2. QED
    BY <2>1 DEF ConfigOK
<1>7. QED
  BY <1>2, <1>3, <1>4, <1>5, <1>6, StepKinds
     DEF ApplyFile, ApplyEnvironment, ApplyCommandLine

\* Nothing takes back what validation found: from there on neither the
\* configuration nor the files change.
LEMMA JudgedKept ==
    ASSUME Judged, [Next]_vars
    PROVE  Judged'
<1> DEFINE Past == {"pseudonym", "assemble", "realm", "serving"}
<1>1. CASE Validate
  <2>1. /\ config' = config /\ tls' = tls
        /\ phase' = "failed" \/ Valid(config, Files)
    BY <1>1 DEF Validate, To, diskVars
  <2>2. Files' = Files
    BY <2>1 DEF Files, There
  <2>3. Valid(config, Files) => /\ RealmsHold(config)
                                /\ \A f \in Surface : TlsHolds(config.tls[f], Files)
    BY DEF Valid
  <2>4. CASE phase' = "failed"
    BY <2>4 DEF Judged
  <2>5. CASE Valid(config, Files)
    BY <2>1, <2>2, <2>3, <2>5 DEF Judged
  <2>6. QED
    BY <2>1, <2>4, <2>5
<1>2. CASE CheckServerKey \/ AssembleRealms \/ CheckRealmKey \/ Serve
  <2>1. config' = config /\ tls' = tls /\ phase \in Past
    BY <1>2 DEF CheckServerKey, AssembleRealms, CheckRealmKey, Serve, diskVars
  <2>2. Files' = Files
    BY <2>1 DEF Files, There
  <2>3. QED
    BY <2>1, <2>2 DEF Judged
<1>3. CASE UNCHANGED vars
  <2>1. config' = config /\ tls' = tls /\ phase' = phase
    BY <1>3 DEF vars
  <2>2. Files' = Files
    BY <2>1 DEF Files, There
  <2>3. QED
    BY <2>1, <2>2 DEF Judged
<1>4. CASE Load \/ FromLayers \/ ResolveRealms \/ Provisioning \/ Dying \/ Between
  <2>1. phase' \notin Past
    <3>1. CASE Load \/ FromLayers \/ ResolveRealms
      BY <3>1 DEF Load, FromLayers, ApplyFile, ApplyEnvironment, ApplyCommandLine,
         ApplyLayer, ResolveRealms, To
    <3>2. CASE Provisioning
      BY <3>2 DEF Provisioning, Prepare, DrawSecret, GenerateSecret, SecretsDone,
         PrepareCertificates, Issue, To
    <3>3. CASE Dying
      BY <3>3 DEF Dying, Crash, CrashDrawing, CrashIssuing, CrashWitnessing,
         CrashRecording, Die, To
    <3>4. CASE Between
      BY <3>4 DEF Between, Exit, Start, ReplaceSecret, ClearCertificates, To
    <3>5. QED
      BY <1>4, <3>1, <3>2, <3>3, <3>4
  <2>2. QED
    BY <2>1 DEF Judged
<1>5. QED
  BY <1>1, <1>2, <1>3, <1>4 DEF Next, Serving

\* What validation asks of each realm, by its place.
LEMMA RealmsJudged ==
    ASSUME ConfigOK, RealmsHold(config)
    PROVE  /\ \A i \in 1..Len(config.realms) : RealmHolds(config, config.realms[i])
           /\ \A i, j \in 1..Len(config.realms) :
                  config.realms[i].name = config.realms[j].name => i = j
<1> DEFINE rs == config.realms
           names == [i \in DOMAIN rs |-> rs[i]["name"]]
<1>1. DOMAIN rs = 1..Len(rs)
  BY DEF ConfigOK
<1>2. IsInjective(names) /\ \A r \in ToSet(rs) : RealmHolds(config, r)
  BY DEF RealmsHold, Distinct
<1> HIDE DEF rs
<1>3. \A i \in 1..Len(rs) : rs[i] \in ToSet(rs)
  BY <1>1 DEF ToSet
<1>4. \A i, j \in 1..Len(rs) : rs[i].name = rs[j].name => i = j
  BY <1>1, <1>2 DEF IsInjective
<1>5. QED
  BY <1>2, <1>3, <1>4 DEF rs

----------------------------------------------------------------------------
(* The transport material *)

\* The steps that leave tls/ alone.
LEMMA VolumeStands ==
    ASSUME [Next]_vars, ~Issue, ~CrashIssuing, ~ClearCertificates
    PROVE  tls' = tls
<1>1. CASE Load \/ FromLayers \/ ResolveRealms
  BY <1>1 DEF Load, FromLayers, ApplyFile, ApplyEnvironment, ApplyCommandLine,
     ApplyLayer, ResolveRealms, diskVars
<1>2. CASE Provisioning
  BY <1>2 DEF Provisioning, Prepare, DrawSecret, GenerateSecret, SecretsDone,
     PrepareCertificates, diskVars
<1>3. CASE Serving
  BY <1>3 DEF Serving, Validate, CheckServerKey, AssembleRealms, CheckRealmKey, Serve,
     diskVars
<1>4. CASE Dying
  BY <1>4 DEF Dying, Crash, CrashDrawing, GenerateSecret, CrashWitnessing,
     CrashRecording, diskVars
<1>5. CASE Between
  BY <1>5 DEF Between, Exit, Start, ReplaceSecret, diskVars
<1>6. CASE UNCHANGED vars
  BY <1>6 DEF vars
<1>7. QED
  BY <1>1, <1>2, <1>3, <1>4, <1>5, <1>6 DEF Next

\* The steps that make no authority.
LEMMA AuthoritiesStand ==
    ASSUME [Next]_vars, ~PrepareCertificates
    PROVE  authorities' = authorities
<1>1. CASE Load \/ FromLayers \/ ResolveRealms
  BY <1>1 DEF Load, FromLayers, ApplyFile, ApplyEnvironment, ApplyCommandLine,
     ApplyLayer, ResolveRealms, countVars
<1>2. CASE Provisioning
  BY <1>2 DEF Provisioning, Prepare, DrawSecret, GenerateSecret, SecretsDone,
     Issue, countVars
<1>3. CASE Serving
  BY <1>3 DEF Serving, Validate, CheckServerKey, AssembleRealms, CheckRealmKey, Serve,
     countVars
<1>4. CASE Dying
  BY <1>4 DEF Dying, Crash, CrashDrawing, GenerateSecret, CrashIssuing, CrashWitnessing,
     CrashRecording
<1>5. CASE Between
  BY <1>5 DEF Between, Exit, Start, ReplaceSecret, ClearCertificates, countVars
<1>6. CASE UNCHANGED vars
  BY <1>6 DEF vars
<1>7. QED
  BY <1>1, <1>2, <1>3, <1>4, <1>5, <1>6 DEF Next

\* The files of a set, in the order in which they are written.
LEMMA IssuedIs ==
    /\ Len(Issued) = 7
    /\ Issued[1] = "ca.pem" /\ Issued[2] = "ca.key" /\ Issued[3] = "server.pem"
    /\ Issued[4] = "server.key" /\ Issued[5] = "client.pem"
    /\ Issued[6] = "client.key" /\ Issued[7] = "ca.crl"
    /\ TlsFile = {"ca.pem", "ca.key", "server.pem", "server.key", "client.pem",
                  "client.key", "ca.crl"}
<1>1. /\ Len(Issued) = 7
      /\ Issued[1] = "ca.pem" /\ Issued[2] = "ca.key" /\ Issued[3] = "server.pem"
      /\ Issued[4] = "server.key" /\ Issued[5] = "client.pem"
      /\ Issued[6] = "client.key" /\ Issued[7] = "ca.crl"
      /\ DOMAIN Issued = {1, 2, 3, 4, 5, 6, 7}
  BY DEF Issued
<1>2. TlsFile = {Issued[i] : i \in {1, 2, 3, 4, 5, 6, 7}}
  BY <1>1 DEF TlsFile, ToSet
<1>3. QED
  BY <1>1, <1>2

\* What an authority issued, whole or cut short, is a file.
LEMMA WhatIsMade ==
    ASSUME NEW n \in Nat \ {0}
    PROVE  /\ Made(n) # Missing /\ Made(n).by = n /\ Made(n).whole = TRUE
           /\ Cut(Made(n)) # Missing /\ Cut(Made(n)).by = n
<1>1. Made(n).by = n /\ Made(n).whole = TRUE
  BY DEF Made
<1>2. DOMAIN Made(n) = {"by", "whole"}
  BY DEF Made
<1>3. Missing.by = 0 /\ Missing.whole = FALSE
  BY DEF Missing
<1>4. Cut(Made(n)).by = n
  BY <1>1, <1>2 DEF Cut
<1>5. QED
  BY <1>1, <1>3, <1>4

\* Writing one file of a set, or some of it, keeps key, certificate and authority
\* together: the key is the fourth, behind its certificate and the authority.
LEMMA WritingKeeps ==
    ASSUME VolumeOK, IssueOK, phase = "issue", NEW w,
           w # Missing, w.by = authorities,
           tls' = [tls EXCEPT ![Issued[at]] = w], authorities' = authorities
    PROVE  VolumeOK'
<1>1. /\ at \in 1..7 /\ authorities \in Nat \ {0} /\ DOMAIN tls = TlsFile
      /\ \A i \in 1..(at - 1) : tls[Issued[i]] = Made(authorities)
      /\ at <= 4 => tls["server.key"] = Missing
      /\ at <= 5 => tls["client.pem"] = Missing \/ tls["client.key"] = Missing
  BY IssuedIs DEF IssueOK, VolumeOK, There, ClientPair
<1>2. Made(authorities).by = authorities /\ Made(authorities).whole = TRUE
  BY <1>1, WhatIsMade
<1>3. /\ DOMAIN tls' = TlsFile
      /\ \A f \in TlsFile : tls'[f] = IF f = Issued[at] THEN w ELSE tls[f]
  BY <1>1
<1>4. CASE at \in {1, 2, 3}
  <2>1. Issued[at] \in {"ca.pem", "ca.key", "server.pem"}
    BY <1>4, IssuedIs
  <2>2. /\ tls'["server.key"] = Missing
        /\ tls'["client.pem"] = tls["client.pem"] /\ tls'["client.key"] = tls["client.key"]
    BY <1>1, <1>3, <1>4, <2>1, IssuedIs
  <2>3. QED
    BY <1>1, <1>3, <1>4, <2>2 DEF VolumeOK, There, ClientPair, Missing
<1>5. CASE at = 4
  <2>1. tls["ca.pem"] = Made(authorities) /\ tls["server.pem"] = Made(authorities)
    <3>1. 1 \in 1..(at - 1) /\ 3 \in 1..(at - 1)
      BY <1>5
    <3>2. QED
      BY <1>1, <3>1, IssuedIs
  <2>2. /\ tls'["server.key"] = w
        /\ tls'["ca.pem"] = Made(authorities) /\ tls'["server.pem"] = Made(authorities)
        /\ tls'["client.pem"] = tls["client.pem"] /\ tls'["client.key"] = tls["client.key"]
    BY <1>3, <1>5, <2>1, IssuedIs
  <2>3. Made(authorities) # Missing
    BY <1>1, WhatIsMade
  <2>4. ~ClientPair'
    BY <1>1, <1>5, <2>2 DEF ClientPair, There, Missing
  <2>5. /\ There("server.pem")' /\ tls'["server.key"].by = tls'["server.pem"].by
        /\ tls'["ca.pem"].by = tls'["server.pem"].by
    BY <1>2, <2>2, <2>3 DEF There, Missing
  <2>6. QED
    BY <1>1, <1>3, <2>4, <2>5 DEF VolumeOK
<1>6. CASE at \in {5, 6, 7}
  <2>1. /\ tls["ca.pem"] = Made(authorities) /\ tls["server.pem"] = Made(authorities)
        /\ tls["server.key"] = Made(authorities)
    <3>1. 1 \in 1..(at - 1) /\ 3 \in 1..(at - 1) /\ 4 \in 1..(at - 1)
      BY <1>6
    <3>2. QED
      BY <1>1, <3>1, IssuedIs
  <2>2. Issued[at] \in {"client.pem", "client.key", "ca.crl"}
    BY <1>6, IssuedIs
  <2>3. /\ tls'["ca.pem"] = Made(authorities) /\ tls'["server.pem"] = Made(authorities)
        /\ tls'["server.key"] = Made(authorities)
    BY <1>3, <2>1, <2>2, IssuedIs
  <2>4. Made(authorities) # Missing
    BY <1>1, WhatIsMade
  <2>5. There("server.pem")'
    BY <2>3, <2>4 DEF There, Missing
  <2>6. /\ tls'["server.key"].by = tls'["server.pem"].by
        /\ tls'["ca.pem"].by = tls'["server.pem"].by
        /\ tls'["server.pem"].whole /\ tls'["server.key"].whole
    BY <1>2, <2>3
  <2>7. QED
    BY <1>1, <1>3, <2>5, <2>6 DEF VolumeOK
<1>7. QED
  BY <1>1, <1>4, <1>5, <1>6

\* Whatever happens to the process, key, certificate and authority belong together.
LEMMA VolumeKept ==
    ASSUME VolumeOK, IssueOK, [Next]_vars
    PROVE  VolumeOK'
<1>1. CASE Issue
  <2>1. /\ phase = "issue" /\ tls' = [tls EXCEPT ![Issued[at]] = Made(authorities)]
        /\ authorities' = authorities /\ authorities \in Nat \ {0}
    BY <1>1 DEF Issue, countVars, IssueOK, VolumeOK
  <2>2. Made(authorities) # Missing /\ Made(authorities).by = authorities
    BY <2>1, WhatIsMade
  <2>3. QED
    BY <2>1, <2>2, WritingKeeps
<1>2. CASE CrashIssuing
  <2>1. /\ phase = "issue" /\ tls' = [tls EXCEPT ![Issued[at]] = Cut(Made(authorities))]
        /\ authorities' = authorities /\ authorities \in Nat \ {0}
    BY <1>2 DEF CrashIssuing, IssueOK, VolumeOK
  <2>2. Cut(Made(authorities)) # Missing /\ Cut(Made(authorities)).by = authorities
    BY <2>1, WhatIsMade
  <2>3. QED
    BY <2>1, <2>2, WritingKeeps
<1>3. CASE ClearCertificates
  <2>1. tls' = [f \in TlsFile |-> Missing] /\ authorities' = authorities
    BY <1>3 DEF ClearCertificates, countVars
  <2>2. DOMAIN tls' = TlsFile /\ tls'["server.key"] = Missing /\ tls'["client.pem"] = Missing
    BY <2>1, IssuedIs
  <2>3. QED
    BY <2>1, <2>2 DEF VolumeOK, There, ClientPair, Missing
<1>4. CASE ~Issue /\ ~CrashIssuing /\ ~ClearCertificates
  <2>1. tls' = tls
    BY <1>4, VolumeStands
  <2>2. authorities' \in Nat
    <3>1. CASE PrepareCertificates
      BY <3>1 DEF PrepareCertificates, VolumeOK
    <3>2. CASE ~PrepareCertificates
      BY <3>2, AuthoritiesStand DEF VolumeOK
    <3>3. QED
      BY <3>1, <3>2
  <2>3. QED
    BY <2>1, <2>2 DEF VolumeOK, There, ClientPair
<1>5. QED
  BY <1>1, <1>2, <1>3, <1>4

\* The loop of `issue` begins on a volume without a pair and leaves what it wrote.
LEMMA IssuingKept ==
    ASSUME VolumeOK, IssueOK, [Next]_vars
    PROVE  IssueOK'
<1>1. CASE Issue
  <2>1. /\ phase = "issue" /\ tls' = [tls EXCEPT ![Issued[at]] = Made(authorities)]
        /\ authorities' = authorities
        /\ \/ at = 7 /\ phase' = "validate"
           \/ at # 7 /\ phase' = "issue" /\ at' = at + 1
    BY <1>1, IssuedIs DEF Issue, countVars, To
  <2>2. /\ at \in 1..7 /\ authorities \in Nat \ {0} /\ DOMAIN tls = TlsFile
        /\ \A i \in 1..(at - 1) : tls[Issued[i]] = Made(authorities)
        /\ at <= 4 => tls["server.key"] = Missing
        /\ at <= 5 => tls["client.pem"] = Missing \/ tls["client.key"] = Missing
    BY <2>1, IssuedIs DEF IssueOK, VolumeOK, There, ClientPair
  <2>3. CASE at = 7
    BY <2>1, <2>3 DEF IssueOK
  <2>4. CASE at # 7
    <3>1. at \in {1, 2, 3, 4, 5, 6} /\ at' \in 1..7 /\ at' - 1 = at
      BY <2>1, <2>2, <2>4
    <3>2. \A i \in 1..7 : Issued[i] \in DOMAIN tls
      BY <2>2, IssuedIs
    <3>3. \A i \in 1..(at' - 1) : tls'[Issued[i]] = Made(authorities)
      <4> SUFFICES ASSUME NEW i \in 1..(at' - 1)
                   PROVE  tls'[Issued[i]] = Made(authorities)
        OBVIOUS
      <4>1. i \in 1..7 /\ (i = at \/ i \in 1..(at - 1))
        <5>1. i \in 1..at /\ at \in 1..7
          BY <2>2, <3>1
        <5>2. QED
          BY <5>1
      <4>2. tls'[Issued[i]] = IF Issued[i] = Issued[at] THEN Made(authorities) ELSE tls[Issued[i]]
        BY <2>1, <3>2, <4>1
      <4>3. QED
        BY <2>2, <4>1, <4>2
    <3>4. at' <= 4 => tls'["server.key"] = Missing
      <4>1. at' <= 4 => at \in {1, 2, 3}
        BY <2>1, <2>4, <3>1
      <4>2. at' <= 4 => Issued[at] # "server.key"
        BY <4>1, IssuedIs
      <4>3. QED
        BY <2>1, <2>2, <4>1, <4>2, IssuedIs
    <3>5. at' <= 5 => tls'["client.pem"] = Missing \/ tls'["client.key"] = Missing
      <4>1. at' <= 5 => at \in {1, 2, 3, 4}
        BY <2>1, <2>4, <3>1
      <4>2. at' <= 5 => Issued[at] # "client.pem" /\ Issued[at] # "client.key"
        BY <4>1, IssuedIs
      <4>3. QED
        BY <2>1, <2>2, <4>1, <4>2, IssuedIs
    <3>6. QED
      BY <2>1, <2>2, <3>1, <3>3, <3>4, <3>5, IssuedIs
         DEF IssueOK, There, ClientPair, Made, Missing, Issued
  <2>5. QED
    BY <2>3, <2>4
<1>2. CASE PrepareCertificates
  <2>1. CASE phase' = "issue"
    <3>1. /\ tls' = tls /\ Pairs = {} /\ at' = 1 /\ authorities' = authorities + 1
      BY <1>2, <2>1 DEF PrepareCertificates, To, diskVars
    <3>2. ~(There("server.pem") /\ There("server.key")) /\ ~ClientPair
      <4>1. \A p \in TlsPairs : ~(There(p[1]) /\ There(p[2]))
        BY <3>1 DEF Pairs
      <4>2. <<"server.pem", "server.key">> \in TlsPairs /\ <<"client.pem", "client.key">> \in TlsPairs
        BY DEF TlsPairs
      <4>3. QED
        BY <4>1, <4>2 DEF ClientPair
    <3>3. ~There("server.key")
      BY <3>2 DEF VolumeOK
    <3>4. ~There("server.key")' /\ ~ClientPair'
      BY <3>1, <3>2, <3>3 DEF There, ClientPair
    <3>5. 1 \in 1..Len(Issued) /\ 1..(at' - 1) = {} /\ authorities' # 0
      BY <3>1, IssuedIs DEF VolumeOK
    <3>6. QED
      BY <3>1, <3>4, <3>5 DEF IssueOK
  <2>2. CASE phase' # "issue"
    BY <2>2 DEF IssueOK
  <2>3. QED
    BY <2>1, <2>2
<1>3. CASE UNCHANGED vars
  BY <1>3 DEF vars, IssueOK, There, ClientPair
<1>4. CASE Next /\ ~Issue /\ ~PrepareCertificates
  <2>1. phase' # "issue"
    <3>1. CASE Load \/ FromLayers \/ ResolveRealms
      BY <3>1 DEF Load, FromLayers, ApplyFile, ApplyEnvironment, ApplyCommandLine,
         ApplyLayer, ResolveRealms, To
    <3>2. CASE Provisioning
      BY <1>4, <3>2 DEF Provisioning, Prepare, DrawSecret, GenerateSecret, SecretsDone, To
    <3>3. CASE Serving
      BY <3>3 DEF Serving, Validate, CheckServerKey, AssembleRealms, CheckRealmKey, Serve, To
    <3>4. CASE Dying
      BY <3>4 DEF Dying, Crash, CrashDrawing, CrashIssuing, CrashWitnessing,
         CrashRecording, Die, To
    <3>5. CASE Between
      BY <3>5 DEF Between, Exit, Start, ReplaceSecret, ClearCertificates, To
    <3>6. QED
      BY <1>4, <3>1, <3>2, <3>3, <3>4, <3>5 DEF Next
  <2>2. QED
    BY <2>1 DEF IssueOK
<1>5. QED
  BY <1>1, <1>2, <1>3, <1>4

\* A start that may generate validates only with a whole set, or with none in use.
LEMMA ProvidedKept ==
    ASSUME VolumeOK, IssueOK, Provided, [Next]_vars
    PROVE  Provided'
<1> DEFINE Past == {"validate", "pseudonym", "assemble", "realm", "serving"}
<1>1. ASSUME phase \in Past, config' = config, tls' = tls
      PROVE  Provided'
  <2>1. Pairs' = Pairs
    BY <1>1 DEF Pairs, There
  <2>2. QED
    BY <1>1, <2>1 DEF Provided
<1>2. CASE Prepare
  <2>1. config' = config /\ (phase' = "validate" => ~config.set.autogenerate)
        /\ phase' \in {"secrets", "validate"}
    BY <1>2 DEF Prepare, To
  <2>2. QED
    BY <2>1 DEF Provided
<1>3. CASE PrepareCertificates
  <2>1. /\ config' = config /\ tls' = tls /\ phase' \in {"validate", "failed", "issue"}
        /\ phase' = "validate" =>
               Pairs = TlsPairs \/ \A f \in Surface : config.tls[f] = NoTls
    BY <1>3 DEF PrepareCertificates, To, diskVars
  <2>2. Pairs' = Pairs
    BY <2>1 DEF Pairs, There
  <2>3. QED
    BY <2>1, <2>2 DEF Provided
<1>4. CASE Issue
  <2>1. CASE phase' = "validate"
    <3>1. /\ at = 7 /\ tls' = [tls EXCEPT ![Issued[7]] = Made(authorities)]
          /\ phase = "issue" /\ authorities' = authorities
      BY <1>4, <2>1, IssuedIs DEF Issue, To, countVars
    <3>2. /\ \A i \in 1..6 : tls[Issued[i]] = Made(authorities)
          /\ authorities \in Nat \ {0} /\ DOMAIN tls = TlsFile
      BY <3>1 DEF IssueOK, VolumeOK
    <3>3. /\ tls'["ca.pem"] = Made(authorities) /\ tls'["ca.key"] = Made(authorities)
          /\ tls'["server.pem"] = Made(authorities) /\ tls'["server.key"] = Made(authorities)
          /\ tls'["client.pem"] = Made(authorities) /\ tls'["client.key"] = Made(authorities)
      BY <3>1, <3>2, IssuedIs
    <3>4. Made(authorities) # Missing
      BY <3>2, WhatIsMade
    <3>5. /\ There("ca.pem")' /\ There("ca.key")' /\ There("server.pem")'
          /\ There("server.key")' /\ There("client.pem")' /\ There("client.key")'
      BY <3>3, <3>4 DEF There, Missing
    <3>6. \A p \in TlsPairs : There(p[1])' /\ There(p[2])'
      BY <3>5 DEF TlsPairs
    <3>7. Pairs' = TlsPairs
      BY <3>6 DEF Pairs, TlsPairs
    <3>8. QED
      BY <3>7 DEF Provided, TlsPairs
  <2>2. CASE phase' # "validate"
    BY <1>4, <2>2 DEF Issue, To, Provided
  <2>3. QED
    BY <2>1, <2>2
<1>5. CASE Serving
  <2>1. phase \in Past /\ config' = config /\ tls' = tls
    BY <1>5 DEF Serving, Validate, CheckServerKey, AssembleRealms, CheckRealmKey, Serve,
       diskVars
  <2>2. QED
    BY <1>1, <2>1
<1>6. CASE UNCHANGED vars
  <2>1. config' = config /\ tls' = tls /\ phase' = phase
    BY <1>6 DEF vars
  <2>2. Pairs' = Pairs
    BY <2>1 DEF Pairs, There
  <2>3. QED
    BY <2>1, <2>2 DEF Provided
<1>7. CASE \/ Load \/ FromLayers \/ ResolveRealms \/ DrawSecret \/ SecretsDone
           \/ Dying \/ Between
  <2>1. phase' \notin Past
    <3>1. CASE Load \/ FromLayers \/ ResolveRealms
      BY <3>1 DEF Load, FromLayers, ApplyFile, ApplyEnvironment, ApplyCommandLine,
         ApplyLayer, ResolveRealms, To
    <3>2. CASE DrawSecret \/ SecretsDone
      BY <3>2 DEF DrawSecret, GenerateSecret, SecretsDone, To
    <3>3. CASE Dying
      BY <3>3 DEF Dying, Crash, CrashDrawing, CrashIssuing, CrashWitnessing,
         CrashRecording, Die, To
    <3>4. CASE Between
      BY <3>4 DEF Between, Exit, Start, ReplaceSecret, ClearCertificates, To
    <3>5. QED
      BY <1>7, <3>1, <3>2, <3>3, <3>4
  <2>2. QED
    BY <2>1 DEF Provided
<1>8. QED
  BY <1>2, <1>3, <1>4, <1>5, <1>6, <1>7 DEF Next, Provisioning

\* What a surface is served with belongs together.
LEMMA MaterialBelongs ==
    ASSUME Judged, VolumeOK, Provided
    PROVE  MaterialVerifies
<1> SUFFICES ASSUME phase = "serving", NEW f \in Surface,
                    config.tls[f].certificate = "server.pem",
                    config.tls[f].key = "server.key"
             PROVE  /\ config.set.autogenerate =>
                           tls["server.pem"].whole /\ tls["server.key"].whole
                    /\ tls["server.key"].by = tls["server.pem"].by
                    /\ config.tls[f].client_ca = "ca.pem" =>
                           tls["ca.pem"].by = tls["server.pem"].by
  BY DEF MaterialVerifies
<1>1. {config.tls[f].certificate, config.tls[f].key, config.tls[f].client_ca,
       config.tls[f].crl} \ {Unset} \subseteq Files
  BY DEF Judged, TlsHolds
<1>2. "server.key" \in Files
  BY <1>1, StartupAssumption
<1>3. There("server.key")
  BY <1>2, StartupAssumption DEF Files
<1>4. config.tls[f].client_ca = "ca.pem" => There("ca.pem")
  <2>1. config.tls[f].client_ca = "ca.pem" => "ca.pem" \in Files
    BY <1>1, StartupAssumption
  <2>2. QED
    BY <2>1, StartupAssumption DEF Files
<1>5. config.set.autogenerate => tls["server.pem"].whole /\ tls["server.key"].whole
  <2> SUFFICES ASSUME config.set.autogenerate
               PROVE  tls["server.pem"].whole /\ tls["server.key"].whole
    OBVIOUS
  <2>1. config.tls[f] # NoTls
    <3>1. NoTls.certificate = Unset
      BY DEF NoTls
    <3>2. Unset # "server.pem"
      BY StartupAssumption
    <3>3. QED
      BY <3>1, <3>2
  <2>2. Pairs = TlsPairs
    BY <2>1 DEF Provided
  <2>3. <<"client.pem", "client.key">> \in Pairs /\ <<"server.pem", "server.key">> \in Pairs
    BY <2>2 DEF TlsPairs
  <2>4. ClientPair /\ There("server.pem")
    BY <2>3 DEF Pairs, ClientPair
  <2>5. QED
    BY <1>3, <2>4 DEF VolumeOK
<1>6. QED
  BY <1>3, <1>4, <1>5 DEF VolumeOK

----------------------------------------------------------------------------
(* The witness *)

\* The later file begins with what the earlier one held.
Keeps(before, after) ==
    /\ Len(before) <= Len(after)
    /\ \A i \in 1..Len(before) : after[i] = before[i]

\* A sequence is one of its own members.
LEMMA OwnMembers ==
    ASSUME NEW S, NEW lines \in Seq(S)
    PROVE  IsLines(lines)
<1>1. Len(lines) \in Nat /\ DOMAIN lines = 1..Len(lines)
  OBVIOUS
<1>2. \A i \in 1..Len(lines) : lines[i] \in ToSet(lines)
  BY <1>1 DEF ToSet
<1>3. lines = [i \in 1..Len(lines) |-> lines[i]]
  OBVIOUS
<1>4. QED
  BY <1>1, <1>2, <1>3 DEF IsLines

\* A set of places that is not empty has a first one.
LEMMA FirstOfPlaces ==
    ASSUME NEW S \in SUBSET Nat, S # {}
    PROVE  Min(S) \in S /\ \A y \in S : Min(S) <= y
<1>1. PICK x \in S : \A y \in S : ~(<<y, x>> \in OpToRel(<, Nat))
  <2>1. PICK s \in S : TRUE
    OBVIOUS
  <2>2. QED
    BY <2>1, NatLessThanWellFounded, WFMin
<1>2. \A y \in S : ~(y < x)
  BY <1>1 DEF OpToRel
<1>3. \A y \in S : x <= y
  BY <1>2
<1>4. QED
  BY <1>3 DEF Min

\* The place of a version is the first line that names it, and zero says that
\* none does.
LEMMA PlaceOf ==
    ASSUME NEW lines, IsLines(lines), NEW version
    PROVE  /\ Place(lines, version) = 0 =>
                  \A i \in 1..Len(lines) : lines[i].version # version
           /\ Place(lines, version) # 0 =>
                  /\ Place(lines, version) \in 1..Len(lines)
                  /\ lines[Place(lines, version)].version = version
                  /\ \A i \in 1..Len(lines) :
                         lines[i].version = version => Place(lines, version) <= i
<1> DEFINE I == {i \in 1..Len(lines) : lines[i].version = version}
<1>1. Place(lines, version) = IF I # {} THEN Min(I) ELSE 0
  BY DEF Place, SelectInSeq
<1>2. I \in SUBSET Nat /\ \A i \in I : i # 0
  BY DEF IsLines
<1>3. I # {} => Min(I) \in I /\ \A y \in I : Min(I) <= y
  <2> HIDE DEF I
  <2> QED BY <1>2, FirstOfPlaces
<1>4. QED
  BY <1>1, <1>2, <1>3

\* A file that keeps what was there keeps what was first seen.
LEMMA SeenIsKept ==
    ASSUME NEW before, NEW after, IsLines(before), IsLines(after),
           Keeps(before, after), NEW version, NEW key,
           FirstSeen(before, version, key)
    PROVE  FirstSeen(after, version, key)
<1> DEFINE p == Place(before, version)
           q == Place(after, version)
<1>1. /\ p \in 1..Len(before) /\ before[p].version = version /\ before[p].key = key
      /\ \A i \in 1..Len(before) : before[i].version = version => p <= i
  BY PlaceOf DEF FirstSeen
<1>2. Len(before) \in Nat /\ Len(after) \in Nat
  BY DEF IsLines
<1>3. p \in 1..Len(after) /\ after[p] = before[p]
  BY <1>1, <1>2 DEF Keeps
<1>4. q # 0
  BY <1>1, <1>3, PlaceOf
<1>5. q \in 1..Len(after) /\ after[q].version = version /\ q <= p
  BY <1>1, <1>3, <1>4, PlaceOf
<1>6. q \in 1..Len(before) /\ after[q] = before[q]
  <2> HIDE DEF p, q
  <2> QED BY <1>1, <1>2, <1>5 DEF Keeps
<1>7. p <= q
  BY <1>1, <1>5, <1>6
<1>8. p = q
  <2> HIDE DEF p, q
  <2> QED BY <1>1, <1>2, <1>5, <1>7
<1>9. QED
  BY <1>1, <1>3, <1>4, <1>8 DEF FirstSeen

\* A sequence and one line more.
LEMMA OneLineMore ==
    ASSUME NEW lines, IsLines(lines), NEW line
    PROVE  /\ IsLines(Append(lines, line)) /\ Keeps(lines, Append(lines, line))
           /\ Len(Append(lines, line)) = Len(lines) + 1
           /\ Append(lines, line)[Len(lines) + 1] = line
<1> DEFINE S == ToSet(lines) \cup {line}
<1>1. lines \in Seq(S) /\ line \in S
  BY DEF IsLines
<1> HIDE DEF S
<1>2. Append(lines, line) \in Seq(S)
  BY <1>1
<1>3. /\ Len(Append(lines, line)) = Len(lines) + 1
      /\ Append(lines, line)[Len(lines) + 1] = line
      /\ \A i \in 1..Len(lines) : Append(lines, line)[i] = lines[i]
      /\ Len(lines) \in Nat
  BY <1>1
<1>4. IsLines(Append(lines, line))
  BY <1>2, OwnMembers, Zenon
<1>5. Keeps(lines, Append(lines, line))
  BY <1>3 DEF Keeps
<1>6. QED
  BY <1>3, <1>4, <1>5

\* check_at leaves a file that begins as before, and knows the key it agreed to.
LEMMA WitnessedKnows ==
    ASSUME NEW owner, NEW version, NEW key, IsLines(witness[owner]),
           WitnessAgrees(owner, version, key)
    PROVE  /\ IsLines(Witnessed(owner, version, key))
           /\ Keeps(witness[owner], Witnessed(owner, version, key))
           /\ key # Unset => FirstSeen(Witnessed(owner, version, key), version, key)
<1> DEFINE w == witness[owner]
           u == Append(w, Line(version, key))
<1>1. Recorded(owner, version) = Place(w, version)
  BY DEF Recorded, Place
<1>2. CASE IsNew(owner, version, key)
  <2>1. Witnessed(owner, version, key) = u
    BY <1>2 DEF Witnessed
  <2>2. /\ IsLines(u) /\ Keeps(w, u) /\ Len(u) = Len(w) + 1
        /\ u[Len(w) + 1] = Line(version, key)
    BY OneLineMore
  <2>3. Place(w, version) = 0
    BY <1>1, <1>2 DEF IsNew
  <2>4. \A i \in 1..Len(w) : w[i].version # version
    BY <2>3, PlaceOf
  <2>5. Line(version, key).version = version /\ Line(version, key).key = key
    BY DEF Line
  <2> DEFINE n == Len(w) + 1
             q == Place(u, version)
  <2>6. Len(w) \in Nat /\ n \in 1..Len(u) /\ u[n].version = version
    <3>1. Len(w) \in Nat
      BY DEF IsLines
    <3>2. QED
      BY <2>2, <2>5, <3>1
  <2>7. q # 0 /\ q \in 1..Len(u) /\ u[q].version = version
    BY <2>2, <2>6, PlaceOf
  <2>8. q = n
    <3>1. q \notin 1..Len(w)
      BY <2>2, <2>4, <2>7 DEF Keeps
    <3> HIDE DEF q
    <3>2. QED
      BY <2>2, <2>6, <2>7, <3>1
  <2>9. FirstSeen(u, version, key)
    BY <2>2, <2>5, <2>7, <2>8 DEF FirstSeen
  <2>10. QED
    BY <2>1, <2>2, <2>9
<1>3. CASE ~IsNew(owner, version, key)
  <2>1. Witnessed(owner, version, key) = w
    BY <1>3 DEF Witnessed
  <2>2. Keeps(w, w)
    BY DEF Keeps, IsLines
  <2>3. key # Unset => Place(w, version) # 0 /\ w[Place(w, version)].key = key
    BY <1>1, <1>3 DEF IsNew, WitnessAgrees
  <2>4. QED
    BY <2>1, <2>2, <2>3 DEF FirstSeen
<1>4. QED
  BY <1>2, <1>3

\* What a death leaves of a file is lines, too.
LEMMA BeginningsAreLines ==
    ASSUME NEW lines, IsLines(lines), NEW left \in Beginnings(lines)
    PROVE  IsLines(left)
<1>1. PICK n \in 0..(Len(lines) - 1) :
          left \in {SubSeq(lines, 1, n)} \cup
                   {Append(SubSeq(lines, 1, n), rest) :
                       rest \in {Scrap, Torn(lines[n + 1].version)}}
  BY DEF Beginnings
<1>2. Len(lines) \in Nat /\ lines \in Seq(ToSet(lines))
  BY DEF IsLines
<1>3. SubSeq(lines, 1, n) \in Seq(ToSet(lines))
  BY <1>2
<1>4. IsLines(SubSeq(lines, 1, n))
  BY <1>3, OwnMembers, Zenon
<1>5. CASE left = SubSeq(lines, 1, n)
  BY <1>4, <1>5
<1>6. CASE left # SubSeq(lines, 1, n)
  <2>1. PICK rest : left = Append(SubSeq(lines, 1, n), rest)
    BY <1>1, <1>6
  <2>2. QED
    BY <1>4, <2>1, OneLineMore, Zenon
<1>7. QED
  BY <1>5, <1>6

\* A beginning, place by place.
LEMMA PrefixKeeps ==
    ASSUME NEW before, NEW after, IsLines(before), IsLines(after),
           IsPrefix(before, after)
    PROVE  Keeps(before, after)
<1>1. /\ Len(before) \in Nat /\ Len(after) \in Nat
      /\ before \in Seq(ToSet(before)) /\ after \in Seq(ToSet(after))
  BY DEF IsLines
<1>2. /\ Len(before) <= Len(after)
      /\ SubSeq(before, 1, Len(before)) = SubSeq(after, 1, Len(before))
  BY DEF IsPrefix
<1>3. \A i \in 1..Len(before) :
          /\ SubSeq(before, 1, Len(before))[i] = before[i]
          /\ SubSeq(after, 1, Len(before))[i] = after[i]
  BY <1>1, <1>2
<1>4. QED
  BY <1>2, <1>3 DEF Keeps

\* The steps that leave the witness files alone.
LEMMA WitnessStands ==
    ASSUME [Next]_vars, ~CheckServerKey, ~CheckRealmKey, ~CrashWitnessing
    PROVE  witness' = witness /\ forgot' = forgot
<1>1. CASE Load \/ FromLayers \/ ResolveRealms
  BY <1>1 DEF Load, FromLayers, ApplyFile, ApplyEnvironment, ApplyCommandLine,
     ApplyLayer, ResolveRealms, diskVars, histVars
<1>2. CASE Provisioning
  BY <1>2 DEF Provisioning, Prepare, DrawSecret, GenerateSecret, SecretsDone,
     PrepareCertificates, Issue, diskVars, histVars
<1>3. CASE Serving
  BY <1>3 DEF Serving, Validate, AssembleRealms, Serve, diskVars, histVars
<1>4. CASE Dying
  BY <1>4 DEF Dying, Crash, CrashDrawing, GenerateSecret, CrashIssuing, diskVars, histVars
<1>5. CASE Between
  BY <1>5 DEF Between, Exit, Start, ReplaceSecret, ClearCertificates, diskVars, histVars
<1>6. CASE UNCHANGED vars
  BY <1>6 DEF vars
<1>7. QED
  BY <1>1, <1>2, <1>3, <1>4, <1>5, <1>6 DEF Next

\* The realm a start is at is one of the owners.
LEMMA RealmAt ==
    ASSUME ConfigOK, KeysOK, phase = "realm", at <= Len(config.realms)
    PROVE  /\ at \in 1..Len(config.realms) /\ Realm = config.realms[at]
           /\ Realm.name \in Owners /\ IsLines(witness[Realm.name])
<1>1. at \in 1..Len(config.realms)
  BY DEF KeysOK, Positive, ConfigOK
<1>2. config.realms[at].name \in RealmNames
  BY <1>1 DEF ConfigOK
<1>3. Realm.name \in Owners
  BY <1>2 DEF Realm, Owners
<1>4. QED
  BY <1>1, <1>3 DEF Realm, KeysOK

\* Witness files only grow, unless one is cut short, which is remembered.
LEMMA WitnessGrows ==
    ASSUME ConfigOK, KeysOK, [Next]_vars
    PROVE  /\ DOMAIN witness' = Owners
           /\ \A o \in Owners : IsLines(witness'[o])
           /\ ~forgot' => ~forgot /\ \A o \in Owners : Keeps(witness[o], witness'[o])
<1>1. /\ DOMAIN witness = Owners /\ Server \in Owners
      /\ \A o \in Owners : IsLines(witness[o]) /\ Keeps(witness[o], witness[o])
  <2>1. \A o \in Owners : IsLines(witness[o])
    BY DEF KeysOK
  <2>2. \A o \in Owners : Keeps(witness[o], witness[o])
    BY <2>1 DEF Keeps, IsLines
  <2>3. QED
    BY <2>1, <2>2 DEF KeysOK, Owners
<1>2. ASSUME NEW owner \in Owners, NEW left, IsLines(left),
             witness' = [witness EXCEPT ![owner] = left],
             ~forgot' => ~forgot /\ Keeps(witness[owner], left)
      PROVE  /\ DOMAIN witness' = Owners
             /\ \A o \in Owners : IsLines(witness'[o])
             /\ ~forgot' => ~forgot /\ \A o \in Owners : Keeps(witness[o], witness'[o])
  <2>1. \A o \in Owners : witness'[o] = IF o = owner THEN left ELSE witness[o]
    BY <1>1, <1>2
  <2>2. DOMAIN witness' = Owners
    BY <1>1, <1>2
  <2>3. \A o \in Owners : IsLines(witness'[o])
    BY <1>1, <1>2, <2>1
  <2>4. ~forgot' => ~forgot /\ \A o \in Owners : Keeps(witness[o], witness'[o])
    BY <1>1, <1>2, <2>1
  <2>5. QED
    BY <2>2, <2>3, <2>4
<1>3. ASSUME NEW owner \in Owners, NEW version, NEW key,
             CrashRecording(owner, version, key)
      PROVE  /\ DOMAIN witness' = Owners
             /\ \A o \in Owners : IsLines(witness'[o])
             /\ ~forgot' => ~forgot /\ \A o \in Owners : Keeps(witness[o], witness'[o])
  <2> DEFINE lines == Append(witness[owner], Line(version, key))
  <2>1. PICK left \in Beginnings(lines) :
            /\ witness' = [witness EXCEPT ![owner] = left]
            /\ forgot' = (forgot \/ ~IsPrefix(witness[owner], left))
    BY <1>3 DEF CrashRecording
  <2>2. IsLines(lines)
    BY <1>1, OneLineMore
  <2>3. IsLines(left)
    <3> HIDE DEF lines
    <3> QED BY <2>2, BeginningsAreLines
  <2>4. ~forgot' => ~forgot /\ IsPrefix(witness[owner], left)
    BY <2>1
  <2>5. ~forgot' => ~forgot /\ Keeps(witness[owner], left)
    BY <1>1, <2>3, <2>4, PrefixKeeps
  <2>6. QED
    BY <1>2, <2>1, <2>3, <2>5
<1>4. CASE CheckServerKey
  <2>1. forgot' = forgot
    BY <1>4 DEF CheckServerKey, histVars
  <2>2. \/ witness' = witness
        \/ /\ WitnessAgrees(Server, config.set.key_version, ServerKeyInUse)
           /\ witness' = [witness EXCEPT ![Server] =
                  Witnessed(Server, config.set.key_version, ServerKeyInUse)]
    BY <1>4 DEF CheckServerKey
  <2>3. CASE witness' = witness
    BY <1>1, <2>1, <2>3
  <2>4. CASE /\ WitnessAgrees(Server, config.set.key_version, ServerKeyInUse)
             /\ witness' = [witness EXCEPT ![Server] =
                  Witnessed(Server, config.set.key_version, ServerKeyInUse)]
    <3>1. /\ IsLines(Witnessed(Server, config.set.key_version, ServerKeyInUse))
          /\ Keeps(witness[Server],
                   Witnessed(Server, config.set.key_version, ServerKeyInUse))
      BY <1>1, <2>4, WitnessedKnows
    <3>2. QED
      BY <1>1, <1>2, <2>1, <2>4, <3>1
  <2>5. QED
    BY <2>2, <2>3, <2>4
<1>5. CASE CheckRealmKey
  <2> DEFINE key == keys[Realm.name]
  <2>1. forgot' = forgot /\ phase = "realm" /\ at <= Len(config.realms)
    BY <1>5 DEF CheckRealmKey, histVars
  <2>2. \/ witness' = witness
        \/ /\ WitnessAgrees(Realm.name, Realm.key_version, key)
           /\ witness' = [witness EXCEPT ![Realm.name] =
                  Witnessed(Realm.name, Realm.key_version, key)]
    BY <1>5 DEF CheckRealmKey
  <2>3. Realm.name \in Owners /\ IsLines(witness[Realm.name])
    BY <2>1, RealmAt
  <2>4. CASE witness' = witness
    BY <1>1, <2>1, <2>4
  <2>5. CASE /\ WitnessAgrees(Realm.name, Realm.key_version, key)
             /\ witness' = [witness EXCEPT ![Realm.name] =
                    Witnessed(Realm.name, Realm.key_version, key)]
    <3>1. /\ IsLines(Witnessed(Realm.name, Realm.key_version, key))
          /\ Keeps(witness[Realm.name], Witnessed(Realm.name, Realm.key_version, key))
      <4> HIDE DEF key
      <4> QED BY <2>3, <2>5, WitnessedKnows
    <3>2. QED
      BY <1>2, <2>1, <2>3, <2>5, <3>1
  <2>6. QED
    BY <2>2, <2>4, <2>5
<1>6. CASE CrashWitnessing
  <2>1. \/ CrashRecording(Server, config.set.key_version, ServerKeyInUse)
        \/ /\ phase = "realm" /\ at <= Len(config.realms)
           /\ CrashRecording(Realm.name, Realm.key_version, keys[Realm.name])
    BY <1>6 DEF CrashWitnessing
  <2>2. CASE CrashRecording(Server, config.set.key_version, ServerKeyInUse)
    BY <1>1, <1>3, <2>2
  <2>3. CASE /\ phase = "realm" /\ at <= Len(config.realms)
             /\ CrashRecording(Realm.name, Realm.key_version, keys[Realm.name])
    BY <1>3, <2>3, RealmAt
  <2>4. QED
    BY <2>1, <2>2, <2>3
<1>7. CASE ~CheckServerKey /\ ~CheckRealmKey /\ ~CrashWitnessing
  BY <1>1, <1>7, WitnessStands
<1>8. QED
  BY <1>4, <1>5, <1>6, <1>7

\* The steps that leave the keys alone, and where they lead.
LEMMA KeysStand ==
    ASSUME [Next]_vars, ~CheckServerKey, ~AssembleRealms, ~CheckRealmKey, ~Start
    PROVE  /\ keys' = keys
           /\ \/ phase' \in {"failed", "down", "serving"}
              \/ /\ phase \notin {"assemble", "realm", "serving", "down", "failed"}
                 /\ phase' \notin {"assemble", "realm", "serving", "down", "failed"}
              \/ /\ phase' = phase /\ config' = config /\ at' = at
                 /\ witness' = witness
<1>1. CASE Load \/ FromLayers \/ ResolveRealms
  BY <1>1 DEF Load, FromLayers, ApplyFile, ApplyEnvironment, ApplyCommandLine,
     ApplyLayer, ResolveRealms, To
<1>2. CASE Provisioning
  BY <1>2 DEF Provisioning, Prepare, DrawSecret, GenerateSecret, SecretsDone,
     PrepareCertificates, Issue, To
<1>3. CASE Serving
  BY <1>3 DEF Serving, Validate, Serve, To
<1>4. CASE Dying
  BY <1>4 DEF Dying, Crash, CrashDrawing, GenerateSecret, CrashIssuing, CrashWitnessing,
     CrashRecording, Die, To
<1>5. CASE Between
  BY <1>5 DEF Between, Exit, ReplaceSecret, ClearCertificates, To
<1>6. CASE UNCHANGED vars
  BY <1>6 DEF vars
<1>7. QED
  BY <1>1, <1>2, <1>3, <1>4, <1>5, <1>6 DEF Next

\* A key the start has compared is in the file it was compared with.
LEMMA KeysKept ==
    ASSUME ConfigOK, Judged, KeysOK, [Next]_vars
    PROVE  KeysOK'
<1>1. /\ DOMAIN witness' = Owners /\ \A o \in Owners : IsLines(witness'[o])
      /\ DOMAIN witness = Owners /\ DOMAIN keys = Owners
      /\ \A o \in Owners : IsLines(witness[o])
      /\ Server \in Owners /\ RealmNames \subseteq Owners
  BY WitnessGrows DEF KeysOK, Owners
<1>2. CASE CheckServerKey
  <2> DEFINE version == config.set.key_version
             key == ServerKeyInUse
  <2>1. /\ phase = "pseudonym" /\ config' = config
        /\ \/ phase' = "failed" /\ keys' = keys
           \/ /\ phase' = "assemble"
              /\ WitnessAgrees(Server, version, key)
              /\ keys' = [keys EXCEPT ![Server] = key]
              /\ witness' = [witness EXCEPT ![Server] = Witnessed(Server, version, key)]
    BY <1>2 DEF CheckServerKey, To
  <2>2. \A o \in Owners : keys[o] = Unset
    BY <2>1 DEF KeysOK
  <2>3. CASE phase' = "failed" /\ keys' = keys
    BY <1>1, <2>3 DEF KeysOK
  <2>4. CASE /\ phase' = "assemble"
             /\ WitnessAgrees(Server, version, key)
             /\ keys' = [keys EXCEPT ![Server] = key]
             /\ witness' = [witness EXCEPT ![Server] = Witnessed(Server, version, key)]
    <3> HIDE DEF key
    <3>1. key # Unset => FirstSeen(Witnessed(Server, version, key), version, key)
      BY <1>1, <2>4, WitnessedKnows
    <3>2. /\ keys'[Server] = key /\ witness'[Server] = Witnessed(Server, version, key)
          /\ DOMAIN keys' = Owners
      BY <1>1, <2>4
    <3>3. \A o \in RealmNames \ {Server} : keys'[o] = Unset
      BY <1>1, <2>2, <2>4
    <3>4. Known(Server, config.set.key_version)'
      BY <2>1, <3>1, <3>2 DEF Known, Server
    <3>5. QED
      BY <1>1, <2>4, <3>2, <3>3, <3>4 DEF KeysOK, Server
  <2>5. QED
    BY <2>1, <2>3, <2>4
<1>3. CASE AssembleRealms
  <2>1. /\ phase = "assemble" /\ config' = config /\ witness' = witness
        /\ \/ phase' = "failed" /\ keys' = keys
           \/ /\ phase' = "realm" /\ at' = 1
              /\ keys' = [o \in Owners |->
                             IF \E r \in Pseudonymising : r.name = o
                             THEN RealmKey(CHOOSE r \in Pseudonymising : r.name = o)
                             ELSE keys[o]]
    BY <1>3 DEF AssembleRealms, To, diskVars
  <2>2. CASE phase' = "failed" /\ keys' = keys
    BY <1>1, <2>2 DEF KeysOK
  <2>3. CASE /\ phase' = "realm" /\ at' = 1
             /\ keys' = [o \in Owners |->
                             IF \E r \in Pseudonymising : r.name = o
                             THEN RealmKey(CHOOSE r \in Pseudonymising : r.name = o)
                             ELSE keys[o]]
    <3>1. DOMAIN keys' = Owners
      BY <2>3
    <3>2. \A o \in Owners : (~\E r \in Pseudonymising : r.name = o) => keys'[o] = keys[o]
      BY <2>3
    <3>3. \A r \in Pseudonymising :
              \E i \in 1..Len(config.realms) : config.realms[i] = r
      BY DEF Pseudonymising, ToSet, ConfigOK
    <3>4. \A i \in 1..Len(config.realms) : config.realms[i].name # Server
      <4>1. RealmsHold(config)
        BY <2>1 DEF Judged
      <4>2. QED
        BY <4>1, RealmsJudged DEF RealmHolds, Shaped, Server
    <3>5. keys'[Server] = keys[Server]
      BY <1>1, <3>2, <3>3, <3>4
    <3>6. Known(Server, config.set.key_version)'
      BY <2>1, <3>5 DEF KeysOK, Known, Server
    <3>7. \A o \in RealmNames \ {Server} :
              keys'[o] # Unset =>
                  \E i \in 1..Len(config.realms) : config.realms[i].name = o
      <4>1. \A o \in RealmNames \ {Server} : keys[o] = Unset
        BY <2>1 DEF KeysOK
      <4>2. QED
        BY <1>1, <3>2, <3>3, <4>1
    <3>8. 1 \in Positive /\ \A i \in 1..Len(config.realms) : ~(i < 1)
      BY DEF Positive
    <3>9. QED
      BY <1>1, <2>1, <2>3, <3>1, <3>6, <3>7, <3>8 DEF KeysOK, Server
  <2>4. QED
    BY <2>1, <2>2, <2>3
<1>4. CASE CheckRealmKey
  <2> DEFINE owner == config.realms[at].name
             version == config.realms[at].key_version
             key == keys[owner]
  <2>1. /\ phase = "realm" /\ at <= Len(config.realms) /\ config' = config /\ keys' = keys
        /\ \/ phase' = "failed"
           \/ /\ phase' = "realm" /\ at' = at + 1 /\ forgot' = forgot
              /\ WitnessAgrees(owner, version, key)
              /\ witness' = [witness EXCEPT ![owner] = Witnessed(owner, version, key)]
    BY <1>4 DEF CheckRealmKey, To, Realm, histVars
  <2>2. CASE phase' = "failed"
    BY <1>1, <2>1, <2>2 DEF KeysOK
  <2>3. CASE /\ phase' = "realm" /\ at' = at + 1
             /\ WitnessAgrees(owner, version, key)
             /\ witness' = [witness EXCEPT ![owner] = Witnessed(owner, version, key)]
    <3>1. at \in 1..Len(config.realms) /\ owner \in Owners /\ at \in Positive
      BY <2>1, RealmAt DEF Realm, KeysOK
    <3>2. /\ Keeps(witness[owner], Witnessed(owner, version, key))
          /\ key # Unset => FirstSeen(Witnessed(owner, version, key), version, key)
      <4> HIDE DEF owner, version, key
      <4> QED BY <1>1, <2>3, <3>1, WitnessedKnows
    <3>3. witness'[owner] = Witnessed(owner, version, key)
      <4> HIDE DEF owner, version, key
      <4> QED BY <1>1, <2>3, <3>1
    <3>4. \A o \in Owners : Keeps(witness[o], witness'[o])
      <4> HIDE DEF owner, version, key
      <4>1. \A o \in Owners : o # owner => witness'[o] = witness[o]
        BY <1>1, <2>3, <3>1
      <4>2. \A o \in Owners : Keeps(witness[o], witness[o])
        BY <1>1 DEF Keeps, IsLines
      <4>3. QED
        BY <3>2, <3>3, <4>1, <4>2
    <3>5. ASSUME NEW o \in Owners, NEW v, Known(o, v)
          PROVE  keys[o] # Unset => FirstSeen(witness'[o], v, keys[o])
      BY <1>1, <3>4, <3>5, SeenIsKept DEF Known
    <3>6. keys[Server] # Unset => FirstSeen(witness'[Server], config.set.key_version, keys[Server])
      BY <1>1, <2>1, <3>5 DEF KeysOK
    <3>7. ASSUME NEW i \in 1..Len(config.realms), i < at + 1
          PROVE  LET o == config.realms[i].name
                     v == config.realms[i].key_version
                 IN  keys[o] # Unset => FirstSeen(witness'[o], v, keys[o])
      <4>1. CASE i < at
        <5>1. Known(config.realms[i].name, config.realms[i].key_version)
          BY <2>1, <4>1 DEF KeysOK
        <5>2. config.realms[i].name \in Owners
          BY <1>1 DEF ConfigOK
        <5>3. QED
          BY <3>5, <5>1, <5>2
      <4>2. CASE i = at
        BY <3>2, <3>3, <4>2
      <4>3. i < at \/ i = at
        BY <3>1, <3>7
      <4>4. QED
        BY <4>1, <4>2, <4>3
    <3>8. at + 1 \in Positive
      BY <3>1 DEF Positive
    <3>9. Known(Server, config.set.key_version)'
      BY <2>1, <3>6 DEF Known, Server
    <3>10. \A i \in 1..Len(config'.realms) :
               i < at' => Known(config.realms[i].name, config.realms[i].key_version)'
      BY <2>1, <2>3, <3>7 DEF Known
    <3>11. \A o \in RealmNames \ {Server} :
               keys'[o] # Unset =>
                   \E i \in 1..Len(config'.realms) : config'.realms[i].name = o
      BY <2>1 DEF KeysOK
    <3>12. QED
      BY <1>1, <2>1, <2>3, <3>8, <3>9, <3>10, <3>11 DEF KeysOK, Server
  <2>4. QED
    BY <2>1, <2>2, <2>3
<1>5. CASE Start
  <2>1. phase' = "load" /\ keys' = [o \in Owners |-> Unset]
    BY <1>5 DEF Start, To
  <2>2. QED
    BY <1>1, <2>1 DEF KeysOK
<1>6. CASE ~CheckServerKey /\ ~AssembleRealms /\ ~CheckRealmKey /\ ~Start
  <2>1. /\ keys' = keys
        /\ \/ phase' \in {"failed", "down", "serving"}
           \/ /\ phase \notin {"assemble", "realm", "serving", "down", "failed"}
              /\ phase' \notin {"assemble", "realm", "serving", "down", "failed"}
           \/ /\ phase' = phase /\ config' = config /\ at' = at
              /\ witness' = witness
    BY <1>6, KeysStand
  <2>2. CASE phase' \in {"failed", "down", "serving"}
    BY <1>1, <2>1, <2>2 DEF KeysOK
  <2>3. CASE /\ phase \notin {"assemble", "realm", "serving", "down", "failed"}
             /\ phase' \notin {"assemble", "realm", "serving", "down", "failed"}
    BY <1>1, <2>1, <2>3 DEF KeysOK
  <2>4. CASE /\ phase' = phase /\ config' = config /\ at' = at
             /\ witness' = witness
    BY <1>1, <2>1, <2>4 DEF KeysOK, Known
  <2>5. QED
    BY <2>1, <2>2, <2>3, <2>4
<1>7. QED
  BY <1>2, <1>3, <1>4, <1>5, <1>6

\* The version of a realm that is served.
LEMMA VersionIs ==
    ASSUME ConfigOK, RealmsHold(config), NEW i \in 1..Len(config.realms)
    PROVE  VersionOf(config.realms[i].name) = config.realms[i].key_version
<1> DEFINE r == config.realms[i]
<1>1. r.name # Server
  BY RealmsJudged DEF RealmHolds, Shaped, Server
<1>2. r \in ToSet(config.realms)
  BY DEF ToSet, ConfigOK
<1>3. \A x \in ToSet(config.realms) : x.name = r.name => x = r
  BY RealmsJudged DEF ToSet, ConfigOK
<1> HIDE DEF r
<1>4. (CHOOSE x \in ToSet(config.realms) : x.name = r.name) = r
  BY <1>2, <1>3
<1>5. VersionOf(r.name) = r.key_version
  BY <1>1, <1>4, Zenon DEF VersionOf
<1>6. QED
  BY <1>5 DEF r

\* What records are written under is in the files, as long as none is cut short.
LEMMA ServedKept ==
    ASSUME ConfigOK, Judged, KeysOK, ServedOK, [Next]_vars
    PROVE  ServedOK'
<1> SUFFICES ASSUME ~forgot', NEW x \in served'
             PROVE  x.owner \in Owners /\ FirstSeen(witness'[x.owner], x.version, x.key)
  BY DEF ServedOK
<1>1. /\ ~forgot
      /\ \A o \in Owners : IsLines(witness'[o]) /\ Keeps(witness[o], witness'[o])
      /\ \A o \in Owners : IsLines(witness[o])
  BY WitnessGrows DEF KeysOK
<1>2. CASE x \in served
  <2>1. x.owner \in Owners /\ FirstSeen(witness[x.owner], x.version, x.key)
    BY <1>1, <1>2 DEF ServedOK
  <2>2. QED
    BY <1>1, <2>1, SeenIsKept
<1>3. CASE x \notin served
  <2>1. Serve
    <3>1. served' # served
      BY <1>3
    <3>2. ~Load /\ ~FromLayers /\ ~ResolveRealms
      BY <3>1 DEF Load, FromLayers, ApplyFile, ApplyEnvironment, ApplyCommandLine,
         ApplyLayer, ResolveRealms, histVars
    <3>3. ~Provisioning
      BY <3>1 DEF Provisioning, Prepare, DrawSecret, GenerateSecret, SecretsDone,
         PrepareCertificates, Issue, histVars
    <3>4. Serving => Serve
      BY <3>1 DEF Serving, Validate, CheckServerKey, AssembleRealms, CheckRealmKey, histVars
    <3>5. ~Dying
      BY <3>1 DEF Dying, Crash, CrashDrawing, GenerateSecret, CrashIssuing,
         CrashWitnessing, CrashRecording, histVars
    <3>6. ~Between
      BY <3>1 DEF Between, Exit, Start, ReplaceSecret, ClearCertificates, histVars
    <3>7. QED
      BY <3>1, <3>2, <3>3, <3>4, <3>5, <3>6 DEF Next, vars
  <2>2. PICK o \in Owners :
            keys[o] # Unset /\ x = [owner |-> o, version |-> VersionOf(o), key |-> keys[o]]
    BY <1>3, <2>1 DEF Serve
  <2>3. phase = "realm" /\ at > Len(config.realms) /\ witness' = witness
    BY <2>1 DEF Serve, diskVars
  <2>4. FirstSeen(witness[o], VersionOf(o), keys[o])
    <3>1. CASE o = Server
      <4>1. VersionOf(o) = config.set.key_version
        BY <3>1 DEF VersionOf
      <4>2. QED
        BY <2>2, <2>3, <3>1, <4>1 DEF KeysOK, Known
    <3>2. CASE o # Server
      <4>1. o \in RealmNames \ {Server}
        BY <3>2 DEF Owners
      <4>2. PICK i \in 1..Len(config.realms) : config.realms[i].name = o
        BY <2>2, <2>3, <4>1 DEF KeysOK
      <4>3. i < at
        BY <2>3 DEF KeysOK, ConfigOK, Positive
      <4>4. Known(o, config.realms[i].key_version)
        BY <2>3, <4>2, <4>3 DEF KeysOK
      <4>5. VersionOf(o) = config.realms[i].key_version
        BY <2>3, <4>2, VersionIs DEF Judged
      <4>6. QED
        BY <2>2, <4>4, <4>5 DEF Known
    <3>3. QED
      BY <3>1, <3>2
  <2>5. x.owner = o /\ x.version = VersionOf(o) /\ x.key = keys[o]
    BY <2>2
  <2>6. QED
    BY <2>3, <2>4, <2>5
<1>4. QED
  BY <1>2, <1>3

----------------------------------------------------------------------------
(* What holds of every start *)

\* The volume as the operator left it, and nothing recorded yet.
LEMMA StartupInitially ==
    ASSUME Init
    PROVE  StartupInv
<1>1. Layered
  BY DEF Init, Layered, LayersRead
<1>2. ConfigOK
  <2>1. /\ DOMAIN config = {"set", "tls", "stated", "realms", "extra"}
        /\ config.set = Defaults /\ config.realms = <<>>
    BY InitialShape DEF Init
  <2>2. QED
    BY <2>1 DEF Init, ConfigOK
<1>3. Judged /\ IssueOK /\ Provided
  BY DEF Init, Judged, IssueOK, Provided
<1>4. VolumeOK
  <2>1. PICK placed \in Placed :
            tls = [f \in TlsFile |-> IF f \in placed THEN Made(-1) ELSE Missing]
    BY DEF Init
  <2>2. DOMAIN tls = TlsFile /\ authorities \in Nat
    BY <2>1 DEF Init
  <2>3. Made(-1) # Missing /\ Made(-1).by = -1 /\ Made(-1).whole = TRUE
    <3>1. Made(-1).by = -1 /\ Made(-1).whole = TRUE
      BY DEF Made
    <3>2. Missing.by = 0
      BY DEF Missing
    <3>3. QED
      BY <3>1, <3>2
  <2>4. \A f \in TlsFile : /\ There(f) <=> f \in placed
                           /\ There(f) => tls[f] = Made(-1)
    BY <2>1, <2>3 DEF There
  <2>5. There("server.key") =>
            /\ There("server.pem")
            /\ tls["server.key"].by = tls["server.pem"].by
            /\ There("ca.pem") => tls["ca.pem"].by = tls["server.pem"].by
    BY <2>4, StartupAssumption, IssuedIs
  <2>6. /\ There("server.pem") => tls["server.pem"].whole
        /\ There("server.key") => tls["server.key"].whole
    BY <2>3, <2>4, IssuedIs
  <2>7. QED
    BY <2>2, <2>5, <2>6 DEF VolumeOK
<1>5. KeysOK
  <2>1. <<>> \in Seq(ToSet(<<>>))
    OBVIOUS
  <2>2. QED
    BY <2>1 DEF Init, KeysOK, IsLines
<1>6. ServedOK
  BY DEF Init, ServedOK
<1>7. QED
  BY <1>1, <1>2, <1>3, <1>4, <1>5, <1>6 DEF StartupInv

\* Every step of a start, every death and everything an operator does between two
\* starts keeps the invariant.
LEMMA StartupSteps ==
    ASSUME StartupInv, [Next]_vars
    PROVE  StartupInv'
<1>1. Layered' /\ ConfigOK' /\ Judged'
  BY LayersKept, ConfigKept, JudgedKept DEF StartupInv
<1>2. VolumeOK' /\ IssueOK' /\ Provided'
  BY VolumeKept, IssuingKept, ProvidedKept DEF StartupInv
<1>3. KeysOK' /\ ServedOK'
  BY KeysKept, ServedKept DEF StartupInv
<1>4. QED
  BY <1>1, <1>2, <1>3 DEF StartupInv

\* The inductive invariant of App::config_for and App::serve, over every
\* deployment, start and death.
THEOREM StartupInvariance == Spec => []StartupInv
<1>1. Init => StartupInv
  BY StartupInitially
<1>2. StartupInv /\ [Next]_vars => StartupInv'
  BY StartupSteps
<1>3. QED
  BY <1>1, <1>2, PTL DEF Spec

\* For every configuration file, environment and command line: outside the TLS
\* blocks, a value nobody can read stops the start and every setting is what the
\* last layer that supplies it says; a surface's TLS block is, as a whole, the one
\* of the last layer that names its certificate and key (Config::from_layers,
\* tls_of).
THEOREM LastLayerDecides == Spec => []LayersDecide
<1>1. StartupInv => LayersDecide
  BY LayersHaveTheirSay DEF StartupInv
<1>2. QED
  BY <1>1, StartupInvariance, PTL

\* Over any number of starts, deaths and replaced secrets: unless a death cut a
\* witness file short, a version names one key (witness::check_at).
THEOREM VersionsNameOneKey == Spec => []VersionNamesOneKey
<1>1. StartupInv => VersionNamesOneKey
  BY DEF StartupInv, ServedOK, VersionNamesOneKey, FirstSeen
<1>2. QED
  BY <1>1, StartupInvariance, PTL

\* Wherever a start dies while it makes certificates: what a later one serves with
\* belongs together, and is whole where it may generate (prepare_certificates).
THEOREM StartedMaterialVerifies == Spec => []MaterialVerifies
<1>1. StartupInv => MaterialVerifies
  BY MaterialBelongs DEF StartupInv
<1>2. QED
  BY <1>1, StartupInvariance, PTL
=============================================================================
