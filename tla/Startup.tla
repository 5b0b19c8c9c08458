------------------------------ MODULE Startup ------------------------------
(***************************************************************************)
(* From the command line to a server that serves, again and again on one   *)
(* volume: App::config_for and App::serve (pic-x-server), the provisioner  *)
(* (pic-x-std/src/provision.rs), the secret stores, the assembly of a      *)
(* realm (src/main.rs) and the witness of pseudonymisation keys.           *)
(*                                                                         *)
(* A start reads its configuration, creates what is missing if it may,     *)
(* validates, resolves the secrets and compares them with what earlier     *)
(* starts recorded.  Between starts the operator changes the deployment,   *)
(* replaces a secret or clears half-made certificates.  The process may    *)
(* die at any step, and in the middle of a write.                          *)
(*                                                                         *)
(* What serving does is ServerHost's.  Failures of the filesystem other    *)
(* than a death are left out: every one of them ends the start.            *)
(***************************************************************************)
EXTENDS Configuration

CONSTANTS
    Deployments,    \* the ways a first start may be configured
    Operated,       \* the ones an operator moves between, from start to start
    Placed,         \* sets of files an operator may have put under tls/
    OwnFiles,       \* transport material an operator keeps outside tls/
    RealmNames,     \* the names realms are given
    MaxStarts,      \* bound: how often the process is started
    MaxCrashes,     \* bound: how often it dies
    MaxReplaced     \* bound: how often the operator replaces a secret

ASSUME StartupAssumption ==
    /\ Operated \subseteq Deployments
    /\ \A d \in Deployments :
           LET declared == DeclaredRealms(d.file) IN
           /\ declared \in Seq(ToSet(declared))
           /\ \A in \in ToSet(declared) : in.name \in RealmNames
    /\ \A placed \in Placed : "server.key" \in placed => "server.pem" \in placed
    /\ (OwnFiles \cup {Unset}) \cap {"ca.pem", "server.pem", "server.key"} = {}
    /\ MaxStarts \in Nat /\ MaxCrashes \in Nat /\ MaxReplaced \in Nat

VARIABLES
    deployment,     \* what this start is given
    phase,          \* how far the start is
    config,         \* Config, as far as it is assembled
    at,             \* how far the loop of the phase is
    tls,            \* <volume>/tls: what each file holds
    secret,         \* secret files by directory and reference
    witness,        \* the recorded versions: the server's and each realm's
    keys,           \* the pseudonymisation key each owner resolved
    authorities,    \* how many authorities were ever made
    drawn,          \* how many secrets were ever made
    served,         \* history: the versions and keys records were written under
    forgot,         \* history: a witness file was cut short
    starts, crashes, replaced

diskVars == <<tls, secret, witness>>
countVars == <<authorities, drawn, starts, crashes, replaced>>
histVars == <<served, forgot>>
vars == <<deployment, phase, config, at, tls, secret, witness, keys,
          authorities, drawn, served, forgot, starts, crashes, replaced>>

----------------------------------------------------------------------------
(* The volume *)

\* The order in which `issue` writes.
Issued == <<"ca.pem", "ca.key", "server.pem", "server.key", "client.pem",
            "client.key", "ca.crl">>
TlsFile == ToSet(Issued)
TlsPairs == {<<"ca.pem", "ca.key">>, <<"server.pem", "server.key">>,
             <<"client.pem", "client.key">>}

\* A file under tls/ holds what an authority issued; authority -1 is the
\* operator's and 0 says there is no file.
Missing == [by |-> 0, whole |-> FALSE]
Made(n) == [by |-> n, whole |-> TRUE]
Cut(c)  == [c EXCEPT !.whole = FALSE]

There(f) == tls[f] # Missing
Files == {f \in TlsFile : There(f)} \cup OwnFiles

\* How many pairs prepare_certificates finds.
Pairs == {p \in TlsPairs : There(p[1]) /\ There(p[2])}

\* A generated secret is 64 characters; a write cut short leaves fewer.
Lengths == {0, 20, 64}
WholeLength == 64
MinimumKeyLength == 16
NewSecret(n, length) == [id |-> n, length |-> length]

Server == <<>>
Owners == {Server} \cup RealmNames

\* A line of a witness file: a version and what its key makes of a constant.
\* A line cut before its tab is not read, and one cut behind it names a value
\* no key produces.
Line(version, key) == [version |-> version, key |-> key]
Scrap == Line(Unset, Unset)
Torn(version) == Line(version, Empty)

----------------------------------------------------------------------------
(* Secrets *)

\* path_of: a reference that would leave the directory resolves to nothing.
SafeReference(ref) == ref # <<>> /\ ".." \notin ToSet(ref)

ResolvedFrom(provider, directory, prefix, ref) ==
    CASE provider = "directory" ->
             IF SafeReference(ref) /\ <<directory, ref>> \in DOMAIN secret
             THEN secret[<<directory, ref>>] ELSE Unset
      [] provider = "environment" ->
             \* variable_of joins the words of the prefix and the reference.
             IF prefix \o ref \in DOMAIN deployment.vars
             THEN deployment.vars[prefix \o ref] ELSE Unset
      [] OTHER -> Unset

\* pseudonymizer_for
ServerKey == ResolvedFrom(config.set.secrets_provider, SecretsDirectory(config),
                          config.set.secrets_env_prefix, config.set.key_ref)

\* build_realm: there is no least length here.
RealmKey(r) == ResolvedFrom(r.provider, RealmSecretsDirectory(r.name),
                            r.env_prefix, r.key_ref)

\* prepare_secrets: the server's key whatever its provider, and the key of each
\* realm that resolves it from its own directory.
SecretsWanted ==
    (IF config.set.pseudonym_enabled /\ config.set.key_ref # Unset
     THEN {<<SecretsDirectory(config), config.set.key_ref>>} ELSE {})
    \cup
    {<<RealmSecretsDirectory(r.name), r.key_ref>> :
        r \in {x \in ToSet(config.realms) :
                  x.pseudonym_enabled /\ x.provider = "directory" /\ x.key_ref # Unset}}

----------------------------------------------------------------------------

Init ==
    /\ deployment \in Deployments
    /\ phase = "load"
    /\ config = InitialConfig
    /\ at = 1
    /\ tls \in {[f \in TlsFile |-> IF f \in placed THEN Made(-1) ELSE Missing] :
                    placed \in Placed}
    /\ secret = [x \in {} |-> Unset]
    /\ witness = [o \in Owners |-> <<>>]
    /\ keys = [o \in Owners |-> Unset]
    /\ authorities = 0 /\ drawn = 0
    /\ served = {} /\ forgot = FALSE
    /\ starts = 1 /\ crashes = 0 /\ replaced = 0

To(p) == phase' = p /\ at' = 1

----------------------------------------------------------------------------
(* config_for *)

Serves == deployment.command = "serve"

\* Only a start that serves reads a file.  A section the build's own reader
\* refuses ends the start here.
Load ==
    /\ phase = "load"
    /\ IF ~Serves THEN To("environment")
       ELSE IF FileLoads(deployment.file) /\ deployment.file.broken # "reader"
            THEN To("file") ELSE To("failed")
    /\ UNCHANGED <<deployment, config, diskVars, keys, histVars, countVars>>

ApplyLayer(now, layer, next) ==
    /\ phase = now
    /\ IF LayerReads(layer)
       THEN config' = ApplyPairs(config, layer) /\ To(next)
       ELSE UNCHANGED config /\ To("failed")
    /\ UNCHANGED <<deployment, diskVars, keys, histVars, countVars>>

ApplyFile        == ApplyLayer("file", deployment.file.layer, "environment")
ApplyEnvironment == ApplyLayer("environment", deployment.environment, "flags")
ApplyCommandLine ==
    ApplyLayer("flags", deployment.flags, IF Serves THEN "realms" ELSE "answered")

\* Mutant: the file has the last word over the environment.
FileLast ==
    \/ ApplyLayer("file", deployment.environment, "environment")
    \/ ApplyLayer("environment", deployment.file.layer, "flags")
    \/ ApplyCommandLine

\* from_layers
FromLayers == ApplyFile \/ ApplyEnvironment \/ ApplyCommandLine

\* with_realms, then the sections the build parses itself.
ResolveRealms ==
    LET inputs == DeclaredRealms(deployment.file) IN
    /\ phase = "realms"
    /\ IF /\ \A in \in ToSet(inputs) : RealmReads(in)
          /\ deployment.file.broken # "parser"
       THEN config' = WithRealms(config, inputs) /\ To("prepare")
       ELSE UNCHANGED config /\ To("failed")
    /\ UNCHANGED <<deployment, diskVars, keys, histVars, countVars>>

----------------------------------------------------------------------------
(* prepare: the volume is made ready before the configuration is validated *)

\* The directories are made whatever the configuration says.
Prepare ==
    /\ phase = "prepare"
    /\ To(IF config.set.autogenerate THEN "secrets" ELSE "validate")
    /\ UNCHANGED <<deployment, config, diskVars, keys, histVars, countVars>>

\* generate_secret never replaces a file.
GenerateSecret(length) ==
    /\ phase = "secrets"
    /\ \E x \in SecretsWanted \ DOMAIN secret :
           secret' = [y \in DOMAIN secret \cup {x} |->
                         IF y = x THEN NewSecret(drawn + 1, length) ELSE secret[y]]
    /\ drawn' = drawn + 1
    /\ UNCHANGED <<deployment, config, tls, witness, keys, authorities, served,
                   forgot, starts, replaced>>

DrawSecret == GenerateSecret(WholeLength) /\ UNCHANGED <<phase, at, crashes>>

SecretsDone ==
    /\ phase = "secrets"
    /\ SecretsWanted \subseteq DOMAIN secret
    /\ To("certificates")
    /\ UNCHANGED <<deployment, config, diskVars, keys, histVars, countVars>>

\* Mutant: an incomplete set is issued anew, around what is there.
CompleteCertificates ==
    /\ phase = "certificates"
    /\ IF Pairs = TlsPairs \/ \A f \in Surface : config.tls[f] = NoTls
       THEN To("validate") /\ UNCHANGED authorities
       ELSE To("issue") /\ authorities' = authorities + 1
    /\ UNCHANGED <<deployment, config, diskVars, keys, histVars, drawn, starts,
                   crashes, replaced>>

\* prepare_certificates: all three pairs or none; some is an error.
PrepareCertificates ==
    /\ phase = "certificates"
    /\ IF Pairs = TlsPairs \/ \A f \in Surface : config.tls[f] = NoTls
       THEN To("validate") /\ UNCHANGED authorities
       ELSE IF Pairs # {}
       THEN To("failed") /\ UNCHANGED authorities
       ELSE To("issue") /\ authorities' = authorities + 1
    /\ UNCHANGED <<deployment, config, diskVars, keys, histVars, drawn, starts,
                   crashes, replaced>>

\* issue writes one file after the other.
Issue ==
    /\ phase = "issue"
    /\ tls' = [tls EXCEPT ![Issued[at]] = Made(authorities)]
    /\ IF at = Len(Issued) THEN To("validate") ELSE phase' = phase /\ at' = at + 1
    /\ UNCHANGED <<deployment, config, secret, witness, keys, histVars, countVars>>

----------------------------------------------------------------------------
(* serve *)

Validate ==
    /\ phase = "validate"
    /\ To(IF Valid(config, Files) THEN "pseudonym" ELSE "failed")
    /\ UNCHANGED <<deployment, config, diskVars, keys, histVars, countVars>>

\* What the file of an owner says of a version; a line without a version is
\* not read, and the first of several is the one that counts: its place, or zero.
Recorded(owner, version) ==
    SelectInSeq(witness[owner], LAMBDA line : line.version = version)

\* Mutant: a version that was seen before is good.
VersionIsKnown(owner, version, key) == TRUE

\* check_at: a version keeps the key it was first seen with ...
WitnessAgrees(owner, version, key) ==
    \/ key = Unset
    \/ Recorded(owner, version) = 0
    \/ witness[owner][Recorded(owner, version)].key = key

\* ... and a new one is appended.
IsNew(owner, version, key) == key # Unset /\ Recorded(owner, version) = 0

Witnessed(owner, version, key) ==
    IF IsNew(owner, version, key)
    THEN Append(witness[owner], Line(version, key)) ELSE witness[owner]

\* The server's key is resolved and held to the least length ...
ServerKeyHolds ==
    config.set.pseudonym_enabled =>
        ServerKey # Unset /\ ServerKey.length >= MinimumKeyLength

ServerKeyInUse == IF config.set.pseudonym_enabled THEN ServerKey ELSE Unset

\* ... and compared with its witness.
CheckServerKey ==
    LET version == config.set.key_version IN
    /\ phase = "pseudonym"
    /\ IF ServerKeyHolds /\ WitnessAgrees(Server, version, ServerKeyInUse)
       THEN /\ keys' = [keys EXCEPT ![Server] = ServerKeyInUse]
            /\ witness' = [witness EXCEPT
                              ![Server] = Witnessed(Server, version, ServerKeyInUse)]
            /\ To("assemble")
       ELSE To("failed") /\ UNCHANGED <<witness, keys>>
    /\ UNCHANGED <<deployment, config, tls, secret, histVars, countVars>>

Pseudonymising == {r \in ToSet(config.realms) : r.pseudonym_enabled}

\* realms_for: every realm is assembled before any is checked.
AssembleRealms ==
    /\ phase = "assemble"
    /\ IF \E r \in Pseudonymising : RealmKey(r) = Unset
       THEN To("failed") /\ UNCHANGED keys
       ELSE /\ keys' = [o \in Owners |->
                           IF \E r \in Pseudonymising : r.name = o
                           THEN RealmKey(CHOOSE r \in Pseudonymising : r.name = o)
                           ELSE keys[o]]
            /\ To("realm")
    /\ UNCHANGED <<deployment, config, diskVars, histVars, countVars>>

Realm == config.realms[at]

\* check_realm, realm by realm, each against its own witness.
CheckRealmKey ==
    /\ phase = "realm"
    /\ at <= Len(config.realms)
    /\ LET key == keys[Realm.name] IN
       IF WitnessAgrees(Realm.name, Realm.key_version, key)
       THEN /\ witness' = [witness EXCEPT
                  ![Realm.name] = Witnessed(Realm.name, Realm.key_version, key)]
            /\ at' = at + 1 /\ phase' = phase
       ELSE To("failed") /\ UNCHANGED witness
    /\ UNCHANGED <<deployment, config, tls, secret, keys, histVars, countVars>>

VersionOf(owner) ==
    IF owner = Server THEN config.set.key_version
    ELSE (CHOOSE r \in ToSet(config.realms) : r.name = owner).key_version

\* server.run: from here on records are written under these keys.
Serve ==
    /\ phase = "realm"
    /\ at > Len(config.realms)
    /\ To("serving")
    /\ served' = served \cup
           {[owner |-> o, version |-> VersionOf(o), key |-> keys[o]] :
                o \in {x \in Owners : keys[x] # Unset}}
    /\ UNCHANGED <<deployment, config, diskVars, keys, forgot, countVars>>

----------------------------------------------------------------------------
(* Deaths, and what happens between two starts *)

Running == phase \notin {"down", "failed", "answered"}

Die ==
    /\ crashes < MaxCrashes
    /\ crashes' = crashes + 1
    /\ To("down")

Crash ==
    /\ Running
    /\ Die
    /\ UNCHANGED <<deployment, config, diskVars, keys, authorities, drawn,
                   histVars, starts, replaced>>

\* fs::write empties the file and then writes: a death in between leaves some
\* of it.
CrashDrawing ==
    /\ \E length \in Lengths \ {WholeLength} : GenerateSecret(length)
    /\ Die

CrashIssuing ==
    /\ phase = "issue"
    /\ tls' = [tls EXCEPT ![Issued[at]] = Cut(Made(authorities))]
    /\ Die
    /\ UNCHANGED <<deployment, config, secret, witness, keys, authorities, drawn,
                   histVars, starts, replaced>>

\* What is left of a witness file whose rewriting is cut short.
Beginnings(lines) ==
    UNION {{SubSeq(lines, 1, n)} \cup
           {Append(SubSeq(lines, 1, n), rest) :
               rest \in {Scrap, Torn(lines[n + 1].version)}} :
               n \in 0..(Len(lines) - 1)}

CrashRecording(owner, version, key) ==
    /\ IsNew(owner, version, key)
    /\ \E left \in Beginnings(Append(witness[owner], Line(version, key))) :
           /\ witness' = [witness EXCEPT ![owner] = left]
           /\ forgot' = (forgot \/ ~IsPrefix(witness[owner], left))
    /\ Die
    /\ UNCHANGED <<deployment, config, tls, secret, keys, authorities, drawn,
                   served, starts, replaced>>

CrashWitnessing ==
    \/ /\ phase = "pseudonym" /\ ServerKeyHolds
       /\ CrashRecording(Server, config.set.key_version, ServerKeyInUse)
    \/ /\ phase = "realm" /\ at <= Len(config.realms)
       /\ CrashRecording(Realm.name, Realm.key_version, keys[Realm.name])

\* The process ends: it was refused, it answered a command, or it was stopped.
Exit ==
    /\ phase \in {"failed", "answered", "serving"}
    /\ To("down")
    /\ UNCHANGED <<deployment, config, diskVars, keys, histVars, countVars>>

Start ==
    /\ phase = "down"
    /\ starts < MaxStarts
    /\ deployment \in Operated
    /\ deployment' \in Operated
    /\ To("load")
    /\ config' = InitialConfig
    /\ keys' = [o \in Owners |-> Unset]
    /\ starts' = starts + 1
    /\ UNCHANGED <<diskVars, histVars, authorities, drawn, crashes, replaced>>

\* The operator puts another key where a secret is.
ReplaceSecret ==
    /\ phase = "down"
    /\ replaced < MaxReplaced
    /\ \E x \in DOMAIN secret :
           secret' = [secret EXCEPT ![x] = NewSecret(drawn + 1, WholeLength)]
    /\ drawn' = drawn + 1
    /\ replaced' = replaced + 1
    /\ UNCHANGED <<deployment, phase, config, at, tls, witness, keys, histVars,
                   authorities, starts, crashes>>

\* The operator removes an incomplete set of certificates, as the error asks.
ClearCertificates ==
    /\ phase = "down"
    /\ Pairs # {} /\ Pairs # TlsPairs
    /\ tls' = [f \in TlsFile |-> Missing]
    /\ UNCHANGED <<deployment, phase, config, at, secret, witness, keys, histVars,
                   countVars>>

----------------------------------------------------------------------------

Provisioning == Prepare \/ DrawSecret \/ SecretsDone \/ PrepareCertificates \/ Issue
Serving == Validate \/ CheckServerKey \/ AssembleRealms \/ CheckRealmKey \/ Serve
Dying == Crash \/ CrashDrawing \/ CrashIssuing \/ CrashWitnessing
Between == Exit \/ Start \/ ReplaceSecret \/ ClearCertificates

Next == Load \/ FromLayers \/ ResolveRealms \/ Provisioning \/ Serving \/ Dying \/ Between

Spec == Init /\ [][Next]_vars

----------------------------------------------------------------------------
(* What is checked *)

Phases == {"load", "file", "environment", "flags", "realms", "prepare",
           "secrets", "certificates", "issue", "validate", "pseudonym",
           "assemble", "realm", "serving", "answered", "failed", "down"}

\* The layers a start reads, each overwriting the ones before it.
Layers ==
    (IF Serves THEN <<deployment.file.layer>> ELSE <<>>)
        \o <<deployment.environment, deployment.flags>>

LastOf(n) == CHOOSE i \in n : \A j \in n : j <= i

\* What the last layer that supplies a setting says, or its default.
LastWord(s) ==
    LET by == {i \in DOMAIN Layers : s \in Supplied(Layers[i].plain)} IN
    IF by = {} THEN Defaults[s] ELSE ValueOf(s, Layers[LastOf(by)].plain[s])

LayersRead == phase \in Phases \ {"load", "file", "environment", "flags",
                                  "failed", "down"}

\* What the last layer that names a surface's certificate and its key says of the
\* surface, all of it.
LastBlock(f) ==
    LET by == {i \in DOMAIN Layers : NamesBoth(Layers[i].tls[f])} IN
    IF by = {} THEN NoTls ELSE TlsOf(f, Layers[LastOf(by)].tls[f], NoTls)

\* Whatever the layers hold (Config::from_layers, apply_pairs): outside the TLS
\* blocks a value nobody can read stops the start, an empty one counts for
\* nothing, and every setting is what the last layer that supplies it says.  A
\* TLS block is one value: all of it is from the last layer that names the
\* certificate and its key.
LayersDecide ==
    LayersRead =>
        /\ \A s \in Setting :
               /\ \A i \in DOMAIN Layers :
                      s \in Supplied(Layers[i].plain) => Reads(s, Layers[i].plain[s])
               /\ config.set[s] = LastWord(s)
        /\ \A f \in Surface : config.tls[f] = LastBlock(f)

\* However often the process is started, killed and given another key: unless a
\* death cut a witness file short, no records are ever written by one owner under
\* one version and two keys (witness::check_at).
VersionNamesOneKey ==
    ~forgot =>
        \A a, b \in served : a.owner = b.owner /\ a.version = b.version => a.key = b.key

\* However the process dies while it makes certificates: a server that starts on
\* the generated pair has the key its certificate was made with, and the authority it
\* is served with is the one that signed it.  One that may generate has all of
\* both; one that may not only looks whether the files are there, and a key cut
\* short by a death is found out when the listener loads it
\* (prepare_certificates, TlsSettings::validate_in).
MaterialVerifies ==
    phase = "serving" =>
        \A f \in Surface :
            config.tls[f].certificate = "server.pem" /\ config.tls[f].key = "server.key" =>
                /\ config.set.autogenerate =>
                       tls["server.pem"].whole /\ tls["server.key"].whole
                /\ tls["server.key"].by = tls["server.pem"].by
                /\ config.tls[f].client_ca = "ca.pem" =>
                       tls["ca.pem"].by = tls["server.pem"].by

----------------------------------------------------------------------------
(* What the code says of itself and does not do *)

\* "generating missing material is only offered in development": an authority is
\* made only by a deployment that says it is one (validate_development).  The
\* volume is prepared before the configuration is validated.
GeneratesOnlyInDevelopment == phase = "issue" => Development(config)
=============================================================================
