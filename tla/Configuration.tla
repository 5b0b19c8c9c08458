--------------------------- MODULE Configuration ---------------------------
(***************************************************************************)
(* How a deployment is described, read and judged: Config, ConfigFile and  *)
(* RealmInput of pic-x-core, and the settings they hold.                   *)
(*                                                                         *)
(* A configuration is assembled from typed defaults, the configuration     *)
(* file, the environment and the command line, each overwriting the ones   *)
(* before it.  Realms come from the file alone and are resolved against    *)
(* the result, and `validate` judges the whole.                            *)
(*                                                                         *)
(* A setting is a name and its text is abstracted by kind: a duration or   *)
(* size is an amount and a unit, an address is its host, a URL is a        *)
(* record, a name made of words joined with hyphens is the sequence of     *)
(* its words.  This module only has operators; Startup runs them.          *)
(***************************************************************************)
EXTENDS Integers, Sequences, FiniteSets, SequencesExt, TLC

CONSTANTS
    Unset,          \* an Option that is None
    Empty,          \* the text of a setting that was set to nothing
    Declared,       \* the extra setting keys the build understands
    Claimed,        \* the extra sections the build understands
    Words,          \* runs of lower-case letters and digits: parts of a name
    MaxNumber       \* bound: stands for u64::MAX, and for u32::MAX in counts

ASSUME ConfigurationAssumption ==
    /\ MaxNumber \in Nat
    /\ Unset # Empty

----------------------------------------------------------------------------
(* Settings, by the way their text is read *)

BoolSettings ==
    {"autogenerate", "development_mode", "disclose_build", "tls_reload",
     "pseudonym_enabled", "keys_enabled"}

DurationSettings ==
    {"reload_interval", "write_stall_timeout", "request_timeout",
     "handshake_timeout", "header_timeout", "shutdown_timeout",
     "audit_retention", "publish_ahead", "rotate_every", "retain",
     "maintenance_interval"}

SizeSettings  == {"body_bytes", "header_bytes"}
CountSettings == {"connections", "concurrent_requests"}
NameSettings  == {"log_level", "log_format", "secrets_provider", "audit_sink"}
ListSettings  == {"admin_allow", "peer_exempt"}
AddressSettings == {"public_addr", "telemetry_addr", "admin_addr"}

TextSettings ==
    AddressSettings \cup
    {"version", "copyright_year", "copyright_holder", "working_dir",
     "secrets_directory", "secrets_env_prefix", "key_ref", "key_version",
     "audit_directory", "keys_directory"}

Setting ==
    BoolSettings \cup DurationSettings \cup SizeSettings \cup CountSettings
        \cup NameSettings \cup ListSettings \cup TextSettings
        \cup {"connections_per_peer", "connection_lifetime", "issuer",
              "path_prefix"}

\* The settings an enabled ring has to state.
Lifecycle == {"publish_ahead", "rotate_every", "retain"}

Surface == {"public", "admin", "telemetry"}

\* What a surface's TLS block reads besides the certificate and its key.
TlsParts ==
    [public    |-> {"client_ca", "crl", "allow", "min_version"},
     admin     |-> {"client_ca", "crl", "min_version"},
     telemetry |-> {"min_version"}]

----------------------------------------------------------------------------
(* Reading a text as its type *)

Truth == "true" :> TRUE @@ "yes" :> TRUE @@ "on" :> TRUE @@ "1" :> TRUE
      @@ "false" :> FALSE @@ "no" :> FALSE @@ "off" :> FALSE @@ "0" :> FALSE

\* The spellings of a name.  An empty text can only come from a realm: a layer
\* drops it.
Spelling ==
    [log_level |-> "error" :> "error" @@ "warn" :> "warn"
                   @@ "warning" :> "warn" @@ "info" :> "info"
                   @@ "debug" :> "debug" @@ "trace" :> "trace",
     log_format |-> "json" :> "json" @@ "terminal" :> "terminal"
                    @@ "text" :> "terminal" @@ "pretty" :> "terminal",
     secrets_provider |-> "none" :> "none" @@ Empty :> "none"
                          @@ "directory" :> "directory" @@ "dir" :> "directory"
                          @@ "file" :> "directory"
                          @@ "environment" :> "environment"
                          @@ "env" :> "environment",
     audit_sink |-> "tracing" :> "tracing" @@ "log" :> "tracing"
                    @@ Empty :> "tracing" @@ "file" :> "file"
                    @@ "directory" :> "file"]

TlsVersions == "1.2" :> "1.2" @@ "12" :> "1.2" @@ "1.3" :> "1.3"
            @@ "13" :> "1.3"

Seconds == [u \in {"none", "s", "m", "h", "d"} |->
               IF u = "m" THEN 60 ELSE IF u = "h" THEN 3600
               ELSE IF u = "d" THEN 86400 ELSE 1]
Bytes   == "none" :> 1 @@ "k" :> 1024 @@ "m" :> 1048576 @@ "g" :> 1073741824

\* A number written with a unit: refused when the unit is none of them, when it
\* is no number (a negative amount stands for that), when it is zero, and when
\* the product overflows.
ReadsAmount(t, units) ==
    /\ t # Empty
    /\ t.unit \in DOMAIN units
    /\ t.amount \in 1..(MaxNumber \div units[t.unit])

AmountOf(t, units) == t.amount * units[t.unit]

ReadsDuration(t)  == ReadsAmount(t, Seconds)
DurationOf(t)     == AmountOf(t, Seconds)

\* parse_duration_allow_zero
ReadsDurationOrZero(t) ==
    t # Empty /\ (ReadsDuration(t) \/ (t.amount = 0 /\ t.unit \in DOMAIN Seconds))

\* AllowedPeer: `cn:`, `dn:`, `sha256:` or a bare common name.  A blank line is
\* skipped, and a prefix with nothing behind it names no peer.
ReadsPeer(e) == e.by \in {"cn", "dn", "sha256", "bare"} /\ e.name # ""
PeerOf(e)    == [e EXCEPT !.by = IF @ = "bare" THEN "cn" ELSE @]
Width(family) == IF family = 4 THEN 32 ELSE 128

\* PeerBlock: an address, and at most as many bits of it as it has.
ReadsBlock(b) == b.family \in {4, 6} /\ b.prefix \in {Unset} \cup 0..Width(b.family)
BlockOf(b)    == [b EXCEPT !.prefix = IF @ = Unset THEN Width(b.family) ELSE @]

NotBlank(e) == e.by # "blank"

Reads(s, t) ==
    CASE s \in BoolSettings         -> t \in DOMAIN Truth
      [] s \in DurationSettings     -> ReadsDuration(t)
      [] s \in SizeSettings         -> ReadsAmount(t, Bytes)
      [] s \in CountSettings        -> t \in 1..MaxNumber
      [] s = "connections_per_peer" -> t \in 0..MaxNumber
      [] s = "connection_lifetime"  -> ReadsDurationOrZero(t)
      [] s \in NameSettings         -> t \in DOMAIN Spelling[s]
      [] s = "admin_allow" -> \A e \in ToSet(SelectSeq(t, NotBlank)) : ReadsPeer(e)
      [] s = "peer_exempt" -> \A b \in ToSet(t) : ReadsBlock(b)
      [] OTHER             -> TRUE

\* A lifetime of zero is no lifetime; the issuer and the path prefix lose
\* their trailing slash.
ValueOf(s, t) ==
    CASE s \in BoolSettings         -> Truth[t]
      [] s \in DurationSettings     -> DurationOf(t)
      [] s \in SizeSettings         -> AmountOf(t, Bytes)
      [] s = "connection_lifetime"  -> IF t.amount = 0 THEN Unset ELSE DurationOf(t)
      [] s \in NameSettings         -> Spelling[s][t]
      [] s = "admin_allow" -> [i \in DOMAIN SelectSeq(t, NotBlank) |->
                                  PeerOf(SelectSeq(t, NotBlank)[i])]
      [] s = "peer_exempt" -> [i \in DOMAIN t |-> BlockOf(t[i])]
      [] s \in {"issuer", "path_prefix"} -> [t EXCEPT !.slash = FALSE]
      [] OTHER             -> t

----------------------------------------------------------------------------
(* Defaults *)

\* Limits::default
DefaultLimits ==
    [connections |-> 1024, connections_per_peer |-> 256, peer_exempt |-> <<>>,
     concurrent_requests |-> 256, request_timeout |-> 30,
     handshake_timeout |-> 10, header_timeout |-> 10,
     body_bytes |-> 1048576, header_bytes |-> 65536,
     connection_lifetime |-> Unset, write_stall_timeout |-> 30]

NoPath == [lead |-> FALSE, parts |-> <<>>, slash |-> FALSE]

OtherDefaults ==
    [version |-> "build", copyright_year |-> "build",
     copyright_holder |-> "build", working_dir |-> Unset,
     autogenerate |-> FALSE, development_mode |-> FALSE,
     disclose_build |-> TRUE, issuer |-> Unset, path_prefix |-> NoPath,
     public_addr |-> Unset, telemetry_addr |-> Unset, admin_addr |-> Unset,
     admin_allow |-> <<>>, log_level |-> "info", log_format |-> "json",
     tls_reload |-> TRUE, reload_interval |-> 30, shutdown_timeout |-> 30,
     secrets_provider |-> "none", secrets_directory |-> Unset,
     secrets_env_prefix |-> <<"pic">>, audit_sink |-> "tracing",
     audit_directory |-> Unset, audit_retention |-> 90 * 86400,
     pseudonym_enabled |-> FALSE, key_ref |-> Unset, key_version |-> "v1",
     keys_enabled |-> FALSE, keys_directory |-> Unset,
     publish_ahead |-> 3600, rotate_every |-> 30 * 86400,
     retain |-> 365 * 86400, maintenance_interval |-> 60]

Defaults == [s \in Setting |-> IF s \in DOMAIN DefaultLimits THEN DefaultLimits[s]
                                                            ELSE OtherDefaults[s]]

NoTls == [certificate |-> Unset, key |-> Unset, client_ca |-> Unset,
          crl |-> Unset, allow |-> <<>>, min_version |-> "1.3"]

\* Config::default with the build's own values.
InitialConfig ==
    [set |-> Defaults, tls |-> [f \in Surface |-> NoTls], stated |-> {},
     realms |-> <<>>, extra |-> [k \in {} |-> Unset]]

----------------------------------------------------------------------------
(* Layers *)

\* A setting of nothing was not supplied.
Supplied(pairs) == {k \in DOMAIN pairs : pairs[k] # Empty}

\* What a layer says of one surface is read only when it names a certificate
\* and its key; one without the other is refused.
NamesBoth(given) == {"cert", "key"} \subseteq Supplied(given)

TlsReads(f, given) ==
    LET parts == Supplied(given) \cap TlsParts[f] IN
    /\ "cert" \in Supplied(given) <=> "key" \in Supplied(given)
    /\ NamesBoth(given) =>
           /\ "allow" \in parts => Reads("admin_allow", given["allow"])
           /\ "min_version" \in parts => given["min_version"] \in DOMAIN TlsVersions

\* tls_of: a layer that names a certificate and a key replaces everything the
\* layers before it said of the surface.
TlsOf(f, given, previous) ==
    LET parts == Supplied(given) \cap TlsParts[f]
        Part(p, none) == IF p \in parts THEN given[p] ELSE none
    IN  IF ~NamesBoth(given) THEN previous
        ELSE [certificate |-> given["cert"], key |-> given["key"],
              client_ca   |-> Part("client_ca", Unset),
              crl         |-> Part("crl", Unset),
              allow       |-> IF "allow" \in parts
                              THEN ValueOf("admin_allow", given["allow"]) ELSE <<>>,
              min_version |-> IF "min_version" \in parts
                              THEN TlsVersions[given["min_version"]] ELSE "1.3"]

\* Every value the layer supplies can be read as its type.
LayerReads(layer) ==
    /\ \A s \in Supplied(layer.plain) \cap Setting : Reads(s, layer.plain[s])
    /\ \A f \in Surface : TlsReads(f, layer.tls[f])

\* apply_pairs, on a layer that reads.  A key the build never declared is
\* discarded.
ApplyPairs(c, layer) ==
    LET given == Supplied(layer.plain) IN
    [c EXCEPT
        !.set = [s \in Setting |->
                    IF s \in given THEN ValueOf(s, layer.plain[s]) ELSE @[s]],
        !.tls = [f \in Surface |-> TlsOf(f, layer.tls[f], @[f])],
        !.stated = @ \cup (given \cap Lifecycle),
        !.extra = [k \in DOMAIN @ \cup (given \cap Declared) |->
                      IF k \in given THEN layer.plain[k] ELSE @[k]]]

\* ServeArgs::setting_inputs: the only settings with a flag.  An unreadable log
\* level or format is refused by the parser of the command line.
FlagSettings == AddressSettings \cup {"log_level", "log_format"}

----------------------------------------------------------------------------
(* The configuration file *)

RealmEntries(file) ==
    SelectSeq(file.realms_from, LAMBDA e : e.kind # "hidden")

\* gather_realms_from: every visible entry is a realm file named after its
\* realm, and declares a name nobody has declared yet.  The check of
\* `admin.tls.allow` stands behind the early return, so it is made only when
\* the file names a directory of realms.
GatherReads(file) ==
    file.realms_from # Unset =>
        LET entries == RealmEntries(file) IN
        /\ \A i \in DOMAIN entries :
               /\ entries[i].kind = "realm"
               /\ entries[i].realm.name = entries[i].stem
               /\ \A r \in ToSet(file.realms) : r.name # entries[i].stem
               /\ \A j \in 1..(i - 1) : entries[j].stem # entries[i].stem
        /\ ~file.admin_tls_allow

\* The realms of the file: the ones it lists, then the ones of the directory.
DeclaredRealms(file) ==
    file.realms \o
    IF file.realms_from = Unset THEN <<>>
    ELSE [i \in DOMAIN RealmEntries(file) |-> RealmEntries(file)[i].realm]

\* App::load: every section is one of the typed ones, which the file's layer
\* holds, or one the build claims.
FileLoads(file) == GatherReads(file) /\ file.sections \subseteq Claimed

----------------------------------------------------------------------------
(* Realms *)

\* A realm states a value, or takes the server's.  `like` is the setting whose
\* rules the value is read by.
OptReads(like, t) == t = Unset \/ Reads(like, t)
Opt(like, t, otherwise) == IF t = Unset THEN otherwise ELSE ValueOf(like, t)

TokenRingEnabled(in) == Opt("keys_enabled", in.token_enabled, TRUE)

\* A ring that signs tokens states its lifecycle and how long a token lives.
TokenReads(in) ==
    \A t \in {in.token_ahead, in.token_rotate, in.token_retain, in.lifetime} :
        /\ OptReads("retain", t)
        /\ TokenRingEnabled(in) => t # Unset

ExpiryPolicies == {"later", "pic", "oauth"}
Algorithms     == {"EdDSA", "ES256"}

RealmReads(in) ==
    /\ \A t \in {in.listed, in.token_enabled, in.ops_enabled,
                 in.pseudonym_enabled} : OptReads("keys_enabled", t)
    /\ TokenReads(in)
    /\ \A t \in {in.ops_ahead, in.ops_rotate, in.ops_retain, in.audit_retention} :
           OptReads("retain", t)
    /\ OptReads("secrets_provider", in.provider)
    /\ OptReads("audit_sink", in.audit_sink)
    /\ in.expiry_policy \in ExpiryPolicies \cup {Unset}
    /\ in.stale_for = Unset \/ ReadsDurationOrZero(in.stale_for)
    /\ in.algorithm \in Algorithms \cup {Unset}

\* The issuer of a realm that states none: the server's, and the realm's path.
DerivedIssuer(c, name) ==
    IF c.set.issuer = Unset THEN Unset
    ELSE [c.set.issuer EXCEPT !.parts = @ \o <<"realms", name>>]

\* The variables a realm's secrets are in begin with the server's prefix and
\* the words of the realm's name.
RealmPrefix(c, name) == c.set.secrets_env_prefix \o name

\* The ring that seals the realm's trail inherits, value by value.
OperationsRing(c, in) ==
    [enabled |-> Opt("keys_enabled", in.ops_enabled, c.set.keys_enabled),
     ahead   |-> Opt("retain", in.ops_ahead, c.set.publish_ahead),
     rotate  |-> Opt("retain", in.ops_rotate, c.set.rotate_every),
     retain  |-> Opt("retain", in.ops_retain, c.set.retain)]

\* The ring that signs the realm's tokens inherits nothing.
TokenRing(in) ==
    [enabled |-> TokenRingEnabled(in),
     ahead   |-> Opt("retain", in.token_ahead, 0),
     rotate  |-> Opt("retain", in.token_rotate, 0),
     retain  |-> Opt("retain", in.token_retain, 0)]

ResolveRealm(c, in) ==
    [name      |-> in.name,
     mount     |-> <<"realms", in.name>>,
     issuer    |-> IF in.issuer = Unset THEN DerivedIssuer(c, in.name) ELSE in.issuer,
     listed    |-> Opt("keys_enabled", in.listed, FALSE),
     tokens    |-> TokenRing(in),
     lifetime  |-> Opt("retain", in.lifetime, 0),
     expiry_policy |-> IF in.expiry_policy = Unset THEN "later" ELSE in.expiry_policy,
     stale_for |-> IF in.stale_for = Unset THEN 3600
                   ELSE AmountOf(in.stale_for, Seconds),
     algorithm |-> IF in.algorithm = Unset THEN "EdDSA" ELSE in.algorithm,
     operations |-> OperationsRing(c, in),
     audit_sink |-> Opt("audit_sink", in.audit_sink, c.set.audit_sink),
     audit_retention |-> Opt("retain", in.audit_retention, c.set.audit_retention),
     pseudonym_enabled |->
         Opt("keys_enabled", in.pseudonym_enabled, c.set.pseudonym_enabled),
     key_ref     |-> IF in.key_ref = Unset THEN c.set.key_ref ELSE in.key_ref,
     key_version |-> IF in.key_version = Unset THEN c.set.key_version
                                               ELSE in.key_version,
     provider    |-> Opt("secrets_provider", in.provider, c.set.secrets_provider),
     env_prefix  |-> IF in.env_prefix = Unset THEN RealmPrefix(c, in.name)
                                              ELSE in.env_prefix,
     profiles    |-> in.profiles,
     attesters   |-> in.attesters]

\* with_realms, on realms that read.
WithRealms(c, inputs) ==
    [c EXCEPT !.realms = [i \in DOMAIN inputs |-> ResolveRealm(c, inputs[i])]]

----------------------------------------------------------------------------
(* Where things are *)

InVolume(text, default) == IF text = Unset THEN default ELSE text

SecretsDirectory(c) == InVolume(c.set.secrets_directory, <<"operations", "secrets">>)
RealmSecretsDirectory(name) == <<"realms", name, "operations", "secrets">>

----------------------------------------------------------------------------
(* validate *)

Development(c) == c.set.development_mode

\* require_public_https
PublicHttps(c, url) == Development(c) \/ url.scheme = "https"

\* is_loopback: by what is written, not by what it resolves to.  "127." stands
\* for every host that begins with it.
IsLoopback(address) == address \in {"localhost", "::1", "127."}

Mutual(tls) == tls.client_ca # Unset

\* TlsSettings::validate_in: the files a block names are there.
TlsHolds(tls, files) ==
    /\ tls.crl # Unset => Mutual(tls)
    /\ {tls.certificate, tls.key, tls.client_ca, tls.crl} \ {Unset} \subseteq files

\* validate_admin_access
AdminAccess(c) ==
    \/ c.set.admin_addr = Unset
    \/ /\ ~Mutual(c.tls["admin"])
       /\ IsLoopback(c.set.admin_addr) \/ Development(c)
    \/ /\ Mutual(c.tls["admin"])
       /\ c.set.admin_allow # <<>> \/ Development(c)

KeySetMaxAge == 300

\* check_key_lifecycle: a key gets a turn, a retired key outlasts the next
\* rotation, and a verifier's cached set is renewed before a new key signs.
LifecycleHolds(c, ring) ==
    /\ ring.ahead < ring.rotate
    /\ ring.retain >= ring.rotate
    /\ ring.ahead >= KeySetMaxAge \/ Development(c)

ServerRing(c) ==
    [enabled |-> c.set.keys_enabled, ahead |-> c.set.publish_ahead,
     rotate |-> c.set.rotate_every, retain |-> c.set.retain]

\* validate_key_lifecycle
ServerLifecycle(c) ==
    c.set.keys_enabled => Lifecycle \subseteq c.stated /\ LifecycleHolds(c, ServerRing(c))

\* A name of one to forty lower-case letters, digits and inner hyphens: the
\* words of a usable one are all words.
Shaped(name) == name # <<>> /\ ToSet(name) \subseteq Words

\* A pseudonymising realm names a key and somewhere to resolve it from.  Unlike
\* the server's, its key version may be blank.
PseudonymHolds(enabled, provider, ref) ==
    enabled => provider # "none" /\ ref # Unset

\* No two members of the sequence have the same value in the field.
Distinct(s, field) == IsInjective([i \in DOMAIN s |-> s[i][field]])

MappingHolds(m) == (m.from # Unset) # (m.value # Unset)

RulesHold(rules) ==
    /\ rules # <<>>
    /\ Distinct(rules, "name") /\ Distinct(rules, "priority")
    /\ \A r \in ToSet(rules) : r.name # "" /\ r.pattern # "" /\ r.emits

\* validate_exchange_profiles
ProfilesHold(profiles) ==
    /\ Distinct(profiles, "id")
    /\ \A p \in ToSet(profiles) :
           /\ p.id # ""
           /\ p.token_type = "oauth-access-token" /\ p.format = "jwt"
           /\ p.issuer # "" /\ p.audience # ""
           /\ p.algorithms # {} /\ p.require_expiration
           /\ p.require_token_type \notin {Unset, ""}
           /\ \A m \in p.identity_context : MappingHolds(m)
           /\ p.scopes_from # Unset /\ p.scopes_type = "set"
           /\ p.privileges_source = "scopes"
           /\ RulesHold(p.rules)
           /\ p.on_unmatched_scope = "reject"

\* validate_trusted_attesters
AttestersHold(c, attesters) ==
    /\ Distinct(attesters, "id")
    /\ \A a \in ToSet(attesters) :
           /\ a.id # ""
           /\ {a.issuer, a.jwks_uri} \cap {Unset} = {}
           /\ PublicHttps(c, a.issuer) /\ PublicHttps(c, a.jwks_uri)
           /\ "sd-jwt" \in a.proof_types /\ "sd-jwt" \in a.formats

\* What validate_realms asks of each realm.
RealmHolds(c, r) ==
    /\ Shaped(r.name)
    /\ r.issuer # Unset => PublicHttps(c, r.issuer)
    /\ \A ring \in {r.operations, r.tokens} :
           ring.enabled => LifecycleHolds(c, ring)
    /\ PseudonymHolds(r.pseudonym_enabled, r.provider, r.key_ref)
    /\ ProfilesHold(r.profiles)
    /\ AttestersHold(c, r.attesters)

\* validate_realms
RealmsHold(c) ==
    /\ Distinct(c.realms, "name")
    /\ \A r \in ToSet(c.realms) : RealmHolds(c, r)

AddressesHold(c) ==
    /\ c.set.public_addr # Unset
    /\ \A s \in AddressSettings : c.set[s] # "blank"

\* validate_development
DevelopmentHolds(c) == c.set.autogenerate => Development(c)

\* Config::validate, on a volume that holds `files`.
Valid(c, files) ==
    /\ c.tls["public"].allow # <<>> => Mutual(c.tls["public"])
    /\ AddressesHold(c)
    /\ c.set.issuer # Unset => PublicHttps(c, c.set.issuer)
    /\ c.set.path_prefix.parts # <<>> => c.set.path_prefix.lead
    /\ \A f \in Surface : TlsHolds(c.tls[f], files)
    /\ DevelopmentHolds(c)
    /\ AdminAccess(c)
    /\ ServerLifecycle(c)
    /\ RealmsHold(c)
    /\ PseudonymHolds(c.set.pseudonym_enabled, c.set.secrets_provider, c.set.key_ref)
    /\ c.set.pseudonym_enabled => c.set.key_version # "blank"

=============================================================================
