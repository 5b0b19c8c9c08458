----------------------------- MODULE MCStartup -----------------------------
(* Deployments for Startup: a plain one, varied one topic at a time. *)
EXTENDS Startup

NoLayer == [plain |-> [k \in {} |-> Empty],
            tls |-> [f \in Surface |-> [k \in {} |-> Empty]]]
Plain(pairs) == [NoLayer EXCEPT !.plain = pairs]
Nothing == [k \in {} |-> Empty]

D(n) == [amount |-> n, unit |-> "s"]

File(pairs) ==
    [layer |-> Plain(("public_addr" :> "other") @@ pairs), realms |-> <<>>,
     realms_from |-> Unset, sections |-> {}, admin_tls_allow |-> FALSE,
     broken |-> "none"]

Serve0(file) ==
    [command |-> "serve", file |-> file, environment |-> NoLayer,
     flags |-> NoLayer, vars |-> Nothing]

----------------------------------------------------------------------------
(* Every setting, in the file, the environment and on the command line *)

\* Two texts that read, and the ones that do not.
Good(s) ==
    CASE s \in BoolSettings -> {"yes", "off"}
      [] s \in DurationSettings \cup {"connection_lifetime"} ->
             {D(600), [amount |-> 2, unit |-> "d"]}
      [] s \in SizeSettings -> {[amount |-> 2, unit |-> "k"], [amount |-> 7, unit |-> "none"]}
      [] s \in CountSettings \cup {"connections_per_peer"} -> {3, 5}
      [] s = "log_level" -> {"warning", "trace"}
      [] s = "log_format" -> {"pretty", "json"}
      [] s = "secrets_provider" -> {"env", "dir"}
      [] s = "audit_sink" -> {"directory", "log"}
      [] s = "admin_allow" -> {<<[by |-> "bare", name |-> "ann"], [by |-> "blank", name |-> ""]>>,
                               <<[by |-> "sha256", name |-> "ff"]>>}
      [] s = "peer_exempt" -> {<<[family |-> 4, prefix |-> Unset]>>,
                               <<[family |-> 6, prefix |-> 64]>>}
      [] s = "issuer" -> {[scheme |-> "https", parts |-> <<"i">>, slash |-> TRUE],
                          [scheme |-> "https", parts |-> <<"j">>, slash |-> FALSE]}
      [] s = "path_prefix" -> {[lead |-> TRUE, parts |-> <<"p">>, slash |-> TRUE],
                               [lead |-> FALSE, parts |-> <<"q">>, slash |-> FALSE]}
      [] s \in AddressSettings -> {"127.", "other"}
      [] OTHER -> {<<"one">>, <<"two">>}

Bad(s) ==
    CASE s \in BoolSettings \cup NameSettings -> {"junk"}
      [] s \in DurationSettings -> {D(-1), D(0), [amount |-> 30000, unit |-> "d"]}
      [] s = "connection_lifetime" -> {D(0), D(-1), [amount |-> 0, unit |-> "w"]}
      [] s \in SizeSettings -> {[amount |-> 2, unit |-> "g"]}
      [] s \in CountSettings \cup {"connections_per_peer"} -> {0, -1}
      [] s = "admin_allow" -> {<<[by |-> "cn", name |-> ""]>>}
      [] s = "peer_exempt" -> {<<[family |-> 4, prefix |-> 33]>>}
      [] s \in AddressSettings -> {"blank"}
      [] OTHER -> {}

Said(s) == {s :> t : t \in Good(s) \cup Bad(s) \cup {Empty}} \cup {Nothing}

Precedence ==
    UNION {{[Serve0(File(f)) EXCEPT !.environment = Plain(e)] :
                f \in Said(s), e \in Said(s)} : s \in Setting}
    \cup
    UNION {{[Serve0(File(f)) EXCEPT !.environment = Plain(e), !.flags = Plain(c)] :
                f \in Said(s), e \in {s :> t : t \in Good(s)} \cup {Nothing},
                c \in {s :> t : t \in Good(s)}} : s \in FlagSettings}
    \cup
    {[Serve0(File(Nothing)) EXCEPT !.command = "version", !.environment = Plain(e)] :
        e \in Said("log_level") \cup Said("keys_enabled")}
    \cup
    {[Serve0(File(Nothing)) EXCEPT !.environment = Plain(k :> <<"x">>)] :
        k \in Declared \cup {"undeclared"}}

----------------------------------------------------------------------------
(* Signing keys *)

Stated(s, t) == IF t = Unset THEN Nothing ELSE s :> t
Windows == {D(200), D(300), D(400), Unset}

Rotations ==
    {[Serve0(File(("keys_enabled" :> on) @@ ("development_mode" :> dev)
                    @@ Stated("publish_ahead", a) @@ Stated("rotate_every", o)))
         EXCEPT !.environment = Plain(Stated("retain", k))] :
        on \in {"on", "off"}, dev \in {"yes", "no"}, a \in Windows, o \in Windows,
        k \in Windows}

----------------------------------------------------------------------------
(* Transport and the administrative surface *)

Pair(c, k) == "cert" :> c @@ "key" :> k
Own == Pair("own.pem", "own.key")

Blocks ==
    {Nothing, Own, Own @@ "client_ca" :> "own_ca.pem",
     Own @@ "client_ca" :> "own_ca.pem" @@ "crl" :> "lost.crl",
     Own @@ "crl" :> "own.crl", "cert" :> "own.pem", "client_ca" :> "own_ca.pem",
     Own @@ "client_ca" :> Empty @@ "min_version" :> "12",
     Own @@ "allow" :> <<[by |-> "dn", name |-> "ann"]>>,
     Own @@ "client_ca" :> "own_ca.pem" @@ "allow" :> <<[by |-> "bare", name |-> "ann"]>>,
     Own @@ "min_version" :> "junk", "min_version" :> "junk"}

Surfaces ==
    {[Serve0([File(Nothing) EXCEPT !.layer.tls[f] = b]) EXCEPT
         !.environment.tls[f] = e] : f \in Surface, b \in Blocks, e \in Blocks}

Admin ==
    {[Serve0([File(("admin_addr" :> a) @@ ("development_mode" :> dev)
                    @@ ("admin_allow" :> n)) EXCEPT !.layer.tls["admin"] = b])
         EXCEPT !.environment.tls["admin"] = e] :
        a \in {"127.", "::1", "other", "blank", Empty}, dev \in {"yes", "no"},
        n \in {Empty, <<[by |-> "blank", name |-> ""]>>, <<[by |-> "cn", name |-> "ann"]>>},
        b \in {Nothing, Own, Own @@ "client_ca" :> "own_ca.pem"},
        e \in {Nothing, Own, Own @@ "client_ca" :> "own_ca.pem"}}

----------------------------------------------------------------------------
(* Realms *)

Rule(name, priority) == [name |-> name, priority |-> priority, pattern |-> "p", emits |-> TRUE]

Profile ==
    [id |-> "profile", token_type |-> "oauth-access-token", format |-> "jwt",
     issuer |-> "idp", audience |-> "aud", algorithms |-> {"RS256"},
     require_expiration |-> TRUE, require_token_type |-> "at+jwt",
     identity_context |-> {[from |-> "sub", value |-> Unset]},
     scopes_from |-> "scope", scopes_type |-> "set",
     privileges_source |-> "scopes", rules |-> <<Rule("r1", 1), Rule("r2", 2)>>,
     on_unmatched_scope |-> "reject"]

Profiles ==
    {<<>>, <<Profile>>, <<Profile, Profile>>, <<[Profile EXCEPT !.id = ""]>>,
     <<[Profile EXCEPT !.token_type = "id"]>>, <<[Profile EXCEPT !.format = "xml"]>>,
     <<[Profile EXCEPT !.issuer = ""]>>, <<[Profile EXCEPT !.algorithms = {}]>>,
     <<[Profile EXCEPT !.require_expiration = FALSE]>>,
     <<[Profile EXCEPT !.require_token_type = Unset]>>,
     <<[Profile EXCEPT !.identity_context = {[from |-> "a", value |-> "b"]}]>>,
     <<[Profile EXCEPT !.scopes_from = Unset]>>, <<[Profile EXCEPT !.rules = <<>>]>>,
     <<[Profile EXCEPT !.rules = <<Rule("r1", 1), Rule("r2", 1)>>]>>,
     <<[Profile EXCEPT !.on_unmatched_scope = "drop"]>>}

Https == [scheme |-> "https", parts |-> <<"x">>, slash |-> FALSE]
Http  == [Https EXCEPT !.scheme = "http"]
Attester == [id |-> "att", issuer |-> Https, jwks_uri |-> Https,
             proof_types |-> {"sd-jwt"}, formats |-> {"sd-jwt"}]

Attesters ==
    {<<>>, <<Attester>>, <<Attester, Attester>>, <<[Attester EXCEPT !.jwks_uri = Http]>>,
     <<[Attester EXCEPT !.issuer = Unset]>>, <<[Attester EXCEPT !.formats = {"jwt"}]>>}

RealmOf(name) ==
    [name |-> name, issuer |-> Unset, listed |-> Unset, token_enabled |-> Unset,
     token_ahead |-> D(300), token_rotate |-> D(400), token_retain |-> D(400),
     lifetime |-> D(60), expiry_policy |-> Unset, stale_for |-> Unset,
     algorithm |-> Unset, ops_enabled |-> Unset, ops_ahead |-> Unset,
     ops_rotate |-> Unset, ops_retain |-> Unset, audit_sink |-> Unset,
     audit_retention |-> Unset, pseudonym_enabled |-> Unset, key_ref |-> Unset,
     key_version |-> Unset, provider |-> Unset, env_prefix |-> Unset,
     profiles |-> <<>>, attesters |-> <<>>]

A  == RealmOf(<<"a">>)
AB == RealmOf(<<"a", "b">>)
Up == RealmOf(<<"..">>)

OneRealm ==
    {[A EXCEPT !.token_enabled = on, !.token_ahead = a, !.token_retain = k] :
        on \in {Unset, "no", "junk"}, a \in Windows, k \in Windows}
    \cup {[A EXCEPT !.ops_enabled = on, !.ops_ahead = a, !.ops_retain = k] :
        on \in {Unset, "yes", Empty}, a \in Windows, k \in {Unset, D(600), D(99999999)}}
    \cup {[A EXCEPT !.profiles = p] : p \in Profiles}
    \cup {[A EXCEPT !.attesters = t] : t \in Attesters}
    \cup {[A EXCEPT !.issuer = u] : u \in {Http, Https}}
    \cup {[A EXCEPT !.pseudonym_enabled = "yes", !.provider = p, !.key_ref = ref] :
        p \in {Unset, "env", "dir", Empty}, ref \in {Unset, <<"key">>, <<"..">>}}
    \cup {[A EXCEPT !.algorithm = "RS256"], [A EXCEPT !.expiry_policy = "now"],
          [A EXCEPT !.expiry_policy = "pic"],
          [A EXCEPT !.stale_for = D(0)], [A EXCEPT !.stale_for = D(-1)],
          [A EXCEPT !.stale_for = [amount |-> 0, unit |-> "w"]], Up}

ServerKeys == ("keys_enabled" :> "yes") @@ ("publish_ahead" :> D(300))
              @@ ("rotate_every" :> D(500)) @@ ("retain" :> D(500))

Entry(kind, stem, r) == [kind |-> kind, stem |-> stem, realm |-> r]

RealmFiles ==
    {[File(pairs) EXCEPT !.realms = <<r>>] : r \in OneRealm, pairs \in {Nothing, ServerKeys}}
    \cup {[File("issuer" :> Https) EXCEPT !.realms = rs] :
              rs \in {<<A, AB>>, <<A, A>>, <<A, Up>>}}
    \cup {[File(Nothing) EXCEPT !.realms = rs, !.realms_from = es, !.admin_tls_allow = t] :
              rs \in {<<>>, <<A>>}, t \in BOOLEAN,
              es \in {Unset, <<Entry("realm", <<"a", "b">>, AB), Entry("hidden", <<>>, AB)>>,
                      <<Entry("realm", <<"a">>, A)>>, <<Entry("realm", <<"a">>, AB)>>,
                      <<Entry("other", <<>>, A)>>,
                      <<Entry("realm", <<"a">>, A), Entry("realm", <<"a">>, A)>>}}
    \cup {[File(Nothing) EXCEPT !.sections = x, !.broken = b] :
              x \in {{}, Claimed, {"typo"}}, b \in {"none", "reader", "parser"}}

\* Realms that take their keys from the environment, under the default prefix.
FromEnvironment(r, ref) ==
    [r EXCEPT !.pseudonym_enabled = "yes", !.provider = "env", !.key_ref = ref]

Variables == {[Serve0([File(Nothing) EXCEPT !.realms = <<FromEnvironment(A, ref),
                                                         FromEnvironment(AB, <<"key">>)>>])
                  EXCEPT !.vars = <<"pic", "a", "b", "key">> :> NewSecret(-1, WholeLength)
                                  @@ <<"pic", "a", "key">> :> NewSecret(-2, WholeLength)] :
                  ref \in {<<"key">>, <<"b", "key">>, <<"b">>}}

Realms == {Serve0(f) : f \in RealmFiles} \cup Variables

----------------------------------------------------------------------------
(* Starts on one volume *)

Generated == Pair("server.pem", "server.key") @@ "client_ca" :> "ca.pem"

\* A laptop, the same one made careful, and a deployment that forgot to say
\* that it is one; each with its own version of the key.
Laptop(auto, dev, version) ==
    Serve0([File(("autogenerate" :> auto) @@ ("development_mode" :> dev)
              @@ ("pseudonym_enabled" :> "yes") @@ ("secrets_provider" :> "dir")
              @@ ("key_ref" :> <<"key">>) @@ ("key_version" :> version))
            EXCEPT !.layer.tls["public"] =
                       IF auto = "yes" THEN Generated @@ "crl" :> "ca.crl" ELSE Generated,
                   !.realms = <<A>>])

MCOperated == {Laptop("yes", "yes", "v1"), Laptop("no", "no", "v2"),
               Laptop("yes", "no", "v1")}

MCDeployments == Precedence \cup Rotations \cup Surfaces \cup Admin \cup Realms
                 \cup MCOperated

MCPlaced == {{}, {"ca.pem"}, {"server.pem", "server.key"}}
MCRealmNames == {A.name, AB.name, Up.name}
=============================================================================
