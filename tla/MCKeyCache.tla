---------------------------- MODULE MCKeyCache ----------------------------
(* KeyCache for TLC: an attester over HTTPS and a provider over plain HTTP. *)
EXTENDS KeyCache

Key(id, kind) == [id |-> id, kid |-> id, kind |-> kind, alg |-> None, use |-> "sig",
                  private |-> FALSE, bits |-> 2048]

AttesterKey == Key("a", "ed25519")
NextKey     == Key("b", "p256")
Encryption  == [Key("c", "ed25519") EXCEPT !.use = "enc"]
Leaked      == [Key("d", "ed25519") EXCEPT !.private = TRUE]
Short       == [Key("e", "rsa") EXCEPT !.bits = 1024]
ProviderKey == [Key("p", "rsa") EXCEPT !.alg = "RS256"]
Unlabelled  == Key("u", "ed25519")

MCAttesters == <<[id |-> "attester", issuer |-> "iss", proof_types |-> {"sd-jwt"}]>>

MCProfiles == <<[id |-> "profile", issuer |-> "idp", audience |-> "realm",
                 algorithms |-> {"RS256", "ES256"}, token_type |-> "at",
                 require_expiration |-> TRUE]>>

Set(keys) == [readable |-> TRUE, keys |-> keys]
Garbage   == [readable |-> FALSE, keys |-> {}]

MCBodies == [attester |-> {Set({AttesterKey, NextKey, Encryption, Leaked}), Set({}),
                           Garbage},
             profile |-> {Set({ProviderKey, Short, Encryption, Leaked, Unlabelled})}]

Disclosure(name) == [name |-> name, salt |-> 1, property |-> TRUE, reserved |-> FALSE]

Corporation == Disclosure("corporation")
Department  == Disclosure("department")
Again       == [Corporation EXCEPT !.salt = 2]
Issuer      == Disclosure("iss")
Element     == [Disclosure("x") EXCEPT !.property = FALSE]
Digests     == [Disclosure("_sd_x") EXCEPT !.reserved = TRUE]

Good ==
    [readable |-> TRUE, terminated |-> TRUE, compact |-> TRUE,
     disclosures |-> <<Corporation, Department>>, alg |-> "EdDSA", kid |-> "a",
     signer |-> "a", iss |-> "iss", sd_alg |-> "sha-256", exp |-> 11, nbf |-> None,
     iat |-> 10, sd |-> {Corporation, Department, Again, Issuer, Element, Digests},
     claims |-> {"iss", "exp", "iat", "cnf"}, cnf |-> Key("w", "p256")]

MCPresentations ==
    {Good, [Good EXCEPT !.kid = None, !.exp = 10, !.disclosures = <<>>],
     [Good EXCEPT !.signer = "b", !.kid = "b", !.alg = "ES256"],
     [Good EXCEPT !.signer = "b", !.kid = "b"],
     [Good EXCEPT !.signer = "c", !.kid = "c"], [Good EXCEPT !.signer = "d", !.kid = "d"],
     [Good EXCEPT !.signer = "w"], [Good EXCEPT !.iss = "else"],
     [Good EXCEPT !.alg = "none"], [Good EXCEPT !.terminated = FALSE],
     [Good EXCEPT !.sd_alg = "sha-1"], [Good EXCEPT !.exp = None],
     [Good EXCEPT !.exp = 9], [Good EXCEPT !.nbf = 12],
     [Good EXCEPT !.iat = 12], [Good EXCEPT !.cnf = None],
     [Good EXCEPT !.cnf = [@ EXCEPT !.alg = "EdDSA"]],
     [Good EXCEPT !.disclosures = <<Corporation, Corporation>>],
     [Good EXCEPT !.disclosures = <<Corporation, Again>>],
     [Good EXCEPT !.disclosures = <<Issuer>>],
     [Good EXCEPT !.disclosures = <<Element>>],
     [Good EXCEPT !.disclosures = <<Digests>>],
     [Good EXCEPT !.disclosures = <<Corporation, Department, Corporation>>]}

Access == [iss |-> "idp", aud |-> {"realm"}, alg |-> "RS256", typ |-> "at", kid |-> "p",
           signer |-> "p", exp |-> 11]

Signed(t, by) == [t EXCEPT !.signer = by, !.kid = by]

MCAccessTokens ==
    {Access, [Access EXCEPT !.kid = None], [Access EXCEPT !.kid = "b"],
     [Access EXCEPT !.iss = "iss"], [Access EXCEPT !.exp = 10], [Access EXCEPT !.aud = {}],
     [Access EXCEPT !.typ = None], [Access EXCEPT !.alg = "ES256"],
     [Signed(Access, "b") EXCEPT !.alg = "ES256"],
     [Signed(Access, "b") EXCEPT !.alg = "ES256", !.kid = None]}
        \cup {Signed(Access, by) : by \in {"c", "d", "e", "u"}}

=============================================================================
