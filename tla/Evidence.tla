------------------------------ MODULE Evidence ------------------------------
(***************************************************************************)
(* What a realm makes of a signature somebody else issued: the SD-JWT      *)
(* presentation of a workload (src/crates/pic-x-realm/src/por.rs) and the  *)
(* access token of an identity provider (validate_source_jwt and           *)
(* verify_source_signature of exchange.rs), checked against a published    *)
(* key set.                                                                *)
(*                                                                         *)
(* Bytes are abstracted: a signature is the key that made it, a disclosure *)
(* is its own digest, an encoding either decodes or does not.  The key     *)
(* kinds the protocol crate reads are external.                            *)
(***************************************************************************)
EXTENDS Integers, Sequences, FiniteSets, SequencesExt

CONSTANTS
    None            \* an absent claim, parameter or Option

\* CLOCK_SKEW_SECONDS and MAX_DISCLOSURES, in the model's units.
CONSTANTS Skew, MaxDisclosures

ASSUME EvidenceAssumption == Skew \in Nat /\ MaxDisclosures \in Nat /\ None \notin Nat

----------------------------------------------------------------------------
(* Keys as they are published *)

\* parse_key_set keeps the keys that may verify signatures and are public.  A
\* body that is no key set is an error, and an empty set is a key set.
Parses(body)    == body.readable
KeySetOf(body)  == {k \in body.keys : k.use \in {None, "sig"} /\ ~k.private}

\* The algorithms of the key kinds the protocol crate reads.
CurveAlgorithm == [ed25519 |-> "EdDSA", p256 |-> "ES256", p384 |-> "ES384"]

\* public_key_from_jwk and expected_algorithms_for_jwk: a curve key whose
\* declared algorithm, if any, is the one it produces.
CurveKey(k) ==
    /\ k.kind \in DOMAIN CurveAlgorithm
    /\ ~k.private
    /\ k.alg \in {None, CurveAlgorithm[k.kind]}

MinimumRsaBits == 2048

\* rsa_key_from_jwk
RsaKey(k) == k.kind = "rsa" /\ k.bits >= MinimumRsaBits

\* verification_key_from_jwk
VerificationKey(k) == ~k.private /\ (RsaKey(k) \/ CurveKey(k))

\* expected_jose_algorithm
ExpectedAlgorithm(k) ==
    CASE k.kind = "rsa" -> "RS256"
      [] CurveKey(k)    -> CurveAlgorithm[k.kind]
      [] OTHER          -> None

\* A `kid` narrows the candidates; without one every published key is tried.
Selected(keys, kid) == {k \in keys : kid = None \/ k.kid = kid}

----------------------------------------------------------------------------
(* Presentations *)

\* split_presentation and decode_jws_segments, and the bounds on both.
WellFormed(p) ==
    /\ p.readable
    /\ p.terminated
    /\ Len(p.disclosures) <= MaxDisclosures
    /\ p.compact

\* Trust comes first: the issuer is one the realm configured, and the first
\* attester configured with it is the one that counts: its place, or zero.
AttesterFor(p, attesters) == SelectInSeq(attesters, LAMBDA a : a.issuer = p.iss)

\* Mutant: any key the attester published will do, whatever the header says.
VerifiesUnderAnyKey(p, keys) == \E k \in keys : k.id = p.signer

\* verify_issuer_signature: under a selected key that produces the algorithm
\* the header names.
IssuerSignatureVerifies(p, keys) ==
    /\ p.alg \notin {None, "none"}
    /\ \E k \in Selected(keys, p.kid) :
           /\ ExpectedAlgorithm(k) = p.alg
           /\ VerificationKey(k)
           /\ k.id = p.signer

\* validate_validity_claims
InForce(p, now) ==
    /\ p.exp # None /\ now - Skew < p.exp
    /\ p.nbf # None => p.nbf <= now + Skew
    /\ p.iat # None => p.iat <= now + Skew

\* process_disclosures: each is committed to, presented once, an object
\* property, under a name that is not reserved (`...`, or any that begins with
\* `_sd`), and that neither the credential nor another disclosure uses.
DisclosuresHold(p) ==
    LET ds == p.disclosures IN
    /\ ToSet(ds) \subseteq p.sd
    /\ \A i, j \in DOMAIN ds : i # j => ds[i].name # ds[j].name
    /\ \A d \in ToSet(ds) : /\ d.property
                            /\ ~d.reserved
                            /\ d.name \notin p.claims

ClaimsOf(p) == p.claims \cup {d.name : d \in ToSet(p.disclosures)}

\* validate_evidence_with_key, once the attester's key set is at hand.
EvidenceHolds(p, keys, now) ==
    /\ IssuerSignatureVerifies(p, keys)
    /\ p.sd_alg \in {None, "sha-256"}
    /\ InForce(p, now)
    /\ DisclosuresHold(p)
    /\ p.cnf # None /\ CurveKey(p.cnf)

----------------------------------------------------------------------------
(* Access tokens *)

\* select_initial_profile: the first profile for the issuer and the
\* audience: its place, or zero.
ProfileFor(t, profiles) ==
    SelectInSeq(profiles, LAMBDA f : f.issuer = t.iss /\ f.audience \in t.aud)

\* validate_source_jwt, before the signature.
SourceInForce(t, f, now) ==
    /\ t.alg \in f.algorithms
    /\ f.token_type # None => t.typ = f.token_type
    /\ t.iss = f.issuer /\ f.audience \in t.aud
    /\ f.require_expiration => t.exp # None /\ t.exp > now

\* verify_source_signature: a key published for another algorithm is passed
\* over; one published for none is tried whatever the header says.
SourceSignatureVerifies(t, keys) ==
    \E k \in Selected(keys, t.kid) :
        /\ k.alg \in {None, t.alg}
        /\ VerificationKey(k)
        /\ k.id = t.signer

=============================================================================
