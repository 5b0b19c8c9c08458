---------------------------- MODULE TokenExchange ----------------------------
(***************************************************************************)
(* The token endpoint of a realm (src/crates/pic-x-realm/src/exchange.rs): *)
(* an access token is exchanged for the first checkpoint of a lineage, and *)
(* a workload's candidate advances a checkpoint to the next one.           *)
(*                                                                         *)
(* Handlers run beside each other and beside the realm's token ring, which *)
(* they read several times: for the key that signs, for the keys that may  *)
(* have signed the predecessor, and again for every signature.  The ring   *)
(* is the abstract KeyLifecycle that KeyRing implements, with the time for *)
(* which a retired key is kept.  Nothing else is shared: the realm stores  *)
(* no checkpoint.                                                          *)
(*                                                                         *)
(* Authority is abstracted to a set of invariants and a set of contract    *)
(* entries.  What a request must decode to, and whether its evidence,      *)
(* algorithms, key identifiers and challenges agree, is one bit.           *)
(* Settlement and the number of signatures a token takes belong to the     *)
(* protocol crate, which is not part of the repository.                    *)
(***************************************************************************)
EXTENDS Integers, FiniteSets

CONSTANTS
    Kid,            \* key identifiers of the token ring
    Handler,        \* requests in flight
    Scope,          \* scopes an access token can carry
    Mapped,         \* scopes for which a rule of the exchange profile emits an invariant
    RejectUnmatched,    \* the profile's on_unmatched_scope is "reject"
    RequireExpiration,  \* the profile's require_expiration
    Claim,          \* what a contract can require and a workload disclose
    Retain,         \* KeyPolicy.retain of the token ring
    Lifetime,       \* the realm's token_lifetime
    MaxRequested,   \* MAX_REQUESTED_LIFETIME
    Policy,         \* TokenInitialExpiryPolicy: "later", "pic" or "oauth"
    Signatures,     \* signatures that issuing one token takes
    MaxTime,        \* bound: the last instant the clock reaches
    MaxExpiry,      \* bound: the latest expiry that an access token or a proposal names
    MaxLineages,    \* bound: how many lineages are ever begun
    MaxTokens,      \* bound: how many tokens are ever issued
    MaxFaults,      \* bound: crashes and failures to record
    None            \* an absent Option

ASSUME TokenExchangeAssumption ==
    /\ IsFiniteSet(Handler) /\ Mapped \subseteq Scope
    /\ RejectUnmatched \in BOOLEAN /\ RequireExpiration \in BOOLEAN
    /\ Retain \in Nat /\ Lifetime \in Nat \ {0} /\ MaxRequested \in Nat
    /\ Policy \in {"later", "pic", "oauth"}
    /\ Signatures \in Nat \ {0}
    /\ MaxTime \in Nat /\ MaxExpiry \in Nat /\ MaxLineages \in Nat
    /\ MaxTokens \in Nat /\ MaxFaults \in Nat
    /\ None \notin Nat \cup Kid

VARIABLES
    status,     \* the token ring: where every key is in its life
    retiredAt,  \* when a key stopped signing
    now,        \* the clock
    task,       \* what every handler has reached
    tokens,     \* the tokens that clients hold
    trail,      \* how often the issue of a checkpoint was recorded
    roots,      \* history: what every lineage began with
    issued,     \* history: how many tokens were signed; gives each its identity
    faults

ringVars == <<status, retiredAt>>
vars == <<status, retiredAt, now, task, tokens, trail, roots, issued, faults>>

Ring == INSTANCE KeyLifecycle

----------------------------------------------------------------------------
(* The ring, as its callers see it *)

Active == {k \in Kid : status[k] = "active"}

\* public_keys: a key is there from its publication until it is forgotten.
Published == {k \in Kid : status[k] \in {"published", "active", "retired", "archived"}}

----------------------------------------------------------------------------
(* Tokens and candidates *)

Lineage == 1..MaxLineages
Position == 0..MaxTokens
Instant == Nat \ {0}

\* A PIC Token JWT and the checkpoint in it.  `claims` is what the workload
\* that asked for it disclosed, `signers` the keys its parts are signed with.
Token == [id : 1..MaxTokens, lineage : Lineage, position : Position,
          invariants : SUBSET Mapped, contract : SUBSET Claim,
          claims : SUBSET Claim, expires : Instant, kid : Kid,
          signers : SUBSET Kid]

\* What a lineage begins with.
Root == [invariants : SUBSET Mapped, contract : SUBSET Claim, expires : Instant]

ASSUME RootAssumption == None \notin Root

\* A candidate is rooted at a predecessor, `base`, over which the realm's
\* signature verifies when it is `genuine`.  `sound`: it decodes, its evidence
\* is accepted, and its algorithms, key identifiers and challenges agree.
Candidate == [base : Token, genuine : BOOLEAN, sound : BOOLEAN, jti : Nat, exp : Nat,
              position : Nat, invariants : SUBSET Mapped, contract : SUBSET Claim,
              claims : SUBSET Claim]

\* An initial exchange.  `sound`: the form and the proposal decode, a profile
\* of the realm accepts the access token's issuer, audience and algorithm, and
\* the identity provider's signature over it verifies.
Request == [sound : BOOLEAN, scopes : SUBSET Scope, exp : 0..MaxExpiry \cup {None},
            proposal : 0..MaxExpiry \cup {None}, contract : SUBSET Claim]

IdleTask == [stage |-> "idle", kid |-> None, signs |-> 0, work |-> None]

\* select_initial_profile and validate_source_jwt.
SourceAccepted(r, t) ==
    /\ r.sound
    /\ RequireExpiration => r.exp # None /\ r.exp > t

\* map_authority: the invariants that the profile's rules emit for the scopes;
\* none when the exchange is refused.  An invariant is named by its scope.
Derived(scopes) ==
    IF RejectUnmatched /\ ~(scopes \subseteq Mapped) THEN {} ELSE scopes \cap Mapped

\* preflight_candidate_key_metadata: what the candidate itself has to get right
\* before the realm trusts or signs anything.
Preflight(c) ==
    /\ c.sound
    /\ c.jti = c.base.lineage
    /\ c.exp = c.base.expires

\* Mutant: a checkpoint whose key is published is taken for the realm's.
CheckpointTrustedByName(c) == c.base.kid \in Published

\* RealmSignedCheckpoints: this realm's signature verifies over the
\* predecessor, under a key that it still publishes.
CheckpointTrusted(c) == c.genuine /\ c.base.kid \in Published

\* Mutant: a workload that discloses nothing is let through.
ConformsSilently(c) == c.claims = {} \/ c.base.contract \subseteq c.claims

\* ContractConformance: every entry of the predecessor's contract is disclosed.
Conforms(c) == c.base.contract \subseteq c.claims

\* The reference order on authority: privileges may only be dropped and
\* constraints only be added.
Attenuates(c) ==
    /\ c.invariants \subseteq c.base.invariants
    /\ c.base.contract \subseteq c.contract

\* The settlement of the protocol crate, with what the realm supplies to it.
Settles(c) ==
    /\ CheckpointTrusted(c)
    /\ Conforms(c)
    /\ Attenuates(c)
    /\ c.position = c.base.position + 1

\* Mutant: what a proposal asks for may be in the past.
InitialExpiryPast(proposal, source, t) ==
    IF proposal # None THEN (IF proposal - t <= MaxRequested THEN proposal ELSE None)
    ELSE t + Lifetime

\* initial_expiry: what the proposal asks for, or what the policy makes of the
\* access token's expiry and the realm's lifetime; None when it is refused.
InitialExpiry(proposal, source, t) ==
    IF proposal # None
    THEN IF proposal > t /\ proposal - t <= MaxRequested THEN proposal ELSE None
    ELSE LET default == t + Lifetime
             expiry  == IF source = None \/ Policy = "pic" THEN default
                        ELSE IF Policy = "oauth" \/ source > default THEN source
                        ELSE default
         IN  IF expiry > t THEN expiry ELSE None

\* Mutant: every hop gets a lifetime of its own.
SuccessorRenewed(c, k) ==
    [id |-> issued + 1, lineage |-> c.base.lineage, position |-> c.position,
     invariants |-> c.invariants, contract |-> c.contract, claims |-> c.claims,
     expires |-> now + Lifetime, kid |-> k, signers |-> {}]

\* The checkpoint that settles candidate c, to be signed with key k.  It
\* inherits the absolute expiry of the checkpoint it advances.
Successor(c, k) ==
    [id |-> issued + 1, lineage |-> c.base.lineage, position |-> c.position,
     invariants |-> c.invariants, contract |-> c.contract, claims |-> c.claims,
     expires |-> c.base.expires, kid |-> k, signers |-> {}]

----------------------------------------------------------------------------

Init ==
    /\ status = [k \in Kid |-> "unborn"]
    /\ retiredAt = [k \in Kid |-> None]
    /\ now = 0
    /\ task = [h \in Handler |-> IdleTask]
    /\ tokens = {}
    /\ trail = [x \in Lineage \X Position |-> 0]
    /\ roots = [l \in Lineage |-> None]
    /\ issued = 0
    /\ faults = 0

----------------------------------------------------------------------------
(* The environment: the ring's maintenance, the clock, a crash *)

\* A pass of the key service.  A retired key is kept for `retain`, and since
\* the public half of a token key is kept no longer, it is then forgotten.
RingStep ==
    /\ Ring!Advance
    /\ status' # status
    /\ \A k \in Kid : status'[k] # "archived"
    /\ \A k \in Kid : status[k] = "retired" /\ status'[k] # "retired"
           => retiredAt[k] + Retain <= now
    /\ retiredAt' = [k \in Kid |-> IF status'[k] = "retired" /\ status[k] # "retired"
                                   THEN now ELSE retiredAt[k]]
    /\ UNCHANGED <<now, task, tokens, trail, roots, issued, faults>>

Tick ==
    /\ now < MaxTime
    /\ now' = now + 1
    /\ UNCHANGED <<ringVars, task, tokens, trail, roots, issued, faults>>

\* The process dies; what it was answering is lost, what it recorded is not.
Crash ==
    /\ faults < MaxFaults
    /\ faults' = faults + 1
    /\ task' = [h \in Handler |-> IdleTask]
    /\ UNCHANGED <<ringVars, now, tokens, trail, roots, issued>>

----------------------------------------------------------------------------
(* The checks before anything is signed *)

\* Bound: no more tokens are begun than may be issued.
Room == issued + Cardinality({h \in Handler : task[h].stage # "idle"}) < MaxTokens

\* A request that cannot be read, an initial one that fails a check, or any
\* while the ring has no key: nothing changes and nothing is recorded.
Refuse(h) ==
    /\ task[h].stage = "idle"
    /\ UNCHANGED vars

\* exchange_initial, up to the first signature.
BeginInitial(h, r) ==
    LET l == Cardinality({x \in Lineage : roots[x] # None}) + 1
        expiry == InitialExpiry(r.proposal, r.exp, now)
    IN  /\ task[h].stage = "idle"
        /\ Room /\ l \in Lineage
        /\ SourceAccepted(r, now)
        /\ Derived(r.scopes) # {}
        /\ expiry # None
        /\ roots' = [roots EXCEPT ![l] = [invariants |-> Derived(r.scopes),
                                          contract |-> r.contract, expires |-> expiry]]
        /\ issued' = issued + 1
        /\ \E k \in Active :
               task' = [task EXCEPT ![h] =
                   [stage |-> "signing", kid |-> k, signs |-> 0,
                    work |-> [id |-> issued + 1, lineage |-> l, position |-> 0,
                              invariants |-> Derived(r.scopes), contract |-> r.contract,
                              claims |-> {}, expires |-> expiry,
                              kid |-> k, signers |-> {}]]]
        /\ UNCHANGED <<ringVars, now, tokens, trail, faults>>

\* advance: the signer is chosen first, then the candidate is looked at.
BeginAdvance(h, c) ==
    /\ task[h].stage = "idle"
    /\ Room
    /\ \E k \in Active :
           task' = [task EXCEPT ![h] =
               IF Preflight(c) /\ c.base.expires > now
               THEN [stage |-> "settling", kid |-> k, signs |-> 0, work |-> c]
               ELSE [IdleTask EXCEPT !.stage = "rejecting"]]
    /\ UNCHANGED <<ringVars, now, tokens, trail, roots, issued, faults>>

\* The ring is read again, for the key that signed the predecessor.
Settle(h) ==
    LET c == task[h].work
    IN  /\ task[h].stage = "settling"
        /\ \/ /\ Settles(c)
              /\ task' = [task EXCEPT ![h].stage = "signing",
                                      ![h].work = Successor(c, task[h].kid)]
              /\ issued' = issued + 1
           \/ /\ ~Settles(c)
              /\ task' = [task EXCEPT ![h] = [IdleTask EXCEPT !.stage = "rejecting"]]
              /\ UNCHANGED issued
        /\ UNCHANGED <<ringVars, now, tokens, trail, roots, faults>>

----------------------------------------------------------------------------
(* issue_settled, and what follows it on both paths *)

\* The task once its token is signed with key k as well.
Signed(t, k) ==
    [t EXCEPT !.work.signers = @ \cup {k},
              !.signs = @ + 1,
              !.stage = IF t.signs + 1 = Signatures THEN "recording" ELSE "signing"]

\* Mutant: whatever key the ring signs with is taken.
SignAnyway(h) ==
    /\ task[h].stage = "signing"
    /\ \E k \in Active : task' = [task EXCEPT ![h] = Signed(@, k)]
    /\ UNCHANGED <<ringVars, now, tokens, trail, roots, issued, faults>>

\* RealmTokenSigner::sign: the ring signs with whatever is active by then, and
\* a signature by another key than the one the header names is thrown away.
\* An advancement is rejected for it, an initial exchange ends in an error.
Sign(h) ==
    /\ task[h].stage = "signing"
    /\ \E k \in Active :
           task' = [task EXCEPT ![h] =
               CASE k = @.kid -> Signed(@, k)
                 [] k # @.kid /\ @.work.position = 0 -> IdleTask
                 [] OTHER -> [IdleTask EXCEPT !.stage = "rejecting"]]
    /\ UNCHANGED <<ringVars, now, tokens, trail, roots, issued, faults>>

\* Mutant: the token leaves before it is recorded.
RecordAfter(h) ==
    /\ task[h].stage = "recording"
    /\ tokens' = tokens \cup {task[h].work}
    /\ task' = [task EXCEPT ![h].stage = "answering"]
    /\ UNCHANGED <<ringVars, now, trail, roots, issued, faults>>

\* "Recorded before the token leaves."
Record(h) ==
    /\ task[h].stage = "recording"
    /\ trail' = [trail EXCEPT ![<<task[h].work.lineage, task[h].work.position>>] = @ + 1]
    /\ task' = [task EXCEPT ![h].stage = "answering"]
    /\ UNCHANGED <<ringVars, now, tokens, roots, issued, faults>>

\* The trail cannot be written: no token leaves.
RecordFails(h) ==
    /\ task[h].stage \in {"recording", "rejecting"}
    /\ faults < MaxFaults
    /\ faults' = faults + 1
    /\ task' = [task EXCEPT ![h] = IdleTask]
    /\ UNCHANGED <<ringVars, now, tokens, trail, roots, issued>>

Answer(h) ==
    /\ task[h].stage = "answering"
    /\ tokens' = tokens \cup {task[h].work}
    /\ task' = [task EXCEPT ![h] = IdleTask]
    /\ UNCHANGED <<ringVars, now, trail, roots, issued, faults>>

\* record_advancement_rejected, and the answer "invalid_grant".  The trail of
\* this model keeps the issues only.
Reject(h) ==
    /\ task[h].stage = "rejecting"
    /\ task' = [task EXCEPT ![h] = IdleTask]
    /\ UNCHANGED <<ringVars, now, tokens, trail, roots, issued, faults>>

----------------------------------------------------------------------------
(* What clients send *)

\* What a workload that follows the protocol sends, whatever authority it asks
\* for and whatever it discloses.
WellFormed(b) ==
    [base : {b}, genuine : {TRUE}, sound : {TRUE}, jti : {b.lineage}, exp : {b.expires},
     position : {b.position + 1}, invariants : SUBSET Mapped, contract : SUBSET Claim,
     claims : SUBSET Claim]

\* A predecessor that a client made up from a token it holds: wider, unbound
\* and longer lived, so that no signature of the realm verifies over it.
MadeUp(b) == [b EXCEPT !.invariants = Mapped, !.contract = {}, !.expires = @ + 1]

\* A candidate that asks for all of its predecessor's authority and is right
\* but for one thing.
OneWrong(b) ==
    LET c == CHOOSE c \in WellFormed(b) : /\ c.invariants = b.invariants
                                          /\ c.contract = b.contract
                                          /\ c.claims = Claim
    IN  {[c EXCEPT !.sound = FALSE],
         [c EXCEPT !.jti = @ + 1],
         [c EXCEPT !.exp = @ + 1],
         [c EXCEPT !.position = b.position],
         [c EXCEPT !.base = MadeUp(b), !.exp = b.expires + 1, !.genuine = FALSE,
                   !.invariants = Mapped, !.contract = {}]}

Candidates == UNION {WellFormed(b) \cup OneWrong(b) : b \in tokens}

HandlerStep(h) ==
    \/ Refuse(h)
    \/ \E r \in Request : BeginInitial(h, r)
    \/ \E c \in Candidates : BeginAdvance(h, c)
    \/ Settle(h)
    \/ Sign(h)
    \/ Record(h)
    \/ RecordFails(h)
    \/ Answer(h)
    \/ Reject(h)

Next ==
    \/ RingStep \/ Tick \/ Crash
    \/ \E h \in Handler : HandlerStep(h)

Spec == Init /\ [][Next]_vars

----------------------------------------------------------------------------
(* Properties *)

\* The type invariant: the handlers' state, the tokens and the trail.  A token
\* is dated, with an instant that lies ahead of the epoch; how far ahead, an
\* access token's own expiry decides, which nothing in the code bounds.
TypeOK ==
    /\ status \in [Kid -> Ring!State]
    /\ retiredAt \in [Kid -> 0..MaxTime \cup {None}]
    /\ now \in 0..MaxTime
    /\ tokens \subseteq Token
    /\ roots \in [Lineage -> Root \cup {None}]
    /\ \A h \in Handler :
           \/ task[h] \in {IdleTask, [IdleTask EXCEPT !.stage = "rejecting"]}
           \/ /\ task[h].stage = "settling" /\ task[h].signs = 0
              /\ task[h].kid \in Kid
              /\ task[h].work \in Candidate
           \/ /\ task[h].stage \in {"signing", "recording", "answering"}
              /\ task[h].signs \in 0..Signatures
              /\ task[h].stage = "signing" <=> task[h].signs < Signatures
              /\ task[h].work \in Token
              /\ task[h].kid = task[h].work.kid
    /\ trail \in [Lineage \X Position -> 0..MaxTokens]
    /\ issued \in 0..MaxTokens /\ faults \in 0..MaxFaults

\* "Authority that reached a caller with no durable trace of who obtained it
\* is exactly what a continuity system must not produce": of every checkpoint
\* at least as many issues are recorded as clients hold, through crashes and
\* failures of the trail, and with siblings of one position.
ReleasedIsRecorded ==
    \A l \in Lineage, p \in Position :
        Cardinality({t \in tokens : t.lineage = l /\ t.position = p}) <= trail[<<l, p>>]

\* "A lineage cannot outlive the authority it started from by advancing
\* repeatedly": whatever a candidate claims, every token of a lineage expires
\* when its first one does.
LineageKeepsItsExpiry == \A t \in tokens : t.expires = roots[t.lineage].expires

\* Along a lineage privileges are only dropped and constraints only added,
\* though no checkpoint is stored and each hop is checked on its own.
AuthorityNeverGrows ==
    \A t \in tokens : /\ t.invariants \subseteq roots[t.lineage].invariants
                      /\ roots[t.lineage].contract \subseteq t.contract

\* A contract governs the following hop, and since it is only refined, every
\* hop: each workload that advanced the lineage disclosed all of what the
\* first contract requires.
ContractsBind ==
    \A t \in tokens : t.position > 0 => roots[t.lineage].contract \subseteq t.claims

\* A rotation while a token is signed never yields one whose parts are signed
\* by different keys, or by another than its header names.
OneKeySignsAToken == \A t \in tokens : t.signers = {t.kid}
=============================================================================
