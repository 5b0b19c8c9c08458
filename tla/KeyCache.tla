------------------------------ MODULE KeyCache ------------------------------
(***************************************************************************)
(* The keys a realm takes from others, and the requests judged by them:    *)
(* AttesterKeyCache, IdpKeyCache, the fetcher behind both and the task of  *)
(* WellKnownService that keeps them fresh (src/crates/pic-x-realm/src).    *)
(*                                                                         *)
(* One task asks every source in turn, sleeps and starts again.  Requests  *)
(* only ever read the caches; an advancement reads them in its preflight   *)
(* and is settled on the answer it got then.  Meanwhile the sources change *)
(* what they publish, go away, stall and come back.                        *)
(*                                                                         *)
(* Time is kept as ages and remaining times, so it has no end.  A timer    *)
(* that is due goes off before time passes on; how late a busy runtime     *)
(* runs it is left out.                                                    *)
(***************************************************************************)
EXTENDS Evidence

CONSTANTS
    Attesters,          \* trusted attesters: [id, issuer, proof_types], in order
    Profiles,           \* exchange profiles, in order
    Plain,              \* the sources that are asked over plain HTTP
    Bodies,             \* what each source may publish
    Presentations,      \* what workloads present
    AccessTokens,       \* what clients exchange
    RefreshEvery, RetryUntilReady, RequestTimeout,
    ServeStaleFor,      \* the realm's key_cache_stale_for
    ShutdownTimeout,    \* how long requests are drained
    Now                 \* the wall clock, by which evidence is in force

\* What is asked, in the order of a sweep: attesters, then providers.
Order  == [i \in DOMAIN Attesters |-> Attesters[i].id]
              \o [i \in DOMAIN Profiles |-> Profiles[i].id]
Source == ToSet(Order)
IsProvider(s) == \E f \in ToSet(Profiles) : f.id = s

\* A provider is asked for its discovery document and then for its keys.
Hops(s) == IF IsProvider(s) THEN 2 ELSE 1

ASSUME KeyCacheAssumption ==
    /\ Attesters \in Seq(ToSet(Attesters)) /\ Profiles \in Seq(ToSet(Profiles))
    /\ Order # <<>> /\ IsInjective(Order)
    /\ Plain \subseteq Source
    /\ RefreshEvery \in Nat \ {0} /\ RetryUntilReady \in 1..RefreshEvery
    /\ RequestTimeout \in Nat \ {0}
    /\ ServeStaleFor \in Nat /\ ShutdownTimeout \in Nat
    /\ \A p \in Presentations : /\ p.disclosures \in Seq(ToSet(p.disclosures))
                                /\ IsFiniteSet(p.claims)

VARIABLES
    published,  \* what every source publishes now
    mode,       \* how a source answers: "up", "down", "stalls", "misnamed"
    entries,    \* the caches: an entry for every source that ever answered
    task,       \* the refresh task
    request,    \* the advancement in flight, between preflight and settlement
    watched,    \* history: a source, any of them,
    overran,    \* whether any answer was awaited for longer than the timeout,
    age         \* and if not, how long ago the watched entry was asked for

vars == <<published, mode, entries, task, request, watched, age, overran>>
sourceVars == <<published, mode>>
histVars == <<watched, age, overran>>

\* The longest a sweep takes, and the longest an answer the source gave is
\* used: until the next sweep asked again and failed, and for ServeStaleFor
\* from then on, or until the surface is drained.
Sweep == RequestTimeout * (Len(Attesters) + 2 * Len(Profiles))
Larger(a, b) == IF a > b THEN a ELSE b
LongestUse == Sweep + RequestTimeout + RefreshEvery
                  + Larger(ServeStaleFor, ShutdownTimeout)

\* Ages are counted up to the first value beyond the bound.
Older(a) == IF a \in 0..LongestUse THEN a + 1 ELSE a

----------------------------------------------------------------------------

Asking(i, hop) == [phase |-> "asking", at |-> i, hop |-> hop,
                   left |-> RequestTimeout, body |-> None]
Idle(phase, left) == [phase |-> phase, at |-> 1, hop |-> 1, left |-> left,
                      body |-> None]

Init ==
    /\ published \in [Source -> UNION {Bodies[s] : s \in Source}]
    /\ \A s \in Source : published[s] \in Bodies[s]
    /\ mode = [s \in Source |-> "up"]
    /\ entries = [s \in Source |-> None]
    /\ task = Idle("off", 0)
    /\ request = None
    /\ watched \in Source /\ age = None /\ overran = FALSE

----------------------------------------------------------------------------
(* The sources and the clock *)

Publish(s) ==
    /\ published' \in {[published EXCEPT ![s] = b] : b \in Bodies[s] \ {published[s]}}
    /\ UNCHANGED <<mode, entries, task, request, histVars>>

Change(s) ==
    /\ mode' \in {[mode EXCEPT ![s] = m] :
                     m \in {"up", "down", "stalls"}
                             \cup IF IsProvider(s) THEN {"misnamed"} ELSE {}}
    /\ mode' # mode
    /\ UNCHANGED <<published, entries, task, request, histVars>>

\* What is asked, and whether the timeout covers what is awaited: over plain
\* HTTP it ends with the head of the answer.
Asked == Order[task.at]
Timed == task.phase = "asking" \/ (task.phase = "receiving" /\ Asked \notin Plain)

Tick ==
    /\ task.phase # "off" /\ request = None
    /\ task.left = 0 => task.phase \in {"receiving", "stopped"} /\ ~Timed
    /\ overran' = (overran \/ (task.phase = "receiving" /\ task.left = 0))
    /\ task' = [task EXCEPT !.left = IF @ = 0 THEN 0 ELSE @ - 1]
    /\ entries' = [s \in Source |->
                      IF entries[s] = None THEN None
                      ELSE [entries[s] EXCEPT
                               !.failed = IF @ \in 0..ServeStaleFor THEN @ + 1 ELSE @]]
    /\ age' = IF overran' THEN None ELSE Older(age)
    /\ UNCHANGED <<sourceVars, request, watched>>

----------------------------------------------------------------------------
(* The refresh task *)

\* start_key_refresh: the first sweep runs at once.
StartKeyRefresh ==
    /\ task.phase = "off"
    /\ task' = Asking(1, 1)
    /\ UNCHANGED <<sourceVars, entries, request, histVars>>

\* is_ready: every configured source has answered once.
Ready(es) == \A s \in Source : es[s] # None

\* The next source, or sleep: shortly while a source never answered.
After(es) ==
    IF task.at < Len(Order) THEN Asking(task.at + 1, 1)
    ELSE Idle("asleep", IF Ready(es) THEN RefreshEvery ELSE RetryUntilReady)

\* Mutant: a failure counts from the last attempt.
RefreshFailedAgain(s) ==
    IF entries[s] = None THEN entries
    ELSE [entries EXCEPT ![s].failed = 0]

\* A refresh that fails marks an entry once and keeps its keys.
RefreshFailed(s) ==
    IF entries[s] = None \/ entries[s].failed # None THEN entries
    ELSE [entries EXCEPT ![s].failed = 0]

Failed ==
    /\ entries' = RefreshFailed(Asked)
    /\ task' = After(entries')

Fresh(body) == [keys |-> KeySetOf(body), failed |-> None]

\* The head of the answer is there.
AnswerBegins ==
    /\ task.phase = "asking"
    /\ mode[Asked] # "down"
    /\ task' = [task EXCEPT !.phase = "receiving",
                            !.body = published[Asked]]
    /\ UNCHANGED <<sourceVars, entries, request, histVars>>

\* The rest of it: a discovery document that names the provider leads to its
\* keys, a key set replaces the entry, an empty one too.
AnswerEnds ==
    /\ task.phase = "receiving"
    /\ mode[Asked] # "stalls"
    /\ IF task.hop < Hops(Asked)
       THEN IF mode[Asked] = "misnamed" THEN Failed
            ELSE task' = Asking(task.at, task.hop + 1) /\ UNCHANGED entries
       ELSE IF ~Parses(task.body) THEN Failed
            ELSE /\ entries' = [entries EXCEPT ![Asked] = Fresh(task.body)]
                 /\ task' = After(entries')
    /\ age' = IF ~overran /\ Asked = watched /\ task.hop = Hops(Asked) /\ Parses(task.body)
              THEN RequestTimeout - task.left ELSE age
    /\ UNCHANGED <<sourceVars, request, watched, overran>>

\* Refused, answered with an error, cut off or too large.
FetchFails ==
    /\ task.phase \in {"asking", "receiving"}
    /\ mode[Asked] = "down"
    /\ Failed
    /\ UNCHANGED <<sourceVars, request, histVars>>

TimesOut ==
    /\ Timed /\ task.left = 0
    /\ mode[Asked] = "stalls"
    /\ Failed
    /\ UNCHANGED <<sourceVars, request, histVars>>

\* Mutant: the first source is left out of every later sweep.
WakesBehind ==
    /\ task.phase = "asleep" /\ task.left = 0
    /\ task' = Asking(Len(Order), 1)
    /\ UNCHANGED <<sourceVars, entries, request, histVars>>

Wakes ==
    /\ task.phase = "asleep" /\ task.left = 0
    /\ task' = Asking(1, 1)
    /\ UNCHANGED <<sourceVars, entries, request, histVars>>

\* stop aborts the task wherever it is, and then drains the surface.
Stop ==
    /\ task.phase \notin {"off", "draining", "stopped"}
    /\ task' = Idle("draining", ShutdownTimeout)
    /\ UNCHANGED <<sourceVars, entries, request, histVars>>

Drained ==
    /\ task.phase = "draining" /\ task.left = 0
    /\ request = None
    /\ task' = Idle("stopped", 0)
    /\ UNCHANGED <<sourceVars, entries, request, histVars>>

----------------------------------------------------------------------------
(* Requests *)

Open == task.phase \notin {"off", "stopped"}

\* keys_for: an entry, unless refreshing it has failed for too long.
Usable(s) ==
    /\ entries[s] # None
    /\ entries[s].failed \in {None} \cup 0..ServeStaleFor

AttesterOf(p) == Attesters[AttesterFor(p, Attesters)]

Vouched(p) ==
    /\ WellFormed(p)
    /\ AttesterFor(p, Attesters) # 0
    /\ "sd-jwt" \in AttesterOf(p).proof_types
    /\ Usable(AttesterOf(p).id)
    /\ EvidenceHolds(p, entries[AttesterOf(p).id].keys, Now)

\* preflight: validate_and_remember.  A presentation that does not hold changes
\* nothing.
Present(p) ==
    /\ Open /\ request = None
    /\ Vouched(p)
    /\ request' = [evidence |-> p, claims |-> ClaimsOf(p), cnf |-> p.cnf,
                   attester |-> AttesterOf(p).id]
    /\ UNCHANGED <<sourceVars, entries, task, histVars>>

\* settle: PorValidator::validate finds the same bytes and repeats its answer,
\* whatever the cache holds by now; accepted() attributes it.
Settle ==
    /\ request # None
    /\ request' = None
    /\ UNCHANGED <<sourceVars, entries, task, histVars>>

\* select_initial_profile and validate_source_jwt: what exchange_initial derives
\* authority from.
ProfileOf(t) == Profiles[ProfileFor(t, Profiles)]

\* Mutant: whatever source has the key speaks for every profile.
SourceAcceptedByAny(t) ==
    /\ ProfileFor(t, Profiles) # 0
    /\ SourceInForce(t, ProfileOf(t), Now)
    /\ \E s \in Source : Usable(s) /\ SourceSignatureVerifies(t, entries[s].keys)

SourceAccepted(t) ==
    /\ ProfileFor(t, Profiles) # 0
    /\ SourceInForce(t, ProfileOf(t), Now)
    /\ Usable(ProfileOf(t).id)
    /\ SourceSignatureVerifies(t, entries[ProfileOf(t).id].keys)

----------------------------------------------------------------------------

TaskStep == StartKeyRefresh \/ AnswerBegins \/ AnswerEnds \/ FetchFails
                \/ TimesOut \/ Wakes \/ Drained
Requests == (\E p \in Presentations : Present(p)) \/ Settle

Next ==
    \/ \E s \in Source : Publish(s) \/ Change(s)
    \/ Tick \/ TaskStep \/ Stop \/ Requests

\* The runtime runs a task that is ready, a request that was begun is finished,
\* and time passes however many requests there are.
Fairness == WF_vars(TaskStep) /\ WF_vars(Settle) /\ SF_vars(Tick)

Spec == Init /\ [][Next]_vars /\ Fairness

----------------------------------------------------------------------------
(* What is checked *)

\* "A stale set beats no set", but not for ever: however the sources go and come
\* back, whatever a request is accepted on is no older than the configured
\* window allows, as long as no answer outlasted its timeout
\* (AttesterKeyCache::keys_for, IdpKeyCache::keys_for).
StaleIsBounded == Open /\ ~overran /\ Usable(watched) => age <= LongestUse

\* An advancement is settled on what the issuer of its evidence said, and nobody
\* else, though the cache may have changed since the preflight: a key that the
\* attester published for the algorithm signed it, and every claim it carries is
\* one the issuer committed to, said once and under a name of its own
\* (SdJwtProfileValidator).
IssuerSpeaks ==
    request # None =>
        LET p == request.evidence IN
        /\ \E b \in Bodies[request.attester] :
               \E k \in b.keys : /\ k.id = p.signer /\ p.kid \in {None, k.kid}
                                 /\ ExpectedAlgorithm(k) = p.alg /\ ~k.private
        /\ \A d \in ToSet(p.disclosures) : d \in p.sd /\ ~d.reserved
        /\ Cardinality(request.claims) = Cardinality(p.claims) + Len(p.disclosures)

\* An access token is accepted only on the word of the provider it names, however
\* the providers' answers come in: a provider configured for its issuer and
\* audience published, under the token's `kid` if it has one, the key that signed
\* it, for signatures and without the private half, for no other algorithm than
\* the header names, and of a length that still protects (validate_source_jwt,
\* IdpKeyCache).
ProviderSpeaks ==
    \A t \in AccessTokens : Open /\ SourceAccepted(t) =>
        \E f \in ToSet(Profiles) : \E b \in Bodies[f.id] : \E k \in b.keys :
            /\ f.issuer = t.iss /\ f.audience \in t.aud
            /\ k.id = t.signer /\ t.kid \in {None, k.kid}
            /\ k.use \in {None, "sig"} /\ ~k.private
            /\ k.alg \in {None, t.alg}
            /\ k.kind = "rsa" => k.bits >= MinimumRsaBits

\* A source that stays up is caught up with, whatever the others do short of
\* stalling an answer that nothing times out: what it publishes is what the
\* realm holds (start_key_refresh).
Quiet(s) ==
    /\ mode[s] = "up" /\ Parses(published[s])
    /\ \A x \in Plain : mode[x] # "stalls"
    /\ task.phase \notin {"draining", "stopped"}

CaughtUp(s) == entries[s] = Fresh(published[s])

CatchesUp ==
    <>[][published' = published]_vars =>
        \A s \in Source : <>[]Quiet(s) => <>[]CaughtUp(s)
=============================================================================
