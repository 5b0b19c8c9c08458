------------------------------ MODULE KeyRing ------------------------------
(***************************************************************************)
(* A key ring on the local filesystem: the DirectoryKeyManager of          *)
(* pic-x-std (src/crates/pic-x-std/src/keys.rs).                           *)
(*                                                                         *)
(* The ring is a file, ring.json, that describes every key, and one PEM    *)
(* file per key with its private half.  `maintain` moves the keys along    *)
(* their life: it reads the ring, works on a copy in memory, writes and    *)
(* deletes PEM files as it goes and replaces ring.json at the end.  Calls  *)
(* to `sign` run beside it without a common lock, the process may crash    *)
(* between any two effects, and verifiers hold cached copies of the        *)
(* published key set.                                                      *)
(*                                                                         *)
(* ring.json is a function from key identifiers to entries.  An identifier *)
(* the file does not name is "unborn" when it never did and "forgotten"    *)
(* when it did once; identifiers are thumbprints of random keys, so none   *)
(* is made twice.  The order of the entries in the file decides nothing:   *)
(* OneSigner and OneWaiting show that the two searches that take the first *)
(* match have at most one.                                                 *)
(***************************************************************************)
EXTENDS Integers

CONSTANTS
    Kid,            \* key identifiers
    Algorithm,      \* what a ring can be configured to sign with
    Caller,         \* threads that call `sign`
    Verifier,       \* clients that cache the published key set
    Ahead,          \* KeyPolicy.publish_ahead
    Rotate,         \* KeyPolicy.rotate_every
    Retain,         \* KeyPolicy.retain
    VerifyRetain,   \* KeyPolicy.verify_retain
    MaxAge,         \* KEY_SET_MAX_AGE, how long a verifier may keep its copy
    PassBound,      \* bound: how long one pass of `maintain` may take
    SignBound,      \* bound: how long one call of `sign` may take
    MaxTime,        \* bound: the last instant the clock reaches
    MaxFaults,      \* bound: how many crashes and I/O failures happen
    None            \* an absent Option

\* What check_key_lifecycle refuses to start without (core/config.rs), with
\* the one inequality that the code leaves to the speed of the disk: a pass
\* that takes time publishes a key later than the created_at it wrote down.
ASSUME KeyRingAssumption ==
    /\ Ahead \in Nat /\ Rotate \in Nat /\ Retain \in Nat
    /\ VerifyRetain \in Nat /\ MaxAge \in Nat
    /\ PassBound \in Nat /\ SignBound \in Nat
    /\ MaxTime \in Nat /\ MaxFaults \in Nat
    /\ 0 < Ahead /\ Ahead < Rotate
    /\ Rotate <= Retain
    /\ MaxAge + PassBound <= Ahead
    /\ PassBound + SignBound < Retain
    /\ None \notin Nat \cup Kid \cup Algorithm

VARIABLES
    ring,       \* ring.json, as it is on disk
    pem,        \* the keys whose <kid>.pem is on disk
    signers,    \* the process's cache of parsed private keys
    algorithm,  \* what the running process is configured to sign with
    now,        \* the clock, in ticks
    phase,      \* where `maintain` is; "down" when the process is not running
    startedAt,  \* `now` as `maintain` read it
    draft,      \* the ring `maintain` holds in memory
    doomed,     \* keys whose `forget` has not begun
    unlinking,  \* the key whose `forget` is between the cache and the file
    call,       \* what every caller of `sign` has reached
    copy,       \* the key set every verifier last fetched
    signedAt,   \* history: when a key last signed
    faults      \* how many crashes and failures there were

diskVars == <<ring, pem>>
passVars == <<phase, startedAt, draft, doomed, unlinking>>
vars == <<ring, pem, signers, algorithm, now, phase, startedAt, draft,
          doomed, unlinking, call, copy, signedAt, faults>>

----------------------------------------------------------------------------
(* The entries *)

InRing == {"published", "active", "retired", "archived"}

Time == Nat \cup {None}

Entry == [state       : InRing \cup {"unborn", "forgotten"},
          kind        : Algorithm \cup {None},
          createdAt   : Time,
          activatedAt : Time,
          retiredAt   : Time]

\* The entry of an identifier ring.json does not name.
Nothing(state) == [state |-> state, kind |-> None, createdAt |-> None,
                   activatedAt |-> None, retiredAt |-> None]

Named(r)     == {k \in Kid : r[k].state \in InRing}
Active(r)    == {k \in Kid : r[k].state = "active"}
Published(r) == {k \in Kid : r[k].state = "published"}

NoDraft == [k \in Kid |-> Nothing("unborn")]

\* seconds_verify_retained: never shorter than the private half's retention.
VerifyRetained == IF VerifyRetain > Retain THEN VerifyRetain ELSE Retain
HasArchivePhase == VerifyRetained > Retain

----------------------------------------------------------------------------
(* The steps of `maintain`, as functions of the ring it holds *)

\* The entry `create` returns: signing at once, or published and waiting.
NewEntry(signing, t) ==
    [state       |-> IF signing THEN "active" ELSE "published",
     kind        |-> algorithm,
     createdAt   |-> t,
     activatedAt |-> IF signing THEN t ELSE None,
     retiredAt   |-> None]

\* Mutant: the instant of retirement is not written down.
RetireEntryUndated(e, t) ==
    IF e.state = "active" THEN [e EXCEPT !.state = "retired"] ELSE e

RetireEntry(e, t) ==
    IF e.state = "active" THEN [e EXCEPT !.state = "retired", !.retiredAt = t] ELSE e

RetireActive(r, t) == [k \in Kid |-> RetireEntry(r[k], t)]

\* No key of the configured kind signs, so one has to be made that does.
NeedsIncumbent(r) == ~ \E k \in Active(r) : r[k].kind = algorithm

\* Mutant: a published key takes over at the next pass.
DueAtOnce(r, t) == Published(r)

\* The published keys whose window has passed.
Due(r, t) == {k \in Published(r) : r[k].createdAt + Ahead <= t}

\* Mutant: the incumbent is not retired.
HandOverBeside(r, t) ==
    [k \in Kid |-> IF k \in Due(r, t)
                   THEN [r[k] EXCEPT !.state = "active", !.activatedAt = t]
                   ELSE r[k]]

\* The loop that lets every due key take over, oldest first: each retires the
\* one before it, so the newest of them is left signing.
HandOver(r, t) ==
    IF Due(r, t) = {}
    THEN r
    ELSE LET newest == CHOOSE k \in Due(r, t) :
                           \A j \in Due(r, t) : r[j].createdAt <= r[k].createdAt
             taken(k) == [r[k] EXCEPT !.state = "active", !.activatedAt = t]
         IN  [k \in Kid |-> IF k = newest THEN taken(k)
                            ELSE IF k \in Due(r, t) THEN RetireEntry(taken(k), t)
                            ELSE RetireEntry(r[k], t)]

\* Mutant: nobody looks whether a successor waits already.
SuccessorDueAgain(r, t) ==
    \E k \in Active(r) : r[k].activatedAt + Rotate - Ahead <= t

\* The incumbent is within publish_ahead of its end and nobody waits.
SuccessorDue(r, t) ==
    /\ \E k \in Active(r) : /\ r[k].activatedAt # None
                            /\ r[k].activatedAt + Rotate - Ahead <= t
    /\ Published(r) = {}

\* Mutants: a key's age is counted from its activation, whatever its state.
SpentByActivation(r, t) ==
    {k \in Kid : /\ r[k].state \in {"active", "retired"}
                 /\ r[k].activatedAt + Retain <= t}
ExpiredByActivation(r, t) ==
    {k \in Kid : /\ r[k].state = "archived"
                 /\ r[k].activatedAt + VerifyRetained <= t}

\* The two ends of a key's life: the private half goes, then the entry.
Spent(r, t) ==
    {k \in Kid : /\ r[k].state = "retired"
                 /\ r[k].retiredAt # None
                 /\ r[k].retiredAt + Retain <= t}
Expired(r, t) ==
    {k \in Kid : /\ r[k].state = "archived"
                 /\ r[k].retiredAt # None
                 /\ r[k].retiredAt + VerifyRetained <= t}

\* Mutant: one key per pass.
ToArchiveOne(r, t) ==
    IF HasArchivePhase /\ Spent(r, t) # {} THEN {CHOOSE k \in Spent(r, t) : TRUE}
                                           ELSE {}

ToArchive(r, t) == IF HasArchivePhase THEN Spent(r, t) ELSE {}
ToForget(r, t)  == IF HasArchivePhase THEN Expired(r, t)
                                      ELSE Spent(r, t) \cup Expired(r, t)

Aged(r, t) ==
    [k \in Kid |-> IF k \in ToArchive(r, t) THEN [r[k] EXCEPT !.state = "archived"]
                   ELSE IF k \in ToForget(r, t) THEN Nothing("forgotten")
                   ELSE r[k]]

----------------------------------------------------------------------------
(* The initial state: an empty volume and no process *)

IdleCall == [stage |-> "idle", kid |-> None, since |-> None]

Init ==
    /\ ring = NoDraft
    /\ pem = {}
    /\ signers = {}
    /\ algorithm \in Algorithm
    /\ now = 0
    /\ phase = "down"
    /\ startedAt = None
    /\ draft = NoDraft
    /\ doomed = {}
    /\ unlinking = {}
    /\ call = [c \in Caller |-> IdleCall]
    /\ copy = [v \in Verifier |-> [at |-> None, kids |-> {}]]
    /\ signedAt = [k \in Kid |-> None]
    /\ faults = 0

----------------------------------------------------------------------------
(* The process and its clock *)

EndPass(where) ==
    /\ phase' = where
    /\ startedAt' = None
    /\ draft' = NoDraft
    /\ doomed' = {}
    /\ unlinking' = {}

\* The configuration is read once, so what the ring signs with can only
\* change here.  KeyService runs a pass before it reports that it started.
Restart(a) ==
    /\ phase = "down"
    /\ phase' = "starting"
    /\ algorithm' = a
    /\ UNCHANGED <<diskVars, signers, now, startedAt, draft, doomed, unlinking,
                   call, copy, signedAt, faults>>

\* A graceful stop: KeyService waits for the pass it is in.
Stop ==
    /\ phase = "idle"
    /\ phase' = "down"
    /\ signers' = {}
    /\ call' = [c \in Caller |-> IdleCall]
    /\ UNCHANGED <<diskVars, algorithm, now, startedAt, draft, doomed, unlinking,
                   copy, signedAt, faults>>

\* What is in memory is lost; what is on disk stays as it was.
Crash ==
    /\ phase # "down"
    /\ faults < MaxFaults
    /\ faults' = faults + 1
    /\ EndPass("down")
    /\ signers' = {}
    /\ call' = [c \in Caller |-> IdleCall]
    /\ UNCHANGED <<diskVars, algorithm, now, copy, signedAt>>

\* A pass and a call of `sign` take bounded time; nothing else is in a hurry.
Tick ==
    /\ now < MaxTime
    /\ startedAt # None => now < startedAt + PassBound
    /\ \A c \in Caller :
           call[c].stage # "idle" => now < call[c].since + SignBound
    /\ now' = now + 1
    /\ UNCHANGED <<diskVars, signers, algorithm, passVars, call, copy,
                   signedAt, faults>>

----------------------------------------------------------------------------
(* maintain *)

\* Take the lock, read the clock and the ring.
StartPass ==
    /\ phase \in {"starting", "idle"}
    /\ phase' = "incumbent"
    /\ startedAt' = now
    /\ draft' = ring
    /\ UNCHANGED <<diskVars, signers, algorithm, now, doomed, unlinking, call,
                   copy, signedAt, faults>>

\* The identifiers left: a random key is always a new one.
Fresh == {k \in Kid : ring[k].state = "unborn" /\ k \notin pem}

\* `create`: the private half reaches the disk before any ring names the key.
Create(k, r, signing) ==
    /\ k \in Fresh
    /\ pem' = pem \cup {k}
    /\ draft' = [r EXCEPT ![k] = NewEntry(signing, startedAt)]

\* An empty ring, or one whose active key is of another kind, gets a key that
\* signs at once.
MakeIncumbent(k) ==
    /\ phase = "incumbent"
    /\ NeedsIncumbent(draft)
    /\ Create(k, RetireActive(draft, startedAt), TRUE)
    /\ phase' = "handover"
    /\ UNCHANGED <<ring, signers, algorithm, now, startedAt, doomed, unlinking,
                   call, copy, signedAt, faults>>

KeepIncumbent ==
    /\ phase = "incumbent"
    /\ ~NeedsIncumbent(draft)
    /\ phase' = "handover"
    /\ UNCHANGED <<diskVars, signers, algorithm, now, startedAt, draft, doomed,
                   unlinking, call, copy, signedAt, faults>>

\* What the pass will archive or forget is decided before the first deletion.
Doom == doomed' = ToArchive(draft', startedAt) \cup ToForget(draft', startedAt)

\* Hand over, and announce a successor when one is due.
HandOverAndAnnounce(k) ==
    /\ phase = "handover"
    /\ SuccessorDue(HandOver(draft, startedAt), startedAt)
    /\ Create(k, HandOver(draft, startedAt), FALSE)
    /\ Doom
    /\ phase' = "forget"
    /\ UNCHANGED <<ring, signers, algorithm, now, startedAt, unlinking, call,
                   copy, signedAt, faults>>

HandOverOnly ==
    /\ phase = "handover"
    /\ ~SuccessorDue(HandOver(draft, startedAt), startedAt)
    /\ draft' = HandOver(draft, startedAt)
    /\ Doom
    /\ phase' = "forget"
    /\ UNCHANGED <<diskVars, signers, algorithm, now, startedAt, unlinking,
                   call, copy, signedAt, faults>>

\* Mutant: the file goes, the cached key stays.
ForgetFileOnly(k) ==
    /\ phase = "forget"
    /\ unlinking = {}
    /\ k \in doomed
    /\ doomed' = doomed \ {k}
    /\ unlinking' = {k}
    /\ UNCHANGED <<diskVars, signers, algorithm, now, phase, startedAt, draft,
                   call, copy, signedAt, faults>>

\* `forget`, first half: drop the parsed key from the cache.
ForgetSigner(k) ==
    /\ phase = "forget"
    /\ unlinking = {}
    /\ k \in doomed
    /\ signers' = signers \ {k}
    /\ doomed' = doomed \ {k}
    /\ unlinking' = {k}
    /\ UNCHANGED <<diskVars, algorithm, now, phase, startedAt, draft, call,
                   copy, signedAt, faults>>

\* `forget`, second half: remove the file; already gone is fine.
ForgetFile(k) ==
    /\ k \in unlinking
    /\ pem' = pem \ {k}
    /\ unlinking' = {}
    /\ UNCHANGED <<ring, signers, algorithm, now, phase, startedAt, draft,
                   doomed, call, copy, signedAt, faults>>

\* Mutant: a pass that only archived or forgot counts as one that did nothing.
WriteRingIfRotated ==
    /\ phase = "forget"
    /\ doomed = {} /\ unlinking = {}
    /\ ring' = IF draft = ring THEN ring ELSE Aged(draft, startedAt)
    /\ EndPass("idle")
    /\ UNCHANGED <<pem, signers, algorithm, now, call, copy, signedAt, faults>>

\* `write_ring`: the file is replaced in one step.  When nothing changed the
\* draft is what is on disk already and the code writes nothing.
WriteRing ==
    /\ phase = "forget"
    /\ doomed = {} /\ unlinking = {}
    /\ ring' = Aged(draft, startedAt)
    /\ EndPass("idle")
    /\ UNCHANGED <<pem, signers, algorithm, now, call, copy, signedAt, faults>>

\* Any of the pass's I/O fails: it returns the error, ring.json is as it was
\* and the PEM files it already made or removed stay made or removed.
PassFails ==
    /\ phase \in {"incumbent", "handover", "forget"}
    /\ faults < MaxFaults
    /\ faults' = faults + 1
    /\ EndPass("idle")
    /\ UNCHANGED <<diskVars, signers, algorithm, now, call, copy, signedAt>>

\* The bound on Kid: with no identifier left, `create` fails.
OutOfKids ==
    /\ phase \in {"incumbent", "handover"}
    /\ Fresh = {}
    /\ EndPass("idle")
    /\ UNCHANGED <<diskVars, signers, algorithm, now, call, copy, signedAt, faults>>

----------------------------------------------------------------------------
(* sign *)

\* active_key_id reads ring.json; the answer may be stale at the next line.
SignChoose(c, k) ==
    /\ phase # "down"
    /\ call[c].stage = "idle"
    /\ k \in Active(ring)
    /\ call' = [call EXCEPT ![c] = [stage |-> "chosen", kid |-> k, since |-> now]]
    /\ UNCHANGED <<diskVars, signers, algorithm, now, passVars, copy, signedAt,
                   faults>>

\* signer: the cache, else the file, which is then cached; with neither the
\* call answers "not ready".  It reads ring.json once more for the key's kind:
\* PrivateHalfGone shows that a key whose file is there is still in the ring.
SignLoad(c) ==
    /\ call[c].stage = "chosen"
    /\ LET k == call[c].kid
           found == k \in signers \cup pem
       IN  /\ signers' = IF found THEN signers \cup {k} ELSE signers
           /\ call' = [call EXCEPT ![c] = IF found THEN [@ EXCEPT !.stage = "loaded"]
                                                   ELSE IdleCall]
    /\ UNCHANGED <<diskVars, algorithm, now, passVars, copy, signedAt, faults>>

SignFinish(c) ==
    /\ call[c].stage = "loaded"
    /\ signedAt' = [signedAt EXCEPT ![call[c].kid] = now]
    /\ call' = [call EXCEPT ![c] = IdleCall]
    /\ UNCHANGED <<diskVars, signers, algorithm, now, passVars, copy, faults>>

----------------------------------------------------------------------------
(* public_keys, as a verifier uses it *)

Fetch(v) ==
    /\ phase # "down"
    /\ copy' = [copy EXCEPT ![v] = [at |-> now, kids |-> Named(ring)]]
    /\ UNCHANGED <<diskVars, signers, algorithm, now, passVars, call, signedAt,
                   faults>>

----------------------------------------------------------------------------

PassStep ==
    \/ KeepIncumbent
    \/ HandOverOnly
    \/ WriteRing
    \/ \E k \in Kid : \/ MakeIncumbent(k)
                      \/ HandOverAndAnnounce(k)
                      \/ ForgetSigner(k)
                      \/ ForgetFile(k)

SignStep(c) ==
    \/ \E k \in Kid : SignChoose(c, k)
    \/ SignLoad(c)
    \/ SignFinish(c)

Next ==
    \/ \E a \in Algorithm : Restart(a)
    \/ Stop
    \/ Crash
    \/ Tick
    \/ StartPass
    \/ PassStep
    \/ PassFails
    \/ OutOfKids
    \/ \E c \in Caller : SignStep(c)
    \/ \E v \in Verifier : Fetch(v)

Spec == Init /\ [][Next]_vars

\* KeyService runs passes on a timer for as long as the process is up, a pass
\* always runs to its end, and the process is restarted when it is down.
FairSpec ==
    /\ Spec
    /\ WF_vars(Tick)
    /\ WF_vars(StartPass)
    /\ WF_vars(PassStep)
    /\ WF_vars(\E a \in Algorithm : Restart(a))
    /\ WF_vars(\E c \in Caller : SignLoad(c) \/ SignFinish(c))

----------------------------------------------------------------------------
(* Properties *)

\* Which of an entry's instants are present follows its state.
EntryOK(e) ==
    /\ e \in Entry
    /\ e.state \in InRing => e.kind # None /\ e.createdAt # None
    /\ e.state \in {"active", "retired", "archived"} <=> e.activatedAt # None
    /\ e.state \in {"retired", "archived"} <=> e.retiredAt # None

\* The type invariant: what the files, the memory of `maintain` and `sign`,
\* and the verifiers' copies hold.
TypeOK ==
    /\ ring \in [Kid -> Entry] /\ \A k \in Kid : EntryOK(ring[k])
    /\ draft \in [Kid -> Entry] /\ \A k \in Kid : EntryOK(draft[k])
    /\ pem \subseteq Kid /\ signers \subseteq Kid
    /\ doomed \subseteq Kid /\ unlinking \subseteq Kid
    /\ algorithm \in Algorithm
    /\ now \in 0..MaxTime /\ faults \in 0..MaxFaults
    /\ phase \in {"down", "starting", "idle", "incumbent", "handover", "forget"}
    /\ startedAt \in Time
    /\ call \in [Caller -> [stage : {"idle", "chosen", "loaded"},
                            kid : Kid \cup {None}, since : Time]]
    /\ copy \in [Verifier -> [at : Time, kids : SUBSET Kid]]
    /\ signedAt \in [Kid -> Time]

\* "Signing. Exactly one key is ever in this state" (KeyState::Active): once
\* ring.json names a key, exactly one of its keys is active, through crashes,
\* failed passes, changes of algorithm and passes that come late.
OneSigner == Named(ring) # {} => \E k \in Kid : Active(ring) = {k}

\* At most one successor waits, so the loop of `maintain` that lets every due
\* key take over never runs twice and never skips a key's turn.
OneWaiting == \A j, k \in Published(ring) : j = k

\* `sign` never finds the ring naming a key whose private half is not there:
\* the PEM file of a key that signs, or will, is on disk whatever crashed.
SigningKeyOnDisk == Active(ring) \cup Published(ring) \subseteq pem

\* "The private half has been deleted, so it can never sign again"
\* (KeyState::Archived), and a forgotten key keeps nothing: neither a file
\* nor the cache of a process that raced with `forget` still holds it, and
\* no call of `sign` is about to use it.
PrivateHalfGone ==
    \A k \in Kid : ring[k].state \in {"archived", "forgotten"} =>
        /\ k \notin pem \cup signers
        /\ \A c \in Caller : call[c].kid # k

\* A key "signs nothing until publish_ahead has passed, long enough for every
\* verifier holding a cached key set to have refetched it": a copy still
\* within its max-age names the active key.  Keys that sign from the moment
\* they are made (the first one, and a change of algorithm) are exempt.
CopiesKnowTheSigner ==
    \A v \in Verifier, k \in Active(ring) :
        /\ copy[v].at # None
        /\ now < copy[v].at + MaxAge
        /\ ring[k].activatedAt # ring[k].createdAt
        => k \in copy[v].kids

\* "A signature made yesterday has to keep verifying tomorrow": the key that
\* made it stays published for the retention it was promised, less the time
\* by which a call of `sign` and a pass of `maintain` can overlap.
SignaturesStayVerifiable ==
    \A k \in Kid :
        /\ signedAt[k] # None
        /\ now + PassBound + SignBound < signedAt[k] + VerifyRetained
        => k \in Named(ring)

\* What a pass is about to write.
AboutToWrite == phase = "forget" /\ doomed = {} /\ unlinking = {}

\* A process that was stopped for a week may not wake "to a ring that needs
\* three more passes to become correct": however late a pass comes, the ring
\* it writes has a signing key, no handover or successor left to do and no
\* private half past its retention.  One thing it leaves to the next pass: a
\* key that this very pass archived may already be past its public lifetime,
\* and no other is.
CatchesUp ==
    AboutToWrite =>
        LET written == Aged(draft, startedAt)
        IN  /\ Active(written) # {}
            /\ Due(written, startedAt) = {}
            /\ ~SuccessorDue(written, startedAt)
            /\ Spent(written, startedAt) = {}
            /\ Expired(written, startedAt) \subseteq ToArchive(draft, startedAt)

\* A retired key's private half is deleted once its retention is over, and
\* then its entry is: every pass that fails or is cut short by a crash is
\* made good by a later one.
RetiredKeyIsErased ==
    \A k \in Kid :
        /\ (ring[k].state = "retired" /\ ring[k].retiredAt + Retain <= MaxTime)
           ~> (k \notin pem \cup signers)
        /\ (ring[k].state = "retired" /\ ring[k].retiredAt + VerifyRetained <= MaxTime)
           ~> (ring[k].state = "forgotten")

\* What the ring promises of every key's life.
Lifecycle == INSTANCE KeyLifecycle WITH status <- [k \in Kid |-> ring[k].state]

\* The ring implements the abstract lifecycle.
ImplementsLifecycle == Lifecycle!Spec
=============================================================================
