# PIC-X: the verification project

TLA+ models of the parts of PIC-X that carry its guarantees, the TLC runs that
check them on small instances, and proofs that TLAPS checks for every value of
the constants. Every definition is translated from the source; `PROJECT.json`
maps each one to the lines it models.

Run from this directory:

    tlc -config MCKeyRing_sign.cfg MCKeyRing      # any run of PROJECT.json
    tlapm KeyRing_proofs.tla                      # the proofs, module by module

## 1. Inventory

PIC-X is a server (`src/src/main.rs` and seven crates under `src/crates/`) that
hosts *realms*. A realm exchanges OAuth access tokens for PIC tokens and
advances a PIC token's lineage hop by hop; it signs what it issues with a
rotating ring of keys and records what it does in a hash-chained trail.

| Component | State | Operations | Interacts with | Hard behaviours | What makes it correct |
|---|---|---|---|---|---|
| Key ring (`pic-x-std/keys.rs`) | `ring.json`, one PEM file per key, cached signers | `maintain`, `sign`, `active_key_id`, `public_keys` | called by the key service, the token endpoint, the audit trail's seals and the `jwks` route | no common lock between `sign` and `maintain`; crashes between file operations; passes that come late; caches at verifiers | one signer; its file is there; signatures verify as long as promised; a private half does not survive its retention |
| Key service (`keys/service.rs`) | a timer task | start (first pass), pass, stop | key ring | a pass that fails is retried by the next | every key moves on in the end |
| File audit trail (`audit/file.rs`) | day files, seals, the open file with its sequence and previous digest | `prepare`, `record`, `shutdown`, `verify` | every component records; seals are signed by the operations ring | callers beside each other at midnight; a crash between a line, its newline and its sync; expiry | what was acknowledged stays; nothing finished is rewritten; an untouched trail verifies |
| Token endpoint (`pic-x-realm/exchange.rs`, `checkpoints.rs`, `conformance.rs`) | none: a checkpoint is trusted by its signature | initial exchange, advancement | token ring, audit trail, attester keys, the protocol crate | several reads of a ring that rotates; sign, record and answer are separate | no token unrecorded; authority, contract and expiry of a lineage |
| Evidence (`por.rs`, the source token's checks in `exchange.rs`) | none | validate a presentation, validate an access token | attester and provider keys | what is read in the preflight is used after the cache has changed | only what the issuer committed to counts, under a key it published |
| Key caches (`attester_keys.rs`, `idp_keys.rs`, `key_fetch.rs`, `service.rs`) | cached key sets with the time of the last success and of the first failure | refresh, `keys_for` | remote JWKS endpoints | timeouts, stale answers, one slow endpoint before the others | a stale set is served no longer than allowed; refreshes go on |
| Transport (`guard.rs`, `surface.rs`, `gate.rs`, `request.rs`) | permits, per-address counts, deadlines | accept, admit, release, drain | every HTTP surface | limits under concurrent accepts and drops; drain against new connections | counts match the connections; bounds hold; a drain ends |
| Certificate reload (`reload.rs`, `material.rs`) | the material served, what was last seen on disk | watch, reload | surfaces | files replaced one by one | a consistent pair is served in the end |
| Server host (`host.rs`, `signal.rs`, `app.rs`) | which services run | start in order, stop in reverse, release store and trails | all services | a start or stop that fails halfway | what was started is stopped, trails are released |
| Start-up (`app.rs`, `command.rs`, `provision.rs`, `secrets.rs`, `witness.rs`, `main.rs`) | the volume: certificates, secrets, a file of key versions per owner | layer, prepare, validate, resolve, check, serve | the operator, earlier starts on the same volume | a death between and inside writes; material that is half there | a start goes through only with material that fits together, and a version never changes its key unnoticed |
| Administrative surface (`pic-x-admin`) | none | authorize, record, forward | audit trail, transport | record before effect | nothing privileged goes unrecorded |
| Configuration (`config.rs`, `config_file.rs`, `realm.rs`, `limits.rs`, `tls.rs`) | none | read four layers, gather realms, resolve, validate | gives the others their parameters | boundaries between settings, inheritance by realms | the last layer decides; only a workable policy is accepted |
| Metrics, telemetry, storage, pseudonyms | counters, a map | read and write | all | few | see *Not modelled* |

The hazards behind these rows, each at its line, are in `PROJECT.json`.

## 2. The modules

| Module | Models |
|---|---|
| `KeyLifecycle` | what the trait `KeyManager` promises of a key's life: no files, no clock |
| `KeyRing` | `DirectoryKeyManager` and the service that runs it; implements `KeyLifecycle` |
| `KeyRing_proofs` | the inductive invariant of `KeyRing` and its theorems; the other `..._proofs` modules are laid out alike |
| `AuditTrail`, `AuditTrail_proofs` | `FileAuditSink` and `verify`; their proofs |
| `TokenExchange`, `TokenExchange_proofs` | the token endpoint, on top of a ring that is `KeyLifecycle` |
| `Evidence` | what makes a presentation or an access token acceptable, given a key set |
| `KeyCache`, `KeyCache_proofs` | the key caches, the task that refreshes them, and requests judged by them; uses `Evidence` |
| `ConnectionPool` | what a surface promises about the connections it holds |
| `Surface`, `Surface_proofs` | connection guard, request layers, administrative authorisation and drain of one surface; implements `ConnectionPool` |
| `Material` | certificate and key of a surface, renewed on disk and reloaded |
| `ServerHost`, `ServerHost_proofs` | one run of the host with its services and trails, composed with `Material` |
| `Configuration` | the settings: reading, layering, resolving, validating (operators only) |
| `Startup`, `Startup_proofs` | starts on one volume: runs `Configuration`, then provisioning, secrets and the witness |
| `MC...` | instances and symmetry sets for TLC |

### KeyRing

`ring` is `ring.json` on disk, `pem` the key files, `signers` the process's
cache. A pass of `maintain` is several steps, because each has an effect that a
crash can follow and that a concurrent `sign` can see: read the ring
(`StartPass`); make an incumbent when none of the configured kind signs
(`MakeIncumbent`, `KeepIncumbent`); hand over and announce a successor
(`HandOverAndAnnounce`, `HandOverOnly`); erase one private half after another,
cache first, file second (`ForgetSigner`, `ForgetFile`); replace the ring file
(`WriteRing`). `PassFails` is an I/O error in any of them, `Crash` the end of
the process, `Stop` and `Restart` an orderly one, the latter possibly with
another algorithm. A call of `sign` is three steps: choose the active key, load
it from the cache or the disk, sign. `Fetch` is the `jwks` route as a verifier
uses it.

Assumptions (`KeyRingAssumption`): the inequalities that `check_key_lifecycle`
(`core/config.rs`) enforces outside development mode, a positive
`publish_ahead`, and two that the code leaves to the speed of the machine: a
pass takes at most `PassBound`, a signature at most `SignBound`, with
`MaxAge + PassBound <= Ahead` and `PassBound + SignBound < Retain`. The first
is slightly more than the code asks for: `publish_ahead` equal to
`KEY_SET_MAX_AGE` is accepted, although a pass that takes time publishes a key
later than the `created_at` it writes.

### AuditTrail

A day's file is a sequence of lines, the last possibly without its end; a line
is an identity (standing for its digest), a number and the identity before it.
`record` reads the day (`Begin`), takes the lock (`Enter`), seals the day it
closes (`SealClosing`), opens its own (`OpenFor`), drops what is past its
retention (`ExpireDay`, `ExpireDone`), appends (`AppendLine`) and flushes
(`Sync`). `Crash` may leave any prefix of what was being written, and each step
has its failure; a seal that cannot be removed with its day stays behind.
`Verifies` is `verify`, over chain and seals: the running
`expected_seq` and `expected_previous` of its loop are how many lines are read
before a line (`ReadBefore`) and the last of them.

### TokenExchange

A handler chooses its signer, looks at the request, settles, signs `Signatures`
times, records and answers. The ring is read at each of these points and moves
by `KeyLifecycle!Advance` in between, so a rotation can fall anywhere; a retired
key stays for `Retain` and is then forgotten, as a token ring's is. `task[h]`
holds what the handler has reached. The expiry of an access token is any instant,
as in the code: `MaxExpiry` bounds only what TLC tries. Authority is a set of
invariants, each named by the scope it was derived from, and a set of contract
entries. `sound` is one bit for everything that can be wrong with a
candidate's encoding, evidence, algorithms and challenges. Settlement, the
order on authority and the number of signatures a token takes belong to the
protocol crate `pic`, which is not in the repository; they are modelled from how
the endpoint uses them and marked external.

Clients send every well-formed candidate over the tokens they hold, and
candidates with one thing wrong: an unsound one, another `jti` or `exp`, a
position that does not advance, a predecessor the realm never signed.

### KeyCache and Evidence

`entries` are the two caches, `task` the one task that asks every source in
turn and sleeps (`refresh_attester_keys`, `start_key_refresh`); a provider is
asked twice, for its discovery document and for its keys. Sources publish other
sets, go down, stall in the middle of an answer, or name another issuer. Time is
kept as ages and remaining times, so a run has no end; `RequestTimeout` covers a
whole answer over HTTPS and only its head over plain HTTP, as in `key_fetch.rs`.
A request (`Present`, `Settle`) is judged in its preflight and settled later, on
the answer it got then. `Evidence` holds the checks in the order the code makes
them. A signature is the key that made it; a disclosure is its own digest, and
`reserved` says that its name is one that por.rs keeps for itself (`...`, or any
that begins with `_sd`).

### Surface and ConnectionPool

Each connection is a task. An accept is three steps (`Acquire`, `AdmitPeer`,
`Count`), a drop is three (`DropPermit`, `Uncount`, `ReleasePeer`), and any two
connections interleave between them. A request takes a place under the ceiling or
is shed, passes the gate and the policy, is recorded and then works (a refusal by
the policy is recorded too, if it can be); where it waits it may be dropped by its
client, its timeout or the end of the drain, with or without its effect
(`CutOff`). `Age`, `Stalls` and `Moves` are the lifetime
and the write-stall bound; a connection in `Vectored` writes through
`poll_write_vectored`, which looks at neither. `Surface` implements
`ConnectionPool` with `inside` as the connections that passed admission.

### ServerHost and Material

`host` and `at` say where `DefaultServerHost::run` is. Each record, start, stop
and release may fail (`Fault`), the budget may run out anywhere (`Deadline`), and
work is in flight that writes to the same trails (`WorkBegins`, `WorkEnds`). Of a
trail only this is kept: whether it has records behind its last seal, and whether
its release warned that it could not seal it (`warned`): `FileAuditSink::shutdown`
reports a flush that fails and only warns of a seal that does. What a trail does on
release is `AuditTrail`'s `Shutdown` and `Close`. `Material` is the surface
that has certificates: a number for the content of each file, odd while it is
half written, and three readers (the start of the surface, the watcher, SIGHUP)
that read one file per step.

### Configuration and Startup

A setting's text is abstracted by kind (an amount with a unit, the host of an
address, a name as its words) and read by the rules of its kind. `ApplyPairs`
puts one layer over the ones before it, `GatherReads` and `DeclaredRealms` are
the realms of the file and of a directory, `RealmHolds` and its neighbours are
`validate`. `Startup` takes the phases of `App::serve` in the source's order,
loop by loop where each round writes a file; `CrashDrawing`, `CrashIssuing` and
`CrashWitnessing` are deaths inside a write. Between two starts the operator may
change the deployment, replace a secret or clear the certificates.

## 3. The runs

| Run | Instance | States | Shows |
|---|---|---|---|
| `keys_sign` | 4 keys, 1 caller, 1 fault, 6 ticks | 1.1M | types; the signer's file is on disk; an erased key does not sign; signatures stay verifiable |
| `keys_migration` | 4 keys, 2 algorithms, 1 verifier, 2 faults, 5 ticks | 2.1M | one signer, one waiting, one pass catches up, a copy within its age knows the signer, refinement of `KeyLifecycle` |
| `keys_erasure` | 5 keys, 1 fault, 7 ticks, fair | 175k | a retired key is erased in the end |
| `audit_faults` | 2 callers, 3 days, 4 records, 1 crash, 1 error | 3.4M | acknowledged records stay, seals are true, finished lines stand, an undamaged trail verifies |
| `tokens_lineage` | 2 handlers, 2 keys, a lineage of 3 tokens, 1 fault | 435k | no token unrecorded, none signed by two keys; expiry, authority and contract along a lineage |
| `startup` | 4 starts, 2 deaths, 1 replaced secret; the deployments of `MCStartup` | 500k | the last layer decides; one key per version; the material fits together |
| `key_cache` | 1 attester over HTTPS, 1 provider over plain HTTP, 23 presentations, 14 access tokens | 325k | no stale use beyond the window; only issuers and providers speak, though tokens come that the other source's key signed; refreshes catch up |
| `surface` | 3 connections from 2 addresses, 2 permits, 1 place for a request | 56k | implements the pool; counts settle; work is authorised and recorded; connections and drains end |
| `host` | 2 services, 2 trails, 1 renewal, 1 fault | 490k | order up and down; a clean end leaves unsealed only what was warned about; shutdown ends; a renewal is served |

Bounds. Four keys let a ring hold one of each state at once (waiting, active,
retired, archived); five, in `keys_erasure`, leave one for what a crash orphans;
two faults let a pass fail in the recovery of another. Three days make a day
close, a day pass its retention and a midnight fall between a caller and the
lock. Three tokens are a root and two hops, so what one hop lets through is
inherited by the next. Handlers meet only in the ring and in the trail, so two
are enough for what they share. The deployments of `startup` are a plain one
varied one topic at a time: every setting in every layer with texts that read and
texts that do not, every combination of key windows, of transport blocks in two
layers, of the administrative surface's settings, realms with one thing wrong,
and two realms that take their keys from the environment; three of them are moved
between from start to start, since only provisioning and the witness carry
anything from one start to the next. Three connections over two permits and one
place let one be refused by the pool, one by its address and one by the ceiling,
while a third drops. Two services are enough for an order, two versions of the
material for a file that changes between any two reads. Each mutant listed in
`PROJECT.json` breaks its property within the same bounds.

Fairness. In `keys_erasure` the clock goes on, the key service makes passes while
the process is up and a pass runs to its end (`KeyService` loops on a timer and
retries after an error), a process that is down is restarted, and a call of
`sign` ends. In `key_cache` the refresh task runs when it is ready, a request
that was begun is finished, and time passes however many requests there are
(strong, because requests disable it while they are judged). In `surface` the
tasks of the server run and armed timers fire; of a client nothing is assumed,
except that an answer whose bytes it takes is written. In `host` the host, the
watcher and the readers run when they can and the deadline comes; work in flight
may never end. Faults, deaths and signals are never fair.

Quiet states. A stopped or idle process is not a deadlock: the token model lets a
handler refuse a request, which changes nothing, and rings, trails, caches and
the host can always be restarted or stopped. Only `startup` (a process that has
used up its starts stays down) and `surface` (a drained surface stays stopped)
are checked without the test for deadlock.

### Where the code and its documentation differ

In three runs TLC violates a statement quoted from the repository; `PROJECT.json`
says more under `findings`.

| Run | Statement | What happens |
|---|---|---|
| `audit_retention` | "missing days inside the retained trail" (`docs/backup-and-restore.md:123`) | verify fails once the oldest day has expired |
| `audit_numbers` | "from 1 and never reused" (`audit/file.rs:75`) | a record dated before midnight is numbered after one dated after it but lies in the older file; the numbers go on from the latest file when the trail is next opened. An empty file left by a crash and a flush that fails do the same |
| `startup_development` | "generating missing material is only offered in development" (`config.rs:853`) | the volume is prepared before the configuration is validated, so a start that is refused has made an authority and secrets, which a later start uses |

The other statements that the code does not keep to were found while modelling.
The models do what the code does, so no property says these things:

| Statement | What happens |
|---|---|
| "needs a key of the new kind signing *now*" (`keys.rs:490`) | a due successor of the old kind takes over in the pass that made a key of the new kind |
| "calling it twice in a row does nothing the second time" (`core/keys.rs:274`) | after a long absence one pass archives a key and the next, at the same instant, forgets it |
| "The realm's configured value still caps it" (`exchange.rs:55`) | a proposal gets the lifetime it asks for, up to a year, and an access token passes on its own expiry |
| "a token older than `retain` has expired" (`main.rs:298`) | a token may outlive the publication of its key |
| "The key must be published for the algorithm the token claims" (`exchange.rs:562`) | a key that declares no algorithm is tried with whatever the header names |
| "everything it does is bounded [...] and a deadline" (`key_fetch.rs:7`) | over plain HTTP the body is outside the timeout, so one server that stops sending holds every refresh |
| "And a write-stall bound, always" (`guard.rs:36`) | `poll_write_vectored` looks at neither the stall nor the lifetime |
| "shutdown seals every realm's trail in sequence" (`docs/realms.md:157`) | a seal that cannot be written is a warning, and the run ends cleanly (`file.rs:552`) |
| "Later layers overwrite only settings they actually contain" (`config.rs:519`) | a layer that names certificate and key replaces the whole block, client authority and list of peers included |
| "A value a layer cannot be read as its type is an error" (`config.rs:541`) | a layer that names no certificate has its TLS settings passed over unread |
| "`validate` refuses an enabled ring whose lifecycle was only defaulted" (`config.rs:457`) | a realm's operations ring runs on defaults while the server's own is off |
| "two realms resolving from the environment cannot collide on the same variable" (`config.rs:747`) | realm `a` with reference `b-key` and realm `a-b` with reference `key` name one |
| "every variant names a check the caller can fix" (`exchange.rs:402`) | a rotation between `RealmTokenSigner::new` and `sign` rejects a candidate that settled |

Behaviours of the code that a property has to except, or that were read while
modelling:

- Trail: a record dated before midnight and numbered after one dated after it
  leaves a trail that does not verify (`UndamagedTrailVerifies` asks for
  `InOrder`); a line without its end swallows the next acknowledged record
  (`AckedStay` and `SealsAreTrue` ask for `~cut`).
- Key fetch: `StaleIsBounded` and `CatchesUp` leave out runs in which a plain
  answer stalls (`overran`, `Quiet`).
- Evidence: of two attesters with one issuer only the first counts.
- Reload: what was seen is noted after the configuration was built, and two
  reloads beside each other may install the older pair last (`slipped`).
- Guard: `EveryConnectionEnds` leaves out connections in `Vectored`.
- Host: a start that fails leaves earlier services and unsealed trails to the end
  of the process; a failed record of the stop returns before any trail is
  released; a record is not bounded by the deadline.
- Configuration: a layer that names only a client authority is ignored;
  `admin.tls.allow` is refused only when `realms_from` is set; any host
  that begins with `127.` counts as loopback; a configured `keys_directory` may
  be a realm's.
- Provisioning: a lone `ca.pem` is overwritten although `provision.rs:44` says
  nothing ever is; a death before `ca.crl` leaves none for good; a secret cut
  short is kept.
- Witness: the file is rewritten in place, so a death forgets versions or leaves
  a line no key matches (`forgot`).

## 4. The proofs

Every safety property that a passing run checks is also a theorem, and both
refinements are. A theorem holds for every value of the constants that meets the
module's `ASSUME`; TLC evaluates each `ASSUME` on every run of its module. A
property is seldom inductive: each proofs module names the invariant that is,
lists what it adds and why, and has one lemma per conjunct with one step per
action. Each of these invariants passed TLC on the bounds of section 3 before it
was proved.

### KeyRing

`TypeCorrect`, `ExactlyOneSigner`, `AtMostOneWaiting`, `SignerIsOnDisk`,
`ArchivedKeyCannotSign`, `VerifiersKnowTheSigner`, `SignaturesVerify`,
`OnePassCatchesUp`, and `Refinement`: `KeyRing` implements `KeyLifecycle`.
`OnePassCatchesUp` says also what one pass does not do: an entry that it leaves
past its public lifetime is one it archived itself.

All rest on `IInv`: that the ring on disk has one signer after `WriteRing` depends
on the draft in memory having one (`DraftOK`, which also says how far a pass may
have moved each entry from the file it read); that no signing key is erased
depends on what is doomed being retired in the draft and therefore active or
retired on disk (`DoomOK`); that a call of `sign` holds no erased key depends on
how long ago it chose (`CallOK`: at most `PassBound` after the key's retirement,
and `PassBound + SignBound < Retain`); that a copy of the key set knows the
signer depends on when a key it lacks was made (`CopyOK`). The refinement maps an
entry's state to the abstract status; `WriteRing` is the one step of the ring
that is not a stutter, and `Moved` with `Aged` gives its abstract step.

### AuditTrail

`TrailTypeCorrect`, `AcknowledgedRecordsStay`, `SealsAttestToRecords`, the action
property `FinishedLinesAreFinal`, and `UndamagedTrailsVerify`.

`TrailInv` says which file the steps of a call share (`CallOK`, `OpenOK`), that
every identity on disk was given out already (`NumbersOK`, `LinesOK`), that the
line a call has not flushed yet is the one its head will move to (`PendingOK`), and
that the head a process continues from is a line on disk (`TruthOK`). That an
undamaged trail verifies needs `UndamagedOK` on top: its lines are numbered
without a gap (`AllThere`), the head is the last of them (`HeadOK`), no file is
left empty for the next process to take its tail from (`FilledOK`), and seals name
lines (`SealedOK`). What `verify` counts is then a bijection between lines and
numbers (`PlacesCounted`, `ExpectedIsThere`).

### TokenExchange

`ExchangeTypeCorrect`, `NothingLeavesUnrecorded`, `ExpiryIsInherited`,
`AuthorityOnlyAttenuates`, `ContractsBindEveryHop`, `OneSignerPerToken`, from
`ExchangeInv`: what a token, held by a client or still on its way, shares with
the first of its lineage (`TokensOK`, `IssuingOK`); that a candidate whose
predecessor verifies is rooted at a token of the realm (`SettlingOK`); and that
releases are covered by records and records by issues, handlers between two of
these counted in (`Paid`).
An expiry is any instant after the first; nothing bounds it.
Assumptions: finitely many handlers, and `None` is no root and no number.

### KeyCache

`StaleKeysAreBounded`, `EvidenceIsTheIssuers`, `TokensAreTheProviders`, from
`CacheInv`: evidence that waits to be settled is its issuer's (`IssuerSpeaks`), an
entry was published by its source (`CacheOK`), the task is within
its sweep (`TaskOK`), and the age of an entry is bounded by what the sweep and the
sleep still take (`AgeOK`). The longest sweep is
`RequestTimeout * (Len(Attesters) + 2 * Len(Profiles))`: a provider is asked twice.
Assumptions: attesters and profiles are lists, no two alike; a retry before the
caches are ready comes no later than a refresh (`attester_keys.rs:42-44`: 3 and
300 seconds); what a presentation discloses is a list and its claims are finite.

### Surface

`PlacesAreConserved` (the type invariant, with its counts), `NothingLeaks`,
`AdminWorkIsAccounted`, and `GuardImplementsPool`: `Surface` implements
`ConnectionPool`. `SurfaceInv` equates each counter with the number of
connections that are between taking it and giving it back (`Exact`), which needs
finitely many connections, and says what a request in each phase has passed
(`Accounted`).

### ServerHost

`ServicesNest` and `CleanEndsAreSealed`, from `HostInv`: services up are those
before the one the host has got to (`UpInOrder`), work in flight is in one of
them or in one the host waits for (`BusyInOrder`), and a trail with records
behind its last seal is still to be released or was warned about, both unless
something was given up (`SealedInOrder`). `CleanEndsAreSealed` is therefore
weaker than what the documentation says (section 3). Assumptions: services and
realms are lists, and a service writes to a realm's trail, the system's, or none.

### Startup

`LastLayerDecides` (plain settings one by one, a TLS block as a whole),
`VersionsNameOneKey`, `StartedMaterialVerifies`, from `StartupInv`, which follows
a start phase by phase: the configuration is the layers so far (`Layered`,
`ConfigOK`), what was checked stays true of it (`Judged`), which files of the
volume can be there without which others, after any sequence of deaths
(`VolumeOK`, `IssueOK`, `Provided`), and what the witness has written of the keys
that are there (`KeysOK`, `ServedOK`). Assumptions: the realms of a file are a
list with names from `RealmNames`; the names `OwnFiles` and the value `Unset` are
not the three file names that provisioning writes; an operator who places
`server.key` places `server.pem` too. The last one limits the scope: beside a
lone `server.key` a start in development issues a certificate and then writes its
own key over it, so after a death between the two writes a later start that may
not generate finds a certificate for another key.

### Only model-checked

Liveness (`RetiredKeyIsErased`, `CatchesUp` of `KeyCache`, `EveryConnectionEnds`,
`DrainEnds`, `ShutdownEnds`, `FollowsTheFiles`): it rests on fairness and
`ENABLED`, which this prover does not reason about. The three statements that the
code violates have the runs of section 3 that show how. `Material` has no safety
property of its own.

## 5. Not modelled

- Encodings, thumbprints, PEM and JWK formats, dates (`civil.rs`): identities.
- Which evidence reaches which advancement: `TokenExchange` takes the outcome of
  `Evidence` and of the caches as one bit of a candidate, and `KeyCache` checks
  it against the cached sets.
- How a disclosed value is compared with a contract entry (`conformance.rs`).
- Metrics, telemetry, request names, log wording, redaction: nothing depends on
  them. A gauge may briefly disagree with the count it mirrors.
- Failures of the filesystem while a server starts: every one ends the start.
- A surface without a recorder (`authorization.rs:190`): this binary always composes
  one (`app.rs:905`).
- The in-memory store and the keyed digest behind a pseudonym.
- A clock that goes backwards; a directory entry lost because the directory is
  not synced.
- The demo (`trust-lab`) and the example workload: clients, not part of the server.

## 6. Plan

Modelled, checked and proved: all modules of section 2, with the exceptions that
sections 4 and 5 name. What may be worth adding:

1. Safety halves of the liveness properties, as action properties with proofs:
   what no step of a drain, of a shutdown or of the refresh task may undo.
2. Lemmas about `Configuration`'s operators on their own (what `ApplyPairs` and the
   validators guarantee of any layer), now inside `Startup_proofs`.
3. A composition of `TokenExchange` with `KeyCache`, so that the outcome of the
   evidence is not a bit of the candidate.
