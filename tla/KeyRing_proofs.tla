--------------------------- MODULE KeyRing_proofs ---------------------------
(***************************************************************************)
(* The safety of KeyRing, for every value of its constants.                *)
(*                                                                         *)
(* None of the invariants is inductive alone.  What makes them so is what  *)
(* relates the ring in the memory of a pass to the one on disk (DraftOK),  *)
(* what a pass has already deleted (DoomOK), and how far a call of `sign`  *)
(* may lag behind the ring it read (CallOK).                               *)
(***************************************************************************)
EXTENDS KeyRing, TLAPS

InPass == phase \in {"incumbent", "handover", "forget"}

\* The pass that runs read the clock, and not too long ago.
PassOK ==
    /\ startedAt # None <=> InPass
    /\ InPass => startedAt <= now /\ now <= startedAt + PassBound
    /\ phase # "forget" => doomed = {} /\ unlinking = {}

\* The instants of an entry are in order and not in the future, and a key
\* that did not sign at once waited for publish_ahead.
InstantsOK(e, t) ==
    /\ e.createdAt # None => e.createdAt <= t
    /\ e.activatedAt # None =>
           /\ e.activatedAt <= t
           /\ e.activatedAt = e.createdAt \/ e.createdAt + Ahead <= e.activatedAt
    /\ e.retiredAt # None => e.retiredAt <= t

OneSignerIn(r) == Named(r) # {} => \E k \in Kid : Active(r) = {k}
OneWaitingIn(r) == \A j, k \in Published(r) : j = k

RingOK ==
    /\ \A k \in Kid : InstantsOK(ring[k], now)
    /\ OneSignerIn(ring)
    /\ OneWaitingIn(ring)
    /\ Active(ring) \cup Published(ring) \subseteq pem

\* How far the pass that started at t may have moved an entry.
Moved(e, d, t) ==
    \/ d = e
    \/ /\ e.state = "unborn"
       /\ d.state \in {"published", "active", "retired"}
       /\ d.createdAt = t
       /\ d.retiredAt # None => d.retiredAt = t
    \/ /\ e.state = "published"
       /\ d = [e EXCEPT !.state = "active", !.activatedAt = t]
    \/ /\ e.state = "active"
       /\ d = [e EXCEPT !.state = "retired", !.retiredAt = t]

DraftOK ==
    /\ InPass => \A k \in Kid : InstantsOK(draft[k], startedAt)
    /\ phase = "incumbent" => draft = ring
    /\ phase = "handover" =>
           \A k \in Kid : ring[k].state = "published" => draft[k] = ring[k]
    /\ phase \in {"handover", "forget"} =>
           /\ \A k \in Kid : Moved(ring[k], draft[k], startedAt)
           /\ \A k \in Kid : ring[k].state = "unborn" /\ draft[k] # ring[k] => k \in pem
           /\ \E k \in Kid : Active(draft) = {k}
           /\ OneWaitingIn(draft)
           /\ Active(draft) \cup Published(draft) \subseteq pem
    /\ phase = "forget" =>
           /\ Due(draft, startedAt) = {}
           /\ ~SuccessorDue(draft, startedAt)

\* The keys whose private half this pass deletes, and what is left of it.
Dying == ToArchive(draft, startedAt) \cup ToForget(draft, startedAt)

DoomOK ==
    phase = "forget" =>
        /\ doomed \cup unlinking \subseteq Dying
        /\ \A j, k \in unlinking : j = k
        /\ (Dying \ doomed) \cap signers = {}
        /\ (Dying \ (doomed \cup unlinking)) \cap pem = {}

\* A call of `sign` chose a key that was active when it looked.
CallOK ==
    \A c \in Caller :
        LET s == call[c]
        IN  IF s.stage = "idle"
            THEN s.kid = None
            ELSE /\ s.kid \in Kid
                 /\ s.since # None
                 /\ s.since <= now /\ now <= s.since + SignBound
                 /\ \/ ring[s.kid].state = "active"
                    \/ /\ ring[s.kid].state = "retired"
                       /\ s.since <= ring[s.kid].retiredAt + PassBound

GoneOK ==
    \A k \in Kid : ring[k].state \in {"archived", "forgotten"} =>
        k \notin pem \cup signers

SignedOK ==
    \A k \in Kid : signedAt[k] # None =>
        /\ signedAt[k] <= now
        /\ ring[k].state \notin {"unborn", "published"}
        /\ ring[k].state \in {"retired", "archived"} =>
               signedAt[k] <= ring[k].retiredAt + PassBound + SignBound
        /\ ring[k].state = "forgotten" =>
               signedAt[k] + VerifyRetained <= now + PassBound + SignBound

\* A copy lacks only keys that were made after it was fetched, give or take
\* the time a pass takes.
CopyOK ==
    \A v \in Verifier : copy[v].at # None =>
        /\ copy[v].at <= now
        /\ \A k \in Named(ring) \ copy[v].kids :
               copy[v].at <= ring[k].createdAt + PassBound

IInv == /\ TypeOK /\ PassOK /\ RingOK /\ DraftOK /\ DoomOK
        /\ CallOK /\ GoneOK /\ SignedOK /\ CopyOK

----------------------------------------------------------------------------
(* The constants, and the entries the steps of a pass make *)

\* The public half is kept at least as long as the private one.
LEMMA RetentionOrder ==
    /\ VerifyRetained \in Nat
    /\ Retain <= VerifyRetained
    /\ ~HasArchivePhase => VerifyRetained = Retain
BY KeyRingAssumption DEF VerifyRetained, HasArchivePhase

\* A well-formed entry of a given state has the instants that state needs.
LEMMA EntryInstants ==
    ASSUME NEW e, EntryOK(e)
    PROVE  /\ e.state \in InRing => e.createdAt \in Nat
           /\ e.state \in {"active", "retired", "archived"} => e.activatedAt \in Nat
           /\ e.state \in {"retired", "archived"} => e.retiredAt \in Nat
           /\ e.state = "active" => e.retiredAt = None
           /\ e.state = "published" => e.activatedAt = None /\ e.retiredAt = None
BY KeyRingAssumption DEF EntryOK, Entry, Time, InRing

\* The entry of an identifier the file does not name is well formed.
LEMMA NothingIsEntry == EntryOK(Nothing("unborn")) /\ EntryOK(Nothing("forgotten"))
BY KeyRingAssumption DEF EntryOK, Entry, Time, InRing, Nothing

\* `create` makes a well-formed entry whose instants are the pass's own.
LEMMA NewEntryIsEntry ==
    ASSUME NEW t \in Nat, algorithm \in Algorithm
    PROVE  /\ EntryOK(NewEntry(TRUE, t)) /\ InstantsOK(NewEntry(TRUE, t), t)
           /\ EntryOK(NewEntry(FALSE, t)) /\ InstantsOK(NewEntry(FALSE, t), t)
BY KeyRingAssumption DEF EntryOK, Entry, Time, InRing, NewEntry, InstantsOK

\* Retiring an entry leaves it well formed.
LEMMA RetireEntryIsEntry ==
    ASSUME NEW e, EntryOK(e), NEW t \in Nat, InstantsOK(e, t)
    PROVE  /\ EntryOK(RetireEntry(e, t))
           /\ InstantsOK(RetireEntry(e, t), t)
           /\ RetireEntry(e, t).state # "active"
           /\ e.state # "active" => RetireEntry(e, t) = e
           /\ e.state = "active" =>
                  RetireEntry(e, t) = [e EXCEPT !.state = "retired", !.retiredAt = t]
<1>1. CASE e.state # "active"
  BY <1>1 DEF RetireEntry
<1>2. CASE e.state = "active"
  <2>. DEFINE d == [e EXCEPT !.state = "retired", !.retiredAt = t]
  <2>1. RetireEntry(e, t) = d
    BY <1>2 DEF RetireEntry
  <2>2. e \in Entry /\ e.kind # None
    BY <1>2 DEF EntryOK, InRing
  <2>3. d \in Entry
    BY <2>2 DEF Entry, Time, InRing
  <2>4. /\ d.state = "retired" /\ d.retiredAt = t /\ d.kind = e.kind
        /\ d.createdAt = e.createdAt /\ d.activatedAt = e.activatedAt
    BY <2>2 DEF Entry
  <2>5. e.createdAt # None /\ e.activatedAt # None /\ t # None
    BY <1>2, KeyRingAssumption DEF EntryOK, InRing
  <2>6. EntryOK(d)
    BY <2>2, <2>3, <2>4, <2>5 DEF EntryOK, InRing
  <2>7. InstantsOK(d, t)
    BY <2>4, <2>5 DEF InstantsOK
  <2>. QED  BY <2>1, <2>4, <2>6, <2>7, <1>2
<1>. QED  BY <1>1, <1>2

\* A published key takes over.
TakenEntry(e, t) == [e EXCEPT !.state = "active", !.activatedAt = t]

\* A published key that takes over makes a well-formed active entry.
LEMMA TakenEntryIsEntry ==
    ASSUME NEW e, EntryOK(e), NEW t \in Nat, InstantsOK(e, t),
           e.state = "published", e.createdAt + Ahead <= t
    PROVE  /\ EntryOK(TakenEntry(e, t))
           /\ InstantsOK(TakenEntry(e, t), t)
           /\ TakenEntry(e, t).state = "active"
<1>. DEFINE d == TakenEntry(e, t)
<1>1. e \in Entry /\ e.kind # None /\ e.createdAt # None /\ t # None
      /\ e.retiredAt = None
  BY KeyRingAssumption DEF EntryOK, InRing
<1>2. d \in Entry
  BY <1>1 DEF Entry, Time, InRing, TakenEntry
<1>3. /\ d.state = "active" /\ d.activatedAt = t /\ d.kind = e.kind
      /\ d.createdAt = e.createdAt /\ d.retiredAt = None
  BY <1>1 DEF Entry, TakenEntry
<1>4. EntryOK(d)
  BY <1>1, <1>2, <1>3 DEF EntryOK, InRing
<1>5. InstantsOK(d, t)
  BY <1>1, <1>3 DEF InstantsOK
<1>. QED  BY <1>3, <1>4, <1>5

\* With at most one key waiting, the loop of handovers runs at most once.
LEMMA HandOverOnce ==
    ASSUME NEW r \in [Kid -> Entry], \A k \in Kid : EntryOK(r[k]),
           OneWaitingIn(r), NEW t \in Nat, NEW p \in Due(r, t)
    PROVE  HandOver(r, t) = [k \in Kid |-> IF k = p THEN TakenEntry(r[k], t)
                                                   ELSE RetireEntry(r[k], t)]
<1>1. Due(r, t) = {p}
  BY DEF Due, OneWaitingIn
<1>2. r[p].createdAt \in Nat
  BY EntryInstants DEF Due, Published, InRing
<1>3. p = CHOOSE k \in Due(r, t) : \A j \in Due(r, t) : r[j].createdAt <= r[k].createdAt
  BY <1>1, <1>2
<1>. QED  BY <1>1, <1>3 DEF HandOver, TakenEntry

\* With no key due, the ring stays.
LEMMA HandOverNone ==
    ASSUME NEW r, NEW t, Due(r, t) = {}
    PROVE  HandOver(r, t) = r
BY DEF HandOver

\* The end of a pass: an entry stays, is archived with its instants, or goes.
LEMMA AgedEntry ==
    ASSUME NEW r \in [Kid -> Entry], \A k \in Kid : EntryOK(r[k]),
           NEW t \in Nat, NEW k \in Kid
    PROVE  /\ k \notin ToArchive(r, t) \cup ToForget(r, t) => Aged(r, t)[k] = r[k]
           /\ k \in ToArchive(r, t) =>
                  /\ HasArchivePhase
                  /\ r[k].state = "retired"
                  /\ r[k].retiredAt + Retain <= t
                  /\ Aged(r, t)[k] = [r[k] EXCEPT !.state = "archived"]
           /\ k \in ToForget(r, t) =>
                  /\ r[k].state \in {"retired", "archived"}
                  /\ r[k].retiredAt + VerifyRetained <= t
                  /\ Aged(r, t)[k] = Nothing("forgotten")
<1>1. k \in ToForget(r, t) => k \notin ToArchive(r, t)
  BY DEF ToArchive, ToForget, Spent, Expired
<1>2. k \in ToForget(r, t) => /\ r[k].state \in {"retired", "archived"}
                              /\ r[k].retiredAt + VerifyRetained <= t
  BY RetentionOrder DEF ToForget, Spent, Expired
<1>3. k \in ToArchive(r, t) => /\ HasArchivePhase
                               /\ r[k].state = "retired"
                               /\ r[k].retiredAt + Retain <= t
  BY DEF ToArchive, Spent
<1>. QED  BY <1>1, <1>2, <1>3 DEF Aged

\* What ages has been retired for as long as the private half is kept.
LEMMA DyingIsOld ==
    ASSUME NEW r \in [Kid -> Entry], \A k \in Kid : EntryOK(r[k]),
           NEW t \in Nat, NEW k \in ToArchive(r, t) \cup ToForget(r, t)
    PROVE  /\ k \in Kid
           /\ r[k].state \in {"retired", "archived"}
           /\ r[k].retiredAt \in Nat
           /\ r[k].retiredAt + Retain <= t
<1>1. k \in Kid
  BY DEF ToArchive, ToForget, Spent, Expired
<1>2. r[k].state \in {"retired", "archived"} /\ r[k].retiredAt \in Nat
  BY <1>1, AgedEntry, EntryInstants
<1>3. CASE k \in ToArchive(r, t)
  BY <1>1, <1>2, <1>3, AgedEntry
<1>4. CASE k \in ToForget(r, t)
  <2>1. r[k].retiredAt + VerifyRetained <= t
    BY <1>1, <1>4, AgedEntry
  <2>. QED  BY <1>1, <1>2, <2>1, RetentionOrder, KeyRingAssumption
<1>. QED  BY <1>3, <1>4

\* Archiving leaves an entry well formed.
LEMMA AgedIsRing ==
    ASSUME NEW r \in [Kid -> Entry], \A k \in Kid : EntryOK(r[k]), NEW t \in Nat
    PROVE  /\ Aged(r, t) \in [Kid -> Entry]
           /\ \A k \in Kid : EntryOK(Aged(r, t)[k])
           /\ \A k \in Kid : r[k].state = "retired" => 
                 /\ [r[k] EXCEPT !.state = "archived"].retiredAt = r[k].retiredAt
                 /\ [r[k] EXCEPT !.state = "archived"].activatedAt = r[k].activatedAt
                 /\ [r[k] EXCEPT !.state = "archived"].createdAt = r[k].createdAt
                 /\ [r[k] EXCEPT !.state = "archived"].state = "archived"
<1>1. ASSUME NEW k \in Kid, r[k].state = "retired"
      PROVE  LET d == [r[k] EXCEPT !.state = "archived"]
             IN  /\ EntryOK(d)
                 /\ d.state = "archived" /\ d.retiredAt = r[k].retiredAt
                 /\ d.activatedAt = r[k].activatedAt /\ d.createdAt = r[k].createdAt
  <2>. DEFINE d == [r[k] EXCEPT !.state = "archived"]
  <2>1. r[k] \in Entry /\ r[k].kind # None /\ r[k].createdAt # None
        /\ r[k].activatedAt # None /\ r[k].retiredAt # None
    BY <1>1 DEF EntryOK, InRing
  <2>2. d \in Entry
    BY <2>1 DEF Entry, InRing
  <2>3. /\ d.state = "archived" /\ d.retiredAt = r[k].retiredAt
        /\ d.activatedAt = r[k].activatedAt /\ d.createdAt = r[k].createdAt
        /\ d.kind = r[k].kind
    BY <2>1 DEF Entry
  <2>4. EntryOK(d)
    BY <2>1, <2>2, <2>3 DEF EntryOK, InRing
  <2>. QED  BY <2>3, <2>4
<1>2. ASSUME NEW k \in Kid PROVE EntryOK(Aged(r, t)[k])
  <2>1. CASE k \in ToArchive(r, t)
    <3>1. r[k].state = "retired" /\ Aged(r, t)[k] = [r[k] EXCEPT !.state = "archived"]
      BY <2>1, AgedEntry
    <3>2. EntryOK([r[k] EXCEPT !.state = "archived"])
      BY <3>1, <1>1
    <3>. QED  BY <3>1, <3>2
  <2>2. CASE k \in ToForget(r, t)
    BY <2>2, AgedEntry, NothingIsEntry
  <2>3. CASE k \notin ToArchive(r, t) \cup ToForget(r, t)
    BY <2>3, AgedEntry
  <2>. QED  BY <2>1, <2>2, <2>3
<1>3. Aged(r, t) \in [Kid -> Entry]
  BY <1>2 DEF Aged, EntryOK
<1>. QED  BY <1>1, <1>2, <1>3

\* Archiving and forgetting touch no key that signs or waits.
LEMMA AgedKeeps ==
    ASSUME NEW r \in [Kid -> Entry], \A k \in Kid : EntryOK(r[k]), NEW t \in Nat
    PROVE  /\ Active(Aged(r, t)) = Active(r)
           /\ Published(Aged(r, t)) = Published(r)
           /\ \A k \in Active(r) \cup Published(r) : Aged(r, t)[k] = r[k]
           /\ Spent(Aged(r, t), t) = {}
<1>1. ASSUME NEW k \in Kid, k \in ToArchive(r, t) \cup ToForget(r, t)
      PROVE  /\ Aged(r, t)[k].state \in {"archived", "forgotten"}
             /\ r[k].state \in {"retired", "archived"}
  <2>1. CASE k \in ToArchive(r, t)
    <3>1. r[k].state = "retired" /\ Aged(r, t)[k] = [r[k] EXCEPT !.state = "archived"]
      BY <2>1, AgedEntry
    <3>2. [r[k] EXCEPT !.state = "archived"].state = "archived"
      BY <3>1, AgedIsRing
    <3>. QED  BY <3>1, <3>2
  <2>2. CASE k \in ToForget(r, t)
    <3>1. r[k].state \in {"retired", "archived"} /\ Aged(r, t)[k] = Nothing("forgotten")
      BY <2>2, AgedEntry
    <3>. QED  BY <3>1 DEF Nothing
  <2>. QED  BY <1>1, <2>1, <2>2
<1>2. \A k \in Kid : k \notin ToArchive(r, t) \cup ToForget(r, t) => Aged(r, t)[k] = r[k]
  BY AgedEntry
<1>3. Spent(Aged(r, t), t) = {}
  <2>1. SUFFICES ASSUME NEW k \in Kid, k \in Spent(Aged(r, t), t) PROVE FALSE
    BY DEF Spent
  <2>2. k \notin ToArchive(r, t) \cup ToForget(r, t)
    BY <1>1, <2>1 DEF Spent
  <2>3. k \in Spent(r, t)
    BY <1>2, <2>1, <2>2 DEF Spent
  <2>. QED  BY <2>2, <2>3 DEF ToArchive, ToForget
<1>. QED  BY <1>1, <1>2, <1>3 DEF Active, Published

----------------------------------------------------------------------------
(* The inductive invariant *)

\* The draft between two passes is well formed.
LEMMA NoDraftIsRing ==
    /\ NoDraft \in [Kid -> Entry]
    /\ \A k \in Kid : /\ EntryOK(NoDraft[k])
                      /\ NoDraft[k].state = "unborn"
                      /\ NoDraft[k].createdAt = None
                      /\ NoDraft[k].activatedAt = None
                      /\ NoDraft[k].retiredAt = None
<1>1. \A k \in Kid : NoDraft[k] = Nothing("unborn")
  BY DEF NoDraft
<1>2. Nothing("unborn") \in Entry
  BY NothingIsEntry DEF EntryOK
<1>. QED  BY <1>1, <1>2, NothingIsEntry DEF NoDraft, Nothing

\* A caller that is in no call is well formed.
LEMMA IdleCallIsCall ==
    IdleCall \in [stage : {"idle", "chosen", "loaded"}, kid : Kid \cup {None}, since : Time]
BY DEF IdleCall, Time

\* An empty volume satisfies the invariant.
LEMMA InitOK == Init => IInv
<1>. SUFFICES ASSUME Init PROVE IInv
  OBVIOUS
<1>. USE DEF Init
<1>1. TypeOK
  BY NoDraftIsRing, IdleCallIsCall, KeyRingAssumption DEF TypeOK, Time
<1>2. PassOK
  BY DEF PassOK, InPass
<1>3. RingOK
  <2>1. Named(ring) = {} /\ Active(ring) = {} /\ Published(ring) = {}
    BY NoDraftIsRing DEF Named, Active, Published, InRing
  <2>. QED  BY <2>1, NoDraftIsRing DEF RingOK, InstantsOK, OneSignerIn, OneWaitingIn
<1>4. DraftOK /\ DoomOK
  BY DEF InPass, DraftOK, DoomOK
<1>5. CallOK
  BY DEF CallOK, IdleCall
<1>6. GoneOK /\ SignedOK /\ CopyOK
  BY NoDraftIsRing DEF GoneOK, SignedOK, CopyOK
<1>. QED  BY <1>1, <1>2, <1>3, <1>4, <1>5, <1>6 DEF IInv

\* Verifiers fetch, callers choose, load and sign: the ring is only read.
LEMMA FetchOK == ASSUME IInv, NEW v \in Verifier, Fetch(v) PROVE IInv'
<1>. USE DEF IInv, Fetch, diskVars, passVars
<1>1. TypeOK'
  BY DEF TypeOK, Time, Named
<1>2. CopyOK'
  BY DEF CopyOK, TypeOK
<1>3. PassOK' /\ RingOK' /\ DraftOK' /\ DoomOK'
  BY DEF PassOK, InPass, RingOK, DraftOK, DoomOK, Dying
<1>4. CallOK' /\ GoneOK' /\ SignedOK'
  BY DEF CallOK, GoneOK, SignedOK
<1>. QED  BY <1>1, <1>2, <1>3, <1>4

\* `sign` reads which key is active: nothing on disk moves.
LEMMA SignChooseOK ==
    ASSUME IInv, NEW c \in Caller, NEW k \in Kid, SignChoose(c, k) PROVE IInv'
<1>. USE DEF IInv, SignChoose, diskVars, passVars
<1>1. TypeOK'
  BY DEF TypeOK, Time
<1>2. CallOK'
  BY KeyRingAssumption DEF CallOK, TypeOK, Active
<1>3. PassOK' /\ RingOK' /\ DraftOK' /\ DoomOK'
  BY DEF PassOK, InPass, RingOK, DraftOK, DoomOK, Dying
<1>4. GoneOK' /\ SignedOK' /\ CopyOK'
  BY DEF GoneOK, SignedOK, CopyOK
<1>. QED  BY <1>1, <1>2, <1>3, <1>4

\* The key a pass moves was not retired before it started.
LEMMA OldEntryUnmoved ==
    ASSUME IInv, phase = "forget", NEW k \in Dying
    PROVE  /\ k \in Kid
           /\ ring[k] = draft[k]
           /\ ring[k].state \in {"retired", "archived"}
           /\ ring[k].retiredAt \in Nat
           /\ ring[k].retiredAt + Retain <= startedAt
<1>1. startedAt \in Nat
  BY DEF IInv, TypeOK, PassOK, InPass, Time
<1>2. /\ k \in Kid
      /\ draft[k].state \in {"retired", "archived"}
      /\ draft[k].retiredAt \in Nat
      /\ draft[k].retiredAt + Retain <= startedAt
  BY <1>1, DyingIsOld DEF IInv, TypeOK, Dying
<1>3. draft[k].retiredAt # startedAt /\ draft[k].retiredAt # None
  BY <1>1, <1>2, KeyRingAssumption
<1>4. Moved(ring[k], draft[k], startedAt) /\ ring[k] \in Entry
  BY <1>2 DEF IInv, DraftOK, TypeOK
<1>5. ring[k] = draft[k]
  BY <1>2, <1>3, <1>4 DEF Moved, Entry
<1>. QED  BY <1>2, <1>5

\* No call of `sign` is so late that it meets the deletion of its key.
LEMMA CallNotDying ==
    ASSUME IInv, phase = "forget", NEW c \in Caller, call[c].stage # "idle"
    PROVE  call[c].kid \notin Dying
<1>. SUFFICES ASSUME call[c].kid \in Dying PROVE FALSE
  OBVIOUS
<1>. DEFINE k == call[c].kid
<1>1. /\ ring[k].state \in {"retired", "archived"}
      /\ ring[k].retiredAt \in Nat
      /\ ring[k].retiredAt + Retain <= startedAt
  BY OldEntryUnmoved
<1>2. /\ call[c].since \in Nat /\ now <= call[c].since + SignBound
      /\ call[c].since <= ring[k].retiredAt + PassBound
  BY <1>1 DEF IInv, CallOK, TypeOK, Time
<1>3. startedAt \in Nat /\ now \in Nat /\ startedAt <= now
  BY DEF IInv, TypeOK, PassOK, InPass, Time
<1>. QED  BY <1>1, <1>2, <1>3, KeyRingAssumption

\* `signer` caches a key: never one that the running pass is deleting.
LEMMA SignLoadOK == ASSUME IInv, NEW c \in Caller, SignLoad(c) PROVE IInv'
<1>. USE DEF IInv, SignLoad, diskVars, passVars
<1>. DEFINE k == call[c].kid
<1>0. k \in Kid /\ call[c].stage # "idle"
  BY DEF CallOK
<1>1. TypeOK'
  BY <1>0, IdleCallIsCall DEF TypeOK
<1>2. CallOK'
  <2>1. ASSUME NEW d \in Caller
        PROVE  \/ call'[d].stage = "idle" /\ call'[d].kid = None
               \/ /\ call'[d].stage # "idle" /\ call[d].stage # "idle"
                  /\ call'[d].kid = call[d].kid /\ call'[d].since = call[d].since
               \/ call'[d] = call[d]
    BY <1>0 DEF TypeOK, IdleCall
  <2>2. ring' = ring /\ now' = now
    OBVIOUS
  <2>. QED  BY <2>1, <2>2 DEF CallOK
<1>3. PassOK' /\ RingOK' /\ DraftOK'
  BY DEF PassOK, InPass, RingOK, DraftOK
<1>4. DoomOK'
  <2>1. phase = "forget" => k \notin Dying
    BY <1>0, CallNotDying
  <2>2. Dying' = Dying
    BY DEF Dying
  <2>3. signers' \subseteq signers \cup {k}
    OBVIOUS
  <2>. QED  BY <2>1, <2>2, <2>3 DEF DoomOK
<1>5. GoneOK'
  <2>1. ring[k].state \in {"active", "retired"}
    BY <1>0 DEF CallOK
  <2>2. signers' \subseteq signers \cup {k}
    OBVIOUS
  <2>. QED  BY <2>1, <2>2 DEF GoneOK
<1>6. SignedOK' /\ CopyOK'
  BY DEF SignedOK, CopyOK
<1>. QED  BY <1>1, <1>2, <1>3, <1>4, <1>5, <1>6

\* A signature is made: the key was active, or was retired meanwhile.
LEMMA SignFinishOK == ASSUME IInv, NEW c \in Caller, SignFinish(c) PROVE IInv'
<1>. USE DEF IInv, SignFinish, diskVars, passVars
<1>. DEFINE k == call[c].kid
<1>0. /\ k \in Kid /\ call[c].since \in Nat /\ now \in Nat
      /\ now <= call[c].since + SignBound
      /\ \/ ring[k].state = "active"
         \/ /\ ring[k].state = "retired"
            /\ call[c].since <= ring[k].retiredAt + PassBound
  BY DEF CallOK, TypeOK, Time
<1>1. TypeOK'
  BY <1>0, IdleCallIsCall DEF TypeOK, Time
<1>2. CallOK'
  <2>1. ASSUME NEW d \in Caller
        PROVE  \/ call'[d].stage = "idle" /\ call'[d].kid = None
               \/ call'[d] = call[d]
    BY DEF TypeOK, IdleCall
  <2>. QED  BY <2>1 DEF CallOK
<1>3. PassOK' /\ RingOK' /\ DraftOK' /\ DoomOK'
  BY DEF PassOK, InPass, RingOK, DraftOK, DoomOK, Dying
<1>4. SignedOK'
  <2>1. ring[k].state = "retired" => now <= ring[k].retiredAt + PassBound + SignBound
    <3>1. ring[k].state = "retired" => ring[k].retiredAt \in Nat
      BY <1>0, EntryInstants DEF TypeOK
    <3>. QED  BY <1>0, <3>1, KeyRingAssumption
  <2>2. \A j \in Kid : j # k => signedAt'[j] = signedAt[j]
    BY <1>0 DEF TypeOK
  <2>3. signedAt'[k] = now
    BY <1>0 DEF TypeOK
  <2>4. ASSUME NEW j \in Kid, signedAt'[j] # None
        PROVE  /\ signedAt'[j] <= now
               /\ ring[j].state \notin {"unborn", "published"}
               /\ ring[j].state \in {"retired", "archived"} =>
                    signedAt'[j] <= ring[j].retiredAt + PassBound + SignBound
               /\ ring[j].state = "forgotten" =>
                    signedAt'[j] + VerifyRetained <= now + PassBound + SignBound
    <3>1. CASE j = k
      BY <3>1, <2>1, <2>3, <1>0
    <3>2. CASE j # k
      BY <3>2, <2>2, <2>4 DEF SignedOK
    <3>. QED  BY <3>1, <3>2
  <2>. QED  BY <2>4 DEF SignedOK
<1>5. GoneOK' /\ CopyOK'
  BY DEF GoneOK, CopyOK
<1>. QED  BY <1>1, <1>2, <1>3, <1>4, <1>5

\* What was not in the future once never is.
LEMMA InstantsMonotone ==
    ASSUME NEW e, EntryOK(e), NEW t \in Nat, NEW u \in Nat, t <= u, InstantsOK(e, t)
    PROVE  InstantsOK(e, u)
BY DEF EntryOK, Entry, Time, InstantsOK

\* Time passes, within the bounds on a pass and on a call.
LEMMA TickOK == ASSUME IInv, Tick PROVE IInv'
<1>. USE DEF IInv, Tick, diskVars, passVars
<1>0. now \in Nat /\ now' \in Nat /\ now' = now + 1
  BY DEF TypeOK
<1>1. TypeOK'
  BY KeyRingAssumption DEF TypeOK
<1>2. PassOK'
  <2>1. InPass => startedAt \in Nat /\ now < startedAt + PassBound
    BY DEF PassOK, TypeOK, Time
  <2>2. InPass' = InPass
    BY DEF InPass
  <2>. QED  BY <1>0, <2>1, <2>2, KeyRingAssumption DEF PassOK
<1>3. RingOK'
  <2>1. \A k \in Kid : InstantsOK(ring[k], now')
    BY <1>0, InstantsMonotone DEF RingOK, TypeOK
  <2>. QED  BY <2>1 DEF RingOK
<1>4. DraftOK' /\ DoomOK' /\ GoneOK'
  BY DEF InPass, DraftOK, DoomOK, Dying, GoneOK
<1>5. CallOK'
  <2>1. ASSUME NEW c \in Caller, call[c].stage # "idle"
        PROVE  call[c].since <= now + 1 /\ now + 1 <= call[c].since + SignBound
    BY <2>1, <1>0, KeyRingAssumption DEF CallOK, TypeOK, Time
  <2>. QED  BY <1>0, <2>1 DEF CallOK
<1>6. SignedOK'
  BY <1>0, RetentionOrder, KeyRingAssumption DEF SignedOK, TypeOK, Time
<1>7. CopyOK'
  BY <1>0 DEF CopyOK, TypeOK, Time
<1>. QED  BY <1>1, <1>2, <1>3, <1>4, <1>5, <1>6, <1>7

\* A process starts on whatever the last one left.
LEMMA RestartOK == ASSUME IInv, NEW a \in Algorithm, Restart(a) PROVE IInv'
<1>. USE DEF IInv, Restart, diskVars
<1>1. TypeOK' /\ PassOK'
  BY DEF TypeOK, PassOK, InPass
<1>2. RingOK' /\ DraftOK' /\ DoomOK'
  BY DEF RingOK, InPass, DraftOK, DoomOK
<1>3. CallOK' /\ GoneOK' /\ SignedOK' /\ CopyOK'
  BY DEF CallOK, GoneOK, SignedOK, CopyOK
<1>. QED  BY <1>1, <1>2, <1>3

\* A pass that ends without writing leaves the ring on disk as it was.
LEMMA EndPassOK ==
    ASSUME IInv, NEW where \in {"down", "idle"}, EndPass(where),
           UNCHANGED <<ring, pem, algorithm, now, copy, signedAt>>,
           signers' \subseteq signers,
           \/ UNCHANGED call
           \/ call' = [c \in Caller |-> IdleCall],
           faults' \in 0..MaxFaults
    PROVE  IInv'
<1>. USE DEF IInv, EndPass
<1>1. TypeOK'
  BY NoDraftIsRing, IdleCallIsCall DEF TypeOK, Time
<1>2. PassOK' /\ RingOK' /\ DraftOK' /\ DoomOK'
  BY DEF PassOK, InPass, RingOK, DraftOK, DoomOK
<1>3. CallOK'
  BY DEF CallOK, IdleCall
<1>4. GoneOK' /\ SignedOK' /\ CopyOK'
  BY DEF GoneOK, SignedOK, CopyOK
<1>. QED  BY <1>1, <1>2, <1>3, <1>4

\* A crash loses the draft, the cache and the calls, and nothing else.
LEMMA CrashOK == ASSUME IInv, Crash PROVE IInv'
<1>1. faults' \in 0..MaxFaults
  BY KeyRingAssumption DEF IInv, TypeOK, Crash
<1>. QED  BY <1>1, EndPassOK DEF Crash, diskVars

\* A pass that fails leaves ring.json as it was.
LEMMA PassFailsOK == ASSUME IInv, PassFails \/ OutOfKids PROVE IInv'
<1>1. faults' \in 0..MaxFaults
  BY KeyRingAssumption DEF IInv, TypeOK, PassFails, OutOfKids
<1>. QED  BY <1>1, EndPassOK DEF PassFails, OutOfKids, diskVars

\* An orderly stop happens between two passes.
LEMMA StopOK == ASSUME IInv, Stop PROVE IInv'
<1>. USE DEF IInv, Stop, diskVars
<1>1. TypeOK' /\ PassOK'
  BY IdleCallIsCall DEF TypeOK, PassOK, InPass
<1>2. RingOK' /\ DraftOK' /\ DoomOK'
  BY DEF RingOK, InPass, DraftOK, DoomOK
<1>3. CallOK'
  BY DEF CallOK, IdleCall
<1>4. GoneOK' /\ SignedOK' /\ CopyOK'
  BY DEF GoneOK, SignedOK, CopyOK
<1>. QED  BY <1>1, <1>2, <1>3, <1>4

\* A pass starts from the ring on disk.
LEMMA StartPassOK == ASSUME IInv, StartPass PROVE IInv'
<1>. USE DEF IInv, StartPass, diskVars
<1>1. TypeOK' /\ PassOK'
  BY KeyRingAssumption DEF TypeOK, PassOK, InPass, Time
<1>2. RingOK' /\ DraftOK' /\ DoomOK'
  BY DEF RingOK, InPass, DraftOK, DoomOK
<1>3. CallOK' /\ GoneOK' /\ SignedOK' /\ CopyOK'
  BY DEF CallOK, GoneOK, SignedOK, CopyOK
<1>. QED  BY <1>1, <1>2, <1>3

\* What is known of the ring in memory before the handover.
Shape(r, t) ==
    /\ r \in [Kid -> Entry]
    /\ \A k \in Kid : EntryOK(r[k]) /\ InstantsOK(r[k], t)
    /\ \E k \in Kid : Active(r) = {k}
    /\ OneWaitingIn(r)

\* After the handover one key signs still, and nobody is due.
LEMMA HandOverShape ==
    ASSUME NEW r, NEW t \in Nat, Shape(r, t)
    PROVE  LET h == HandOver(r, t)
           IN  /\ Shape(h, t)
               /\ Due(h, t) = {}
               /\ Active(h) \cup Published(h) \subseteq Active(r) \cup Published(r)
               /\ \A k \in Kid :
                     \/ h[k] = r[k]
                     \/ r[k].state = "published" /\ h[k] = TakenEntry(r[k], t)
                     \/ r[k].state = "active" /\ h[k] = RetireEntry(r[k], t)
<1>. USE DEF Shape
<1>1. CASE Due(r, t) = {}
  <2>1. HandOver(r, t) = r
    BY <1>1, HandOverNone
  <2>. QED  BY <1>1, <2>1
<1>2. CASE Due(r, t) # {}
  <2>1. PICK p \in Due(r, t) : TRUE
    BY <1>2
  <2>. DEFINE h == HandOver(r, t)
  <2>2. h = [k \in Kid |-> IF k = p THEN TakenEntry(r[k], t) ELSE RetireEntry(r[k], t)]
    BY <2>1, HandOverOnce
  <2>. HIDE DEF h
  <2>3. p \in Kid /\ r[p].state = "published" /\ r[p].createdAt + Ahead <= t
    BY <2>1 DEF Due, Published
  <2>4. EntryOK(h[p]) /\ InstantsOK(h[p], t) /\ h[p].state = "active"
    BY <2>2, <2>3, TakenEntryIsEntry
  <2>5. ASSUME NEW k \in Kid, k # p
        PROVE  /\ EntryOK(h[k]) /\ InstantsOK(h[k], t) /\ h[k].state # "active"
               /\ h[k] = RetireEntry(r[k], t)
               /\ h[k].state # "published"
    <3>1. h[k] = RetireEntry(r[k], t)
      BY <2>2, <2>5
    <3>2. r[k].state # "published"
      BY <2>3, <2>5 DEF OneWaitingIn, Published
    <3>3. r[k] \in Entry
      OBVIOUS
    <3>4. h[k].state # "published"
      BY <3>1, <3>2, <3>3 DEF RetireEntry, Entry
    <3>5. EntryOK(r[k]) /\ InstantsOK(r[k], t)
      OBVIOUS
    <3>6. /\ EntryOK(RetireEntry(r[k], t))
          /\ InstantsOK(RetireEntry(r[k], t), t)
          /\ RetireEntry(r[k], t).state # "active"
      BY <3>5, RetireEntryIsEntry
    <3>. QED  BY <3>1, <3>4, <3>6
  <2>6. \A k \in Kid : EntryOK(h[k]) /\ InstantsOK(h[k], t)
    BY <2>4, <2>5
  <2>7. h \in [Kid -> Entry]
    BY <2>2, <2>6 DEF EntryOK
  <2>8. Active(h) = {p} /\ Published(h) = {}
    BY <2>3, <2>4, <2>5 DEF Active, Published
  <2>9. p \in Published(r)
    BY <2>3 DEF Published
  <2>10. ASSUME NEW k \in Kid
         PROVE  \/ h[k] = r[k]
                \/ r[k].state = "published" /\ h[k] = TakenEntry(r[k], t)
                \/ r[k].state = "active" /\ h[k] = RetireEntry(r[k], t)
    BY <2>2, <2>3, RetireEntryIsEntry
  <2>11. Shape(h, t)
    BY <2>3, <2>6, <2>7, <2>8 DEF OneWaitingIn
  <2>12. Due(h, t) = {}
    BY <2>8 DEF Due
  <2>13. Active(h) \cup Published(h) \subseteq Active(r) \cup Published(r)
    BY <2>8, <2>9
  <2>. QED  BY <2>10, <2>11, <2>12, <2>13 DEF h
<1>. QED  BY <1>1, <1>2

\* The incumbent stays.
LEMMA KeepIncumbentOK == ASSUME IInv, KeepIncumbent PROVE IInv'
<1>. USE DEF IInv, KeepIncumbent, diskVars
<1>1. TypeOK' /\ PassOK'
  BY DEF TypeOK, PassOK, InPass
<1>2. DraftOK'
  <2>1. \E k \in Kid : Active(draft) = {k}
    BY DEF DraftOK, RingOK, OneSignerIn, NeedsIncumbent, Active, Named, InRing
  <2>. QED  BY <2>1 DEF DraftOK, RingOK, Moved, InPass
<1>3. RingOK' /\ DoomOK'
  BY DEF RingOK, DoomOK
<1>4. CallOK' /\ GoneOK' /\ SignedOK' /\ CopyOK'
  BY DEF CallOK, GoneOK, SignedOK, CopyOK
<1>. QED  BY <1>1, <1>2, <1>3, <1>4

\* A key that signs at once replaces whatever signed before it.
LEMMA MakeIncumbentOK == ASSUME IInv, NEW k \in Kid, MakeIncumbent(k) PROVE IInv'
<1>. DEFINE new == NewEntry(TRUE, startedAt)
<1>0. /\ startedAt \in Nat /\ algorithm \in Algorithm
      /\ draft = ring /\ ring[k].state = "unborn" /\ k \notin pem /\ pem' = pem \cup {k}
      /\ ring' = ring /\ startedAt' = startedAt
      /\ \A j \in Kid : EntryOK(ring[j]) /\ InstantsOK(ring[j], startedAt)
      /\ ring \in [Kid -> Entry]
  BY DEF IInv, MakeIncumbent, Create, TypeOK, PassOK, InPass, Time, DraftOK, Fresh
<1>1. EntryOK(new) /\ InstantsOK(new, startedAt)
  BY <1>0, NewEntryIsEntry
<1>2. /\ new.state = "active" /\ new.createdAt = startedAt /\ new.retiredAt = None
  BY DEF NewEntry
<1>3. draft' = [j \in Kid |-> IF j = k THEN new ELSE RetireEntry(ring[j], startedAt)]
  BY <1>0 DEF MakeIncumbent, Create, RetireActive
<1>. HIDE DEF new
<1>4. ASSUME NEW j \in Kid, j # k
      PROVE  /\ draft'[j] = RetireEntry(ring[j], startedAt)
             /\ EntryOK(draft'[j]) /\ InstantsOK(draft'[j], startedAt)
             /\ draft'[j].state # "active"
             /\ ring[j].state # "active" => draft'[j] = ring[j]
             /\ ring[j].state = "active" => draft'[j] = [ring[j] EXCEPT !.state = "retired", !.retiredAt = startedAt]
  <2>1. draft'[j] = RetireEntry(ring[j], startedAt)
    BY <1>3, <1>4
  <2>2. EntryOK(ring[j]) /\ InstantsOK(ring[j], startedAt)
    BY <1>0
  <2>3. LET d == RetireEntry(ring[j], startedAt)
        IN  /\ EntryOK(d) /\ InstantsOK(d, startedAt) /\ d.state # "active"
            /\ ring[j].state # "active" => d = ring[j]
            /\ ring[j].state = "active" => d = [ring[j] EXCEPT !.state = "retired", !.retiredAt = startedAt]
    BY <2>2, <1>0, RetireEntryIsEntry
  <2>. QED  BY <2>1, <2>3
<1>5. draft'[k] = new
  BY <1>3
<1>6. \A j \in Kid : EntryOK(draft'[j]) /\ InstantsOK(draft'[j], startedAt)
  BY <1>1, <1>4, <1>5
<1>7. draft' \in [Kid -> Entry]
  BY <1>3, <1>6 DEF EntryOK
<1>8. TypeOK' /\ PassOK'
  BY <1>0, <1>6, <1>7 DEF IInv, MakeIncumbent, TypeOK, PassOK, InPass
<1>9. Active(draft') = {k}
  BY <1>2, <1>4, <1>5 DEF Active
<1>10. Published(draft') = Published(ring)
  <2>1. ASSUME NEW j \in Kid PROVE draft'[j].state = "published" <=> ring[j].state = "published"
    <3>1. CASE j = k
      BY <3>1, <1>0, <1>2, <1>5
    <3>2. CASE j # k /\ ring[j].state = "active"
      <4>1. draft'[j] = [ring[j] EXCEPT !.state = "retired", !.retiredAt = startedAt]
        BY <3>2, <1>4
      <4>2. ring[j] \in Entry
        BY <1>0
      <4>3. draft'[j].state = "retired"
        BY <4>1, <4>2 DEF Entry
      <4>. QED  BY <3>2, <4>3
    <3>3. CASE j # k /\ ring[j].state # "active"
      BY <3>3, <1>4
    <3>. QED  BY <3>1, <3>2, <3>3
  <2>. QED  BY <2>1 DEF Published
<1>11. DraftOK'
  <2>1. ASSUME NEW j \in Kid PROVE Moved(ring[j], draft'[j], startedAt)
    BY <1>0, <1>2, <1>4, <1>5 DEF Moved
  <2>2. ASSUME NEW j \in Kid, ring[j].state = "unborn", draft'[j] # ring[j] PROVE j \in pem'
    BY <2>2, <1>0, <1>4
  <2>3. ASSUME NEW j \in Kid, ring[j].state = "published" PROVE draft'[j] = ring[j]
    BY <2>3, <1>0, <1>4
  <2>4. OneWaitingIn(draft') /\ Active(draft') \cup Published(draft') \subseteq pem'
    BY <1>0, <1>9, <1>10 DEF IInv, RingOK, OneWaitingIn
  <2>5. phase' = "handover"
    BY DEF MakeIncumbent
  <2>. QED  BY <1>0, <1>6, <1>9, <2>1, <2>2, <2>3, <2>4, <2>5 DEF DraftOK
<1>12. RingOK' /\ GoneOK' /\ DoomOK'
  BY <1>0 DEF IInv, MakeIncumbent, RingOK, GoneOK, DoomOK
<1>13. CallOK' /\ SignedOK' /\ CopyOK'
  BY DEF IInv, MakeIncumbent, CallOK, SignedOK, CopyOK
<1>. QED  BY <1>8, <1>11, <1>12, <1>13 DEF IInv

\* Before the handover the ring in memory has its shape.
LEMMA DraftShape ==
    ASSUME IInv, phase = "handover"
    PROVE  Shape(draft, startedAt) /\ startedAt \in Nat
BY DEF IInv, TypeOK, PassOK, DraftOK, InPass, Shape, Time

\* The handover moves no entry further than a pass may.
LEMMA HandOverMoves ==
    ASSUME IInv, phase = "handover", NEW k \in Kid
    PROVE  LET h == HandOver(draft, startedAt)
           IN  /\ Moved(ring[k], h[k], startedAt)
               /\ ring[k].state = "unborn" /\ h[k] # ring[k] => k \in pem
<1>. DEFINE h == HandOver(draft, startedAt)
<1>1. /\ Shape(draft, startedAt) /\ startedAt \in Nat
      /\ Moved(ring[k], draft[k], startedAt)
      /\ ring[k].state = "published" => draft[k] = ring[k]
      /\ ring[k].state = "unborn" /\ draft[k] # ring[k] => k \in pem
      /\ ring[k] \in Entry /\ draft[k] \in Entry
      /\ EntryOK(draft[k]) /\ InstantsOK(draft[k], startedAt)
  BY DraftShape DEF IInv, DraftOK, TypeOK, Shape
<1>2. \/ h[k] = draft[k]
      \/ draft[k].state = "published" /\ h[k] = TakenEntry(draft[k], startedAt)
      \/ draft[k].state = "active" /\ h[k] = RetireEntry(draft[k], startedAt)
  BY <1>1, HandOverShape
<1>. HIDE DEF h
<1>3. CASE h[k] = draft[k]
  BY <1>1, <1>3 DEF h
<1>4. CASE draft[k].state = "published" /\ h[k] = TakenEntry(draft[k], startedAt)
  <2>1. CASE draft[k] = ring[k]
    BY <2>1, <1>4, <1>1 DEF Moved, TakenEntry, h
  <2>2. CASE draft[k] # ring[k]
    <3>1. ring[k].state = "unborn" /\ draft[k].createdAt = startedAt /\ k \in pem
      BY <2>2, <1>4, <1>1 DEF Moved, Entry
    <3>2. h[k].state = "active" /\ h[k].createdAt = startedAt /\ h[k].retiredAt = None
      BY <3>1, <1>4, <1>1, EntryInstants DEF TakenEntry, Entry
    <3>. QED  BY <3>1, <3>2 DEF Moved, h
  <2>. QED  BY <2>1, <2>2
<1>5. CASE draft[k].state = "active" /\ h[k] = RetireEntry(draft[k], startedAt)
  <2>1. h[k] = [draft[k] EXCEPT !.state = "retired", !.retiredAt = startedAt]
    BY <1>5, <1>1, RetireEntryIsEntry
  <2>2. CASE draft[k] = ring[k]
    BY <2>1, <2>2, <1>5, <1>1 DEF Moved, h
  <2>3. CASE draft[k] # ring[k]
    <3>1. ring[k].state = "unborn" /\ draft[k].createdAt = startedAt /\ k \in pem
      BY <2>3, <1>5, <1>1 DEF Moved, Entry
    <3>2. h[k].state = "retired" /\ h[k].createdAt = startedAt /\ h[k].retiredAt = startedAt
      BY <3>1, <2>1, <1>1 DEF Entry
    <3>. QED  BY <3>1, <3>2 DEF Moved, h
  <2>. QED  BY <2>2, <2>3
<1>. QED  BY <1>2, <1>3, <1>4, <1>5 DEF h

\* A handover, when no successor is due.
LEMMA HandOverOnlyOK == ASSUME IInv, HandOverOnly PROVE IInv'
<1>. DEFINE h == HandOver(draft, startedAt)
<1>0. /\ phase = "handover" /\ phase' = "forget" /\ draft' = h
      /\ ring' = ring /\ pem' = pem /\ startedAt' = startedAt /\ signers' = signers
      /\ unlinking' = {} /\ doomed' = Dying'
      /\ ~SuccessorDue(h, startedAt)
  BY DEF IInv, PassOK, HandOverOnly, Doom, Dying, diskVars
<1>1. /\ Shape(h, startedAt) /\ Due(h, startedAt) = {}
      /\ Active(h) \cup Published(h) \subseteq Active(draft) \cup Published(draft)
  BY <1>0, DraftShape, HandOverShape
<1>2. \A k \in Kid : /\ Moved(ring[k], h[k], startedAt)
                     /\ ring[k].state = "unborn" /\ h[k] # ring[k] => k \in pem
  BY <1>0, HandOverMoves
<1>. HIDE DEF h
<1>3. Dying' \subseteq Kid
  BY DEF Dying, ToArchive, ToForget, Spent, Expired
<1>4. TypeOK'
  BY <1>0, <1>1, <1>3 DEF IInv, TypeOK, HandOverOnly, diskVars, Shape
<1>5. PassOK'
  BY <1>0 DEF IInv, PassOK, InPass, HandOverOnly
<1>6. DraftOK'
  BY <1>0, <1>1, <1>2 DEF IInv, DraftOK, InPass, Shape
<1>7. DoomOK'
  BY <1>0 DEF DoomOK
<1>8. RingOK' /\ GoneOK' /\ CallOK' /\ SignedOK' /\ CopyOK'
  BY <1>0 DEF IInv, HandOverOnly, RingOK, GoneOK, CallOK, SignedOK, CopyOK
<1>. QED  BY <1>4, <1>5, <1>6, <1>7, <1>8 DEF IInv

\* A handover, and a successor announced.
LEMMA HandOverAndAnnounceOK ==
    ASSUME IInv, NEW k \in Kid, HandOverAndAnnounce(k) PROVE IInv'
<1>. DEFINE h == HandOver(draft, startedAt)
            new == NewEntry(FALSE, startedAt)
<1>0. /\ phase = "handover" /\ phase' = "forget" /\ draft' = [h EXCEPT ![k] = new]
      /\ ring' = ring /\ pem' = pem \cup {k} /\ startedAt' = startedAt
      /\ signers' = signers /\ unlinking' = {} /\ doomed' = Dying'
      /\ SuccessorDue(h, startedAt) /\ ring[k].state = "unborn" /\ k \notin pem
      /\ algorithm \in Algorithm /\ startedAt \in Nat
  BY DraftShape DEF IInv, PassOK, TypeOK, HandOverAndAnnounce, Create, Fresh, Doom, Dying
<1>1. /\ Shape(h, startedAt)
      /\ Active(h) \cup Published(h) \subseteq Active(draft) \cup Published(draft)
  BY <1>0, DraftShape, HandOverShape
<1>2. \A j \in Kid : /\ Moved(ring[j], h[j], startedAt)
                     /\ ring[j].state = "unborn" /\ h[j] # ring[j] => j \in pem
  BY <1>0, HandOverMoves
<1>3. Published(h) = {}
  BY <1>0 DEF SuccessorDue
<1>4. /\ EntryOK(new) /\ InstantsOK(new, startedAt)
      /\ new.state = "published" /\ new.createdAt = startedAt /\ new.retiredAt = None
  BY <1>0, NewEntryIsEntry DEF NewEntry
<1>. HIDE DEF h, new
<1>5. /\ draft'[k] = new
      /\ \A j \in Kid : j # k => draft'[j] = h[j]
      /\ draft' \in [Kid -> Entry]
      /\ \A j \in Kid : EntryOK(draft'[j]) /\ InstantsOK(draft'[j], startedAt)
  BY <1>0, <1>1, <1>4 DEF Shape, EntryOK
<1>6. h[k].state = "unborn"
  BY <1>0, <1>2
<1>7. Active(draft') = Active(h) /\ Published(draft') = {k}
  BY <1>3, <1>4, <1>5, <1>6 DEF Active, Published
<1>8. Dying' \subseteq Kid
  BY DEF Dying, ToArchive, ToForget, Spent, Expired
<1>9. TypeOK'
  BY <1>0, <1>5, <1>8 DEF IInv, TypeOK, HandOverAndAnnounce
<1>10. PassOK'
  BY <1>0 DEF IInv, PassOK, InPass, HandOverAndAnnounce
<1>11. DraftOK'
  <2>1. ASSUME NEW j \in Kid
        PROVE  /\ Moved(ring[j], draft'[j], startedAt)
               /\ ring[j].state = "unborn" /\ draft'[j] # ring[j] => j \in pem'
    BY <1>0, <1>2, <1>4, <1>5 DEF Moved
  <2>2. Due(draft', startedAt) = {}
    <3>1. draft'[k].createdAt = startedAt
      BY <1>4, <1>5
    <3>2. ~(startedAt + Ahead <= startedAt)
      BY <1>0, KeyRingAssumption
    <3>. QED  BY <1>7, <3>1, <3>2 DEF Due
  <2>3. ~SuccessorDue(draft', startedAt)
    BY <1>7 DEF SuccessorDue
  <2>4. OneWaitingIn(draft') /\ \E j \in Kid : Active(draft') = {j}
    BY <1>1, <1>7 DEF OneWaitingIn, Shape
  <2>5. Active(draft') \cup Published(draft') \subseteq pem'
    BY <1>0, <1>1, <1>7 DEF IInv, DraftOK
  <2>. QED  BY <1>0, <1>5, <2>1, <2>2, <2>3, <2>4, <2>5 DEF DraftOK
<1>12. DoomOK'
  BY <1>0 DEF DoomOK
<1>13. RingOK' /\ GoneOK'
  BY <1>0 DEF IInv, HandOverAndAnnounce, RingOK, GoneOK
<1>14. CallOK' /\ SignedOK' /\ CopyOK'
  BY <1>0 DEF IInv, HandOverAndAnnounce, CallOK, SignedOK, CopyOK
<1>. QED  BY <1>9, <1>10, <1>11, <1>12, <1>13, <1>14 DEF IInv

\* `forget`, first half: the cache.
LEMMA ForgetSignerOK == ASSUME IInv, NEW k \in Kid, ForgetSigner(k) PROVE IInv'
<1>. USE DEF ForgetSigner, diskVars
<1>1. TypeOK' /\ PassOK'
  BY DEF IInv, TypeOK, PassOK, InPass
<1>2. RingOK' /\ DraftOK'
  BY DEF IInv, RingOK, InPass, DraftOK
<1>3. DoomOK'
  BY DEF IInv, DoomOK, Dying
<1>4. CallOK' /\ GoneOK' /\ SignedOK' /\ CopyOK'
  BY DEF IInv, CallOK, GoneOK, SignedOK, CopyOK
<1>. QED  BY <1>1, <1>2, <1>3, <1>4 DEF IInv

\* `forget`, second half: the file.
LEMMA ForgetFileOK == ASSUME IInv, NEW k \in Kid, ForgetFile(k) PROVE IInv'
<1>0. /\ phase = "forget" /\ k \in unlinking /\ pem' = pem \ {k} /\ unlinking' = {}
      /\ UNCHANGED <<ring, signers, algorithm, now, phase, startedAt, draft,
                     doomed, call, copy, signedAt, faults>>
  BY DEF IInv, PassOK, ForgetFile
<1>1. k \in Dying
  BY <1>0 DEF IInv, DoomOK
<1>2. ring[k] = draft[k] /\ ring[k].state \in {"retired", "archived"}
  BY <1>0, <1>1, OldEntryUnmoved
<1>3. TypeOK' /\ PassOK'
  BY <1>0 DEF IInv, TypeOK, PassOK, InPass
<1>4. RingOK'
  BY <1>0, <1>2 DEF IInv, RingOK, Active, Published
<1>5. DraftOK'
  BY <1>0, <1>2 DEF IInv, DraftOK, InPass, Active, Published
<1>6. DoomOK'
  <2>1. Dying' = Dying
    BY <1>0 DEF Dying
  <2>. QED  BY <1>0, <2>1 DEF IInv, DoomOK
<1>7. CallOK' /\ GoneOK' /\ SignedOK' /\ CopyOK'
  BY <1>0 DEF IInv, CallOK, GoneOK, SignedOK, CopyOK
<1>. QED  BY <1>3, <1>4, <1>5, <1>6, <1>7 DEF IInv

\* What replacing ring.json does to one entry.
LEMMA WriteRingEntry ==
    ASSUME IInv, WriteRing, NEW k \in Kid
    PROVE  /\ k \notin Dying => ring'[k] = draft[k]
           /\ k \in Dying =>
                 /\ ring[k].state \in {"retired", "archived"}
                 /\ \/ /\ ring'[k].state = "archived"
                       /\ ring'[k].createdAt = ring[k].createdAt
                       /\ ring'[k].activatedAt = ring[k].activatedAt
                       /\ ring'[k].retiredAt = ring[k].retiredAt
                    \/ /\ ring'[k] = Nothing("forgotten")
                       /\ ring[k].retiredAt \in Nat
                       /\ ring[k].retiredAt + VerifyRetained <= startedAt
           /\ Moved(ring[k], draft[k], startedAt)
           /\ EntryOK(draft[k]) /\ InstantsOK(draft[k], startedAt)
           /\ EntryOK(ring[k]) /\ EntryOK(ring'[k])
<1>1. /\ startedAt \in Nat /\ phase = "forget" /\ ring' = Aged(draft, startedAt)
      /\ draft \in [Kid -> Entry] /\ \A j \in Kid : EntryOK(draft[j])
      /\ Moved(ring[k], draft[k], startedAt)
      /\ InstantsOK(draft[k], startedAt) /\ EntryOK(ring[k])
  BY DEF IInv, TypeOK, PassOK, DraftOK, InPass, Time, WriteRing
<1>2. EntryOK(ring'[k])
  BY <1>1, AgedIsRing
<1>3. k \notin Dying => ring'[k] = draft[k]
  BY <1>1, AgedEntry DEF Dying
<1>4. ASSUME k \in Dying
      PROVE  /\ ring[k].state \in {"retired", "archived"}
             /\ \/ /\ ring'[k].state = "archived"
                   /\ ring'[k].createdAt = ring[k].createdAt
                   /\ ring'[k].activatedAt = ring[k].activatedAt
                   /\ ring'[k].retiredAt = ring[k].retiredAt
                \/ /\ ring'[k] = Nothing("forgotten")
                   /\ ring[k].retiredAt \in Nat
                   /\ ring[k].retiredAt + VerifyRetained <= startedAt
  <2>1. ring[k] = draft[k] /\ ring[k].state \in {"retired", "archived"} /\ ring[k].retiredAt \in Nat
    BY <1>1, <1>4, OldEntryUnmoved
  <2>2. CASE k \in ToArchive(draft, startedAt)
    <3>1. draft[k].state = "retired" /\ ring'[k] = [draft[k] EXCEPT !.state = "archived"]
      BY <1>1, <2>2, AgedEntry
    <3>2. LET d == [draft[k] EXCEPT !.state = "archived"]
          IN  /\ d.state = "archived" /\ d.retiredAt = draft[k].retiredAt
              /\ d.activatedAt = draft[k].activatedAt /\ d.createdAt = draft[k].createdAt
      BY <1>1, <3>1, AgedIsRing
    <3>. QED  BY <2>1, <3>1, <3>2
  <2>3. CASE k \in ToForget(draft, startedAt)
    <3>1. draft[k].retiredAt + VerifyRetained <= startedAt /\ ring'[k] = Nothing("forgotten")
      BY <1>1, <2>3, AgedEntry
    <3>. QED  BY <2>1, <3>1
  <2>. QED  BY <1>4, <2>2, <2>3 DEF Dying
<1>. QED  BY <1>1, <1>2, <1>3, <1>4

\* The pass takes effect: ring.json is replaced.
LEMMA WriteRingOK == ASSUME IInv, WriteRing PROVE IInv'
<1>0. /\ startedAt \in Nat /\ now \in Nat /\ phase = "forget" /\ doomed = {} /\ unlinking = {}
      /\ startedAt <= now /\ now <= startedAt + PassBound
      /\ ring' = Aged(draft, startedAt) /\ EndPass("idle")
      /\ UNCHANGED <<pem, signers, algorithm, now, call, copy, signedAt, faults>>
      /\ draft \in [Kid -> Entry] /\ \A j \in Kid : EntryOK(draft[j])
  BY DEF IInv, TypeOK, PassOK, InPass, Time, WriteRing
<1>1. TypeOK'
  BY <1>0, AgedIsRing, NoDraftIsRing DEF IInv, TypeOK, EndPass, Time
<1>2. PassOK' /\ DraftOK' /\ DoomOK'
  BY <1>0 DEF EndPass, PassOK, DraftOK, DoomOK, InPass
<1>3. Active(ring') = Active(draft) /\ Published(ring') = Published(draft)
  BY <1>0, AgedKeeps
<1>4. RingOK'
  <2>1. ASSUME NEW k \in Kid PROVE InstantsOK(ring'[k], now)
    <3>1. CASE k \notin Dying
      <4>1. ring'[k] = draft[k] /\ EntryOK(draft[k]) /\ InstantsOK(draft[k], startedAt)
        BY <3>1, WriteRingEntry
      <4>. QED  BY <4>1, <1>0, InstantsMonotone
    <3>2. CASE k \in Dying
      <4>1. InstantsOK(ring[k], now)
        BY DEF IInv, RingOK
      <4>2. CASE ring'[k] = Nothing("forgotten")
        BY <4>2 DEF Nothing, InstantsOK
      <4>3. CASE ring'[k] # Nothing("forgotten")
        BY <3>2, <4>1, <4>3, WriteRingEntry DEF InstantsOK
      <4>. QED  BY <4>2, <4>3
    <3>. QED  BY <3>1, <3>2
  <2>2. /\ \E k \in Kid : Active(draft) = {k}
        /\ OneWaitingIn(draft)
        /\ Active(draft) \cup Published(draft) \subseteq pem
    BY <1>0 DEF IInv, DraftOK
  <2>. QED  BY <1>0, <1>3, <2>1, <2>2 DEF RingOK, OneSignerIn, OneWaitingIn
<1>5. CallOK'
  <2>1. ASSUME NEW c \in Caller, call[c].stage # "idle"
        PROVE  \/ ring'[call[c].kid].state = "active"
               \/ /\ ring'[call[c].kid].state = "retired"
                  /\ call[c].since <= ring'[call[c].kid].retiredAt + PassBound
    <3>. DEFINE k == call[c].kid
    <3>1. /\ k \in Kid /\ call[c].since \in Nat /\ call[c].since <= now
          /\ \/ ring[k].state = "active"
             \/ ring[k].state = "retired" /\ call[c].since <= ring[k].retiredAt + PassBound
      BY <2>1 DEF IInv, CallOK, TypeOK, Time
    <3>2. k \notin Dying
      BY <1>0, <2>1, CallNotDying
    <3>3. ring'[k] = draft[k] /\ Moved(ring[k], draft[k], startedAt) /\ ring[k] \in Entry
      BY <3>1, <3>2, WriteRingEntry DEF EntryOK
    <3>4. CASE draft[k] = ring[k]
      BY <3>1, <3>3, <3>4
    <3>5. CASE draft[k] # ring[k]
      <4>1. draft[k] = [ring[k] EXCEPT !.state = "retired", !.retiredAt = startedAt]
        BY <3>1, <3>3, <3>5 DEF Moved
      <4>2. draft[k].state = "retired" /\ draft[k].retiredAt = startedAt
        BY <4>1, <3>3 DEF Entry
      <4>. QED  BY <4>2, <3>1, <3>3, <1>0, KeyRingAssumption
    <3>. QED  BY <3>4, <3>5
  <2>. QED  BY <1>0, <2>1 DEF IInv, CallOK
<1>6. GoneOK'
  <2>1. ASSUME NEW k \in Kid, ring'[k].state \in {"archived", "forgotten"}
        PROVE  k \notin pem \cup signers
    <3>1. CASE k \in Dying
      BY <3>1, <1>0 DEF IInv, DoomOK
    <3>2. CASE k \notin Dying
      <4>1. ring'[k] = draft[k] /\ Moved(ring[k], draft[k], startedAt) /\ ring[k] \in Entry
        BY <3>2, WriteRingEntry DEF EntryOK
      <4>2. draft[k] = ring[k]
        BY <2>1, <4>1 DEF Moved, Entry
      <4>. QED  BY <2>1, <4>1, <4>2 DEF IInv, GoneOK
    <3>. QED  BY <3>1, <3>2
  <2>. QED  BY <1>0, <2>1 DEF GoneOK
<1>7. SignedOK'
  <2>1. ASSUME NEW k \in Kid, signedAt[k] # None
        PROVE  /\ ring'[k].state \notin {"unborn", "published"}
               /\ ring'[k].state \in {"retired", "archived"} =>
                      signedAt[k] <= ring'[k].retiredAt + PassBound + SignBound
               /\ ring'[k].state = "forgotten" =>
                      signedAt[k] + VerifyRetained <= now + PassBound + SignBound
    <3>1. /\ signedAt[k] \in Nat /\ signedAt[k] <= now
          /\ ring[k].state \notin {"unborn", "published"}
          /\ ring[k].state \in {"retired", "archived"} =>
                 signedAt[k] <= ring[k].retiredAt + PassBound + SignBound
          /\ ring[k].state = "forgotten" =>
                 signedAt[k] + VerifyRetained <= now + PassBound + SignBound
      BY <2>1 DEF IInv, SignedOK, TypeOK, Time
    <3>2. CASE k \in Dying
      <4>1. ring[k].state \in {"retired", "archived"}
        BY <3>2, WriteRingEntry
      <4>2. CASE ring'[k] = Nothing("forgotten")
        <5>1. ring'[k].state = "forgotten"
          BY <4>2 DEF Nothing
        <5>2. \/ ring'[k].state = "archived"
              \/ ring[k].retiredAt \in Nat /\ ring[k].retiredAt + VerifyRetained <= startedAt
          BY <3>2, WriteRingEntry
        <5>3. signedAt[k] + VerifyRetained <= now + PassBound + SignBound
          BY <5>1, <5>2, <4>1, <3>1, <1>0, KeyRingAssumption, RetentionOrder
        <5>. QED  BY <5>1, <5>3
      <4>3. CASE ring'[k] # Nothing("forgotten")
        <5>1. ring'[k].state = "archived" /\ ring'[k].retiredAt = ring[k].retiredAt
          BY <3>2, <4>3, WriteRingEntry
        <5>. QED  BY <5>1, <4>1, <3>1
      <4>. QED  BY <4>2, <4>3
    <3>3. CASE k \notin Dying
      <4>1. ring'[k] = draft[k] /\ Moved(ring[k], draft[k], startedAt) /\ ring[k] \in Entry
        BY <3>3, WriteRingEntry DEF EntryOK
      <4>2. CASE draft[k] = ring[k]
        BY <4>1, <4>2, <3>1
      <4>3. CASE draft[k] # ring[k]
        <5>1. draft[k] = [ring[k] EXCEPT !.state = "retired", !.retiredAt = startedAt]
          BY <3>1, <4>1, <4>3 DEF Moved
        <5>2. draft[k].state = "retired" /\ draft[k].retiredAt = startedAt
          BY <5>1, <4>1 DEF Entry
        <5>. QED  BY <5>2, <3>1, <4>1, <1>0, KeyRingAssumption
      <4>. QED  BY <4>2, <4>3
    <3>. QED  BY <3>2, <3>3
  <2>. QED  BY <1>0, <2>1 DEF IInv, SignedOK
<1>8. CopyOK'
  <2>1. ASSUME NEW v \in Verifier, copy[v].at # None,
               NEW k \in Kid, ring'[k].state \in InRing, k \notin copy[v].kids
        PROVE  copy[v].at <= ring'[k].createdAt + PassBound
    <3>1. /\ copy[v].at \in Nat /\ copy[v].at <= now
          /\ ring[k].state \in InRing => copy[v].at <= ring[k].createdAt + PassBound
      BY <2>1 DEF IInv, CopyOK, TypeOK, Time, Named
    <3>2. CASE k \in Dying
      <4>1. ring'[k].state # "forgotten"
        BY <2>1 DEF InRing
      <4>2. ring[k].state \in InRing /\ ring'[k].createdAt = ring[k].createdAt
        BY <3>2, <4>1, WriteRingEntry DEF InRing, Nothing
      <4>. QED  BY <4>2, <3>1
    <3>3. CASE k \notin Dying
      <4>1. ring'[k] = draft[k] /\ Moved(ring[k], draft[k], startedAt) /\ ring[k] \in Entry
        BY <3>3, WriteRingEntry DEF EntryOK
      <4>2. CASE ring[k].state = "unborn" /\ draft[k] # ring[k]
        <5>1. draft[k].createdAt = startedAt
          BY <4>1, <4>2 DEF Moved
        <5>. QED  BY <5>1, <4>1, <3>1, <1>0, KeyRingAssumption
      <4>3. CASE ring[k].state # "unborn" \/ draft[k] = ring[k]
        <5>1. draft[k].createdAt = ring[k].createdAt /\ ring[k].state \in InRing
          BY <4>1, <4>3, <2>1 DEF Moved, Entry, InRing
        <5>. QED  BY <5>1, <4>1, <3>1
      <4>. QED  BY <4>2, <4>3
    <3>. QED  BY <3>2, <3>3
  <2>. QED  BY <1>0, <2>1 DEF IInv, CopyOK, Named
<1>. QED  BY <1>1, <1>2, <1>4, <1>5, <1>6, <1>7, <1>8 DEF IInv

----------------------------------------------------------------------------
(* Every step, and the theorems *)

\* Every step preserves the invariant.
LEMMA NextOK == ASSUME IInv, [Next]_vars PROVE IInv'
<1>1. CASE UNCHANGED vars
  BY <1>1 DEF vars, IInv, TypeOK, PassOK, RingOK, DraftOK, DoomOK, CallOK, GoneOK,
              SignedOK, CopyOK, InPass, Dying
<1>2. CASE PassStep
  BY <1>2, KeepIncumbentOK, HandOverOnlyOK, WriteRingOK, MakeIncumbentOK,
     HandOverAndAnnounceOK, ForgetSignerOK, ForgetFileOK DEF PassStep
<1>3. ASSUME NEW c \in Caller, SignStep(c) PROVE IInv'
  BY <1>3, SignChooseOK, SignLoadOK, SignFinishOK DEF SignStep
<1>4. CASE Stop \/ Crash \/ Tick \/ StartPass
  BY <1>4, StopOK, CrashOK, TickOK, StartPassOK
<1>5. CASE PassFails \/ OutOfKids
  BY <1>5, PassFailsOK
<1>6. ASSUME NEW a \in Algorithm, Restart(a) PROVE IInv'
  BY <1>6, RestartOK
<1>7. ASSUME NEW v \in Verifier, Fetch(v) PROVE IInv'
  BY <1>7, FetchOK
<1>. QED  BY <1>1, <1>2, <1>3, <1>4, <1>5, <1>6, <1>7 DEF Next

\* The inductive invariant holds in every state of every ring.
THEOREM Invariance == Spec => []IInv
BY InitOK, NextOK, PTL DEF Spec

\* The files, the memory of the running pass and calls, and the verifiers'
\* copies are well formed in every reachable state.
THEOREM TypeCorrect == Spec => []TypeOK
<1>1. IInv => TypeOK
  BY DEF IInv
<1>. QED  BY <1>1, Invariance, PTL

\* KeyState::Active: exactly one key signs once the ring names any.
THEOREM ExactlyOneSigner == Spec => []OneSigner
<1>1. IInv => OneSigner
  BY DEF IInv, RingOK, OneSignerIn, OneSigner
<1>. QED  BY <1>1, Invariance, PTL

\* The search for a successor in `maintain` has at most one match.
THEOREM AtMostOneWaiting == Spec => []OneWaiting
<1>1. IInv => OneWaiting
  BY DEF IInv, RingOK, OneWaitingIn, OneWaiting
<1>. QED  BY <1>1, Invariance, PTL

\* No crash or failed pass leaves ring.json naming a signing key without its
\* private half.
THEOREM SignerIsOnDisk == Spec => []SigningKeyOnDisk
<1>1. IInv => SigningKeyOnDisk
  BY DEF IInv, RingOK, SigningKeyOnDisk
<1>. QED  BY <1>1, Invariance, PTL

\* `forget` against a concurrent `sign`: the private half of an archived or
\* forgotten key is in no file, in no cache and in no caller's hands.
THEOREM ArchivedKeyCannotSign == Spec => []PrivateHalfGone
<1>1. ASSUME IInv PROVE PrivateHalfGone
  <2>1. ASSUME NEW k \in Kid, ring[k].state \in {"archived", "forgotten"}, NEW c \in Caller
        PROVE  call[c].kid # k
    BY <1>1, <2>1, KeyRingAssumption DEF IInv, CallOK
  <2>. QED  BY <1>1, <2>1 DEF IInv, GoneOK, PrivateHalfGone
<1>. QED  BY <1>1, Invariance, PTL

\* publish_ahead: a verifier within its max-age knows the key that signs.
THEOREM VerifiersKnowTheSigner == Spec => []CopiesKnowTheSigner
<1>1. ASSUME IInv PROVE CopiesKnowTheSigner
  <2>1. SUFFICES ASSUME NEW v \in Verifier, NEW k \in Active(ring), copy[v].at # None,
                        now < copy[v].at + MaxAge,
                        ring[k].activatedAt # ring[k].createdAt, k \notin copy[v].kids
                 PROVE  FALSE
    BY DEF CopiesKnowTheSigner
  <2>2. k \in Kid /\ ring[k].state = "active" /\ k \in Named(ring)
    BY DEF Active, Named, InRing
  <2>3. EntryOK(ring[k]) /\ InstantsOK(ring[k], now)
    BY <1>1, <2>2 DEF IInv, TypeOK, RingOK
  <2>4. ring[k].createdAt \in Nat /\ ring[k].activatedAt \in Nat
    BY <2>2, <2>3, EntryInstants DEF InRing
  <2>5. ring[k].createdAt + Ahead <= now
    BY <2>1, <2>3, <2>4, <1>1, KeyRingAssumption DEF InstantsOK, IInv, TypeOK
  <2>6. copy[v].at \in Nat /\ copy[v].at <= ring[k].createdAt + PassBound
    BY <1>1, <2>1, <2>2 DEF IInv, TypeOK, Time, CopyOK
  <2>7. now \in Nat
    BY <1>1 DEF IInv, TypeOK
  <2>. QED  BY <2>1, <2>4, <2>5, <2>6, <2>7, KeyRingAssumption
<1>. QED  BY <1>1, Invariance, PTL

\* verify_retain: the key behind a signature stays published.
THEOREM SignaturesVerify == Spec => []SignaturesStayVerifiable
<1>1. ASSUME IInv PROVE SignaturesStayVerifiable
  <2>1. SUFFICES ASSUME NEW k \in Kid, signedAt[k] # None,
                        now + PassBound + SignBound < signedAt[k] + VerifyRetained
                 PROVE  ring[k].state \in InRing
    BY DEF SignaturesStayVerifiable, Named
  <2>2. /\ ring[k].state # "unborn"
        /\ ring[k].state = "forgotten" =>
               signedAt[k] + VerifyRetained <= now + PassBound + SignBound
    BY <1>1, <2>1 DEF IInv, SignedOK
  <2>3. signedAt[k] \in Nat /\ now \in Nat /\ ring[k] \in Entry
    BY <1>1, <2>1 DEF IInv, TypeOK, Time
  <2>4. ring[k].state # "forgotten"
    BY <2>1, <2>2, <2>3, KeyRingAssumption, RetentionOrder
  <2>. QED  BY <2>2, <2>3, <2>4 DEF Entry
<1>. QED  BY <1>1, Invariance, PTL

\* However late a pass comes, it leaves a signing key and nothing to hand
\* over, to announce or to erase; what it leaves past its public lifetime is
\* what it archived itself, for the next pass to forget.
THEOREM OnePassCatchesUp == Spec => []CatchesUp
<1>1. ASSUME IInv PROVE CatchesUp
  <2>. SUFFICES ASSUME AboutToWrite
                PROVE  LET written == Aged(draft, startedAt)
                       IN  /\ Active(written) # {}
                           /\ Due(written, startedAt) = {}
                           /\ ~SuccessorDue(written, startedAt)
                           /\ Spent(written, startedAt) = {}
                           /\ Expired(written, startedAt) \subseteq ToArchive(draft, startedAt)
    BY DEF CatchesUp
  <2>. DEFINE written == Aged(draft, startedAt)
  <2>1. /\ phase = "forget" /\ startedAt \in Nat
        /\ draft \in [Kid -> Entry] /\ \A j \in Kid : EntryOK(draft[j])
    BY <1>1 DEF AboutToWrite, IInv, TypeOK, PassOK, InPass, Time
  <2>2. /\ Active(written) = Active(draft) /\ Published(written) = Published(draft)
        /\ \A k \in Active(draft) \cup Published(draft) : written[k] = draft[k]
        /\ Spent(written, startedAt) = {}
    BY <2>1, AgedKeeps
  <2>3. /\ \E k \in Kid : Active(draft) = {k}
        /\ Due(draft, startedAt) = {} /\ ~SuccessorDue(draft, startedAt)
    BY <1>1, <2>1 DEF IInv, DraftOK
  <2>4. Due(written, startedAt) = {}
    BY <2>2, <2>3 DEF Due
  <2>5. ~SuccessorDue(written, startedAt)
    BY <2>2, <2>3 DEF SuccessorDue
  <2>6. Expired(written, startedAt) \subseteq ToArchive(draft, startedAt)
    <3>1. SUFFICES ASSUME NEW k \in Kid, k \in Expired(written, startedAt),
                          k \notin ToArchive(draft, startedAt)
                   PROVE  FALSE
      BY DEF Expired
    <3>2. CASE k \in ToForget(draft, startedAt)
      <4>1. written[k] = Nothing("forgotten")
        BY <2>1, <3>2, AgedEntry
      <4>2. written[k].state = "archived"
        BY <3>1 DEF Expired
      <4>3. Nothing("forgotten").state = "forgotten"
        BY DEF Nothing
      <4>. QED  BY <4>1, <4>2, <4>3
    <3>3. CASE k \notin ToForget(draft, startedAt)
      <4>1. written[k] = draft[k]
        BY <2>1, <3>1, <3>3, AgedEntry
      <4>2. k \in Expired(draft, startedAt)
        BY <3>1, <4>1 DEF Expired
      <4>. QED  BY <3>3, <4>2 DEF ToForget
    <3>. QED  BY <3>2, <3>3
  <2>. QED  BY <2>2, <2>3, <2>4, <2>5, <2>6
<1>. QED  BY <1>1, Invariance, PTL

\* Replacing ring.json is a step of the abstract lifecycle: every key moves
\* along its life, none goes back, and exactly one signs afterwards.
LEMMA WriteRingAdvances == ASSUME IInv, IInv', WriteRing PROVE Lifecycle!Advance
<1>1. ASSUME NEW k \in Kid PROVE ring'[k].state \in Lifecycle!After(ring[k].state)
  <2>1. CASE k \in Dying
    BY <2>1, WriteRingEntry DEF Nothing, Lifecycle!After
  <2>2. CASE k \notin Dying
    <3>1. /\ ring'[k] = draft[k] /\ Moved(ring[k], draft[k], startedAt)
          /\ ring[k] \in Entry
      BY <2>2, WriteRingEntry DEF EntryOK
    <3>2. \/ ring'[k].state = ring[k].state
          \/ ring[k].state = "unborn" /\ ring'[k].state \in {"published", "active", "retired"}
          \/ ring[k].state = "published" /\ ring'[k].state = "active"
          \/ ring[k].state = "active" /\ ring'[k].state = "retired"
      BY <3>1 DEF Moved, Entry
    <3>3. ring[k].state \in {"unborn", "published", "active", "retired", "archived", "forgotten"}
      BY <3>1 DEF Entry, InRing
    <3>. QED  BY <3>2, <3>3 DEF Lifecycle!After
  <2>. QED  BY <2>1, <2>2
<1>2. ASSUME NEW k \in Kid PROVE ring'[k].state \in Lifecycle!State
  BY DEF IInv, TypeOK, Entry, InRing, Lifecycle!State
<1>3. \E k \in Kid : Active(ring') = {k}
  <2>1. /\ phase = "forget" /\ startedAt \in Nat /\ ring' = Aged(draft, startedAt)
        /\ draft \in [Kid -> Entry] /\ \A j \in Kid : EntryOK(draft[j])
        /\ \E k \in Kid : Active(draft) = {k}
    BY DEF WriteRing, IInv, TypeOK, PassOK, DraftOK, InPass, Time
  <2>. QED  BY <2>1, AgedKeeps
<1>. QED  BY <1>1, <1>2, <1>3 DEF Lifecycle!Advance, Active

\* The ring on disk implements the lifecycle that KeyState and KeyManager
\* promise, through crashes, failed passes and changes of algorithm.
THEOREM Refinement == Spec => ImplementsLifecycle
<1>1. Init => Lifecycle!Init
  BY DEF Init, NoDraft, Nothing, Lifecycle!Init
<1>2. ASSUME IInv, IInv', [Next]_vars
      PROVE  [Lifecycle!Next]_([k \in Kid |-> ring[k].state])
  <2>1. CASE WriteRing
    BY <1>2, <2>1, WriteRingAdvances DEF Lifecycle!Next
  <2>2. CASE ~WriteRing
    <3>1. ring' = ring
      BY <1>2, <2>2 DEF Next, PassStep, SignStep, vars, diskVars, Restart, Stop, Crash, Tick,
         StartPass, KeepIncumbent, HandOverOnly, MakeIncumbent, HandOverAndAnnounce,
         ForgetSigner, ForgetFile, PassFails, OutOfKids, SignChoose, SignLoad,
         SignFinish, Fetch
    <3>. QED  BY <3>1
  <2>. QED  BY <2>1, <2>2
<1>. QED  BY <1>1, <1>2, Invariance, PTL DEF Spec, ImplementsLifecycle, Lifecycle!Spec
=============================================================================
