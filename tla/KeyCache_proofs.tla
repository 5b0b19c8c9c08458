--------------------------- MODULE KeyCache_proofs ---------------------------
(***************************************************************************)
(* What KeyCache says of its invariants, for every list of attesters and   *)
(* profiles, every body a source may publish and every choice of times.    *)
(*                                                                         *)
(* Two things are carried along.  Every key in the caches comes from a     *)
(* body its own source published (CacheOK), which is what a signature is   *)
(* accepted on.  And the age of an entry is bounded by where the refresh   *)
(* task stands (AgeOK): the time since an answer is the rest of the sweep  *)
(* it came in, the sleep, and the part of the next sweep before the same   *)
(* source is asked again; from its first failure on the entry's own clock  *)
(* takes over.                                                             *)
(***************************************************************************)
EXTENDS KeyCache, FiniteSetTheorems, WellFoundedInduction, TLAPS

\* Everything any source publishes, and what a cache may hold for one.
Published == UNION {Bodies[s] : s \in Source}
Entry(s)  == [keys : {KeySetOf(b) : b \in Bodies[s]}, failed : Nat \cup {None}]

SourcesOK ==
    /\ published \in [Source -> Published] /\ \A s \in Source : published[s] \in Bodies[s]
    /\ DOMAIN mode = Source
    /\ watched \in Source /\ overran \in BOOLEAN

CacheOK ==
    /\ entries = [s \in Source |-> entries[s]]
    /\ \A s \in Source : entries[s] \in {None} \cup Entry(s)

Active == {"asking", "receiving"}

\* How long each phase of the task may last.
Lasts(phase) ==
    CASE phase \in Active     -> RequestTimeout
      [] phase = "asleep"     -> RefreshEvery
      [] phase = "draining"   -> ShutdownTimeout
      [] OTHER                -> 0

TaskOK ==
    /\ task \in [phase : {"off", "asking", "receiving", "asleep", "draining", "stopped"},
                 at : DOMAIN Order, hop : {1, 2}, left : Nat, body : {None} \cup Published]
    /\ task.left <= Lasts(task.phase)
    /\ task.hop <= Hops(Asked)
    /\ task.phase = "receiving" => task.body \in Bodies[Asked]

Sound == SourcesOK /\ CacheOK /\ TaskOK

----------------------------------------------------------------------------
(* Ages *)

\* The hops of a sweep before the source at place i is asked, the time at which
\* a hop begins at the latest, and the last hop at which a source is asked.
HopsBefore(i) == IF i <= Len(Attesters) THEN i - 1
                 ELSE Len(Attesters) + 2 * (i - 1 - Len(Attesters))
Start(i, hop) == RequestTimeout * (HopsBefore(i) + hop - 1)
LastStart(i)  == Start(i, Hops(Order[i]))

\* The age of an answer whose source has not failed since.
FreshAge(w) ==
    /\ task.phase \in Active /\ task.at > w =>
           age + LastStart(w) <= Start(task.at, task.hop) + RequestTimeout - task.left
    /\ task.phase \in Active /\ task.at <= w =>
           age + LastStart(w) <= Sweep + RefreshEvery + Start(task.at, task.hop)
                                     + RequestTimeout - task.left
    /\ task.phase = "asleep" => age + LastStart(w) <= Sweep + RefreshEvery - task.left
    /\ task.phase = "draining" =>
           age <= Sweep + RequestTimeout + RefreshEvery + ShutdownTimeout - task.left

\* The age of the watched answer, before and after its source first failed.
Aged(entry) ==
    /\ age \in Nat
    /\ entry.failed = None => \A w \in DOMAIN Order : Order[w] = watched => FreshAge(w)
    /\ entry.failed \in 0..ServeStaleFor =>
           age <= Sweep + RequestTimeout + RefreshEvery + entry.failed

AgeOK ==
    /\ task.phase = "off" => entries[watched] = None
    /\ ~overran /\ entries[watched] # None => Aged(entries[watched])

CacheInv == Sound /\ AgeOK /\ IssuerSpeaks

----------------------------------------------------------------------------
(* The order of a sweep *)

\* The constants, as the steps below use them.
LEMMA Constants ==
    /\ RequestTimeout \in Nat /\ RefreshEvery \in Nat /\ RetryUntilReady \in Nat
    /\ ServeStaleFor \in Nat /\ ShutdownTimeout \in Nat
    /\ RequestTimeout > 0 /\ RetryUntilReady <= RefreshEvery
    /\ Len(Attesters) \in Nat /\ Len(Profiles) \in Nat
    /\ DOMAIN Attesters = 1..Len(Attesters) /\ DOMAIN Profiles = 1..Len(Profiles)
BY KeyCacheAssumption

\* Attesters come first, then the providers, and every source has one place.
LEMMA OrderShape ==
    /\ Order \in Seq(Source) /\ DOMAIN Order = 1..Len(Order)
    /\ Len(Order) \in Nat \ {0} /\ Len(Order) = Len(Attesters) + Len(Profiles)
    /\ \A i \in 1..Len(Order) : Order[i] \in Source
    /\ \A i \in 1..Len(Attesters) : Order[i] = Attesters[i].id
    /\ \A j \in 1..Len(Profiles) : Order[Len(Attesters) + j] = Profiles[j].id
    /\ \A s \in Source : \E i \in 1..Len(Order) : Order[i] = s
<1> DEFINE As == [i \in DOMAIN Attesters |-> Attesters[i].id]
           Ps == [i \in DOMAIN Profiles |-> Profiles[i].id]
           Ids == {Attesters[i].id : i \in DOMAIN Attesters}
                      \cup {Profiles[i].id : i \in DOMAIN Profiles}
<1>1. As \in Seq(Ids) /\ Len(As) = Len(Attesters)
  BY Constants
<1>2. Ps \in Seq(Ids) /\ Len(Ps) = Len(Profiles)
  BY Constants
<1>3. /\ \A i \in 1..Len(Attesters) : As[i] = Attesters[i].id
      /\ \A i \in 1..Len(Profiles) : Ps[i] = Profiles[i].id
  BY Constants
<1>4. Order = As \o Ps
  BY DEF Order
<1> HIDE DEF As, Ps, Ids
<1>5. /\ Order \in Seq(Ids) /\ Len(Order) = Len(As) + Len(Ps)
      /\ DOMAIN Order = 1..Len(Order) /\ Len(Order) \in Nat
  <2>1. As \o Ps \in Seq(Ids) /\ Len(As \o Ps) = Len(As) + Len(Ps)
    BY <1>1, <1>2
  <2>2. Order \in Seq(Ids) /\ Len(Order) = Len(As) + Len(Ps)
    BY <1>4, <2>1
  <2>3. DOMAIN Order = 1..Len(Order) /\ Len(Order) \in Nat
    BY <2>2
  <2>4. QED
    BY <2>2, <2>3
<1>6. /\ \A i \in 1..Len(As) : Order[i] = As[i]
      /\ \A j \in 1..Len(Ps) : Order[Len(As) + j] = Ps[j]
  BY <1>1, <1>2, <1>4
<1>7. Len(Order) # 0
  BY <1>5, KeyCacheAssumption
<1>8. \A i \in 1..Len(Order) : Order[i] \in Source
  BY <1>5 DEF Source, ToSet
<1>9. \A s \in Source : \E i \in 1..Len(Order) : Order[i] = s
  <2>1. Source = {Order[i] : i \in 1..Len(Order)}
    BY <1>5 DEF Source, ToSet
  <2>2. QED
    BY <2>1
<1>10. Order \in Seq(Source)
  BY <1>5, <1>8
<1>11. QED
  BY <1>1, <1>2, <1>3, <1>5, <1>6, <1>7, <1>8, <1>9, <1>10

\* A provider takes two hops, an attester one.
LEMMA HopsAt ==
    ASSUME NEW i \in DOMAIN Order
    PROVE  Hops(Order[i]) = IF i <= Len(Attesters) THEN 1 ELSE 2
<1>1. \A a, b \in DOMAIN Order : Order[a] = Order[b] => a = b
  BY KeyCacheAssumption DEF IsInjective
<1>2. CASE i <= Len(Attesters)
  <2>1. ASSUME NEW j \in 1..Len(Profiles), Profiles[j].id = Order[i]
        PROVE  FALSE
    <3>1. Len(Attesters) + j \in DOMAIN Order
      BY OrderShape, Constants
    <3>2. Order[Len(Attesters) + j] = Order[i]
      BY <2>1, OrderShape
    <3>3. Len(Attesters) + j = i
      BY <1>1, <3>1, <3>2
    <3>4. QED
      BY <1>2, <3>3, OrderShape, Constants
  <2>2. ~IsProvider(Order[i])
    BY <2>1, Constants DEF IsProvider, ToSet
  <2>3. QED
    BY <1>2, <2>2 DEF Hops
<1>3. CASE ~(i <= Len(Attesters))
  <2>1. /\ i - Len(Attesters) \in 1..Len(Profiles)
        /\ i = Len(Attesters) + (i - Len(Attesters))
    BY <1>3, OrderShape, Constants
  <2>2. Order[i] = Profiles[i - Len(Attesters)].id
    BY <2>1, OrderShape
  <2>3. Profiles[i - Len(Attesters)] \in ToSet(Profiles)
    BY <2>1, Constants DEF ToSet
  <2>4. IsProvider(Order[i])
    BY <2>2, <2>3 DEF IsProvider
  <2>5. QED
    BY <1>3, <2>4 DEF Hops
<1>4. QED
  BY <1>2, <1>3

\* Multiples of the timeout.
LEMMA Multiples ==
    /\ \A n \in Nat : RequestTimeout * n \in Nat
    /\ RequestTimeout * 0 = 0
    /\ \A n \in Nat : RequestTimeout * (n + 1) = RequestTimeout * n + RequestTimeout
    /\ \A m, n \in Nat : m <= n => RequestTimeout * m <= RequestTimeout * n
BY Constants

\* The hops of a sweep, one after the other.
LEMMA HopsBeforeShape ==
    /\ HopsBefore(1) = 0
    /\ \A i \in DOMAIN Order : HopsBefore(i) \in Nat
    /\ \A i \in DOMAIN Order : i < Len(Order) =>
           HopsBefore(i + 1) = HopsBefore(i) + Hops(Order[i])
    /\ HopsBefore(Len(Order)) + Hops(Order[Len(Order)]) = Len(Attesters) + 2 * Len(Profiles)
    /\ \A i, j \in DOMAIN Order : i < j => HopsBefore(i) + Hops(Order[i]) <= HopsBefore(j)
    /\ \A i \in DOMAIN Order : Hops(Order[i]) \in {1, 2}
    /\ \A i \in DOMAIN Order :
           HopsBefore(i) + Hops(Order[i]) <= Len(Attesters) + 2 * Len(Profiles)
<1> DEFINE n == Len(Attesters)
           m == Len(Profiles)
           H(i) == IF i <= n THEN 1 ELSE 2
<1>1. n \in Nat /\ m \in Nat /\ Len(Order) = n + m /\ n + m > 0 /\ DOMAIN Order = 1..(n + m)
  BY OrderShape, Constants
<1>2. \A i \in 1..(n + m) : Hops(Order[i]) = H(i)
  BY HopsAt, <1>1
<1>3. \A i \in Nat : HopsBefore(i) = IF i <= n THEN i - 1 ELSE n + 2 * (i - 1 - n)
  BY DEF HopsBefore
<1> HIDE DEF n, m
<1>4. HopsBefore(1) = 0
  BY <1>1, <1>3
<1>5. ASSUME NEW i \in 1..(n + m)
      PROVE  /\ HopsBefore(i) \in Nat
             /\ HopsBefore(i) + H(i) = HopsBefore(i + 1)
             /\ HopsBefore(i) + H(i) <= n + 2 * m
             /\ \A j \in 1..(n + m) : i < j => HopsBefore(i) + H(i) <= HopsBefore(j)
  <2>1. /\ HopsBefore(i) = IF i <= n THEN i - 1 ELSE n + 2 * (i - 1 - n)
        /\ HopsBefore(i + 1) = IF i + 1 <= n THEN i ELSE n + 2 * (i - n)
    BY <1>1, <1>3
  <2>2. /\ HopsBefore(i) \in Nat
        /\ HopsBefore(i) + H(i) = HopsBefore(i + 1)
        /\ HopsBefore(i) + H(i) <= n + 2 * m
    BY <1>1, <2>1
  <2>3. ASSUME NEW j \in 1..(n + m), i < j
        PROVE  HopsBefore(i) + H(i) <= HopsBefore(j)
    <3>1. HopsBefore(j) = IF j <= n THEN j - 1 ELSE n + 2 * (j - 1 - n)
      BY <1>1, <1>3
    <3>2. QED
      BY <1>1, <2>1, <2>3, <3>1
  <2>4. QED
    BY <2>2, <2>3
<1>6. HopsBefore(n + m) + H(n + m) = n + 2 * m
  BY <1>1, <1>3
<1>7. n + m \in 1..(n + m)
  BY <1>1
<1>8. \A i \in 1..(n + m) : H(i) \in {1, 2}
  OBVIOUS
<1> HIDE DEF H
<1>9. QED
  BY <1>1, <1>2, <1>4, <1>5, <1>6, <1>7, <1>8 DEF n, m

\* When the hops of a sweep begin.
LEMMA Schedule ==
    /\ Start(1, 1) = 0 /\ Sweep \in Nat /\ LastStart(Len(Order)) + RequestTimeout = Sweep
    /\ \A i \in DOMAIN Order : \A h \in {1, 2} : Start(i, h) \in Nat
    /\ \A i \in DOMAIN Order : LastStart(i) \in Nat /\ Start(i, 2) = Start(i, 1) + RequestTimeout
    /\ \A i \in DOMAIN Order : i < Len(Order) => Start(i + 1, 1) = LastStart(i) + RequestTimeout
    /\ \A i \in DOMAIN Order : \A h \in {1, 2} : h <= Hops(Order[i]) =>
           /\ Start(i, h) <= LastStart(i)
           /\ Start(i, h) + RequestTimeout <= Sweep
    /\ \A i, j \in DOMAIN Order : i <= j => LastStart(i) <= LastStart(j)
<1> DEFINE R == RequestTimeout
           B(i) == HopsBefore(i)
           H(i) == Hops(Order[i])
           N == Len(Attesters) + 2 * Len(Profiles)
<1>1. /\ \A n \in Nat : R * n \in Nat
      /\ R * 0 = 0
      /\ \A n \in Nat : R * (n + 1) = R * n + R
      /\ \A k, n \in Nat : k <= n => R * k <= R * n
  BY Multiples
<1>2. /\ B(1) = 0
      /\ \A i \in DOMAIN Order : B(i) \in Nat /\ H(i) \in {1, 2} /\ B(i) + H(i) <= N
      /\ \A i \in DOMAIN Order : i < Len(Order) => B(i + 1) = B(i) + H(i)
      /\ B(Len(Order)) + H(Len(Order)) = N
      /\ \A i, j \in DOMAIN Order : i < j => B(i) + H(i) <= B(j)
  BY HopsBeforeShape
<1>3. N \in Nat /\ R \in Nat
  BY Constants
<1>4. /\ Len(Order) \in DOMAIN Order /\ 1 \in DOMAIN Order
      /\ \A i \in DOMAIN Order : i \in Nat /\ (i < Len(Order) => i + 1 \in DOMAIN Order)
  BY OrderShape
<1>5. /\ \A i, h : Start(i, h) = R * (B(i) + h - 1)
      /\ \A i : LastStart(i) = R * (B(i) + H(i) - 1)
      /\ Sweep = R * N
  BY DEF Start, LastStart, Sweep
<1> HIDE DEF R, B, H, N
<1>6. \A i \in DOMAIN Order : \A h \in {1, 2} : B(i) + h - 1 \in Nat
  BY <1>2
<1>7. \A i \in DOMAIN Order : B(i) + H(i) - 1 \in Nat /\ (B(i) + H(i) - 1) + 1 = B(i) + H(i)
  BY <1>2
<1>8. Start(1, 1) = 0 /\ Sweep \in Nat
  <2>1. B(1) + 1 - 1 = 0
    BY <1>2
  <2>2. QED
    BY <1>1, <1>3, <1>5, <2>1
<1>9. LastStart(Len(Order)) + R = Sweep
  BY <1>1, <1>2, <1>4, <1>5, <1>7
<1>10. \A i \in DOMAIN Order : \A h \in {1, 2} : Start(i, h) \in Nat
  BY <1>1, <1>5, <1>6
<1>11. ASSUME NEW i \in DOMAIN Order
       PROVE  LastStart(i) \in Nat /\ Start(i, 2) = Start(i, 1) + R
  <2>1. B(i) + 2 - 1 = B(i) + 1 /\ B(i) + 1 - 1 = B(i) /\ B(i) \in Nat
    BY <1>2
  <2>2. QED
    BY <1>1, <1>5, <1>7, <2>1
<1>12. ASSUME NEW i \in DOMAIN Order, i < Len(Order)
       PROVE  Start(i + 1, 1) = LastStart(i) + R
  <2> DEFINE n == B(i) + H(i) - 1
  <2>1. n \in Nat /\ B(i + 1) + 1 - 1 = n + 1
    <3>1. B(i) \in Nat /\ H(i) \in Nat /\ B(i + 1) = B(i) + H(i)
      BY <1>2, <1>12
    <3>2. \A b, h, x \in Nat : x = b + h => x + 1 - 1 = (b + h - 1) + 1
      OBVIOUS
    <3>3. B(i + 1) + 1 - 1 = (B(i) + H(i) - 1) + 1
      BY <3>1, <3>2
    <3>4. QED
      BY <1>7, <3>3
  <2>2. Start(i + 1, 1) = R * (B(i + 1) + 1 - 1) /\ LastStart(i) = R * n
    BY <1>5
  <2> HIDE DEF n
  <2>3. Start(i + 1, 1) = R * (n + 1)
    BY <2>1, <2>2
  <2>4. R * (n + 1) = R * n + R
    BY <1>1, <2>1
  <2>5. QED
    BY <2>2, <2>3, <2>4
<1>13. ASSUME NEW i \in DOMAIN Order, NEW h \in {1, 2}, h <= H(i)
       PROVE  Start(i, h) <= LastStart(i) /\ Start(i, h) + R <= Sweep
  <2>1. /\ B(i) + h - 1 \in Nat /\ B(i) + h - 1 <= B(i) + H(i) - 1
        /\ (B(i) + h - 1) + 1 \in Nat /\ (B(i) + h - 1) + 1 <= N
    BY <1>2, <1>3, <1>13
  <2>2. Start(i, h) <= LastStart(i)
    BY <1>1, <1>5, <1>7, <2>1
  <2>3. R * ((B(i) + h - 1) + 1) <= R * N
    BY <1>1, <1>3, <2>1
  <2>4. QED
    BY <1>1, <1>5, <2>1, <2>2, <2>3
<1>14. ASSUME NEW i \in DOMAIN Order, NEW j \in DOMAIN Order, i <= j
       PROVE  LastStart(i) <= LastStart(j)
  <2>1. /\ B(i) \in Nat /\ B(j) \in Nat /\ H(i) \in {1, 2} /\ H(j) \in {1, 2}
        /\ i = j \/ B(i) + H(i) <= B(j)
    <3>1. i = j \/ i < j
      BY <1>4, <1>14
    <3>2. QED
      BY <1>2, <3>1
  <2>2. B(i) + H(i) - 1 <= B(j) + H(j) - 1
    BY <2>1
  <2>3. QED
    BY <1>1, <1>5, <1>7, <2>2
<1>15. QED
  BY <1>8, <1>9, <1>10, <1>11, <1>12, <1>13, <1>14 DEF R, H

----------------------------------------------------------------------------
(* The caches and the task *)

\* What the source being asked is.
LEMMA AskedShape ==
    ASSUME TaskOK
    PROVE  /\ task.at \in DOMAIN Order /\ Asked = Order[task.at] /\ Asked \in Source
           /\ task.hop \in {1, 2} /\ task.left \in Nat
BY OrderShape DEF TaskOK, Asked

\* A task that asks, or that waits, is a task.
LEMMA AskingFits ==
    ASSUME NEW i \in DOMAIN Order, NEW h \in {1, 2}, h <= Hops(Order[i]), task' = Asking(i, h)
    PROVE  TaskOK'
BY Constants DEF Asking, TaskOK, Lasts, Active, Asked

LEMMA IdleFits ==
    ASSUME NEW phase \in {"off", "asleep", "draining", "stopped"}, NEW left \in Nat,
           left <= Lasts(phase), task' = Idle(phase, left)
    PROVE  TaskOK'
<1>1. /\ task'.phase = phase /\ task'.at = 1 /\ task'.hop = 1 /\ task'.left = left
      /\ task'.body = None
  BY DEF Idle
<1>2. 1 \in DOMAIN Order
  BY OrderShape
<1>3. 1 <= Hops(Order[1])
  BY HopsAt, <1>2
<1>4. QED
  BY <1>1, <1>2, <1>3 DEF Idle, TaskOK, Asked

LEMMA AfterFits ==
    ASSUME TaskOK, NEW es, task' = After(es)
    PROVE  TaskOK'
<1>1. CASE task.at < Len(Order)
  <2>1. task.at + 1 \in DOMAIN Order
    BY <1>1, AskedShape, OrderShape
  <2>2. 1 <= Hops(Order[task.at + 1])
    BY <2>1, HopsAt
  <2>3. task' = Asking(task.at + 1, 1)
    BY <1>1 DEF After
  <2>4. QED
    BY <2>1, <2>2, <2>3, AskingFits
<1>2. CASE ~(task.at < Len(Order))
  <2>1. PICK left \in {RefreshEvery, RetryUntilReady} : task' = Idle("asleep", left)
    BY <1>2 DEF After
  <2>2. left \in Nat /\ left <= Lasts("asleep")
    BY <2>1, Constants DEF Lasts, Active
  <2>3. QED
    BY <2>1, <2>2, IdleFits
<1>3. QED
  BY <1>1, <1>2

\* A failure keeps the keys of every entry.
LEMMA RefreshFailedFits ==
    ASSUME CacheOK, NEW x \in Source, entries' = RefreshFailed(x)
    PROVE  /\ CacheOK'
           /\ \A s \in Source : s # x => entries'[s] = entries[s]
           /\ entries[x] = None => entries'[x] = None
           /\ entries[x] # None /\ entries[x].failed # None => entries'[x] = entries[x]
           /\ entries[x] # None /\ entries[x].failed = None => entries'[x].failed = 0
<1>1. CASE entries[x] = None \/ entries[x].failed # None
  BY <1>1 DEF RefreshFailed, CacheOK
<1>2. CASE ~(entries[x] = None \/ entries[x].failed # None)
  <2>1. entries[x] \in Entry(x)
    BY <1>2 DEF CacheOK
  <2>2. entries' = [entries EXCEPT ![x] = [entries[x] EXCEPT !.failed = 0]]
    BY <1>2 DEF RefreshFailed
  <2>3. [entries[x] EXCEPT !.failed = 0] \in Entry(x)
    BY <2>1 DEF Entry
  <2>4. /\ entries'[x] = [entries[x] EXCEPT !.failed = 0]
        /\ \A s \in Source : s # x => entries'[s] = entries[s]
        /\ entries' = [s \in Source |-> entries'[s]]
    BY <2>2 DEF CacheOK
  <2>5. CacheOK'
    BY <2>3, <2>4 DEF CacheOK
  <2>6. entries'[x].failed = 0
    BY <2>1, <2>4 DEF Entry
  <2>7. QED
    BY <1>2, <2>4, <2>5, <2>6
<1>3. QED
  BY <1>1, <1>2

\* An answer that is a key set replaces the entry of the source that gave it.
LEMMA FreshFits ==
    ASSUME CacheOK, NEW x \in Source, NEW b \in Bodies[x],
           entries' = [entries EXCEPT ![x] = Fresh(b)]
    PROVE  /\ CacheOK'
           /\ \A s \in Source : s # x => entries'[s] = entries[s]
           /\ entries'[x] = Fresh(b) /\ entries'[x].failed = None
<1>1. Fresh(b) \in Entry(x) /\ Fresh(b).failed = None
  BY DEF Fresh, Entry
<1>2. QED
  BY <1>1 DEF CacheOK

\* Time only counts failures on.
LEMMA TickFits ==
    ASSUME CacheOK, Tick
    PROVE  /\ CacheOK'
           /\ \A s \in Source : entries[s] = None => entries'[s] = None
           /\ \A s \in Source : entries[s] # None => entries'[s].failed =
                  IF entries[s].failed \in 0..ServeStaleFor THEN entries[s].failed + 1
                  ELSE entries[s].failed
<1> DEFINE Counted(f) == IF f \in 0..ServeStaleFor THEN f + 1 ELSE f
<1>1. entries' = [s \in Source |-> IF entries[s] = None THEN None
                     ELSE [entries[s] EXCEPT !.failed = Counted(entries[s].failed)]]
  BY DEF Tick
<1>2. \A f \in Nat \cup {None} : Counted(f) \in Nat \cup {None}
  BY Constants
<1> HIDE DEF Counted
<1>3. ASSUME NEW s \in Source, entries[s] # None
      PROVE  /\ entries'[s] \in Entry(s)
             /\ entries'[s].failed = Counted(entries[s].failed)
  <2>1. entries[s] \in Entry(s)
    BY <1>3 DEF CacheOK
  <2>2. entries'[s] = [entries[s] EXCEPT !.failed = Counted(entries[s].failed)]
    BY <1>1, <1>3
  <2>3. QED
    BY <1>2, <2>1, <2>2 DEF Entry
<1>4. \A s \in Source : entries[s] = None => entries'[s] = None
  BY <1>1
<1>5. CacheOK'
  <2>1. entries' = [s \in Source |-> entries'[s]]
    BY <1>1
  <2>2. \A s \in Source : entries'[s] \in {None} \cup Entry(s)
    BY <1>3, <1>4
  <2>3. QED
    BY <2>1, <2>2 DEF CacheOK
<1>6. QED
  BY <1>3, <1>4, <1>5 DEF Counted

LEMMA SoundInit == Init => Sound
<1> SUFFICES ASSUME Init PROVE Sound
  OBVIOUS
<1>1. SourcesOK
  BY DEF Init, SourcesOK, Published
<1>2. CacheOK
  BY DEF Init, CacheOK
<1>3. TaskOK
  <2>1. task = Idle("off", 0)
    BY DEF Init
  <2>2. 1 \in DOMAIN Order /\ 1 <= Hops(Order[1])
    BY OrderShape, HopsAt
  <2>3. QED
    BY <2>1, <2>2 DEF Idle, TaskOK, Asked, Lasts, Active
<1>4. QED
  BY <1>1, <1>2, <1>3 DEF Sound

\* A sweep that fails at the source it asks goes on, and keeps what is cached.
LEMMA FailedFits ==
    ASSUME Sound, Failed
    PROVE  CacheOK' /\ TaskOK'
<1>1. Asked \in Source
  BY AskedShape DEF Sound
<1>2. CacheOK'
  BY <1>1, RefreshFailedFits DEF Failed, Sound
<1>3. TaskOK'
  BY AfterFits DEF Failed, Sound
<1>4. QED
  BY <1>2, <1>3

\* What the last hop of an answer does.
LEMMA AnswerEndsCases ==
    ASSUME AnswerEnds
    PROVE  \/ Failed /\ (~(task.hop < Hops(Asked)) => ~Parses(task.body))
           \/ /\ task.hop < Hops(Asked)
              /\ task' = Asking(task.at, task.hop + 1) /\ UNCHANGED entries
           \/ /\ ~(task.hop < Hops(Asked)) /\ Parses(task.body)
              /\ entries' = [entries EXCEPT ![Asked] = Fresh(task.body)]
              /\ task' = After(entries')
BY DEF AnswerEnds

LEMMA AnswerEndsFits ==
    ASSUME Sound, AnswerEnds
    PROVE  CacheOK' /\ TaskOK'
<1>1. /\ Asked \in Source /\ task.at \in DOMAIN Order /\ Asked = Order[task.at]
      /\ task.hop \in {1, 2} /\ task.body \in Bodies[Asked]
  BY AskedShape DEF Sound, TaskOK, AnswerEnds
<1>2. CASE Failed
  BY <1>2, FailedFits
<1>3. CASE /\ task.hop < Hops(Asked)
           /\ task' = Asking(task.at, task.hop + 1) /\ UNCHANGED entries
  <2>1. Hops(Order[task.at]) \in {1, 2}
    BY <1>1, HopsAt
  <2>2. task.hop + 1 \in {1, 2} /\ task.hop + 1 <= Hops(Order[task.at])
    BY <1>1, <1>3, <2>1
  <2>3. TaskOK'
    BY <1>1, <1>3, <2>2, AskingFits
  <2>4. QED
    BY <1>3, <2>3 DEF Sound, CacheOK
<1>4. CASE /\ entries' = [entries EXCEPT ![Asked] = Fresh(task.body)]
           /\ task' = After(entries')
  <2>1. CacheOK'
    BY <1>1, <1>4, FreshFits DEF Sound
  <2>2. TaskOK'
    BY <1>4, AfterFits DEF Sound
  <2>3. QED
    BY <2>1, <2>2
<1>5. QED
  BY <1>2, <1>3, <1>4, AnswerEndsCases

LEMMA TickTaskFits ==
    ASSUME TaskOK, Tick
    PROVE  TaskOK'
<1>1. /\ task' = [task EXCEPT !.left = IF task.left = 0 THEN 0 ELSE task.left - 1]
      /\ task.left \in Nat
  BY DEF Tick, TaskOK
<1> DEFINE l == IF task.left = 0 THEN 0 ELSE task.left - 1
<1>2. l \in Nat /\ l <= task.left
  BY <1>1
<1>3. task' = [task EXCEPT !.left = l]
  BY <1>1
<1> HIDE DEF l
<1>4. /\ task'.phase = task.phase /\ task'.at = task.at /\ task'.hop = task.hop
      /\ task'.left = l /\ task'.body = task.body
  BY <1>3 DEF TaskOK
<1>5. Lasts(task.phase) \in Nat
  BY Constants DEF Lasts
<1>6. l <= Lasts(task.phase)
  BY <1>1, <1>2, <1>5 DEF TaskOK
<1>7. QED
  BY <1>2, <1>3, <1>4, <1>6 DEF TaskOK, Asked

\* Every step keeps the caches, the task and the sources in shape.
LEMMA SoundStep ==
    ASSUME Sound, [Next]_vars
    PROVE  Sound'
<1> USE DEF Sound
<1>1. ASSUME NEW s \in Source, Publish(s)
      PROVE  Sound'
  <2>1. PICK b \in Bodies[s] : published' = [published EXCEPT ![s] = b]
    BY <1>1 DEF Publish
  <2>2. b \in Published
    BY DEF Published
  <2>3. SourcesOK'
    BY <1>1, <2>1, <2>2 DEF Publish, SourcesOK, histVars
  <2>4. QED
    BY <1>1, <2>3 DEF Publish, CacheOK, TaskOK, Asked
<1>2. ASSUME NEW s \in Source, Change(s)
      PROVE  Sound'
  <2>1. DOMAIN mode' = DOMAIN mode
    BY <1>2 DEF Change
  <2>2. QED
    BY <1>2, <2>1 DEF Change, histVars, SourcesOK, CacheOK, TaskOK, Asked
<1>3. CASE Tick
  <2>1. SourcesOK'
    <3>1. overran' \in BOOLEAN
      BY <1>3 DEF Tick
    <3>2. QED
      BY <1>3, <3>1 DEF Tick, sourceVars, SourcesOK
  <2>2. QED
    BY <1>3, <2>1, TickFits, TickTaskFits
<1>4. CASE StartKeyRefresh \/ Wakes
  <2>1. TaskOK'
    <3>1. 1 \in DOMAIN Order /\ 1 <= Hops(Order[1])
      BY OrderShape, HopsAt
    <3>2. QED
      BY <1>4, <3>1, AskingFits DEF StartKeyRefresh, Wakes
  <2>2. QED
    BY <1>4, <2>1 DEF StartKeyRefresh, Wakes, sourceVars, histVars, SourcesOK, CacheOK
<1>5. CASE AnswerBegins
  <2>1. Asked \in Source /\ published[Asked] \in Bodies[Asked] /\ published[Asked] \in Published
    BY AskedShape DEF SourcesOK
  <2>2. /\ task' = [task EXCEPT !.phase = "receiving", !.body = published[Asked]]
        /\ task.phase = "asking"
    BY <1>5 DEF AnswerBegins
  <2>3. /\ task'.phase = "receiving" /\ task'.at = task.at /\ task'.hop = task.hop
        /\ task'.left = task.left /\ task'.body = published[Asked] /\ Asked' = Asked
    BY <2>2 DEF TaskOK, Asked
  <2>4. TaskOK'
    BY <2>1, <2>2, <2>3 DEF TaskOK, Lasts, Active, Asked
  <2>5. QED
    BY <1>5, <2>4 DEF AnswerBegins, sourceVars, histVars, SourcesOK, CacheOK
<1>6. CASE AnswerEnds
  BY <1>6, AnswerEndsFits DEF AnswerEnds, sourceVars, SourcesOK
<1>7. CASE FetchFails \/ TimesOut
  <2>1. Failed
    BY <1>7 DEF FetchFails, TimesOut
  <2>2. QED
    BY <1>7, <2>1, FailedFits DEF FetchFails, TimesOut, sourceVars, histVars, SourcesOK
<1>8. CASE Stop \/ Drained
  <2>1. TaskOK'
    BY <1>8, IdleFits, Constants DEF Stop, Drained, Lasts, Active
  <2>2. QED
    BY <1>8, <2>1 DEF Stop, Drained, sourceVars, histVars, SourcesOK, CacheOK
<1>9. CASE Requests
  BY <1>9 DEF Requests, Present, Settle, sourceVars, histVars, SourcesOK, CacheOK, TaskOK, Asked
<1>10. CASE UNCHANGED vars
  BY <1>10 DEF vars, SourcesOK, CacheOK, TaskOK, Asked
<1>11. QED
  BY <1>1, <1>2, <1>3, <1>4, <1>5, <1>6, <1>7, <1>8, <1>9, <1>10 DEF Next, TaskStep

----------------------------------------------------------------------------
(* Ages *)

\* The watched source has one place.
LEMMA OnePlace ==
    \A i, j \in DOMAIN Order : Order[i] = Order[j] => i = j
BY KeyCacheAssumption DEF IsInjective

\* What a task that goes on is.
LEMMA AfterCases ==
    ASSUME TaskOK, NEW es, task' = After(es)
    PROVE  \/ /\ task.at < Len(Order) /\ task'.phase = "asking" /\ task'.at = task.at + 1
              /\ task'.hop = 1 /\ task'.left = RequestTimeout
           \/ /\ task.at = Len(Order) /\ task'.phase = "asleep"
              /\ task'.left \in Nat /\ task'.left <= RefreshEvery
<1>1. task.at \in DOMAIN Order
  BY AskedShape
<1>2. CASE task.at < Len(Order)
  BY <1>2 DEF After, Asking
<1>3. CASE ~(task.at < Len(Order))
  <2>1. task.at = Len(Order)
    BY <1>1, <1>3, OrderShape
  <2>2. PICK left \in {RefreshEvery, RetryUntilReady} : task' = Idle("asleep", left)
    BY <1>3 DEF After
  <2>3. task'.phase = "asleep" /\ task'.left = left
    BY <2>2 DEF Idle
  <2>4. QED
    BY <2>1, <2>2, <2>3, Constants
<1>4. QED
  BY <1>2, <1>3

\* A hop that ends early is counted as if it had not.
LEMMA Slack ==
    ASSUME NEW a \in Nat, NEW c \in Nat, NEW s \in Nat, NEW t \in Nat, NEW r \in Nat,
           NEW l \in Nat, s <= t
    PROVE  /\ a <= s + r - l => a <= t + r
           /\ a <= c + s + r - l => a <= c + t + r
OBVIOUS

\* An answer ages by what is left of the hop when the task goes on.
LEMMA OnwardAges ==
    ASSUME Sound, task.phase \in Active, NEW es, task' = After(es),
           age \in Nat, age' = age, NEW w \in DOMAIN Order, w # task.at, FreshAge(w)
    PROVE  FreshAge(w)'
<1> DEFINE i == task.at
           h == task.hop
           L == LastStart(w)
<1>1. /\ i \in DOMAIN Order /\ h \in {1, 2} /\ h <= Hops(Order[i])
      /\ task.left \in Nat /\ i \in Nat /\ w \in Nat /\ w <= Len(Order) /\ i <= Len(Order)
      /\ Len(Order) \in Nat /\ w # i
  BY AskedShape, OrderShape DEF Sound, TaskOK, Asked
<1>2. /\ Start(i, h) \in Nat /\ LastStart(i) \in Nat /\ L \in Nat /\ Sweep \in Nat
      /\ Start(i, h) <= LastStart(i)
      /\ i < Len(Order) => Start(i + 1, 1) = LastStart(i) + RequestTimeout
      /\ i = Len(Order) => LastStart(i) + RequestTimeout = Sweep
  BY <1>1, Schedule
<1>3. /\ i > w => age + L <= Start(i, h) + RequestTimeout - task.left
      /\ i <= w => age + L <= Sweep + RefreshEvery + Start(i, h) + RequestTimeout - task.left
  BY DEF FreshAge
<1>4. /\ i > w => age + L <= LastStart(i) + RequestTimeout
      /\ i <= w => age + L <= Sweep + RefreshEvery + LastStart(i) + RequestTimeout
  <2> HIDE DEF i, h, L
  <2>1. age + L \in Nat /\ Sweep + RefreshEvery \in Nat
    BY <1>2, Constants
  <2> QED
    BY <1>1, <1>2, <1>3, <2>1, Constants, Slack
<1>5. CASE /\ i < Len(Order) /\ task'.phase = "asking" /\ task'.at = i + 1
           /\ task'.hop = 1 /\ task'.left = RequestTimeout
  <2>1. /\ task'.at > w => age' + L <= Start(i + 1, 1)
        /\ task'.at <= w => age' + L <= Sweep + RefreshEvery + Start(i + 1, 1)
    <3>1. Start(i + 1, 1) = LastStart(i) + RequestTimeout
      BY <1>2, <1>5
    <3>2. task'.at > w => i > w
      BY <1>1, <1>5
    <3>3. task'.at <= w => i <= w
      BY <1>1, <1>5
    <3> HIDE DEF i, h, L
    <3>4. QED
      BY <1>2, <1>4, <3>1, <3>2, <3>3, Constants
  <2>2. Start(i + 1, 1) \in Nat
    BY <1>2, <1>5, Constants
  <2>3. /\ Start(i + 1, 1) + RequestTimeout - RequestTimeout = Start(i + 1, 1)
        /\ Sweep + RefreshEvery + Start(i + 1, 1) + RequestTimeout - RequestTimeout
               = Sweep + RefreshEvery + Start(i + 1, 1)
    BY <1>2, <2>2, Constants
  <2>4. /\ task'.at > w => age' + LastStart(w) <= Start(task'.at, task'.hop)
                                                  + RequestTimeout - task'.left
        /\ task'.at <= w => age' + LastStart(w) <= Sweep + RefreshEvery
                                                  + Start(task'.at, task'.hop)
                                                  + RequestTimeout - task'.left
    BY <1>5, <2>1, <2>3
  <2>5. QED
    BY <1>5, <2>4 DEF FreshAge
<1>6. CASE /\ i = Len(Order) /\ task'.phase = "asleep"
           /\ task'.left \in Nat /\ task'.left <= RefreshEvery
  <2>1. i > w
    BY <1>1, <1>6
  <2>2. age' + L <= Sweep + RefreshEvery - task'.left
    <3> HIDE DEF i, h, L
    <3> QED
      BY <1>2, <1>4, <1>6, <2>1, Constants
  <2>3. QED
    BY <1>6, <2>2 DEF FreshAge, Active
<1>7. QED
  BY <1>5, <1>6, AfterCases DEF Sound

\* However far the task has come, an answer whose source has not failed since
\* is no older than a sweep, a request and a sleep.
LEMMA FreshBounded ==
    ASSUME Sound, task.phase \in Active \cup {"asleep"}, age \in Nat,
           NEW w \in DOMAIN Order, FreshAge(w)
    PROVE  age <= Sweep + RequestTimeout + RefreshEvery
<1> DEFINE i == task.at
           S == Start(task.at, task.hop)
           L == LastStart(w)
<1>1. /\ i \in DOMAIN Order /\ task.hop \in {1, 2} /\ task.hop <= Hops(Order[i])
      /\ task.left \in Nat /\ i \in Nat /\ w \in Nat
  BY AskedShape, OrderShape DEF Sound, TaskOK, Asked
<1>2. /\ S \in Nat /\ L \in Nat /\ Sweep \in Nat /\ LastStart(i) \in Nat
      /\ S <= LastStart(i) /\ S + RequestTimeout <= Sweep
      /\ i <= w => LastStart(i) <= L
  BY <1>1, Schedule
<1>3. /\ task.phase \in Active /\ i > w => age + L <= S + RequestTimeout - task.left
      /\ task.phase \in Active /\ i <= w =>
             age + L <= Sweep + RefreshEvery + S + RequestTimeout - task.left
      /\ task.phase = "asleep" => age + L <= Sweep + RefreshEvery - task.left
  BY DEF FreshAge
<1> HIDE DEF i, S, L
<1>4. CASE task.phase \in Active /\ i > w
  BY <1>1, <1>2, <1>3, <1>4, Constants
<1>5. CASE task.phase \in Active /\ i <= w
  <2>1. S <= L
    BY <1>2, <1>5
  <2>2. age + L <= Sweep + RefreshEvery + S + RequestTimeout - task.left
    BY <1>3, <1>5
  <2>3. QED
    BY <1>1, <1>2, <2>1, <2>2, Constants
<1>6. CASE task.phase = "asleep"
  <2>1. age + L <= Sweep + RefreshEvery - task.left
    BY <1>3, <1>6
  <2>2. QED
    BY <1>1, <1>2, <2>1, Constants
<1>7. QED
  BY <1>1, <1>4, <1>5, <1>6

\* A new answer is as old as the hop that brought it.
LEMMA FreshAnswer ==
    ASSUME Sound, task.phase \in Active, task.hop = Hops(Asked), NEW es, task' = After(es),
           age' = RequestTimeout - task.left, NEW w \in DOMAIN Order, w = task.at
    PROVE  age' \in Nat /\ FreshAge(w)'
<1> DEFINE i == task.at
           L == LastStart(w)
<1>1. /\ i \in DOMAIN Order /\ i \in Nat /\ Len(Order) \in Nat
      /\ task.left \in Nat /\ task.left <= RequestTimeout
  BY AskedShape, OrderShape DEF Sound, TaskOK, Lasts, Active
<1>2. age' \in Nat /\ age' <= RequestTimeout
  BY <1>1, Constants
<1>3. /\ L \in Nat /\ Sweep \in Nat
      /\ i < Len(Order) => Start(i + 1, 1) = L + RequestTimeout
      /\ i = Len(Order) => L + RequestTimeout = Sweep
  BY <1>1, Schedule
<1>4. CASE /\ i < Len(Order) /\ task'.phase = "asking" /\ task'.at = i + 1
           /\ task'.hop = 1 /\ task'.left = RequestTimeout
  <2>1. age' + L <= Start(i + 1, 1) + RequestTimeout - RequestTimeout
    <3>1. Start(i + 1, 1) = L + RequestTimeout
      BY <1>3, <1>4
    <3> HIDE DEF i, L
    <3>2. QED
      BY <1>2, <1>3, <3>1, Constants
  <2>2. /\ age' + LastStart(w) <= Start(task'.at, task'.hop) + RequestTimeout - task'.left
        /\ ~(task'.at <= w)
    BY <1>1, <1>4, <2>1
  <2>3. QED
    BY <1>2, <1>4, <2>2 DEF FreshAge
<1>5. CASE /\ i = Len(Order) /\ task'.phase = "asleep"
           /\ task'.left \in Nat /\ task'.left <= RefreshEvery
  <2>1. age' + L <= Sweep + RefreshEvery - task'.left
    <3> HIDE DEF i, L
    <3> QED
      BY <1>2, <1>3, <1>5, Constants
  <2>2. QED
    BY <1>2, <1>5, <2>1 DEF FreshAge, Active
<1>6. QED
  BY <1>4, <1>5, AfterCases DEF Sound

\* A step that leaves the watched entry and its age alone need only account for
\* where the task is.
LEMMA CarryAges ==
    ASSUME AgeOK, watched' = watched, overran' = overran, age' = age,
           entries'[watched] = entries[watched],
           task'.phase = "off" => task.phase = "off",
           \A w \in DOMAIN Order :
               Order[w] = watched /\ age \in Nat /\ entries[watched] # None /\ FreshAge(w)
                   => FreshAge(w)'
    PROVE  AgeOK'
<1>1. task'.phase = "off" => entries'[watched'] = None
  BY DEF AgeOK
<1>2. ASSUME ~overran', entries'[watched'] # None
      PROVE  Aged(entries[watched])'
  <2>1. Aged(entries[watched]) /\ entries[watched] # None
    BY <1>2 DEF AgeOK
  <2>2. QED
    BY <2>1 DEF Aged
<1>3. QED
  BY <1>1, <1>2 DEF AgeOK

\* Where the step of the task ends a sweep at its source with a failure.
LEMMA FailedAges ==
    ASSUME Sound, AgeOK, task.phase \in Active, Failed,
           watched' = watched, overran' = overran, age' = age
    PROVE  AgeOK'
<1>1. /\ Asked \in Source /\ task.at \in DOMAIN Order /\ Asked = Order[task.at]
  BY AskedShape DEF Sound
<1>2. /\ \A s \in Source : s # Asked => entries'[s] = entries[s]
      /\ entries[Asked] = None => entries'[Asked] = None
      /\ entries[Asked] # None /\ entries[Asked].failed # None => entries'[Asked] = entries[Asked]
      /\ entries[Asked] # None /\ entries[Asked].failed = None => entries'[Asked].failed = 0
  BY <1>1, RefreshFailedFits DEF Failed, Sound
<1>3. task' = After(entries')
  BY DEF Failed
<1>4. task'.phase # "off"
  BY <1>3, AfterCases DEF Sound
<1>5. watched \in Source
  BY DEF Sound, SourcesOK
<1>6. CASE watched # Asked
  <2>1. entries'[watched] = entries[watched]
    BY <1>2, <1>5, <1>6
  <2>2. ASSUME NEW w \in DOMAIN Order, Order[w] = watched, age \in Nat, FreshAge(w)
        PROVE  FreshAge(w)'
    <3>1. w # task.at
      BY <1>1, <1>6, <2>2
    <3>2. QED
      BY <1>3, <2>2, <3>1, OnwardAges
  <2>3. QED
    BY <1>4, <2>1, <2>2, CarryAges
<1>7. CASE watched = Asked /\ entries[watched] # None /\ entries[watched].failed = None
  <2>1. entries'[watched].failed = 0
    BY <1>2, <1>7
  <2>2. ASSUME ~overran'
        PROVE  Aged(entries[watched])'
    <3>1. age \in Nat /\ FreshAge(task.at)
      BY <1>1, <1>7, <2>2 DEF AgeOK, Aged
    <3>2. age <= Sweep + RequestTimeout + RefreshEvery
      BY <1>1, <3>1, FreshBounded
    <3>3. 0 # None
      BY EvidenceAssumption
    <3>4. age' <= Sweep + RequestTimeout + RefreshEvery + 0
      BY <3>1, <3>2, Schedule, Constants
    <3>5. QED
      BY <2>1, <3>1, <3>3, <3>4 DEF Aged
  <2>3. QED
    BY <1>4, <2>2 DEF AgeOK
<1>8. CASE watched = Asked /\ (entries[watched] = None \/ entries[watched].failed # None)
  <2>1. entries'[watched] = entries[watched]
    BY <1>2, <1>8
  <2>2. ASSUME ~overran', entries'[watched'] # None
        PROVE  Aged(entries[watched])'
    <3>1. Aged(entries[watched]) /\ entries[watched].failed # None
      BY <1>8, <2>1, <2>2 DEF AgeOK
    <3>2. QED
      BY <2>1, <3>1 DEF Aged
  <2>3. QED
    BY <1>4, <2>2 DEF AgeOK
<1>9. QED
  BY <1>6, <1>7, <1>8

\* An answer that ends: the next hop, a failure or a new entry.
LEMMA AnswerEndsAges ==
    ASSUME Sound, AgeOK, AnswerEnds
    PROVE  AgeOK'
<1>1. /\ Asked \in Source /\ task.at \in DOMAIN Order /\ Asked = Order[task.at]
      /\ task.hop \in {1, 2} /\ task.hop <= Hops(Asked) /\ task.body \in Bodies[Asked]
      /\ Hops(Asked) \in {1, 2} /\ task.left \in Nat
  BY AskedShape, HopsBeforeShape DEF Sound, TaskOK, AnswerEnds
<1>2. /\ task.phase \in Active /\ watched' = watched /\ overran' = overran
      /\ watched \in Source
  BY DEF AnswerEnds, Active, Sound, SourcesOK
<1>3. age' = IF ~overran /\ Asked = watched /\ task.hop = Hops(Asked) /\ Parses(task.body)
             THEN RequestTimeout - task.left ELSE age
  BY DEF AnswerEnds
<1>4. CASE Failed /\ (~(task.hop < Hops(Asked)) => ~Parses(task.body))
  <2>1. ~(task.hop = Hops(Asked) /\ Parses(task.body))
    BY <1>1, <1>4
  <2>2. age' = age
    BY <1>3, <2>1
  <2>3. QED
    BY <1>2, <1>4, <2>2, FailedAges
<1>5. CASE /\ task.hop < Hops(Asked)
           /\ task' = Asking(task.at, task.hop + 1) /\ UNCHANGED entries
  <2>1. task.hop = 1 /\ task.hop # Hops(Asked)
    BY <1>1, <1>5
  <2>2. age' = age
    BY <1>3, <2>1
  <2>3. /\ task'.phase = "asking" /\ task'.at = task.at /\ task'.hop = 2
        /\ task'.left = RequestTimeout
    BY <1>5, <2>1 DEF Asking
  <2>4. ASSUME NEW w \in DOMAIN Order, age \in Nat, FreshAge(w)
        PROVE  FreshAge(w)'
    <3> DEFINE S == Start(task.at, 1)
               L == LastStart(w)
    <3>1. /\ S \in Nat /\ L \in Nat /\ Sweep \in Nat
          /\ Start(task.at, 2) = S + RequestTimeout
      BY <1>1, Schedule
    <3>2. /\ task.at > w => age + L <= S + RequestTimeout - task.left
          /\ task.at <= w =>
                 age + L <= Sweep + RefreshEvery + S + RequestTimeout - task.left
      BY <1>2, <2>1, <2>4 DEF FreshAge
    <3> HIDE DEF S, L
    <3>3. /\ task.at > w => age + L <= S + RequestTimeout
          /\ task.at <= w => age + L <= Sweep + RefreshEvery + S + RequestTimeout
      BY <1>1, <2>4, <3>1, <3>2, Constants
    <3>4. /\ S + RequestTimeout + RequestTimeout - RequestTimeout = S + RequestTimeout
          /\ Sweep + RefreshEvery + (S + RequestTimeout) + RequestTimeout - RequestTimeout
                 = Sweep + RefreshEvery + S + RequestTimeout
      BY <3>1, Constants
    <3>5. /\ task'.at > w => age' + L <= Start(task'.at, task'.hop) + RequestTimeout - task'.left
          /\ task'.at <= w => age' + L <= Sweep + RefreshEvery + Start(task'.at, task'.hop)
                                                + RequestTimeout - task'.left
      BY <2>2, <2>3, <3>1, <3>3, <3>4
    <3>6. QED
      BY <2>3, <3>5 DEF FreshAge, L
  <2>5. QED
    BY <1>2, <1>5, <2>2, <2>3, <2>4, CarryAges
<1>6. CASE /\ ~(task.hop < Hops(Asked)) /\ Parses(task.body)
           /\ entries' = [entries EXCEPT ![Asked] = Fresh(task.body)]
           /\ task' = After(entries')
  <2>1. task.hop = Hops(Asked)
    BY <1>1, <1>6
  <2>2. task'.phase # "off"
    BY <1>6, AfterCases DEF Sound
  <2>3. /\ \A s \in Source : s # Asked => entries'[s] = entries[s]
        /\ entries'[Asked].failed = None
    BY <1>1, <1>6, FreshFits DEF Sound
  <2>4. CASE watched # Asked
    <3>1. age' = age /\ entries'[watched] = entries[watched]
      BY <1>2, <1>3, <2>3, <2>4
    <3>2. ASSUME NEW w \in DOMAIN Order, Order[w] = watched, age \in Nat, FreshAge(w)
          PROVE  FreshAge(w)'
      <4>1. w # task.at
        BY <1>1, <2>4, <3>2
      <4>2. QED
        BY <1>2, <1>6, <3>1, <3>2, <4>1, OnwardAges
    <3>3. QED
      BY <1>2, <2>2, <3>1, <3>2, CarryAges
  <2>5. CASE watched = Asked
    <3>1. ASSUME ~overran'
          PROVE  Aged(entries[watched])'
      <4>1. age' = RequestTimeout - task.left
        BY <1>2, <1>3, <1>6, <2>1, <2>5, <3>1
      <4>2. ASSUME NEW w \in DOMAIN Order, Order[w] = watched
            PROVE  FreshAge(w)'
        <5>1. w = task.at
          BY <1>1, <2>5, <4>2, OnePlace
        <5>2. QED
          BY <1>2, <1>6, <2>1, <4>1, <5>1, FreshAnswer
      <4>3. age' \in Nat
        BY <1>1, <1>2, <1>6, <2>1, <4>1, FreshAnswer
      <4>4. entries'[watched'].failed = None /\ ~(None \in 0..ServeStaleFor)
        BY <1>2, <2>3, <2>5, EvidenceAssumption, Constants
      <4>5. QED
        BY <1>2, <4>2, <4>3, <4>4 DEF Aged
    <3>2. QED
      BY <2>2, <3>1 DEF AgeOK
  <2>6. QED
    BY <2>4, <2>5
<1>7. QED
  BY <1>4, <1>5, <1>6, AnswerEndsCases

\* A moment: what is left grows shorter by what the age grows.
LEMMA Passing ==
    ASSUME NEW a \in Nat, NEW b \in Nat, b <= a + 1, NEW n \in Nat, NEW x \in Int, NEW l \in Nat
    PROVE  /\ a + n <= x - l => b + n <= x - (l - 1)
           /\ a <= x - l => b <= x - (l - 1)
OBVIOUS

\* Time passes: an answer grows older as the task's time runs out, or as the
\* failure of its source is counted.
LEMMA TickAges ==
    ASSUME Sound, AgeOK, Tick
    PROVE  AgeOK'
<1>1. /\ task.phase # "off" /\ watched' = watched /\ watched \in Source
      /\ task.left = 0 => task.phase \in {"receiving", "stopped"}
      /\ overran' = (overran \/ (task.phase = "receiving" /\ task.left = 0))
      /\ age' = IF overran' THEN None ELSE Older(age)
  BY DEF Tick, Sound, SourcesOK
<1>2. /\ task' = [task EXCEPT !.left = IF task.left = 0 THEN 0 ELSE task.left - 1]
      /\ task.left \in Nat
  BY DEF Tick, Sound, TaskOK
<1>3. /\ task'.phase = task.phase /\ task'.at = task.at /\ task'.hop = task.hop
      /\ task'.left = IF task.left = 0 THEN 0 ELSE task.left - 1
  BY <1>2 DEF Sound, TaskOK
<1>4. ASSUME ~overran', entries'[watched'] # None
      PROVE  Aged(entries[watched])'
  <2>1. ~overran /\ ~(task.phase = "receiving" /\ task.left = 0)
    BY <1>1, <1>4
  <2>2. /\ entries[watched] # None
        /\ entries[watched] \in Entry(watched)
        /\ entries'[watched].failed =
               IF entries[watched].failed \in 0..ServeStaleFor THEN entries[watched].failed + 1
               ELSE entries[watched].failed
    BY <1>1, <1>4, TickFits DEF Sound, CacheOK
  <2>3. Aged(entries[watched])
    BY <2>1, <2>2 DEF AgeOK
  <2>4. age \in Nat /\ age' \in Nat /\ age' <= age + 1
    <3>1. age' = Older(age) /\ age \in Nat
      BY <1>1, <1>4, <2>3 DEF Aged
    <3>2. QED
      BY <3>1 DEF Older
  <2>5. task.left = 0 => task.phase = "stopped"
    BY <1>1, <2>1
  <2> DEFINE f == entries[watched].failed
  <2>6. f \in Nat \cup {None} /\ None \notin Nat
    BY <2>2, EvidenceAssumption DEF Entry
  <2>7. ASSUME entries'[watched].failed = None,
               NEW w \in DOMAIN Order, Order[w] = watched
        PROVE  FreshAge(w)'
    <3>1. f = None
      BY <2>2, <2>6, <2>7
    <3>2. FreshAge(w)
      BY <2>3, <2>7, <3>1 DEF Aged
    <3>3. CASE task.left = 0
      BY <1>3, <2>5, <3>3 DEF FreshAge, Active
    <3>4. CASE task.left # 0
      <4> DEFINE S == Start(task.at, task.hop)
                 L == LastStart(w)
      <4>1. S \in Nat /\ L \in Nat /\ Sweep \in Nat
        BY AskedShape, Schedule DEF Sound
      <4>2. task'.left = task.left - 1
        BY <1>3, <3>4
      <4>3. /\ S' = S /\ L' = L
        BY <1>3
      <4>4. /\ task.phase \in Active /\ task.at > w => age + L <= S + RequestTimeout - task.left
            /\ task.phase \in Active /\ task.at <= w =>
                   age + L <= Sweep + RefreshEvery + S + RequestTimeout - task.left
            /\ task.phase = "asleep" => age + L <= Sweep + RefreshEvery - task.left
            /\ task.phase = "draining" =>
                   age <= Sweep + RequestTimeout + RefreshEvery + ShutdownTimeout - task.left
        BY <3>2 DEF FreshAge
      <4> HIDE DEF S, L
      <4>5. /\ task.phase \in Active /\ task.at > w =>
                   age' + L <= S + RequestTimeout - task'.left
            /\ task.phase \in Active /\ task.at <= w =>
                   age' + L <= Sweep + RefreshEvery + S + RequestTimeout - task'.left
            /\ task.phase = "asleep" => age' + L <= Sweep + RefreshEvery - task'.left
            /\ task.phase = "draining" =>
                   age' <= Sweep + RequestTimeout + RefreshEvery + ShutdownTimeout - task'.left
        <5> DEFINE x1 == S + RequestTimeout
                   x2 == Sweep + RefreshEvery + S + RequestTimeout
                   x3 == Sweep + RefreshEvery
                   x4 == Sweep + RequestTimeout + RefreshEvery + ShutdownTimeout
        <5>1. x1 \in Int /\ x2 \in Int /\ x3 \in Int /\ x4 \in Int
          BY <4>1, Constants
        <5>2. \A x \in Int : /\ age + L <= x - task.left => age' + L <= x - task'.left
                             /\ age <= x - task.left => age' <= x - task'.left
          BY <1>2, <2>4, <4>1, <4>2, Passing
        <5>3. \A l \in Int : /\ S + RequestTimeout - l = x1 - l
                             /\ Sweep + RefreshEvery + S + RequestTimeout - l = x2 - l
                             /\ Sweep + RefreshEvery - l = x3 - l
                             /\ Sweep + RequestTimeout + RefreshEvery + ShutdownTimeout - l = x4 - l
          BY <4>1, Constants
        <5> HIDE DEF x1, x2, x3, x4
        <5>4. /\ age + L <= x1 - task.left => age' + L <= x1 - task'.left
              /\ age + L <= x2 - task.left => age' + L <= x2 - task'.left
              /\ age + L <= x3 - task.left => age' + L <= x3 - task'.left
              /\ age <= x4 - task.left => age' <= x4 - task'.left
          BY <5>1, <5>2
        <5>5. QED
          <6>1. task.left \in Int /\ task'.left \in Int
            BY <1>2, <4>2
          <6>2. QED
            BY <4>4, <5>3, <5>4, <6>1
      <4>6. QED
        BY <1>3, <4>5 DEF FreshAge, S, L
    <3>5. QED
      BY <3>3, <3>4
  <2>8. ASSUME entries'[watched].failed \in 0..ServeStaleFor
        PROVE  age' <= Sweep + RequestTimeout + RefreshEvery + entries'[watched].failed
    <3>1. f \in 0..ServeStaleFor /\ entries'[watched].failed = f + 1
      BY <2>2, <2>6, <2>8
    <3>2. age <= Sweep + RequestTimeout + RefreshEvery + f
      BY <2>3, <3>1 DEF Aged
    <3>3. Sweep \in Nat
      BY Schedule
    <3> HIDE DEF f
    <3>4. QED
      BY <2>4, <3>1, <3>2, <3>3, Constants
  <2>9. QED
    BY <1>1, <2>4, <2>7, <2>8 DEF Aged
<1>5. QED
  BY <1>1, <1>3, <1>4 DEF AgeOK

LEMMA AgeInit == Init => AgeOK
BY DEF Init, AgeOK

\* Every step keeps the age of the watched answer within its bound.
LEMMA AgeStep ==
    ASSUME Sound, AgeOK, [Next]_vars
    PROVE  AgeOK'
<1>1. CASE \/ \E s \in Source : Publish(s) \/ Change(s)
           \/ Requests
           \/ UNCHANGED vars
  <2>1. UNCHANGED <<entries, task, watched, age, overran>>
    BY <1>1 DEF Publish, Change, Requests, Present, Settle, histVars, vars
  <2>2. \A w \in DOMAIN Order : FreshAge(w) => FreshAge(w)'
    BY <2>1 DEF FreshAge
  <2>3. QED
    BY <2>1, <2>2, CarryAges
<1>2. CASE Tick
  BY <1>2, TickAges
<1>3. CASE StartKeyRefresh
  <2>1. entries'[watched'] = None
    BY <1>3 DEF StartKeyRefresh, AgeOK, histVars
  <2>2. QED
    BY <2>1 DEF AgeOK
<1>4. CASE AnswerBegins
  <2>1. task' = [task EXCEPT !.phase = "receiving", !.body = published[Asked]]
    BY <1>4 DEF AnswerBegins
  <2>2. /\ task.phase = "asking" /\ task'.phase = "receiving" /\ task'.at = task.at
        /\ task'.hop = task.hop /\ task'.left = task.left
        /\ UNCHANGED <<entries, watched, age, overran>>
    BY <1>4, <2>1 DEF AnswerBegins, histVars, Sound, TaskOK
  <2>3. \A w \in DOMAIN Order : FreshAge(w) => FreshAge(w)'
    BY <2>2 DEF FreshAge, Active
  <2>4. QED
    BY <2>2, <2>3, CarryAges
<1>5. CASE AnswerEnds
  BY <1>5, AnswerEndsAges
<1>6. CASE FetchFails \/ TimesOut
  BY <1>6, FailedAges DEF FetchFails, TimesOut, Timed, Active, histVars
<1>7. CASE Wakes
  <2>1. /\ task.phase = "asleep" /\ task.left = 0 /\ task'.phase = "asking" /\ task'.at = 1
        /\ task'.hop = 1 /\ task'.left = RequestTimeout
        /\ UNCHANGED <<entries, watched, age, overran>>
    BY <1>7 DEF Wakes, Asking, histVars
  <2>2. ASSUME NEW w \in DOMAIN Order, age \in Nat, FreshAge(w)
        PROVE  FreshAge(w)'
    <3>1. /\ LastStart(w) \in Nat /\ Sweep \in Nat /\ Start(1, 1) = 0
      BY Schedule
    <3>2. age + LastStart(w) <= Sweep + RefreshEvery
      BY <2>1, <2>2, <3>1, Constants DEF FreshAge
    <3>3. 1 <= w /\ ~(1 > w)
      BY OrderShape
    <3>4. Sweep + RefreshEvery + 0 + RequestTimeout - RequestTimeout = Sweep + RefreshEvery
      BY <3>1, Constants
    <3>5. age' + LastStart(w) <= Sweep + RefreshEvery + Start(task'.at, task'.hop)
                                     + RequestTimeout - task'.left
      BY <2>1, <3>1, <3>2, <3>4
    <3>6. QED
      BY <2>1, <3>3, <3>5 DEF FreshAge
  <2>3. QED
    BY <2>1, <2>2, CarryAges
<1>8. CASE Stop
  <2>1. /\ task.phase \in Active \cup {"asleep"} /\ task'.phase = "draining"
        /\ task'.left = ShutdownTimeout /\ UNCHANGED <<entries, watched, age, overran>>
    BY <1>8 DEF Stop, Idle, histVars, Sound, TaskOK, Active
  <2>2. ASSUME NEW w \in DOMAIN Order, age \in Nat, FreshAge(w)
        PROVE  FreshAge(w)'
    <3>1. age <= Sweep + RequestTimeout + RefreshEvery
      BY <2>1, <2>2, FreshBounded
    <3>2. Sweep \in Nat
      BY Schedule
    <3>3. age' <= Sweep + RequestTimeout + RefreshEvery + ShutdownTimeout - task'.left
      BY <2>1, <2>2, <3>1, <3>2, Constants
    <3>4. QED
      BY <2>1, <3>3 DEF FreshAge, Active
  <2>3. QED
    BY <2>1, <2>2, CarryAges
<1>9. CASE Drained
  <2>1. task'.phase = "stopped" /\ UNCHANGED <<entries, watched, age, overran>>
    BY <1>9 DEF Drained, Idle, histVars
  <2>2. \A w \in DOMAIN Order : FreshAge(w)'
    BY <2>1 DEF FreshAge, Active
  <2>3. QED
    BY <2>1, <2>2, CarryAges
<1>10. QED
  BY <1>1, <1>2, <1>3, <1>4, <1>5, <1>6, <1>7, <1>8, <1>9 DEF Next, TaskStep

\* What the invariant says of an entry that is used.
LEMMA UsedIsYoung == Sound /\ AgeOK => StaleIsBounded
<1> SUFFICES ASSUME Sound, AgeOK, Open, ~overran, Usable(watched)
             PROVE  age <= LongestUse
  BY DEF StaleIsBounded
<1>1. Aged(entries[watched]) /\ entries[watched].failed \in {None} \cup 0..ServeStaleFor
  BY DEF AgeOK, Usable
<1>2. age \in Nat /\ Sweep \in Nat
  BY <1>1, Schedule DEF Aged
<1>3. /\ LongestUse \in Nat
      /\ Sweep + RequestTimeout + RefreshEvery + ServeStaleFor <= LongestUse
      /\ Sweep + RequestTimeout + RefreshEvery + ShutdownTimeout <= LongestUse
  BY <1>2, Constants DEF LongestUse, Larger
<1>4. CASE entries[watched].failed \in 0..ServeStaleFor
  <2>1. age <= Sweep + RequestTimeout + RefreshEvery + entries[watched].failed
    BY <1>1, <1>4 DEF Aged
  <2>2. QED
    BY <1>2, <1>3, <1>4, <2>1, Constants
<1>5. CASE entries[watched].failed = None
  <2>1. watched \in Source
    BY DEF Sound, SourcesOK
  <2>2. PICK w \in DOMAIN Order : Order[w] = watched
    BY <2>1, OrderShape
  <2>3. FreshAge(w)
    BY <1>1, <1>5, <2>2 DEF Aged
  <2>4. CASE task.phase \in Active \cup {"asleep"}
    <3>1. age <= Sweep + RequestTimeout + RefreshEvery
      BY <1>2, <2>2, <2>3, <2>4, FreshBounded
    <3>2. QED
      BY <1>2, <1>3, <3>1, Constants
  <2>5. CASE task.phase = "draining"
    <3>1. /\ age <= Sweep + RequestTimeout + RefreshEvery + ShutdownTimeout - task.left
          /\ task.left \in Nat
      BY <2>3, <2>5, AskedShape DEF FreshAge, Sound
    <3>2. QED
      BY <1>2, <1>3, <3>1, Constants
  <2>6. QED
    BY <2>4, <2>5 DEF Open, Sound, TaskOK, Active
<1>6. QED
  BY <1>1, <1>4, <1>5

----------------------------------------------------------------------------
(* Whose word it is *)

\* A set of places that is not empty has a first one.
LEMMA FirstPlace ==
    ASSUME NEW S \in SUBSET Nat, S # {}
    PROVE  Min(S) \in S
<1>1. PICK x \in S : \A y \in S : ~(<<y, x>> \in OpToRel(<, Nat))
  <2>1. PICK s \in S : TRUE
    OBVIOUS
  <2>2. QED
    BY <2>1, NatLessThanWellFounded, WFMin
<1>2. \A y \in S : ~(y < x)
  BY <1>1 DEF OpToRel
<1>3. \A y \in S : x <= y
  BY <1>2
<1>4. QED
  BY <1>3 DEF Min

\* The attester a presentation is judged by is configured with its issuer.
LEMMA AttesterFound ==
    ASSUME NEW p, AttesterFor(p, Attesters) # 0
    PROVE  /\ AttesterFor(p, Attesters) \in 1..Len(Attesters)
           /\ AttesterOf(p).issuer = p.iss
           /\ AttesterOf(p).id \in Source
<1> DEFINE I == {i \in 1..Len(Attesters) : Attesters[i].issuer = p.iss}
<1>1. AttesterFor(p, Attesters) = IF I # {} THEN Min(I) ELSE 0
  BY DEF AttesterFor, SelectInSeq
<1>2. I \in SUBSET Nat
  BY Constants
<1>3. AttesterFor(p, Attesters) \in I
  <2> HIDE DEF I
  <2> QED
    BY <1>1, <1>2, FirstPlace
<1>4. PICK i \in 1..Len(Attesters) : i = AttesterFor(p, Attesters) /\ Attesters[i].issuer = p.iss
  BY <1>3
<1>5. Order[i] = Attesters[i].id /\ Order[i] \in Source
  <2>1. i \in 1..Len(Order)
    BY OrderShape, Constants
  <2>2. QED
    BY <2>1, OrderShape
<1>6. QED
  BY <1>4, <1>5 DEF AttesterOf

\* And so is the profile an access token is exchanged under.
LEMMA ProfileFound ==
    ASSUME NEW t, ProfileFor(t, Profiles) # 0
    PROVE  /\ ProfileOf(t) \in ToSet(Profiles)
           /\ ProfileOf(t).issuer = t.iss /\ ProfileOf(t).audience \in t.aud
           /\ ProfileOf(t).id \in Source
<1> DEFINE I == {i \in 1..Len(Profiles) :
                    Profiles[i].issuer = t.iss /\ Profiles[i].audience \in t.aud}
<1>1. ProfileFor(t, Profiles) = IF I # {} THEN Min(I) ELSE 0
  BY DEF ProfileFor, SelectInSeq
<1>2. I \in SUBSET Nat
  BY Constants
<1>3. ProfileFor(t, Profiles) \in I
  <2> HIDE DEF I
  <2> QED
    BY <1>1, <1>2, FirstPlace
<1>4. PICK i \in 1..Len(Profiles) : /\ i = ProfileFor(t, Profiles)
                                    /\ Profiles[i].issuer = t.iss /\ Profiles[i].audience \in t.aud
  BY <1>3
<1>5. Order[Len(Attesters) + i] = Profiles[i].id /\ Order[Len(Attesters) + i] \in Source
  <2>1. Len(Attesters) + i \in 1..Len(Order)
    BY OrderShape, Constants
  <2>2. QED
    BY <2>1, OrderShape
<1>6. Profiles[i] \in ToSet(Profiles)
  BY Constants DEF ToSet
<1>7. QED
  BY <1>4, <1>5, <1>6 DEF ProfileOf

\* The keys of an entry that is used were published by its source.
LEMMA UsedKeys ==
    ASSUME CacheOK, NEW s \in Source, Usable(s)
    PROVE  \E b \in Bodies[s] : entries[s].keys = KeySetOf(b)
BY DEF CacheOK, Usable, Entry

\* Disclosures that hold add one claim each to what the credential says.
LEMMA ClaimsCounted ==
    ASSUME NEW p \in Presentations, DisclosuresHold(p)
    PROVE  Cardinality(ClaimsOf(p)) = Cardinality(p.claims) + Len(p.disclosures)
<1> DEFINE ds == p.disclosures
           n == Len(p.disclosures)
           Names == {d.name : d \in ToSet(p.disclosures)}
           f == [i \in 1..n |-> ds[i].name]
<1>1. /\ n \in Nat /\ DOMAIN ds = 1..n /\ IsFiniteSet(p.claims)
      /\ ToSet(ds) = {ds[i] : i \in 1..n}
  <2>1. ds \in Seq(ToSet(ds)) /\ IsFiniteSet(p.claims)
    BY KeyCacheAssumption
  <2>2. n \in Nat /\ DOMAIN ds = 1..n
    BY <2>1
  <2>3. ToSet(ds) = {ds[i] : i \in 1..n}
    BY <2>2 DEF ToSet
  <2>4. QED
    BY <2>1, <2>2, <2>3
<1>2. \A i, j \in 1..n : i # j => ds[i].name # ds[j].name
  BY <1>1 DEF DisclosuresHold
<1>3. Names = {ds[i].name : i \in 1..n}
  BY <1>1
<1>4. Names \cap p.claims = {}
  BY <1>1 DEF DisclosuresHold
<1>5. f \in Bijection(1..n, Names)
  <2>1. f \in [1..n -> Names]
    BY <1>3
  <2>2. \A i, j \in 1..n : f[i] = f[j] => i = j
    BY <1>2
  <2>3. \A x \in Names : \E i \in 1..n : f[i] = x
    BY <1>3
  <2>4. QED
    BY <2>1, <2>2, <2>3 DEF Injection, IsInjective, Surjection, Bijection
<1> HIDE DEF Names, f
<1>6. IsFiniteSet(Names) /\ Cardinality(Names) = n
  <2>1. IsFiniteSet(1..n) /\ Cardinality(1..n) = n
    BY <1>1, FS_Interval
  <2>2. QED
    BY <1>5, <2>1, FS_Bijection DEF ExistsBijection
<1>7. Cardinality(p.claims \cup Names) = Cardinality(p.claims) + Cardinality(Names)
  <2>1. /\ Cardinality(p.claims) \in Nat /\ Cardinality(Names) \in Nat
        /\ Cardinality(p.claims \cap Names) = 0
    <3>1. p.claims \cap Names = {}
      BY <1>4
    <3>2. QED
      BY <1>1, <1>6, <3>1, FS_EmptySet, FS_CardinalityType
  <2>2. Cardinality(p.claims \cup Names) = Cardinality(p.claims) + Cardinality(Names)
                                               - Cardinality(p.claims \cap Names)
    BY <1>1, <1>6, FS_Union
  <2>3. QED
    BY <2>1, <2>2
<1>8. QED
  BY <1>6, <1>7 DEF ClaimsOf, Names

\* A presentation that holds is what the issuer's attester signed and committed
\* to.
LEMMA VouchedIsSaid ==
    ASSUME Sound, NEW p \in Presentations, Present(p)
    PROVE  IssuerSpeaks'
<1>1. /\ request' = [evidence |-> p, claims |-> ClaimsOf(p), cnf |-> p.cnf,
                     attester |-> AttesterOf(p).id]
      /\ Vouched(p)
  BY DEF Present
<1>2. /\ AttesterFor(p, Attesters) # 0 /\ Usable(AttesterOf(p).id)
      /\ EvidenceHolds(p, entries[AttesterOf(p).id].keys, Now)
  BY <1>1 DEF Vouched
<1>3. AttesterOf(p).id \in Source
  BY <1>2, AttesterFound
<1>4. PICK b \in Bodies[AttesterOf(p).id] : entries[AttesterOf(p).id].keys = KeySetOf(b)
  BY <1>2, <1>3, UsedKeys DEF Sound
<1>5. PICK k \in Selected(KeySetOf(b), p.kid) : ExpectedAlgorithm(k) = p.alg /\ k.id = p.signer
  BY <1>2, <1>4 DEF EvidenceHolds, IssuerSignatureVerifies
<1>6. k \in b.keys /\ ~k.private /\ p.kid \in {None, k.kid}
  BY <1>5 DEF Selected, KeySetOf
<1>7. \A d \in ToSet(p.disclosures) : d \in p.sd /\ ~d.reserved
  BY <1>2 DEF EvidenceHolds, DisclosuresHold
<1>8. Cardinality(ClaimsOf(p)) = Cardinality(p.claims) + Len(p.disclosures)
  BY <1>2, ClaimsCounted DEF EvidenceHolds
<1>9. /\ request'.evidence = p /\ request'.claims = ClaimsOf(p)
      /\ request'.attester = AttesterOf(p).id
  BY <1>1
<1>10. QED
  BY <1>4, <1>5, <1>6, <1>7, <1>8, <1>9 DEF IssuerSpeaks

LEMMA IssuerStep ==
    ASSUME Sound, IssuerSpeaks, [Next]_vars
    PROVE  IssuerSpeaks'
<1>1. ASSUME NEW p \in Presentations, Present(p)
      PROVE  IssuerSpeaks'
  BY <1>1, VouchedIsSaid
<1>2. CASE Settle
  BY <1>2 DEF Settle, IssuerSpeaks
<1>3. CASE UNCHANGED request
  BY <1>3 DEF IssuerSpeaks
<1>4. QED
  BY <1>1, <1>2, <1>3 DEF Next, TaskStep, Requests, Publish, Change, Tick, StartKeyRefresh,
     AnswerBegins, AnswerEnds, FetchFails, TimesOut, Wakes, Stop, Drained, vars

\* An access token is accepted on a key of a body its provider published.
LEMMA AcceptedIsSaid == CacheOK => ProviderSpeaks
<1> SUFFICES ASSUME CacheOK, NEW t \in AccessTokens, SourceAccepted(t)
             PROVE  \E f \in ToSet(Profiles) : \E b \in Bodies[f.id] : \E k \in b.keys :
                        /\ f.issuer = t.iss /\ f.audience \in t.aud
                        /\ k.id = t.signer /\ t.kid \in {None, k.kid}
                        /\ k.use \in {None, "sig"} /\ ~k.private
                        /\ k.alg \in {None, t.alg}
                        /\ k.kind = "rsa" => k.bits >= MinimumRsaBits
  BY DEF ProviderSpeaks
<1> DEFINE f == ProfileOf(t)
<1>1. /\ ProfileFor(t, Profiles) # 0 /\ Usable(f.id)
      /\ SourceSignatureVerifies(t, entries[f.id].keys)
  BY DEF SourceAccepted
<1>2. f \in ToSet(Profiles) /\ f.issuer = t.iss /\ f.audience \in t.aud /\ f.id \in Source
  BY <1>1, ProfileFound
<1> HIDE DEF f
<1>3. PICK b \in Bodies[f.id] : entries[f.id].keys = KeySetOf(b)
  BY <1>1, <1>2, UsedKeys
<1>4. PICK k \in Selected(KeySetOf(b), t.kid) : /\ VerificationKey(k) /\ k.id = t.signer
                                                /\ k.alg \in {None, t.alg}
  BY <1>1, <1>3 DEF SourceSignatureVerifies
<1>5. /\ k \in b.keys /\ t.kid \in {None, k.kid}
      /\ k.use \in {None, "sig"} /\ ~k.private
  BY <1>4 DEF Selected, KeySetOf
<1>6. k.kind = "rsa" => k.bits >= MinimumRsaBits
  BY <1>4 DEF VerificationKey, RsaKey, CurveKey, CurveAlgorithm
<1>7. QED
  BY <1>2, <1>3, <1>4, <1>5, <1>6

----------------------------------------------------------------------------
(* The theorems *)

\* In every reachable state the caches hold what their sources published, the
\* task stands where a sweep may stand, the watched answer is no older than the
\* task's place allows, and the request in flight repeats its issuer.
THEOREM CacheInvariance == Spec => []CacheInv
<1>1. Init => CacheInv
  BY SoundInit, AgeInit DEF CacheInv, Init, IssuerSpeaks
<1>2. CacheInv /\ [Next]_vars => CacheInv'
  BY SoundStep, AgeStep, IssuerStep DEF CacheInv
<1>3. QED
  BY <1>1, <1>2, PTL DEF Spec

\* However the sources go, stall and come back, an answer that no timeout was
\* overrun for is used for at most a sweep, a request, a sleep and the longer of
\* the stale window and the drain (keys_for of both caches, start_key_refresh).
THEOREM StaleKeysAreBounded == Spec => []StaleIsBounded
<1>1. CacheInv => StaleIsBounded
  BY UsedIsYoung DEF CacheInv
<1>2. QED
  BY <1>1, CacheInvariance, PTL

\* An advancement is settled on what the issuer of its evidence signed and
\* committed to, for any presentations and any key sets (por.rs).
THEOREM EvidenceIsTheIssuers == Spec => []IssuerSpeaks
<1>1. CacheInv => IssuerSpeaks
  BY DEF CacheInv
<1>2. QED
  BY <1>1, CacheInvariance, PTL

\* An access token is accepted on a key that a provider configured for its issuer
\* and audience published for signatures, under its `kid`, for no other algorithm
\* and of a sufficient length, for any tokens, providers and key sets
\* (validate_source_jwt).
THEOREM TokensAreTheProviders == Spec => []ProviderSpeaks
<1>1. CacheInv => ProviderSpeaks
  BY AcceptedIsSaid DEF CacheInv, Sound
<1>2. QED
  BY <1>1, CacheInvariance, PTL
=============================================================================
