--------------------------- MODULE Surface_proofs ---------------------------
(***************************************************************************)
(* The safety of Surface, for every value of its constants.                *)
(*                                                                         *)
(* The counts of the guard are proved exact at every step, those in the    *)
(* middle of an accept or of a drop included: each phase of a connection   *)
(* says what it holds (Holding, Serving, Numbered, Owing), and every step  *)
(* of a task changes a count by what its phase weighs before and after     *)
(* (Balanced).  CountsSettle, TypeOK and the refinement of ConnectionPool  *)
(* are what remains of that when the phases are forgotten.                 *)
(***************************************************************************)
EXTENDS Surface, FiniteSetTheorems, TLAPS

Phases == {"away", "arrived", "uncounting", "releasing"} \cup Holding

\* The connection is in LimitedAcceptor.held.
Numbered == {"handshaking", "ending", "uncounting"} \cup Open

\* The connection is in the count of its address, if that is counted.
Owing == {"admitted", "releasing"} \cup Numbered

OfAddress(a) == {c \in Conn : Counted(c) /\ AddressOf[c] = a}

\* The members of a set of connections that are in one of some phases.
Among(D, f, S) == {c \in D : f[c] \in S}

\* Every count is what the phases of the connections say.
Exact ==
    /\ phase \in [Conn -> Phases]
    /\ permits \in Nat /\ slots \in Nat /\ held \in Int /\ peers \in [Address -> Int]
    /\ permits + Cardinality(Among(Conn, phase, Holding)) = Capacity
    /\ slots + Cardinality(Among(Conn, phase, Serving)) = Ceiling
    /\ held = Cardinality(Among(Conn, phase, Numbered))
    /\ \A a \in Address : peers[a] = Cardinality(Among(OfAddress(a), phase, Owing))

\* Who is past the gate and the policy, and what is on record of them.
Accounted ==
    /\ listener \in {"listening", "draining", "stopped"}
    /\ aged \subseteq Conn /\ done \subseteq Conn
    /\ Mutual => \A c \in Conn :
           /\ phase[c] \in {"recording", "working"} => ~Gated(c) /\ Permits(c)
           /\ phase[c] = "working" => c \in recorded
           /\ c \in done => c \in recorded /\ ~Gated(c) /\ Permits(c)

\* The inductive invariant.
SurfaceInv == Exact /\ Accounted

----------------------------------------------------------------------------
(* Counting *)

Weight(p, S) == IF p \in S THEN 1 ELSE 0

\* One connection goes from one phase to another: the number of those in S
\* changes by what the phase weighs (what every count of the guard relies on).
LEMMA MoveCounts ==
    ASSUME NEW D, IsFiniteSet(D), NEW f, NEW g, NEW c, NEW S,
           \A x \in D : x # c => g[x] = f[x]
    PROVE  /\ Cardinality(Among(D, f, S)) \in Nat
           /\ c \in D => Cardinality(Among(D, g, S)) =
                  Cardinality(Among(D, f, S)) + Weight(g[c], S) - Weight(f[c], S)
           /\ c \notin D => Among(D, g, S) = Among(D, f, S)
<1> DEFINE A == Among(D, f, S)
           B == Among(D, g, S)
<1>1. IsFiniteSet(A) /\ IsFiniteSet(B)
  <2>1. A \subseteq D /\ B \subseteq D
    BY DEF Among
  <2> QED
    BY <2>1, FS_Subset
<1>2. Cardinality(A) \in Nat /\ Cardinality(B) \in Nat
  BY <1>1, FS_CardinalityType
<1>3. c \notin D => B = A
  BY DEF Among
<1>4. ASSUME c \in D PROVE Cardinality(B) = Cardinality(A) + Weight(g[c], S) - Weight(f[c], S)
  <2>1. CASE g[c] \in S /\ f[c] \in S
    <3>1. B = A
      BY <2>1 DEF Among
    <3> QED
      BY <2>1, <3>1, <1>2 DEF Weight
  <2>2. CASE g[c] \notin S /\ f[c] \notin S
    <3>1. B = A
      BY <2>2 DEF Among
    <3> QED
      BY <2>2, <3>1, <1>2 DEF Weight
  <2>3. CASE g[c] \in S /\ f[c] \notin S
    <3>1. B = A \cup {c} /\ c \notin A
      BY <2>3, <1>4 DEF Among
    <3>2. Cardinality(B) = Cardinality(A) + 1
      BY <3>1, <1>1, FS_AddElement
    <3> QED
      BY <2>3, <3>2, <1>2 DEF Weight
  <2>4. CASE g[c] \notin S /\ f[c] \in S
    <3>1. B = A \ {c} /\ c \in A
      BY <2>4, <1>4 DEF Among
    <3>2. Cardinality(B) = Cardinality(A) - 1
      BY <3>1, <1>1, FS_RemoveElement
    <3> QED
      BY <2>4, <3>2, <1>2 DEF Weight
  <2> QED
    BY <2>1, <2>2, <2>3, <2>4
<1> QED
  BY <1>2, <1>3, <1>4

\* The task of a connection goes to a phase, and every count changes by what
\* its phases weigh; neither the permits nor the places are overdrawn.
Balanced(c, q) ==
    /\ q \in Phases
    /\ phase' = [phase EXCEPT ![c] = q]
    /\ permits' \in Nat /\ slots' \in Nat
    /\ permits' = permits + Weight(phase[c], Holding) - Weight(q, Holding)
    /\ slots' = slots + Weight(phase[c], Serving) - Weight(q, Serving)
    /\ held' = held + Weight(q, Numbered) - Weight(phase[c], Numbered)
    /\ peers' = [a \in Address |->
                    IF Counted(c) /\ AddressOf[c] = a
                    THEN peers[a] + Weight(q, Owing) - Weight(phase[c], Owing)
                    ELSE peers[a]]

\* A balanced step keeps the counts exact (acquire, admit_peer, the fields of
\* Guarded, and their drops).
LEMMA BalancedIsExact ==
    ASSUME Exact, NEW c \in Conn, NEW q, Balanced(c, q)
    PROVE  Exact'
<1> DEFINE N(S) == Cardinality(Among(Conn, phase, S))
           M(S) == Cardinality(Among(Conn, phase', S))
<1>1. phase' \in [Conn -> Phases] /\ phase'[c] = q /\ \A x \in Conn : x # c => phase'[x] = phase[x]
  BY DEF Exact, Balanced
<1>2. ASSUME NEW S PROVE N(S) \in Nat /\ M(S) = N(S) + Weight(q, S) - Weight(phase[c], S)
  <2>1. IsFiniteSet(Conn)
    BY SurfaceAssumption
  <2>3. /\ N(S) \in Nat
        /\ M(S) = N(S) + Weight(phase'[c], S) - Weight(phase[c], S)
    BY <2>1, <1>1, MoveCounts
  <2> QED
    BY <1>1, <2>3
<1>3. ASSUME NEW p, NEW S PROVE Weight(p, S) \in Int
  BY DEF Weight
<1>4. permits' \in Nat /\ permits' + M(Holding) = Capacity
  <2>1. permits' \in Nat /\ permits' = permits + Weight(phase[c], Holding) - Weight(q, Holding)
    BY DEF Balanced
  <2>2. permits \in Int /\ permits + N(Holding) = Capacity
    BY DEF Exact
  <2> HIDE DEF N, M
  <2> QED
    BY <2>1, <2>2, <1>2, <1>3
<1>5. slots' \in Nat /\ slots' + M(Serving) = Ceiling
  <2>1. slots' \in Nat /\ slots' = slots + Weight(phase[c], Serving) - Weight(q, Serving)
    BY DEF Balanced
  <2>2. slots \in Int /\ slots + N(Serving) = Ceiling
    BY DEF Exact
  <2> HIDE DEF N, M
  <2> QED
    BY <2>1, <2>2, <1>2, <1>3
<1>6. held' \in Int /\ held' = M(Numbered)
  <2>1. held' = held + Weight(q, Numbered) - Weight(phase[c], Numbered)
    BY DEF Balanced
  <2>2. held \in Int /\ held = N(Numbered)
    BY DEF Exact
  <2> HIDE DEF N, M
  <2> QED
    BY <2>1, <2>2, <1>2, <1>3
<1>7. peers' \in [Address -> Int]
  BY <1>3 DEF Exact, Balanced
<1>8. ASSUME NEW a \in Address
      PROVE  peers'[a] = Cardinality(Among(OfAddress(a), phase', Owing))
  <2> DEFINE D == OfAddress(a)
             n == Cardinality(Among(D, phase, Owing))
             m == Cardinality(Among(D, phase', Owing))
  <2>1. D \subseteq Conn /\ IsFiniteSet(D)
    <3>1. D \subseteq Conn
      BY DEF OfAddress
    <3> QED
      BY <3>1, FS_Subset, SurfaceAssumption
  <2>2. c \in D <=> Counted(c) /\ AddressOf[c] = a
    BY DEF OfAddress
  <2>3. \A x \in D : x # c => phase'[x] = phase[x]
    BY <1>1, <2>1
  <2> HIDE DEF D
  <2>4. /\ n \in Nat
        /\ c \in D => m = n + Weight(phase'[c], Owing) - Weight(phase[c], Owing)
        /\ c \notin D => m = n
    BY <2>1, <2>3, MoveCounts
  <2>5. peers[a] = n
    BY DEF Exact, D
  <2>6. peers'[a] = IF c \in D THEN peers[a] + Weight(q, Owing) - Weight(phase[c], Owing)
                    ELSE peers[a]
    BY <2>2 DEF Balanced
  <2>7. peers'[a] = m
    <3> HIDE DEF n, m
    <3> QED
      BY <2>4, <2>5, <2>6, <1>1
  <2> QED
    BY <2>7 DEF D
<1> QED
  BY <1>1, <1>4, <1>5, <1>6, <1>7, <1>8 DEF Exact, OfAddress, Counted

----------------------------------------------------------------------------
(* Every step of a task is balanced *)

\* Between the handshake and the first drop the pool is not touched, and only
\* the place under the ceiling may change hands.
LEMMA InnerMove ==
    ASSUME Exact, NEW c \in Conn, NEW q,
           phase[c] \in {"handshaking"} \cup Open, q \in {"ending"} \cup Open,
           phase' = [phase EXCEPT ![c] = q], UNCHANGED poolVars,
           slots' \in Nat, slots' = slots + Weight(phase[c], Serving) - Weight(q, Serving)
    PROVE  Balanced(c, q)
<1>1. /\ q \in Phases
      /\ phase[c] \in Holding /\ q \in Holding
      /\ phase[c] \in Numbered /\ q \in Numbered
      /\ phase[c] \in Owing /\ q \in Owing
  BY DEF Phases, Holding, Numbered, Owing
<1>2. /\ Weight(phase[c], Holding) = 1 /\ Weight(q, Holding) = 1
      /\ Weight(phase[c], Numbered) = 1 /\ Weight(q, Numbered) = 1
      /\ Weight(phase[c], Owing) = 1 /\ Weight(q, Owing) = 1
  BY <1>1 DEF Weight
<1> QED
  BY <1>1, <1>2 DEF Balanced, Exact, poolVars

\* The steps of `accept` (acquire, admit_peer, the count of the held).
LEMMA AcceptingIsBalanced ==
    ASSUME Exact, NEW c \in Conn, Accepting(c) \/ Connect(c)
    PROVE  \E q : Balanced(c, q)
<1> USE DEF Goes, Quiet, poolVars, callVars
<1>1. ASSUME NEW a \in Address PROVE peers[a] \in Int
  BY DEF Exact
<1>2. CASE Connect(c)
  <2>1. Balanced(c, "arrived")
    BY <1>2 DEF Connect, Balanced, Exact, Weight, Phases, Holding, Numbered, Owing, Serving, Open
  <2> QED
    BY <2>1
<1>3. CASE Acquire(c)
  <2>1. CASE permits > 0
    <3>1. Balanced(c, "permitted")
      BY <1>3, <2>1 DEF Acquire, Balanced, Exact, Weight, Phases, Holding, Numbered, Owing, Serving, Open
    <3> QED
      BY <3>1
  <2>2. CASE ~(permits > 0)
    <3>1. Balanced(c, "away")
      BY <1>3, <2>2 DEF Acquire, Balanced, Exact, Weight, Phases, Holding, Numbered, Owing, Serving, Open
    <3> QED
      BY <3>1
  <2> QED
    BY <2>1, <2>2
<1>4. CASE AdmitPeer(c)
  <2>1. CASE Counted(c) /\ peers[AddressOf[c]] >= Share
    <3>1. Balanced(c, "away")
      BY <1>4, <2>1 DEF AdmitPeer, Balanced, Exact, Weight, Phases, Holding, Numbered, Owing, Serving, Open
    <3> QED
      BY <3>1
  <2>2. CASE ~(Counted(c) /\ peers[AddressOf[c]] >= Share)
    <3>1. Balanced(c, "admitted")
      BY <1>4, <2>2, SurfaceAssumption DEF AdmitPeer, Balanced, Exact, Weight, Phases, Holding, Numbered, Owing, Serving, Open
    <3> QED
      BY <3>1
  <2> QED
    BY <2>1, <2>2
<1>5. CASE Count(c)
  <2>1. Balanced(c, "handshaking")
    BY <1>5 DEF Count, Balanced, Exact, Weight, Phases, Holding, Numbered, Owing, Serving, Open
  <2> QED
    BY <2>1
<1> QED
  BY <1>2, <1>3, <1>4, <1>5 DEF Accepting

\* The drops of the permit, of the count and of the address's share.
LEMMA DroppingIsBalanced ==
    ASSUME Exact, NEW c \in Conn, Dropping(c)
    PROVE  \E q : Balanced(c, q)
<1> USE DEF Goes, Quiet, poolVars, callVars
<1>1. CASE DropPermit(c)
  <2>1. Balanced(c, "uncounting")
    BY <1>1 DEF DropPermit, Balanced, Exact, Weight, Phases, Holding, Numbered, Owing, Serving, Open
  <2> QED
    BY <2>1
<1>2. CASE Uncount(c)
  <2>1. Balanced(c, "releasing")
    BY <1>2 DEF Uncount, Balanced, Exact, Weight, Phases, Holding, Numbered, Owing, Serving, Open
  <2> QED
    BY <2>1
<1>3. CASE ReleasePeer(c)
  <2>1. /\ Weight("releasing", Owing) = 1 /\ Weight("away", Owing) = 0
        /\ Weight("releasing", Holding) = 0 /\ Weight("away", Holding) = 0
        /\ Weight("releasing", Serving) = 0 /\ Weight("away", Serving) = 0
        /\ Weight("releasing", Numbered) = 0 /\ Weight("away", Numbered) = 0
    BY DEF Weight, Holding, Numbered, Owing, Serving, Open
  <2>2. peers \in [Address -> Int] /\ permits \in Nat /\ held \in Int /\ slots \in Nat
    BY DEF Exact
  <2>3. /\ phase[c] = "releasing" /\ phase' = [phase EXCEPT ![c] = "away"]
        /\ permits' = permits /\ held' = held /\ slots' = slots
        /\ peers' = IF Counted(c) THEN [peers EXCEPT ![AddressOf[c]] = @ - 1] ELSE peers
    BY <1>3 DEF ReleasePeer
  <2>4. AddressOf[c] \in Address
    BY SurfaceAssumption
  <2>5. peers' = [a \in Address |-> IF Counted(c) /\ AddressOf[c] = a
                                   THEN peers[a] + 0 - 1 ELSE peers[a]]
    <3>1. CASE Counted(c)
      <4>1. peers' = [peers EXCEPT ![AddressOf[c]] = peers[AddressOf[c]] - 1]
        BY <2>3, <3>1
      <4>2. peers[AddressOf[c]] - 1 = peers[AddressOf[c]] + 0 - 1
        BY <2>2, <2>4
      <4> QED
        BY <2>2, <2>4, <3>1, <4>1, <4>2
    <3>2. CASE ~Counted(c)
      BY <2>2, <2>3, <2>4, <3>2
    <3> QED
      BY <3>1, <3>2
  <2>6. "away" \in Phases
    BY DEF Phases
  <2>7. peers' = [a \in Address |-> IF Counted(c) /\ AddressOf[c] = a
                    THEN peers[a] + Weight("away", Owing) - Weight(phase[c], Owing) ELSE peers[a]]
    BY <2>1, <2>3, <2>5, Zenon
  <2>8. /\ permits' \in Nat /\ slots' \in Nat
        /\ permits' = permits + Weight(phase[c], Holding) - Weight("away", Holding)
        /\ slots' = slots + Weight(phase[c], Serving) - Weight("away", Serving)
        /\ held' = held + Weight("away", Numbered) - Weight(phase[c], Numbered)
    BY <2>1, <2>2, <2>3
  <2>9. Balanced(c, "away")
    BY <2>3, <2>6, <2>7, <2>8, Zenon DEF Balanced
  <2> QED
    BY <2>9
<1> QED
  BY <1>1, <1>2, <1>3 DEF Dropping

\* Everything else a task does, from the handshake to the moment its stream
\* goes: the place under the ceiling is given back on every way out.
Within(c) ==
    \/ Handling(c) \/ Timers(c)
    \/ Handshake(c) \/ Ask(c) \/ Written(c) \/ Stalls(c) \/ Moves(c) \/ Abandons(c) \/ Disconnect(c)

LEMMA WithinMoves ==
    ASSUME Exact, NEW c \in Conn, Within(c)
    PROVE  \E q \in {"ending"} \cup Open :
               /\ phase[c] \in {"handshaking"} \cup Open
               /\ phase' = [phase EXCEPT ![c] = q] /\ UNCHANGED poolVars
               /\ slots' \in Nat
               /\ slots' = slots + Weight(phase[c], Serving) - Weight(q, Serving)
<1>0. slots \in Nat
  BY DEF Exact
<1> USE <1>0 DEF Goes, Quiet, callVars, poolVars, Weight, Serving, Open
<1>1. CASE Handling(c)
  <2> USE DEF Answered
  <2>1. CASE Shed(c)
    BY <2>1 DEF Shed
  <2>2. CASE Take(c)
    BY <2>2 DEF Take
  <2>3. CASE TooLarge(c)
    BY <2>3 DEF TooLarge
  <2>4. CASE Refuse(c)
    BY <2>4 DEF Refuse
  <2>5. CASE Authorize(c)
    <3>1. CASE Mutual
      BY <2>5, <3>1 DEF Authorize
    <3>2. CASE ~Mutual
      BY <2>5, <3>2 DEF Authorize
    <3> QED
      BY <3>1, <3>2
  <2>6. CASE Record(c)
    BY <2>6 DEF Record
  <2>7. CASE Unrecordable(c)
    BY <2>7 DEF Unrecordable
  <2>8. CASE Work(c)
    BY <2>8 DEF Work
  <2>9. CASE Panic(c)
    BY <2>9 DEF Panic
  <2> QED
    BY <1>1, <2>1, <2>2, <2>3, <2>4, <2>5, <2>6, <2>7, <2>8, <2>9 DEF Handling
<1>2. CASE Timers(c)
  <2>1. CASE HandshakeFails(c)
    BY <2>1 DEF HandshakeFails
  <2>2. CASE IdleEnds(c)
    BY <2>2 DEF IdleEnds
  <2>3. CASE StallTimesOut(c)
    BY <2>3 DEF StallTimesOut
  <2>4. CASE RequestTimesOut(c)
    BY <2>4 DEF RequestTimesOut, Answered
  <2>5. CASE Kill(c)
    BY <2>5 DEF Kill
  <2> QED
    BY <1>2, <2>1, <2>2, <2>3, <2>4, <2>5 DEF Timers
<1>3. CASE Handshake(c)
  BY <1>3 DEF Handshake
<1>4. CASE Ask(c)
  BY <1>4 DEF Ask
<1>5. CASE Written(c)
  <2>1. phase[c] = "answering" /\ slots' = slots /\ UNCHANGED poolVars
    BY <1>5 DEF Written
  <2>2. phase' = [phase EXCEPT ![c] = "idle"] \/ phase' = [phase EXCEPT ![c] = "ending"]
    BY <1>5, Zenon DEF Written
  <2> QED
    BY <2>1, <2>2
<1>6. CASE Stalls(c)
  BY <1>6 DEF Stalls
<1>7. CASE Moves(c)
  <2>1. phase[c] = "stalled" /\ slots' = slots /\ UNCHANGED poolVars
    BY <1>7 DEF Moves
  <2>2. phase' = [phase EXCEPT ![c] = "answering"] \/ phase' = [phase EXCEPT ![c] = "ending"]
    BY <1>7, Zenon DEF Moves
  <2> QED
    BY <2>1, <2>2
<1>8. CASE Abandons(c)
  BY <1>8 DEF Abandons
<1>9. CASE Disconnect(c)
  BY <1>9 DEF Disconnect
<1> QED
  BY <1>1, <1>2, <1>3, <1>4, <1>5, <1>6, <1>7, <1>8, <1>9 DEF Within

LEMMA WithinIsBalanced ==
    ASSUME Exact, NEW c \in Conn, Within(c)
    PROVE  \E q : Balanced(c, q)
BY WithinMoves, InnerMove

\* What a connection does is one of three things, or it ages.
LEMMA StepsOfATask ==
    ASSUME NEW c \in Conn,
           Accepting(c) \/ Dropping(c) \/ Handling(c) \/ Timers(c) \/ Client(c) \/ Age(c)
    PROVE  Accepting(c) \/ Connect(c) \/ Dropping(c) \/ Within(c) \/ Age(c)
BY DEF Client, Within

\* The counts of the guard stay exact, whatever the tasks do and in whatever
\* order.
LEMMA ExactStep ==
    ASSUME Exact, [Next]_vars
    PROVE  Exact'
<1>1. ASSUME UNCHANGED <<phase, permits, slots, held, peers>> PROVE Exact'
  BY <1>1 DEF Exact, OfAddress, Counted
<1>2. CASE UNCHANGED vars
  BY <1>1, <1>2 DEF vars
<1>3. CASE Stop \/ StopEnds
  BY <1>1, <1>3 DEF Stop, StopEnds, poolVars
<1>4. ASSUME NEW c \in Conn,
             Accepting(c) \/ Dropping(c) \/ Handling(c) \/ Timers(c) \/ Client(c) \/ Age(c)
      PROVE  Exact'
  <2>1. CASE Age(c)
    BY <1>1, <2>1 DEF Age, poolVars
  <2>2. CASE Accepting(c) \/ Connect(c) \/ Dropping(c) \/ Within(c)
    BY <2>2, AcceptingIsBalanced, DroppingIsBalanced, WithinIsBalanced, BalancedIsExact
  <2> QED
    BY <1>4, <2>1, <2>2, StepsOfATask
<1> QED
  BY <1>2, <1>3, <1>4 DEF Next

----------------------------------------------------------------------------
(* Who is past the gate, and what is on record of them *)

\* A step that brings nobody past the policy, takes no record back and does no
\* work.
LEMMA OutsideIsAccounted ==
    ASSUME Exact, Accounted, NEW c \in Conn, NEW q,
           phase' = [phase EXCEPT ![c] = q], q \notin {"recording", "working"},
           UNCHANGED <<listener, done>>, recorded \subseteq recorded', aged' \subseteq Conn
    PROVE  Accounted'
BY DEF Exact, Accounted

\* What a request that is cut off leaves is accounted for: it may have got
\* done what it had been let do, and no more (TimeoutLayer, the drop of a
\* request in the middle).
LEMMA CutOffIsAccounted ==
    ASSUME Exact, Accounted, NEW c \in Conn, NEW q, CutOff(c),
           phase' = [phase EXCEPT ![c] = q], q \notin {"recording", "working"},
           UNCHANGED <<listener, aged>>
    PROVE  Accounted'
<1>1. recorded' = recorded \/ recorded' = recorded \cup {c}
  BY DEF CutOff
<1>2. done' = done \/ (done' = done \cup {c} /\ phase[c] = "working")
  BY DEF CutOff
<1> QED
  BY <1>1, <1>2 DEF Exact, Accounted

\* Everything a task does keeps it accounted for.
LEMMA TaskIsAccounted ==
    ASSUME Exact, Accounted, NEW c \in Conn,
           Accepting(c) \/ Connect(c) \/ Dropping(c) \/ Within(c)
    PROVE  Accounted'
<1> USE DEF Goes, Quiet, callVars
<1>0. aged \subseteq Conn
  BY DEF Accounted
<1>1. CASE Accepting(c) \/ Connect(c) \/ Dropping(c)
  <2>1. \E q : /\ phase' = [phase EXCEPT ![c] = q] /\ q \notin {"recording", "working"}
               /\ UNCHANGED <<listener, callVars>> /\ aged' \subseteq Conn
    <3>1. CASE Connect(c)
      <4>1. phase' = [phase EXCEPT ![c] = "arrived"] /\ aged' \subseteq Conn
        BY <1>0, <3>1 DEF Connect
      <4> QED
        BY <3>1, <4>1 DEF Connect
    <3>2. CASE Acquire(c)
      <4>1. phase' = [phase EXCEPT ![c] = "permitted"] \/ phase' = [phase EXCEPT ![c] = "away"]
        BY <3>2 DEF Acquire
      <4> QED
        BY <1>0, <3>2, <4>1 DEF Acquire
    <3>3. CASE AdmitPeer(c)
      <4>1. phase' = [phase EXCEPT ![c] = "admitted"] \/ phase' = [phase EXCEPT ![c] = "away"]
        BY <3>3 DEF AdmitPeer
      <4> QED
        BY <1>0, <3>3, <4>1 DEF AdmitPeer
    <3>4. CASE Count(c)
      <4>1. phase' = [phase EXCEPT ![c] = "handshaking"] /\ aged' \subseteq Conn
        BY <1>0, <3>4 DEF Count
      <4> QED
        BY <3>4, <4>1 DEF Count
    <3>5. CASE Dropping(c)
      BY <1>0, <3>5 DEF Dropping, DropPermit, Uncount, ReleasePeer
    <3> QED
      BY <1>1, <3>1, <3>2, <3>3, <3>4, <3>5 DEF Accepting
  <2> QED
    BY <2>1, OutsideIsAccounted
<1>2. CASE Within(c)
  <2>0. CASE Refuse(c)
    <3>1. /\ phase' = [phase EXCEPT ![c] = "answering"] /\ aged' \subseteq Conn
          /\ UNCHANGED <<listener, done>> /\ recorded \subseteq recorded'
      BY <1>0, <2>0 DEF Refuse, Answered
    <3> QED
      BY <3>1, OutsideIsAccounted
  <2>1. CASE \/ Shed(c) \/ TooLarge(c) \/ Unrecordable(c) \/ HandshakeFails(c)
             \/ IdleEnds(c) \/ StallTimesOut(c) \/ Handshake(c) \/ Stalls(c) \/ Abandons(c)
             \/ Take(c)
    <3>1. \E q : /\ phase' = [phase EXCEPT ![c] = q] /\ q \notin {"recording", "working"}
                 /\ UNCHANGED <<listener, callVars>> /\ aged' \subseteq Conn
      BY <1>0, <2>1 DEF Shed, TooLarge, Unrecordable, HandshakeFails, IdleEnds,
                        StallTimesOut, Handshake, Stalls, Abandons, Take, Answered
    <3> QED
      BY <3>1, OutsideIsAccounted
  <2>2. CASE Written(c) \/ Moves(c)
    <3>1. \E q : /\ phase' = [phase EXCEPT ![c] = q] /\ q \notin {"recording", "working"}
                 /\ UNCHANGED <<listener, callVars>> /\ aged' \subseteq Conn
      <4>1. CASE Written(c)
        <5> DEFINE q == IF listener = "listening" /\ (c \in Vectored \/ c \notin aged)
                        THEN "idle" ELSE "ending"
        <5>1. q \notin {"recording", "working"} /\ phase' = [phase EXCEPT ![c] = q]
          BY <4>1 DEF Written
        <5> QED
          BY <1>0, <4>1, <5>1 DEF Written
      <4>2. CASE Moves(c)
        <5> DEFINE q == IF c \in aged \ Vectored THEN "ending" ELSE "answering"
        <5>1. q \notin {"recording", "working"} /\ phase' = [phase EXCEPT ![c] = q]
          BY <4>2 DEF Moves
        <5> QED
          BY <1>0, <4>2, <5>1 DEF Moves
      <4> QED
        BY <2>2, <4>1, <4>2
    <3> QED
      BY <3>1, OutsideIsAccounted
  <2>3. CASE RequestTimesOut(c) \/ Kill(c) \/ Disconnect(c)
    <3>1. \E q : /\ phase' = [phase EXCEPT ![c] = q] /\ q \notin {"recording", "working"}
                 /\ UNCHANGED <<listener, aged>> /\ CutOff(c)
      BY <2>3 DEF RequestTimesOut, Kill, Disconnect, Answered
    <3> QED
      BY <3>1, CutOffIsAccounted
  <2>4. CASE Ask(c)
    <3>1. \E q \in {"ending", "asking"} : phase' = [phase EXCEPT ![c] = q]
      BY <2>4 DEF Ask
    <3> QED
      BY <2>4, <3>1 DEF Ask, Exact, Accounted
  <2>5. CASE Authorize(c)
    <3>1. CASE Mutual
      BY <2>5, <3>1 DEF Authorize, Exact, Accounted
    <3>2. CASE ~Mutual
      BY <2>5, <3>2 DEF Authorize, Exact, Accounted
    <3> QED
      BY <3>1, <3>2
  <2>6. CASE Record(c)
    BY <2>6 DEF Record, Exact, Accounted
  <2>7. CASE Work(c)
    BY <2>7 DEF Work, Answered, Exact, Accounted
  <2>8. CASE Panic(c)
    BY <2>8 DEF Panic, Answered, Exact, Accounted
  <2> QED
    BY <1>2, <2>0, <2>1, <2>2, <2>3, <2>4, <2>5, <2>6, <2>7, <2>8 DEF Within, Handling, Timers
<1> QED
  BY <1>1, <1>2

\* The inductive invariant holds at the start and every step keeps it.
LEMMA SurfaceInvInit ==
    ASSUME Init PROVE SurfaceInv
<1>1. phase \in [Conn -> Phases] /\ \A c \in Conn : phase[c] = "away"
  BY DEF Init, Phases
<1>2. /\ Among(Conn, phase, Holding) = {} /\ Among(Conn, phase, Serving) = {}
      /\ Among(Conn, phase, Numbered) = {}
  BY <1>1 DEF Among, Holding, Numbered, Serving, Open
<1>3. \A a \in Address : Among(OfAddress(a), phase, Owing) = {}
  BY <1>1 DEF Among, OfAddress, Owing, Numbered, Serving, Open
<1>4. Cardinality({}) = 0
  BY FS_EmptySet
<1>5. Exact
  <2>1. /\ permits = Capacity /\ slots = Ceiling /\ held = 0
        /\ peers = [a \in Address |-> 0]
        /\ Capacity \in Nat /\ Ceiling \in Nat
    BY SurfaceAssumption DEF Init
  <2>2. \A a \in Address : peers[a] = Cardinality(Among(OfAddress(a), phase, Owing))
    BY <1>3, <1>4, <2>1
  <2>3. /\ permits + Cardinality(Among(Conn, phase, Holding)) = Capacity
        /\ slots + Cardinality(Among(Conn, phase, Serving)) = Ceiling
        /\ held = Cardinality(Among(Conn, phase, Numbered))
    BY <1>2, <1>4, <2>1
  <2>4. permits \in Nat /\ slots \in Nat /\ held \in Int /\ peers \in [Address -> Int]
    BY <2>1
  <2> QED
    BY <1>1, <2>2, <2>3, <2>4 DEF Exact
<1>6. Accounted
  BY <1>1 DEF Init, Accounted
<1> QED
  BY <1>5, <1>6 DEF SurfaceInv

LEMMA SurfaceInvStep ==
    ASSUME SurfaceInv, [Next]_vars PROVE SurfaceInv'
<1>1. Exact /\ Accounted
  BY DEF SurfaceInv
<1>2. Exact'
  BY <1>1, ExactStep
<1>3. CASE UNCHANGED vars
  BY <1>1, <1>2, <1>3 DEF SurfaceInv, Accounted, vars
<1>4. CASE Stop \/ StopEnds
  BY <1>1, <1>2, <1>4 DEF SurfaceInv, Stop, StopEnds, Accounted, callVars
<1>5. ASSUME NEW c \in Conn,
             Accepting(c) \/ Dropping(c) \/ Handling(c) \/ Timers(c) \/ Client(c) \/ Age(c)
      PROVE  Accounted'
  <2>1. CASE Age(c)
    BY <1>1, <2>1 DEF Age, Accounted, callVars
  <2> QED
    BY <1>1, <1>5, <2>1, StepsOfATask, TaskIsAccounted
<1> QED
  BY <1>2, <1>3, <1>4, <1>5 DEF Next, SurfaceInv

LEMMA SurfaceInvariant == Spec => []SurfaceInv
<1>1. Init => SurfaceInv
  BY SurfaceInvInit
<1>2. SurfaceInv /\ [Next]_vars => SurfaceInv'
  BY SurfaceInvStep
<1> QED
  BY <1>1, <1>2, PTL DEF Spec

----------------------------------------------------------------------------
(* The theorems *)

\* The number of connections in a set of phases.
LEMMA InIsFinite ==
    ASSUME NEW S
    PROVE  /\ IsFiniteSet(In(S)) /\ Cardinality(In(S)) \in Nat
           /\ Cardinality(In(S)) <= Cardinality(Conn)
           /\ Cardinality(Conn) \in Nat
           /\ In(S) = Among(Conn, phase, S)
<1>1. In(S) \subseteq Conn /\ In(S) = Among(Conn, phase, S)
  BY DEF In, Among
<1> QED
  BY <1>1, SurfaceAssumption, FS_Subset, FS_CardinalityType

\* Every permit of the semaphore and every place under the ceiling on
\* requests is with exactly one connection or free, at every step of every
\* task: neither is ever lost, given twice or overdrawn (LimitedAcceptor,
\* Guarded, the ConcurrencyLimit of a surface).
THEOREM PlacesAreConserved == Spec => []TypeOK
<1>1. ASSUME SurfaceInv PROVE TypeOK
  <2>1. Exact /\ Accounted
    BY <1>1 DEF SurfaceInv
  <2>2. /\ permits \in Nat /\ permits + Cardinality(In(Holding)) = Capacity
        /\ slots \in Nat /\ slots + Cardinality(In(Serving)) = Ceiling
        /\ held = Cardinality(In(Numbered))
    BY <2>1, InIsFinite DEF Exact
  <2>3. /\ Cardinality(In(Holding)) \in Nat /\ Cardinality(In(Serving)) \in Nat
        /\ Cardinality(In(Numbered)) \in 0..Cardinality(Conn)
    BY InIsFinite
  <2>4. permits \in 0..Capacity /\ slots \in 0..Ceiling
    BY <2>2, <2>3, SurfaceAssumption
  <2> QED
    BY <2>1, <2>2, <2>3, <2>4 DEF Accounted, TypeOK
<1> QED
  BY <1>1, SurfaceInvariant, PTL

\* Whenever no task is inside an accept or a drop, the permits, the held and
\* the counts of the addresses agree with the connections there are: nothing
\* leaks on any path (Guarded, Released, PeerReleased).
THEOREM NothingLeaks == Spec => []CountsSettle
<1>1. ASSUME SurfaceInv PROVE CountsSettle
  <2> DEFINE live == In({"handshaking"} \cup Open)
  <2> SUFFICES ASSUME In({"permitted", "admitted", "ending", "uncounting", "releasing"}) = {}
               PROVE  /\ permits = Capacity - Cardinality(live)
                      /\ held = Cardinality(live)
                      /\ \A a \in Address :
                             peers[a] = Cardinality({c \in live : Counted(c) /\ AddressOf[c] = a})
    BY DEF CountsSettle
  <2>1. Exact
    BY <1>1 DEF SurfaceInv
  <2>2. \A c \in Conn : phase[c] \notin {"permitted", "admitted", "ending", "uncounting", "releasing"}
    BY DEF In
  <2>3. Among(Conn, phase, Holding) = live /\ Among(Conn, phase, Numbered) = live
    BY <2>2 DEF Among, In, Holding, Numbered
  <2>4. \A a \in Address : Among(OfAddress(a), phase, Owing)
                               = {c \in live : Counted(c) /\ AddressOf[c] = a}
    BY <2>2 DEF Among, In, Owing, Numbered, OfAddress
  <2>5. Cardinality(live) \in Nat
    BY InIsFinite
  <2>6. permits \in Int /\ permits + Cardinality(live) = Capacity /\ held = Cardinality(live)
    BY <2>1, <2>3 DEF Exact
  <2>7. permits = Capacity - Cardinality(live)
    BY <2>5, <2>6, SurfaceAssumption
  <2>8. \A a \in Address : peers[a] = Cardinality({c \in live : Counted(c) /\ AddressOf[c] = a})
    BY <2>1, <2>4 DEF Exact
  <2> QED
    BY <2>6, <2>7, <2>8
<1> QED
  BY <1>1, SurfaceInvariant, PTL

\* On a surface that authorises, work was done only for a peer that the gate
\* and the policy admit, and only on the record, wherever a timeout, a client
\* that leaves or the end of the grace cut a request off (authorize,
\* Authorization::permits).
THEOREM AdminWorkIsAccounted == Spec => []WorkIsAccounted
<1>1. ASSUME SurfaceInv PROVE WorkIsAccounted
  <2> SUFFICES ASSUME Mutual, NEW c \in done
               PROVE  /\ c \in recorded
                      /\ AdminAllow = {} => Development
                      /\ AdminAllow # {} => Certificate[c] \in AdminAllow
                      /\ Gate # {} => Certificate[c] \in Gate
    BY DEF WorkIsAccounted
  <2>1. c \in recorded /\ ~Gated(c) /\ Permits(c)
    BY <1>1 DEF SurfaceInv, Accounted
  <2>2. IdentityOf(c) = Certificate[c]
    BY DEF IdentityOf
  <2> QED
    BY <2>1, <2>2 DEF Gated, Permits
<1> QED
  BY <1>1, SurfaceInvariant, PTL

----------------------------------------------------------------------------
(* The guard implements the pool *)

Inside == Holding \ {"permitted"}

\* A step of a task that neither enters nor leaves.
LEMMA StaysOut ==
    ASSUME Exact, NEW c \in Conn, NEW q, phase' = [phase EXCEPT ![c] = q],
           phase[c] \in Inside <=> q \in Inside
    PROVE  In(Inside)' = In(Inside)
BY DEF Exact, In

\* The pool counts as the guard does.
LEMMA PoolCounts ==
    \A S : Pool!Cardinality(S) = Cardinality(S)
BY DEF Pool!Cardinality, Cardinality

\* A connection that is admitted holds a permit, so that there is room for it
\* in the pool; and its address has a share left (admit_peer).
LEMMA AdmitPeerEnters ==
    ASSUME Exact, NEW c \in Conn, AdmitPeer(c)
    PROVE  In(Inside)' = In(Inside) \/ Pool!Enter(c)
<1>1. /\ phase[c] = "permitted" /\ phase \in [Conn -> Phases] /\ permits \in Nat
      /\ permits + Cardinality(Among(Conn, phase, Holding)) = Capacity
      /\ peers \in [Address -> Int]
      /\ \A a \in Address : peers[a] = Cardinality(Among(OfAddress(a), phase, Owing))
  BY DEF AdmitPeer, Goes, Exact
<1>2. CASE Counted(c) /\ peers[AddressOf[c]] >= Share
  <2>1. phase' = [phase EXCEPT ![c] = "away"]
    BY <1>2 DEF AdmitPeer, Goes
  <2>2. "away" \notin Inside /\ "permitted" \notin Inside
    BY DEF Inside, Holding, Open, Serving
  <2> QED
    BY <1>1, <2>1, <2>2, StaysOut
<1>3. CASE ~(Counted(c) /\ peers[AddressOf[c]] >= Share)
  <2>1. phase' = [phase EXCEPT ![c] = "admitted"]
    BY <1>3 DEF AdmitPeer, Goes
  <2>2. "admitted" \in Inside /\ "permitted" \notin Inside
    BY DEF Inside, Holding
  <2>3. c \notin In(Inside) /\ In(Inside)' = In(Inside) \cup {c}
    BY <1>1, <2>1, <2>2 DEF In
  <2>4. Cardinality(In(Inside)) < Capacity
    <3>1. In(Inside) \cup {c} \subseteq Among(Conn, phase, Holding)
      BY <1>1 DEF In, Inside, Among, Holding
    <3>2. IsFiniteSet(Among(Conn, phase, Holding)) /\ Cardinality(Among(Conn, phase, Holding)) \in Nat
      BY InIsFinite
    <3>3. Cardinality(In(Inside) \cup {c}) <= Cardinality(Among(Conn, phase, Holding))
      BY <3>1, <3>2, FS_Subset
    <3>4. Cardinality(In(Inside) \cup {c}) = Cardinality(In(Inside)) + 1
      BY <2>3, InIsFinite, FS_AddElement
    <3>5. Cardinality(In(Inside)) \in Nat
      BY InIsFinite
    <3> QED
      BY <1>1, <3>2, <3>3, <3>4, <3>5, SurfaceAssumption
  <2>5. ASSUME Counted(c)
        PROVE  Cardinality({x \in In(Inside) : AddressOf[x] = AddressOf[c]}) < Share
    <3> DEFINE a == AddressOf[c]
               From == {x \in In(Inside) : AddressOf[x] = a}
               All == Among(OfAddress(a), phase, Owing)
    <3>1. a \in Address /\ Share \in Nat
      BY SurfaceAssumption
    <3>2. From \subseteq All
      BY <2>5 DEF In, Inside, Among, Owing, Numbered, Holding, OfAddress, Counted
    <3>3. IsFiniteSet(All)
      <4>1. All \subseteq Conn
        BY DEF Among, OfAddress
      <4> QED
        BY <4>1, FS_Subset, SurfaceAssumption
    <3>4. /\ Cardinality(From) <= Cardinality(All)
          /\ Cardinality(From) \in Nat /\ Cardinality(All) \in Nat
      BY <3>2, <3>3, FS_Subset, FS_CardinalityType
    <3>5. ~(Cardinality(All) >= Share)
      BY <1>1, <1>3, <2>5, <3>1
    <3> QED
      BY <3>1, <3>4, <3>5
  <2>6. Pool!Enter(c)
    <3> DEFINE I == In(Holding \ {"permitted"})
    <3>1. c \notin I /\ I' = I \cup {c} /\ Cardinality(I) < Capacity
      BY <2>3, <2>4 DEF Inside
    <3>2. Share > 0 /\ AddressOf[c] \notin Exempt =>
              Cardinality({x \in I : AddressOf[x] = AddressOf[c]}) < Share
      BY <2>5 DEF Inside, Counted
    <3> HIDE DEF I
    <3>3. Pool!Enter(c) <=> /\ c \notin I /\ Cardinality(I) < Capacity
                            /\ Share > 0 /\ AddressOf[c] \notin Exempt =>
                                  Cardinality({x \in I : AddressOf[x] = AddressOf[c]}) < Share
                            /\ I' = I \cup {c}
      BY PoolCounts DEF Pool!Enter, Pool!From, I
    <3> QED
      BY <3>1, <3>2, <3>3, Zenon
  <2> QED
    BY <2>6
<1> QED
  BY <1>2, <1>3

\* The guard implements the pool: whatever the order in which accepts and
\* drops interleave, no more than the capacity is held, no more than its share
\* by one address, and a connection is turned away rather than made to wait
\* (LimitedAcceptor::accept, PeerReleased).
THEOREM GuardImplementsPool == Spec => ImplementsPool
<1> DEFINE I == In(Holding \ {"permitted"})
<1>1. Init => I = {}
  BY DEF Init, In, Holding, Open, Serving
<1>2. ASSUME SurfaceInv, [Next]_vars
      PROVE  [\E c \in Conn : Pool!Enter(c) \/ Pool!Leave(c)]_I
  <2>1. Exact /\ I = In(Inside)
    BY <1>2 DEF SurfaceInv, Inside
  <2>2. CASE UNCHANGED phase
    BY <2>2 DEF In
  <2>3. ASSUME NEW c \in Conn,
               Accepting(c) \/ Dropping(c) \/ Handling(c) \/ Timers(c) \/ Client(c)
        PROVE  I' = I \/ Pool!Enter(c) \/ Pool!Leave(c)
    <3> USE DEF Goes
    <3>1. CASE AdmitPeer(c)
      BY <2>1, <3>1, AdmitPeerEnters DEF Inside
    <3>2. CASE DropPermit(c)
      <4>1. phase[c] = "ending" /\ phase' = [phase EXCEPT ![c] = "uncounting"]
        BY <3>2 DEF DropPermit
      <4>2. phase \in [Conn -> Phases]
        BY <2>1 DEF Exact
      <4>3. c \in I /\ I' = I \ {c}
        BY <4>1, <4>2 DEF In, Holding, Open, Serving
      <4> QED
        BY <4>3 DEF Pool!Leave
    <3>3. CASE Connect(c) \/ Acquire(c) \/ Count(c) \/ Uncount(c) \/ ReleasePeer(c)
      <4>1. /\ {"away", "arrived", "permitted", "uncounting", "releasing"} \cap Inside = {}
            /\ {"admitted", "handshaking"} \subseteq Inside
        BY DEF Inside, Holding, Open, Serving
      <4>2. CASE Connect(c)
        BY <2>1, <4>1, <4>2, StaysOut DEF Connect, Inside
      <4>3. CASE Acquire(c)
        BY <2>1, <4>1, <4>3, StaysOut DEF Acquire, Inside
      <4>4. CASE Count(c)
        BY <2>1, <4>1, <4>4, StaysOut DEF Count, Inside
      <4>5. CASE Uncount(c)
        BY <2>1, <4>1, <4>5, StaysOut DEF Uncount, Inside
      <4>6. CASE ReleasePeer(c)
        BY <2>1, <4>1, <4>6, StaysOut DEF ReleasePeer, Inside
      <4> QED
        BY <3>3, <4>2, <4>3, <4>4, <4>5, <4>6
    <3>4. CASE Within(c)
      <4>1. PICK q \in {"ending"} \cup Open : /\ phase[c] \in {"handshaking"} \cup Open
                                            /\ phase' = [phase EXCEPT ![c] = q]
        BY <2>1, <3>4, WithinMoves
      <4>2. phase[c] \in Inside /\ q \in Inside
        BY <4>1 DEF Inside, Holding, Open, Serving
      <4> QED
        BY <2>1, <4>1, <4>2, StaysOut DEF Inside
    <3> QED
      BY <2>3, <3>1, <3>2, <3>3, <3>4 DEF Accepting, Dropping, Client, Within
  <2>4. CASE Stop \/ StopEnds \/ UNCHANGED vars
    BY <2>2, <2>4 DEF Stop, StopEnds, vars
  <2>5. ASSUME NEW c \in Conn, Age(c) PROVE UNCHANGED phase
    BY <2>5 DEF Age
  <2> QED
    BY <1>2, <2>2, <2>3, <2>4, <2>5 DEF Next
<1> QED
  BY <1>1, <1>2, SurfaceInvariant, PTL DEF Spec, ImplementsPool, Pool!PoolSpec
=============================================================================
