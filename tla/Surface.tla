------------------------------ MODULE Surface ------------------------------
(***************************************************************************)
(* One listening surface: the connection guard, the layers around every    *)
(* request, the administrative authorisation behind them, and the drain    *)
(* that ends it all (src/crates/pic-x-transport/src/guard.rs, surface.rs,  *)
(* gate.rs, identity.rs; src/crates/pic-x-admin/src/authorization.rs).     *)
(*                                                                         *)
(* Every connection runs in a task of its own, so the steps of `accept`    *)
(* and the drops that undo them interleave.  Time is left out: a timer may *)
(* fire whenever it is armed, and the fairness says that it does.  HTTP is *)
(* abstracted to one request at a time on a connection, and a surface to   *)
(* one route, since the ceiling on requests is made for each of them.      *)
(***************************************************************************)
EXTENDS Naturals, FiniteSets

CONSTANTS
    Conn, Address, AddressOf, Exempt, Capacity, Share,
    Ceiling,        \* limits.concurrent_requests
    Lifetime,       \* whether limits.connection_lifetime is set
    Vectored,       \* connections whose answers go out by poll_write_vectored
    Certificate,    \* what each client presents: its name, or None
    Mutual,         \* whether the handshake demands a certificate
    Gate,           \* the surface's own `allow`; empty for no gate
    AdminAllow,     \* admin_allow
    Development,    \* development_mode
    None

ASSUME SurfaceAssumption ==
    /\ IsFiniteSet(Conn)
    /\ AddressOf \in [Conn -> Address] /\ Exempt \subseteq Address
    /\ Capacity \in Nat \ {0} /\ Share \in Nat /\ Ceiling \in Nat \ {0}
    /\ Vectored \subseteq Conn /\ DOMAIN Certificate = Conn
    /\ Lifetime \in BOOLEAN /\ Mutual \in BOOLEAN /\ Development \in BOOLEAN
    /\ None \notin Gate \cup AdminAllow

VARIABLES
    listener,   \* what the surface as a whole does
    phase,      \* where the task of each connection is
    permits,    \* what the semaphore has left
    held,       \* LimitedAcceptor.held
    peers,      \* LimitedAcceptor.peers: the count of each address
    slots,      \* what the ceiling on requests has left
    aged,       \* connections past their deadline
    recorded,   \* calls the audit trail has a record of, as permitted or as refused
    done        \* calls whose work was done

poolVars == <<permits, held, peers>>
callVars == <<recorded, done>>
vars == <<listener, phase, permits, held, peers, slots, aged, recorded, done>>

Counted(c) == Share > 0 /\ AddressOf[c] \notin Exempt

\* A request holds its place under the ceiling in these.
Serving == {"serving", "recording", "working"}

\* The stream exists and its bytes go through Guarded.
Open == {"idle", "asking", "answering", "stalled"} \cup Serving

\* The permit is held.
Holding == {"permitted", "admitted", "handshaking", "ending"} \cup Open

In(states) == {c \in Conn : phase[c] \in states}

Init ==
    /\ listener = "listening"
    /\ phase = [c \in Conn |-> "away"]
    /\ permits = Capacity /\ held = 0
    /\ peers = [a \in Address |-> 0]
    /\ slots = Ceiling
    /\ aged = {} /\ recorded = {} /\ done = {}

\* The task of a connection moves on.
Goes(c, from, to) ==
    /\ phase[c] = from
    /\ phase' = [phase EXCEPT ![c] = to]

Quiet == UNCHANGED <<slots, aged, callVars, listener>>

----------------------------------------------------------------------------
(* LimitedAcceptor::accept *)

Connect(c) ==
    /\ listener = "listening"
    /\ Goes(c, "away", "arrived")
    /\ aged' = aged \ {c}
    /\ UNCHANGED <<listener, poolVars, slots, callVars>>

\* A place in the pool before anything else is spent; without one the
\* connection is refused and does not wait.
Acquire(c) ==
    /\ IF permits > 0
       THEN Goes(c, "arrived", "permitted") /\ permits' = permits - 1
       ELSE Goes(c, "arrived", "away") /\ UNCHANGED permits
    /\ Quiet /\ UNCHANGED <<held, peers>>

\* Mutant: the bound is passed by one.
AdmitPeerLate(c) ==
    /\ IF Counted(c) /\ peers[AddressOf[c]] > Share
       THEN /\ Goes(c, "permitted", "away")
            /\ permits' = permits + 1
            /\ UNCHANGED peers
       ELSE /\ Goes(c, "permitted", "admitted")
            /\ peers' = IF Counted(c) THEN [peers EXCEPT ![AddressOf[c]] = @ + 1] ELSE peers
            /\ UNCHANGED permits
    /\ Quiet /\ UNCHANGED held

\* admit_peer, under the lock of the counts.
AdmitPeer(c) ==
    /\ IF Counted(c) /\ peers[AddressOf[c]] >= Share
       THEN /\ Goes(c, "permitted", "away")
            /\ permits' = permits + 1
            /\ UNCHANGED peers
       ELSE /\ Goes(c, "permitted", "admitted")
            /\ peers' = IF Counted(c) THEN [peers EXCEPT ![AddressOf[c]] = @ + 1] ELSE peers
            /\ UNCHANGED permits
    /\ Quiet /\ UNCHANGED held

Count(c) ==
    /\ Goes(c, "admitted", "handshaking")
    /\ held' = held + 1
    /\ Quiet /\ UNCHANGED <<permits, peers>>

\* PeerAcceptor: a mutual handshake ends well only with a certificate.
Handshake(c) ==
    /\ Mutual => Certificate[c] # None
    /\ Goes(c, "handshaking", "idle")
    /\ Quiet /\ UNCHANGED poolVars

\* The client gives up, is refused, or the handshake timeout passes.
HandshakeFails(c) ==
    /\ Goes(c, "handshaking", "ending")
    /\ Quiet /\ UNCHANGED poolVars

----------------------------------------------------------------------------
(* The drops: the fields of Guarded, and what a failed handshake owned, go *)
(* in the order they are declared.                                         *)

DropPermit(c) ==
    /\ Goes(c, "ending", "uncounting")
    /\ permits' = permits + 1
    /\ Quiet /\ UNCHANGED <<held, peers>>

Uncount(c) ==
    /\ Goes(c, "uncounting", "releasing")
    /\ held' = held - 1
    /\ Quiet /\ UNCHANGED <<permits, peers>>

\* Mutant: the count of the address stays.
KeepPeer(c) ==
    /\ Goes(c, "releasing", "away")
    /\ Quiet /\ UNCHANGED poolVars

ReleasePeer(c) ==
    /\ Goes(c, "releasing", "away")
    /\ peers' = IF Counted(c) THEN [peers EXCEPT ![AddressOf[c]] = @ - 1] ELSE peers
    /\ Quiet /\ UNCHANGED <<permits, held>>

----------------------------------------------------------------------------
(* Guarded: the lifetime, and the reads and writes that find out about it *)

Age(c) ==
    /\ Lifetime
    /\ phase[c] \in {"handshaking"} \cup Open
    /\ c \notin aged
    /\ aged' = aged \cup {c}
    /\ UNCHANGED <<listener, phase, poolVars, slots, callVars>>

\* A request head is read.  On one that is past its lifetime the read fails.
Ask(c) ==
    /\ listener = "listening"
    /\ IF c \in aged THEN Goes(c, "idle", "ending") ELSE Goes(c, "idle", "asking")
    /\ recorded' = recorded \ {c} /\ done' = done \ {c}
    /\ UNCHANGED <<listener, poolVars, slots, aged>>

\* Nothing is read: the client leaves, the header timeout or the keep-alive
\* passes, or the surface drains.
IdleEnds(c) ==
    /\ Goes(c, "idle", "ending")
    /\ Quiet /\ UNCHANGED poolVars

\* The answer reaches the client, who may go on on the same connection unless
\* the surface drains.  Only poll_write looks at the lifetime.
Written(c) ==
    /\ Goes(c, "answering",
            IF listener = "listening" /\ (c \in Vectored \/ c \notin aged)
            THEN "idle" ELSE "ending")
    /\ Quiet /\ UNCHANGED poolVars

\* The client stops reading: the write is pending.
Stalls(c) ==
    /\ Goes(c, "answering", "stalled")
    /\ Quiet /\ UNCHANGED poolVars

\* Mutant: the lifetime is not looked at while an answer is being written.
MovesUnchecked(c) ==
    /\ Goes(c, "stalled", "answering")
    /\ Quiet /\ UNCHANGED poolVars

\* It reads again.  The poll that follows finds out about the lifetime.
Moves(c) ==
    /\ Goes(c, "stalled", IF c \in aged \ Vectored THEN "ending" ELSE "answering")
    /\ Quiet /\ UNCHANGED poolVars

\* The stall timer of poll_write; poll_write_vectored arms none.
StallTimesOut(c) ==
    /\ c \notin Vectored
    /\ Goes(c, "stalled", "ending")
    /\ Quiet /\ UNCHANGED poolVars

\* The client goes away with an answer on its way to it.
Abandons(c) ==
    /\ phase[c] \in {"answering", "stalled"}
    /\ Goes(c, phase[c], "ending")
    /\ Quiet /\ UNCHANGED poolVars

----------------------------------------------------------------------------
(* The layers around a request *)

\* A request over the ceiling is shed with an answer, and does not queue.
Shed(c) ==
    /\ slots = 0
    /\ Goes(c, "asking", "answering")
    /\ Quiet /\ UNCHANGED poolVars

Take(c) ==
    /\ slots > 0
    /\ Goes(c, "asking", "serving")
    /\ slots' = slots - 1
    /\ UNCHANGED <<listener, poolVars, aged, callVars>>

\* The identity that PeerAcceptor gives to every request of the connection.
IdentityOf(c) == IF Mutual THEN Certificate[c] ELSE None

Gated(c) == Gate # {} /\ IdentityOf(c) \notin Gate

\* Authorization::permits
Permits(c) ==
    /\ IdentityOf(c) # None
    /\ IF AdminAllow = {} THEN Development ELSE IdentityOf(c) \in AdminAllow

\* Some layer answers in place of the handler: the body is too large, the
\* gate or the policy refuses the peer, the record could not be written, the
\* handler panicked or the request timed out.  The place is given back.
Answered(c) ==
    /\ phase' = [phase EXCEPT ![c] = "answering"]
    /\ slots' = slots + 1

TooLarge(c) ==
    /\ phase[c] = "serving"
    /\ Answered(c)
    /\ UNCHANGED <<listener, poolVars, aged, callVars>>

\* The gate refuses without a word.  What the policy refuses is recorded, and
\* refused whether the record could be written or not.
Refuse(c) ==
    /\ phase[c] = "serving"
    /\ \/ Gated(c) /\ UNCHANGED recorded
       \/ /\ ~Gated(c) /\ Mutual /\ ~Permits(c)
          /\ \E written \in {recorded, recorded \cup {c}} : recorded' = written
    /\ Answered(c)
    /\ UNCHANGED <<listener, poolVars, aged, done>>

\* A surface without mutual TLS authorises nobody and records nothing.
Authorize(c) ==
    /\ phase[c] = "serving"
    /\ ~Gated(c) /\ (Mutual => Permits(c))
    /\ phase' = [phase EXCEPT ![c] = IF Mutual THEN "recording" ELSE "working"]
    /\ UNCHANGED <<listener, poolVars, slots, aged, callVars>>

\* Mutant: the work goes on whether the record was written or not.
RecordAnyway(c) ==
    /\ phase[c] = "recording"
    /\ \E written \in {recorded, recorded \cup {c}} : recorded' = written
    /\ phase' = [phase EXCEPT ![c] = "working"]
    /\ UNCHANGED <<listener, poolVars, slots, aged, done>>

\* Recorded before the work, and the work only happens if the record did.  The
\* binary always composes a recorder.
Record(c) ==
    /\ phase[c] = "recording"
    /\ recorded' = recorded \cup {c}
    /\ phase' = [phase EXCEPT ![c] = "working"]
    /\ UNCHANGED <<listener, poolVars, slots, aged, done>>

Unrecordable(c) ==
    /\ phase[c] = "recording"
    /\ Answered(c)
    /\ UNCHANGED <<listener, poolVars, aged, callVars>>

Work(c) ==
    /\ phase[c] = "working"
    /\ done' = done \cup {c}
    /\ Answered(c)
    /\ UNCHANGED <<listener, poolVars, aged, recorded>>

Panic(c) ==
    /\ phase[c] = "working"
    /\ \E worked \in {done, done \cup {c}} : done' = worked
    /\ Answered(c)
    /\ UNCHANGED <<listener, poolVars, aged, recorded>>

\* What a future that is dropped where it waits may have got done before.
CutOff(c) ==
    /\ \E r \in {recorded, recorded \cup {c}} :
           recorded' = IF phase[c] = "recording" THEN r ELSE recorded
    /\ \E d \in {done, done \cup {c}} :
           done' = IF phase[c] = "working" THEN d ELSE done

\* The timeout layer drops whatever is inside it.
RequestTimesOut(c) ==
    /\ phase[c] \in Serving
    /\ CutOff(c)
    /\ Answered(c)
    /\ UNCHANGED <<listener, poolVars, aged>>

\* Mutant: a request whose client left keeps its place.
DisconnectKeeping(c) ==
    /\ phase[c] \in Serving \cup {"asking"}
    /\ CutOff(c)
    /\ phase' = [phase EXCEPT ![c] = "ending"]
    /\ UNCHANGED <<listener, poolVars, slots, aged>>

\* The client leaves in the middle: the whole request is dropped.
Disconnect(c) ==
    /\ phase[c] \in Serving \cup {"asking"}
    /\ CutOff(c)
    /\ phase' = [phase EXCEPT ![c] = "ending"]
    /\ slots' = IF phase[c] \in Serving THEN slots + 1 ELSE slots
    /\ UNCHANGED <<listener, poolVars, aged>>

----------------------------------------------------------------------------
(* Surface::stop *)

Stop ==
    /\ listener = "listening"
    /\ listener' = "draining"
    /\ UNCHANGED <<phase, poolVars, slots, aged, callVars>>

\* The task of the listener ends when every connection has, or when the grace
\* is over.
StopEnds ==
    /\ listener = "draining"
    /\ listener' = "stopped"
    /\ UNCHANGED <<phase, poolVars, slots, aged, callVars>>

\* Mutant: a write that is pending is waited for.
KillMoving(c) ==
    /\ listener = "stopped"
    /\ phase[c] \in Open \ {"stalled"}
    /\ CutOff(c)
    /\ phase' = [phase EXCEPT ![c] = "ending"]
    /\ slots' = IF phase[c] \in Serving THEN slots + 1 ELSE slots
    /\ UNCHANGED <<listener, poolVars, aged>>

\* Past the grace a connection ends wherever it is.
Kill(c) ==
    /\ listener = "stopped"
    /\ phase[c] \in Open
    /\ CutOff(c)
    /\ phase' = [phase EXCEPT ![c] = "ending"]
    /\ slots' = IF phase[c] \in Serving THEN slots + 1 ELSE slots
    /\ UNCHANGED <<listener, poolVars, aged>>

----------------------------------------------------------------------------

Accepting(c) == Acquire(c) \/ AdmitPeer(c) \/ Count(c)
Dropping(c) == DropPermit(c) \/ Uncount(c) \/ ReleasePeer(c)
Handling(c) == \/ Shed(c) \/ Take(c) \/ TooLarge(c) \/ Refuse(c) \/ Authorize(c)
               \/ Record(c) \/ Unrecordable(c) \/ Work(c) \/ Panic(c)
Timers(c) == \/ HandshakeFails(c) \/ IdleEnds(c) \/ StallTimesOut(c) \/ RequestTimesOut(c)
             \/ Kill(c)
Client(c) == \/ Connect(c) \/ Handshake(c) \/ Ask(c) \/ Written(c)
             \/ Stalls(c) \/ Moves(c) \/ Abandons(c) \/ Disconnect(c)

Next ==
    \/ \E c \in Conn : \/ Accepting(c) \/ Dropping(c) \/ Handling(c) \/ Timers(c)
                       \/ Client(c) \/ Age(c)
    \/ Stop \/ StopEnds

\* Tasks run and timers fire.  Nothing is assumed of a client, except that an
\* answer whose bytes it takes is written.
Fairness ==
    /\ \A c \in Conn : /\ WF_vars(Accepting(c)) /\ WF_vars(Dropping(c))
                       /\ WF_vars(Shed(c) \/ Take(c)) /\ WF_vars(Timers(c))
                       /\ WF_vars(Age(c)) /\ WF_vars(Written(c) \/ Stalls(c))
    /\ WF_vars(StopEnds)

Spec == Init /\ [][Next]_vars /\ Fairness

----------------------------------------------------------------------------
(* What is checked *)

\* Every permit and every place under the ceiling is with exactly one
\* connection or free, at every step of every task.
TypeOK ==
    /\ listener \in {"listening", "draining", "stopped"}
    /\ permits \in 0..Capacity /\ slots \in 0..Ceiling
    /\ held \in 0..Cardinality(Conn) /\ aged \subseteq Conn
    /\ permits + Cardinality(In(Holding)) = Capacity
    /\ slots + Cardinality(In(Serving)) = Ceiling

Pool == INSTANCE ConnectionPool WITH inside <- In(Holding \ {"permitted"})

\* The guard implements the pool: whatever the order in which accepts and
\* drops interleave, no more than the capacity is held, and no more than its
\* share by one address (LimitedAcceptor, PeerReleased).
ImplementsPool == Pool!PoolSpec

\* Whenever no task is inside an accept or a drop, the three counts agree with
\* the connections there are: nothing leaks on any path (Guarded, Released).
CountsSettle ==
    In({"permitted", "admitted", "ending", "uncounting", "releasing"}) = {} =>
        LET live == In({"handshaking"} \cup Open) IN
        /\ permits = Capacity - Cardinality(live)
        /\ held = Cardinality(live)
        /\ \A a \in Address :
               peers[a] = Cardinality({c \in live : Counted(c) /\ AddressOf[c] = a})

\* "An administrative operation that happened and was not recorded is worse
\* than one that did not happen": whatever is cut off where, work on a surface
\* that authorises was done for a peer on the list, on the record
\* (authorize, Authorization::permits).
WorkIsAccounted ==
    Mutual => \A c \in done : /\ c \in recorded
                              /\ AdminAllow = {} => Development
                              /\ AdminAllow # {} => Certificate[c] \in AdminAllow
                              /\ Gate # {} => Certificate[c] \in Gate

\* "A connection is not forever, and a response must move": where a lifetime
\* is set, every connection ends, whatever its client does, if its writes go
\* through poll_write (Guarded::poll_write, bound_connections, TimeoutLayer).
EveryConnectionEnds ==
    Lifetime => \A c \in Conn \ Vectored : phase[c] = "handshaking" ~> phase[c] = "away"

\* A drain ends with every place given back, on every kind of connection
\* (Surface::stop).
DrainEnds == listener = "draining" ~> /\ permits = Capacity /\ slots = Ceiling /\ held = 0
                                      /\ \A a \in Address : peers[a] = 0
=============================================================================
