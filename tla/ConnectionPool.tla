--------------------------- MODULE ConnectionPool ---------------------------
(***************************************************************************)
(* What a surface promises about the connections it holds: never more than *)
(* its capacity, and never more from one address than its share.  A        *)
(* connection that may not enter is not part of this.                      *)
(***************************************************************************)
EXTENDS Naturals, FiniteSets

CONSTANTS
    Conn,       \* the connections clients may make
    Address,    \* the addresses they come from
    AddressOf,  \* the address of each connection
    Exempt,     \* addresses the share does not apply to
    Capacity,   \* how many connections the surface holds
    Share       \* how many of them one address may hold; 0 for no bound

VARIABLE inside     \* the connections that are held

From(a) == {c \in inside : AddressOf[c] = a}

Enter(c) ==
    /\ c \notin inside
    /\ Cardinality(inside) < Capacity
    /\ Share > 0 /\ AddressOf[c] \notin Exempt => Cardinality(From(AddressOf[c])) < Share
    /\ inside' = inside \cup {c}

Leave(c) ==
    /\ c \in inside
    /\ inside' = inside \ {c}

PoolSpec == inside = {} /\ [][\E c \in Conn : Enter(c) \/ Leave(c)]_inside
=============================================================================
