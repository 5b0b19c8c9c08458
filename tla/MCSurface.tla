----------------------------- MODULE MCSurface -----------------------------
EXTENDS Surface, TLC

CONSTANTS c1, c2, c3, client, balancer, operator, other, stranger

MCAddressOf == (c1 :> client) @@ (c2 :> client) @@ (c3 :> balancer)
MCCertificate == (c1 :> operator) @@ (c2 :> other) @@ (c3 :> stranger)
=============================================================================
