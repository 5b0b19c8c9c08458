---------------------------- MODULE MCServerHost ----------------------------
EXTENDS ServerHost, TLC

CONSTANTS admin, public, system, realm

\* The public surface, which the binary registers last, has the material.
MCServices == <<admin, public>>
MCTrailOf == (admin :> system) @@ (public :> realm)
MCRealms == <<realm>>
=============================================================================
