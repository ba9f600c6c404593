----------------------------- MODULE MCStartup -----------------------------
EXTENDS Startup, TLC
CONSTANTS p1, p2, p3, h1, h2

\* Two processes of the current build on a host, one of an older build elsewhere.
TwoHosts  == (p1 :> h1) @@ (p2 :> h1) @@ (p3 :> h2)
TwoBuilds == (p1 :> 6) @@ (p2 :> 6) @@ (p3 :> 4)

\* The statements of internal/database/migrations/*.sql.
SixFiles == <<3, 3, 2, 1, 2, 1>>
=============================================================================
