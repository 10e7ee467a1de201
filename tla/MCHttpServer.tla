----------------------------- MODULE MCHttpServer -----------------------------
EXTENDS HttpServer, TLC

CONSTANTS c1, c2   \* a connection that is used again, and one for the company
MaxRequestsOf == (c1 :> 2) @@ (c2 :> 1)
=============================================================================
