---------------------------- MODULE MCTransport -----------------------------
EXTENDS Transport
\* Both ends send data; the client asks, the server starts an exchange meanwhile.
MCWork == ("client" :> [data |-> 1, reqs |-> 1, rekeys |-> 0])
          @@ ("server" :> [data |-> 1, reqs |-> 0, rekeys |-> 1])
=============================================================================
