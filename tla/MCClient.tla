------------------------------ MODULE MCClient ------------------------------
(* Instances of Client for TLC. *)
EXTENDS Client, TLC

CONSTANTS t1, t2, t3

ConnSymmetry == Permutations(Conns)
TaskSymmetry == Permutations(Conns) \cup Permutations({t2, t3})

PlainNames == {<<"a">>}
ArgNames == {<<"a">>, <<"a", "x">>}
NoNames == {}

\* One task opens and closes the connection the others use, with calls and with
\* enable_private_methods().
CallOps == t1 :> {"connect", "close"} @@ t2 :> {"call", "enable"} @@ t3 :> {"call", "enable"}
\* Subscriptions against a connection that is closed and opened again.
SubscribeOps == t1 :> {"connect", "subscribe"} @@ t2 :> {"close", "unsubscribe"}
\* A call whose send holds the lock.
BusyOps == t1 :> {"connect", "close", "call"} @@ t2 :> {"subscribe", "unsubscribe"}
\* A request, its timeout and a close() compete for the lock.
LiveOps == t1 :> {"connect", "close"} @@ t2 :> {"subscribe", "unsubscribe"}
=============================================================================
