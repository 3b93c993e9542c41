---------------------------- MODULE ClientDelivery ----------------------------
(***************************************************************************)
(* Client with a history variable that follows the message each reader has *)
(* in hand: the queues it is still due to.  The queues and the tables of   *)
(* Client decide what it becomes, never what the reader remembers of the   *)
(* message; it restricts no step of Client.                                *)
(***************************************************************************)
EXTENDS Client

VARIABLE due    \* due[c]: the queues the message of c's reader has yet to reach

deliveryVars == <<vars, due>>

\* The subscription of call r is one that message m is meant for.
Addressed(m, r) ==
    \/ m.type = "note" /\ subs[m.sid] = r
    \/ /\ m.type = "collection"
       /\ \E name \in {m.top, m.inner} \ {None} : MatchesSubscription(name, event[r])

\* The tracked queues the message in hand is meant for; only the current connection delivers.
Audience(c) == IF ws = c THEN {r \in Tracked : Addressed(msg[c], r)} ELSE {}

\* This step puts a message of connection c into the queue of call r.
Puts(c, r) == queue'[r] = Append(queue[r], c)

\* This step hands the reader of c a message to route.
Takes(c) == rd[c] = "recv" /\ rd'[c] \in {"route", "route2"}

\* A message is due to its audience, and no longer to a queue it was put into or
\* that stopped being tracked.
Follow ==
    due' = [c \in Conns |-> IF Takes(c) THEN Audience(c)'
                            ELSE {r \in due[c] \cap Tracked' : ~Puts(c, r)}]

DeliveryInit == Init /\ due = [c \in Conns |-> {}]
DeliveryNext == Next /\ Follow
DeliverySpec == DeliveryInit /\ [][DeliveryNext]_deliveryVars

\* Every notification reaches each queue it is meant for exactly once: it is put only
\* where it is still due, and when the reader goes on to its next message it is due
\* nowhere.  The two lookups of _handle_collection_notification each release the lock,
\* and between them subscriptions end and connections are replaced.
DeliveredOnce ==
    [][\A c \in Conns : /\ \A r \in Rpcs : Puts(c, r) => r \in due[c]
                        /\ rd'[c] = "recv" => due'[c] = {}]_deliveryVars
=============================================================================
