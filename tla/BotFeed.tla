------------------------------ MODULE BotFeed ------------------------------
(***************************************************************************)
(* The live feed of the bot (WebSocketBroadcaster and the endpoint         *)
(* /ws/feed): who is registered, what a broadcast sends to whom, and which *)
(* connections are given up.                                               *)
(*                                                                         *)
(* Everything runs on one event loop; a step is what happens between two   *)
(* awaits.  The lock is only ever held without an await, so it never makes *)
(* anyone wait.                                                            *)
(***************************************************************************)
EXTENDS Naturals, Sequences, FiniteSets

CONSTANT Clients    \* connections, each of which is opened once

\* The tasks that broadcast: the end of a cycle and the emergency stop.
Casters == {"cycle", "halt"}

VARIABLES
  sock,     \* the connection: new, open, or lost
  clients,  \* WebSocketBroadcaster._clients
  greets,   \* the clients whose greeting is still to be sent
  cast,     \* the broadcasts, see Quiet
  heard,    \* what arrived at each client, by broadcasting task
  joined,   \* how many broadcasts each task had begun when the client registered
  down      \* close_all has begun

feedVars == <<sock, clients, greets, cast, heard, joined, down>>

\* no: broadcasts begun so far, the last of which is under way while on; todo and
\* failed: clients_snapshot without those sent to, and disconnected.
Quiet == [on |-> FALSE, no |-> 0, to |-> {}, todo |-> {}, failed |-> {}]

\* cs: those of the clients that will come.
FeedInit(cs) ==
  /\ sock = [c \in Clients |-> IF c \in cs THEN "new" ELSE "lost"]
  /\ clients = {} /\ greets = {}
  /\ cast = [k \in Casters |-> Quiet]
  /\ heard = [c \in Clients |-> [k \in Casters |-> <<>>]]
  /\ joined = [c \in Clients |-> [k \in Casters |-> 0]]
  /\ down = FALSE

-----------------------------------------------------------------------------
\* connect: accept() is through and the client is registered.
Connect(c) ==
  /\ sock[c] = "new" /\ ~down
  /\ sock' = [sock EXCEPT ![c] = "open"]
  /\ clients' = clients \cup {c}
  /\ greets' = greets \cup {c}
  /\ joined' = [joined EXCEPT ![c] = [k \in Casters |-> cast[k].no]]
  /\ UNCHANGED <<cast, heard, down>>

\* accept() failed: the endpoint's next receive raises, and it gives up.
ConnectFails(c) ==
  /\ sock[c] = "new" /\ ~down
  /\ sock' = [sock EXCEPT ![c] = "lost"]
  /\ UNCHANGED <<clients, greets, cast, heard, joined, down>>

\* The greeting is sent, or fails, which connect does not look at.
Greet(c) ==
  /\ c \in greets
  /\ greets' = greets \ {c}
  /\ UNCHANGED <<sock, clients, cast, heard, joined, down>>

\* The peer goes away.
Lose(c) ==
  /\ sock[c] = "open"
  /\ sock' = [sock EXCEPT ![c] = "lost"]
  /\ UNCHANGED <<clients, greets, cast, heard, joined, down>>

\* receive_text raises once the connection is lost and the client was greeted.
Disconnect(c) ==
  /\ sock[c] = "lost" /\ c \in clients \ greets
  /\ clients' = clients \ {c}
  /\ UNCHANGED <<sock, greets, cast, heard, joined, down>>

-----------------------------------------------------------------------------
\* broadcast, up to its first send; without clients there is none.
BeginCast(k) ==
  /\ ~cast[k].on
  /\ cast' = [cast EXCEPT ![k] =
       [Quiet EXCEPT !.no = cast[k].no + 1, !.on = clients # {}, !.to = clients, !.todo = clients]]
  /\ UNCHANGED <<sock, clients, greets, heard, joined, down>>

\* One send; it succeeds while the connection is open.
Send(k, c) ==
  /\ cast[k].on /\ c \in cast[k].todo
  /\ LET lost == sock[c] = "lost" IN
     /\ cast' = [cast EXCEPT ![k].todo = @ \ {c},
                             ![k].failed = IF lost THEN @ \cup {c} ELSE @]
     /\ heard' = IF lost THEN heard ELSE [heard EXCEPT ![c][k] = Append(@, cast[k].no)]
  /\ UNCHANGED <<sock, clients, greets, joined, down>>

\* Mutant: the set is replaced by those that were sent to.
EndCastReplaces(k) ==
  /\ cast[k].on /\ cast[k].todo = {}
  /\ cast' = [cast EXCEPT ![k] = [Quiet EXCEPT !.no = cast[k].no]]
  /\ clients' = cast[k].to \ cast[k].failed
  /\ UNCHANGED <<sock, greets, heard, joined, down>>

\* All sends are through: the clients whose send failed are removed.
EndCast(k) ==
  /\ cast[k].on /\ cast[k].todo = {}
  /\ cast' = [cast EXCEPT ![k] = [Quiet EXCEPT !.no = cast[k].no]]
  /\ clients' = clients \ cast[k].failed
  /\ UNCHANGED <<sock, greets, heard, joined, down>>

\* close_all: nobody is registered any more, and one connection after the other
\* is closed, which Lose stands for.
CloseAll ==
  /\ ~down /\ down' = TRUE
  /\ clients' = {}
  /\ UNCHANGED <<sock, greets, cast, heard, joined>>

FeedStep ==
  \/ \E c \in Clients : Connect(c) \/ ConnectFails(c) \/ Greet(c) \/ Lose(c) \/ Disconnect(c)
  \/ \E k \in Casters : (\E c \in Clients : Send(k, c)) \/ EndCast(k)

-----------------------------------------------------------------------------
FeedTypeOK ==
  /\ sock \in [Clients -> {"new", "open", "lost"}] /\ down \in BOOLEAN
  /\ clients \subseteq Clients /\ greets \subseteq clients \cup Clients
  /\ \A k \in Casters : cast[k].todo \cup cast[k].failed \subseteq cast[k].to

\* A client whose connection holds hears every broadcast that began since it was
\* registered, once and in the order of the task that broadcasts, but for the
\* send that is still to come: whoever else connects, leaves or fails, and
\* however broadcasts of two tasks overlap.
Missing(c, k) == IF cast[k].on /\ c \in cast[k].todo THEN 1 ELSE 0

HearsAll ==
  \A c \in Clients, k \in Casters :
    sock[c] = "open" /\ ~down =>
      LET n == cast[k].no - joined[c][k] - Missing(c, k)
      IN heard[c][k] = [i \in 1..n |-> joined[c][k] + i]
=============================================================================
