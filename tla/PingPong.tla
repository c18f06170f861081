------------------------------ MODULE PingPong ------------------------------
(***************************************************************************)
(* The server together with the two clients of 2023/11/27/client.py, which *)
(* run at the same time: client1 sends a message and counts the answers,   *)
(* client2 answers each message.  MaxTrips bounds the round trips.         *)
(***************************************************************************)
EXTENDS BroadcastServer

CONSTANTS client1, client2, MaxTrips

ASSUME PingPongAssumption == client1 # client2 /\ Clients = {client1, client2}

VARIABLE read     \* how many messages each client has received

round_trips == read[client1]

\* Mutant: a client sends without waiting for the answer.
DueAtOnce(c) == sent[c] <= MaxTrips

\* client1 has one message more to send than it has read; client2 has not.
Due(c) == sent[c] < read[c] + (IF c = client1 THEN 1 ELSE 0)

allvars == <<vars, read>>

Start(c) == Connect(c) /\ UNCHANGED read

Send(c) == Due(c) /\ round_trips < MaxTrips /\ Say(c) /\ UNCHANGED read

Recv(c) ==
  /\ link[c] = "open" /\ ~Due(c)
  /\ read[c] < Len(inbox[c])
  /\ read' = [read EXCEPT ![c] = @ + 1]
  /\ UNCHANGED vars

Serve(c) == Handler(c) /\ UNCHANGED read

PingPongNext == \E c \in Clients : Start(c) \/ Send(c) \/ Recv(c) \/ Serve(c)

\* The clients and the server run; the network delivers.
Fairness ==
  \A c \in Clients : WF_allvars(Start(c) \/ Send(c) \/ Recv(c)) /\ WF_allvars(Serve(c))

PingPongInit == Init /\ read = [c \in Clients |-> 0]

PingPongSpec == PingPongInit /\ [][PingPongNext]_allvars /\ Fairness

-----------------------------------------------------------------------------
(* Properties. *)

Flag(P) == IF P THEN 1 ELSE 0

\* There is at most one message on its way, from the moment it is sent until it is
\* read, although the handler that has sent it may still be in its loop; so each
\* answer client1 counts is the answer to its last message.
OneMessage ==
  LET OnItsWay(c) == sent[c] - taken[c] + Flag(hpc[c] = "write") + Len(inbox[c]) - read[c]
  IN  OnItsWay(client1) + OnItsWay(client2) <= 1

\* Its inductive invariant.  A handler that is in its loop has found both clients in
\* connected, so that nobody can come during a broadcast, no handler fails, and each
\* message goes to the other client once; and a client does not send before it has
\* read what it waits for.
Other(c) == IF c = client1 THEN client2 ELSE client1

LoopInv ==
  /\ link \in [Clients -> {"new", "open"}]
  /\ hpc \in [Clients -> {"none", "recv", "write", "drain"}]
  /\ target \in [Clients -> Clients] /\ todo \in [Clients -> SUBSET Clients]
  /\ used \in [Clients -> Nat]
  /\ connected = Served
  /\ \A c \in Broadcasting :
       connected = Clients /\ used[c] = 2 /\ target[c] = Other(c) /\ todo[c] = {}

TurnInv ==
  /\ sent \in [Clients -> Nat] /\ taken \in [Clients -> Nat] /\ read \in [Clients -> Nat]
  /\ inbox \in [Clients -> Seq(Clients \X Nat)]
  /\ \A c \in Clients :
       /\ sent[c] <= read[c] + (IF c = client1 THEN 1 ELSE 0)
       /\ Len(inbox[Other(c)]) + Flag(hpc[c] = "write") <= taken[c]

\* Once both clients are members before the first message is taken, the round trips
\* go on for ever: no handler fails and no message is lost.
GoesOn == client2 \in connected /\ taken[client1] = 0 ~> round_trips = MaxTrips
=============================================================================
