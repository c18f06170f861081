-------------------------- MODULE BroadcastServer --------------------------
(***************************************************************************)
(* The chat servers of 2023/11/27 (server.py, blackserver.py, aioserver.py):*)
(* a handler per connection sends each message it receives to the other    *)
(* members of the set connected.  Handlers are coroutines of one thread    *)
(* and only give way in an await; a send may do so before and after it     *)
(* writes.  So connected may change while a handler iterates over it.      *)
(*                                                                         *)
(* The iterator of a Python set raises an exception when the size of the   *)
(* set is not what it was at the start.  It does not notice a change that  *)
(* keeps the size, and an insertion may rehash the table, after which the  *)
(* iterator may miss members or return some again.                         *)
(*                                                                         *)
(* A connection is used once, by one client; its k-th message is <<c, k>>. *)
(***************************************************************************)
EXTENDS Naturals, Sequences, FiniteSets

CONSTANT Clients

ASSUME BroadcastAssumption == IsFiniteSet(Clients)

VARIABLES
  has_finally,   \* whether connected.remove(ws) is in a finally clause: which server
  link,          \* the connection of each client
  sent, taken,   \* how many messages it sent, and its handler received
  inbox,         \* all messages that were sent to it
  connected,
  hpc,           \* where its handler is
  target, todo,  \* the variable client, and what its iterator has still to return
  used,          \* the size of the set its iterator started with
  moved          \* history: connected changed since its handler received a message

server == <<taken, inbox, connected, hpc, target, todo, used, moved>>
vars   == <<has_finally, link, sent, server>>

Broadcasting == {c \in Clients : hpc[c] \in {"write", "drain"}}
Served       == {c \in Clients : hpc[c] \in {"recv", "write", "drain"}}

\* Mutants: the connection stays in the set; the loop ends at the sender itself.
RemovedNever(c)    == {}
UpToSelf(c, S)     == IF c \in S THEN {} ELSE S

\* What the finally clause removes, and whether the size of the set has changed.
Removed(c)    == IF has_finally THEN {c} ELSE {}
Others(c, S)  == S \ {c}
Resized(c)    == Cardinality(connected) # used[c]

Init ==
  /\ has_finally \in BOOLEAN
  /\ link = [c \in Clients |-> "new"]
  /\ sent = [c \in Clients |-> 0] /\ taken = [c \in Clients |-> 0]
  /\ inbox = [c \in Clients |-> <<>>]
  /\ connected = {}
  /\ hpc = [c \in Clients |-> "none"]
  /\ target = [c \in Clients |-> c] /\ todo = [c \in Clients |-> {}]
  /\ used = [c \in Clients |-> 0]
  /\ moved = [c \in Clients |-> FALSE]

-----------------------------------------------------------------------------
(* What a client does to its connection. *)

Connect(c) == link[c] = "new" /\ link' = [link EXCEPT ![c] = "open"] /\ UNCHANGED <<has_finally, sent, server>>
Say(c)     == link[c] = "open" /\ sent' = [sent EXCEPT ![c] = @ + 1] /\ UNCHANGED <<has_finally, link, server>>
Close(c)   == link[c] = "open" /\ link' = [link EXCEPT ![c] = "closed"] /\ UNCHANGED <<has_finally, sent, server>>

-----------------------------------------------------------------------------
(* The handlers. *)

Goto(c, label) == hpc' = [hpc EXCEPT ![c] = label]
AllMoved       == moved' = [c \in Clients |-> TRUE]

\* connected.add(ws)
Accept(c) ==
  /\ hpc[c] = "none" /\ link[c] # "new"
  /\ connected' = connected \cup {c}
  /\ \E S \in [Broadcasting -> SUBSET connected'] :
       todo' = [h \in Clients |-> IF h \in Broadcasting THEN S[h] ELSE todo[h]]
  /\ Goto(c, "recv")
  /\ AllMoved
  /\ UNCHANGED <<has_finally, link, sent, taken, inbox, target, used>>

\* The next member of S other than the sender, or the end of the loop.
Choose(c, S) ==
  \/ /\ S = {} /\ Goto(c, "recv")
     /\ todo' = [todo EXCEPT ![c] = {}] /\ UNCHANGED target
  \/ \E d \in S :
       /\ target' = [target EXCEPT ![c] = d]
       /\ todo' = [todo EXCEPT ![c] = S \ {d}]
       /\ Goto(c, "write")

\* ws.recv() returns a message; the loop starts in the same step.
Receive(c) ==
  /\ hpc[c] = "recv" /\ taken[c] < sent[c]
  /\ taken' = [taken EXCEPT ![c] = @ + 1]
  /\ used' = [used EXCEPT ![c] = Cardinality(connected)]
  /\ moved' = [moved EXCEPT ![c] = FALSE]
  /\ Choose(c, Others(c, connected))
  /\ UNCHANGED <<has_finally, link, sent, inbox, connected>>

\* The handler ends with the exception of the iterator, of a send or of ws.recv();
\* the framework closes the connection.
End(c, label) ==
  /\ Goto(c, label)
  /\ link' = [link EXCEPT ![c] = "closed"]
  /\ connected' = connected \ (IF label = "raised" THEN Removed(c) ELSE {c})
  /\ todo' = [todo EXCEPT ![c] = {}]
  /\ AllMoved
  /\ UNCHANGED <<has_finally, sent, taken, inbox, target, used>>

\* client.send(message): what is sent to a client that has closed its connection is
\* lost, and the send fails if the server knows, as it does once the handler is gone.
Write(c) ==
  /\ hpc[c] = "write"
  /\ LET d == target[c] IN
     \/ /\ link[d] = "open"
        /\ inbox' = [inbox EXCEPT ![d] = Append(@, <<c, taken[c]>>)]
        /\ Goto(c, "drain")
        /\ UNCHANGED <<has_finally, link, sent, taken, connected, target, todo, used, moved>>
     \/ /\ link[d] = "closed" /\ d \in Served
        /\ Goto(c, "drain")
        /\ UNCHANGED <<has_finally, link, sent, taken, inbox, connected, target, todo, used, moved>>
     \/ link[d] = "closed" /\ End(c, "raised")

\* The next turn of the loop.
Advance(c) ==
  /\ hpc[c] = "drain"
  /\ \/ Resized(c) /\ End(c, "raised")
     \/ /\ ~Resized(c)
        /\ Choose(c, Others(c, todo[c] \cap connected))
        /\ UNCHANGED <<has_finally, link, sent, taken, inbox, connected, used, moved>>

\* The connection is closed: ws.recv() ends the handler.  In server.py the framework
\* also cancels a handler that is in a send, which the finally clause covers.
Leave(c) ==
  /\ link[c] = "closed"
  /\ \/ hpc[c] = "recv" /\ (taken[c] = sent[c] \/ has_finally)
     \/ c \in Broadcasting /\ has_finally
  /\ End(c, "ended")

Handler(c) == Accept(c) \/ Receive(c) \/ Write(c) \/ Advance(c) \/ Leave(c)
=============================================================================
