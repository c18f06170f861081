----------------------------- MODULE ChatClients -----------------------------
(***************************************************************************)
(* BroadcastServer with any clients: they connect, send messages and leave *)
(* when they please.  MaxSends bounds the messages of each.                *)
(***************************************************************************)
EXTENDS BroadcastServer

CONSTANT MaxSends

Client(c) == Connect(c) \/ (sent[c] < MaxSends /\ Say(c)) \/ Close(c)

Next == \E c \in Clients : Client(c) \/ Handler(c)

Spec == Init /\ [][Next]_vars

-----------------------------------------------------------------------------
(* Properties. *)

\* connected holds the connections that are served; without the finally clause it
\* also holds, for ever, those whose handler failed.
ConnectedIsServed ==
  connected = Served \cup (IF has_finally THEN {} ELSE {c \in Clients : hpc[c] = "raised"})

Copies(d, m) == Cardinality({k \in DOMAIN inbox[d] : inbox[d][k] = m})

\* A broadcast during which nobody came or left reached everybody else once, in
\* whatever order the handlers alternated.
QuietDelivery ==
  \A c \in connected : hpc[c] = "recv" /\ taken[c] > 0 /\ ~moved[c] =>
    \A d \in connected \ {c} : link[d] = "open" => Copies(d, <<c, taken[c]>>) = 1

\* With the finally clause a handler fails only if a client came or left during its
\* own broadcast, or has left without its handler knowing yet: a failure does not
\* make later broadcasts fail.
Contained ==
  [][\A c \in Clients : has_finally /\ hpc[c] # "raised" /\ hpc'[c] = "raised" =>
       moved[c] \/ \E d \in Served : link[d] = "closed"]_vars
=============================================================================
