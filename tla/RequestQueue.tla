---------------------------- MODULE RequestQueue ----------------------------
(***************************************************************************)
(* What the polling queue promises to those who use it: requests are       *)
(* served one at a time in the order in which they were submitted, each is *)
(* served once, and its reply reaches its submitter once.                  *)
(***************************************************************************)
EXTENDS Naturals, Sequences

CONSTANTS Requests, Nobody

VARIABLES
  queue,     \* submitted, not yet taken by the server
  serving,   \* the request the server is at, or Nobody
  replies,   \* <<request, the request its reply answers>>, not yet received
  received   \* the same, received

vars == <<queue, serving, replies, received>>

Known == {queue[i] : i \in DOMAIN queue} \cup {serving} \cup {p[1] : p \in replies \cup received}

Init == queue = <<>> /\ serving = Nobody /\ replies = {} /\ received = {}

Submit(r) ==
  /\ r \notin Known
  /\ queue' = Append(queue, r)
  /\ UNCHANGED <<serving, replies, received>>

Take ==
  /\ serving = Nobody /\ queue # <<>>
  /\ serving' = Head(queue) /\ queue' = Tail(queue)
  /\ UNCHANGED <<replies, received>>

Answer ==
  /\ serving # Nobody
  /\ replies' = replies \cup {<<serving, serving>>}
  /\ serving' = Nobody
  /\ UNCHANGED <<queue, received>>

Receive(r) ==
  /\ <<r, r>> \in replies
  /\ replies' = replies \ {<<r, r>>}
  /\ received' = received \cup {<<r, r>>}
  /\ UNCHANGED <<queue, serving>>

Next == Take \/ Answer \/ \E r \in Requests : Submit(r) \/ Receive(r)

Spec == Init /\ [][Next]_vars
=============================================================================
