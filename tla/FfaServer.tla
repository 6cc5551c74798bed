----------------------------- MODULE FfaServer ------------------------------
(***************************************************************************)
(* What a secure partition promises to the callers of direct requests: one *)
(* request is served at a time, and while the partition is alive a request *)
(* that it took is answered or turned down, once.                          *)
(***************************************************************************)
CONSTANT Caller

VARIABLES
  client,   \* "idle", "waiting", "serving", "answered" or "dropped"
  alive     \* whether the partition still runs

vars == <<client, alive>>

Init == client = [c \in Caller |-> "idle"] /\ alive = TRUE

Busy == \E c \in Caller : client[c] = "serving"

\* A caller that is not blocked sends a direct request.
Ask(c) ==
  /\ client[c] \in {"idle", "answered"}
  /\ client' = [client EXCEPT ![c] = "waiting"]
  /\ UNCHANGED alive

Take(c) ==
  /\ alive /\ ~Busy
  /\ client[c] = "waiting"
  /\ client' = [client EXCEPT ![c] = "serving"]
  /\ UNCHANGED alive

\* The response reaches the caller, or the partition turns to the next request
\* and leaves the caller without one.
Answer(c) ==
  /\ alive
  /\ client[c] = "serving"
  /\ client' = [client EXCEPT ![c] = "answered"]
  /\ UNCHANGED alive

Drop(c) ==
  /\ alive
  /\ client[c] = "serving"
  /\ client' = [client EXCEPT ![c] = "dropped"]
  /\ UNCHANGED alive

Die == alive /\ alive' = FALSE /\ UNCHANGED client

Serve == \E c \in Caller : Answer(c) \/ Drop(c)

Next ==
  \/ \E c \in Caller : Ask(c) \/ Take(c) \/ Answer(c) \/ Drop(c)
  \/ Die

Safety == Init /\ [][Next]_vars
Spec == Safety /\ WF_vars(Serve)
=============================================================================
