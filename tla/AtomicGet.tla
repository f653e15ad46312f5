----------------------------- MODULE AtomicGet -----------------------------
(***************************************************************************)
(* What Source.Get promises its callers, for any number of concurrent      *)
(* calls with one destination: the destination holds what it held, or one  *)
(* whole acceptable content, placed in a single step by a call that then   *)
(* returns success unless it dies; a call that returns an error has placed *)
(* nothing; a power loss takes back a placement or keeps it whole.         *)
(***************************************************************************)
CONSTANTS
  Runs,      \* callers
  NoFile,    \* nothing at the destination
  Contents   \* contents a file may hold

VARIABLES
  file,      \* what a reader of the destination sees
  durable,   \* what it would see after a power loss
  call,      \* the state of each caller's call
  good       \* contents a Get of this artifact may place or accept

vars == <<file, durable, call, good>>

Ended == {"idle", "ok", "err", "dead"}

Init ==
  /\ file \in Contents \cup {NoFile}
  /\ durable = file
  /\ call = [r \in Runs |-> "idle"]
  /\ good \subseteq Contents

Call(r, from, to) ==
  /\ call[r] \in from /\ call'[r] = to
  /\ \A q \in Runs \ {r} : call'[q] = call[q]

Start(r)  == Call(r, Ended, "running") /\ UNCHANGED <<file, durable>>
Place(r)  == Call(r, {"running"}, "placed") /\ file' \in good /\ UNCHANGED durable
Accept(r) == Call(r, {"running"}, "ok") /\ file \in good /\ UNCHANGED <<file, durable>>
Return(r) == Call(r, {"placed"}, "ok") /\ UNCHANGED <<file, durable>>
Fail(r)   == Call(r, {"running"}, "err") /\ UNCHANGED <<file, durable>>
Die(r)    == Call(r, {"running", "placed"}, "dead") /\ UNCHANGED <<file, durable>>

Flush == durable' = file /\ UNCHANGED <<file, call>>

PowerLoss ==
  /\ call' = [r \in Runs |-> IF call[r] \in Ended THEN call[r] ELSE "dead"]
  /\ file' = durable
  /\ UNCHANGED durable

Next ==
  /\ UNCHANGED good
  /\ \/ \E r \in Runs : Start(r) \/ Place(r) \/ Accept(r) \/ Return(r) \/ Fail(r) \/ Die(r)
     \/ Flush
     \/ PowerLoss

Spec == Init /\ [][Next]_vars
=============================================================================
