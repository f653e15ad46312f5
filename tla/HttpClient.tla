----------------------------- MODULE HttpClient -----------------------------
(***************************************************************************)
(* The http client of internal/httpclient, under the code that reads the   *)
(* body of a response: redirects, the wait for the headers, and a timer    *)
(* that is armed for the duration of each Read. The timer's function runs  *)
(* in a goroutine of its own, so it may run after the Read has returned.   *)
(* Each caller makes one request at a time. Time passes in ticks.          *)
(***************************************************************************)
EXTENDS Naturals, Sequences, FiniteSets

CONSTANTS
  Callers,         \* each makes one request at a time
  Schemes,         \* schemes a server redirects to
  ResponseHeader,  \* ticks one waits for the headers
  IdleRead,        \* ticks one Read waits for data
  maxRedirects,    \* redirects followed
  MaxPieces        \* bound: Reads that deliver the data of a body

VARIABLE conn  \* the request of each caller

(* idleBody.Read is in body.Read, or has its result and not stopped the timer. *)
InRead == {"read", "data", "end", "broken"}

(* What a Read that returned an error has returned, or a refused redirect. *)
Results == {"eof", "idle", "error"}

(* A request: where it is; the schemes of the requests of its chain; what   *)
(* the server has left to send; the ticks of this wait, for the headers or  *)
(* in a Read; the timer, the ticks until it fires, whether its function was *)
(* started and has not run; context.Cause; whether a Read has waited for    *)
(* IdleRead, an observation.                                                *)
Connection ==
  [at : {"none", "sent", "body"} \cup InRead \cup Results,
   hops : Seq(Schemes), pieces : 0 .. MaxPieces, waited : Nat,
   armed : BOOLEAN, left : Nat, firing : BOOLEAN,
   cause : {"none", "idle", "interrupted"}, stalled : BOOLEAN]

Fresh(at, hops, cause) ==
  [at |-> at, hops |-> hops, pieces |-> 0, waited |-> 0, armed |-> FALSE, left |-> 0,
   firing |-> FALSE, cause |-> cause, stalled |-> FALSE]

Unused == Fresh("none", <<>>, "none")

Init == conn = [c \in Callers |-> Unused]

-----------------------------------------------------------------------------
(* A request is sent, on the context of the caller, which may be done. *)
Send(c, scheme, done) ==
  /\ conn[c].at = "none"
  /\ conn' = [conn EXCEPT ![c] = Fresh("sent", <<scheme>>, IF done THEN "interrupted" ELSE "none")]

(* Mutant: only the first request of the chain counts as "used https". *)
LeavesFirst(hops, scheme) == scheme = "http" /\ hops[1] = "https"

(* checkRedirect: the redirect leaves https after an earlier hop used it. *)
LeavesHttps(hops, scheme) == scheme = "http" /\ \E n \in DOMAIN hops : hops[n] = "https"

(* Mutant: "len(via) > maxRedirects". *)
CheckRedirectLate(hops, scheme) == Len(hops) <= maxRedirects /\ ~LeavesHttps(hops, scheme)

CheckRedirect(hops, scheme) == Len(hops) < maxRedirects /\ ~LeavesHttps(hops, scheme)

(* The server redirects, and the client follows with a new request of the *)
(* chain; what it does not follow is an error of the request.             *)
Redirect(c, scheme) ==
  /\ conn[c].at = "sent"
  /\ conn' = [conn EXCEPT ![c] =
       IF CheckRedirect(conn[c].hops, scheme)
         THEN Fresh("sent", Append(conn[c].hops, scheme), conn[c].cause)
         ELSE [conn[c] EXCEPT !.at = "error", !.waited = 0]]

(* RoundTrip gets the response, whose body is of any length, and the chain *)
(* of requests is done with.                                               *)
Headers(c) ==
  /\ conn[c].at = "sent"
  /\ \E n \in 0 .. MaxPieces :
       conn' = [conn EXCEPT ![c] = [Fresh("body", <<>>, conn[c].cause) EXCEPT !.pieces = n]]

(* Mutant: the client is built without ResponseHeaderTimeout. *)
HeadersAwaited(c) == FALSE

(* The transport's ResponseHeaderTimeout. *)
HeadersLate(c) == conn[c].at = "sent" /\ conn[c].waited >= ResponseHeader

-----------------------------------------------------------------------------
(* Mutant: only the first Read creates and arms the timer. *)
ArmFirst(b) == IF b.left > 0 THEN b ELSE [b EXCEPT !.armed = TRUE, !.left = IdleRead]

(* AfterFunc for the first Read, Reset for the others. Neither withdraws a *)
(* function that was started already.                                      *)
Arm(b) == [b EXCEPT !.armed = TRUE, !.left = IdleRead]

Read(c) ==
  /\ conn[c].at = "body"
  /\ conn' = [conn EXCEPT ![c] = [Arm(conn[c]) EXCEPT !.at = "read", !.waited = 0]]

(* body.Read returns data, or the end of the body. *)
Deliver(c) ==
  /\ conn[c].at = "read"
  /\ IF conn[c].pieces > 0
       THEN conn' = [conn EXCEPT ![c].at = "data", ![c].pieces = @ - 1]
       ELSE conn' = [conn EXCEPT ![c].at = "end"]

(* ... or fails, because the context of the request is done. *)
BreakOff(c) ==
  /\ conn[c].at = "read"
  /\ conn[c].cause # "none"
  /\ conn' = [conn EXCEPT ![c].at = "broken"]

(* Mutant: no timer.Stop after body.Read. *)
LeaveRunning(b) == b

Stop(b) == [b EXCEPT !.armed = FALSE]

(* Read returns to its caller, which goes on to write the data to its disk. *)
(* An error, the end of the body is one, is "no data received" when the     *)
(* timer was the first to cancel the context.                               *)
ReadReturns(c) ==
  /\ conn[c].at \in {"data", "end", "broken"}
  /\ conn' = [conn EXCEPT ![c] = [Stop(conn[c]) EXCEPT !.waited = 0, !.at =
       CASE conn[c].at = "data"      -> "body"
         [] conn[c].at # "data" /\ conn[c].cause = "idle" -> "idle"
         [] conn[c].at = "end" /\ conn[c].cause # "idle"  -> "eof"
         [] conn[c].at = "broken" /\ conn[c].cause # "idle" -> "error"]]

(* The caller closes the body, or gives the request up: nothing of its      *)
(* timer and context is of any effect from here on. A caller can be killed. *)
Close(c) == conn' = [conn EXCEPT ![c] = Unused]

-----------------------------------------------------------------------------
(* The timer is due: its function is started, ... *)
Fire(c) ==
  /\ conn[c].armed /\ conn[c].left = 0
  /\ conn' = [conn EXCEPT ![c].armed = FALSE, ![c].firing = TRUE]

(* The first cancellation of a context is its cause. *)
Cancelled(b, cause) == IF b.cause = "none" THEN [b EXCEPT !.cause = cause] ELSE b

(* ... and runs: cancel(errIdle). *)
TimerFunction(c) ==
  /\ conn[c].firing
  /\ conn' = [conn EXCEPT ![c] = Cancelled([@ EXCEPT !.firing = FALSE], "idle")]

(* The context of the caller is done, and so is that of its request. *)
Interrupt(c) ==
  conn' = [conn EXCEPT ![c] = IF @.at = "none" THEN @ ELSE Cancelled(@, "interrupted")]

(* One tick of the clock. A timer that is due may be served late. *)
Elapsed(b) ==
  LET limit  == IF b.at = "sent" THEN ResponseHeader ELSE IdleRead
      waits  == b.at = "sent" \/ b.at \in InRead
      waited == IF waits /\ b.waited < limit THEN b.waited + 1 ELSE b.waited
  IN [b EXCEPT !.waited = waited,
               !.left = IF b.armed /\ b.left > 0 THEN b.left - 1 ELSE b.left,
               !.stalled = b.stalled \/ (b.at \in InRead /\ waited = IdleRead)]

Tick ==
  /\ \E c \in Callers : Elapsed(conn[c]) # conn[c]
  /\ conn' = [c \in Callers |-> Elapsed(conn[c])]

-----------------------------------------------------------------------------
(* The types. The requests of a chain are maxRedirects at most: the last of *)
(* that many redirects is not followed. A timer runs only under a Read.     *)
TypeOK ==
  /\ conn \in [Callers -> Connection]
  /\ \A c \in Callers : Len(conn[c].hops) <= maxRedirects /\ (conn[c].armed => conn[c].at \in InRead)
=============================================================================
