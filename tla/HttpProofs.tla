------------------------------ MODULE HttpProofs -----------------------------
(* Proofs about HttpGet and its client, for any runs, limits and redirects. *)
EXTENDS HttpGet, FetchProofs, Sequences, TLAPS

USE ClientAssumption

(***************************************************************************)
(* The inductive invariant of the client. The timer is armed for a Read    *)
(* only, and then what is left of it and what the Read has waited make up  *)
(* the limit; so when it fires, one Read of this body has lasted for all   *)
(* of it, however late its function runs. A chain of requests that has     *)
(* used https stays there.                                                 *)
(***************************************************************************)
TimerInv(b) ==
  /\ b.at \in {"none", "sent"} => ~b.firing /\ b.cause # "idle"
  /\ b.armed => b.at \in Client!InRead /\ b.left + b.waited = IdleRead
  /\ b.at \in Client!InRead /\ b.waited = IdleRead => b.stalled
  /\ b.firing \/ b.cause = "idle" \/ b.at = "idle" => b.stalled

SchemesKept(hops) ==
  \A i, j \in DOMAIN hops : i < j /\ hops[i] = "https" => hops[j] = "https"

ChainInv(b) == Len(b.hops) <= maxRedirects /\ SchemesKept(b.hops)

ClientInv ==
  /\ conn \in [Runs -> Client!Connection]
  /\ \A c \in Runs : TimerInv(conn[c]) /\ ChainInv(conn[c])

-----------------------------------------------------------------------------
(* Every step of the composition is a step of Fetch, or one of the client *)
(* that changes nothing in Fetch.                                         *)
LEMMA GetStepIsFetchStep == [GetNext]_get => [Next]_vars
<1>1. ASSUME NEW r \in Runs, GetStep(r) PROVE [Next]_vars
  BY <1>1 DEF GetStep, Elsewhere, Send, ReadStep, GiveUp, RefuseOverHttp, RedirectRefused,
     Next, LocalStep, Environment
<1>2. ASSUME NEW r \in Runs, TimerStep(r) \/ Redirect(r) \/ Deliver(r) PROVE UNCHANGED vars
  BY <1>2 DEF TimerStep, Redirect, Deliver
<1>3. ASSUME NEW r \in Runs, EndOfBody(r) \/ Wait(r) \/ Answer(r) PROVE [Next]_vars
  BY <1>3 DEF EndOfBody, Wait, Answer, Next, TransferStep
<1>4. ASSUME NEW r \in Runs, Break(r) \/ Signal(r) PROVE Next
  BY <1>4 DEF Break, Signal, Next, Environment
<1>5. ASSUME Tick PROVE UNCHANGED vars
  BY <1>5 DEF Tick
<1>6. ASSUME Publish PROVE Next
  BY <1>6 DEF Publish, Next, Environment
<1>7. ASSUME UNCHANGED get PROVE UNCHANGED vars
  BY <1>7 DEF get
<1>8. QED
  BY <1>1, <1>2, <1>3, <1>4, <1>5, <1>6, <1>7 DEF GetNext

(* Fetch on top of the client is Fetch: what is proved of Fetch holds of a *)
(* Get whose requests are those of the http client, with redirects, timers *)
(* and late timer functions. The fairness of FairSpec is left to TLC.      *)
THEOREM GetImplementsFetch == GetSpec => Spec
<1>1. GetInit => Init
  BY DEF GetInit
<1>2. QED
  BY <1>1, GetStepIsFetchStep, PTL DEF GetSpec, Spec

-----------------------------------------------------------------------------
(* What a step of HttpGet does to the requests. *)
ClientStep(c) ==
  \/ \E scheme \in Schemes : Client!Send(c, scheme, cancelled[c]) \/ Client!Redirect(c, scheme)
  \/ Client!Headers(c) \/ Client!Read(c) \/ Client!Deliver(c) \/ Client!BreakOff(c)
  \/ Client!ReadReturns(c) \/ Client!Fire(c) \/ Client!TimerFunction(c)
  \/ Client!Interrupt(c) \/ Client!Close(c)

(* A step of HttpGet moves one request, moves the clock or moves none. *)
LEMMA RequestSteps ==
  [GetNext]_get => (\E c \in Runs : ClientStep(c)) \/ Client!Tick \/ UNCHANGED conn
<1>1. ASSUME NEW r \in Runs, GetStep(r) PROVE ClientStep(r) \/ UNCHANGED conn
  BY <1>1 DEF GetStep, Elsewhere, Send, ReadStep, GiveUp, RefuseOverHttp, RedirectRefused, ClientStep
<1>2. ASSUME NEW r \in Runs, TimerStep(r) \/ Redirect(r) \/ Deliver(r) PROVE ClientStep(r)
  BY <1>2 DEF TimerStep, Redirect, Deliver, ClientStep
<1>3. ASSUME NEW r \in Runs, EndOfBody(r) \/ Wait(r) \/ Answer(r) PROVE ClientStep(r) \/ UNCHANGED conn
  BY <1>3 DEF EndOfBody, Wait, Answer, ClientStep
<1>4. ASSUME NEW r \in Runs, Break(r) \/ Signal(r) PROVE ClientStep(r)
  BY <1>4 DEF Break, Signal, ClientStep
<1>5. ASSUME Tick PROVE Client!Tick
  BY <1>5 DEF Tick
<1>6. ASSUME Publish PROVE UNCHANGED conn
  BY <1>6 DEF Publish
<1>7. ASSUME UNCHANGED get PROVE UNCHANGED conn
  BY <1>7 DEF get
<1>8. QED
  BY <1>1, <1>2, <1>3, <1>4, <1>5, <1>6, <1>7 DEF GetNext

(* A new request is sound, whatever its chain. *)
LEMMA FreshIsSound ==
  ASSUME NEW at \in {"none", "sent", "body"}, NEW hops \in Seq(Schemes),
         NEW cause \in {"none", "idle", "interrupted"}, at \in {"none", "sent"} => cause # "idle"
  PROVE  LET b == Client!Fresh(at, hops, cause)
         IN  /\ b \in Client!Connection
             /\ cause # "idle" => TimerInv(b)
             /\ b.at = at /\ b.hops = hops
  BY DEF Client!Fresh, Client!Connection, Client!InRead, TimerInv

(* The client follows a redirect only where the chain keeps its scheme. *)
LEMMA RedirectKeepsSchemes ==
  ASSUME NEW hops \in Seq(Schemes), SchemesKept(hops), NEW scheme \in Schemes,
         Client!CheckRedirect(hops, scheme)
  PROVE  /\ Append(hops, scheme) \in Seq(Schemes)
         /\ Len(Append(hops, scheme)) <= maxRedirects
         /\ SchemesKept(Append(hops, scheme))
  BY DEF SchemesKept, Client!CheckRedirect, Client!LeavesHttps

(***************************************************************************)
(* What the steps do to a request, one lemma per step that a Read or its   *)
(* timer takes.                                                            *)
(***************************************************************************)
(* A Read arms the timer and begins to wait. *)
LEMMA ReadArms ==
  ASSUME NEW b \in Client!Connection, TimerInv(b), b.at = "body"
  PROVE  LET d == [Client!Arm(b) EXCEPT !.at = "read", !.waited = 0]
         IN  d \in Client!Connection /\ TimerInv(d) /\ d.hops = b.hops
<1> DEFINE d == [Client!Arm(b) EXCEPT !.at = "read", !.waited = 0]
<1>1. d \in Client!Connection
  BY DEF Client!Arm, Client!Connection, Client!InRead, Client!Results
<1>2. /\ d.at = "read" /\ d.waited = 0 /\ d.armed = TRUE /\ d.left = IdleRead
      /\ d.pieces = b.pieces /\ d.firing = b.firing /\ d.cause = b.cause /\ d.stalled = b.stalled
      /\ d.hops = b.hops
  BY DEF Client!Arm, Client!Connection
<1> HIDE DEF d
<1>3. TimerInv(d)
  BY <1>2 DEF TimerInv, Client!InRead
<1>4. QED
  BY <1>1, <1>2, <1>3 DEF d

(* body.Read returns data. *)
LEMMA DataIsRead ==
  ASSUME NEW b \in Client!Connection, TimerInv(b), b.at = "read", b.pieces > 0
  PROVE  LET d == [b EXCEPT !.at = "data", !.pieces = @ - 1]
         IN  d \in Client!Connection /\ TimerInv(d) /\ d.hops = b.hops
<1> DEFINE d == [b EXCEPT !.at = "data", !.pieces = @ - 1]
<1>0. b.pieces - 1 \in 0 .. MaxPieces
  BY DEF Client!Connection
<1>1. d \in Client!Connection
  BY <1>0 DEF Client!Connection, Client!InRead, Client!Results
<1>2. /\ d.at = "data" /\ d.waited = b.waited /\ d.armed = b.armed /\ d.left = b.left
      /\ d.firing = b.firing /\ d.cause = b.cause /\ d.stalled = b.stalled /\ d.hops = b.hops
  BY DEF Client!Connection
<1> HIDE DEF d
<1>3. TimerInv(d)
  BY <1>2 DEF TimerInv, Client!InRead
<1>4. QED
  BY <1>1, <1>2, <1>3 DEF d

(* body.Read returns the end of the body, or an error. *)
LEMMA ReadEnds ==
  ASSUME NEW b \in Client!Connection, TimerInv(b), NEW at \in {"end", "broken"}, b.at = "read"
  PROVE  LET d == [b EXCEPT !.at = at]
         IN  d \in Client!Connection /\ TimerInv(d) /\ d.hops = b.hops
<1> DEFINE d == [b EXCEPT !.at = at]
<1>1. d \in Client!Connection
  BY DEF Client!Connection, Client!InRead, Client!Results
<1>2. /\ d.at = at /\ d.pieces = b.pieces /\ d.waited = b.waited /\ d.armed = b.armed
      /\ d.left = b.left /\ d.firing = b.firing /\ d.cause = b.cause /\ d.stalled = b.stalled
      /\ d.hops = b.hops
  BY DEF Client!Connection
<1> HIDE DEF d
<1>3. TimerInv(d)
  BY <1>2 DEF TimerInv, Client!InRead
<1>4. QED
  BY <1>1, <1>2, <1>3 DEF d

(* Read returns and its timer is stopped. *)
LEMMA TimerStops ==
  ASSUME NEW b \in Client!Connection, TimerInv(b), NEW at \in {"body", "idle", "eof", "error"}, at = "idle" => b.cause = "idle",
         b.at \in {"data", "end", "broken"}
  PROVE  LET d == [Client!Stop(b) EXCEPT !.waited = 0, !.at = at]
         IN  d \in Client!Connection /\ TimerInv(d) /\ d.hops = b.hops
<1> DEFINE d == [Client!Stop(b) EXCEPT !.waited = 0, !.at = at]
<1>1. d \in Client!Connection
  BY DEF Client!Stop, Client!Connection, Client!InRead, Client!Results
<1>2. /\ d.at = at /\ d.waited = 0 /\ d.armed = FALSE /\ d.pieces = b.pieces
      /\ d.left = b.left /\ d.firing = b.firing /\ d.cause = b.cause /\ d.stalled = b.stalled
      /\ d.hops = b.hops
  BY DEF Client!Stop, Client!Connection
<1> HIDE DEF d
<1>3. TimerInv(d)
  BY <1>2 DEF TimerInv, Client!InRead
<1>4. QED
  BY <1>1, <1>2, <1>3 DEF d

(* The timer is due, and its function is started. *)
LEMMA TimerFires ==
  ASSUME NEW b \in Client!Connection, TimerInv(b), b.armed, b.left = 0
  PROVE  LET d == [b EXCEPT !.armed = FALSE, !.firing = TRUE]
         IN  d \in Client!Connection /\ TimerInv(d) /\ d.hops = b.hops
<1> DEFINE d == [b EXCEPT !.armed = FALSE, !.firing = TRUE]
<1>1. d \in Client!Connection
  BY DEF Client!Connection, Client!InRead, Client!Results
<1>2. /\ d.armed = FALSE /\ d.firing = TRUE /\ d.at = b.at /\ d.pieces = b.pieces
      /\ d.waited = b.waited /\ d.left = b.left /\ d.cause = b.cause /\ d.stalled = b.stalled
      /\ d.hops = b.hops
  BY DEF Client!Connection
<1> HIDE DEF d
<1>3. TimerInv(d)
  BY <1>2 DEF TimerInv, Client!InRead, Client!Connection
<1>4. QED
  BY <1>1, <1>2, <1>3 DEF d

(* A redirect is not followed. *)
LEMMA RedirectEnds ==
  ASSUME NEW b \in Client!Connection, TimerInv(b), b.at = "sent"
  PROVE  LET d == [b EXCEPT !.at = "error", !.waited = 0]
         IN  d \in Client!Connection /\ TimerInv(d) /\ d.hops = b.hops
<1> DEFINE d == [b EXCEPT !.at = "error", !.waited = 0]
<1>1. d \in Client!Connection
  BY DEF Client!Connection, Client!InRead, Client!Results
<1>2. /\ d.at = "error" /\ d.waited = 0 /\ d.pieces = b.pieces /\ d.armed = b.armed
      /\ d.left = b.left /\ d.firing = b.firing /\ d.cause = b.cause /\ d.stalled = b.stalled
      /\ d.hops = b.hops
  BY DEF Client!Connection
<1> HIDE DEF d
<1>3. TimerInv(d)
  BY <1>2 DEF TimerInv, Client!InRead
<1>4. QED
  BY <1>1, <1>2, <1>3 DEF d

(* One step of a request keeps it sound. *)
LEMMA ClientInvStep ==
  ASSUME ClientInv, NEW c \in Runs, ClientStep(c)
  PROVE  ClientInv'
<1> DEFINE b == conn[c]
<1>1. ASSUME NEW d, conn' = [conn EXCEPT ![c] = d],
             d \in Client!Connection, TimerInv(d), ChainInv(d)
      PROVE  ClientInv'
  BY <1>1 DEF ClientInv
<1>2. ASSUME NEW d, conn' = [conn EXCEPT ![c] = d],
             d \in Client!Connection /\ TimerInv(d) /\ d.hops = b.hops
      PROVE  ClientInv'
  BY <1>1, <1>2 DEF ClientInv, ChainInv
<1>3. b \in Client!Connection /\ TimerInv(b) /\ ChainInv(b)
  BY DEF ClientInv
<1>4. b.hops \in Seq(Schemes) /\ b.cause \in {"none", "idle", "interrupted"}
  BY <1>3 DEF Client!Connection
<1>5. b.at = "sent" => b.cause # "idle"
  BY <1>3 DEF TimerInv
<1>6. ASSUME NEW at \in {"none", "sent", "body"}, NEW hops \in Seq(Schemes), Len(hops) <= maxRedirects,
             SchemesKept(hops), NEW cause \in {"none", "interrupted"},
             conn' = [conn EXCEPT ![c] = Client!Fresh(at, hops, cause)]
      PROVE  ClientInv'
  <2> DEFINE d == Client!Fresh(at, hops, cause)
  <2>1. d \in Client!Connection /\ TimerInv(d) /\ d.hops = hops
    BY <1>6, FreshIsSound
  <2>2. conn' = [conn EXCEPT ![c] = d]
    BY <1>6
  <2> HIDE DEF d
  <2>3. QED
    BY <1>1, <1>6, <2>1, <2>2 DEF ChainInv
<1>7. <<>> \in Seq(Schemes) /\ Len(<<>>) <= maxRedirects /\ SchemesKept(<<>>)
  BY DEF SchemesKept
<1>8. ASSUME NEW scheme \in Schemes, Client!Send(c, scheme, cancelled[c]) PROVE ClientInv'
  <2>1. <<scheme>> \in Seq(Schemes) /\ Len(<<scheme>>) <= maxRedirects /\ SchemesKept(<<scheme>>)
    BY DEF SchemesKept
  <2>2. QED
    BY <1>6, <1>8, <2>1 DEF Client!Send
<1>9. ASSUME NEW scheme \in Schemes, Client!Redirect(c, scheme) PROVE ClientInv'
  <2>1. CASE Client!CheckRedirect(b.hops, scheme)
    <3>1. conn' = [conn EXCEPT ![c] = Client!Fresh("sent", Append(b.hops, scheme), b.cause)]
      BY <1>9, <2>1 DEF Client!Redirect
    <3>2. /\ Append(b.hops, scheme) \in Seq(Schemes) /\ Len(Append(b.hops, scheme)) <= maxRedirects
          /\ SchemesKept(Append(b.hops, scheme))
      BY <1>3, <1>4, <2>1, RedirectKeepsSchemes DEF ChainInv
    <3>3. b.cause \in {"none", "interrupted"}
      BY <1>4, <1>5, <1>9 DEF Client!Redirect
    <3> HIDE DEF b
    <3>4. QED
      BY <1>6, <3>1, <3>2, <3>3
  <2>2. CASE ~Client!CheckRedirect(b.hops, scheme)
    <3>1. b.at = "sent" /\ conn' = [conn EXCEPT ![c] = [b EXCEPT !.at = "error", !.waited = 0]]
      BY <1>9, <2>2 DEF Client!Redirect
    <3> HIDE DEF b
    <3>2. QED
      BY <1>2, <1>3, <3>1, RedirectEnds
  <2>3. QED
    BY <2>1, <2>2
<1>10. CASE Client!Headers(c)
  <2>1. PICK n \in 0 .. MaxPieces :
          conn' = [conn EXCEPT ![c] = [Client!Fresh("body", <<>>, b.cause) EXCEPT !.pieces = n]]
    BY <1>10 DEF Client!Headers
  <2>2. b.cause \in {"none", "interrupted"}
    BY <1>4, <1>5, <1>10 DEF Client!Headers
  <2> DEFINE d == [Client!Fresh("body", <<>>, b.cause) EXCEPT !.pieces = n]
  <2>3. d \in Client!Connection /\ d.hops = <<>>
    BY <1>7, <2>2 DEF Client!Fresh, Client!Connection
  <2>4. TimerInv(d)
    BY <2>2 DEF Client!Fresh, TimerInv, Client!InRead
  <2> HIDE DEF d
  <2>5. QED
    BY <1>1, <1>7, <2>1, <2>3, <2>4 DEF ChainInv, d
<1>11. CASE Client!Read(c)
  <2>1. b.at = "body" /\ conn' = [conn EXCEPT ![c] = [Client!Arm(b) EXCEPT !.at = "read", !.waited = 0]]
    BY <1>11 DEF Client!Read
  <2> HIDE DEF b
  <2>2. QED
    BY <1>2, <1>3, <2>1, ReadArms
<1>12. CASE Client!Deliver(c)
  <2>1. CASE b.pieces > 0
    <3>1. b.at = "read" /\ conn' = [conn EXCEPT ![c] = [b EXCEPT !.at = "data", !.pieces = @ - 1]]
      BY <1>12, <2>1 DEF Client!Deliver
    <3> HIDE DEF b
    <3>2. QED
      BY <1>2, <1>3, <2>1, <3>1, DataIsRead
  <2>2. CASE ~(b.pieces > 0)
    <3>1. b.at = "read" /\ conn' = [conn EXCEPT ![c] = [b EXCEPT !.at = "end"]]
      BY <1>12, <2>2 DEF Client!Deliver
    <3> HIDE DEF b
    <3>2. QED
      BY <1>2, <1>3, <3>1, ReadEnds
  <2>3. QED
    BY <2>1, <2>2
<1>13. CASE Client!BreakOff(c)
  <2>1. b.at = "read" /\ conn' = [conn EXCEPT ![c] = [b EXCEPT !.at = "broken"]]
    BY <1>13 DEF Client!BreakOff
  <2> HIDE DEF b
  <2>2. QED
    BY <1>2, <1>3, <2>1, ReadEnds
<1>14. CASE Client!ReadReturns(c)
  <2> DEFINE at == CASE b.at = "data"      -> "body"
                     [] b.at # "data" /\ b.cause = "idle" -> "idle"
                     [] b.at = "end" /\ b.cause # "idle"  -> "eof"
                     [] b.at = "broken" /\ b.cause # "idle" -> "error"
  <2>1. /\ b.at \in {"data", "end", "broken"}
        /\ conn' = [conn EXCEPT ![c] = [Client!Stop(b) EXCEPT !.waited = 0, !.at = at]]
    BY <1>14 DEF Client!ReadReturns
  <2>2. at \in {"body", "idle", "eof", "error"} /\ (at = "idle" => b.cause = "idle")
    BY <2>1
  <2> HIDE DEF at, b
  <2>3. QED
    BY <1>2, <1>3, <2>1, <2>2, TimerStops
<1>15. CASE Client!Fire(c)
  <2>1. b.armed /\ b.left = 0 /\ conn' = [conn EXCEPT ![c] = [b EXCEPT !.armed = FALSE, !.firing = TRUE]]
    BY <1>15 DEF Client!Fire
  <2> HIDE DEF b
  <2>2. QED
    BY <1>2, <1>3, <2>1, TimerFires
<1>16. CASE Client!TimerFunction(c)
  <2>1. b.firing /\ conn' = [conn EXCEPT ![c] = Client!Cancelled([b EXCEPT !.firing = FALSE], "idle")]
    BY <1>16 DEF Client!TimerFunction
  <2> HIDE DEF b
  <2> DEFINE d == Client!Cancelled([b EXCEPT !.firing = FALSE], "idle")
  <2>2. d \in Client!Connection /\ d.hops = b.hops
    BY <1>3 DEF Client!Cancelled, Client!Connection
  <2>3. /\ d.at = b.at /\ d.armed = b.armed /\ d.left = b.left /\ d.waited = b.waited
        /\ d.stalled = b.stalled /\ ~d.firing
    BY <1>3 DEF Client!Cancelled, Client!Connection
  <2> HIDE DEF d
  <2>4. TimerInv(d)
    BY <1>3, <2>1, <2>3 DEF TimerInv
  <2>5. QED
    BY <1>2, <2>1, <2>2, <2>4 DEF d
<1>17. CASE Client!Interrupt(c)
  <2> DEFINE d == IF b.at = "none" THEN b ELSE Client!Cancelled(b, "interrupted")
  <2>1. conn' = [conn EXCEPT ![c] = d]
    BY <1>17 DEF Client!Interrupt
  <2> HIDE DEF b
  <2>2. d \in Client!Connection /\ d.hops = b.hops
    BY <1>3 DEF Client!Cancelled, Client!Connection
  <2>3. /\ d.at = b.at /\ d.armed = b.armed /\ d.left = b.left /\ d.waited = b.waited
        /\ d.stalled = b.stalled /\ d.firing = b.firing /\ d.cause \in {b.cause, "interrupted"}
    BY <1>3 DEF Client!Cancelled, Client!Connection
  <2> HIDE DEF d
  <2>4. TimerInv(d)
    BY <1>3, <2>3 DEF TimerInv
  <2>5. QED
    BY <1>2, <2>1, <2>2, <2>4
<1>18. CASE Client!Close(c)
  BY <1>6, <1>7, <1>18 DEF Client!Close, Client!Unused
<1>19. QED
  BY <1>8, <1>9, <1>10, <1>11, <1>12, <1>13, <1>14, <1>15, <1>16, <1>17, <1>18 DEF ClientStep

(* A tick of the clock keeps every request sound: the timer of a Read and *)
(* the time it has waited move together.                                  *)
LEMMA ClientInvTick == ClientInv /\ Client!Tick => ClientInv'
<1> SUFFICES ASSUME ClientInv, Client!Tick PROVE ClientInv'
  OBVIOUS
<1>1. conn' = [c \in Runs |-> Client!Elapsed(conn[c])]
  BY DEF Client!Tick
<1>2. ASSUME NEW b \in Client!Connection, TimerInv(b)
      PROVE  /\ Client!Elapsed(b) \in Client!Connection
             /\ TimerInv(Client!Elapsed(b))
             /\ Client!Elapsed(b).hops = b.hops
  <2> DEFINE d == Client!Elapsed(b)
             waits == b.at = "sent" \/ b.at \in Client!InRead
             limit == IF b.at = "sent" THEN ResponseHeader ELSE IdleRead
             waited == IF waits /\ b.waited < limit THEN b.waited + 1 ELSE b.waited
             left == IF b.armed /\ b.left > 0 THEN b.left - 1 ELSE b.left
             stalled == b.stalled \/ (b.at \in Client!InRead /\ waited = IdleRead)
  <2>1. b.waited \in Nat /\ b.left \in Nat /\ waited \in Nat /\ left \in Nat /\ stalled \in BOOLEAN
    BY <1>2 DEF Client!Connection
  <2>2. d = [b EXCEPT !.waited = waited, !.left = left, !.stalled = stalled]
    BY DEF Client!Elapsed
  <2>3. ASSUME b.armed PROVE left + waited = IdleRead
    <3>1. b.at \in Client!InRead /\ b.left + b.waited = IdleRead
      BY <1>2, <2>3 DEF TimerInv
    <3>2. waits /\ limit = IdleRead
      BY <3>1 DEF Client!InRead
    <3> HIDE DEF waits, limit
    <3>3. CASE b.left > 0
      BY <2>1, <2>3, <3>1, <3>2, <3>3
    <3>4. CASE b.left = 0
      BY <2>1, <2>3, <3>1, <3>2, <3>4
    <3>5. QED
      BY <2>1, <3>3, <3>4
  <2>4. b.at \in Client!InRead /\ waited = IdleRead => stalled
    OBVIOUS
  <2> HIDE DEF d, waits, limit, waited, left
  <2>5. b.stalled => stalled
    OBVIOUS
  <2> HIDE DEF stalled
  <2>6. d \in Client!Connection
    BY <2>1, <2>2 DEF Client!Connection
  <2>7. /\ d.at = b.at /\ d.armed = b.armed /\ d.firing = b.firing /\ d.cause = b.cause
        /\ d.hops = b.hops /\ d.waited = waited /\ d.left = left /\ d.stalled = stalled
    BY <2>2 DEF Client!Connection
  <2>8. TimerInv(d)
    BY <1>2, <2>3, <2>4, <2>5, <2>7 DEF TimerInv
  <2>9. QED
    BY <2>6, <2>7, <2>8 DEF d
<1>3. QED
  BY <1>1, <1>2 DEF ClientInv, ChainInv

(* No request has been made in an initial state. *)
LEMMA ClientInvInit == GetInit => ClientInv
<1> SUFFICES ASSUME GetInit PROVE ClientInv
  OBVIOUS
<1>1. conn = [c \in Runs |-> Client!Unused]
  BY DEF GetInit, Client!Init
<1>2. <<>> \in Seq(Schemes) /\ Len(<<>>) <= maxRedirects /\ SchemesKept(<<>>)
  BY DEF SchemesKept
<1>3. /\ Client!Unused \in Client!Connection /\ TimerInv(Client!Unused)
      /\ Client!Unused.hops = <<>>
  BY <1>2, FreshIsSound DEF Client!Unused
<1>4. QED
  BY <1>1, <1>2, <1>3 DEF ClientInv, ChainInv

(* The inductive invariant of the client holds in every state. *)
THEOREM ClientInvariance == GetSpec => []ClientInv
<1>1. ClientInv /\ UNCHANGED conn => ClientInv'
  BY DEF ClientInv
<1>2. ClientInv /\ [GetNext]_get => ClientInv'
  BY <1>1, RequestSteps, ClientInvStep, ClientInvTick
<1>3. QED
  BY <1>2, ClientInvInit, PTL DEF GetSpec

(* Type correctness of HttpGet: of Fetch, which it implements, and of the *)
(* requests, whose chains are no longer than maxRedirects.                *)
THEOREM GetTypeCorrect == GetSpec => []GetTypeOK
<1>1. ClientInv => Client!TypeOK
  BY DEF ClientInv, TimerInv, ChainInv, Client!TypeOK
<1>2. Client!TypeOK /\ TypeOK => GetTypeOK
  BY DEF GetTypeOK
<1>3. QED
  BY <1>1, <1>2, ClientInvariance, GetImplementsFetch, TypeCorrect, PTL

(* A body is given up as idle only when one Read of it lasted for the whole *)
(* limit, also when the timer's function ran late, under a later Read.      *)
THEOREM IdleMeansWaited == GetSpec => []IdleReadWaited
<1>1. ClientInv => IdleReadWaited
  BY DEF ClientInv, TimerInv, IdleReadWaited
<1>2. QED
  BY <1>1, ClientInvariance, PTL

(* No chain of redirects leaves https, whatever the servers answer. *)
THEOREM NeverLeavesHttps == GetSpec => []HttpsIsKept
<1>1. ClientInv => HttpsIsKept
  BY DEF ClientInv, ChainInv, SchemesKept, HttpsIsKept
<1>2. QED
  BY <1>1, ClientInvariance, PTL

(* The promise of Source.Get holds with the http client under it. *)
THEOREM GetKeepsPromise == GetSpec => ImplementsGet
  BY GetImplementsFetch, FetchImplementsGet, PTL
=============================================================================
