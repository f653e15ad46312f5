------------------------------ MODULE HttpGet -------------------------------
(***************************************************************************)
(* Fetch on top of HttpClient: the requests and transfers of a Get over    *)
(* http are those of the client, so that what Fetch takes for granted, a   *)
(* stalled request ends, is what the timers of the client bring about.     *)
(* Power losses are left to Fetch.                                         *)
(***************************************************************************)
EXTENDS Fetch

CONSTANTS Schemes, ResponseHeader, IdleRead, maxRedirects, MaxPieces

ASSUME ClientAssumption ==
  /\ Schemes \subseteq {"http", "https"}
  /\ ResponseHeader \in Nat \ {0} /\ IdleRead \in Nat \ {0}
  /\ maxRedirects \in Nat \ {0} /\ MaxPieces \in Nat

VARIABLE conn

Client == INSTANCE HttpClient WITH Callers <- Runs

get == <<vars, conn>>

GetInit == Init /\ Client!Init

OverHttp(r) == backend = "http" /\ pc[r] \in {"open", "copy", "vouch"}

(* Steps without the client. *)
Elsewhere(r) == LocalStep(r) /\ ~OverHttp(r) /\ UNCHANGED conn
Wait(r)      == (Begin(r) \/ TransferStep(r)) /\ ~OverHttp(r) /\ UNCHANGED conn

(* getRaw and verifySidecar send their requests; a context that is done *)
(* fails the request.                                                   *)
Send(r) ==
  /\ OverHttp(r) /\ pc[r] # "copy"
  /\ \E scheme \in Schemes : Client!Send(r, scheme, cancelled[r])
  /\ UNCHANGED vars

Redirect(r) == (\E scheme \in Schemes : Client!Redirect(r, scheme)) /\ UNCHANGED vars

(* The response to the request for the object, or for the sidecar. *)
Answer(r) ==
  /\ OverHttp(r)
  /\ Client!Headers(r)
  /\ \/ OpenObject(r)
     \/ pc[r] = "vouch" /\ sidecar # NoVersion /\ UNCHANGED vars

Deliver(r) == Client!Deliver(r) /\ UNCHANGED vars

ReadStep(r) ==
  /\ Client!Read(r) \/ Client!BreakOff(r) \/ Client!ReadReturns(r)
  /\ UNCHANGED vars

TimerStep(r) == (Client!Fire(r) \/ Client!TimerFunction(r)) /\ UNCHANGED vars

Tick == Client!Tick /\ UNCHANGED vars

(* The last Read of a body has reported its end. *)
EndOfBody(r) ==
  /\ OverHttp(r) /\ conn[r].at = "eof"
  /\ CopyEnds(r) \/ ReadSidecar(r)
  /\ Client!Close(r)

(* The client gives a request up. *)
GiveUp(r) ==
  /\ conn[r].at = "idle" \/ Client!HeadersLate(r)
  /\ IdleTimeout(r)
  /\ Client!Close(r)

(* A request on a context that is done, or a sidecar that is not there. *)
RefuseOverHttp(r) ==
  /\ OverHttp(r)
  /\ \/ cancelled[r] /\ conn[r].at \in {"none", "sent", "error"}
     \/ cancelled[r] /\ conn[r].at = "eof" /\ pc[r] = "vouch"
     \/ pc[r] = "vouch" /\ sidecar = NoVersion /\ conn[r].at \in {"sent", "eof"}
  /\ Refuse(r)
  /\ Client!Close(r)

(* A redirect that is not followed. *)
RedirectRefused(r) == OverHttp(r) /\ conn[r].at = "error" /\ Fault(r) /\ Client!Close(r)

(* The network or the disk fails, or the process is killed. *)
Break(r) == (Fault(r) \/ Kill(r)) /\ Client!Close(r)

Signal(r) == Cancel(r) /\ Client!Interrupt(r)

Publish == (\E v \in Versions : PublishObject(v) \/ PublishSidecar(v)) /\ UNCHANGED conn

(* What the program, the scheduler and the clock do without the publisher. *)
GetStep(r) ==
  \/ Elsewhere(r) \/ Send(r) \/ ReadStep(r) \/ GiveUp(r) \/ RefuseOverHttp(r) \/ RedirectRefused(r)

GetNext ==
  \/ \E r \in Runs :
       \/ GetStep(r) \/ TimerStep(r) \/ EndOfBody(r)
       \/ Wait(r) \/ Redirect(r) \/ Answer(r) \/ Deliver(r)
       \/ Break(r) \/ Signal(r)
  \/ Tick \/ Publish

GetSpec ==
  /\ GetInit /\ [][GetNext]_get
  /\ WF_get(Tick)
  /\ \A r \in Runs : WF_get(GetStep(r)) /\ WF_get(TimerStep(r)) /\ WF_get(EndOfBody(r))

-----------------------------------------------------------------------------
(* The types of the client and of Fetch. *)
GetTypeOK == TypeOK /\ Client!TypeOK

(* "Read arms the timer for the duration of the call only, so the time the  *)
(* caller spends writing the data to disk does not count as idle": a body   *)
(* is given up as idle only when one Read of it lasted for the whole limit, *)
(* also when the timer's function runs late, under another Read.            *)
IdleReadWaited == \A c \in Runs : conn[c].at = "idle" => conn[c].stalled

(* "A redirect to plain http would hand the download to whoever controls    *)
(* the network path": what is requested over http was reached without any   *)
(* https before it.                                                         *)
HttpsIsKept ==
  \A c \in Runs : \A i, j \in DOMAIN conn[c].hops :
    i < j /\ conn[c].hops[i] = "https" => conn[c].hops[j] = "https"

(* Every step of the composition is a step of Fetch, and the timers of the  *)
(* client, with the clock, give Fetch the fairness it asks for: that a Get  *)
(* over http waits no longer than the client lets it.                       *)
ImplementsFairFetch == FairSpec
=============================================================================
