------------------------------ MODULE CloudServer ------------------------------
(***************************************************************************)
(* The server process and its gate: main starts the process, connects it to *)
(* PostgreSQL, serves until a signal and then waits a limited time for the  *)
(* requests in flight; a request that needs a device passes requireDevice,  *)
(* and devices come by POST /v1/devices/register.  What a handler does      *)
(* behind the gate is the subject of the other modules.                     *)
(*                                                                          *)
(* External: the operator, who starts and signals the process and revokes a *)
(* device by setting its revoked_at; clients, who keep the token that their *)
(* registration returned; PostgreSQL, which keeps the rows while the        *)
(* process is down.  Tokens are random and compared by their digests, so a  *)
(* device stands for its token.                                             *)
(***************************************************************************)
EXTENDS FiniteSets

CONSTANTS
  Device,         \* the devices that registrations may create
  Req,            \* requests that the server may handle at the same time
  NoToken,        \* no bearer token, or one that was never issued
  DatabaseFails   \* whether PostgreSQL may fail

ASSUME ServerAssumption == NoToken \notin Device /\ DatabaseFails \in BOOLEAN

VARIABLES
  phase,          \* where main is
  registry,       \* the table devices
  issued,         \* the devices whose token reached a client
  pc, job         \* the requests in flight

requests == <<pc, job>>
serverVars == <<phase, registry, issued, requests>>

Phases == {"down", "loading", "connecting", "listening", "serving", "draining"}
NoJob == [token |-> NoToken, revoked |-> FALSE]

ServerTypeOK ==
  /\ phase \in Phases
  /\ registry \in [Device -> {"absent", "active", "revoked"}]
  /\ issued \subseteq Device
  /\ pc \in [Req -> {"idle", "register", "registered", "gate", "handle"}]
  /\ job \in [Req -> [token: Device \cup {NoToken}, revoked: BOOLEAN]]

ServerInit ==
  /\ phase = "down"
  /\ registry = [d \in Device |-> "absent"]
  /\ issued = {}
  /\ pc = [r \in Req |-> "idle"]
  /\ job = [r \in Req |-> NoJob]

Busy(r) == pc[r] # "idle"
Listening == phase \in {"listening", "serving"}
\* A connection that was accepted before the listeners closed may still bring a
\* request while Shutdown waits.
Accepting == Listening \/ phase = "draining"
-----------------------------------------------------------------------------
(* main *)

\* The process ends, and with it every request in flight.
End ==
  /\ phase' = "down"
  /\ pc' = [r \in Req |-> "idle"]
  /\ job' = [r \in Req |-> NoJob]
  /\ UNCHANGED <<registry, issued>>

Advance(from, to) ==
  /\ phase = from /\ phase' = to
  /\ UNCHANGED <<registry, issued, requests>>

Start == Advance("down", "loading")
ConfigLoaded == Advance("loading", "connecting")
Connected == Advance("connecting", "listening")
\* signal.Notify comes after the goroutine that listens.
Notified == Advance("listening", "serving")

ConfigRefused == phase = "loading" /\ End
\* The pool or the ping fails, or ten seconds pass.
NotConnected == phase = "connecting" /\ End
\* ListenAndServe returns an error: os.Exit in the goroutine.
ListenFails == Listening /\ End

\* Before signal.Notify a signal ends the process at once.
Signal ==
  \/ phase \in {"loading", "connecting", "listening"} /\ End
  \/ Advance("serving", "draining")

\* server.Shutdown: the listeners are closed, the handlers go on.
Drained == phase = "draining" /\ (\A r \in Req : ~ Busy(r)) /\ End

\* Variant, never used by ServerNext: Shutdown waits without a deadline.
NoDeadline == FALSE /\ End

\* Ten seconds have passed, handlers still run.
DeadlineExpires == phase = "draining" /\ (\E r \in Req : Busy(r)) /\ End

Kill == phase # "down" /\ End
-----------------------------------------------------------------------------
(* Requests *)

Goto(r, stage) == pc' = [pc EXCEPT ![r] = stage]
Reply(r) == Goto(r, "idle") /\ job' = [job EXCEPT ![r] = NoJob]

Arrive(r, stage, token) ==
  /\ Accepting /\ pc[r] = "idle"
  /\ Goto(r, stage)
  /\ job' = [job EXCEPT ![r] = [token |-> token,
                                revoked |-> token \in Device /\ registry[token] = "revoked"]]
  /\ UNCHANGED <<phase, registry, issued>>

\* Variant, never used by ServerNext: the reply forgets whose token it returns.
RegisterForgets(r, d) ==
  /\ pc[r] = "register" /\ registry[d] = "absent"
  /\ registry' = [registry EXCEPT ![d] = "active"]
  /\ Goto(r, "registered")
  /\ UNCHANGED <<phase, issued, job>>

\* RegisterDevice: the row is inserted, and then the token is returned.
Register(r, d) ==
  /\ pc[r] = "register" /\ registry[d] = "absent"
  /\ registry' = [registry EXCEPT ![d] = "active"]
  /\ Goto(r, "registered")
  /\ job' = [job EXCEPT ![r].token = d]
  /\ UNCHANGED <<phase, issued>>

RegisterAnswers(r) ==
  /\ pc[r] = "registered"
  /\ issued' = issued \cup {job[r].token}
  /\ Reply(r)
  /\ UNCHANGED <<phase, registry>>

\* Variant, never used by ServerNext: the error of the insert is overlooked.
RegisterOverlooks(r) ==
  /\ pc[r] = "register"
  /\ issued' \in {issued \cup {d} : d \in Device}
  /\ Reply(r)
  /\ UNCHANGED <<phase, registry>>

\* 400 for a registration without a name, 500 when the insert fails.
RegisterFails(r) ==
  /\ pc[r] = "register"
  /\ Reply(r)
  /\ UNCHANGED <<phase, registry, issued>>

\* 500 although the row was committed, or a reply that does not arrive.
RegisterLost(r) ==
  /\ DatabaseFails
  /\ pc[r] = "registered"
  /\ Reply(r)
  /\ UNCHANGED <<phase, registry, issued>>

\* Variant, never used by ServerNext: revoked_at is not looked at.
PassesKnown(token) == token \in Device /\ registry[token] # "absent"

\* requireDevice: the row with the digest of the token is not revoked.
Passes(token) == token \in Device /\ registry[token] = "active"

Admit(r) ==
  /\ pc[r] = "gate" /\ Passes(job[r].token)
  /\ Goto(r, "handle")
  /\ UNCHANGED <<phase, registry, issued, job>>

\* 401
TurnAway(r) ==
  /\ pc[r] = "gate" /\ ~ Passes(job[r].token)
  /\ Reply(r)
  /\ UNCHANGED <<phase, registry, issued>>

\* 503, for revoked tokens too: the row could not be read.
GateFails(r) ==
  /\ DatabaseFails
  /\ pc[r] = "gate"
  /\ Reply(r)
  /\ UNCHANGED <<phase, registry, issued>>

\* The handler behind the gate has done its work; the gate is not asked again.
Handle(r) ==
  /\ pc[r] = "handle"
  /\ Reply(r)
  /\ UNCHANGED <<phase, registry, issued>>

Revoke(d) ==
  /\ registry[d] = "active"
  /\ registry' = [registry EXCEPT ![d] = "revoked"]
  /\ UNCHANGED <<phase, issued, requests>>
-----------------------------------------------------------------------------
Main == \/ Start \/ ConfigLoaded \/ ConfigRefused \/ Connected \/ NotConnected
        \/ Notified \/ ListenFails \/ Signal \/ Drained \/ DeadlineExpires \/ Kill

Progress(r) ==
  \/ \E d \in Device : Register(r, d)
  \/ RegisterAnswers(r) \/ RegisterFails(r) \/ RegisterLost(r)
  \/ Admit(r) \/ TurnAway(r) \/ GateFails(r) \/ Handle(r)

Requests ==
  \E r \in Req :
    \/ Arrive(r, "register", NoToken)
    \/ \E token \in issued \cup {NoToken} : Arrive(r, "gate", token)
    \/ Progress(r)

ServerNext == Main \/ Requests \/ \E d \in Device : Revoke(d)

\* The runtime schedules main, and its timers fire.
MainFairness == WF_serverVars(Drained \/ DeadlineExpires)
\* A handler ends: every call it makes has a deadline or is answered.
HandlerFairness == \A r \in Req : WF_serverVars(Progress(r))

ServerSafe == ServerInit /\ [][ServerNext]_serverVars
-----------------------------------------------------------------------------
(* Properties *)

\* Behind the gate are requests of registered devices only, and none that arrived
\* after the revocation of its device, whatever restarts and failures there were.
\* A device that was revoked meanwhile may still have a request there.
GateHolds ==
  \A r \in Req : pc[r] = "handle" =>
    /\ job[r].token \in issued
    /\ registry[job[r].token] # "absent"
    /\ ~ job[r].revoked

\* A token that a client was given is known to every later process: the row comes
\* before the reply, and an error of the insert never comes with a token.
IssuedIsRegistered == \A d \in issued : registry[d] # "absent"

\* docs/product_spec_v1.3.md: after the revocation every request is refused.
\* Requests that had passed the gate before finish, if handlers do, and then there
\* is silence, restarts included.
RevocationTakesHold ==
  HandlerFairness =>
    \A d \in Device :
      registry[d] = "revoked" ~>
        [](\A r \in Req : ~ (pc[r] = "handle" /\ job[r].token = d))

\* A process that was told to stop does stop, though handlers may never end.
StopEnds == phase = "draining" ~> phase = "down"
=============================================================================
