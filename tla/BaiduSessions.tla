----------------------------- MODULE BaiduSessions -----------------------------
(***************************************************************************)
(* The authorization sessions by which a Baidu account comes to the cloud:  *)
(* a device creates a session, a user consents at Baidu, for the code flow  *)
(* Baidu sends the browser to the public callback, and a device completes   *)
(* the session: the server reads it, redeems its code, asks Baidu who the   *)
(* user is, encrypts the token and stores it, with other requests between   *)
(* any two of these steps and a failure at each of them.                    *)
(*                                                                          *)
(* Baidu is external, known by how the OAuth client uses it: a code is      *)
(* redeemed once, and Baidu may refuse one for reasons of its own.  A       *)
(* callback is whatever somebody sends who knows the state of a session,    *)
(* Baidu's redirect or not, at any time and as often as one likes; only a   *)
(* code that was issued for one session is not brought to another.          *)
(*                                                                          *)
(* The transaction that completes a session is one step: its account part   *)
(* is BaiduAccounts, and its last statement locks the session row, for      *)
(* which callbacks wait.                                                    *)
(***************************************************************************)
EXTENDS BaiduReplies, Sequences

CONSTANTS
  Session, Uid, Req,
  Key,              \* RSA keys and wrapping keys that pass the checks
  BadKey,           \* a text that is not such a key
  Asked,            \* what clients ask new sessions to be
  Offers,           \* the key and the hint that completions bring
  StartReplies,     \* the expires_in of Baidu's replies with device codes
  CallbackLifetime, \* of a session of the code flow, ten minutes in the code
  Stray,            \* a code that Baidu never issued
  MayFail,          \* whether calls to Baidu and the database may fail
  MaxCode,          \* bound: the codes that Baidu issues
  MaxClock,         \* bound: the last instant of the clock
  None              \* an empty text

\* "unset" stands for an empty text.
Flow == {"device_code", "authorization_code"}
Method == {"password", "rsa"}

ASSUME SessionsAssumption ==
  /\ BadKey \notin Key /\ None \notin Key \cup {BadKey} \cup Uid
  /\ Asked \subseteq [flow: Flow \cup {"unset", "other"}, method: Method \cup {"unset", "other"},
                      key: Key \cup {BadKey, None}, hint: Key \cup {None}]
  /\ Offers \subseteq [key: Key \cup {BadKey, None}, hint: Key \cup {None}]
  /\ StartReplies \subseteq Scalar /\ CallbackLifetime \in Nat
  /\ MaxCode \in Nat /\ MaxClock \in Nat /\ MayFail \in BOOLEAN

VARIABLES
  sessions,         \* baidu_auth_sessions: id -> row
  accounts,         \* uid -> the envelope in baidu_accounts
  clock,
  codes,            \* at Baidu: the codes issued so far, 1, 2, ...
  pc, job,          \* the completions in flight
  lost              \* history: codes whose token was given up

service == <<sessions, accounts>>
requests == <<pc, job>>
vars == <<service, clock, codes, requests, lost>>

Code == 1..MaxCode
Status == {"pending", "authorized", "failed", "completed"}
Row == [flow: Flow, method: Method, key: Key \cup {BadKey, None}, hint: Key \cup {None},
        status: Status, device_code: Code \cup {None},
        authorization_code: Code \cup {Stray, None},
        expires: Int, account: Uid \cup {None}]
Envelope == [code: Code, method: Method, key: Key, hint: Key \cup {None}]
Issued == [session: Session, uid: Uid \cup {None}, spent: BOOLEAN]
Stages == {"idle", "read", "answer", "exchange", "userinfo", "store"}
NoJob == [session |-> None, offer |-> None, code |-> None, envelope |-> None, since |-> 0]
Job == [session: Session, offer: Offers, code: Code \cup {Stray, None},
        envelope: Envelope \cup {None}, since: Nat]

ASSUME NoneAssumption ==
  /\ None \notin Code \cup Row \cup Envelope \cup Status \cup {Stray, "expired"}
  /\ Stray \notin Code

SessionsTypeOK ==
  /\ sessions \in [Session -> Row \cup {None}]
  /\ accounts \in [Uid -> Envelope \cup {None}]
  /\ clock \in 0..MaxClock
  /\ codes \in Seq(Issued) /\ Len(codes) <= MaxCode
  /\ pc \in [Req -> Stages]
  /\ job \in [Req -> Job \cup {NoJob}]
  /\ lost \subseteq Code

SessionsInit ==
  /\ sessions = [s \in Session |-> None]
  /\ accounts = [u \in Uid |-> None]
  /\ clock = 0
  /\ codes = <<>>
  /\ pc = [r \in Req |-> "idle"]
  /\ job = [r \in Req |-> NoJob]
  /\ lost = {}

Expired(s) == clock > sessions[s].expires
-----------------------------------------------------------------------------
(* POST /v1/baidu/auth/sessions *)

FlowOf(asked) == IF asked.flow = "unset" THEN "device_code" ELSE asked.flow
MethodOf(asked) == IF asked.method = "unset" THEN "password" ELSE asked.method

\* Only the RSA method has its key checked here; a wrapping key comes later.
Creatable(asked) ==
  /\ FlowOf(asked) \in Flow
  /\ \/ MethodOf(asked) = "password"
     \/ MethodOf(asked) = "rsa" /\ asked.key \in Key

NewRow(asked, deviceCode, expires) ==
  [flow |-> FlowOf(asked), method |-> MethodOf(asked), key |-> asked.key, hint |-> asked.hint,
   status |-> "pending", device_code |-> deviceCode, authorization_code |-> None,
   expires |-> expires, account |-> None]

\* Baidu issues a device code with a lifetime of its own; of a reply that cannot
\* be read nothing remains (502).
CreateForDevice(s, asked) ==
  /\ sessions[s] = None
  /\ Creatable(asked) /\ FlowOf(asked) = "device_code"
  /\ Len(codes) < MaxCode
  /\ codes' = Append(codes, [session |-> s, uid |-> None, spent |-> FALSE])
  /\ \E reply \in StartReplies :
       /\ Decodes(reply)
       /\ sessions' = [sessions EXCEPT ![s] =
            NewRow(asked, Len(codes) + 1, clock + StartSeconds(reply))]
  /\ UNCHANGED <<accounts, clock, requests, lost>>

CreateForBrowser(s, asked) ==
  /\ sessions[s] = None
  /\ Creatable(asked) /\ FlowOf(asked) = "authorization_code"
  /\ sessions' = [sessions EXCEPT ![s] = NewRow(asked, None, clock + CallbackLifetime)]
  /\ UNCHANGED <<accounts, clock, codes, requests, lost>>

\* GET /v1/baidu/auth/sessions/{id}: the status that a poll is shown now.
Shown(s) == IF sessions[s] = None THEN None
            ELSE IF sessions[s].status = "pending" /\ Expired(s) THEN "expired"
            ELSE sessions[s].status
-----------------------------------------------------------------------------
(* Baidu and its users *)

ApproveDevice(c, u) ==
  /\ codes[c].uid = None
  /\ codes' = [codes EXCEPT ![c].uid = u]
  /\ UNCHANGED <<service, clock, requests, lost>>

\* Only the authorization URL of the code flow shows the state of a session.
ShowsState(s) == sessions[s] # None /\ sessions[s].flow = "authorization_code"

\* The user follows the authorization URL.
Authorize(s, u) ==
  /\ ShowsState(s)
  /\ Len(codes) < MaxCode
  /\ codes' = Append(codes, [session |-> s, uid |-> u, spent |-> FALSE])
  /\ UNCHANGED <<service, clock, requests, lost>>

Tick ==
  /\ clock < MaxClock
  /\ clock' = clock + 1
  /\ UNCHANGED <<service, codes, requests, lost>>
-----------------------------------------------------------------------------
(* GET /v1/baidu/oauth/callback: MarkBaiduAuthSessionCallback *)

\* Variant, never used by SessionsNext: a callback starts the session anew.
CallbackResets(s, code, error) ==
  /\ code # None \/ error
  /\ sessions' = [sessions EXCEPT ![s].authorization_code = code, ![s].account = None]
  /\ UNCHANGED <<accounts, clock, codes, requests, lost>>

\* The session with the state is updated whatever its status: its code is
\* replaced, by none if the callback has none.
Callback(s, code, error) ==
  /\ sessions' = [sessions EXCEPT ![s].authorization_code = code,
                                  ![s].status = IF error THEN "failed"
                                                ELSE IF code # None THEN "authorized" ELSE @]
  /\ UNCHANGED <<accounts, clock, codes, requests, lost>>

\* Baidu's redirect, with a code or with an error, or one that was made by hand:
\* any code that may come with this state, or none, and an error or none.
CallbackArrives(s) ==
  /\ ShowsState(s)
  /\ \E code \in {c \in DOMAIN codes : codes[c].session = s} \cup {Stray, None}, error \in BOOLEAN :
       Callback(s, code, error)
-----------------------------------------------------------------------------
(* POST /v1/baidu/auth/sessions/{id}/complete, by any registered device *)

Goto(r, stage) == pc' = [pc EXCEPT ![r] = stage]
Reply(r) == Goto(r, "idle") /\ job' = [job EXCEPT ![r] = NoJob]
GiveUp(r) == lost' = lost \cup {job[r].code}

Complete(r, s, offer) ==
  /\ pc[r] = "idle" /\ sessions[s] # None
  /\ Goto(r, "read")
  /\ job' = [job EXCEPT ![r] = [NoJob EXCEPT !.session = s, !.offer = offer]]
  /\ UNCHANGED <<service, clock, codes, lost>>

Finished(s) == sessions[s].status = "completed" /\ sessions[s].account # None

\* A session that is completed is answered with its account.
ReadFinished(r) ==
  /\ pc[r] = "read" /\ Finished(job[r].session)
  /\ Goto(r, "answer")
  /\ UNCHANGED <<service, clock, codes, job, lost>>

Answer(r) ==
  /\ pc[r] = "answer"
  /\ Reply(r)
  /\ UNCHANGED <<service, clock, codes, lost>>

\* 410 session_expired
ReadExpired(r) ==
  /\ pc[r] = "read" /\ ~ Finished(job[r].session) /\ Expired(job[r].session)
  /\ Reply(r)
  /\ UNCHANGED <<service, clock, codes, lost>>

CodeOf(s) == IF sessions[s].flow = "device_code" THEN sessions[s].device_code
             ELSE sessions[s].authorization_code

\* Variant, never used by SessionsNext: only pending sessions expire.
ReadOpenLate(r) ==
  LET s == job[r].session
  IN /\ pc[r] = "read" /\ ~ Finished(s)
     /\ Goto(r, "exchange")
     /\ job' = [job EXCEPT ![r].code = CodeOf(s), ![r].since = clock]
     /\ UNCHANGED <<service, clock, codes, lost>>

ReadOpen(r) ==
  LET s == job[r].session
  IN /\ pc[r] = "read" /\ ~ Finished(s) /\ ~ Expired(s)
     /\ Goto(r, "exchange")
     /\ job' = [job EXCEPT ![r].code = CodeOf(s), ![r].since = clock]
     /\ UNCHANGED <<service, clock, codes, lost>>

\* 409 authorization_pending: there is no code, or Baidu refuses it.
ExchangeRefused(r) ==
  /\ pc[r] = "exchange"
  /\ Reply(r)
  /\ UNCHANGED <<service, clock, codes, lost>>

Redeem(c) == /\ c \in DOMAIN codes
             /\ codes[c].uid # None /\ ~ codes[c].spent
             /\ codes' = [codes EXCEPT ![c].spent = TRUE]

Exchange(r) ==
  /\ pc[r] = "exchange"
  /\ Redeem(job[r].code)
  /\ Goto(r, "userinfo")
  /\ UNCHANGED <<service, clock, job, lost>>

\* Baidu redeems the code, its answer does not arrive or cannot be read: 409.
ExchangeLost(r) ==
  /\ MayFail
  /\ pc[r] = "exchange"
  /\ Redeem(job[r].code)
  /\ GiveUp(r) /\ Reply(r)
  /\ UNCHANGED <<service, clock>>

\* encryptBaiduTokenForSession: a wrapping key comes with the request, an RSA key
\* and a hint from the request or else, each for itself, from the session.
Encrypted(r) ==
  LET row == sessions[job[r].session]
      offer == job[r].offer
      key == IF row.method = "rsa" /\ offer.key = None THEN row.key ELSE offer.key
      hint == IF row.method = "password" THEN None
              ELSE IF offer.hint # None THEN offer.hint ELSE row.hint
  IN [code |-> job[r].code, method |-> row.method, key |-> key, hint |-> hint]

\* Baidu says whose token it is, and the token is encrypted.
Identify(r) ==
  /\ pc[r] = "userinfo"
  /\ Encrypted(r).key \in Key
  /\ Goto(r, "store")
  /\ job' = [job EXCEPT ![r].envelope = Encrypted(r)]
  /\ UNCHANGED <<service, clock, codes, lost>>

\* Variant, never used by SessionsNext: a bad key is not answered.
IdentifyFailsOnce(r) ==
  /\ pc[r] = "userinfo"
  /\ MayFail /\ Encrypted(r).key \in Key
  /\ GiveUp(r) /\ Reply(r)
  /\ UNCHANGED <<service, clock, codes>>

\* 400 invalid_encryption, or 502 if Baidu does not say.
IdentifyFails(r) ==
  /\ pc[r] = "userinfo"
  /\ MayFail \/ Encrypted(r).key \notin Key
  /\ GiveUp(r) /\ Reply(r)
  /\ UNCHANGED <<service, clock, codes>>

\* Variant, never used by SessionsNext: the authorization code stays.
StoreKeepsCode(r) ==
  LET s == job[r].session
      u == codes[job[r].code].uid
  IN /\ accounts' = [accounts EXCEPT ![u] = job[r].envelope]
     /\ sessions' = [sessions EXCEPT ![s].status = "completed", ![s].account = u,
                                     ![s].device_code = None]

\* Variant, never used by SessionsNext: the user is the one whose code the session
\* has by now.
StoreForCurrent(r) ==
  LET s == job[r].session
      c == IF CodeOf(s) \in DOMAIN codes THEN CodeOf(s) ELSE job[r].code
      u == codes[c].uid
  IN /\ accounts' = [accounts EXCEPT ![u] = job[r].envelope]
     /\ sessions' = [sessions EXCEPT ![s].status = "completed", ![s].account = u,
                                     ![s].device_code = None, ![s].authorization_code = None]

\* CompleteBaiduAuthSession looks at neither the status nor the expiry again.
Store(r) ==
  LET s == job[r].session
      u == codes[job[r].code].uid
  IN /\ accounts' = [accounts EXCEPT ![u] = job[r].envelope]
     /\ sessions' = [sessions EXCEPT ![s].status = "completed", ![s].account = u,
                                     ![s].device_code = None, ![s].authorization_code = None]

\* The commit, acknowledged or not: the replies differ, the tables do not.
StoreCommits(r) ==
  /\ pc[r] = "store"
  /\ Store(r) /\ Reply(r)
  /\ UNCHANGED <<clock, codes, lost>>

\* 503, the transaction is rolled back; or the server stops.
StoreFails(r) ==
  /\ MayFail
  /\ pc[r] = "store"
  /\ GiveUp(r) /\ Reply(r)
  /\ UNCHANGED <<service, clock, codes>>
-----------------------------------------------------------------------------
Progress(r) ==
  \/ ReadFinished(r) \/ ReadExpired(r) \/ ReadOpen(r) \/ Answer(r)
  \/ Exchange(r) \/ ExchangeRefused(r) \/ ExchangeLost(r)
  \/ Identify(r) \/ IdentifyFails(r)
  \/ StoreCommits(r) \/ StoreFails(r)

SessionsNext ==
  \/ Tick
  \/ \E s \in Session :
       \/ \E asked \in Asked : CreateForDevice(s, asked) \/ CreateForBrowser(s, asked)
       \/ \E u \in Uid : Authorize(s, u)
       \/ CallbackArrives(s)
  \/ \E c \in DOMAIN codes, u \in Uid : ApproveDevice(c, u)
  \/ \E r \in Req :
       \/ \E s \in Session, offer \in Offers : Complete(r, s, offer)
       \/ Progress(r)

\* Calls to Baidu end after 15 seconds and the transaction waits only for
\* transactions that end, so a handler always goes on.
SessionsFairness == \A r \in Req : WF_vars(Progress(r))

SessionsSafe == SessionsInit /\ [][SessionsNext]_vars
SessionsSpec == SessionsSafe /\ SessionsFairness
-----------------------------------------------------------------------------
(* Properties *)

Binding == INSTANCE SessionBinding
             WITH consents <- {<<codes[c].session, codes[c].uid>> :
                                 c \in {d \in DOMAIN codes : codes[d].uid # None}},
                  owner <- [s \in Session |-> IF sessions[s] = None THEN None
                                              ELSE sessions[s].account],
                  held <- {u \in Uid : accounts[u] # None}

\* However callbacks, polls and concurrent completions are ordered, a session is
\* bound only to the account of a user who consented to this session, with the
\* token stored in the same step, and it is never unbound.
ImplementsBinding == Binding!BindingSpec

\* A session that is shown as completed names its account and keeps no code: the
\* callback may bring a late code, but then the session is not shown completed.
CompletedKeepsNoCode ==
  \A s \in Session : Shown(s) = "completed" =>
    /\ sessions[s].account # None
    /\ sessions[s].device_code = None /\ sessions[s].authorization_code = None

\* The token that the cloud keeps for a user was given for a code that this very user
\* had approved, and that Baidu redeemed: however often callbacks change the code of the
\* session between the steps of a completion, no user gets another's token.
TokensAreTheirUsers ==
  \A u \in Uid : accounts[u] # None =>
    LET c == accounts[u].code
    IN c \in DOMAIN codes /\ codes[c].spent /\ codes[c].uid = u

\* A session that has expired is completed only by a request that read it before:
\* the check comes before two calls to Baidu, and is not repeated after them.
ExpiredCompletesOnlyFromBefore ==
  [][\A s \in Session :
       /\ Shown(s) \notin {None, "completed"} /\ Expired(s)
       /\ Shown(s)' = "completed"
       => \E r \in Req : /\ pc[r] = "store" /\ job[r].session = s
                         /\ job[r].since <= sessions[s].expires]_vars

InHand(c) == \E r \in Req : pc[r] \in {"userinfo", "store"} /\ job[r].code = c

\* Its token is stored for its user, to whom its session is bound.
Stored(c) ==
  /\ c \in DOMAIN codes
  /\ \E u \in Uid : /\ accounts[u] # None /\ accounts[u].code = c
                    /\ sessions[codes[c].session].account = u

\* A code that was redeemed for a completion has its token stored for its user and its
\* session bound to that user, unless the completion is seen to fail.
RedeemedIsSettled == \A c \in Code : InHand(c) ~> (c \in lost \/ Stored(c))

\* Whatever Baidu answers to a completion, a lifetime that a time.Duration can hold
\* makes a token that ends when Baidu said, in whatever form it said so, and never
\* one that has ended before it was obtained (exchangeToken, handleCompleteBaiduAuthSession).
LifetimeIsMeant == \A r \in Req : pc[r] = "exchange" => LifetimesAreMeant

\* The account is told apart by uid where Baidu sends one and by uk only where it does
\* not, and a name is the user's own: a text as it stands, and an integer of 64 bits
\* to the last digit.  A number in another form is its own only as far as float64 has
\* every integer, and beyond that the property asks nothing (rawJSONScalar).
UserIsNamed == \A r \in Req : pc[r] = "userinfo" => NamesAreOwn
=============================================================================
