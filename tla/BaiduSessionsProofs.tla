-------------------------- MODULE BaiduSessionsProofs --------------------------
(***************************************************************************)
(* Proofs about BaiduSessions, for any number of sessions, users, codes and *)
(* concurrent completions.  The inductive invariant SessionsInv follows the *)
(* codes: a code belongs to one session, and what a completion does from    *)
(* the redemption to the end it does with the code that it read.            *)
(***************************************************************************)
EXTENDS BaiduSessions, SequenceTheorems, TLAPS

\* A code of session s, if there is one.
CodeFits(c, s) == c \in {None, Stray} \/ (c \in DOMAIN codes /\ codes[c].session = s)

\* A session keeps codes of its own; a completed one is bound and keeps none.
RowFits(s) ==
  sessions[s] # None =>
    /\ CodeFits(sessions[s].device_code, s) /\ CodeFits(sessions[s].authorization_code, s)
    /\ sessions[s].status = "completed" =>
         /\ sessions[s].account # None
         /\ sessions[s].device_code = None /\ sessions[s].authorization_code = None

Redeeming(r) == pc[r] \in {"userinfo", "store"}

\* A completion works with a code of its session, and once that is redeemed the
\* envelope it makes is of this code.
JobFits(r) ==
  /\ pc[r] # "idle" => job[r] \in Job /\ sessions[job[r].session] # None
  /\ pc[r] \in {"exchange", "userinfo", "store"} => CodeFits(job[r].code, job[r].session)
  /\ Redeeming(r) =>
       /\ job[r].code \in DOMAIN codes
       /\ codes[job[r].code].spent /\ codes[job[r].code].uid # None
  /\ pc[r] = "store" => job[r].envelope \in Envelope /\ job[r].envelope.code = job[r].code

SessionsInv ==
  /\ SessionsTypeOK
  /\ \A s \in Session : RowFits(s)
  /\ \A r \in Req : JobFits(r)
  /\ TokensAreTheirUsers
-----------------------------------------------------------------------------
(* What the steps share *)

\* The other completions stand where they stood.
OthersStand(r) == \A q \in Req \ {r} : pc'[q] = pc[q] /\ job'[q] = job[q]

\* Codes are only added, approved and redeemed.
CodesGrow ==
  /\ DOMAIN codes \subseteq DOMAIN codes'
  /\ \A c \in DOMAIN codes :
       /\ codes'[c].session = codes[c].session
       /\ codes[c].uid # None => codes'[c].uid = codes[c].uid
       /\ codes[c].spent => codes'[c].spent

SessionsStay == \A s \in Session : sessions[s] # None => sessions'[s] # None

\* Code c of session s after the step, for a c and an s read before it.
WillFit(c, s) == c \in {None, Stray} \/ (c \in DOMAIN codes' /\ codes'[c].session = s)

LEMMA NothingGrows == UNCHANGED codes => CodesGrow
  BY DEF CodesGrow

LEMMA CodeStillFits ==
  ASSUME CodesGrow, NEW c, NEW s, CodeFits(c, s)
  PROVE  CodeFits(c, s)'
  BY DEF CodesGrow, CodeFits

LEMMA CodeWillFit ==
  ASSUME CodesGrow, NEW c, NEW s, CodeFits(c, s)
  PROVE  WillFit(c, s)
  BY DEF CodesGrow, CodeFits, WillFit

LEMMA RowStillFits ==
  ASSUME CodesGrow, NEW s \in Session, RowFits(s), sessions'[s] = sessions[s]
  PROVE  RowFits(s)'
  BY CodeStillFits DEF RowFits

LEMMA TokensStillTheirs ==
  ASSUME CodesGrow, accounts' = accounts, TokensAreTheirUsers
  PROVE  TokensAreTheirUsers'
  <1> SUFFICES ASSUME NEW u \in Uid, accounts[u] # None
               PROVE  LET c == accounts[u].code
                      IN c \in DOMAIN codes' /\ codes'[c].spent /\ codes'[c].uid = u
    BY DEF TokensAreTheirUsers
  <1>1. LET c == accounts[u].code IN c \in DOMAIN codes /\ codes[c].spent /\ codes[c].uid = u
    BY DEF TokensAreTheirUsers
  <1>2. u # None
    BY SessionsAssumption
  <1> QED BY <1>1, <1>2 DEF CodesGrow

LEMMA JobOfBusy ==
  ASSUME SessionsInv, NEW r \in Req, pc[r] # "idle"
  PROVE  /\ job[r] \in Job /\ job[r].session \in Session /\ sessions[job[r].session] # None
         /\ job[r].offer \in Offers /\ job[r].since \in Nat
         /\ sessions[job[r].session] \in Row
  <1>1. job[r] \in Job /\ sessions[job[r].session] # None
    BY DEF SessionsInv, JobFits
  <1>2. job[r].session \in Session /\ job[r].offer \in Offers /\ job[r].since \in Nat
    BY <1>1 DEF Job
  <1> QED BY <1>1, <1>2 DEF SessionsInv, SessionsTypeOK

LEMMA JobStillFits ==
  ASSUME SessionsInv, CodesGrow, SessionsStay, NEW q \in Req,
         pc'[q] = pc[q], job'[q] = job[q]
  PROVE  JobFits(q)'
  <1>1. JobFits(q)
    BY DEF SessionsInv
  <1>2. pc[q] # "idle" => sessions'[job[q].session] # None
    BY JobOfBusy DEF SessionsStay
  <1>3. pc[q] \in {"exchange", "userinfo", "store"} => CodeFits(job[q].code, job[q].session)'
    BY <1>1, CodeStillFits DEF JobFits
  <1>4. Redeeming(q) =>
          /\ job[q].code \in DOMAIN codes'
          /\ codes'[job[q].code].spent /\ codes'[job[q].code].uid # None
    BY <1>1 DEF JobFits, CodesGrow
  <1> QED BY <1>1, <1>2, <1>3, <1>4 DEF JobFits, Redeeming

\* A step of the clients, of Baidu or of a browser.
LEMMA OutsideStep ==
  ASSUME SessionsInv, SessionsTypeOK', UNCHANGED <<pc, job, accounts>>, CodesGrow, SessionsStay,
         \A s \in Session : RowFits(s)'
  PROVE  SessionsInv'
  <1>1. \A r \in Req : JobFits(r)'
    BY JobStillFits
  <1>2. TokensAreTheirUsers'
    BY TokensStillTheirs DEF SessionsInv
  <1> QED BY <1>1, <1>2 DEF SessionsInv

\* A step of completion r.
LEMMA CompletionStep ==
  ASSUME SessionsInv, SessionsTypeOK', NEW r \in Req, OthersStand(r), CodesGrow, SessionsStay,
         \A s \in Session : RowFits(s)', JobFits(r)', TokensAreTheirUsers'
  PROVE  SessionsInv'
  <1>1. \A q \in Req : JobFits(q)'
    BY JobStillFits DEF OthersStand
  <1> QED BY <1>1 DEF SessionsInv

LEMMA MovesOn ==
  ASSUME SessionsTypeOK, NEW r \in Req, NEW stage \in Stages, Goto(r, stage),
         NEW j \in Job \cup {NoJob}, job' = [job EXCEPT ![r] = j]
  PROVE  /\ pc'[r] = stage /\ job'[r] = j /\ OthersStand(r)
         /\ pc' \in [Req -> Stages] /\ job' \in [Req -> Job \cup {NoJob}]
  BY DEF Goto, SessionsTypeOK, OthersStand

LEMMA ReplyMoves ==
  ASSUME SessionsTypeOK, NEW r \in Req, Reply(r)
  PROVE  /\ pc'[r] = "idle" /\ job'[r] = NoJob /\ OthersStand(r)
         /\ pc' \in [Req -> Stages] /\ job' \in [Req -> Job \cup {NoJob}]
  BY MovesOn DEF Reply, Stages

LEMMA IdleFits == ASSUME NEW r \in Req, pc[r] = "idle" PROVE JobFits(r) /\ ~ Redeeming(r)
  BY DEF JobFits, Redeeming

\* A step of a completion that has redeemed nothing, before or after it.
LEMMA QuietStep ==
  ASSUME SessionsInv, NEW r \in Req, NEW stage \in Stages \ {"userinfo", "store"},
         NEW j \in Job \cup {NoJob}, Goto(r, stage), job' = [job EXCEPT ![r] = j],
         UNCHANGED <<service, clock, codes, lost>>, ~ Redeeming(r),
         stage # "idle" => j \in Job /\ sessions[j.session] # None,
         stage = "exchange" => CodeFits(j.code, j.session)
  PROVE  SessionsInv'
  <1>1. /\ pc'[r] = stage /\ job'[r] = j /\ OthersStand(r)
        /\ pc' \in [Req -> Stages] /\ job' \in [Req -> Job \cup {NoJob}]
    BY MovesOn DEF SessionsInv
  <1>2. UNCHANGED <<sessions, accounts, codes, lost, clock>>
    BY DEF service
  <1>3. SessionsTypeOK' /\ CodesGrow /\ SessionsStay
    BY <1>1, <1>2, NothingGrows DEF SessionsInv, SessionsTypeOK, SessionsStay
  <1>4. \A s \in Session : RowFits(s)'
    BY <1>2, <1>3, RowStillFits DEF SessionsInv
  <1>5. ~ Redeeming(r)'
    BY <1>1 DEF Redeeming
  <1>6. JobFits(r)'
    BY <1>1, <1>2, <1>5 DEF JobFits, Redeeming, CodeFits
  <1>7. TokensAreTheirUsers'
    BY <1>2, <1>3, TokensStillTheirs DEF SessionsInv
  <1> QED BY <1>1, <1>3, <1>4, <1>6, <1>7, CompletionStep
-----------------------------------------------------------------------------
(* The completions *)

LEMMA CompleteStep ==
  ASSUME SessionsInv, NEW r \in Req, NEW s \in Session, NEW offer \in Offers, Complete(r, s, offer)
  PROVE  SessionsInv'
  <1> DEFINE asks == [NoJob EXCEPT !.session = s]
             j == [asks EXCEPT !.offer = offer]
  <1>1. asks = [session |-> s, offer |-> None, code |-> None, envelope |-> None, since |-> 0]
    BY DEF NoJob
  <1>2. job' = [job EXCEPT ![r] = j] /\ Goto(r, "read")
    BY DEF Complete, NoJob
  <1> HIDE DEF asks
  <1>3. j = [session |-> s, offer |-> offer, code |-> None, envelope |-> None, since |-> 0]
    BY <1>1
  <1> HIDE DEF j
  <1>4. j \in Job /\ j.session = s
    BY <1>3 DEF Job
  <1>5. /\ pc[r] = "idle" /\ sessions[s] # None /\ "read" \in Stages
        /\ UNCHANGED <<service, clock, codes, lost>>
    BY DEF Complete, Stages
  <1> QED BY <1>2, <1>4, <1>5, QuietStep, IdleFits

LEMMA AnswerStep ==
  ASSUME SessionsInv, NEW r \in Req, Answer(r) \/ ReadExpired(r) \/ ExchangeRefused(r)
  PROVE  SessionsInv'
  <1>1. /\ pc[r] \notin {"userinfo", "store"} /\ Reply(r)
        /\ UNCHANGED <<service, clock, codes, lost>>
    BY DEF Answer, ReadExpired, ExchangeRefused
  <1> QED BY <1>1, QuietStep DEF Reply, Stages, Redeeming

LEMMA ReadFinishedStep ==
  ASSUME SessionsInv, NEW r \in Req, ReadFinished(r)
  PROVE  SessionsInv'
  <1>1. /\ pc[r] = "read" /\ Goto(r, "answer") /\ job' = job /\ "answer" \in Stages
        /\ UNCHANGED <<service, clock, codes, lost>>
    BY DEF ReadFinished, Stages
  <1>2. job' = [job EXCEPT ![r] = job[r]] /\ job[r] \in Job /\ sessions[job[r].session] # None
    BY <1>1, JobOfBusy DEF SessionsInv, SessionsTypeOK
  <1> QED BY <1>1, <1>2, QuietStep DEF Redeeming

LEMMA CodeTyped ==
  ASSUME SessionsTypeOK, NEW c \in DOMAIN codes
  PROVE  /\ c \in Code /\ c \in Nat /\ codes[c] \in Issued
         /\ codes[c].session \in Session /\ codes[c].uid \in Uid \cup {None}
         /\ codes[c].spent \in BOOLEAN
  <1>1. codes \in Seq(Issued) /\ Len(codes) <= MaxCode /\ MaxCode \in Nat
    BY SessionsAssumption DEF SessionsTypeOK
  <1>2. c \in 1..Len(codes) /\ Len(codes) \in Nat
    BY <1>1
  <1>3. codes[c] \in Issued
    BY <1>1, <1>2
  <1>4. c \in Code
    BY <1>1, <1>2 DEF Code
  <1> QED BY <1>2, <1>3, <1>4 DEF Issued

LEMMA ReadOpenStep ==
  ASSUME SessionsInv, NEW r \in Req, ReadOpen(r)
  PROVE  SessionsInv'
  <1> DEFINE s == job[r].session
             c == CodeOf(s)
             coded == [job[r] EXCEPT !.code = c]
             j == [coded EXCEPT !.since = clock]
  <1>1. /\ pc[r] = "read" /\ Goto(r, "exchange") /\ "exchange" \in Stages
        /\ UNCHANGED <<service, clock, codes, lost>>
    BY DEF ReadOpen, Stages
  <1>2. /\ job[r] \in Job /\ s \in Session /\ sessions[s] # None /\ clock \in Nat
        /\ sessions[s] \in Row
    BY <1>1, JobOfBusy, SessionsAssumption DEF SessionsInv, SessionsTypeOK
  <1>3. CodeFits(c, s)
    BY <1>2 DEF SessionsInv, RowFits, CodeOf
  <1>4. c \in Code \cup {Stray, None}
    BY <1>2 DEF CodeOf, Row
  <1>5. job' = [job EXCEPT ![r] = j]
    BY <1>1, <1>2 DEF ReadOpen, SessionsInv, SessionsTypeOK, Job
  <1> HIDE DEF c
  <1>6. coded \in Job /\ coded.session = s /\ coded.code = c
    BY <1>2, <1>4 DEF Job
  <1> HIDE DEF coded
  <1>7. j \in Job /\ j.session = s /\ j.code = c
    BY <1>2, <1>6 DEF Job
  <1> HIDE DEF j
  <1> QED BY <1>1, <1>2, <1>3, <1>5, <1>7, QuietStep DEF Redeeming

\* A code that Baidu redeems is spent from then on.
LEMMA RedeemMoves ==
  ASSUME SessionsInv, NEW r \in Req, Redeem(job[r].code)
  PROVE  LET c == job[r].code
         IN /\ c \in DOMAIN codes /\ DOMAIN codes' = DOMAIN codes
            /\ codes' \in Seq(Issued) /\ Len(codes') = Len(codes)
            /\ codes'[c].spent /\ codes'[c].uid # None
            /\ \A d \in DOMAIN codes : /\ codes'[d].uid = codes[d].uid
                                      /\ codes'[d].session = codes[d].session
            /\ CodesGrow
  <1> DEFINE c == job[r].code
             new == [codes[c] EXCEPT !.spent = TRUE]
  <1>1. c \in DOMAIN codes /\ codes[c].uid # None /\ codes' = [codes EXCEPT ![c] = new]
    BY DEF Redeem
  <1>2. codes \in Seq(Issued) /\ c \in 1..Len(codes)
    BY <1>1 DEF SessionsInv, SessionsTypeOK
  <1>3. codes[c] \in Issued
    BY <1>1, CodeTyped DEF SessionsInv
  <1>4. /\ new \in Issued /\ new.spent /\ new.uid = codes[c].uid /\ new.session = codes[c].session
    BY <1>3 DEF Issued
  <1> HIDE DEF new
  <1>5. /\ codes' \in Seq(Issued) /\ Len(codes') = Len(codes)
        /\ \A d \in 1..Len(codes) : codes'[d] = IF d = c THEN new ELSE codes[d]
    BY <1>1, <1>2, <1>4, ExceptSeq
  <1>6. DOMAIN codes' = DOMAIN codes /\ DOMAIN codes = 1..Len(codes)
    BY <1>2, <1>5
  <1>7. CodesGrow
    BY <1>1, <1>4, <1>5, <1>6 DEF CodesGrow
  <1> HIDE DEF c
  <1> QED BY <1>1, <1>4, <1>5, <1>6, <1>7 DEF c

LEMMA ExchangeStep ==
  ASSUME SessionsInv, NEW r \in Req, Exchange(r)
  PROVE  SessionsInv'
  <1> DEFINE c == job[r].code
  <1>1. /\ pc[r] = "exchange" /\ Redeem(c) /\ Goto(r, "userinfo") /\ "userinfo" \in Stages
        /\ UNCHANGED <<service, clock, job, lost>>
    BY DEF Exchange, Stages
  <1>2. /\ c \in DOMAIN codes /\ DOMAIN codes' = DOMAIN codes
        /\ codes' \in Seq(Issued) /\ Len(codes') = Len(codes)
        /\ codes'[c].spent /\ codes'[c].uid # None /\ CodesGrow
    BY <1>1, RedeemMoves
  <1>3. job[r] \in Job /\ sessions[job[r].session] # None /\ CodeFits(c, job[r].session)
    BY <1>1, JobOfBusy DEF SessionsInv, JobFits
  <1>4. job' = [job EXCEPT ![r] = job[r]]
    BY <1>1 DEF SessionsInv, SessionsTypeOK
  <1>5. /\ pc'[r] = "userinfo" /\ job' = job /\ OthersStand(r) /\ pc' \in [Req -> Stages]
    BY <1>1, <1>3, <1>4, MovesOn DEF SessionsInv
  <1>6. UNCHANGED <<sessions, accounts, lost>>
    BY <1>1 DEF service
  <1>7. SessionsTypeOK' /\ SessionsStay
    BY <1>1, <1>2, <1>5, <1>6 DEF SessionsInv, SessionsTypeOK, SessionsStay
  <1>8. \A s \in Session : RowFits(s)'
    BY <1>2, <1>6, RowStillFits DEF SessionsInv
  <1>9. WillFit(c, job[r].session)
    BY <1>2, <1>3, CodeWillFit
  <1> HIDE DEF c
  <1>10. JobFits(r)'
    BY <1>2, <1>3, <1>5, <1>6, <1>9 DEF JobFits, Redeeming, CodeFits, WillFit, c
  <1>11. TokensAreTheirUsers'
    BY <1>2, <1>6, TokensStillTheirs DEF SessionsInv
  <1> QED BY <1>2, <1>5, <1>7, <1>8, <1>10, <1>11, CompletionStep

\* A completion that ends.
LEMMA Ends ==
  ASSUME SessionsInv, NEW r \in Req, Reply(r), CodesGrow, clock' = clock,
         codes' \in Seq(Issued), Len(codes') = Len(codes), job[r].code \in DOMAIN codes,
         lost' \in {lost, lost \cup {job[r].code}}, SessionsStay,
         sessions' \in [Session -> Row \cup {None}], accounts' \in [Uid -> Envelope \cup {None}],
         \A s \in Session : RowFits(s)', TokensAreTheirUsers'
  PROVE  SessionsInv'
  <1>1. /\ pc'[r] = "idle" /\ job'[r] = NoJob /\ OthersStand(r)
        /\ pc' \in [Req -> Stages] /\ job' \in [Req -> Job \cup {NoJob}]
    BY ReplyMoves DEF SessionsInv
  <1>2. JobFits(r)'
    BY <1>1 DEF JobFits, Redeeming
  <1>3. job[r].code \in Code
    BY CodeTyped DEF SessionsInv
  <1>4. SessionsTypeOK'
    BY <1>1, <1>3 DEF SessionsInv, SessionsTypeOK
  <1> QED BY <1>1, <1>2, <1>4, CompletionStep

LEMMA ExchangeLostStep ==
  ASSUME SessionsInv, NEW r \in Req, ExchangeLost(r)
  PROVE  SessionsInv'
  <1>1. /\ Redeem(job[r].code) /\ Reply(r) /\ UNCHANGED <<sessions, accounts, clock>>
        /\ lost' = lost \cup {job[r].code}
    BY DEF ExchangeLost, GiveUp, service
  <1>2. /\ job[r].code \in DOMAIN codes /\ codes' \in Seq(Issued) /\ Len(codes') = Len(codes)
        /\ CodesGrow
    BY <1>1, RedeemMoves
  <1>3. SessionsStay /\ \A s \in Session : RowFits(s)'
    BY <1>1, <1>2, RowStillFits DEF SessionsInv, SessionsStay
  <1>4. TokensAreTheirUsers'
    BY <1>1, <1>2, TokensStillTheirs DEF SessionsInv
  <1>5. sessions' \in [Session -> Row \cup {None}] /\ accounts' \in [Uid -> Envelope \cup {None}]
    BY <1>1 DEF SessionsInv, SessionsTypeOK
  <1> QED BY <1>1, <1>2, <1>3, <1>4, <1>5, Ends

\* A code that a completion has redeemed is one of its session.
LEMMA HandsFit ==
  ASSUME SessionsInv, NEW r \in Req, Redeeming(r)
  PROVE  /\ job[r].code \in DOMAIN codes /\ job[r].code \in Code
         /\ codes[job[r].code].spent /\ codes[job[r].code].uid # None
         /\ codes[job[r].code].session = job[r].session
  <1>1. job[r].code \in DOMAIN codes /\ CodeFits(job[r].code, job[r].session)
    BY DEF SessionsInv, JobFits, Redeeming
  <1>2. job[r].code \in Code
    BY <1>1, CodeTyped DEF SessionsInv
  <1> QED BY <1>1, <1>2, NoneAssumption DEF SessionsInv, JobFits, CodeFits

LEMMA EnvelopeTyped ==
  ASSUME SessionsInv, NEW r \in Req, pc[r] = "userinfo", Encrypted(r).key \in Key
  PROVE  Encrypted(r) \in Envelope /\ Encrypted(r).code = job[r].code
  <1> DEFINE row == sessions[job[r].session]
             offer == job[r].offer
             key == IF row.method = "rsa" /\ offer.key = None THEN row.key ELSE offer.key
             hint == IF row.method = "password" THEN None
                     ELSE IF offer.hint # None THEN offer.hint ELSE row.hint
  <1>1. row \in Row /\ offer \in Offers
    BY JobOfBusy
  <1>2. offer \in [key: Key \cup {BadKey, None}, hint: Key \cup {None}]
    BY <1>1, SessionsAssumption
  <1>3. row.method \in Method /\ hint \in Key \cup {None}
    BY <1>1, <1>2 DEF Row
  <1>4. job[r].code \in Code
    BY HandsFit DEF Redeeming
  <1> HIDE DEF key, hint, row, offer
  <1>5. Encrypted(r) = [code |-> job[r].code, method |-> row.method, key |-> key, hint |-> hint]
    BY DEF Encrypted, key, hint, row, offer
  <1>6. key \in Key
    BY <1>5
  <1> QED BY <1>3, <1>4, <1>5, <1>6 DEF Envelope

LEMMA IdentifyStep ==
  ASSUME SessionsInv, NEW r \in Req, Identify(r)
  PROVE  SessionsInv'
  <1> DEFINE envelope == Encrypted(r)
             j == [job[r] EXCEPT !.envelope = envelope]
             c == job[r].code
  <1>1. /\ pc[r] = "userinfo" /\ Goto(r, "store") /\ "store" \in Stages
        /\ UNCHANGED <<sessions, accounts, clock, codes, lost>>
    BY DEF Identify, Stages, service
  <1>2. envelope \in Envelope /\ envelope.code = c
    BY <1>1, EnvelopeTyped DEF Identify
  <1>3. job' = [job EXCEPT ![r] = j]
    BY DEF Identify
  <1>4. job[r] \in Job /\ JobFits(r) /\ Redeeming(r)
    BY <1>1, JobOfBusy DEF SessionsInv, Redeeming
  <1> HIDE DEF envelope
  <1>5. j \in Job /\ j.session = job[r].session /\ j.code = c /\ j.envelope = envelope
    BY <1>2, <1>4 DEF Job
  <1> HIDE DEF j
  <1>6. /\ pc'[r] = "store" /\ job'[r] = j /\ OthersStand(r)
        /\ pc' \in [Req -> Stages] /\ job' \in [Req -> Job \cup {NoJob}]
    BY <1>1, <1>3, <1>5, MovesOn DEF SessionsInv
  <1>7. SessionsTypeOK' /\ CodesGrow /\ SessionsStay
    BY <1>1, <1>6, NothingGrows DEF SessionsInv, SessionsTypeOK, SessionsStay
  <1>8. \A s \in Session : RowFits(s)'
    BY <1>1, <1>7, RowStillFits DEF SessionsInv
  <1>9. JobFits(r)'
    BY <1>1, <1>2, <1>4, <1>5, <1>6 DEF JobFits, Redeeming, CodeFits
  <1>10. TokensAreTheirUsers'
    BY <1>1, <1>7, TokensStillTheirs DEF SessionsInv
  <1> QED BY <1>6, <1>7, <1>8, <1>9, <1>10, CompletionStep

LEMMA GiveUpStep ==
  ASSUME SessionsInv, NEW r \in Req, IdentifyFails(r) \/ StoreFails(r)
  PROVE  SessionsInv'
  <1>1. /\ Redeeming(r) /\ Reply(r) /\ lost' = lost \cup {job[r].code}
        /\ UNCHANGED <<sessions, accounts, clock, codes>>
    BY DEF IdentifyFails, StoreFails, GiveUp, Redeeming, service
  <1>2. CodesGrow /\ SessionsStay
    BY <1>1, NothingGrows DEF SessionsStay
  <1>3. \A s \in Session : RowFits(s)'
    BY <1>1, <1>2, RowStillFits DEF SessionsInv
  <1>4. TokensAreTheirUsers'
    BY <1>1, <1>2, TokensStillTheirs DEF SessionsInv
  <1>5. /\ sessions' \in [Session -> Row \cup {None}] /\ accounts' \in [Uid -> Envelope \cup {None}]
        /\ codes' \in Seq(Issued) /\ Len(codes') = Len(codes) /\ job[r].code \in DOMAIN codes
    BY <1>1, HandsFit DEF SessionsInv, SessionsTypeOK
  <1> QED BY <1>1, <1>2, <1>3, <1>4, <1>5, Ends

\* The row that a completion leaves behind.
LEMMA StoredRow ==
  ASSUME SessionsInv, NEW r \in Req, StoreCommits(r)
  PROVE  LET s == job[r].session
             u == codes[job[r].code].uid
         IN /\ s \in Session /\ u \in Uid /\ sessions[s] # None /\ u # None
            /\ \A q \in Session \ {s} : sessions'[q] = sessions[q]
            /\ sessions'[s] \in Row /\ sessions'[s].account = u
            /\ sessions'[s].device_code = None /\ sessions'[s].authorization_code = None
            /\ sessions'[s].expires = sessions[s].expires
            /\ sessions' \in [Session -> Row \cup {None}]
            /\ accounts'[u] # None /\ accounts'[u].code = job[r].code
            /\ \A w \in Uid \ {u} : accounts'[w] = accounts[w]
            /\ accounts' \in [Uid -> Envelope \cup {None}]
  <1> DEFINE s == job[r].session
             u == codes[job[r].code].uid
             old == sessions[s]
             done == [old EXCEPT !.status = "completed"]
             owned == [done EXCEPT !.account = u]
             bare == [owned EXCEPT !.device_code = None]
             row == [bare EXCEPT !.authorization_code = None]
  <1>1. pc[r] = "store" /\ Redeeming(r)
    BY DEF StoreCommits, Redeeming
  <1>2. s \in Session /\ sessions[s] # None /\ old \in Row
    BY <1>1, JobOfBusy
  <1>3. u \in Uid /\ u # None
    BY <1>1, HandsFit, CodeTyped, SessionsAssumption DEF SessionsInv
  <1>4. /\ job[r].envelope \in Envelope /\ job[r].envelope # None
        /\ job[r].envelope.code = job[r].code
    BY <1>1, NoneAssumption DEF SessionsInv, JobFits
  <1>5. done \in Row /\ done.expires = old.expires
    BY <1>2 DEF Row, Status
  <1>6. sessions' = [sessions EXCEPT ![s] = row] /\ accounts' = [accounts EXCEPT ![u] = job[r].envelope]
    BY <1>2 DEF StoreCommits, Store, SessionsInv, SessionsTypeOK, Row
  <1> HIDE DEF done
  <1>7. owned \in Row /\ owned.account = u /\ owned.expires = old.expires
    BY <1>3, <1>5 DEF Row
  <1> HIDE DEF owned
  <1>8. /\ bare \in Row /\ bare.account = u /\ bare.device_code = None
        /\ bare.expires = old.expires
    BY <1>7 DEF Row
  <1> HIDE DEF bare
  <1>9. /\ row \in Row /\ row.account = u /\ row.device_code = None
        /\ row.authorization_code = None /\ row.expires = old.expires
    BY <1>8 DEF Row
  <1> HIDE DEF row, u, s
  <1>10. sessions \in [Session -> Row \cup {None}] /\ accounts \in [Uid -> Envelope \cup {None}]
    BY DEF SessionsInv, SessionsTypeOK
  <1>11. /\ sessions'[s] = row /\ \A q \in Session \ {s} : sessions'[q] = sessions[q]
         /\ sessions' \in [Session -> Row \cup {None}]
    BY <1>2, <1>6, <1>9, <1>10
  <1>12. /\ accounts'[u] = job[r].envelope /\ \A w \in Uid \ {u} : accounts'[w] = accounts[w]
         /\ accounts' \in [Uid -> Envelope \cup {None}]
    BY <1>3, <1>4, <1>6, <1>10
  <1> QED BY <1>2, <1>3, <1>4, <1>9, <1>11, <1>12 DEF s, u

LEMMA StoreStep ==
  ASSUME SessionsInv, NEW r \in Req, StoreCommits(r)
  PROVE  SessionsInv'
  <1> DEFINE s == job[r].session
             c == job[r].code
             u == codes[c].uid
  <1>1. /\ s \in Session /\ u # None /\ sessions[s] # None
        /\ \A q \in Session \ {s} : sessions'[q] = sessions[q]
        /\ sessions'[s] \in Row /\ sessions'[s].account = u
        /\ sessions'[s].device_code = None /\ sessions'[s].authorization_code = None
        /\ sessions' \in [Session -> Row \cup {None}]
        /\ accounts'[u].code = c /\ \A w \in Uid \ {u} : accounts'[w] = accounts[w]
        /\ accounts' \in [Uid -> Envelope \cup {None}]
    BY StoredRow
  <1>2. Redeeming(r) /\ Reply(r) /\ UNCHANGED <<clock, codes, lost>>
    BY DEF StoreCommits, Redeeming
  <1>3. sessions'[s] # None
    BY <1>1, NoneAssumption
  <1>4. CodesGrow /\ SessionsStay
    BY <1>1, <1>2, <1>3, NothingGrows DEF SessionsStay
  <1>5. c \in DOMAIN codes /\ codes[c].spent
    BY <1>2, HandsFit
  <1> HIDE DEF s, c
  <1>6. TokensAreTheirUsers'
    BY <1>1, <1>2, <1>5 DEF SessionsInv, TokensAreTheirUsers
  <1> HIDE DEF u
  <1>7. ASSUME NEW q \in Session PROVE RowFits(q)'
    <2>1. CASE q = s
      BY <1>1, <2>1 DEF RowFits, CodeFits
    <2>2. CASE q # s
      BY <1>1, <1>4, <2>2, RowStillFits DEF SessionsInv
    <2> QED BY <2>1, <2>2
  <1>8. codes' \in Seq(Issued) /\ Len(codes') = Len(codes)
    BY <1>2 DEF SessionsInv, SessionsTypeOK
  <1> QED BY <1>1, <1>2, <1>4, <1>5, <1>6, <1>7, <1>8, Ends DEF c

LEMMA ProgressStep ==
  ASSUME SessionsInv, NEW r \in Req, Progress(r)
  PROVE  SessionsInv'
  BY ReadFinishedStep, AnswerStep, ReadOpenStep, ExchangeStep, ExchangeLostStep, IdentifyStep,
     GiveUpStep, StoreStep DEF Progress
-----------------------------------------------------------------------------
(* The clients, Baidu and the browsers *)

LEMMA TickStep == ASSUME SessionsInv, Tick PROVE SessionsInv'
  <1>1. clock' \in 0..MaxClock /\ UNCHANGED <<sessions, accounts, codes, pc, job, lost>>
    BY SessionsAssumption DEF Tick, SessionsInv, SessionsTypeOK, service, requests
  <1>2. SessionsTypeOK' /\ CodesGrow /\ SessionsStay
    BY <1>1, NothingGrows DEF SessionsInv, SessionsTypeOK, SessionsStay
  <1>3. \A s \in Session : RowFits(s)'
    BY <1>1, <1>2, RowStillFits DEF SessionsInv
  <1> QED BY <1>1, <1>2, <1>3, OutsideStep

\* The row that a callback leaves behind: without a code and an error it leaves the status.
LEMMA CallbackRow ==
  ASSUME SessionsInv, NEW s \in Session, sessions[s] # None,
         NEW c \in Code \cup {Stray, None}, NEW error \in BOOLEAN, Callback(s, c, error)
  PROVE  /\ sessions'[s] \in Row
         /\ sessions'[s].authorization_code = c
         /\ sessions'[s].device_code = sessions[s].device_code
         /\ sessions'[s].account = sessions[s].account
         /\ sessions'[s].expires = sessions[s].expires
         /\ sessions'[s].status = "completed" => c = None /\ sessions[s].status = "completed"
         /\ \A q \in Session \ {s} : sessions'[q] = sessions[q]
         /\ sessions' \in [Session -> Row \cup {None}]
         /\ UNCHANGED <<accounts, clock, codes, pc, job, lost>>
  <1> DEFINE status == IF error THEN "failed" ELSE IF c # None THEN "authorized" ELSE sessions[s].status
             coded == [sessions[s] EXCEPT !.authorization_code = c]
             row == [coded EXCEPT !.status = status]
  <1>1. sessions[s] \in Row
    BY DEF SessionsInv, SessionsTypeOK
  <1>2. sessions' = [sessions EXCEPT ![s] = row]
    BY <1>1 DEF Callback, SessionsInv, SessionsTypeOK, Row
  <1>3. UNCHANGED <<accounts, clock, codes, pc, job, lost>>
    BY DEF Callback, requests
  <1>4. status \in Status
    BY <1>1 DEF Row, Status
  <1>5. status = "completed" => c = None /\ sessions[s].status = "completed"
    OBVIOUS
  <1> HIDE DEF status
  <1>6. /\ coded \in Row /\ coded.authorization_code = c /\ coded.account = sessions[s].account
        /\ coded.device_code = sessions[s].device_code /\ coded.expires = sessions[s].expires
    BY <1>1 DEF Row
  <1> HIDE DEF coded
  <1>7. /\ row \in Row /\ row.authorization_code = c /\ row.account = sessions[s].account
        /\ row.device_code = sessions[s].device_code /\ row.status = status
        /\ row.expires = sessions[s].expires
    BY <1>4, <1>6 DEF Row
  <1> HIDE DEF row
  <1>8. sessions \in [Session -> Row \cup {None}]
    BY DEF SessionsInv, SessionsTypeOK
  <1>9. /\ sessions'[s] = row /\ \A q \in Session \ {s} : sessions'[q] = sessions[q]
        /\ sessions' \in [Session -> Row \cup {None}]
    BY <1>2, <1>7, <1>8
  <1> QED BY <1>3, <1>5, <1>7, <1>9

\* A callback brings a code that fits, or none.
LEMMA CallbackBrings ==
  ASSUME SessionsInv, NEW s \in Session, CallbackArrives(s)
  PROVE  /\ sessions[s] # None
         /\ \E c \in Code \cup {Stray, None}, error \in BOOLEAN :
              CodeFits(c, s) /\ Callback(s, c, error)
  <1>1. PICK c \in {d \in DOMAIN codes : codes[d].session = s} \cup {Stray, None}, error \in BOOLEAN :
          Callback(s, c, error)
    BY DEF CallbackArrives
  <1>2. c \in Code \cup {Stray, None} /\ CodeFits(c, s)
    BY CodeTyped DEF SessionsInv, CodeFits
  <1> QED BY <1>1, <1>2 DEF CallbackArrives, ShowsState

LEMMA CallbackArrivesStep ==
  ASSUME SessionsInv, NEW s \in Session, CallbackArrives(s)
  PROVE  SessionsInv'
  <1>1. PICK c \in Code \cup {Stray, None}, error \in BOOLEAN : CodeFits(c, s) /\ Callback(s, c, error)
    BY CallbackBrings
  <1>2. sessions[s] # None
    BY CallbackBrings
  <1>3. /\ sessions'[s] \in Row
        /\ sessions'[s].authorization_code = c
        /\ sessions'[s].device_code = sessions[s].device_code
        /\ sessions'[s].account = sessions[s].account
        /\ sessions'[s].status = "completed" => c = None /\ sessions[s].status = "completed"
        /\ \A q \in Session \ {s} : sessions'[q] = sessions[q]
        /\ sessions' \in [Session -> Row \cup {None}]
        /\ UNCHANGED <<accounts, clock, codes, pc, job, lost>>
    BY <1>1, <1>2, CallbackRow
  <1>4. sessions'[s] # None /\ RowFits(s)
    BY <1>3, NoneAssumption DEF SessionsInv
  <1>5. SessionsTypeOK' /\ CodesGrow /\ SessionsStay
    BY <1>3, <1>4, NothingGrows DEF SessionsInv, SessionsTypeOK, SessionsStay
  <1>6. ASSUME NEW q \in Session PROVE RowFits(q)'
    <2>1. CASE q = s
      BY <1>1, <1>2, <1>3, <1>4, <2>1 DEF RowFits, CodeFits
    <2>2. CASE q # s
      BY <1>3, <1>5, <2>2, RowStillFits DEF SessionsInv
    <2> QED BY <2>1, <2>2
  <1> QED BY <1>3, <1>5, <1>6, OutsideStep

LEMMA LifetimeTyped == ASSUME NEW reply \in StartReplies PROVE StartSeconds(reply) \in Int
  <1>1. DefaultStart \in Nat /\ Unit \in Nat \ {0} /\ Half \in Nat \ {0}
    BY RepliesAssumption
  <1>2. reply \in Scalar
    BY SessionsAssumption
  <1>3. IsNumber(reply) => reply.n \in Int
    BY <1>2, RepliesAssumption DEF IsNumber, Scalar
  <1>4. StartLifetime(reply) \in Int
    BY <1>1, <1>3 DEF StartLifetime
  <1>5. StartLifetime(reply) * Unit \in Int /\ 2 * Half \in Nat \ {0}
    BY <1>1, <1>4
  <1>6. Until(StartLifetime(reply)) \in Int
    BY <1>1, <1>5 DEF Until, Bits, MinInt
  <1> QED BY <1>1, <1>6 DEF StartSeconds

\* A code is added.
LEMMA AppendGrows ==
  ASSUME SessionsTypeOK, Len(codes) < MaxCode, NEW new \in Issued,
         codes' = Append(codes, new)
  PROVE  /\ codes' \in Seq(Issued) /\ Len(codes') <= MaxCode /\ CodesGrow
         /\ Len(codes) + 1 \in Code /\ Len(codes) + 1 \in DOMAIN codes'
         /\ codes'[Len(codes) + 1] = new
         /\ DOMAIN codes' = DOMAIN codes \cup {Len(codes) + 1}
         /\ \A c \in DOMAIN codes : codes'[c] = codes[c]
  <1> DEFINE n == Len(codes)
  <1>1. codes \in Seq(Issued) /\ n \in Nat /\ MaxCode \in Nat /\ n < MaxCode
    BY SessionsAssumption DEF SessionsTypeOK
  <1>2. /\ codes' \in Seq(Issued) /\ Len(codes') = n + 1
        /\ \A c \in 1..n : codes'[c] = codes[c]
        /\ codes'[n + 1] = new
    BY <1>1, AppendProperties
  <1>3. DOMAIN codes = 1..n /\ DOMAIN codes' = 1..(n + 1)
    BY <1>1, <1>2
  <1> HIDE DEF n
  <1>4. 1..(n + 1) = 1..n \cup {n + 1} /\ n + 1 \in 1..MaxCode
    BY <1>1
  <1>5. CodesGrow
    BY <1>2, <1>3, <1>4 DEF CodesGrow
  <1> QED BY <1>1, <1>2, <1>3, <1>4, <1>5 DEF n, Code

LEMMA NewRowTyped ==
  ASSUME NEW asked \in Asked, Creatable(asked), NEW c \in Code \cup {None}, NEW end \in Int
  PROVE  LET row == NewRow(asked, c, end)
         IN /\ row \in Row /\ row.account = None /\ row.status = "pending"
            /\ row.device_code = c /\ row.authorization_code = None
  <1> DEFINE flow == FlowOf(asked)
             method == MethodOf(asked)
  <1>1. asked.key \in Key \cup {BadKey, None} /\ asked.hint \in Key \cup {None}
    BY SessionsAssumption
  <1>2. flow \in Flow /\ method \in Method
    BY DEF Creatable, Method
  <1> HIDE DEF flow, method
  <1>3. NewRow(asked, c, end) =
          [flow |-> flow, method |-> method, key |-> asked.key, hint |-> asked.hint,
           status |-> "pending", device_code |-> c, authorization_code |-> None,
           expires |-> end, account |-> None]
    BY DEF NewRow, flow, method
  <1> QED BY <1>1, <1>2, <1>3 DEF Row, Status

\* A new session, with or without a device code.
LEMMA NewSession ==
  ASSUME SessionsInv, NEW s \in Session, sessions[s] = None, NEW row \in Row,
         sessions' = [sessions EXCEPT ![s] = row], row.status = "pending",
         row.authorization_code = None, WillFit(row.device_code, s),
         codes' \in Seq(Issued), Len(codes') <= MaxCode, CodesGrow,
         UNCHANGED <<accounts, clock, requests, lost>>
  PROVE  SessionsInv'
  <1>1. sessions \in [Session -> Row \cup {None}]
    BY DEF SessionsInv, SessionsTypeOK
  <1>2. /\ sessions'[s] = row /\ \A q \in Session \ {s} : sessions'[q] = sessions[q]
        /\ sessions' \in [Session -> Row \cup {None}]
    BY <1>1
  <1>3. SessionsStay
    BY <1>2 DEF SessionsStay
  <1>4. SessionsTypeOK'
    BY <1>2 DEF SessionsInv, SessionsTypeOK, requests
  <1>5. RowFits(s)'
    BY <1>2 DEF RowFits, CodeFits, WillFit
  <1>6. \A q \in Session : RowFits(q)'
    BY <1>2, <1>5, RowStillFits DEF SessionsInv
  <1> QED BY <1>3, <1>4, <1>6, OutsideStep DEF requests

LEMMA CreateStep ==
  ASSUME SessionsInv, NEW s \in Session, NEW asked \in Asked,
         CreateForDevice(s, asked) \/ CreateForBrowser(s, asked)
  PROVE  SessionsInv'
  <1>1. CASE CreateForDevice(s, asked)
    <2> DEFINE new == [session |-> s, uid |-> None, spent |-> FALSE]
               n == Len(codes) + 1
    <2>1. new \in Issued /\ new.session = s
      BY DEF Issued
    <2>2. codes' = Append(codes, new) /\ Len(codes) < MaxCode
      BY <1>1 DEF CreateForDevice
    <2> HIDE DEF new
    <2>3. /\ codes' \in Seq(Issued) /\ Len(codes') <= MaxCode /\ CodesGrow
          /\ n \in Code /\ n \in DOMAIN codes' /\ codes'[n] = new
      BY <2>1, <2>2, AppendGrows DEF SessionsInv
    <2>4. PICK reply \in StartReplies :
            sessions' = [sessions EXCEPT ![s] = NewRow(asked, n, clock + StartSeconds(reply))]
      BY <1>1 DEF CreateForDevice
    <2>5. clock + StartSeconds(reply) \in Int
      BY LifetimeTyped, SessionsAssumption DEF SessionsInv, SessionsTypeOK
    <2> DEFINE row == NewRow(asked, n, clock + StartSeconds(reply))
    <2>6. /\ row \in Row /\ row.status = "pending" /\ row.device_code = n
          /\ row.authorization_code = None
      BY <1>1, <2>3, <2>5, NewRowTyped DEF CreateForDevice
    <2>7. sessions[s] = None /\ UNCHANGED <<accounts, clock, requests, lost>>
      BY <1>1 DEF CreateForDevice
    <2> HIDE DEF row, n
    <2>8. WillFit(row.device_code, s)
      BY <2>1, <2>3, <2>6 DEF WillFit
    <2> QED BY <2>3, <2>4, <2>6, <2>7, <2>8, NewSession DEF row
  <1>2. CASE CreateForBrowser(s, asked)
    <2> DEFINE row == NewRow(asked, None, clock + CallbackLifetime)
    <2>1. clock + CallbackLifetime \in Int
      BY SessionsAssumption DEF SessionsInv, SessionsTypeOK
    <2>2. /\ row \in Row /\ row.status = "pending" /\ row.device_code = None
          /\ row.authorization_code = None
      BY <1>2, <2>1, NewRowTyped DEF CreateForBrowser
    <2>3. /\ sessions[s] = None /\ sessions' = [sessions EXCEPT ![s] = row]
          /\ UNCHANGED <<accounts, clock, codes, requests, lost>>
      BY <1>2 DEF CreateForBrowser
    <2> HIDE DEF row
    <2>4. WillFit(row.device_code, s)
      BY <2>2 DEF WillFit
    <2>5. codes' \in Seq(Issued) /\ Len(codes') <= MaxCode /\ CodesGrow
      BY <2>3, NothingGrows DEF SessionsInv, SessionsTypeOK
    <2> QED BY <2>2, <2>3, <2>4, <2>5, NewSession
  <1> QED BY <1>1, <1>2

LEMMA AuthorizeStep ==
  ASSUME SessionsInv, NEW s \in Session, NEW u \in Uid, Authorize(s, u)
  PROVE  SessionsInv'
  <1> DEFINE new == [session |-> s, uid |-> u, spent |-> FALSE]
  <1>1. new \in Issued
    BY DEF Issued
  <1>2. /\ codes' = Append(codes, new) /\ Len(codes) < MaxCode
        /\ UNCHANGED <<sessions, accounts, clock, pc, job, lost>>
    BY DEF Authorize, service, requests
  <1> HIDE DEF new
  <1>3. codes' \in Seq(Issued) /\ Len(codes') <= MaxCode /\ CodesGrow
    BY <1>1, <1>2, AppendGrows DEF SessionsInv
  <1>4. SessionsStay /\ \A q \in Session : RowFits(q)'
    BY <1>2, <1>3, RowStillFits DEF SessionsInv, SessionsStay
  <1>5. SessionsTypeOK'
    BY <1>2, <1>3 DEF SessionsInv, SessionsTypeOK
  <1> QED BY <1>2, <1>3, <1>4, <1>5, OutsideStep

LEMMA ApproveMoves ==
  ASSUME SessionsInv, NEW c \in DOMAIN codes, NEW u \in Uid, ApproveDevice(c, u)
  PROVE  /\ codes' \in Seq(Issued) /\ Len(codes') = Len(codes) /\ DOMAIN codes' = DOMAIN codes
         /\ codes[c].uid = None /\ codes'[c].uid = u /\ codes'[c].session = codes[c].session
         /\ codes'[c].spent = codes[c].spent
         /\ \A d \in DOMAIN codes \ {c} : codes'[d] = codes[d]
         /\ UNCHANGED <<sessions, accounts, clock, pc, job, lost>>
  <1> DEFINE new == [codes[c] EXCEPT !.uid = u]
  <1>1. codes[c].uid = None /\ codes' = [codes EXCEPT ![c] = new]
    BY DEF ApproveDevice
  <1>2. codes \in Seq(Issued) /\ c \in 1..Len(codes) /\ codes[c] \in Issued
    BY CodeTyped DEF SessionsInv, SessionsTypeOK
  <1>3. new \in Issued /\ new.uid = u /\ new.session = codes[c].session /\ new.spent = codes[c].spent
    BY <1>2 DEF Issued
  <1> HIDE DEF new
  <1>4. /\ codes' \in Seq(Issued) /\ Len(codes') = Len(codes)
        /\ \A d \in 1..Len(codes) : codes'[d] = IF d = c THEN new ELSE codes[d]
    BY <1>1, <1>2, <1>3, ExceptSeq
  <1>5. DOMAIN codes' = DOMAIN codes /\ DOMAIN codes = 1..Len(codes)
    BY <1>2, <1>4
  <1>6. UNCHANGED <<sessions, accounts, clock, pc, job, lost>>
    BY DEF ApproveDevice, service, requests
  <1> QED BY <1>1, <1>2, <1>3, <1>4, <1>5, <1>6

LEMMA ApproveStep ==
  ASSUME SessionsInv, NEW c \in DOMAIN codes, NEW u \in Uid, ApproveDevice(c, u)
  PROVE  SessionsInv'
  <1>1. /\ codes' \in Seq(Issued) /\ Len(codes') = Len(codes) /\ DOMAIN codes' = DOMAIN codes
        /\ codes[c].uid = None /\ codes'[c].session = codes[c].session
        /\ codes'[c].spent = codes[c].spent
        /\ \A d \in DOMAIN codes \ {c} : codes'[d] = codes[d]
        /\ UNCHANGED <<sessions, accounts, clock, pc, job, lost>>
    BY ApproveMoves
  <1>2. CodesGrow /\ SessionsStay /\ SessionsTypeOK'
    BY <1>1 DEF CodesGrow, SessionsStay, SessionsInv, SessionsTypeOK
  <1>3. \A s \in Session : RowFits(s)'
    BY <1>1, <1>2, RowStillFits DEF SessionsInv
  <1> QED BY <1>1, <1>2, <1>3, OutsideStep
-----------------------------------------------------------------------------
(* The invariant *)

LEMMA SessionsInvInit == SessionsInit => SessionsInv
  <1> SUFFICES ASSUME SessionsInit PROVE SessionsInv
    OBVIOUS
  <1>1. codes = <<>> /\ codes \in Seq(Issued) /\ Len(codes) = 0 /\ DOMAIN codes = {}
    BY DEF SessionsInit
  <1>2. SessionsTypeOK
    BY <1>1, SessionsAssumption DEF SessionsInit, SessionsTypeOK, Stages
  <1>3. (\A s \in Session : RowFits(s)) /\ TokensAreTheirUsers
    BY DEF SessionsInit, RowFits, TokensAreTheirUsers
  <1>4. \A r \in Req : JobFits(r)
    BY DEF SessionsInit, JobFits, Redeeming
  <1> QED BY <1>2, <1>3, <1>4 DEF SessionsInv

LEMMA SessionsInvStep == SessionsInv /\ [SessionsNext]_vars => SessionsInv'
  <1> SUFFICES ASSUME SessionsInv, [SessionsNext]_vars PROVE SessionsInv'
    OBVIOUS
  <1>1. CASE Tick
    BY <1>1, TickStep
  <1>2. CASE \E s \in Session : CallbackArrives(s)
    BY <1>2, CallbackArrivesStep
  <1>3. CASE \E s \in Session, asked \in Asked : CreateForDevice(s, asked) \/ CreateForBrowser(s, asked)
    BY <1>3, CreateStep
  <1>4. CASE \E s \in Session, u \in Uid : Authorize(s, u)
    BY <1>4, AuthorizeStep
  <1>6. CASE \E c \in DOMAIN codes, u \in Uid : ApproveDevice(c, u)
    BY <1>6, ApproveStep
  <1>7. CASE \E r \in Req, s \in Session, offer \in Offers : Complete(r, s, offer)
    BY <1>7, CompleteStep
  <1>8. CASE \E r \in Req : Progress(r)
    BY <1>8, ProgressStep
  <1>9. CASE UNCHANGED vars
    <2>1. UNCHANGED <<sessions, accounts, clock, codes, pc, job, lost>>
      BY <1>9 DEF vars, service, requests
    <2>2. SessionsTypeOK' /\ CodesGrow /\ SessionsStay
      BY <2>1, NothingGrows DEF SessionsInv, SessionsTypeOK, SessionsStay
    <2>3. \A s \in Session : RowFits(s)'
      BY <2>1, <2>2, RowStillFits DEF SessionsInv
    <2> QED BY <2>1, <2>2, <2>3, OutsideStep
  <1> QED BY <1>1, <1>2, <1>3, <1>4, <1>6, <1>7, <1>8, <1>9 DEF SessionsNext

\* In every behaviour of any number of sessions, codes and concurrent completions,
\* the inductive invariant holds.
THEOREM SessionsInvariant == SessionsSafe => []SessionsInv
  BY SessionsInvInit, SessionsInvStep, PTL DEF SessionsSafe

\* The tables, the browsers and the completions in flight keep their types.
THEOREM SessionsTypeCorrect == SessionsSafe => []SessionsTypeOK
  <1>1. SessionsInv => SessionsTypeOK
    BY DEF SessionsInv
  <1> QED BY <1>1, SessionsInvariant, PTL

\* CompletedKeepsNoCode: what a poll shows as completed is bound and keeps no code.
THEOREM CompletedKeepsNoCodeCorrect == SessionsSafe => []CompletedKeepsNoCode
  <1>1. SessionsInv => CompletedKeepsNoCode
    <2> SUFFICES ASSUME SessionsInv, NEW s \in Session, Shown(s) = "completed"
                 PROVE  /\ sessions[s].account # None
                        /\ sessions[s].device_code = None
                        /\ sessions[s].authorization_code = None
      BY DEF CompletedKeepsNoCode
    <2>1. CASE sessions[s] # None
      <3>1. sessions[s].status = "completed"
        BY <2>1 DEF Shown
      <3> QED BY <2>1, <3>1 DEF SessionsInv, RowFits
    <2>2. CASE sessions[s] = None
      BY <2>2, NoneAssumption DEF Shown, Status
    <2> QED BY <2>1, <2>2
  <1> QED BY <1>1, SessionsInvariant, PTL

\* TokensAreTheirUsers: the token that is kept for a user was given for a code of this
\* user, with any number of codes, callbacks and completions of one session at once.
THEOREM TokensAreTheirUsersCorrect == SessionsSafe => []TokensAreTheirUsers
  <1>1. SessionsInv => TokensAreTheirUsers
    BY DEF SessionsInv
  <1> QED BY <1>1, SessionsInvariant, PTL
-----------------------------------------------------------------------------
(* A completion of an expired session read it before it expired *)

\* A session keeps its expiry, and only the end of a completion completes it.
LEMMA SessionMoves ==
  ASSUME SessionsInv, [SessionsNext]_vars, NEW s \in Session, sessions[s] # None
  PROVE  /\ sessions'[s].expires = sessions[s].expires
         /\ sessions'[s].status = "completed" =>
              \/ sessions[s].status = "completed"
              \/ \E r \in Req : pc[r] = "store" /\ job[r].session = s
  <1>1. CASE sessions' = sessions
    BY <1>1
  <1>2. ASSUME NEW q \in Session, sessions[q] = None,
               NEW row, sessions' = [sessions EXCEPT ![q] = row]
        PROVE  sessions'[s] = sessions[s]
    BY <1>2 DEF SessionsInv, SessionsTypeOK
  <1>3. CASE \E q \in Session, asked \in Asked : CreateForDevice(q, asked) \/ CreateForBrowser(q, asked)
    BY <1>2, <1>3 DEF CreateForDevice, CreateForBrowser
  <1>4. ASSUME NEW q \in Session, CallbackArrives(q)
        PROVE  /\ sessions'[s].expires = sessions[s].expires
               /\ sessions'[s].status = "completed" => sessions[s].status = "completed"
    <2>1. PICK c \in Code \cup {Stray, None}, error \in BOOLEAN : Callback(q, c, error)
      BY <1>4, CallbackBrings
    <2>2. sessions[q] # None
      BY <1>4, CallbackBrings
    <2> QED BY <2>1, <2>2, CallbackRow
  <1>5. CASE \E q \in Session : CallbackArrives(q)
    BY <1>4, <1>5
  <1>6. ASSUME NEW r \in Req, StoreCommits(r)
        PROVE  /\ sessions'[s].expires = sessions[s].expires
               /\ sessions'[s].status = "completed" =>
                    \/ sessions[s].status = "completed"
                    \/ pc[r] = "store" /\ job[r].session = s
    <2>1. pc[r] = "store"
      BY <1>6 DEF StoreCommits
    <2> QED BY <1>6, <2>1, StoredRow
  <1>7. \/ sessions' = sessions
        \/ \E q \in Session, asked \in Asked : CreateForDevice(q, asked) \/ CreateForBrowser(q, asked)
        \/ \E q \in Session : CallbackArrives(q)
        \/ \E r \in Req : StoreCommits(r)
    <2>1. CASE UNCHANGED vars
      BY <2>1 DEF vars, service
    <2>2. CASE SessionsNext
      BY <2>2 DEF SessionsNext, Tick, Authorize, ApproveDevice, Complete, Progress, ReadFinished,
        ReadExpired, ReadOpen, Answer, Exchange, ExchangeRefused, ExchangeLost, Identify, IdentifyFails,
        StoreFails, service
    <2> QED BY <2>1, <2>2
  <1> QED BY <1>1, <1>3, <1>5, <1>6, <1>7

\* What a completion read when it began; the session keeps its expiry since.
ReadInTime(r) ==
  pc[r] \in {"exchange", "userinfo", "store"} => job[r].since <= sessions[job[r].session].expires

InTime == \A r \in Req : ReadInTime(r)

\* A completion goes on with what it read, or reads a session that is not expired.
LEMMA JobMoves ==
  ASSUME SessionsInv, [SessionsNext]_vars, NEW r \in Req,
         pc'[r] \in {"exchange", "userinfo", "store"}
  PROVE  \/ /\ pc[r] \in {"exchange", "userinfo", "store"}
            /\ job'[r].session = job[r].session /\ job'[r].since = job[r].since
         \/ /\ pc[r] = "read" /\ ~ Expired(job[r].session) /\ sessions' = sessions
            /\ job'[r].session = job[r].session /\ job'[r].since = clock
  <1>1. SessionsTypeOK /\ pc \in [Req -> Stages] /\ job \in [Req -> Job \cup {NoJob}]
    BY DEF SessionsInv, SessionsTypeOK
  <1>2. CASE pc'[r] = pc[r] /\ job'[r] = job[r]
    BY <1>2
  <1>3. ASSUME NEW q \in Req, Reply(q) PROVE pc'[r] = pc[r] /\ job'[r] = job[r]
    <2>1. pc'[q] = "idle" /\ OthersStand(q)
      BY <1>1, <1>3, ReplyMoves
    <2> QED BY <2>1 DEF OthersStand
  <1>4. CASE \E q \in Req : Reply(q)
    BY <1>2, <1>3, <1>4
  <1>5. ASSUME NEW q \in Req, NEW s \in Session, NEW offer \in Offers, Complete(q, s, offer)
        PROVE  pc'[r] = pc[r] /\ job'[r] = job[r]
    BY <1>1, <1>5 DEF Complete, Goto
  <1>6. CASE \E q \in Req, s \in Session, offer \in Offers : Complete(q, s, offer)
    BY <1>2, <1>5, <1>6
  <1>7. ASSUME NEW q \in Req, ReadFinished(q) \/ Exchange(q)
        PROVE  /\ q # r => pc'[r] = pc[r] /\ job'[r] = job[r]
               /\ q = r => pc[r] = "exchange" /\ job'[r] = job[r]
    BY <1>1, <1>7 DEF ReadFinished, Exchange, Goto
  <1>8. CASE \E q \in Req : ReadFinished(q) \/ Exchange(q)
    BY <1>2, <1>7, <1>8
  <1>9. ASSUME NEW q \in Req, Identify(q) \/ ReadOpen(q), q # r
        PROVE  pc'[r] = pc[r] /\ job'[r] = job[r]
    BY <1>1, <1>9 DEF Identify, ReadOpen, Goto
  <1>10. CASE Identify(r)
    <2>1. /\ pc[r] = "userinfo" /\ job[r] \in Job
          /\ job'[r] = [job[r] EXCEPT !.envelope = Encrypted(r)]
      BY <1>1, <1>10, JobOfBusy DEF Identify
    <2> QED BY <2>1 DEF Job
  <1>11. CASE ReadOpen(r)
    <2> DEFINE coded == [job[r] EXCEPT !.code = CodeOf(job[r].session)]
    <2>1. /\ pc[r] = "read" /\ job[r] \in Job /\ ~ Expired(job[r].session) /\ sessions' = sessions
      BY <1>11, JobOfBusy DEF ReadOpen, service
    <2>2. job'[r] = [coded EXCEPT !.since = clock]
      BY <1>1, <1>11, <2>1 DEF ReadOpen, Job
    <2>3. coded.session = job[r].session /\ DOMAIN coded = DOMAIN job[r]
      BY <2>1 DEF Job
    <2>4. "since" \in DOMAIN job[r] /\ "session" \in DOMAIN job[r]
      BY <2>1 DEF Job
    <2> HIDE DEF coded
    <2> QED BY <2>1, <2>2, <2>3, <2>4
  <1>12. CASE \E q \in Req : Identify(q) \/ ReadOpen(q)
    BY <1>2, <1>9, <1>10, <1>11, <1>12
  <1>13. \/ pc' = pc /\ job' = job
         \/ \E q \in Req, s \in Session, offer \in Offers : Complete(q, s, offer)
         \/ \E q \in Req : Reply(q) \/ ReadFinished(q) \/ Exchange(q) \/ Identify(q) \/ ReadOpen(q)
    <2>1. CASE UNCHANGED vars
      BY <2>1 DEF vars, requests
    <2>2. CASE SessionsNext
      BY <2>2 DEF SessionsNext, Tick, Authorize, ApproveDevice, CreateForDevice, CreateForBrowser,
        CallbackArrives, Callback, Progress, ReadExpired, Answer, ExchangeRefused, ExchangeLost,
        IdentifyFails, StoreCommits, StoreFails, requests
    <2> QED BY <2>1, <2>2
  <1> QED BY <1>2, <1>4, <1>6, <1>8, <1>12, <1>13

LEMMA InTimeStep ==
  ASSUME SessionsInv, [SessionsNext]_vars, InTime
  PROVE  InTime'
  <1> SUFFICES ASSUME NEW r \in Req, pc'[r] \in {"exchange", "userinfo", "store"}
               PROVE  job'[r].since <= sessions'[job'[r].session].expires
    BY DEF InTime, ReadInTime
  <1>1. CASE /\ pc[r] \in {"exchange", "userinfo", "store"}
             /\ job'[r].session = job[r].session /\ job'[r].since = job[r].since
    <2>1. job[r].session \in Session /\ sessions[job[r].session] # None
      BY <1>1, JobOfBusy
    <2> QED BY <1>1, <2>1, SessionMoves DEF InTime, ReadInTime
  <1>2. CASE /\ pc[r] = "read" /\ ~ Expired(job[r].session) /\ sessions' = sessions
             /\ job'[r].session = job[r].session /\ job'[r].since = clock
    <2>1. sessions[job[r].session] \in Row /\ clock \in Nat
      BY <1>2, JobOfBusy, SessionsAssumption DEF SessionsInv, SessionsTypeOK
    <2>2. sessions[job[r].session].expires \in Int
      BY <2>1 DEF Row
    <2> QED BY <1>2, <2>1, <2>2 DEF Expired
  <1> QED BY <1>1, <1>2, JobMoves

\* ExpiredCompletesOnlyFromBefore: the completion of an expired session read it in time.
THEOREM ExpiredCompletesOnlyFromBeforeCorrect == SessionsSafe => ExpiredCompletesOnlyFromBefore
  <1>1. SessionsInit => InTime
    BY DEF SessionsInit, InTime, ReadInTime
  <1>2. SessionsInv /\ [SessionsNext]_vars /\ InTime => InTime'
    BY InTimeStep
  <1>3. SessionsInv /\ [SessionsNext]_vars /\ InTime =>
          [\A s \in Session :
             /\ Shown(s) \notin {None, "completed"} /\ Expired(s)
             /\ Shown(s)' = "completed"
             => \E r \in Req : /\ pc[r] = "store" /\ job[r].session = s
                               /\ job[r].since <= sessions[s].expires]_vars
    <2> SUFFICES ASSUME SessionsInv, [SessionsNext]_vars, InTime, NEW s \in Session,
                        Shown(s) \notin {None, "completed"}, Shown(s)' = "completed"
                 PROVE  \E r \in Req : /\ pc[r] = "store" /\ job[r].session = s
                                       /\ job[r].since <= sessions[s].expires
      OBVIOUS
    <2>1. sessions[s] # None /\ sessions[s].status # "completed"
      BY DEF Shown
    <2>2. sessions'[s].status = "completed"
      BY NoneAssumption DEF Shown, Status
    <2>3. PICK r \in Req : pc[r] = "store" /\ job[r].session = s
      BY <2>1, <2>2, SessionMoves
    <2> QED BY <2>3 DEF InTime, ReadInTime
  <1> QED BY <1>1, <1>2, <1>3, SessionsInvariant, PTL DEF SessionsSafe, ExpiredCompletesOnlyFromBefore
-----------------------------------------------------------------------------
(* BaiduSessions implements SessionBinding *)

Consented == {<<codes[c].session, codes[c].uid>> : c \in {d \in DOMAIN codes : codes[d].uid # None}}
OwnerOf(s) == IF sessions[s] = None THEN None ELSE sessions[s].account
Owner == [s \in Session |-> OwnerOf(s)]
Held == {u \in Uid : accounts[u] # None}

\* A step of the sessions as the binding sees it.
BindsOrStands == [Binding!BindingNext]_(Binding!bindingVars)

LEMMA Stands ==
  ASSUME Consented' = Consented, Owner' = Owner, Held' = Held
  PROVE  BindsOrStands
  BY DEF BindsOrStands, Binding!bindingVars, Consented, Owner, OwnerOf, Held

LEMMA OwnersStand ==
  ASSUME \A s \in Session : sessions'[s] = sessions[s] \/
           (sessions[s] = None /\ sessions'[s].account = None) \/
           (sessions[s] # None /\ sessions'[s] # None /\ sessions'[s].account = sessions[s].account)
  PROVE  Owner' = Owner
  <1>1. \A s \in Session : OwnerOf(s)' = OwnerOf(s)
    BY DEF OwnerOf
  <1> QED BY <1>1 DEF Owner

LEMMA ConsentsStand ==
  ASSUME DOMAIN codes' = DOMAIN codes,
         \A c \in DOMAIN codes : codes'[c].uid = codes[c].uid /\ codes'[c].session = codes[c].session
  PROVE  Consented' = Consented
  <1>1. {d \in DOMAIN codes' : codes'[d].uid # None} = {d \in DOMAIN codes : codes[d].uid # None}
    OBVIOUS
  <1> QED BY <1>1 DEF Consented

\* A user consents with a code that is new, or that nobody had approved.
LEMMA Consents ==
  ASSUME SessionsInv, NEW s \in Session, NEW u \in Uid, NEW c \in DOMAIN codes',
         DOMAIN codes' = DOMAIN codes \cup {c}, c \in DOMAIN codes => codes[c].uid = None,
         codes'[c].session = s, codes'[c].uid = u,
         \A d \in DOMAIN codes \ {c} : codes'[d] = codes[d],
         UNCHANGED <<sessions, accounts>>
  PROVE  BindsOrStands
  <1>1. u # None
    BY SessionsAssumption
  <1>2. {d \in DOMAIN codes' : codes'[d].uid # None}
          = {d \in DOMAIN codes : codes[d].uid # None} \cup {c}
    BY <1>1
  <1>3. \A d \in {e \in DOMAIN codes : codes[e].uid # None} : codes'[d] = codes[d]
    OBVIOUS
  <1>4. Consented' = Consented \cup {<<s, u>>}
    BY <1>2, <1>3 DEF Consented
  <1>5. Owner' = Owner /\ Held' = Held
    BY DEF Owner, OwnerOf, Held
  <1>6. Binding!Consent(s, u)
    BY <1>4, <1>5 DEF Binding!Consent, Consented, Owner, OwnerOf, Held
  <1> QED BY <1>6 DEF BindsOrStands, Binding!BindingNext

LEMMA CreateStands ==
  ASSUME SessionsInv, NEW s \in Session, NEW asked \in Asked,
         CreateForDevice(s, asked) \/ CreateForBrowser(s, asked)
  PROVE  BindsOrStands
  <1>1. Held' = Held
    BY DEF CreateForDevice, CreateForBrowser, Held
  <1>2. PICK row : sessions' = [sessions EXCEPT ![s] = row] /\ row.account = None
    <2>1. \A c, end : NewRow(asked, c, end).account = None
      BY DEF NewRow
    <2>2. \E c, end : sessions' = [sessions EXCEPT ![s] = NewRow(asked, c, end)]
      <3>1. CASE CreateForBrowser(s, asked)
        BY <3>1 DEF CreateForBrowser
      <3>2. CASE CreateForDevice(s, asked)
        <4>1. PICK reply \in StartReplies :
                sessions' = [sessions EXCEPT ![s] =
                  NewRow(asked, Len(codes) + 1, clock + StartSeconds(reply))]
          BY <3>2 DEF CreateForDevice
        <4> QED BY <4>1
      <3> QED BY <3>1, <3>2
    <2> QED BY <2>1, <2>2
  <1>3. Owner' = Owner
    <2>1. sessions[s] = None /\ sessions \in [Session -> Row \cup {None}]
      BY DEF CreateForDevice, CreateForBrowser, SessionsInv, SessionsTypeOK
    <2> QED BY <1>2, <2>1, OwnersStand
  <1>4. CASE CreateForBrowser(s, asked)
    <2>1. codes' = codes
      BY <1>4 DEF CreateForBrowser
    <2> QED BY <1>1, <1>3, <2>1, Stands DEF Consented
  <1>5. CASE CreateForDevice(s, asked)
    <2> DEFINE new == [session |-> s, uid |-> None, spent |-> FALSE]
    <2>1. codes' = Append(codes, new) /\ Len(codes) < MaxCode
      BY <1>5 DEF CreateForDevice
    <2>2. new \in Issued /\ new.uid = None
      BY DEF Issued
    <2> HIDE DEF new
    <2>3. /\ DOMAIN codes' = DOMAIN codes \cup {Len(codes) + 1}
          /\ codes'[Len(codes) + 1] = new
          /\ \A c \in DOMAIN codes : codes'[c] = codes[c]
      BY <2>1, <2>2, AppendGrows DEF SessionsInv
    <2>4. {d \in DOMAIN codes' : codes'[d].uid # None} = {d \in DOMAIN codes : codes[d].uid # None}
      BY <2>2, <2>3
    <2>5. Consented' = Consented
      BY <2>3, <2>4 DEF Consented
    <2> QED BY <1>1, <1>3, <2>5, Stands
  <1> QED BY <1>4, <1>5

LEMMA AuthorizeConsents ==
  ASSUME SessionsInv, NEW s \in Session, NEW u \in Uid, Authorize(s, u)
  PROVE  BindsOrStands
  <1> DEFINE new == [session |-> s, uid |-> u, spent |-> FALSE]
  <1>1. codes' = Append(codes, new) /\ Len(codes) < MaxCode /\ UNCHANGED <<sessions, accounts>>
    BY DEF Authorize, service
  <1>2. new \in Issued /\ new.uid = u /\ new.session = s
    BY DEF Issued
  <1> HIDE DEF new
  <1>3. /\ DOMAIN codes' = DOMAIN codes \cup {Len(codes) + 1}
        /\ codes'[Len(codes) + 1] = new
        /\ \A c \in DOMAIN codes : codes'[c] = codes[c]
        /\ Len(codes) + 1 \notin DOMAIN codes
    <2>1. codes \in Seq(Issued)
      BY DEF SessionsInv, SessionsTypeOK
    <2>2. Len(codes) \in Nat /\ DOMAIN codes = 1..Len(codes)
      BY <2>1
    <2>3. Len(codes) + 1 \notin DOMAIN codes
      BY <2>2
    <2> QED BY <1>1, <1>2, <2>3, AppendGrows DEF SessionsInv
  <1> DEFINE c == Len(codes) + 1
  <1>4. c \in DOMAIN codes' /\ codes'[c].session = s /\ codes'[c].uid = u
    BY <1>2, <1>3
  <1>5. PICK d : d = c
    OBVIOUS
  <1> QED BY <1>1, <1>3, <1>4, <1>5, Consents

LEMMA ApproveConsents ==
  ASSUME SessionsInv, NEW c \in DOMAIN codes, NEW u \in Uid, ApproveDevice(c, u)
  PROVE  BindsOrStands
  <1>1. PICK s \in Session : codes[c].session = s
    BY CodeTyped DEF SessionsInv
  <1> QED BY <1>1, ApproveMoves, Consents

LEMMA StoreBinds ==
  ASSUME SessionsInv, NEW r \in Req, StoreCommits(r)
  PROVE  BindsOrStands
  <1>1. PICK s \in Session, u \in Uid :
          /\ s = job[r].session /\ u = codes[job[r].code].uid /\ u # None
          /\ \A q \in Session \ {s} : sessions'[q] = sessions[q]
          /\ sessions'[s] \in Row /\ sessions'[s].account = u
          /\ accounts'[u] # None /\ \A w \in Uid \ {u} : accounts'[w] = accounts[w]
    BY StoredRow
  <1>2. Redeeming(r) /\ codes' = codes
    BY DEF StoreCommits, Redeeming
  <1>3. Consented' = Consented
    BY <1>2 DEF Consented
  <1>4. <<s, u>> \in Consented
    BY <1>1, <1>2, HandsFit DEF Consented
  <1>5. Owner' = [Owner EXCEPT ![s] = u]
    <2>1. \A q \in Session : OwnerOf(q)' = IF q = s THEN u ELSE OwnerOf(q)
      BY <1>1, NoneAssumption DEF OwnerOf
    <2> QED BY <2>1 DEF Owner
  <1>6. Held' = Held \cup {u}
    BY <1>1 DEF Held
  <1>7. Binding!Bind(s, u)
    BY <1>3, <1>4, <1>5, <1>6 DEF Binding!Bind, Consented, Owner, OwnerOf, Held
  <1> QED BY <1>7 DEF BindsOrStands, Binding!BindingNext

LEMMA CallbackStands ==
  ASSUME SessionsInv, NEW s \in Session, CallbackArrives(s)
  PROVE  BindsOrStands
  <1>1. PICK c \in Code \cup {Stray, None}, error \in BOOLEAN : Callback(s, c, error)
    BY CallbackBrings
  <1>2. sessions[s] # None
    BY CallbackBrings
  <1>3. /\ sessions'[s] \in Row /\ sessions'[s].account = sessions[s].account
        /\ \A q \in Session \ {s} : sessions'[q] = sessions[q]
        /\ accounts' = accounts /\ codes' = codes
    BY <1>1, <1>2, CallbackRow
  <1>4. Owner' = Owner
    BY <1>2, <1>3, NoneAssumption, OwnersStand
  <1>5. Held' = Held /\ Consented' = Consented
    BY <1>3 DEF Held, Consented
  <1> QED BY <1>4, <1>5, Stands

LEMMA RedeemStands ==
  ASSUME SessionsInv, NEW r \in Req, Exchange(r) \/ ExchangeLost(r)
  PROVE  BindsOrStands
  <1>1. Redeem(job[r].code) /\ UNCHANGED <<sessions, accounts>>
    BY DEF Exchange, ExchangeLost, service
  <1>2. Consented' = Consented
    BY <1>1, RedeemMoves, ConsentsStand
  <1>3. Owner' = Owner /\ Held' = Held
    BY <1>1 DEF Owner, OwnerOf, Held
  <1> QED BY <1>2, <1>3, Stands

LEMMA BindingStep == SessionsInv /\ [SessionsNext]_vars => BindsOrStands
  <1> SUFFICES ASSUME SessionsInv, [SessionsNext]_vars PROVE BindsOrStands
    OBVIOUS
  <1>1. CASE UNCHANGED <<sessions, accounts, codes>>
    BY <1>1, Stands DEF Consented, Owner, OwnerOf, Held
  <1>2. CASE \E s \in Session, asked \in Asked : CreateForDevice(s, asked) \/ CreateForBrowser(s, asked)
    BY <1>2, CreateStands
  <1>3. CASE \E s \in Session, u \in Uid : Authorize(s, u)
    BY <1>3, AuthorizeConsents
  <1>4. CASE \E c \in DOMAIN codes, u \in Uid : ApproveDevice(c, u)
    BY <1>4, ApproveConsents
  <1>5. CASE \E r \in Req : StoreCommits(r)
    BY <1>5, StoreBinds
  <1>6. CASE \E s \in Session : CallbackArrives(s)
    BY <1>6, CallbackStands
  <1>7. CASE \E r \in Req : Exchange(r) \/ ExchangeLost(r)
    BY <1>7, RedeemStands
  <1>8. \/ UNCHANGED <<sessions, accounts, codes>>
        \/ \E s \in Session, asked \in Asked : CreateForDevice(s, asked) \/ CreateForBrowser(s, asked)
        \/ \E s \in Session, u \in Uid : Authorize(s, u)
        \/ \E c \in DOMAIN codes, u \in Uid : ApproveDevice(c, u)
        \/ \E r \in Req : StoreCommits(r)
        \/ \E s \in Session : CallbackArrives(s)
        \/ \E r \in Req : Exchange(r) \/ ExchangeLost(r)
    <2>1. CASE UNCHANGED vars
      BY <2>1 DEF vars, service
    <2>2. CASE SessionsNext
      BY <2>2 DEF SessionsNext, Tick, Complete, Progress, ReadFinished, ReadExpired, ReadOpen,
        Answer, ExchangeRefused, Identify, IdentifyFails, StoreFails, service
    <2> QED BY <2>1, <2>2
  <1> QED BY <1>1, <1>2, <1>3, <1>4, <1>5, <1>6, <1>7, <1>8

\* ImplementsBinding: the sessions implement SessionBinding, so that an account is
\* bound only by the consent of its user, and its token is held from then on.
THEOREM ImplementsBindingCorrect == SessionsSafe => ImplementsBinding
  <1>1. SessionsInit => Binding!BindingInit
    <2> SUFFICES ASSUME SessionsInit PROVE Binding!BindingInit
      OBVIOUS
    <2>1. DOMAIN codes = {}
      BY DEF SessionsInit
    <2>2. Consented = {} /\ Held = {} /\ Owner = [s \in Session |-> None]
      BY <2>1 DEF SessionsInit, Consented, Owner, OwnerOf, Held
    <2> QED BY <2>2 DEF Binding!BindingInit, Consented, Owner, OwnerOf, Held
  <1>2. SessionsInv /\ [SessionsNext]_vars => [Binding!BindingNext]_(Binding!bindingVars)
    BY BindingStep DEF BindsOrStands
  <1> QED BY <1>1, <1>2, SessionsInvariant, PTL DEF SessionsSafe, ImplementsBinding, Binding!BindingSpec

\* What the binding promises holds of the sessions: a session that has an account has
\* the consent of that account's user, whose token the cloud holds.
THEOREM BoundByConsentCorrect == SessionsSafe => []Binding!BoundByConsent
  <1>1. SessionsInit => Binding!BoundByConsent
    BY DEF SessionsInit, Binding!BoundByConsent
  <1>2. BindsOrStands /\ Binding!BoundByConsent => Binding!BoundByConsent'
    <2> DEFINE Bound(s) == Owner[s] # None => <<s, Owner[s]>> \in Consented /\ Owner[s] \in Held
    <2>1. /\ Binding!BoundByConsent <=> \A s \in Session : Bound(s)
          /\ Binding!BoundByConsent' <=> \A s \in Session : Bound(s)'
      BY DEF Binding!BoundByConsent, Consented, Owner, OwnerOf, Held
    <2>2. BindsOrStands <=>
            \/ \E s \in Session, u \in Uid :
                 \/ Consented' = Consented \cup {<<s, u>>} /\ Owner' = Owner /\ Held' = Held
                 \/ /\ <<s, u>> \in Consented /\ Owner' = [Owner EXCEPT ![s] = u]
                    /\ Held' = Held \cup {u} /\ Consented' = Consented
            \/ Consented' = Consented /\ Owner' = Owner /\ Held' = Held
      BY DEF BindsOrStands, Binding!BindingNext, Binding!Consent, Binding!Bind, Binding!bindingVars,
        Consented, Owner, OwnerOf, Held
    <2>3. DOMAIN Owner = Session
      BY DEF Owner
    <2> HIDE DEF BindsOrStands
    <2> QED BY <2>1, <2>2, <2>3
  <1> QED BY <1>1, <1>2, SessionsInvariant, BindingStep, PTL DEF SessionsSafe
-----------------------------------------------------------------------------
(* Who the user is *)

\* A number within Exact is the float that is nearest to it.
LEMMA ExactFloats ==
  ASSUME NEW n \in -Exact..Exact
  PROVE  NearestFloats(n) = {n}
  <1>1. Exact \in Int /\ n \in Int /\ n \in Floats /\ Floats \subseteq Int
    <2>1. -Exact..Exact \subseteq Floats /\ Floats \subseteq Int
      BY RepliesAssumption
    <2>2. Exact \in Int
      BY RepliesAssumption
    <2> QED BY <2>1, <2>2
  <1>2. Distance(n, n) = 0 /\ \A f \in Floats : Distance(f, n) \in Nat /\ (f # n => Distance(f, n) > 0)
    BY <1>1 DEF Distance
  <1>3. \A f \in NearestFloats(n) : f = n
    BY <1>1, <1>2 DEF NearestFloats
  <1>4. n \in NearestFloats(n)
    BY <1>1, <1>2 DEF NearestFloats
  <1> QED BY <1>3, <1>4

LEMMA ExactFromFloat ==
  ASSUME NEW n \in -Exact..Exact
  PROVE  FromFloat(n) = {n} /\ InRange(n)
  <1>1. /\ Half \in Nat \ {0} /\ Exact \in Int /\ Exact <= Half - 1
    BY RepliesAssumption DEF MaxInt
  <1>2. InRange(n)
    BY <1>1 DEF InRange, MinInt, MaxInt
  <1>3. Truncations(n) = {n}
    BY <1>2 DEF Truncations
  <1> QED BY <1>2, <1>3, ExactFloats DEF FromFloat

\* What is read of one field: its own name, if it has one, and else nothing.
LEMMA NamesRead ==
  ASSUME NEW v \in Scalar
  PROVE  /\ v \in {Absent, Null, Other} => NamesOf(v) = {Absent}
         /\ Readable(v) => NamesOf(v) = {OwnName(v)} /\ OwnName(v) # Absent
  <1>1. IsNumber(v) => v.n \in Int /\ v.form \in Forms
    BY RepliesAssumption DEF IsNumber, Scalar
  <1>2. v \in {Absent, Null, Other} => NamesOf(v) = {Absent}
    BY DEF NamesOf
  <1>3. CASE v = Word
    BY <1>2, <1>3, ReplyFormsAssumption DEF NamesOf, OwnName
  <1>4. CASE IsNumber(v) /\ Readable(v)
    <2>1. v \notin {Absent, Null, Other, Word}
      BY <1>4 DEF IsNumber
    <2>2. OwnName(v) = Spelled(IF v.form = "padded" THEN "padded" ELSE "text", v.n)
      BY <2>1 DEF OwnName
    <2>3. OwnName(v) \in [spelling: {"text", "padded"}, n: Int]
      BY <1>1, <1>4, <2>2 DEF Spelled
    <2>4. OwnName(v) # Absent
      BY <2>3, ReplyFormsAssumption
    <2>5. CASE IsText(v)
      BY <2>1, <2>2, <2>4, <2>5 DEF NamesOf, IsText
    <2>6. CASE ~ IsText(v)
      <3>1. v.form # "padded" /\ OwnName(v) = Spelled("text", v.n)
        BY <2>2, <2>6 DEF IsText
      <3>2. IntegersOf(v) = {v.n}
        BY <1>4, <2>1, <2>6, ExactFromFloat DEF Readable, IntegersOf
      <3>3. NamesOf(v) = {Spelled("text", n) : n \in {v.n}}
        BY <2>1, <2>6, <3>2 DEF NamesOf
      <3> QED BY <2>1, <2>4, <3>1, <3>3
    <2> QED BY <2>5, <2>6
  <1> QED BY <1>2, <1>3, <1>4 DEF Readable

LEMMA UidComesFirst ==
  ASSUME NEW uid \in Scalar, NEW uk \in Scalar
  PROVE  NamedByUidFirst(uid, uk)
  <1>1. \A v \in Scalar : v \in {Absent, Null, Other} => ~ Readable(v)
    BY ReplyFormsAssumption DEF Readable, IsNumber
  <1>2. CASE uid \in {Absent, Null, Other}
    <2>1. UserNames(uid, uk) = NamesOf(uk)
      BY <1>2, NamesRead DEF UserNames
    <2> QED BY <1>2, <2>1, NamesRead DEF NamedByUidFirst
  <1>3. CASE uid \notin {Absent, Null, Other}
    <2>1. SUFFICES ASSUME Readable(uid) PROVE UserNames(uid, uk) = {OwnName(uid)}
      BY <1>3, <2>1 DEF NamedByUidFirst
    <2>2. NamesOf(uid) = {OwnName(uid)} /\ OwnName(uid) # Absent
      BY <2>1, NamesRead
    <2> QED BY <2>2 DEF UserNames
  <1> QED BY <1>2, <1>3

\* UserIsNamed: a user is named by uid where there is one, as Baidu spells it, whatever
\* the width of the integers and the numbers that float64 has.
THEOREM UserIsNamedCorrect == SessionsSafe => []UserIsNamed
  <1>1. UserIsNamed
    BY UidComesFirst DEF UserIsNamed, NamesAreOwn
  <1> QED BY <1>1, PTL
-----------------------------------------------------------------------------
(* How long a token lives *)

\* A number in a reply is an integer, and the default of a token's lifetime is positive.
LEMMA ReplyTypes ==
  ASSUME NEW v \in Scalar
  PROVE  /\ Half \in Nat \ {0} /\ Unit \in Nat \ {0} /\ DefaultLifetime \in Nat \ {0}
         /\ IsNumber(v) => v.n \in Int
  <1>1. Half \in Nat \ {0} /\ Unit \in Nat \ {0} /\ Numbers \subseteq Int
    BY RepliesAssumption
  <1>2. DefaultLifetime \in 1..((Half - 1) \div Unit)
    BY RepliesAssumption DEF MaxInt
  <1>3. (Half - 1) \div Unit \in Int
    BY <1>1
  <1>4. IsNumber(v) => v.n \in Int
    BY <1>1 DEF IsNumber, Scalar
  <1> QED BY <1>1, <1>2, <1>3, <1>4

\* A product that fits is not changed by the width of the integers.
LEMMA ShortLifetimeFits ==
  ASSUME NEW n \in Nat, n <= Longest
  PROVE  Until(n) = n * Unit
  <1>1. Half \in Nat \ {0} /\ Unit \in Nat \ {0}
    BY RepliesAssumption
  <1>2. n <= (Half - 1) \div Unit
    BY DEF Longest, MaxInt
  <1>3. n * Unit <= Half - 1 /\ n * Unit \in Nat
    BY <1>1, <1>2
  <1>4. (n * Unit + Half) % (2 * Half) = n * Unit + Half
    BY <1>1, <1>3
  <1> QED BY <1>1, <1>3, <1>4 DEF Until, Bits, MinInt

\* What is not positive stays so in float64: zero is nearer than every positive float.
LEMMA FloatKeepsSign ==
  ASSUME NEW n \in Int, n <= 0
  PROVE  \A m \in FromFloat(n) : m <= 0
  <1>1. Floats \subseteq Int /\ 0 \in Floats /\ Half \in Nat \ {0}
    <2>1. -Exact..Exact \subseteq Floats /\ Floats \subseteq Int /\ Half \in Nat \ {0}
      BY RepliesAssumption
    <2>2. Exact \in Nat
      <3>1. Half \in Nat \ {0} /\ Unit \in Nat \ {0}
        BY RepliesAssumption
      <3>2. (Half - 1) \div Unit \in Nat
        BY <3>1
      <3> QED BY <3>1, <3>2, RepliesAssumption DEF MaxInt
    <2> QED BY <2>1, <2>2
  <1> SUFFICES ASSUME NEW f \in NearestFloats(n), NEW m \in Truncations(f)
               PROVE  m <= 0
    BY DEF FromFloat
  <1>2. f \in Int /\ Distance(f, n) <= Distance(0, n)
    BY <1>1 DEF NearestFloats
  <1>3. f <= 0
    BY <1>2 DEF Distance
  <1> QED BY <1>1, <1>2, <1>3 DEF Truncations, Nearest, InRange, MinInt, MaxInt

\* A lifetime that can be meant is positive and is what the parser returns, and
\* everything else comes out as zero or less.
LEMMA LifetimeRead ==
  ASSUME NEW v \in Scalar, Meant(v, DefaultLifetime) <= Longest
  PROVE  TokenLifetimes(v) \subseteq {Meant(v, DefaultLifetime)}
  <1>1. /\ Half \in Nat \ {0} /\ Unit \in Nat \ {0} /\ DefaultLifetime \in Nat \ {0}
        /\ (IsNumber(v) => v.n \in Int)
    BY ReplyTypes
  <1>2. CASE IsNumber(v) /\ v.n > 0
    <2>1. v.n \in Nat /\ v.n <= (Half - 1) \div Unit /\ (Half - 1) \div Unit \in Int
      BY <1>1, <1>2 DEF Meant, Longest, MaxInt
    <2>2. Exact \in Int /\ (Half - 1) \div Unit <= Exact
      BY <1>1, <2>1, RepliesAssumption DEF MaxInt
    <2>3. v.n \in -Exact..Exact
      BY <2>1, <2>2
    <2>4. FromFloat(v.n) = {v.n} /\ InRange(v.n)
      BY <2>3, ExactFromFloat
    <2>5. Nearest(v.n) = v.n
      BY <1>1, <2>1, <2>4 DEF Nearest, InRange, MinInt, MaxInt
    <2>6. ParseInt64(v) = {v.n}
      BY <1>2, <2>4, <2>5 DEF ParseInt64, IntegersOf
    <2> QED BY <1>1, <1>2, <2>6 DEF TokenLifetimes, Meant
  <1>3. CASE ~ (IsNumber(v) /\ v.n > 0)
    <2>1. ASSUME NEW n \in ParseInt64(v) PROVE n <= 0
      <3>1. CASE ~ IsNumber(v)
        BY <2>1, <3>1 DEF ParseInt64
      <3>2. CASE IsNumber(v) /\ IsText(v)
        BY <1>1, <1>3, <2>1, <3>2 DEF ParseInt64, Nearest, MinInt, MaxInt
      <3>3. CASE IsNumber(v) /\ ~ IsText(v)
        <4>1. n = v.n \/ n \in FromFloat(v.n)
          BY <2>1, <3>3 DEF ParseInt64, IntegersOf
        <4> QED BY <1>1, <1>3, <3>3, <4>1, FloatKeepsSign
      <3> QED BY <3>1, <3>2, <3>3
    <2> QED BY <1>3, <2>1 DEF TokenLifetimes, Meant
  <1> QED BY <1>2, <1>3

\* A token ends when Baidu said, and later than it was obtained.
LEMMA TokenEnds ==
  ASSUME NEW v \in Scalar
  PROVE  TokenEndsAsMeant(v)
  <1> DEFINE meant == Meant(v, DefaultLifetime)
  <1>1. SUFFICES ASSUME meant <= Longest
                 PROVE  \A n \in TokenLifetimes(v) : Until(n) = meant * Unit /\ Until(n) > 0
    BY DEF TokenEndsAsMeant
  <1>2. meant \in Nat /\ meant > 0 /\ Unit \in Nat \ {0}
    BY ReplyTypes DEF Meant
  <1>3. TokenLifetimes(v) \subseteq {meant}
    BY <1>1, LifetimeRead
  <1> HIDE DEF meant
  <1>4. Until(meant) = meant * Unit
    BY <1>1, <1>2, ShortLifetimeFits
  <1>5. meant * Unit > 0
    BY <1>2
  <1> QED BY <1>3, <1>4, <1>5

\* LifetimeIsMeant: whatever Baidu answers to a completion, in whatever form, a lifetime
\* of at most Longest makes a token that ends when Baidu said, for every width of the
\* integers and every unit of time.
THEOREM LifetimeIsMeantCorrect == SessionsSafe => []LifetimeIsMeant
  <1>1. LifetimeIsMeant
    BY TokenEnds DEF LifetimeIsMeant, LifetimesAreMeant
  <1> QED BY <1>1, PTL
=============================================================================
