-------------------------- MODULE BaiduAccountsProofs --------------------------
(***************************************************************************)
(* Proofs about BaiduAccounts, for any number of accounts, devices and      *)
(* requests and for any clash of lock keys.  The inductive invariant is     *)
(* AccountsInv: between its statements a transaction keeps what its locks   *)
(* protect, and an update knows the row of its version.                     *)
(***************************************************************************)
EXTENDS BaiduAccounts, TLAPS

LEMMA Counters ==
  AccountsTypeOK => clock \in Nat /\ minted \in Nat /\ MaxToken \in Nat /\ MaxClock \in Nat
  BY AccountsAssumption DEF AccountsTypeOK

ReqInv(r) == JobFits(r) /\ CompletionOwns(r) /\ UpdateKnows(r) /\ LeaseKnows(r)

\* The other requests stand where they stood.
OthersStand(r) == \A q \in Req \ {r} : pc'[q] = pc[q] /\ job'[q] = job[q]

LEMMA GotoMoves ==
  ASSUME AccountsTypeOK, NEW r \in Req, NEW stage \in Stages, Goto(r, stage)
  PROVE  /\ pc'[r] = stage
         /\ \A q \in Req \ {r} : pc'[q] = pc[q]
         /\ pc' \in [Req -> Stages]
  BY DEF Goto, AccountsTypeOK

LEMMA StartMoves ==
  ASSUME AccountsTypeOK, NEW r \in Req, NEW stage \in Stages, NEW j \in Job, Start(r, stage, j)
  PROVE  /\ pc[r] = "idle" /\ pc'[r] = stage /\ job'[r] = j
         /\ OthersStand(r)
         /\ pc' \in [Req -> Stages] /\ job' \in [Req -> Job \cup {NoJob}]
  BY GotoMoves DEF Start, AccountsTypeOK, OthersStand

LEMMA FinishMoves ==
  ASSUME AccountsTypeOK, NEW r \in Req, Finish(r)
  PROVE  /\ pc'[r] = "idle" /\ job'[r] = NoJob
         /\ OthersStand(r)
         /\ pc' \in [Req -> Stages] /\ job' \in [Req -> Job \cup {NoJob}]
  BY GotoMoves DEF Finish, AccountsTypeOK, OthersStand, Stages

LEMMA RequestIsJob ==
  ASSUME NEW d \in Device, NEW u \in Uid
  PROVE  /\ Request(d, u) \in Job
         /\ Request(d, u) = [device |-> d, uid |-> u, token |-> 0, version |-> 0,
                             base |-> 0, status |-> "unset", seen |-> "unset", until |-> 0]
  <1> DEFINE named == [NoJob EXCEPT !.device = d]
  <1>a. named = [device |-> d, uid |-> NoRow, token |-> 0, version |-> 0,
                 base |-> 0, status |-> "unset", seen |-> "unset", until |-> 0]
    BY DEF NoJob
  <1>b. Request(d, u) = [named EXCEPT !.uid = u]
    BY DEF Request, NoJob
  <1> HIDE DEF named
  <1>1. Request(d, u) = [device |-> d, uid |-> u, token |-> 0, version |-> 0,
                         base |-> 0, status |-> "unset", seen |-> "unset", until |-> 0]
    BY <1>a, <1>b
  <1>2. 0 \in 0..MaxToken
    BY AccountsAssumption
  <1> QED BY <1>1, <1>2 DEF Job

\* A request keeps its part of the invariant while the tables and the clock do.
LEMMA Standing ==
  ASSUME NEW q \in Req, ReqInv(q), pc'[q] = pc[q], job'[q] = job[q],
         UNCHANGED <<accounts, leases, clock>>
  PROVE  ReqInv(q)'
  BY DEF ReqInv, JobFits, CompletionOwns, UpdateKnows, LeaseKnows, Completing, Updating, Leasing

LEMMA ApartStands ==
  ASSUME NEW p \in Req, NEW q \in Req, LocksApart(p, q),
         pc'[p] = pc[p], job'[p] = job[p], pc'[q] = pc[q], job'[q] = job[q]
  PROVE  LocksApart(p, q)'
  BY DEF LocksApart, HoldsAdvisory, HoldsUidLock, HoldsLeaseLock, AdvisoryKey

\* The locks stay apart when a request keeps to the lock it holds or gives it up.
LEMMA LocksStayApart ==
  ASSUME \A p, q \in Req : p # q => LocksApart(p, q), NEW r \in Req, OthersStand(r),
         \/ ~ HoldsAdvisory(r)'
         \/ HoldsAdvisory(r) /\ AdvisoryKey(r)' = AdvisoryKey(r)
         \/ AdvisoryFree(r) /\ AdvisoryKey(r)' = AdvisoryKey(r)
  PROVE  (\A p, q \in Req : p # q => LocksApart(p, q))'
  <1> SUFFICES ASSUME NEW p \in Req, NEW q \in Req, p # q PROVE LocksApart(p, q)'
    OBVIOUS
  <1>1. \A s \in Req \ {r} : HoldsAdvisory(s)' = HoldsAdvisory(s) /\ AdvisoryKey(s)' = AdvisoryKey(s)
    BY DEF OthersStand, HoldsAdvisory, HoldsUidLock, HoldsLeaseLock, AdvisoryKey
  <1>2. CASE p # r /\ q # r
    BY <1>1, <1>2 DEF LocksApart
  <1>3. CASE p = r
    BY <1>1, <1>3 DEF LocksApart, AdvisoryFree, HoldsAdvisory
  <1>4. CASE q = r
    BY <1>1, <1>4 DEF LocksApart, AdvisoryFree, HoldsAdvisory
  <1> QED BY <1>2, <1>3, <1>4

\* A step of one request that leaves the tables and what devices know alone.
LEMMA PrivateStep ==
  ASSUME AccountsInv, AccountsTypeOK', NEW r \in Req, OthersStand(r), ReqInv(r)',
         UNCHANGED <<accounts, leases, clock, known>>,
         \/ ~ HoldsAdvisory(r)'
         \/ HoldsAdvisory(r) /\ AdvisoryKey(r)' = AdvisoryKey(r)
         \/ AdvisoryFree(r) /\ AdvisoryKey(r)' = AdvisoryKey(r)
  PROVE  AccountsInv'
  <1>1. VersionNamesToken' /\ LeasesAreShort'
    BY DEF AccountsInv, VersionNamesToken, LeasesAreShort
  <1>2. \A q \in Req \ {r} : ReqInv(q)'
    BY Standing DEF AccountsInv, ReqInv, OthersStand
  <1>3. (\A p, q \in Req : p # q => LocksApart(p, q))'
    BY LocksStayApart DEF AccountsInv
  <1> QED BY <1>1, <1>2, <1>3 DEF AccountsInv, ReqInv

\* A request that ends without having changed anything.
LEMMA EndsQuietly ==
  ASSUME AccountsInv, NEW r \in Req, Finish(r), UNCHANGED <<tables, clock, minted, clients>>
  PROVE  AccountsInv'
  <1>1. /\ pc'[r] = "idle" /\ job'[r] = NoJob /\ OthersStand(r)
        /\ pc' \in [Req -> Stages] /\ job' \in [Req -> Job \cup {NoJob}]
    BY FinishMoves DEF AccountsInv
  <1>2. AccountsTypeOK'
    BY <1>1 DEF AccountsInv, AccountsTypeOK, tables, clients
  <1>3. ReqInv(r)' /\ ~ HoldsAdvisory(r)'
    BY <1>1 DEF ReqInv, JobFits, CompletionOwns, UpdateKnows, LeaseKnows, Completing, Updating,
                Leasing, HoldsAdvisory, HoldsUidLock, HoldsLeaseLock
  <1> QED BY <1>1, <1>2, <1>3, PrivateStep DEF tables, clients

\* A request that goes to its next statement and changes only its own job.
LEMMA GoesOn ==
  ASSUME AccountsInv, NEW r \in Req, NEW stage \in Stages, Goto(r, stage),
         job' = [job EXCEPT ![r] = job'[r]], job'[r] \in Job \cup {NoJob},
         UNCHANGED <<tables, clock, minted, clients>>, ReqInv(r)',
         \/ ~ HoldsAdvisory(r)'
         \/ HoldsAdvisory(r) /\ AdvisoryKey(r)' = AdvisoryKey(r)
         \/ AdvisoryFree(r) /\ AdvisoryKey(r)' = AdvisoryKey(r)
  PROVE  AccountsInv'
  <1>1. pc' \in [Req -> Stages] /\ \A q \in Req \ {r} : pc'[q] = pc[q]
    BY GotoMoves DEF AccountsInv
  <1>2. job' \in [Req -> Job \cup {NoJob}] /\ \A q \in Req \ {r} : job'[q] = job[q]
    BY DEF AccountsInv, AccountsTypeOK
  <1>3. AccountsTypeOK' /\ OthersStand(r)
    BY <1>1, <1>2 DEF AccountsInv, AccountsTypeOK, OthersStand, tables, clients
  <1> QED BY <1>3, PrivateStep DEF tables, clients
-----------------------------------------------------------------------------
(* The requests begin *)

LEMMA StartStep ==
  ASSUME AccountsInv, NEW r \in Req, NEW d \in Device, NEW u \in Uid,
         \/ Complete(r, d, u) \/ Select(r, d, u)
         \/ \E status \in AskedStatus : Update(r, d, u, status)
         \/ \E asked \in Durations : Acquire(r, d, u, asked)
  PROVE  AccountsInv'
  <1>t. AccountsTypeOK /\ VersionNamesToken
    BY DEF AccountsInv
  <1>1. CASE Complete(r, d, u)
    <2> DEFINE j == [Request(d, u) EXCEPT !.token = minted + 1]
    <2>1. minted + 1 \in 0..MaxToken /\ minted + 1 # 0 /\ minted' = minted + 1
      BY <1>t, <1>1, AccountsAssumption DEF Complete, AccountsTypeOK
    <2>a. j \in Job /\ j.token = minted + 1
      BY <2>1, RequestIsJob DEF Job
    <2>2. /\ pc'[r] = "complete_lock" /\ job'[r] = j /\ OthersStand(r)
          /\ pc' \in [Req -> Stages] /\ job' \in [Req -> Job \cup {NoJob}]
      BY <1>t, <1>1, <2>a, StartMoves DEF Complete, Stages
    <2>3. AccountsTypeOK' /\ UNCHANGED <<accounts, leases, clock, known>>
      BY <1>t, <1>1, <2>1, <2>2 DEF Complete, AccountsTypeOK, tables, clients
    <2>4. ReqInv(r)' /\ ~ HoldsAdvisory(r)'
      BY <2>1, <2>a, <2>2 DEF ReqInv, JobFits, CompletionOwns, UpdateKnows, LeaseKnows, Completing,
                        Updating, Leasing, HoldsAdvisory, HoldsUidLock, HoldsLeaseLock
    <2> QED BY <2>2, <2>3, <2>4, PrivateStep
  <1>2. CASE Select(r, d, u)
    <2>1. /\ pc'[r] = "select_read" /\ job'[r] = Request(d, u) /\ OthersStand(r)
          /\ pc' \in [Req -> Stages] /\ job' \in [Req -> Job \cup {NoJob}]
      BY <1>t, <1>2, RequestIsJob, StartMoves DEF Select, Stages
    <2>2. AccountsTypeOK' /\ UNCHANGED <<accounts, leases, clock, known>>
      BY <1>t, <1>2, <2>1 DEF Select, AccountsTypeOK, tables, clients
    <2>3. ReqInv(r)' /\ ~ HoldsAdvisory(r)'
      BY <2>1, RequestIsJob DEF ReqInv, JobFits, CompletionOwns, UpdateKnows, LeaseKnows, Completing,
                        Updating, Leasing, HoldsAdvisory, HoldsUidLock, HoldsLeaseLock
    <2> QED BY <2>1, <2>2, <2>3, PrivateStep
  <1>3. ASSUME NEW status \in AskedStatus, Update(r, d, u, status) PROVE AccountsInv'
    <2> DEFINE j == [Request(d, u) EXCEPT !.token = minted + 1,
                       !.version = known[d][u].version,
                       !.base = known[d][u].token, !.status = status]
    <2>1. known[d][u] \in Envelope
      <3>1. known[d][u] # NoRow
        BY <1>3 DEF Update
      <3> QED BY <1>t, <3>1 DEF AccountsTypeOK
    <2>0. minted < MaxToken /\ minted' = minted + 1
      BY <1>3 DEF Update
    <2>a. minted + 1 \in 0..MaxToken /\ minted + 1 # 0
      BY <1>t, <2>0, Counters
    <2>b. known[d][u].version \in Nat /\ known[d][u].token \in 0..MaxToken
          /\ status \in VerifyStatus \cup {"unset"}
      BY <2>1, AccountsAssumption DEF Envelope, VerifyStatus
    <2>c. j = [device |-> d, uid |-> u, token |-> minted + 1, version |-> known[d][u].version,
               base |-> known[d][u].token, status |-> status, seen |-> "unset", until |-> 0]
      <3> DEFINE asks == Request(d, u)
                 minting == [asks EXCEPT !.token = minted + 1]
                 versioned == [minting EXCEPT !.version = known[d][u].version]
                 based == [versioned EXCEPT !.base = known[d][u].token]
      <3>1. asks = [device |-> d, uid |-> u, token |-> 0, version |-> 0,
                    base |-> 0, status |-> "unset", seen |-> "unset", until |-> 0]
        BY RequestIsJob
      <3>2. j = [based EXCEPT !.status = status]
        BY <3>1
      <3> HIDE DEF j, asks
      <3>3. minting = [device |-> d, uid |-> u, token |-> minted + 1, version |-> 0,
                       base |-> 0, status |-> "unset", seen |-> "unset", until |-> 0]
        BY <3>1
      <3> HIDE DEF minting
      <3>4. versioned = [device |-> d, uid |-> u, token |-> minted + 1,
                         version |-> known[d][u].version,
                         base |-> 0, status |-> "unset", seen |-> "unset", until |-> 0]
        BY <3>3
      <3> HIDE DEF versioned
      <3>5. based = [device |-> d, uid |-> u, token |-> minted + 1,
                     version |-> known[d][u].version, base |-> known[d][u].token,
                     status |-> "unset", seen |-> "unset", until |-> 0]
        BY <3>4
      <3> HIDE DEF based
      <3> QED BY <3>2, <3>5
    <2> HIDE DEF j
    <2>2. /\ j \in Job /\ j.token # 0 /\ minted' \in 0..MaxToken
          /\ j.uid = u /\ j.version = known[d][u].version /\ j.base = known[d][u].token
      BY <2>0, <2>a, <2>b, <2>c DEF Job
    <2> USE DEF j
    <2>3. /\ pc'[r] = "update_read" /\ job'[r] = j /\ OthersStand(r)
          /\ pc' \in [Req -> Stages] /\ job' \in [Req -> Job \cup {NoJob}]
      BY <1>t, <1>3, <2>2, StartMoves DEF Update, Stages
    <2>4. AccountsTypeOK' /\ UNCHANGED <<accounts, leases, clock, known>>
      BY <1>t, <1>3, <2>2, <2>3 DEF Update, AccountsTypeOK, tables, clients
    <2>5. /\ accounts[u] # NoRow /\ j.version <= accounts[u].version
          /\ j.version = accounts[u].version => j.base = accounts[u].token
      BY <1>t, <1>3, <2>2 DEF Update, VersionNamesToken
    <2> HIDE DEF j
    <2>6. ReqInv(r)' /\ ~ HoldsAdvisory(r)'
      BY <2>2, <2>3, <2>4, <2>5 DEF ReqInv, JobFits, CompletionOwns, UpdateKnows, LeaseKnows,
         Completing, Updating, Leasing, HoldsAdvisory, HoldsUidLock, HoldsLeaseLock
    <2> QED BY <2>3, <2>4, <2>6, PrivateStep
  <1>4. ASSUME NEW asked \in Durations, Acquire(r, d, u, asked) PROVE AccountsInv'
    <2> DEFINE j == [Request(d, u) EXCEPT !.until = clock + Clamp(asked)]
    <2>1. Clamp(asked) \in 0..LongestLease
      BY AccountsAssumption DEF Clamp
    <2>2. clock \in Nat /\ clock + Clamp(asked) \in Nat
          /\ clock + Clamp(asked) <= clock + LongestLease
      BY <1>t, <2>1, Counters, AccountsAssumption
    <2>a. j = [device |-> d, uid |-> u, token |-> 0, version |-> 0, base |-> 0,
               status |-> "unset", seen |-> "unset", until |-> clock + Clamp(asked)]
      BY RequestIsJob
    <2>b. 0 \in 0..MaxToken
      BY AccountsAssumption
    <2>3. j \in Job /\ j.until <= clock + LongestLease
      BY <2>2, <2>a, <2>b DEF Job
    <2>4. /\ pc'[r] = "lease_lock" /\ job'[r] = j /\ OthersStand(r)
          /\ pc' \in [Req -> Stages] /\ job' \in [Req -> Job \cup {NoJob}]
      BY <1>t, <1>4, <2>3, StartMoves DEF Acquire, Stages
    <2>5. AccountsTypeOK' /\ UNCHANGED <<accounts, leases, clock, known>>
      BY <1>t, <1>4, <2>4 DEF Acquire, AccountsTypeOK, tables, clients
    <2>6. ReqInv(r)' /\ ~ HoldsAdvisory(r)'
      BY <2>3, <2>4, <2>5 DEF ReqInv, JobFits, CompletionOwns, UpdateKnows, LeaseKnows,
         Completing, Updating, Leasing, HoldsAdvisory, HoldsUidLock, HoldsLeaseLock
    <2> QED BY <2>4, <2>5, <2>6, PrivateStep
  <1> QED BY <1>1, <1>2, <1>3, <1>4
-----------------------------------------------------------------------------
(* The statements that change no table of the invariant *)

LEMMA JobOfBusy ==
  ASSUME AccountsInv, NEW r \in Req, pc[r] # "idle"
  PROVE  /\ job[r] \in Job
         /\ job[r].uid \in Uid /\ job[r].device \in Device
         /\ job[r].token \in 0..MaxToken /\ job[r].version \in Nat /\ job[r].until \in Nat
         /\ job[r].status \in VerifyStatus \cup {"unset"}
         /\ job[r].seen \in VerifyStatus \cup {"unset"}
  <1>1. job[r] \in Job
    BY DEF AccountsInv, JobFits
  <1> QED BY <1>1 DEF Job

LEMMA CompleteLockStep ==
  ASSUME AccountsInv, NEW r \in Req, CompleteLock(r)
  PROVE  AccountsInv'
  <1>1. /\ pc[r] = "complete_lock" /\ AdvisoryFree(r) /\ Goto(r, "complete_read") /\ job' = job
        /\ UNCHANGED <<tables, clock, minted, clients>> /\ "complete_read" \in Stages
    BY DEF CompleteLock, Stages
  <1>2. AccountsTypeOK /\ ReqInv(r) /\ pc'[r] = "complete_read"
    BY <1>1, GotoMoves DEF AccountsInv, ReqInv
  <1>3. job' = [job EXCEPT ![r] = job'[r]] /\ job'[r] \in Job \cup {NoJob}
    BY <1>1, <1>2 DEF AccountsTypeOK
  <1>4. ReqInv(r)' /\ AdvisoryKey(r)' = AdvisoryKey(r)
    BY <1>1, <1>2 DEF ReqInv, JobFits, CompletionOwns, UpdateKnows, LeaseKnows, Completing,
                      Updating, Leasing, AdvisoryKey, HoldsUidLock
  <1> QED BY <1>1, <1>3, <1>4, GoesOn

LEMMA CompleteReadStep ==
  ASSUME AccountsInv, NEW r \in Req, CompleteRead(r)
  PROVE  AccountsInv'
  <1> DEFINE row == accounts[job[r].uid]
             v == IF row = NoRow THEN 1 ELSE row.version + 1
  <1>1. /\ pc[r] = "complete_read" /\ Goto(r, "complete_bind")
        /\ job' = [job EXCEPT ![r].version = v]
        /\ UNCHANGED <<tables, clock, minted, clients>> /\ "complete_bind" \in Stages
    BY DEF CompleteRead, Stages
  <1>2. AccountsTypeOK /\ ReqInv(r) /\ pc'[r] = "complete_bind"
    BY <1>1, GotoMoves DEF AccountsInv, ReqInv
  <1>3. job[r] \in Job /\ job[r].uid \in Uid /\ job[r].token # 0
    BY <1>1, <1>2, JobOfBusy DEF ReqInv, JobFits, Completing
  <1>4. row \in Account \cup {NoRow}
    BY <1>2, <1>3 DEF AccountsTypeOK
  <1>5. v \in Nat
    BY <1>4 DEF Account
  <1> HIDE DEF v
  <1>6. job' = [job EXCEPT ![r] = [job[r] EXCEPT !.version = v]]
    BY <1>1
  <1>7. job'[r] = [job[r] EXCEPT !.version = v]
    BY <1>2, <1>6 DEF AccountsTypeOK
  <1>8. /\ job'[r] \in Job /\ job'[r].uid = job[r].uid
        /\ job'[r].token = job[r].token /\ job'[r].version = v
    BY <1>3, <1>5, <1>7 DEF Job
  <1>9. job' = [job EXCEPT ![r] = job'[r]]
    BY <1>6, <1>7
  <1>10. accounts' = accounts
    BY <1>1 DEF tables
  <1>11. ReqInv(r)'
    BY <1>2, <1>3, <1>8, <1>10 DEF ReqInv, JobFits, CompletionOwns, UpdateKnows, LeaseKnows,
       Completing, Updating, Leasing, v
  <1>12. HoldsAdvisory(r) /\ AdvisoryKey(r)' = AdvisoryKey(r)
    BY <1>1, <1>2, <1>8 DEF HoldsAdvisory, HoldsUidLock, AdvisoryKey
  <1> QED BY <1>1, <1>8, <1>9, <1>11, <1>12, GoesOn

LEMMA CompleteBindStep ==
  ASSUME AccountsInv, NEW r \in Req, CompleteBind(r)
  PROVE  AccountsInv'
  <1>1. /\ pc[r] = "complete_bind" /\ Goto(r, "complete_commit") /\ job' = job
        /\ UNCHANGED <<tables, clock, minted, clients>> /\ "complete_commit" \in Stages
    BY DEF CompleteBind, Stages
  <1>2. AccountsTypeOK /\ ReqInv(r) /\ pc'[r] = "complete_commit"
    BY <1>1, GotoMoves DEF AccountsInv, ReqInv
  <1>3. job' = [job EXCEPT ![r] = job'[r]] /\ job'[r] \in Job \cup {NoJob} /\ accounts' = accounts
    BY <1>1, <1>2 DEF AccountsTypeOK, tables
  <1>4. ReqInv(r)'
    BY <1>1, <1>2, <1>3 DEF ReqInv, JobFits, CompletionOwns, UpdateKnows, LeaseKnows, Completing,
                      Updating, Leasing
  <1>5. HoldsAdvisory(r) /\ AdvisoryKey(r)' = AdvisoryKey(r)
    BY <1>1, <1>2 DEF HoldsAdvisory, HoldsUidLock, AdvisoryKey
  <1> QED BY <1>1, <1>3, <1>4, <1>5, GoesOn

LEMMA UpdateReadStep ==
  ASSUME AccountsInv, NEW r \in Req, UpdateRead(r)
  PROVE  AccountsInv'
  <1> DEFINE row == accounts[job[r].uid]
             s == row.status
  <1>1. /\ pc[r] = "update_read" /\ Goto(r, "update_write")
        /\ job' = [job EXCEPT ![r].seen = s]
        /\ UNCHANGED <<tables, clock, minted, clients>> /\ "update_write" \in Stages
    BY DEF UpdateRead, Stages
  <1>2. AccountsTypeOK /\ ReqInv(r) /\ pc'[r] = "update_write"
    BY <1>1, GotoMoves DEF AccountsInv, ReqInv
  <1>3. job[r] \in Job /\ job[r].uid \in Uid /\ job[r].token # 0 /\ row # NoRow
    BY <1>1, <1>2, JobOfBusy DEF ReqInv, JobFits, Updating, UpdateKnows
  <1>4. row \in Account
    BY <1>2, <1>3 DEF AccountsTypeOK
  <1>5. s \in VerifyStatus
    BY <1>4 DEF Account
  <1> HIDE DEF s
  <1>6. job' = [job EXCEPT ![r] = [job[r] EXCEPT !.seen = s]]
    BY <1>1
  <1>7. job'[r] = [job[r] EXCEPT !.seen = s]
    BY <1>2, <1>6 DEF AccountsTypeOK
  <1>8. /\ job'[r] \in Job /\ job'[r].uid = job[r].uid
        /\ job'[r].token = job[r].token /\ job'[r].version = job[r].version
        /\ job'[r].base = job[r].base /\ job'[r].seen = s
    BY <1>3, <1>5, <1>7 DEF Job
  <1>9. job' = [job EXCEPT ![r] = job'[r]] /\ accounts' = accounts
    BY <1>1, <1>6, <1>7 DEF tables
  <1>10. UpdateKnows(r) /\ Updating(r)
    BY <1>1, <1>2 DEF ReqInv, Updating
  <1>11. UpdateKnows(r)'
    BY <1>8, <1>9, <1>10 DEF UpdateKnows, s
  <1>12. ReqInv(r)' /\ ~ HoldsAdvisory(r)'
    BY <1>2, <1>3, <1>8, <1>11 DEF ReqInv, JobFits, CompletionOwns, LeaseKnows,
       Completing, Updating, Leasing, HoldsAdvisory, HoldsUidLock, HoldsLeaseLock
  <1> QED BY <1>1, <1>8, <1>9, <1>12, GoesOn

LEMMA SelectStep ==
  ASSUME AccountsInv, NEW r \in Req, SelectRead(r) \/ SelectBind(r) \/ SelectCheck(r)
  PROVE  AccountsInv'
  <1>1. CASE Finish(r)
    BY <1>1, EndsQuietly DEF SelectRead, SelectBind, SelectCheck
  <1>2. CASE ~ Finish(r)
    <2>1. PICK stage \in {"select_bind", "select_check", "select_commit"} : Goto(r, stage)
      BY <1>2 DEF SelectRead, SelectBind, SelectCheck
    <2>2. /\ pc[r] # "idle" /\ job' = job /\ stage \in Stages
          /\ UNCHANGED <<tables, clock, minted, clients>>
      BY <1>2, <2>1 DEF SelectRead, SelectBind, SelectCheck, Stages
    <2>3. AccountsTypeOK /\ ReqInv(r) /\ pc'[r] = stage
      BY <2>1, <2>2, GotoMoves DEF AccountsInv, ReqInv
    <2>4. job' = [job EXCEPT ![r] = job'[r]] /\ job'[r] \in Job /\ job'[r] \in Job \cup {NoJob}
      BY <2>2, <2>3, JobOfBusy DEF AccountsTypeOK
    <2>5. ReqInv(r)' /\ ~ HoldsAdvisory(r)'
      BY <2>1, <2>3, <2>4 DEF ReqInv, JobFits, CompletionOwns, UpdateKnows, LeaseKnows,
         Completing, Updating, Leasing, HoldsAdvisory, HoldsUidLock, HoldsLeaseLock
    <2> QED BY <2>1, <2>2, <2>4, <2>5, GoesOn
  <1> QED BY <1>1, <1>2

LEMMA SelectCommitStep ==
  ASSUME AccountsInv, NEW r \in Req, SelectCommit(r)
  PROVE  AccountsInv'
  <1>1. /\ pc'[r] = "idle" /\ job'[r] = NoJob /\ OthersStand(r)
        /\ pc' \in [Req -> Stages] /\ job' \in [Req -> Job \cup {NoJob}]
    BY FinishMoves DEF AccountsInv, SelectCommit
  <1>2. job[r].uid \in Uid /\ job[r].device \in Device
    BY JobOfBusy DEF SelectCommit
  <1>3. AccountsTypeOK'
    BY <1>1, <1>2 DEF AccountsInv, AccountsTypeOK, SelectCommit, clients
  <1>4. ReqInv(r)' /\ ~ HoldsAdvisory(r)'
    BY <1>1 DEF ReqInv, JobFits, CompletionOwns, UpdateKnows, LeaseKnows, Completing, Updating,
                Leasing, HoldsAdvisory, HoldsUidLock, HoldsLeaseLock
  <1> QED BY <1>1, <1>3, <1>4, PrivateStep DEF SelectCommit, clients

LEMMA AcquireLockStep ==
  ASSUME AccountsInv, NEW r \in Req, AcquireLock(r)
  PROVE  AccountsInv'
  <1>1. /\ pc[r] = "lease_lock" /\ AdvisoryFree(r) /\ Goto(r, "lease_read") /\ job' = job
        /\ UNCHANGED <<tables, clock, minted, clients>> /\ "lease_read" \in Stages
    BY DEF AcquireLock, Stages
  <1>2. AccountsTypeOK /\ ReqInv(r) /\ pc'[r] = "lease_read"
    BY <1>1, GotoMoves DEF AccountsInv, ReqInv
  <1>3. job' = [job EXCEPT ![r] = job'[r]] /\ job'[r] \in Job \cup {NoJob} /\ clock' = clock
    BY <1>1, <1>2 DEF AccountsTypeOK
  <1>4. ReqInv(r)' /\ AdvisoryKey(r)' = AdvisoryKey(r)
    BY <1>1, <1>2, <1>3 DEF ReqInv, JobFits, CompletionOwns, UpdateKnows, LeaseKnows, Completing,
                      Updating, Leasing, AdvisoryKey, HoldsUidLock
  <1> QED BY <1>1, <1>3, <1>4, GoesOn

LEMMA AcquireReadStep ==
  ASSUME AccountsInv, NEW r \in Req, AcquireRead(r)
  PROVE  AccountsInv'
  <1>1. CASE Finish(r)
    BY <1>1, EndsQuietly DEF AcquireRead
  <1>2. CASE ~ Finish(r)
    <2> DEFINE row == leases[job[r].uid]
    <2>1. PICK off \in -Skew..Skew : ~ Running(row, job[r].device, clock + off)
      BY <1>2 DEF AcquireRead
    <2>2. /\ pc[r] = "lease_read" /\ Goto(r, "lease_write") /\ job' = job
          /\ UNCHANGED <<tables, clock, minted, clients>> /\ "lease_write" \in Stages
      BY <1>2 DEF AcquireRead, Stages
    <2>3. AccountsTypeOK /\ ReqInv(r) /\ pc'[r] = "lease_write"
      BY <2>2, GotoMoves DEF AccountsInv, ReqInv
    <2>4. job' = [job EXCEPT ![r] = job'[r]] /\ job'[r] \in Job \cup {NoJob}
          /\ clock' = clock /\ leases' = leases /\ job[r].uid \in Uid
      BY <2>2, <2>3, JobOfBusy DEF AccountsTypeOK, tables
    <2>5. row = NoRow \/ row.holder = job[r].device \/ clock >= row.expires - Skew
      <3>1. row = NoRow \/ row \in Lease
        BY <2>3, <2>4 DEF AccountsTypeOK
      <3>2. CASE row \in Lease /\ row # NoRow /\ row.holder # job[r].device
        <4>1. ~ (clock + off < row.expires)
          BY <2>1, <3>2 DEF Running
        <4>2. row.expires \in Nat /\ clock \in Nat /\ Skew \in Nat
          BY <2>3, <3>2, Counters, AccountsAssumption DEF Lease
        <4> QED BY <4>1, <4>2
      <3> QED BY <3>1, <3>2
    <2>6. LeaseKnows(r)'
      BY <2>2, <2>3, <2>4, <2>5 DEF ReqInv, LeaseKnows, Leasing
    <2>7. ReqInv(r)'
      BY <2>2, <2>3, <2>6 DEF ReqInv, JobFits, CompletionOwns, UpdateKnows, Completing, Updating
    <2>8. HoldsAdvisory(r) /\ AdvisoryKey(r)' = AdvisoryKey(r)
      BY <2>2, <2>3 DEF HoldsAdvisory, HoldsUidLock, HoldsLeaseLock, AdvisoryKey
    <2> QED BY <2>2, <2>4, <2>7, <2>8, GoesOn
  <1> QED BY <1>1, <1>2
-----------------------------------------------------------------------------
(* The statements that change an account or a lease *)

\* The version that a row has, 0 for no row.
VersionOf(row) == IF row = NoRow THEN 0 ELSE row.version

\* A device learns the entry, or nobody does.
Learns(d, u, entry) ==
  \/ known' = known
  \/ known' = [known EXCEPT ![d][u] = entry]

LEMMA LearnsTyped ==
  ASSUME known \in [Device -> [Uid -> Envelope \cup {NoRow}]],
         NEW u \in Uid, NEW d \in Device, NEW entry \in Envelope, Learns(d, u, entry)
  PROVE  known' \in [Device -> [Uid -> Envelope \cup {NoRow}]]
  BY DEF Learns

LEMMA VersionsKept ==
  ASSUME AccountsTypeOK, VersionNamesToken, NEW u \in Uid, NEW d \in Device, NEW new \in Account,
         new.version = VersionOf(accounts[u]) + 1,
         accounts' = [accounts EXCEPT ![u] = new],
         Learns(d, u, [token |-> new.token, version |-> new.version])
  PROVE  VersionNamesToken'
  <1> DEFINE entry == [token |-> new.token, version |-> new.version]
             old == accounts[u]
  <1>1. /\ accounts'[u] = new /\ new # NoRow
        /\ \A w \in Uid \ {u} : accounts'[w] = accounts[w]
    <2>1. accounts'[u] = new /\ \A w \in Uid \ {u} : accounts'[w] = accounts[w]
      BY DEF AccountsTypeOK
    <2>2. CASE old = NoRow
      BY <2>1, <2>2, NoRowAssumption DEF Account
    <2>3. CASE old # NoRow
      BY <2>1, <2>3, NoRowAssumption DEF Account
    <2> QED BY <2>1, <2>2, <2>3
  <1>2. \A e \in Device : \A w \in Uid : known'[e][w] # known[e][w] =>
          w = u /\ known'[e][w] = entry
    BY DEF Learns, AccountsTypeOK
  <1>3. entry.version = new.version /\ entry.token = new.token /\ new.version \in Nat
    BY DEF Account
  <1> HIDE DEF entry
  <1>4. \A e \in Device : known[e][u] # NoRow => known[e][u].version < new.version
    <2> SUFFICES ASSUME NEW e \in Device, known[e][u] # NoRow
                 PROVE  known[e][u].version < new.version
      OBVIOUS
    <2>1. old # NoRow /\ known[e][u].version <= old.version
      BY DEF VersionNamesToken
    <2>2. old \in Account /\ known[e][u] \in Envelope
      BY <2>1 DEF AccountsTypeOK
    <2>3. old.version \in Nat /\ known[e][u].version \in Nat /\ new.version = old.version + 1
      BY <2>1, <2>2 DEF Account, Envelope, VersionOf
    <2> QED BY <2>1, <2>3
  <1>5. \A e \in Device : known'[e][u] # NoRow =>
          \/ known'[e][u] = entry
          \/ known'[e][u] = known[e][u] /\ known[e][u].version < new.version
    BY <1>2, <1>4
  <1>6. \A e \in Device : known'[e][u] # NoRow => known'[e][u].version \in Nat
    BY <1>3, <1>5 DEF AccountsTypeOK, Envelope
  <1> SUFFICES ASSUME NEW w \in Uid, NEW e \in Device, known'[e][w] # NoRow
               PROVE  /\ accounts'[w] # NoRow
                      /\ known'[e][w].version <= accounts'[w].version
                      /\ known'[e][w].version = accounts'[w].version =>
                           known'[e][w].token = accounts'[w].token
                      /\ \A f \in Device : known'[f][w] # NoRow =>
                           (known'[f][w].version = known'[e][w].version =>
                              known'[f][w].token = known'[e][w].token)
    BY DEF VersionNamesToken
  <1>7. CASE w # u
    BY <1>1, <1>2, <1>7 DEF VersionNamesToken
  <1>8. CASE w = u
    <2>1. known'[e][u].version <= new.version
      BY <1>3, <1>5, <1>6, <1>8
    <2>2. known'[e][u].version = new.version => known'[e][u] = entry
      BY <1>3, <1>5, <1>6, <1>8
    <2>3. ASSUME NEW f \in Device, known'[f][u] # NoRow,
                 known'[f][u].version = known'[e][u].version
          PROVE  known'[f][u].token = known'[e][u].token
      <3>1. CASE known'[e][u] = entry
        BY <1>3, <1>5, <1>6, <2>3, <3>1
      <3>2. CASE known'[e][u] # entry
        <4>1. known'[e][u] = known[e][u] /\ known[e][u].version < new.version
          BY <1>5, <1>8, <3>2
        <4>2. known'[f][u] = known[f][u]
          BY <1>3, <1>5, <1>6, <2>3, <4>1
        <4> QED BY <1>8, <2>3, <4>1, <4>2 DEF VersionNamesToken
      <3> QED BY <3>1, <3>2
    <2> QED BY <1>1, <1>3, <1>8, <2>1, <2>2, <2>3
  <1> QED BY <1>7, <1>8

\* A request that ends by storing a token, while no completion works on the account.
LEMMA StoresToken ==
  ASSUME AccountsInv, AccountsTypeOK', VersionNamesToken', NEW r \in Req, NEW u \in Uid,
         NEW new \in Account, new.version = VersionOf(accounts[u]) + 1,
         accounts' = [accounts EXCEPT ![u] = new], accounts'[u] # NoRow,
         UNCHANGED <<leases, clock>>,
         OthersStand(r), pc'[r] = "idle", job'[r] = NoJob,
         \A q \in Req \ {r} : pc[q] \in {"complete_bind", "complete_commit"} => job[q].uid # u
  PROVE  AccountsInv'
  <1>1. /\ accounts'[u] = new /\ \A w \in Uid \ {u} : accounts'[w] = accounts[w]
    BY DEF AccountsInv, AccountsTypeOK
  <1>2. ASSUME NEW q \in Req \ {r} PROVE ReqInv(q)'
    <2>1. pc'[q] = pc[q] /\ job'[q] = job[q] /\ ReqInv(q)
      BY DEF AccountsInv, ReqInv, OthersStand
    <2>2. CASE pc[q] = "idle" \/ job[q].uid # u
      <3>1. pc[q] = "idle" \/ accounts'[job[q].uid] = accounts[job[q].uid]
        BY <1>1, <2>2, JobOfBusy
      <3> QED BY <2>1, <3>1 DEF ReqInv, JobFits, CompletionOwns, UpdateKnows, LeaseKnows,
                                Completing, Updating, Leasing
    <2>3. CASE pc[q] # "idle" /\ job[q].uid = u
      <3>1. CompletionOwns(q)' /\ JobFits(q)' /\ LeaseKnows(q)'
        BY <2>1, <2>3 DEF ReqInv, JobFits, CompletionOwns, LeaseKnows, Completing, Updating, Leasing
      <3>2. CASE Updating(q)
        <4>1. accounts[u] # NoRow /\ job[q].version <= accounts[u].version
          BY <2>1, <2>3, <3>2 DEF ReqInv, UpdateKnows
        <4>2. accounts[u].version \in Nat /\ job[q].version \in Nat
          BY <2>3, <4>1, JobOfBusy DEF AccountsInv, AccountsTypeOK, Account
        <4>3. job[q].version < new.version /\ new.version \in Nat
          BY <4>1, <4>2 DEF VersionOf
        <4> QED BY <1>1, <2>1, <2>3, <3>1, <4>2, <4>3 DEF ReqInv, UpdateKnows
      <3>3. CASE ~ Updating(q)
        BY <2>1, <3>1, <3>3 DEF ReqInv, UpdateKnows, Updating
      <3> QED BY <3>2, <3>3
    <2> QED BY <2>2, <2>3
  <1>3. ReqInv(r)' /\ ~ HoldsAdvisory(r)'
    BY DEF ReqInv, JobFits, CompletionOwns, UpdateKnows, LeaseKnows, Completing, Updating,
           Leasing, HoldsAdvisory, HoldsUidLock, HoldsLeaseLock
  <1>4. (\A p, q \in Req : p # q => LocksApart(p, q))'
    BY <1>3, LocksStayApart DEF AccountsInv
  <1>5. LeasesAreShort'
    BY DEF AccountsInv, LeasesAreShort
  <1> QED BY <1>2, <1>3, <1>4, <1>5 DEF AccountsInv, ReqInv

LEMMA CompleteEffectStep ==
  ASSUME AccountsInv, NEW r \in Req, pc[r] = "complete_commit", CompleteEffect(r), Finish(r),
         Learns(job[r].device, job[r].uid, [token |-> job[r].token, version |-> job[r].version]),
         UNCHANGED <<clock, minted, granted>>
  PROVE  AccountsInv'
  <1> DEFINE u == job[r].uid
             d == job[r].device
             v == IF accounts[u] = NoRow THEN 1 ELSE accounts[u].version + 1
             new == [token |-> job[r].token, version |-> v, status |-> "valid"]
  <1>1. AccountsTypeOK /\ VersionNamesToken /\ ReqInv(r)
    BY DEF AccountsInv, ReqInv
  <1>2. u \in Uid /\ d \in Device /\ job[r].token \in 1..MaxToken
    BY <1>1, JobOfBusy, Counters DEF ReqInv, JobFits, Completing
  <1>3. v \in Nat \ {0} /\ v = VersionOf(accounts[u]) + 1 /\ v = job[r].version
    BY <1>1, <1>2 DEF ReqInv, CompletionOwns, AccountsTypeOK, Account, VersionOf
  <1>4. accounts' = [accounts EXCEPT ![u] = new]
    BY DEF CompleteEffect
  <1> HIDE DEF v
  <1>5. new \in Account /\ new.version = v /\ new.token = job[r].token
    BY <1>2, <1>3 DEF Account, VerifyStatus
  <1>6. Learns(d, u, [token |-> new.token, version |-> new.version])
    BY <1>3, <1>5
  <1> HIDE DEF new, u, d
  <1>7. VersionNamesToken'
    BY <1>1, <1>2, <1>3, <1>4, <1>5, <1>6, VersionsKept
  <1>8. /\ pc'[r] = "idle" /\ job'[r] = NoJob /\ OthersStand(r)
        /\ pc' \in [Req -> Stages] /\ job' \in [Req -> Job \cup {NoJob}]
    BY <1>1, FinishMoves
  <1>9. [token |-> new.token, version |-> new.version] \in Envelope
    BY <1>5 DEF Account, Envelope
  <1>10. AccountsTypeOK'
    <2>1. known' \in [Device -> [Uid -> Envelope \cup {NoRow}]]
      BY <1>1, <1>2, <1>6, <1>9, LearnsTyped DEF AccountsTypeOK
    <2>2. accounts' \in [Uid -> Account \cup {NoRow}]
      BY <1>1, <1>4, <1>5 DEF AccountsTypeOK
    <2>3. bindings' \subseteq Uid \X Device /\ leases' = leases
      BY <1>1, <1>2 DEF AccountsTypeOK, CompleteEffect, u, d
    <2> QED BY <1>1, <1>8, <2>1, <2>2, <2>3 DEF AccountsTypeOK
  <1>11. ASSUME NEW q \in Req \ {r}, pc[q] \in {"complete_bind", "complete_commit"}
         PROVE  job[q].uid # u
    <2>1. LocksApart(q, r)
      BY DEF AccountsInv
    <2> QED BY <1>11, <2>1 DEF LocksApart, HoldsAdvisory, HoldsUidLock, AdvisoryKey, u
  <1>12. accounts'[u] # NoRow
    BY <1>1, <1>2, <1>4, <1>5, NoRowAssumption DEF AccountsTypeOK
  <1>13. leases' = leases
    BY DEF CompleteEffect
  <1> QED BY <1>2, <1>3, <1>4, <1>5, <1>7, <1>8, <1>10, <1>11, <1>12, <1>13, StoresToken

LEMMA UpdateEffectStep ==
  ASSUME AccountsInv, NEW r \in Req, UpdateEffect(r), Finish(r),
         Learns(job[r].device, job[r].uid,
                [token |-> job[r].token, version |-> accounts'[job[r].uid].version]),
         UNCHANGED <<clock, minted, granted>>
  PROVE  AccountsInv'
  <1> DEFINE u == job[r].uid
             d == job[r].device
             v == accounts[u].version + 1
             s == NewStatus(job[r])
             new == [token |-> job[r].token, version |-> v, status |-> s]
  <1>1. AccountsTypeOK /\ VersionNamesToken /\ ReqInv(r) /\ pc[r] = "update_write"
    BY DEF AccountsInv, ReqInv, UpdateEffect
  <1>2. u \in Uid /\ d \in Device /\ job[r].token \in 1..MaxToken
    BY <1>1, JobOfBusy, Counters DEF ReqInv, JobFits, Updating
  <1>3. accounts[u] # NoRow /\ accounts[u] \in Account /\ job[r].seen = accounts[u].status
    BY <1>1, <1>2 DEF ReqInv, UpdateKnows, Updating, AccountsTypeOK, UpdateEffect
  <1>4. v \in Nat \ {0} /\ v = VersionOf(accounts[u]) + 1 /\ s \in VerifyStatus
    BY <1>1, <1>3, JobOfBusy DEF Account, VersionOf, NewStatus
  <1>5. accounts' = [accounts EXCEPT ![u] = new]
    BY DEF UpdateEffect
  <1> HIDE DEF v, s
  <1>6. new \in Account /\ new.version = v /\ new.token = job[r].token
    BY <1>2, <1>4 DEF Account
  <1>7. accounts'[u] = new
    BY <1>1, <1>2, <1>5 DEF AccountsTypeOK
  <1>8. Learns(d, u, [token |-> new.token, version |-> new.version])
    BY <1>6, <1>7
  <1> HIDE DEF new, u, d
  <1>9. VersionNamesToken'
    BY <1>1, <1>2, <1>4, <1>5, <1>6, <1>8, VersionsKept
  <1>10. /\ pc'[r] = "idle" /\ job'[r] = NoJob /\ OthersStand(r)
         /\ pc' \in [Req -> Stages] /\ job' \in [Req -> Job \cup {NoJob}]
    BY <1>1, FinishMoves
  <1>11. [token |-> new.token, version |-> new.version] \in Envelope
    BY <1>6 DEF Account, Envelope
  <1>12. leases' = leases /\ bindings' = bindings
    BY DEF UpdateEffect
  <1>13. AccountsTypeOK'
    <2>1. known' \in [Device -> [Uid -> Envelope \cup {NoRow}]]
      BY <1>1, <1>2, <1>8, <1>11, LearnsTyped DEF AccountsTypeOK
    <2>2. accounts' \in [Uid -> Account \cup {NoRow}]
      BY <1>1, <1>5, <1>6 DEF AccountsTypeOK
    <2> QED BY <1>1, <1>10, <1>12, <2>1, <2>2 DEF AccountsTypeOK
  <1>14. ASSUME NEW q \in Req \ {r}, pc[q] \in {"complete_bind", "complete_commit"}
         PROVE  job[q].uid # u
    BY <1>3, <1>14 DEF UpdateEffect, WaitsForAccount, LocksAccount, u
  <1>15. accounts'[u] # NoRow
    BY <1>6, <1>7, NoRowAssumption
  <1> QED BY <1>2, <1>4, <1>5, <1>6, <1>9, <1>10, <1>12, <1>13, <1>14, <1>15, StoresToken

LEMMA AcquireEffectStep ==
  ASSUME AccountsInv, NEW r \in Req, pc[r] = "lease_write", AcquireEffect(r), Finish(r),
         granted' \in [Device -> [Uid -> Nat]], UNCHANGED <<clock, minted, known>>
  PROVE  AccountsInv'
  <1> DEFINE u == job[r].uid
             d == job[r].device
             new == [holder |-> d, expires |-> job[r].until]
  <1>1. AccountsTypeOK /\ VersionNamesToken /\ LeasesAreShort /\ ReqInv(r)
    BY DEF AccountsInv, ReqInv
  <1>2. u \in Uid /\ d \in Device /\ job[r].until \in Nat /\ job[r].until <= clock + LongestLease
    BY <1>1, JobOfBusy DEF ReqInv, LeaseKnows, Leasing
  <1>3. /\ leases'[u] = new /\ \A w \in Uid \ {u} : leases'[w] = leases[w]
        /\ UNCHANGED <<accounts, bindings>> /\ leases' = [leases EXCEPT ![u] = new]
    BY <1>1, <1>2 DEF AcquireEffect, AccountsTypeOK
  <1>4. new \in Lease /\ new.expires = job[r].until
    BY <1>2 DEF Lease
  <1> HIDE DEF new
  <1>5. /\ pc'[r] = "idle" /\ job'[r] = NoJob /\ OthersStand(r)
        /\ pc' \in [Req -> Stages] /\ job' \in [Req -> Job \cup {NoJob}]
    BY <1>1, FinishMoves
  <1>6. leases' \in [Uid -> Lease \cup {NoRow}]
    BY <1>1, <1>3, <1>4 DEF AccountsTypeOK
  <1>7. AccountsTypeOK'
    BY <1>1, <1>3, <1>5, <1>6 DEF AccountsTypeOK
  <1>8. VersionNamesToken'
    BY <1>1, <1>3 DEF VersionNamesToken
  <1>9. LeasesAreShort'
    BY <1>1, <1>2, <1>3, <1>4 DEF LeasesAreShort
  <1>10. ASSUME NEW q \in Req \ {r} PROVE ReqInv(q)'
    <2>1. pc'[q] = pc[q] /\ job'[q] = job[q] /\ ReqInv(q) /\ LocksApart(q, r)
      BY <1>5 DEF AccountsInv, ReqInv, OthersStand
    <2>2. pc[q] = "lease_write" => job[q].uid # u
      BY <2>1 DEF LocksApart, HoldsAdvisory, HoldsUidLock, HoldsLeaseLock, AdvisoryKey
    <2>3. pc[q] = "lease_write" => leases'[job[q].uid] = leases[job[q].uid]
      BY <1>3, <2>2, JobOfBusy
    <2> QED BY <1>3, <2>1, <2>3 DEF ReqInv, JobFits, CompletionOwns, UpdateKnows, LeaseKnows,
                                Completing, Updating, Leasing
  <1>11. ReqInv(r)' /\ ~ HoldsAdvisory(r)'
    BY <1>5 DEF ReqInv, JobFits, CompletionOwns, UpdateKnows, LeaseKnows, Completing, Updating,
           Leasing, HoldsAdvisory, HoldsUidLock, HoldsLeaseLock
  <1>12. (\A p, q \in Req : p # q => LocksApart(p, q))'
    BY <1>1, <1>5, <1>11, LocksStayApart DEF AccountsInv
  <1> QED BY <1>7, <1>8, <1>9, <1>10, <1>11, <1>12 DEF AccountsInv, ReqInv
-----------------------------------------------------------------------------
(* The inductive invariant *)

LEMMA AccountsInvInit == AccountsInit => AccountsInv
  <1> SUFFICES ASSUME AccountsInit PROVE AccountsInv
    OBVIOUS
  <1>1. AccountsTypeOK
    BY AccountsAssumption DEF AccountsInit, AccountsTypeOK, Stages
  <1>2. VersionNamesToken /\ LeasesAreShort
    BY DEF AccountsInit, VersionNamesToken, LeasesAreShort
  <1>3. \A r \in Req : pc[r] = "idle"
    BY DEF AccountsInit
  <1>4. \A r \in Req : JobFits(r) /\ CompletionOwns(r) /\ UpdateKnows(r) /\ LeaseKnows(r)
    BY <1>3 DEF JobFits, CompletionOwns, UpdateKnows, LeaseKnows, Completing, Updating, Leasing
  <1>5. \A q, r \in Req : q # r => LocksApart(q, r)
    BY <1>3 DEF LocksApart, HoldsAdvisory, HoldsUidLock, HoldsLeaseLock
  <1> QED BY <1>1, <1>2, <1>4, <1>5 DEF AccountsInv

\* Nothing that the requests look at changes.
LEMMA RequestsStand ==
  ASSUME AccountsInv, AccountsTypeOK', VersionNamesToken', LeasesAreShort',
         UNCHANGED <<accounts, leases, pc, job>>, clock <= clock', clock' \in Nat
  PROVE  AccountsInv'
  <1>1. ASSUME NEW r \in Req PROVE ReqInv(r)'
    <2>1. ReqInv(r)
      BY DEF AccountsInv, ReqInv
    <2>2. JobFits(r)' /\ CompletionOwns(r)' /\ UpdateKnows(r)'
      BY <2>1 DEF ReqInv, JobFits, CompletionOwns, UpdateKnows, Completing, Updating
    <2>3. CASE Leasing(r)
      <3>1. job[r].uid \in Uid /\ job[r].until \in Nat
        BY <2>3, JobOfBusy DEF Leasing
      <3>2. leases[job[r].uid] = NoRow \/ leases[job[r].uid].expires \in Nat
        BY <3>1 DEF AccountsInv, AccountsTypeOK, Lease
      <3>3. clock \in Nat /\ Skew \in Nat /\ LongestLease \in Nat
        BY Counters, AccountsAssumption DEF AccountsInv
      <3> QED BY <2>1, <2>2, <3>1, <3>2, <3>3 DEF ReqInv, LeaseKnows, Leasing
    <2>4. CASE ~ Leasing(r)
      BY <2>2, <2>4 DEF ReqInv, LeaseKnows, Leasing
    <2> QED BY <2>3, <2>4
  <1>2. (\A p, q \in Req : p # q => LocksApart(p, q))'
    BY DEF AccountsInv, LocksApart, HoldsAdvisory, HoldsUidLock, HoldsLeaseLock, AdvisoryKey
  <1> QED BY <1>1, <1>2 DEF AccountsInv, ReqInv

LEMMA TickStep == ASSUME AccountsInv, Tick PROVE AccountsInv'
  <1>1. /\ clock \in Nat /\ MaxClock \in Nat /\ clock < MaxClock /\ clock' = clock + 1
        /\ UNCHANGED <<tables, minted, clients, pc, job>>
    BY Counters DEF AccountsInv, Tick
  <1>2. AccountsTypeOK' /\ VersionNamesToken'
    BY <1>1 DEF AccountsInv, AccountsTypeOK, VersionNamesToken, tables, clients
  <1>3. LeasesAreShort'
    <2> SUFFICES ASSUME NEW u \in Uid, leases[u] # NoRow
                 PROVE  leases[u].expires <= clock + 1 + LongestLease
      BY <1>1 DEF LeasesAreShort, tables
    <2>1. leases[u].expires \in Nat /\ leases[u].expires <= clock + LongestLease
      BY DEF AccountsInv, AccountsTypeOK, Lease, LeasesAreShort
    <2> QED BY <1>1, <2>1, AccountsAssumption
  <1> QED BY <1>1, <1>2, <1>3, RequestsStand DEF tables

LEMMA GetTokenStep ==
  ASSUME AccountsInv, NEW d \in Device, NEW u \in Uid, GetToken(d, u)
  PROVE  AccountsInv'
  <1> DEFINE entry == [token |-> accounts[u].token, version |-> accounts[u].version]
  <1>1. /\ accounts[u] # NoRow /\ known' = [known EXCEPT ![d][u] = entry]
        /\ UNCHANGED <<tables, clock, minted, granted, pc, job>>
    BY DEF GetToken, Give
  <1>2. AccountsTypeOK /\ VersionNamesToken /\ clock \in Nat
    BY Counters DEF AccountsInv
  <1>3. accounts[u] \in Account
    BY <1>1, <1>2 DEF AccountsTypeOK
  <1>4. /\ entry \in Envelope /\ entry.token = accounts[u].token
        /\ entry.version = accounts[u].version /\ entry.version \in Nat
    BY <1>3 DEF Account, Envelope
  <1> HIDE DEF entry
  <1>5. \A e \in Device : \A w \in Uid :
          known'[e][w] = known[e][w] \/ (w = u /\ known'[e][w] = entry)
    <2>1. known \in [Device -> [Uid -> Envelope \cup {NoRow}]]
      BY <1>2 DEF AccountsTypeOK
    <2>2. known'[d] = [known[d] EXCEPT ![u] = entry] /\ \A e \in Device \ {d} : known'[e] = known[e]
      BY <1>1, <2>1
    <2>3. known[d] \in [Uid -> Envelope \cup {NoRow}]
      BY <2>1
    <2>4. known'[d][u] = entry /\ \A w \in Uid \ {u} : known'[d][w] = known[d][w]
      BY <2>2, <2>3
    <2> SUFFICES ASSUME NEW e \in Device, NEW w \in Uid
                 PROVE  known'[e][w] = known[e][w] \/ (w = u /\ known'[e][w] = entry)
      OBVIOUS
    <2>5. CASE e = d
      BY <2>4, <2>5
    <2>6. CASE e # d
      BY <2>2, <2>6
    <2> QED BY <2>5, <2>6
  <1>6. AccountsTypeOK'
    BY <1>1, <1>2, <1>4 DEF AccountsTypeOK, tables
  <1>7. VersionNamesToken'
    <2>1. accounts' = accounts
      BY <1>1 DEF tables
    <2>2. \A e \in Device : known'[e][u] # NoRow =>
            \/ known'[e][u] = entry
            \/ known'[e][u] = known[e][u] /\ known[e][u] # NoRow
      BY <1>5
    <2>3. entry # NoRow
      BY <1>4, NoRowAssumption
    <2> SUFFICES ASSUME NEW w \in Uid, NEW e \in Device, known'[e][w] # NoRow
                 PROVE  /\ accounts[w] # NoRow
                        /\ known'[e][w].version <= accounts[w].version
                        /\ known'[e][w].version = accounts[w].version =>
                             known'[e][w].token = accounts[w].token
                        /\ \A f \in Device : known'[f][w] # NoRow =>
                             (known'[f][w].version = known'[e][w].version =>
                                known'[f][w].token = known'[e][w].token)
      BY <2>1 DEF VersionNamesToken
    <2>4. CASE w # u
      BY <1>2, <1>5, <2>4 DEF VersionNamesToken
    <2>5. CASE w = u
      <3>1. /\ known'[e][u].version <= accounts[u].version
            /\ known'[e][u].version = accounts[u].version =>
                 known'[e][u].token = accounts[u].token
        BY <1>2, <1>4, <2>2, <2>5 DEF VersionNamesToken
      <3>2. \A f \in Device : known'[f][u] # NoRow =>
              (known'[f][u].version = known'[e][u].version =>
                 known'[f][u].token = known'[e][u].token)
        BY <1>2, <1>4, <2>2, <2>5 DEF VersionNamesToken
      <3> QED BY <1>1, <2>5, <3>1, <3>2
    <2> QED BY <2>4, <2>5
  <1>8. LeasesAreShort'
    BY <1>1 DEF AccountsInv, LeasesAreShort, tables
  <1> QED BY <1>1, <1>2, <1>6, <1>7, <1>8, RequestsStand DEF tables

LEMMA AccountsInvStep == AccountsInv /\ [AccountsNext]_vars => AccountsInv'
  <1> SUFFICES ASSUME AccountsInv, [AccountsNext]_vars PROVE AccountsInv'
    OBVIOUS
  <1>1. CASE UNCHANGED vars
    <2>1. AccountsTypeOK' /\ VersionNamesToken' /\ LeasesAreShort'
      BY <1>1 DEF vars, tables, clients, AccountsInv, AccountsTypeOK, VersionNamesToken, LeasesAreShort
    <2> QED BY <1>1, <2>1, RequestsStand, Counters DEF vars, tables, AccountsInv
  <1>2. CASE Tick
    BY <1>2, TickStep
  <1>3. ASSUME NEW d \in Device, NEW u \in Uid, GetToken(d, u) PROVE AccountsInv'
    BY <1>3, GetTokenStep
  <1>4. ASSUME NEW r \in Req, NEW d \in Device, NEW u \in Uid,
               \/ Complete(r, d, u) \/ Select(r, d, u)
               \/ \E status \in AskedStatus : Update(r, d, u, status)
               \/ \E asked \in Durations : Acquire(r, d, u, asked)
        PROVE  AccountsInv'
    BY <1>4, StartStep
  <1>5. ASSUME NEW r \in Req, Progress(r) PROVE AccountsInv'
    <2>1. CASE CompleteLock(r)
      BY <2>1, CompleteLockStep
    <2>2. CASE CompleteRead(r)
      BY <2>2, CompleteReadStep
    <2>3. CASE CompleteBind(r)
      BY <2>3, CompleteBindStep
    <2>4. CASE CompleteCommit(r)
      BY <2>4, CompleteEffectStep DEF CompleteCommit, Give, Learns
    <2>5. CASE UpdateRead(r)
      BY <2>5, UpdateReadStep
    <2>6. CASE UpdateApply(r)
      BY <2>6, UpdateEffectStep DEF UpdateApply, Give, Learns
    <2>7. CASE UpdateConflict(r)
      BY <2>7, EndsQuietly DEF UpdateConflict
    <2>8. CASE SelectRead(r) \/ SelectBind(r) \/ SelectCheck(r)
      BY <2>8, SelectStep
    <2>9. CASE SelectCommit(r)
      BY <2>9, SelectCommitStep
    <2>10. CASE AcquireLock(r)
      BY <2>10, AcquireLockStep
    <2>11. CASE AcquireRead(r)
      BY <2>11, AcquireReadStep
    <2>12. CASE AcquireCommit(r)
      <3>1. granted' \in [Device -> [Uid -> Nat]]
        BY <2>12, JobOfBusy DEF AcquireCommit, AccountsInv, AccountsTypeOK
      <3> QED BY <2>12, <3>1, AcquireEffectStep DEF AcquireCommit
    <2> QED BY <1>5, <2>1, <2>2, <2>3, <2>4, <2>5, <2>6, <2>7, <2>8, <2>9, <2>10, <2>11, <2>12
            DEF Progress
  <1>6. ASSUME NEW r \in Req, DeadlockDetected(r) \/ Fail(r) PROVE AccountsInv'
    BY <1>6, EndsQuietly DEF DeadlockDetected, Fail
  <1>7. ASSUME NEW r \in Req, ReplyLost(r) PROVE AccountsInv'
    <2>1. Finish(r) /\ UNCHANGED <<clock, minted, granted, known>>
      BY <1>7 DEF ReplyLost, clients
    <2>2. CASE pc[r] = "complete_commit" /\ CompleteEffect(r)
      BY <2>1, <2>2, CompleteEffectStep DEF Learns
    <2>3. CASE UpdateEffect(r)
      BY <2>1, <2>3, UpdateEffectStep DEF Learns
    <2>4. CASE pc[r] = "lease_write" /\ AcquireEffect(r)
      <3>1. granted' \in [Device -> [Uid -> Nat]]
        BY <2>1 DEF AccountsInv, AccountsTypeOK
      <3> QED BY <2>1, <2>4, <3>1, AcquireEffectStep
    <2> QED BY <1>7, <2>2, <2>3, <2>4 DEF ReplyLost
  <1> QED BY <1>1, <1>2, <1>3, <1>4, <1>5, <1>6, <1>7 DEF AccountsNext

\* What the transactions rely on between two statements is true, for any number of
\* requests and whatever lock keys clash.
THEOREM AccountsInvariant == AccountsSafe => []AccountsInv
  BY AccountsInvInit, AccountsInvStep, PTL DEF AccountsSafe

\* The tables and the requests hold what their columns and fields can hold.
THEOREM AccountsTypeCorrect == AccountsSafe => []AccountsTypeOK
  <1>1. AccountsInv => AccountsTypeOK
    BY DEF AccountsInv
  <1> QED BY <1>1, AccountsInvariant, PTL

\* A token version that a device was told names one token for ever.
THEOREM VersionNamesTokenCorrect == AccountsSafe => []VersionNamesToken
  <1>1. AccountsInv => VersionNamesToken
    BY DEF AccountsInv
  <1> QED BY <1>1, AccountsInvariant, PTL

\* No lease ends later than the longest duration from now.
THEOREM LeasesAreShortCorrect == AccountsSafe => []LeasesAreShort
  <1>1. AccountsInv => LeasesAreShort
    BY DEF AccountsInv
  <1> QED BY <1>1, AccountsInvariant, PTL
-----------------------------------------------------------------------------
(* Action properties *)

\* An update that takes effect replaces the token its client refreshed.
THEOREM UpdatesCorrect == AccountsSafe => UpdatesBuildOnTheirBase
  <1>1. AccountsInv => UpdateBuildsOnItsBase
    <2> SUFFICES ASSUME AccountsInv, NEW r \in Req, UpdateEffect(r)
                 PROVE  /\ accounts[job[r].uid].token = job[r].base
                        /\ accounts[job[r].uid].version < accounts'[job[r].uid].version
                        /\ job[r].status = "unset" =>
                             accounts'[job[r].uid].status = accounts[job[r].uid].status
      BY DEF UpdateBuildsOnItsBase
    <2> DEFINE u == job[r].uid
    <2>1. pc[r] = "update_write" /\ accounts[u].version = job[r].version
      BY DEF UpdateEffect
    <2>2. /\ accounts[u] # NoRow /\ job[r].base = accounts[u].token
          /\ job[r].seen = accounts[u].status
      BY <2>1 DEF AccountsInv, UpdateKnows, Updating
    <2>3. u \in Uid /\ job[r].version \in Nat
      BY <2>1, JobOfBusy
    <2>4. accounts'[u] = [token |-> job[r].token, version |-> accounts[u].version + 1,
                          status |-> NewStatus(job[r])]
      BY <2>3 DEF UpdateEffect, AccountsInv, AccountsTypeOK
    <2> QED BY <2>1, <2>2, <2>3, <2>4 DEF NewStatus
  <1> QED BY <1>1, AccountsInvariant, PTL DEF UpdatesBuildOnTheirBase

\* A lease passes to another device only when it has ended.
THEOREM LeasesChangeHandsCorrect == AccountsSafe => LeasesChangeHandsAtTheirEnd
  <1>1. AccountsInv /\ [AccountsNext]_vars => LeaseChangesHands
    <2> SUFFICES ASSUME AccountsInv, [AccountsNext]_vars, leases' # leases PROVE LeaseChangesHands
      BY DEF LeaseChangesHands
    <2>1. PICK r \in Req : pc[r] = "lease_write" /\ AcquireEffect(r)
      <3>1. ASSUME NEW r \in Req, Progress(r) PROVE pc[r] = "lease_write" /\ AcquireEffect(r)
        BY <3>1 DEF Progress, tables,
             CompleteLock, CompleteRead, CompleteBind, CompleteCommit, CompleteEffect,
             UpdateRead, UpdateApply, UpdateEffect, UpdateConflict,
             SelectRead, SelectBind, SelectCheck, SelectCommit,
             AcquireLock, AcquireRead, AcquireCommit
      <3>2. ASSUME NEW r \in Req, ReplyLost(r) PROVE pc[r] = "lease_write" /\ AcquireEffect(r)
        BY <3>2 DEF ReplyLost, CompleteEffect, UpdateEffect
      <3> QED BY <3>1, <3>2 DEF AccountsNext, vars, tables, Tick, GetToken, Complete, Select, Update,
                               Acquire, DeadlockDetected, Fail
    <2> DEFINE u == job[r].uid
               new == [holder |-> job[r].device, expires |-> job[r].until]
    <2>2. leases' = [leases EXCEPT ![u] = new] /\ u \in Uid
      BY <2>1, JobOfBusy DEF AcquireEffect
    <2>3. new.holder = job[r].device /\ leases \in [Uid -> Lease \cup {NoRow}]
      BY DEF AccountsInv, AccountsTypeOK
    <2>4. leases[u] = NoRow \/ leases[u].holder = job[r].device \/ clock >= leases[u].expires - Skew
      BY <2>1 DEF AccountsInv, LeaseKnows
    <2> HIDE DEF new, u
    <2>5. leases'[u] = new /\ \A w \in Uid \ {u} : leases'[w] = leases[w]
      BY <2>2, <2>3
    <2> QED BY <2>3, <2>4, <2>5 DEF LeaseChangesHands
  <1> QED BY <1>1, AccountsInvariant, PTL DEF AccountsSafe, LeasesChangeHandsAtTheirEnd
-----------------------------------------------------------------------------
(* The refinement of TokenRegister *)

LEMMA HeldVersion ==
  ASSUME AccountsTypeOK, NEW u \in Uid
  PROVE  Register!Version(u) = VersionOf(accounts[u])
  <1>1. CASE accounts[u] = NoRow
    BY <1>1 DEF Register!Version, VersionOf, HeldBy
  <1>2. CASE accounts[u] # NoRow
    <2> DEFINE entry == [token |-> accounts[u].token, version |-> accounts[u].version]
    <2>1. accounts[u] \in Account
      BY <1>2 DEF AccountsTypeOK
    <2>2. entry \in Envelope /\ entry.version = accounts[u].version
      BY <2>1 DEF Account, Envelope
    <2>3. HeldBy(accounts[u]) = entry
      BY <1>2 DEF HeldBy
    <2> HIDE DEF entry
    <2>4. entry # NoRow
      BY <2>2, NoRowAssumption
    <2> QED BY <1>2, <2>2, <2>3, <2>4 DEF Register!Version, VersionOf
  <1> QED BY <1>1, <1>2

LEMMA PutRefines ==
  ASSUME AccountsTypeOK, NEW u \in Uid, NEW new \in Account,
         new.version = VersionOf(accounts[u]) + 1,
         accounts' = [accounts EXCEPT ![u] = new]
  PROVE  /\ Register!Put(u, new.token)
         /\ Register!Version(u) + 1 = new.version
  <1> DEFINE held == [w \in Uid |-> HeldBy(accounts[w])]
             entry == [token |-> new.token, version |-> new.version]
  <1>1. Register!Version(u) + 1 = new.version
    BY HeldVersion
  <1>2. new # NoRow
    BY NoRowAssumption
  <1>3. accounts'[u] = new /\ \A w \in Uid \ {u} : accounts'[w] = accounts[w]
    BY DEF AccountsTypeOK
  <1>4. HeldBy(accounts'[u]) = entry
    BY <1>2, <1>3 DEF HeldBy
  <1> HIDE DEF entry
  <1>5. [w \in Uid |-> HeldBy(accounts'[w])] = [held EXCEPT ![u] = entry]
    <2> DEFINE after == [w \in Uid |-> HeldBy(accounts'[w])]
    <2>1. after[u] = entry /\ \A w \in Uid \ {u} : after[w] = held[w]
      BY <1>3, <1>4
    <2>2. after = [w \in Uid |-> after[w]] /\ held = [w \in Uid |-> held[w]]
      OBVIOUS
    <2> HIDE DEF after, held
    <2>3. after = [held EXCEPT ![u] = entry]
      BY <2>1, <2>2
    <2> QED BY <2>3 DEF after
  <1> QED BY <1>1, <1>5 DEF Register!Put, entry, HeldBy

\* A token that is stored is a replacement, seen by its device or not.
LEMMA StoreRefines ==
  ASSUME AccountsTypeOK, NEW u \in Uid, NEW d \in Device, NEW new \in Account,
         new.version = VersionOf(accounts[u]) + 1,
         accounts' = [accounts EXCEPT ![u] = new],
         Learns(d, u, [token |-> new.token, version |-> new.version])
  PROVE  Register!RegisterNext
  <1>1. Register!Put(u, new.token) /\ Register!Version(u) + 1 = new.version
    BY PutRefines
  <1>2. new.token \in 1..MaxToken
    BY DEF Account
  <1>3. CASE known' = known
    BY <1>1, <1>2, <1>3 DEF Register!RegisterNext, Register!ReplaceUnseen
  <1>4. CASE known' = [known EXCEPT ![d][u] = [token |-> new.token, version |-> new.version]]
    <2>1. Register!Replace(d, u, new.token)
      BY <1>1, <1>4 DEF Register!Replace
    <2> QED BY <1>2, <2>1 DEF Register!RegisterNext
  <1> QED BY <1>3, <1>4 DEF Learns

LEMMA CompleteRefines ==
  ASSUME AccountsInv, NEW r \in Req, pc[r] = "complete_commit", CompleteEffect(r),
         Learns(job[r].device, job[r].uid, [token |-> job[r].token, version |-> job[r].version])
  PROVE  Register!RegisterNext
  <1> DEFINE u == job[r].uid
             d == job[r].device
             v == IF accounts[u] = NoRow THEN 1 ELSE accounts[u].version + 1
             new == [token |-> job[r].token, version |-> v, status |-> "valid"]
  <1>1. AccountsTypeOK /\ ReqInv(r)
    BY DEF AccountsInv, ReqInv
  <1>2. u \in Uid /\ d \in Device /\ job[r].token \in 1..MaxToken
    BY <1>1, JobOfBusy, Counters DEF ReqInv, JobFits, Completing
  <1>3. v \in Nat \ {0} /\ v = VersionOf(accounts[u]) + 1 /\ v = job[r].version
    BY <1>1, <1>2 DEF ReqInv, CompletionOwns, AccountsTypeOK, Account, VersionOf
  <1>4. accounts' = [accounts EXCEPT ![u] = new]
    BY DEF CompleteEffect
  <1> HIDE DEF v
  <1>5. new \in Account /\ new.version = v /\ new.token = job[r].token
    BY <1>2, <1>3 DEF Account, VerifyStatus
  <1>6. Learns(d, u, [token |-> new.token, version |-> new.version])
    BY <1>3, <1>5
  <1> HIDE DEF new, u, d
  <1> QED BY <1>1, <1>2, <1>3, <1>4, <1>5, <1>6, StoreRefines

LEMMA UpdateRefines ==
  ASSUME AccountsInv, NEW r \in Req, UpdateEffect(r),
         Learns(job[r].device, job[r].uid,
                [token |-> job[r].token, version |-> accounts'[job[r].uid].version])
  PROVE  Register!RegisterNext
  <1> DEFINE u == job[r].uid
             d == job[r].device
             v == accounts[u].version + 1
             s == NewStatus(job[r])
             new == [token |-> job[r].token, version |-> v, status |-> s]
  <1>1. AccountsTypeOK /\ ReqInv(r) /\ pc[r] = "update_write"
    BY DEF AccountsInv, ReqInv, UpdateEffect
  <1>2. u \in Uid /\ d \in Device /\ job[r].token \in 1..MaxToken
    BY <1>1, JobOfBusy, Counters DEF ReqInv, JobFits, Updating
  <1>3. accounts[u] # NoRow /\ accounts[u] \in Account /\ job[r].seen = accounts[u].status
    BY <1>1, <1>2 DEF ReqInv, UpdateKnows, Updating, AccountsTypeOK, UpdateEffect
  <1>4. v \in Nat \ {0} /\ v = VersionOf(accounts[u]) + 1 /\ s \in VerifyStatus
    BY <1>1, <1>3, JobOfBusy DEF Account, VersionOf, NewStatus
  <1>5. accounts' = [accounts EXCEPT ![u] = new]
    BY DEF UpdateEffect
  <1> HIDE DEF v, s
  <1>6. new \in Account /\ new.version = v /\ new.token = job[r].token
    BY <1>2, <1>4 DEF Account
  <1>7. accounts'[u] = new
    BY <1>1, <1>2, <1>5 DEF AccountsTypeOK
  <1>8. Learns(d, u, [token |-> new.token, version |-> new.version])
    BY <1>6, <1>7
  <1> HIDE DEF new, u, d
  <1> QED BY <1>1, <1>2, <1>4, <1>5, <1>6, <1>8, StoreRefines

LEMMA GetTokenRefines ==
  ASSUME NEW d \in Device, NEW u \in Uid, AccountsInv, GetToken(d, u)
  PROVE  Register!RegisterNext
  <1> DEFINE entry == [token |-> accounts[u].token, version |-> accounts[u].version]
  <1>1. /\ accounts[u] # NoRow /\ known' = [known EXCEPT ![d][u] = entry] /\ accounts' = accounts
    BY DEF GetToken, Give, tables
  <1>2. accounts[u] \in Account
    BY <1>1 DEF AccountsInv, AccountsTypeOK
  <1>3. entry \in Envelope
    BY <1>2 DEF Account, Envelope
  <1>4. HeldBy(accounts[u]) = entry
    BY <1>1 DEF HeldBy
  <1> HIDE DEF entry
  <1>5. entry # NoRow
    BY <1>3, NoRowAssumption
  <1>6. Register!Tell(d, u)
    BY <1>1, <1>4, <1>5 DEF Register!Tell
  <1> QED BY <1>6 DEF Register!RegisterNext

LEMMA StutterRefines ==
  ASSUME UNCHANGED <<accounts, known>> PROVE UNCHANGED Register!registerVars
  BY DEF Register!registerVars

LEMMA StepRefinesRegister ==
  AccountsInv /\ [AccountsNext]_vars => [Register!RegisterNext]_(Register!registerVars)
  <1> SUFFICES ASSUME AccountsInv, [AccountsNext]_vars
               PROVE  [Register!RegisterNext]_(Register!registerVars)
    OBVIOUS
  <1>1. CASE UNCHANGED vars \/ Tick
    BY <1>1, StutterRefines DEF vars, tables, clients, Tick
  <1>2. ASSUME NEW d \in Device, NEW u \in Uid, GetToken(d, u)
        PROVE  Register!RegisterNext
    BY <1>2, GetTokenRefines
  <1>3. ASSUME NEW r \in Req, NEW d \in Device, NEW u \in Uid,
               \/ Complete(r, d, u) \/ Select(r, d, u)
               \/ \E status \in AskedStatus : Update(r, d, u, status)
               \/ \E asked \in Durations : Acquire(r, d, u, asked)
        PROVE  UNCHANGED Register!registerVars
    BY <1>3, StutterRefines DEF Complete, Select, Update, Acquire, tables, clients
  <1>4. ASSUME NEW r \in Req, Progress(r)
        PROVE  [Register!RegisterNext]_(Register!registerVars)
    <2>1. CASE CompleteCommit(r)
      BY <2>1, CompleteRefines DEF CompleteCommit, Give, Learns
    <2>2. CASE UpdateApply(r)
      BY <2>2, UpdateRefines DEF UpdateApply, Give, Learns
    <2>3. CASE ~ CompleteCommit(r) /\ ~ UpdateApply(r)
      BY <1>4, <2>3, StutterRefines DEF Progress, tables, clients, CompleteLock, CompleteRead,
         CompleteBind, UpdateRead, UpdateConflict, SelectRead, SelectBind, SelectCheck,
         SelectCommit, AcquireLock, AcquireRead, AcquireCommit, AcquireEffect
    <2> QED BY <2>1, <2>2, <2>3
  <1>5. ASSUME NEW r \in Req, DeadlockDetected(r) \/ Fail(r)
        PROVE  UNCHANGED Register!registerVars
    BY <1>5, StutterRefines DEF DeadlockDetected, Fail, tables, clients
  <1>6. ASSUME NEW r \in Req, ReplyLost(r)
        PROVE  [Register!RegisterNext]_(Register!registerVars)
    <2>1. known' = known
      BY <1>6 DEF ReplyLost, clients
    <2>2. CASE pc[r] = "complete_commit" /\ CompleteEffect(r)
      BY <2>1, <2>2, CompleteRefines DEF Learns
    <2>3. CASE UpdateEffect(r)
      BY <2>1, <2>3, UpdateRefines DEF Learns
    <2>4. CASE AcquireEffect(r)
      BY <2>1, <2>4, StutterRefines DEF AcquireEffect
    <2> QED BY <1>6, <2>2, <2>3, <2>4 DEF ReplyLost
  <1> QED BY <1>1, <1>2, <1>3, <1>4, <1>5, <1>6 DEF AccountsNext

\* The interleaved transactions, with failures, database deadlocks and lost
\* replies, implement a versioned register.
THEOREM ImplementsRegisterCorrect == AccountsSafe => ImplementsRegister
  <1>1. AccountsInit => Register!RegisterInit
    BY DEF AccountsInit, Register!RegisterInit, HeldBy
  <1> QED BY <1>1, StepRefinesRegister, AccountsInvariant, PTL
          DEF AccountsSafe, ImplementsRegister, Register!RegisterSpec

RegisterFacts == INSTANCE TokenRegisterProofs
                   WITH Token <- 1..MaxToken,
                        current <- [u \in Uid |-> HeldBy(accounts[u])],
                        told <- known

\* What the register promises holds of the tables: two devices that were told one
\* version of an account were told one token, and it is the stored one as long as
\* the account has that version.
THEOREM RegisterPromiseKept == AccountsSafe => []Register!OneTokenPerVersion
  <1>1. NoRow \notin RegisterFacts!Entry
    BY NoRowAssumption DEF RegisterFacts!Entry, Envelope
  <1>2. RegisterFacts!RegisterSpec => []RegisterFacts!OneTokenPerVersion
    BY <1>1, RegisterFacts!OneTokenPerVersionCorrect
  <1>3. /\ Register!RegisterInit => RegisterFacts!RegisterInit
        /\ [Register!RegisterNext]_(Register!registerVars) =>
             [RegisterFacts!RegisterNext]_(RegisterFacts!registerVars)
        /\ RegisterFacts!OneTokenPerVersion => Register!OneTokenPerVersion
    BY DEF Register!RegisterInit, Register!RegisterNext, Register!registerVars, Register!Replace,
      Register!ReplaceUnseen, Register!Tell, Register!Put, Register!Version,
      Register!OneTokenPerVersion, RegisterFacts!RegisterInit, RegisterFacts!RegisterNext,
      RegisterFacts!registerVars, RegisterFacts!Replace, RegisterFacts!ReplaceUnseen,
      RegisterFacts!Tell, RegisterFacts!Put, RegisterFacts!Version, RegisterFacts!OneTokenPerVersion
  <1> QED BY <1>2, <1>3, ImplementsRegisterCorrect, PTL
          DEF ImplementsRegister, Register!RegisterSpec, RegisterFacts!RegisterSpec
-----------------------------------------------------------------------------
(* Waiting *)

\* Two requests that have read one account for a completion are one request.
LEMMA OneCompletion ==
  ASSUME AccountsInv, NEW p \in Req, NEW q \in Req, HoldsUidLock(p), HoldsUidLock(q),
         job[p].uid = job[q].uid
  PROVE  p = q
  <1>1. p # q => LocksApart(p, q)
    BY DEF AccountsInv
  <1> QED BY <1>1 DEF LocksApart, HoldsAdvisory, AdvisoryKey

\* The requests of a group that all wait for one of the group, from those that
\* have most to those that have least: nobody is left unless two have crossed.
LEMMA WaitersCross ==
  ASSUME AccountsInv, NEW S \in SUBSET Req, S # {},
         \A r \in S : \E q \in S : WaitsFor(r, q)
  PROVE  \E s, c \in S : Crossed(s, c)
  <1> SUFFICES ASSUME \A s, c \in S : ~ Crossed(s, c) PROVE FALSE
    OBVIOUS
  <1>1. \A r \in S : pc[r] \in {"complete_lock", "complete_read", "complete_bind", "select_bind",
                               "select_check", "update_write", "lease_lock", "lease_write"}
    BY DEF WaitsFor
  <1>2. \A q \in S : LocksAccount(q) => pc[q] = "complete_bind"
    BY <1>1 DEF LocksAccount
  <1>3. \A q \in S : ~ SharesAccount(q)
    BY <1>1 DEF SharesAccount
  <1>4. \A q \in S : LocksBinding(q) => pc[q] = "select_check"
    BY <1>1 DEF LocksBinding
  <1>5. \A r \in S : pc[r] # "complete_read"
    <2> SUFFICES ASSUME NEW r \in S, pc[r] = "complete_read" PROVE FALSE
      OBVIOUS
    <2>1. PICK q \in S : WaitsForAccount(r, q)
      BY <1>3 DEF WaitsFor, WaitsForShare
    <2>2. q # r /\ job[q].uid = job[r].uid /\ pc[q] = "complete_bind"
      BY <1>2, <2>1 DEF WaitsForAccount
    <2> QED BY <2>2, OneCompletion DEF HoldsUidLock
  <1>6. \A r \in S : pc[r] # "complete_bind"
    <2> SUFFICES ASSUME NEW r \in S, pc[r] = "complete_bind" PROVE FALSE
      OBVIOUS
    <2>1. PICK s \in S : WaitsForBinding(r, s)
      BY DEF WaitsFor
    <2>2. pc[s] = "select_check" /\ job[s].uid = job[r].uid
      BY <1>4, <2>1 DEF WaitsForBinding
    <2>3. PICK c \in S : WaitsForAccount(s, c)
      BY <2>2 DEF WaitsFor
    <2>4. pc[c] = "complete_bind" /\ job[c].uid = job[s].uid
      BY <1>2, <2>3 DEF WaitsForAccount
    <2>5. c = r
      BY <2>2, <2>4, OneCompletion DEF HoldsUidLock
    <2> QED BY <2>1, <2>2, <2>3, <2>5 DEF Crossed
  <1>7. \A r, q \in S : ~ WaitsForAccount(r, q)
    BY <1>2, <1>6 DEF WaitsForAccount
  <1>8. \A r \in S : pc[r] \notin {"select_check", "update_write", "lease_write"}
    BY <1>7 DEF WaitsFor
  <1>9. \A r \in S : pc[r] # "select_bind"
    BY <1>4, <1>8 DEF WaitsFor, WaitsForBinding
  <1>10. \A r \in S : pc[r] \in {"complete_lock", "lease_lock"}
    BY <1>1, <1>5, <1>6, <1>8, <1>9
  <1> QED BY <1>10 DEF WaitsFor, HoldsUidLock, HoldsLeaseLock

\* The only deadlock is the one of a selection and a completion by one device, for
\* every number of accounts, devices and requests, and whichever lock keys collide.
THEOREM OnlyOneDeviceDeadlocksCorrect == AccountsSafe => []OnlyOneDeviceDeadlocks
  <1>1. AccountsInv => OnlyOneDeviceDeadlocks
    BY WaitersCross DEF OnlyOneDeviceDeadlocks, Crossed, WaitsForBinding
  <1> QED BY <1>1, AccountsInvariant, PTL

\* What Progress(r) asks for besides the stage of r.
CanGoOn(r) ==
  /\ pc[r] # "idle"
  /\ pc[r] \in {"complete_lock", "lease_lock"} => AdvisoryFree(r)
  /\ pc[r] = "complete_read" /\ accounts[job[r].uid] # NoRow =>
       \A q \in Req : ~ WaitsForAccount(r, q) /\ ~ WaitsForShare(r, q)
  /\ pc[r] \in {"complete_bind", "select_bind"} => \A q \in Req : ~ WaitsForBinding(r, q)
  /\ pc[r] \in {"update_write", "select_check"} => \A q \in Req : ~ WaitsForAccount(r, q)
  /\ pc[r] = "lease_write" /\ leases[job[r].uid] = NoRow => \A q \in Req : ~ WaitsForAccount(r, q)

\* As long as a request has no reply, one can go on or PostgreSQL ends one.
SomeoneCanGoOn ==
  (\E r \in Req : pc[r] # "idle") =>
    \E r \in Req : CanGoOn(r) \/ \E q \in Req : Crossed(r, q)

LEMMA SomeoneGoesOn == AccountsInv => SomeoneCanGoOn
  <1> DEFINE Busy == {r \in Req : pc[r] # "idle"}
  <1> SUFFICES ASSUME AccountsInv, Busy # {}
               PROVE  \E r \in Req : CanGoOn(r) \/ \E q \in Req : Crossed(r, q)
    BY DEF SomeoneCanGoOn
  <1>1. CASE \E s, c \in Busy : Crossed(s, c)
    BY <1>1
  <1>2. CASE \A s, c \in Busy : ~ Crossed(s, c)
    <2>1. PICK r \in Busy : \A q \in Busy : ~ WaitsFor(r, q)
      BY <1>2, WaitersCross
    <2>2. \A q \in Req : HoldsUidLock(q) \/ HoldsLeaseLock(q) \/ LocksAccount(q)
                        \/ SharesAccount(q) \/ LocksBinding(q) => q \in Busy
      BY DEF HoldsUidLock, HoldsLeaseLock, LocksAccount, SharesAccount, LocksBinding
    <2>3. \A q \in Req : ~ WaitsFor(r, q)
      BY <2>1, <2>2 DEF WaitsFor, WaitsForAccount, WaitsForShare, WaitsForBinding
    <2>4. CanGoOn(r)
      BY <2>3 DEF WaitsFor, CanGoOn, AdvisoryFree
    <2> QED BY <2>4
  <1> QED BY <1>1, <1>2

\* No order of requests on the accounts brings the server to a standstill that the
\* deadlock detector does not end.
THEOREM AccountsNeverStandStill == AccountsSafe => []SomeoneCanGoOn
  BY SomeoneGoesOn, AccountsInvariant, PTL
=============================================================================
