----------------------------- MODULE BaiduAccounts -----------------------------
(***************************************************************************)
(* The Baidu accounts that several devices share: their encrypted tokens    *)
(* with an optimistic version, the device bindings and the refresh leases.  *)
(* Each API request is a database transaction (or a read and a statement)   *)
(* at READ COMMITTED; requests interleave between any two statements.       *)
(*                                                                          *)
(* An account is named by its Baidu uid, which the table keeps unique.  A   *)
(* token envelope is a number that no other envelope has.  Time is the      *)
(* database clock; the API server's clock, which decides whether a lease    *)
(* has expired, may be off by Skew.                                         *)
(*                                                                          *)
(* The client is not in the repository: known and granted are what the      *)
(* replies told each device, and a device sends an update only for a token  *)
(* it was given and after a lease was granted to it.                        *)
(***************************************************************************)
EXTENDS Integers, FiniteSets

CONSTANTS
  Uid, Device,
  Req,               \* requests that the server may handle at the same time
  Durations,         \* lease durations that clients ask for
  DefaultLease,      \* the duration for one that is not positive, 300 seconds in the code
  ShortestLease,     \* 30 seconds in the code
  LongestLease,      \* 900 seconds in the code
  AskedStatus,       \* the last_verify_status of updates, "unset" if empty
  Skew,              \* bound on the distance of the two clocks
  LockKey,           \* the results of hashtext
  UidLock,           \* hashtext on a Baidu uid
  LeaseLock,         \* hashtext on "baidu_lease:" and an account id
  MaxToken,          \* bound: envelopes that are ever made
  MaxClock,          \* bound: the last instant of the clock
  NoRow

ASSUME AccountsAssumption ==
  /\ Durations \subseteq Int /\ Skew \in Nat
  /\ ShortestLease \in Nat \ {0} /\ LongestLease \in Nat
  /\ DefaultLease \in ShortestLease..LongestLease
  /\ AskedStatus \subseteq {"valid", "invalid", "unset"}
  /\ MaxToken \in Nat /\ MaxClock \in Nat
  /\ UidLock \in [Uid -> LockKey] /\ LeaseLock \in [Uid -> LockKey]

VARIABLES
  accounts,          \* baidu_accounts: uid -> row
  bindings,          \* baidu_account_device_bindings
  leases,            \* baidu_token_refresh_leases: uid -> row
  clock,             \* now() of the database
  minted,            \* the number of envelopes made so far
  known,             \* device -> uid -> the envelope it was last given
  granted,           \* device -> uid -> the end of the lease it was last granted
  pc, job            \* the requests in flight

tables == <<accounts, bindings, leases>>
clients == <<known, granted>>
vars == <<tables, clock, minted, clients, pc, job>>

VerifyStatus == {"valid", "invalid"}
Account == [token: 1..MaxToken, version: Nat \ {0}, status: VerifyStatus]
Lease == [holder: Device, expires: Nat]
Envelope == [token: 1..MaxToken, version: Nat \ {0}]

ASSUME NoRowAssumption == NoRow \notin Account \cup Lease \cup Envelope

NoJob == [device |-> NoRow, uid |-> NoRow, token |-> 0, version |-> 0,
          base |-> 0, status |-> "unset", seen |-> "unset", until |-> 0]
Job == [device: Device, uid: Uid, token: 0..MaxToken, version: Nat,
        base: 0..MaxToken, status: VerifyStatus \cup {"unset"},
        seen: VerifyStatus \cup {"unset"}, until: Nat]

Stages == {"idle",
           "complete_lock", "complete_read", "complete_bind", "complete_commit",
           "update_read", "update_write",
           "select_read", "select_bind", "select_check", "select_commit",
           "lease_lock", "lease_read", "lease_write"}

AccountsTypeOK ==
  /\ accounts \in [Uid -> Account \cup {NoRow}]
  /\ bindings \subseteq Uid \X Device
  /\ leases \in [Uid -> Lease \cup {NoRow}]
  /\ clock \in 0..MaxClock /\ minted \in 0..MaxToken
  /\ known \in [Device -> [Uid -> Envelope \cup {NoRow}]]
  /\ granted \in [Device -> [Uid -> Nat]]
  /\ pc \in [Req -> Stages]
  /\ job \in [Req -> Job \cup {NoJob}]

AccountsInit ==
  /\ accounts = [u \in Uid |-> NoRow]
  /\ bindings = {}
  /\ leases = [u \in Uid |-> NoRow]
  /\ clock = 0 /\ minted = 0
  /\ known = [d \in Device |-> [u \in Uid |-> NoRow]]
  /\ granted = [d \in Device |-> [u \in Uid |-> 0]]
  /\ pc = [r \in Req |-> "idle"]
  /\ job = [r \in Req |-> NoJob]

Goto(r, stage) == pc' = [pc EXCEPT ![r] = stage]
Start(r, stage, fields) == /\ pc[r] = "idle"
                           /\ Goto(r, stage)
                           /\ job' = [job EXCEPT ![r] = fields]
Finish(r) == Goto(r, "idle") /\ job' = [job EXCEPT ![r] = NoJob]

Request(d, u) == [NoJob EXCEPT !.device = d, !.uid = u]

Give(d, u, token, version) ==
  known' = [known EXCEPT ![d][u] = [token |-> token, version |-> version]]
-----------------------------------------------------------------------------
(* Locks, as far as requests can wait for each other *)

HoldsUidLock(r) == pc[r] \in {"complete_read", "complete_bind", "complete_commit"}
HoldsLeaseLock(r) == pc[r] \in {"lease_read", "lease_write"}
AdvisoryKey(r) == IF HoldsUidLock(r) \/ pc[r] = "complete_lock"
                  THEN UidLock[job[r].uid] ELSE LeaseLock[job[r].uid]

\* Variant, never used by AccountsNext: the advisory lock is forgotten.
AdvisoryForgotten(r) == TRUE

\* pg_advisory_xact_lock: one key space for all purposes.
AdvisoryFree(r) == \A q \in Req : HoldsUidLock(q) \/ HoldsLeaseLock(q) =>
                                    AdvisoryKey(q) # AdvisoryKey(r)

\* Variant, never used by AccountsNext: the row is read without FOR UPDATE.
LocksNoAccount(r) == FALSE

\* The account row that CompleteBaiduAuthSession has read FOR UPDATE.
LocksAccount(r) == /\ pc[r] \in {"complete_bind", "complete_commit"}
                   /\ accounts[job[r].uid] # NoRow
\* The foreign key of a new binding shares the account row until the commit.
SharesAccount(r) == /\ pc[r] = "select_commit"
                    /\ <<job[r].uid, job[r].device>> \notin bindings
\* The binding row that a transaction has inserted or updated.
LocksBinding(r) == pc[r] \in {"complete_commit", "select_check", "select_commit"}

WaitsForAccount(r, q) == q # r /\ job[q].uid = job[r].uid /\ LocksAccount(q)
WaitsForShare(r, q) == q # r /\ job[q].uid = job[r].uid /\ SharesAccount(q)

\* Variant, never used by AccountsNext: the primary key of the bindings is the
\* account alone, so the devices share a row.
WaitsForAnyBinding(r, q) == q # r /\ LocksBinding(q) /\ job[q].uid = job[r].uid

WaitsForBinding(r, q) == /\ q # r /\ LocksBinding(q)
                         /\ job[q].uid = job[r].uid /\ job[q].device = job[r].device
-----------------------------------------------------------------------------
(* POST /v1/baidu/auth/sessions/{id}/complete: CompleteBaiduAuthSession *)

\* Baidu has exchanged the code for a token, which was encrypted.
Complete(r, d, u) ==
  /\ minted < MaxToken
  /\ minted' = minted + 1
  /\ Start(r, "complete_lock", [Request(d, u) EXCEPT !.token = minted + 1])
  /\ UNCHANGED <<tables, clock, clients>>

CompleteLock(r) ==
  /\ pc[r] = "complete_lock" /\ AdvisoryFree(r)
  /\ Goto(r, "complete_read")
  /\ UNCHANGED <<tables, clock, minted, clients, job>>

\* Variant, never used by AccountsNext: the reply names the version of a new account.
CompleteReadNew(r) ==
  LET row == accounts[job[r].uid]
  IN /\ pc[r] = "complete_read"
     /\ row # NoRow => \A q \in Req : ~ WaitsForAccount(r, q) /\ ~ WaitsForShare(r, q)
     /\ Goto(r, "complete_bind")
     /\ job' = [job EXCEPT ![r].version = 1]
     /\ UNCHANGED <<tables, clock, minted, clients>>

\* SELECT ... FOR UPDATE, and the version that the reply will name.
CompleteRead(r) ==
  LET row == accounts[job[r].uid]
  IN /\ pc[r] = "complete_read"
     /\ row # NoRow => \A q \in Req : ~ WaitsForAccount(r, q) /\ ~ WaitsForShare(r, q)
     /\ Goto(r, "complete_bind")
     /\ job' = [job EXCEPT ![r].version = IF row = NoRow THEN 1 ELSE row.version + 1]
     /\ UNCHANGED <<tables, clock, minted, clients>>

CompleteBind(r) ==
  /\ pc[r] = "complete_bind"
  /\ \A q \in Req : ~ WaitsForBinding(r, q)
  /\ Goto(r, "complete_commit")
  /\ UNCHANGED <<tables, clock, minted, clients, job>>

\* The account row is inserted with version 1, or its own version goes up by one.
CompleteEffect(r) ==
  LET u == job[r].uid
  IN /\ accounts' = [accounts EXCEPT ![u] =
                       [token   |-> job[r].token,
                        version |-> IF @ = NoRow THEN 1 ELSE @.version + 1,
                        status  |-> "valid"]]
     /\ bindings' = bindings \cup {<<u, job[r].device>>}
     /\ UNCHANGED leases

CompleteCommit(r) ==
  /\ pc[r] = "complete_commit"
  /\ CompleteEffect(r)
  /\ Give(job[r].device, job[r].uid, job[r].token, job[r].version)
  /\ Finish(r)
  /\ UNCHANGED <<clock, minted, granted>>
-----------------------------------------------------------------------------
(* GET and PUT /v1/baidu/accounts/{id}/token *)

GetToken(d, u) ==
  /\ accounts[u] # NoRow
  /\ Give(d, u, accounts[u].token, accounts[u].version)
  /\ UNCHANGED <<tables, clock, minted, granted, pc, job>>

\* handleUpdateBaiduToken: a client refreshed the envelope it knows; an empty
\* status asks to keep the stored one.
Update(r, d, u, status) ==
  /\ known[d][u] # NoRow /\ granted[d][u] > 0
  /\ minted < MaxToken
  /\ minted' = minted + 1
  /\ Start(r, "update_read", [Request(d, u) EXCEPT !.token = minted + 1,
                                !.version = known[d][u].version,
                                !.base = known[d][u].token, !.status = status])
  /\ UNCHANGED <<tables, clock, clients>>

\* GetBaiduAccount: the row whose status the update copies.
UpdateRead(r) ==
  /\ pc[r] = "update_read"
  /\ Goto(r, "update_write")
  /\ job' = [job EXCEPT ![r].seen = accounts[job[r].uid].status]
  /\ UNCHANGED <<tables, clock, minted, clients>>

\* The row that was read is written back with what the request gives replaced.
NewStatus(request) == IF request.status = "unset" THEN request.seen ELSE request.status

\* Variant, never used by AccountsNext: AND token_version = $2 is missing.
UpdateBlindly(r) ==
  LET u == job[r].uid
  IN /\ pc[r] = "update_write"
     /\ \A q \in Req : ~ WaitsForAccount(r, q)
     /\ accounts' = [accounts EXCEPT ![u] = [token |-> job[r].token,
                                             version |-> @.version + 1,
                                             status |-> NewStatus(job[r])]]
     /\ UNCHANGED <<bindings, leases>>

\* UpdateBaiduAccountToken: one statement, evaluated once the row is not locked.
UpdateEffect(r) ==
  LET u == job[r].uid
  IN /\ pc[r] = "update_write"
     /\ \A q \in Req : ~ WaitsForAccount(r, q)
     /\ accounts[u].version = job[r].version
     /\ accounts' = [accounts EXCEPT ![u] = [token |-> job[r].token,
                                             version |-> @.version + 1,
                                             status |-> NewStatus(job[r])]]
     /\ UNCHANGED <<bindings, leases>>

UpdateApply(r) ==
  /\ UpdateEffect(r)
  /\ Give(job[r].device, job[r].uid, job[r].token, accounts'[job[r].uid].version)
  /\ Finish(r)
  /\ UNCHANGED <<clock, minted, granted>>

\* Variant, never used by AccountsNext: no row matches, and the statement is repeated.
UpdateRepeat(r) ==
  /\ pc[r] = "update_write"
  /\ \A q \in Req : ~ WaitsForAccount(r, q)
  /\ accounts[job[r].uid].version # job[r].version
  /\ Goto(r, "update_write")
  /\ UNCHANGED <<tables, clock, minted, clients, job>>

\* token_version_conflict
UpdateConflict(r) ==
  /\ pc[r] = "update_write"
  /\ \A q \in Req : ~ WaitsForAccount(r, q)
  /\ accounts[job[r].uid].version # job[r].version
  /\ Finish(r)
  /\ UNCHANGED <<tables, clock, minted, clients>>
-----------------------------------------------------------------------------
(* POST /v1/baidu/accounts/{id}/select: SelectBaiduAccount *)

Select(r, d, u) ==
  /\ Start(r, "select_read", Request(d, u))
  /\ UNCHANGED <<tables, clock, minted, clients>>

SelectRead(r) ==
  /\ pc[r] = "select_read"
  /\ IF accounts[job[r].uid] = NoRow THEN Finish(r)
     ELSE Goto(r, "select_bind") /\ UNCHANGED job
  /\ UNCHANGED <<tables, clock, minted, clients>>

\* A new binding has its foreign key checked, an existing one is only touched.
SelectBind(r) ==
  /\ pc[r] = "select_bind"
  /\ \A q \in Req : ~ WaitsForBinding(r, q)
  /\ Goto(r, IF <<job[r].uid, job[r].device>> \in bindings
             THEN "select_commit" ELSE "select_check")
  /\ UNCHANGED <<tables, clock, minted, clients, job>>

SelectCheck(r) ==
  /\ pc[r] = "select_check"
  /\ \A q \in Req : ~ WaitsForAccount(r, q)
  /\ Goto(r, "select_commit")
  /\ UNCHANGED <<tables, clock, minted, clients, job>>

SelectCommit(r) ==
  /\ pc[r] = "select_commit"
  /\ bindings' = bindings \cup {<<job[r].uid, job[r].device>>}
  /\ Finish(r)
  /\ UNCHANGED <<accounts, leases, clock, minted, clients>>
-----------------------------------------------------------------------------
(* POST /v1/baidu/accounts/{id}/refresh-lease: AcquireBaiduRefreshLease *)

\* Variant, never used by AccountsNext: the upper limit is forgotten.
ClampShortOnly(asked) == IF asked < ShortestLease THEN ShortestLease ELSE asked

\* A duration of zero or less asks for the default, the others are clamped.
Clamp(asked) ==
  IF asked <= 0 THEN DefaultLease
  ELSE IF asked < ShortestLease THEN ShortestLease
  ELSE IF asked > LongestLease THEN LongestLease
  ELSE asked

\* now() is the start of the transaction, whenever its statements run.
Acquire(r, d, u, asked) ==
  /\ accounts[u] # NoRow
  /\ Start(r, "lease_lock", [Request(d, u) EXCEPT !.until = clock + Clamp(asked)])
  /\ UNCHANGED <<tables, clock, minted, clients>>

AcquireLock(r) ==
  /\ pc[r] = "lease_lock" /\ AdvisoryFree(r)
  /\ Goto(r, "lease_read")
  /\ UNCHANGED <<tables, clock, minted, clients, job>>

\* The lease of another device that the API server's clock finds running.
Running(row, d, now) == row # NoRow /\ now < row.expires /\ row.holder # d

AcquireRead(r) ==
  /\ pc[r] = "lease_read"
  /\ \E off \in -Skew..Skew :
       IF Running(leases[job[r].uid], job[r].device, clock + off)
       THEN Finish(r)
       ELSE Goto(r, "lease_write") /\ UNCHANGED job
  /\ UNCHANGED <<tables, clock, minted, clients>>

AcquireEffect(r) ==
  /\ leases[job[r].uid] = NoRow => \A q \in Req : ~ WaitsForAccount(r, q)
  /\ leases' = [leases EXCEPT ![job[r].uid] =
                  [holder |-> job[r].device, expires |-> job[r].until]]
  /\ UNCHANGED <<accounts, bindings>>

AcquireCommit(r) ==
  /\ pc[r] = "lease_write"
  /\ AcquireEffect(r)
  /\ granted' = [granted EXCEPT ![job[r].device][job[r].uid] = job[r].until]
  /\ Finish(r)
  /\ UNCHANGED <<clock, minted, known>>
-----------------------------------------------------------------------------
(* Time and failures *)

Tick ==
  /\ clock < MaxClock
  /\ clock' = clock + 1
  /\ UNCHANGED <<tables, minted, clients, pc, job>>

\* A statement fails or the connection is lost: rollback and 503.
Fail(r) ==
  /\ pc[r] # "idle"
  /\ Finish(r)
  /\ UNCHANGED <<tables, clock, minted, clients>>

\* The commit took effect, the client does not learn it.  (A selection tells the
\* client nothing that the model keeps.)
ReplyLost(r) ==
  /\ \/ pc[r] = "complete_commit" /\ CompleteEffect(r)
     \/ UpdateEffect(r)
     \/ pc[r] = "lease_write" /\ AcquireEffect(r)
  /\ Finish(r)
  /\ UNCHANGED <<clock, minted, clients>>

\* A selection that holds the binding and waits for the account, and a completion
\* that holds the account and waits for the binding.
Crossed(s, c) == /\ pc[s] = "select_check" /\ WaitsForAccount(s, c)
                 /\ pc[c] = "complete_bind" /\ WaitsForBinding(c, s)

\* PostgreSQL aborts one of the two.
DeadlockDetected(r) ==
  /\ \E q \in Req : Crossed(r, q) \/ Crossed(q, r)
  /\ Finish(r)
  /\ UNCHANGED <<tables, clock, minted, clients>>
-----------------------------------------------------------------------------
Progress(r) ==
  \/ CompleteLock(r) \/ CompleteRead(r) \/ CompleteBind(r) \/ CompleteCommit(r)
  \/ UpdateRead(r) \/ UpdateApply(r) \/ UpdateConflict(r)
  \/ SelectRead(r) \/ SelectBind(r) \/ SelectCheck(r) \/ SelectCommit(r)
  \/ AcquireLock(r) \/ AcquireRead(r) \/ AcquireCommit(r)

AccountsNext ==
  \/ Tick
  \/ \E d \in Device, u \in Uid : GetToken(d, u)
  \/ \E r \in Req :
       \/ \E d \in Device, u \in Uid :
            \/ Complete(r, d, u) \/ Select(r, d, u)
            \/ \E status \in AskedStatus : Update(r, d, u, status)
            \/ \E asked \in Durations : Acquire(r, d, u, asked)
       \/ Progress(r)
       \/ DeadlockDetected(r)
       \/ Fail(r) \/ ReplyLost(r)

\* Lock queues are first in, first out, and the deadlock detector runs.
AccountsFairness ==
  \A r \in Req : SF_vars(Progress(r)) /\ SF_vars(DeadlockDetected(r))

AccountsSafe == AccountsInit /\ [][AccountsNext]_vars
AccountsSpec == AccountsSafe /\ AccountsFairness
-----------------------------------------------------------------------------
(* Properties *)

\* A version names one token: what any device was told about a version is what
\* the account has, or had, under it, although CompleteBaiduAuthSession computes
\* the version of its reply apart from the one its UPDATE stores.
VersionNamesToken ==
  \A u \in Uid : \A d \in Device : known[d][u] # NoRow =>
    /\ accounts[u] # NoRow
    /\ known[d][u].version <= accounts[u].version
    /\ known[d][u].version = accounts[u].version => known[d][u].token = accounts[u].token
    /\ \A e \in Device : known[e][u] # NoRow =>
         (known[e][u].version = known[d][u].version => known[e][u].token = known[d][u].token)

\* The abstract register: what an account holds, and what devices were told.
HeldBy(row) == IF row = NoRow THEN NoRow
               ELSE [token |-> row.token, version |-> row.version]
Register == INSTANCE TokenRegister
              WITH Token <- 1..MaxToken,
                   current <- [u \in Uid |-> HeldBy(accounts[u])],
                   told <- known

\* Completions, updates and reads of several devices act like single steps on a
\* versioned register: a reply names the version under which its token was stored,
\* although the transaction computes it before it writes and other requests run
\* in between.
ImplementsRegister == Register!RegisterSpec

\* An update replaces exactly the token that its client refreshed, and one that
\* gives no status keeps the stored status, although the handler reads the
\* account before and outside of the statement that updates it.
UpdateBuildsOnItsBase ==
  \A r \in Req : UpdateEffect(r) =>
    LET u == job[r].uid
    IN /\ accounts[u].token = job[r].base
       /\ accounts[u].version < accounts'[u].version
       /\ job[r].status = "unset" => accounts'[u].status = accounts[u].status

UpdatesBuildOnTheirBase == [][UpdateBuildsOnItsBase]_vars

\* A running lease is taken over by another device only when it has ended, up to
\* the distance of the clocks.
LeaseChangesHands ==
  \A u \in Uid :
    leases[u] # NoRow /\ leases'[u] # leases[u] =>
      \/ leases'[u].holder = leases[u].holder
      \/ clock >= leases[u].expires - Skew

LeasesChangeHandsAtTheirEnd == [][LeaseChangesHands]_vars

\* No lease keeps the other devices waiting longer than the longest one, whatever
\* a client asks for and however late its transaction commits.
LeasesAreShort ==
  \A u \in Uid : leases[u] # NoRow => leases[u].expires <= clock + LongestLease

\* r cannot go on before q does.
WaitsFor(r, q) ==
  \/ /\ pc[r] \in {"complete_lock", "lease_lock"}
     /\ HoldsUidLock(q) \/ HoldsLeaseLock(q)
     /\ AdvisoryKey(q) = AdvisoryKey(r)
  \/ /\ pc[r] = "complete_read" /\ accounts[job[r].uid] # NoRow
     /\ WaitsForAccount(r, q) \/ WaitsForShare(r, q)
  \/ pc[r] \in {"complete_bind", "select_bind"} /\ WaitsForBinding(r, q)
  \/ pc[r] \in {"update_write", "select_check"} /\ WaitsForAccount(r, q)
  \/ /\ pc[r] = "lease_write" /\ leases[job[r].uid] = NoRow
     /\ WaitsForAccount(r, q)

\* A group of requests that wait for each other contains a completion and a
\* selection by one device that take account and binding in opposite orders.  There
\* is no other deadlock and none between devices, although two kinds of advisory
\* locks share their keys, and foreign keys lock the account rows of requests that
\* never asked for them.
OnlyOneDeviceDeadlocks ==
  \A S \in SUBSET Req : S # {} =>
    \/ \E r \in S : \A q \in S : ~ WaitsFor(r, q)
    \/ \E s, c \in S : Crossed(s, c) /\ job[s].device = job[c].device

\* Every request gets a reply, the ones in a database deadlock too.
EveryRequestAnswered == \A r \in Req : (pc[r] # "idle") ~> (pc[r] = "idle")

\* docs/product_spec_v1.3.md demands that a refresh token is updated by way of the
\* refresh lease and the token version.  The handler checks the version only: a
\* device whose lease has passed to another one still updates.
UpdateUnderLease ==
  [][\A r \in Req : UpdateEffect(r) =>
       /\ leases[job[r].uid] # NoRow
       /\ leases[job[r].uid].holder = job[r].device]_vars
-----------------------------------------------------------------------------
(* The inductive invariant *)

HoldsAdvisory(r) == HoldsUidLock(r) \/ HoldsLeaseLock(r)
Completing(r) == pc[r] \in {"complete_lock", "complete_read", "complete_bind", "complete_commit"}
Updating(r) == pc[r] \in {"update_read", "update_write"}
Leasing(r) == pc[r] \in {"lease_lock", "lease_read", "lease_write"}

JobFits(r) ==
  /\ pc[r] # "idle" => job[r] \in Job
  /\ Completing(r) \/ Updating(r) => job[r].token # 0

\* The version that a completion will name is still the one its commit stores.
CompletionOwns(r) ==
  pc[r] \in {"complete_bind", "complete_commit"} =>
    LET row == accounts[job[r].uid]
    IN job[r].version = IF row = NoRow THEN 1 ELSE row.version + 1

\* As long as the version of an update is the current one, so are the token it was
\* refreshed from and the status it has read.
UpdateKnows(r) ==
  Updating(r) =>
    LET row == accounts[job[r].uid]
    IN /\ row # NoRow /\ job[r].version <= row.version
       /\ job[r].version = row.version =>
            /\ job[r].base = row.token
            /\ pc[r] = "update_write" => job[r].seen = row.status

\* A lease that was found free or ended is still so when it is taken.
LeaseKnows(r) ==
  LET row == leases[job[r].uid]
  IN /\ Leasing(r) => job[r].until <= clock + LongestLease
     /\ pc[r] = "lease_write" =>
          row = NoRow \/ row.holder = job[r].device \/ clock >= row.expires - Skew

\* No two transactions hold one advisory lock.
LocksApart(q, r) ==
  HoldsAdvisory(q) /\ HoldsAdvisory(r) => AdvisoryKey(q) # AdvisoryKey(r)

\* What the transactions rely on between their statements: the locks they hold,
\* the version they read, the lease they saw.
AccountsInv ==
  /\ AccountsTypeOK
  /\ VersionNamesToken
  /\ LeasesAreShort
  /\ \A r \in Req : JobFits(r) /\ CompletionOwns(r) /\ UpdateKnows(r) /\ LeaseKnows(r)
  /\ \A q, r \in Req : q # r => LocksApart(q, r)
=============================================================================
