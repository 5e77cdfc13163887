--------------------------- MODULE CloudProcessProofs ---------------------------
(***************************************************************************)
(* Proofs about CloudProcess, for any number of devices and requests and    *)
(* for files and environments of any content: what the gate lets pass, and  *)
(* what the loader of the configuration ends with.                          *)
(***************************************************************************)
EXTENDS CloudProcess, SequenceTheorems, TLAPS

(* The process and its gate *)

\* What a request in flight relies on: a token that is returned is registered, a
\* token at the gate was returned, and one that was revoked before stays so.
RequestFits(r) ==
  /\ pc[r] = "registered" => job[r].token \in Device /\ registry[job[r].token] # "absent"
  /\ pc[r] \in {"gate", "handle"} => job[r].token \in issued \cup {NoToken}
  /\ pc[r] = "handle" => job[r].token \in issued /\ ~ job[r].revoked
  /\ job[r].revoked => job[r].token \in Device /\ registry[job[r].token] = "revoked"
  /\ pc[r] \in {"idle", "register"} => job[r] = NoJob

ServerInv ==
  /\ ServerTypeOK
  /\ IssuedIsRegistered
  /\ \A r \in Req : RequestFits(r)

LEMMA ServerInvInit == ServerInit => ServerInv
  BY ServerAssumption DEF ServerInit, ServerInv, ServerTypeOK, Phases, NoJob, IssuedIsRegistered, RequestFits

\* A device stays registered, and revoked once it is.
RegistryGrows ==
  \A d \in Device : /\ registry[d] # "absent" => registry'[d] # "absent"
                    /\ registry[d] = "revoked" => registry'[d] = "revoked"

\* The requests other than r, and r too where it stays.
LEMMA RequestStillFits ==
  ASSUME ServerInv, RegistryGrows, issued \subseteq issued', NEW q \in Req, pc'[q] = pc[q], job'[q] = job[q]
  PROVE  RequestFits(q)'
  BY DEF ServerInv, ServerTypeOK, RegistryGrows, RequestFits

LEMMA StillRegistered ==
  ASSUME ServerInv, RegistryGrows, issued' = issued
  PROVE  IssuedIsRegistered'
  BY DEF ServerInv, ServerTypeOK, RegistryGrows, IssuedIsRegistered

LEMMA EndStep ==
  ASSUME ServerInv, End
  PROVE  ServerInv'
  BY ServerAssumption
  DEF End, ServerInv, ServerTypeOK, Phases, NoJob, IssuedIsRegistered, RequestFits

LEMMA MainStep ==
  ASSUME ServerInv, Main
  PROVE  ServerInv'
  <1>1. CASE End
    BY <1>1, EndStep
  <1>2. ASSUME NEW from, NEW to \in Phases, Advance(from, to) PROVE ServerInv'
    BY <1>2 DEF Advance, requests, ServerInv, ServerTypeOK, IssuedIsRegistered, RequestFits
  <1>3. \/ End
        \/ \E from, to \in Phases : Advance(from, to)
    BY DEF Main, Start, ConfigLoaded, ConfigRefused, Connected, NotConnected, Notified, ListenFails,
      Signal, Drained, DeadlineExpires, Kill, Phases
  <1> QED BY <1>1, <1>2, <1>3

\* A request that is answered, while the tables stay.
LEMMA ReplyStep ==
  ASSUME ServerInv, NEW r \in Req, Reply(r), UNCHANGED <<phase, registry, issued>>
  PROVE  ServerInv'
  <1>1. /\ pc'[r] = "idle" /\ job'[r] = NoJob /\ \A q \in Req \ {r} : pc'[q] = pc[q] /\ job'[q] = job[q]
        /\ ServerTypeOK'
    BY DEF Reply, Goto, ServerInv, ServerTypeOK, NoJob
  <1>2. RegistryGrows
    BY DEF RegistryGrows
  <1>3. RequestFits(r)'
    BY <1>1 DEF RequestFits, NoJob
  <1>4. ASSUME NEW q \in Req PROVE RequestFits(q)'
    BY <1>1, <1>2, <1>3, RequestStillFits
  <1> QED BY <1>1, <1>2, <1>4, StillRegistered DEF ServerInv

LEMMA ArriveStep ==
  ASSUME ServerInv, NEW r \in Req,
         \/ Arrive(r, "register", NoToken)
         \/ \E token \in issued \cup {NoToken} : Arrive(r, "gate", token)
  PROVE  ServerInv'
  <1>1. PICK entry \in {"register", "gate"}, token \in issued \cup {NoToken} :
          Arrive(r, entry, token) /\ (entry = "register" => token = NoToken)
    OBVIOUS
  <1> DEFINE j == [token |-> token, revoked |-> token \in Device /\ registry[token] = "revoked"]
  <1>2. /\ pc'[r] = entry /\ job'[r] = j /\ UNCHANGED <<phase, registry, issued>>
        /\ \A q \in Req \ {r} : pc'[q] = pc[q] /\ job'[q] = job[q]
    BY <1>1 DEF Arrive, Goto, ServerInv, ServerTypeOK
  <1>3. j \in [token: Device \cup {NoToken}, revoked: BOOLEAN]
    BY DEF ServerInv, ServerTypeOK
  <1>4. ServerTypeOK'
    BY <1>1, <1>2, <1>3 DEF Arrive, Goto, ServerInv, ServerTypeOK
  <1>5. RegistryGrows
    BY <1>2 DEF RegistryGrows
  <1>6. RequestFits(r)'
    <2>1. j.token = token /\ (j.revoked => token \in Device /\ registry[token] = "revoked")
      OBVIOUS
    <2>2. token = NoToken => (token \in Device /\ registry[token] = "revoked") = FALSE
      BY ServerAssumption
    <2>3. entry = "register" => j = NoJob
      BY <1>1, <2>2 DEF NoJob
    <2> HIDE DEF j
    <2> QED BY <1>1, <1>2, <2>1, <2>3 DEF RequestFits
  <1>7. ASSUME NEW q \in Req PROVE RequestFits(q)'
    BY <1>2, <1>5, <1>6, RequestStillFits
  <1> QED BY <1>2, <1>4, <1>5, <1>7, StillRegistered DEF ServerInv

LEMMA RegisterStep ==
  ASSUME ServerInv, NEW r \in Req, NEW d \in Device, Register(r, d)
  PROVE  ServerInv'
  <1> DEFINE j == [job[r] EXCEPT !.token = d]
  <1>1. /\ pc[r] = "register" /\ registry[d] = "absent" /\ job[r] = NoJob
        /\ UNCHANGED <<phase, issued>>
    BY DEF Register, ServerInv, RequestFits
  <1>2. /\ j \in [token: Device \cup {NoToken}, revoked: BOOLEAN]
        /\ j.token = d /\ j.revoked = FALSE
    <2>1. job[r] \in [token: Device \cup {NoToken}, revoked: BOOLEAN]
      BY DEF ServerInv, ServerTypeOK
    <2>2. job[r].revoked = FALSE
      BY <1>1 DEF NoJob
    <2> QED BY <2>1, <2>2
  <1>3. job' = [job EXCEPT ![r] = j]
    BY DEF Register
  <1> HIDE DEF j
  <1>4. /\ pc'[r] = "registered" /\ job'[r] = j
        /\ \A q \in Req \ {r} : pc'[q] = pc[q] /\ job'[q] = job[q]
        /\ registry'[d] = "active" /\ \A e \in Device \ {d} : registry'[e] = registry[e]
    BY <1>3 DEF Register, Goto, ServerInv, ServerTypeOK
  <1>5. ServerTypeOK'
    BY <1>1, <1>2, <1>3 DEF Register, Goto, ServerInv, ServerTypeOK
  <1>6. RegistryGrows
    BY <1>1, <1>4 DEF RegistryGrows
  <1>7. RequestFits(r)'
    BY <1>2, <1>4 DEF RequestFits
  <1>8. ASSUME NEW q \in Req PROVE RequestFits(q)'
    BY <1>1, <1>4, <1>6, <1>7, RequestStillFits
  <1> QED BY <1>1, <1>5, <1>6, <1>8, StillRegistered DEF ServerInv

LEMMA RegisterAnswersStep ==
  ASSUME ServerInv, NEW r \in Req, RegisterAnswers(r)
  PROVE  ServerInv'
  <1>1. /\ pc[r] = "registered" /\ issued' = issued \cup {job[r].token}
        /\ UNCHANGED <<phase, registry>> /\ Reply(r)
    BY DEF RegisterAnswers
  <1>2. job[r].token \in Device /\ registry[job[r].token] # "absent"
    BY <1>1 DEF ServerInv, RequestFits
  <1>3. /\ pc'[r] = "idle" /\ job'[r] = NoJob /\ \A q \in Req \ {r} : pc'[q] = pc[q] /\ job'[q] = job[q]
        /\ ServerTypeOK'
    BY <1>1, <1>2 DEF Reply, Goto, ServerInv, ServerTypeOK, NoJob
  <1>4. RegistryGrows /\ issued \subseteq issued'
    BY <1>1 DEF RegistryGrows
  <1>5. RequestFits(r)'
    BY <1>3 DEF RequestFits, NoJob
  <1>6. ASSUME NEW q \in Req PROVE RequestFits(q)'
    BY <1>3, <1>4, <1>5, RequestStillFits
  <1>7. IssuedIsRegistered'
    BY <1>1, <1>2 DEF ServerInv, IssuedIsRegistered
  <1> QED BY <1>3, <1>6, <1>7 DEF ServerInv

LEMMA AdmitStep ==
  ASSUME ServerInv, NEW r \in Req, Admit(r)
  PROVE  ServerInv'
  <1>1. /\ pc[r] = "gate" /\ Passes(job[r].token) /\ pc'[r] = "handle" /\ job' = job
        /\ \A q \in Req \ {r} : pc'[q] = pc[q]
        /\ UNCHANGED <<phase, registry, issued>> /\ ServerTypeOK'
    BY DEF Admit, Goto, ServerInv, ServerTypeOK
  <1>2. RegistryGrows
    BY <1>1 DEF RegistryGrows
  <1>3. RequestFits(r)'
    BY <1>1, ServerAssumption DEF ServerInv, RequestFits, Passes
  <1>4. ASSUME NEW q \in Req PROVE RequestFits(q)'
    BY <1>1, <1>2, <1>3, RequestStillFits
  <1> QED BY <1>1, <1>2, <1>4, StillRegistered DEF ServerInv

LEMMA RevokeStep ==
  ASSUME ServerInv, NEW d \in Device, Revoke(d)
  PROVE  ServerInv'
  <1>1. /\ RegistryGrows /\ ServerTypeOK' /\ issued' = issued /\ pc' = pc /\ job' = job
    BY DEF Revoke, requests, RegistryGrows, ServerInv, ServerTypeOK
  <1> QED BY <1>1, StillRegistered, RequestStillFits DEF ServerInv

LEMMA ServerInvStep == ServerInv /\ [ServerNext]_serverVars => ServerInv'
  <1> SUFFICES ASSUME ServerInv, [ServerNext]_serverVars PROVE ServerInv'
    OBVIOUS
  <1>1. CASE Main
    BY <1>1, MainStep
  <1>2. CASE \E d \in Device : Revoke(d)
    BY <1>2, RevokeStep
  <1>3. ASSUME NEW r \in Req, Progress(r) PROVE ServerInv'
    <2>1. CASE Reply(r) /\ UNCHANGED <<phase, registry, issued>>
      BY <2>1, ReplyStep
    <2>2. \/ \E d \in Device : Register(r, d)
          \/ RegisterAnswers(r) \/ Admit(r)
          \/ Reply(r) /\ UNCHANGED <<phase, registry, issued>>
      BY <1>3 DEF Progress, RegisterFails, RegisterLost, TurnAway, GateFails, Handle
    <2> QED BY <2>1, <2>2, RegisterStep, RegisterAnswersStep, AdmitStep
  <1>4. CASE Requests
    BY <1>3, <1>4, ArriveStep DEF Requests
  <1>5. CASE UNCHANGED serverVars
    BY <1>5 DEF serverVars, requests, ServerInv, ServerTypeOK, IssuedIsRegistered, RequestFits
  <1> QED BY <1>1, <1>2, <1>4, <1>5 DEF ServerNext

\* The process moves as the server does, whatever its loader does.
LEMMA ProcessIsServer == [ProcessNext]_processVars => [ServerNext]_serverVars
  BY DEF ProcessNext, processVars, StartLoading, Load, Configured, Unconfigured, Interrupted, Running,
    Requested, ServerNext, Main

\* The inductive invariant of the gate holds over restarts and configurations.
THEOREM ServerInvariant == ProcessSpec => []ServerInv
  BY ServerInvInit, ServerInvStep, ProcessIsServer, PTL DEF ProcessSpec, ProcessInit

\* GateHolds: behind the gate are only requests of registered devices, none of which
\* arrived after the revocation of its device.
THEOREM GateHoldsCorrect == ProcessSpec => []GateHolds
  <1>1. ServerInv => GateHolds
    BY DEF ServerInv, RequestFits, GateHolds, IssuedIsRegistered
  <1> QED BY <1>1, ServerInvariant, PTL

\* IssuedIsRegistered: every later process knows the tokens that were given out.
THEOREM IssuedIsRegisteredCorrect == ProcessSpec => []IssuedIsRegistered
  <1>1. ServerInv => IssuedIsRegistered
    BY DEF ServerInv
  <1> QED BY <1>1, ServerInvariant, PTL
-----------------------------------------------------------------------------
(* The loader *)

Named == IF Names(flag) THEN flag ELSE given["CLOUD_API_ENV_FILE"]

\* What is to be read was decided at the start, from the flag and the variable.
PlanFits ==
  IF stage = "start"
  THEN /\ env = given /\ paths = <<>> /\ ~ required
       /\ at = 1 /\ current = NoReport /\ loaded = <<>> /\ missing = <<>> /\ seen = {}
  ELSE /\ paths = IF Names(Named) THEN <<Named>> ELSE Candidates
       /\ required = Names(Named)

\* Where the loader stands: it turned to the paths before, and reads a file that
\* it did not read before.
PlaceFits ==
  /\ stage = "files" =>
       /\ at <= Len(paths) + 1 /\ seen = {paths[j] : j \in 1..(at - 1)}
       /\ current = NoReport
  /\ stage = "lines" =>
       /\ at <= Len(paths) /\ seen = {paths[j] : j \in 1..at}
       /\ First(at) /\ File \notin NoFile /\ line <= Len(File) + 1
       /\ current \in Report /\ current.path = paths[at]
  /\ stage = "done" => at = Len(paths) + 1 /\ current = NoReport

Processed(i, l) == i < at \/ (i = at /\ stage = "lines" /\ l < line)

\* The value of the variable is that of the first line that gives one.
Wins(key) ==
  \E i \in DOMAIN paths : \E l \in DOMAIN Lines(i) :
    /\ Gives(i, l, key) /\ env[key] = Lines(i)[l].value
    /\ \A j \in DOMAIN paths : \A m \in DOMAIN Lines(j) : Gives(j, m, key) => Before(i, l, j, m)

PrecedenceSoFar(key) ==
  IF given[key] # Empty THEN env[key] = given[key]
  ELSE \/ /\ env[key] = Empty
          /\ \A i \in DOMAIN paths : \A l \in DOMAIN Lines(i) : Processed(i, l) => ~ Gives(i, l, key)
       \/ Wins(key)

\* A named file is read or the start fails.
NamedSoFar ==
  required => /\ missing = <<>> /\ Len(loaded) = at - 1
              /\ \A i \in DOMAIN loaded : loaded[i].path = paths[i] /\ disk[paths[i]] \notin NoFile

\* A bad line ends the start, in whatever file it is.
CleanSoFar ==
  /\ stage = "lines" => \A l \in 1..(line - 1) : File[l].kind # "bad"
  /\ \A i \in DOMAIN loaded :
       \A l \in DOMAIN disk[loaded[i].path] : disk[loaded[i].path][l].kind # "bad"

HasLine(path, key) ==
  \E l \in DOMAIN disk[path] : disk[path][l] = [kind |-> "set", key |-> key, value |-> env[key]]

LastToSet(i, key) ==
  /\ key \in loaded[i].set
  /\ \A j \in DOMAIN loaded : key \in loaded[j].set => j <= i

ExplainedSoFar(key) ==
  /\ given[key] # Empty => key \notin current.set /\ \A i \in DOMAIN loaded : key \notin loaded[i].set
  /\ given[key] = Empty /\ env[key] # Empty =>
       \/ key \in current.set /\ HasLine(current.path, key)
       \/ /\ key \notin current.set
          /\ \E i \in DOMAIN loaded : LastToSet(i, key) /\ HasLine(loaded[i].path, key)

ConfigInv ==
  /\ ConfigTypeOK /\ PlanFits /\ PlaceFits
  /\ stage # "failed" => /\ \A key \in Key : PrecedenceSoFar(key) /\ ExplainedSoFar(key)
                         /\ NamedSoFar /\ CleanSoFar

\* A loader that begins.
LEMMA FreshStep ==
  ASSUME FreshLoader, disk' \in Disks, given' \in Environments, flag' \in Flags
  PROVE  ConfigInv'
  <1>1. /\ env' = given' /\ stage' = "start" /\ paths' = <<>> /\ required' = FALSE
        /\ at' = 1 /\ line' = 1 /\ seen' = {} /\ current' = NoReport
        /\ loaded' = <<>> /\ missing' = <<>>
    BY DEF FreshLoader
  <1>2. given' \in [Key -> Text]
    BY ConfigAssumption
  <1>3. DOMAIN paths' = {} /\ DOMAIN loaded' = {}
    BY <1>1
  <1>4. paths' \in Seq(Path) /\ loaded' \in Seq(Report) /\ missing' \in Seq(Path)
    BY <1>1
  <1>5. ConfigTypeOK'
    <2>1. /\ stage' \in {"start", "files", "lines", "done", "failed"}
          /\ at' \in Nat \ {0} /\ line' \in Nat \ {0} /\ seen' \subseteq Path
          /\ current' \in Report \cup {NoReport} /\ env' \in [Key -> Text]
      BY <1>1, <1>2
    <2>2. required' \in BOOLEAN
      BY <1>1
    <2> QED BY <1>4, <2>1, <2>2 DEF ConfigTypeOK
  <1>6. PlanFits' /\ PlaceFits' /\ NamedSoFar'
    BY <1>1 DEF PlanFits, PlaceFits, NamedSoFar
  <1>7. \A key \in Key : PrecedenceSoFar(key)' /\ ExplainedSoFar(key)'
    BY <1>1, <1>3 DEF PrecedenceSoFar, ExplainedSoFar, NoReport
  <1>8. CleanSoFar'
    BY <1>1, <1>3 DEF CleanSoFar
  <1> QED BY <1>5, <1>6, <1>7, <1>8 DEF ConfigInv

LEMMA FailStep ==
  ASSUME ConfigInv, stage # "start", Fail
  PROVE  ConfigInv'
  BY DEF Fail, found, plan, place, report, ConfigInv, ConfigTypeOK, PlanFits, PlaceFits, Named, Names

\* What the loader knows of its files and paths.
LEMMA LoaderTypes ==
  ASSUME ConfigTypeOK
  PROVE  /\ at \in Nat /\ at > 0 /\ line \in Nat /\ line > 0 /\ Len(paths) \in Nat
         /\ DOMAIN paths = 1..Len(paths) /\ \A i \in 1..Len(paths) : paths[i] \in Path
         /\ DOMAIN loaded = 1..Len(loaded) /\ Len(loaded) \in Nat
         /\ \A p \in Path : disk[p] \in NoFile \/ disk[p] \in Seq(Line)
         /\ env \in [Key -> Text] /\ given \in [Key -> Text]
  <1>1. given \in [Key -> Text] /\ disk \in [Path -> NoFile \cup Seq(Line)]
    BY ConfigAssumption DEF ConfigTypeOK
  <1>2. paths \in Seq(Path) /\ loaded \in Seq(Report)
    BY DEF ConfigTypeOK
  <1>3. Len(paths) \in Nat /\ DOMAIN paths = 1..Len(paths) /\ \A i \in 1..Len(paths) : paths[i] \in Path
    BY <1>2
  <1>4. DOMAIN loaded = 1..Len(loaded) /\ Len(loaded) \in Nat
    BY <1>2
  <1> QED BY <1>1, <1>3, <1>4 DEF ConfigTypeOK

\* The plan goes on while the loader works.
LEMMA PlanStays ==
  ASSUME PlanFits, stage # "start", stage' # "start", UNCHANGED <<found, plan>>
  PROVE  PlanFits'
  BY DEF PlanFits, found, plan, Named, Names

\* A step that gives the variable no other value and passes no line that could.
LEMMA PrecedenceStays ==
  ASSUME NEW key \in Key, PrecedenceSoFar(key), UNCHANGED <<disk, given, paths>>, env'[key] = env[key],
         \A i \in DOMAIN paths : \A l \in DOMAIN Lines(i) :
           Processed(i, l)' => Processed(i, l) \/ ~ Gives(i, l, key)
  PROVE  PrecedenceSoFar(key)'
  <1>1. \A i : Lines(i)' = Lines(i)
    BY DEF Lines
  <1>2. \A i, l : Gives(i, l, key)' = Gives(i, l, key)
    BY <1>1 DEF Gives, First
  <1>3. DOMAIN paths' = DOMAIN paths
    OBVIOUS
  <1>4. Wins(key) => Wins(key)'
    BY <1>1, <1>2, <1>3 DEF Wins, Before
  <1> QED BY <1>1, <1>2, <1>3, <1>4 DEF PrecedenceSoFar

LEMMA ExplanationStays ==
  ASSUME NEW key \in Key, ExplainedSoFar(key), UNCHANGED <<disk, given, loaded>>,
         env'[key] = env[key], current'.path = current.path,
         key \in current'.set <=> key \in current.set
  PROVE  ExplainedSoFar(key)'
  <1>1. \A p : HasLine(p, key)' = HasLine(p, key)
    BY DEF HasLine
  <1>2. \A i : LastToSet(i, key)' = LastToSet(i, key)
    BY DEF LastToSet
  <1> QED BY <1>1, <1>2 DEF ExplainedSoFar

LEMMA ChooseFilesStep ==
  ASSUME ConfigInv, ChooseFiles
  PROVE  ConfigInv'
  <1> DEFINE named == IF Names(flag) THEN flag ELSE env["CLOUD_API_ENV_FILE"]
  <1>1. /\ stage = "start" /\ stage' = "files" /\ required' = Names(named)
        /\ paths' = IF Names(named) THEN <<named>> ELSE Candidates
        /\ UNCHANGED <<disk, given, flag, env, at, line, seen, current, loaded, missing>>
    BY DEF ChooseFiles, found, place, report
  <1>2. /\ env = given /\ at = 1 /\ current = NoReport /\ loaded = <<>> /\ missing = <<>> /\ seen = {}
    BY <1>1 DEF ConfigInv, PlanFits
  <1>3. named = Named /\ named' = named
    BY <1>1, <1>2 DEF Named, Names
  <1>4. Names(named) => named \in Path
    BY <1>2, ConfigAssumption DEF ConfigInv, ConfigTypeOK, Names
  <1>5. paths' \in Seq(Path)
    BY <1>1, <1>4, ConfigAssumption
  <1>6. ConfigTypeOK'
    BY <1>1, <1>5 DEF ConfigInv, ConfigTypeOK, Names
  <1>7. PlanFits'
    BY <1>1, <1>3 DEF PlanFits, Named, Names
  <1>8. Len(paths') \in Nat
    BY <1>5
  <1>9. PlaceFits'
    BY <1>1, <1>2, <1>8 DEF PlaceFits
  <1>10. NamedSoFar'
    BY <1>1, <1>2 DEF NamedSoFar
  <1>11. env' \in [Key -> Text] /\ DOMAIN paths' = 1..Len(paths') /\ DOMAIN loaded' = {}
    <2>1. env' \in [Key -> Text]
      BY <1>6 DEF ConfigTypeOK
    <2>2. DOMAIN paths' = 1..Len(paths')
      BY <1>5
    <2>3. DOMAIN loaded' = {}
      BY <1>1, <1>2
    <2> QED BY <2>1, <2>2, <2>3
  <1>12. ASSUME NEW key \in Key PROVE PrecedenceSoFar(key)' /\ ExplainedSoFar(key)'
    <2>1. \A i \in DOMAIN paths' : \A l : ~ Processed(i, l)'
      BY <1>1, <1>2, <1>11 DEF Processed
    <2> QED BY <1>1, <1>2, <1>11, <2>1 DEF PrecedenceSoFar, ExplainedSoFar, NoReport
  <1>13. CleanSoFar'
    BY <1>1, <1>11 DEF CleanSoFar
  <1> QED BY <1>1, <1>6, <1>7, <1>9, <1>10, <1>12, <1>13 DEF ConfigInv

\* A path that is passed over gives no variable a value.
LEMMA PassOver ==
  ASSUME ConfigInv, stage = "files", at <= Len(paths), stage' = "files", at' = at + 1,
         UNCHANGED <<found, env, plan, line, current, loaded>>,
         paths[at] \in seen \/ disk[paths[at]] \in NoFile,
         seen' = seen \cup {paths[at]}, missing' \in Seq(Path), ~ required
  PROVE  ConfigInv'
  <1>1. UNCHANGED <<disk, given, flag, paths, required>>
    BY DEF found, plan
  <1>2. /\ at \in Nat /\ at > 0 /\ DOMAIN paths = 1..Len(paths) /\ Len(paths) \in Nat
        /\ at \in 1..Len(paths) /\ paths[at] \in Path
    BY LoaderTypes DEF ConfigInv
  <1>3. ConfigTypeOK'
    BY <1>1, <1>2 DEF ConfigInv, ConfigTypeOK
  <1>4. PlanFits'
    BY PlanStays DEF ConfigInv
  <1>5. seen = {paths[j] : j \in 1..(at - 1)} /\ current = NoReport
    BY DEF ConfigInv, PlaceFits
  <1>6. PlaceFits'
    <2>1. 1..(at' - 1) = 1..(at - 1) \cup {at}
      BY <1>2
    <2> QED BY <1>1, <1>2, <1>5, <2>1 DEF PlaceFits
  <1>7. \A l \in DOMAIN Lines(at) : \A key : ~ Gives(at, l, key)
    <2>1. CASE paths[at] \in seen
      BY <1>2, <1>5, <2>1 DEF Gives, First
    <2>2. CASE disk[paths[at]] \in NoFile
      BY <2>2 DEF Lines
    <2> QED BY <2>1, <2>2
  <1>8. \A i \in DOMAIN paths : \A l : Processed(i, l)' => Processed(i, l) \/ i = at
    BY <1>2 DEF Processed
  <1>9. ASSUME NEW key \in Key PROVE PrecedenceSoFar(key)' /\ ExplainedSoFar(key)'
    <2>1. PrecedenceSoFar(key) /\ ExplainedSoFar(key)
      BY DEF ConfigInv
    <2> QED BY <1>1, <1>7, <1>8, <2>1, PrecedenceStays, ExplanationStays
  <1>10. CleanSoFar'
    BY <1>1 DEF ConfigInv, CleanSoFar
  <1> QED BY <1>1, <1>3, <1>4, <1>6, <1>9, <1>10 DEF ConfigInv, NamedSoFar

LEMMA SkipStep ==
  ASSUME ConfigInv, SkipRepeated \/ SkipMissing
  PROVE  ConfigInv'
  <1>1. /\ at \in Nat /\ at > 0 /\ Len(paths) \in Nat /\ \A i \in 1..Len(paths) : paths[i] \in Path
    BY LoaderTypes DEF ConfigInv
  <1>2. CASE SkipRepeated
    <2>1. /\ stage = "files" /\ at <= Len(paths) /\ paths[at] \in seen /\ stage' = stage
          /\ at' = at + 1 /\ seen' = seen /\ missing' = missing
          /\ UNCHANGED <<found, env, plan, line, current, loaded>>
      BY <1>2 DEF SkipRepeated, report
    <2>2. ~ required
      <3> SUFFICES ASSUME required PROVE FALSE
        OBVIOUS
      <3>1. paths = <<Named>>
        BY <2>1 DEF ConfigInv, PlanFits
      <3>2. at = 1
        BY <1>1, <2>1, <3>1
      <3>3. seen = {}
        BY <2>1, <3>2 DEF ConfigInv, PlaceFits
      <3> QED BY <2>1, <3>3
    <2>3. missing' \in Seq(Path)
      BY <2>1 DEF ConfigInv, ConfigTypeOK
    <2>4. seen' = seen \cup {paths[at]}
      BY <2>1
    <2> QED BY <2>1, <2>2, <2>3, <2>4, PassOver
  <1>3. CASE SkipMissing
    <2>1. /\ stage = "files" /\ at <= Len(paths) /\ disk[paths[at]] \in NoFile /\ ~ required
          /\ stage' = stage /\ at' = at + 1 /\ seen' = seen \cup {paths[at]}
          /\ missing' = Append(missing, paths[at])
          /\ UNCHANGED <<found, env, plan, line, current, loaded>>
      BY <1>3 DEF SkipMissing, Turn, NoFile
    <2>2. paths[at] \in Path /\ missing \in Seq(Path)
      BY <1>1, <2>1 DEF ConfigInv, ConfigTypeOK
    <2>3. missing' \in Seq(Path)
      BY <2>1, <2>2, AppendProperties
    <2> QED BY <2>1, <2>3, PassOver
  <1> QED BY <1>2, <1>3

LEMMA OpenFileStep ==
  ASSUME ConfigInv, OpenFile
  PROVE  ConfigInv'
  <1> DEFINE opened == [NoReport EXCEPT !.path = paths[at]]
  <1>1. /\ stage = "files" /\ at <= Len(paths) /\ paths[at] \notin seen
        /\ seen' = seen \cup {paths[at]} /\ disk[paths[at]] \notin NoFile
        /\ stage' = "lines" /\ line' = 1 /\ current' = opened
        /\ UNCHANGED <<disk, given, flag, env, paths, required, at, loaded, missing>>
    BY DEF OpenFile, Turn, found, plan
  <1>2. /\ at \in Nat /\ at > 0 /\ DOMAIN paths = 1..Len(paths) /\ Len(paths) \in Nat
        /\ at \in 1..Len(paths) /\ paths[at] \in Path /\ disk[paths[at]] \in Seq(Line)
    BY <1>1, LoaderTypes DEF ConfigInv
  <1>3. seen = {paths[j] : j \in 1..(at - 1)} /\ current = NoReport
    BY <1>1 DEF ConfigInv, PlaceFits
  <1>4. opened = [path |-> paths[at], set |-> {}, preserved |-> {}]
    BY DEF NoReport
  <1> HIDE DEF opened
  <1>5. opened \in Report /\ opened.path = paths[at] /\ opened.set = {}
    BY <1>2, <1>4 DEF Report
  <1>6. ConfigTypeOK'
    BY <1>1, <1>2, <1>5 DEF ConfigInv, ConfigTypeOK
  <1>7. PlanFits'
    BY <1>1, PlanStays DEF ConfigInv, found, plan
  <1>8. PlaceFits'
    <2>1. 1..at = 1..(at - 1) \cup {at} /\ Len(disk[paths[at]]) \in Nat
      BY <1>2
    <2>2. First(at)'
      BY <1>1, <1>3 DEF First
    <2> QED BY <1>1, <1>2, <1>3, <1>5, <2>1, <2>2 DEF PlaceFits, File
  <1>9. \A i \in DOMAIN paths : \A l \in DOMAIN Lines(i) : Processed(i, l)' => Processed(i, l)
    <2>1. \A l \in DOMAIN Lines(at) : ~ (l < 1)
      BY <1>1, <1>2 DEF Lines
    <2> QED BY <1>1, <1>2, <2>1 DEF Processed
  <1>10. ASSUME NEW key \in Key PROVE PrecedenceSoFar(key)' /\ ExplainedSoFar(key)'
    <2>1. PrecedenceSoFar(key) /\ ExplainedSoFar(key)
      BY <1>1 DEF ConfigInv
    <2>2. PrecedenceSoFar(key)'
      BY <1>1, <1>9, <2>1, PrecedenceStays
    <2>3. \A p : HasLine(p, key)' = HasLine(p, key)
      BY <1>1 DEF HasLine
    <2>4. \A i : LastToSet(i, key)' = LastToSet(i, key)
      BY <1>1 DEF LastToSet
    <2>5. key \notin current.set /\ key \notin current'.set
      BY <1>1, <1>3, <1>5 DEF NoReport
    <2>6. ExplainedSoFar(key)'
      BY <1>1, <2>1, <2>3, <2>4, <2>5 DEF ExplainedSoFar
    <2> QED BY <2>2, <2>6
  <1>11. CleanSoFar'
    BY <1>1 DEF ConfigInv, CleanSoFar
  <1> QED BY <1>1, <1>6, <1>7, <1>8, <1>10, <1>11 DEF ConfigInv, NamedSoFar

\* The line that is read is one of a file that is read for the first time.
LEMMA LineRead ==
  ASSUME ConfigInv, stage = "lines"
  PROVE  /\ at \in 1..Len(paths) /\ at \in DOMAIN paths /\ at \in Nat /\ line \in Nat \ {0}
         /\ File \in Seq(Line) /\ Len(File) \in Nat /\ DOMAIN File = 1..Len(File)
         /\ line <= Len(File) + 1 /\ Lines(at) = File /\ First(at)
         /\ paths[at] \in Path /\ current \in Report /\ current.path = paths[at]
         /\ seen = {paths[j] : j \in 1..at}
  <1>1. /\ at <= Len(paths) /\ seen = {paths[j] : j \in 1..at} /\ First(at) /\ File \notin NoFile
        /\ line <= Len(File) + 1 /\ current \in Report /\ current.path = paths[at]
    BY DEF ConfigInv, PlaceFits
  <1>2. /\ at \in Nat /\ at > 0 /\ line \in Nat \ {0} /\ Len(paths) \in Nat /\ DOMAIN paths = 1..Len(paths)
        /\ \A i \in 1..Len(paths) : paths[i] \in Path
        /\ \A p \in Path : disk[p] \in NoFile \/ disk[p] \in Seq(Line)
    BY LoaderTypes DEF ConfigInv
  <1>3. at \in 1..Len(paths) /\ paths[at] \in Path
    BY <1>1, <1>2
  <1>4. File \in Seq(Line)
    BY <1>1, <1>2, <1>3 DEF File
  <1>5. Len(File) \in Nat /\ DOMAIN File = 1..Len(File)
    BY <1>4
  <1>6. Lines(at) = File
    BY <1>1 DEF Lines, File
  <1> QED BY <1>1, <1>2, <1>3, <1>4, <1>5, <1>6

LEMMA LineSets ==
  ASSUME ConfigInv, Reads("set")
  PROVE  /\ line \in DOMAIN File /\ File[line].key \in Key /\ File[line].value \in Text
         /\ File[line] = [kind |-> "set", key |-> File[line].key, value |-> File[line].value]
  <1>1. stage = "lines" /\ line <= Len(File) /\ File[line].kind = "set"
    BY DEF Reads
  <1>2. line \in DOMAIN File /\ File[line] \in Line
    BY <1>1, LineRead
  <1>3. File[line] \in [kind: {"set"}, key: Key, value: Text]
    BY <1>1, <1>2 DEF Line
  <1> QED BY <1>2, <1>3

\* The next line of a file, with what this one did to the environment and the report.
LEMMA LineStep ==
  ASSUME ConfigInv, stage = "lines", line <= Len(File), NextLine, File[line].kind # "bad",
         env' \in [Key -> Text], current' \in Report, current'.path = current.path,
         \A key \in Key : PrecedenceSoFar(key)' /\ ExplainedSoFar(key)'
  PROVE  ConfigInv'
  <1>1. /\ line' = line + 1
        /\ UNCHANGED <<disk, given, flag, stage, paths, required, at, seen, loaded, missing>>
    BY DEF NextLine, found, plan
  <1>2. /\ at \in Nat /\ line \in Nat \ {0} /\ Len(File) \in Nat /\ First(at)
        /\ seen = {paths[j] : j \in 1..at} /\ current.path = paths[at] /\ at <= Len(paths)
        /\ File \notin NoFile
    BY LineRead DEF ConfigInv, PlaceFits
  <1>3. ConfigTypeOK'
    BY <1>1, <1>2 DEF ConfigInv, ConfigTypeOK
  <1>4. PlanFits'
    BY <1>1, PlanStays DEF ConfigInv, found, plan
  <1>5. PlaceFits'
    BY <1>1, <1>2 DEF PlaceFits, File, First
  <1>6. NamedSoFar'
    BY <1>1 DEF ConfigInv, NamedSoFar
  <1>7. CleanSoFar'
    <2>1. 1..(line' - 1) = 1..(line - 1) \cup {line} /\ File' = File
      BY <1>1, <1>2 DEF File
    <2> QED BY <1>1, <2>1 DEF ConfigInv, CleanSoFar
  <1> QED BY <1>3, <1>4, <1>5, <1>6, <1>7 DEF ConfigInv

\* The line is passed, and no other.
LEMMA PassesLine ==
  ASSUME ConfigInv, stage = "lines", NextLine, NEW i \in DOMAIN paths, NEW l, Processed(i, l)', l \in Int
  PROVE  Processed(i, l) \/ (i = at /\ l = line)
  <1>1. at' = at /\ line' = line + 1 /\ stage' = stage /\ line \in Nat /\ at \in Nat
    BY LineRead DEF NextLine
  <1> QED BY <1>1 DEF Processed

LEMMA LinesAreNumbered ==
  ASSUME ConfigInv, NEW i \in DOMAIN paths, NEW l \in DOMAIN Lines(i)
  PROVE  l \in Int /\ i \in Int
  <1>1. /\ DOMAIN paths = 1..Len(paths) /\ \A j \in 1..Len(paths) : paths[j] \in Path
        /\ \A p \in Path : disk[p] \in NoFile \/ disk[p] \in Seq(Line)
    BY LoaderTypes DEF ConfigInv
  <1>2. Lines(i) \in Seq(Line)
    BY <1>1 DEF Lines
  <1>3. DOMAIN Lines(i) = 1..Len(Lines(i)) /\ Len(Lines(i)) \in Nat
    BY <1>2
  <1> QED BY <1>1, <1>3

LEMMA IgnoreLineStep ==
  ASSUME ConfigInv, IgnoreLine
  PROVE  ConfigInv'
  <1>1. /\ stage = "lines" /\ line <= Len(File) /\ File[line].kind = "ignored" /\ NextLine
        /\ UNCHANGED <<env, current, disk, given, paths, loaded>>
    BY DEF IgnoreLine, Reads, NextLine, found, plan
  <1>2. env' \in [Key -> Text] /\ current' \in Report
    BY <1>1, LineRead DEF ConfigInv, ConfigTypeOK
  <1>3. ASSUME NEW key \in Key PROVE PrecedenceSoFar(key)' /\ ExplainedSoFar(key)'
    <2>1. PrecedenceSoFar(key) /\ ExplainedSoFar(key)
      BY <1>1 DEF ConfigInv
    <2>2. ~ Gives(at, line, key)
      BY <1>1, LineRead DEF Gives
    <2>3. \A i \in DOMAIN paths : \A l \in DOMAIN Lines(i) :
            Processed(i, l)' => Processed(i, l) \/ ~ Gives(i, l, key)
      BY <1>1, <2>2, PassesLine, LinesAreNumbered
    <2> QED BY <1>1, <2>1, <2>3, PrecedenceStays, ExplanationStays
  <1> QED BY <1>1, <1>2, <1>3, LineStep

LEMMA PreserveKeyStep ==
  ASSUME ConfigInv, PreserveKey
  PROVE  ConfigInv'
  <1> DEFINE k == File[line].key
             noted == [current EXCEPT !.preserved = @ \cup {k}]
  <1>1. /\ stage = "lines" /\ line <= Len(File) /\ env[k] # Empty /\ NextLine /\ Reads("set")
        /\ current' = noted
        /\ UNCHANGED <<env, disk, given, paths, loaded>>
    BY DEF PreserveKey, Reads, NextLine, found, plan
  <1>2. k \in Key
    BY <1>1, LineSets
  <1>3. current \in Report
    BY <1>1, LineRead
  <1>4. noted \in Report /\ noted.path = current.path /\ noted.set = current.set
    BY <1>2, <1>3 DEF Report
  <1>5. env' \in [Key -> Text]
    BY <1>1 DEF ConfigInv, ConfigTypeOK
  <1> HIDE DEF noted
  <1>6. ASSUME NEW key \in Key PROVE PrecedenceSoFar(key)' /\ ExplainedSoFar(key)'
    <2>1. PrecedenceSoFar(key) /\ ExplainedSoFar(key)
      BY <1>1 DEF ConfigInv
    <2>2. ExplainedSoFar(key)'
      BY <1>1, <1>4, <2>1, ExplanationStays
    <2>3. CASE key # k
      <3>1. ~ Gives(at, line, key)
        BY <1>1, <2>3, LineRead DEF Gives
      <3>2. \A i \in DOMAIN paths : \A l \in DOMAIN Lines(i) :
              Processed(i, l)' => Processed(i, l) \/ ~ Gives(i, l, key)
        BY <1>1, <3>1, PassesLine, LinesAreNumbered
      <3> QED BY <1>1, <2>1, <2>2, <3>2, PrecedenceStays
    <2>4. CASE key = k
      <3>1. (given[key] # Empty /\ env[key] = given[key]) \/ (given[key] = Empty /\ Wins(key))
        BY <1>1, <2>1, <2>4 DEF PrecedenceSoFar
      <3>2. \A i : Lines(i)' = Lines(i)
        BY <1>1 DEF Lines
      <3>3. \A i : \A l : Gives(i, l, key)' = Gives(i, l, key)
        BY <1>1, <3>2 DEF Gives, First
      <3>4. DOMAIN paths' = DOMAIN paths
        BY <1>1
      <3>5. Wins(key) => Wins(key)'
        BY <1>1, <3>2, <3>3, <3>4 DEF Wins, Before
      <3> QED BY <1>1, <2>2, <3>1, <3>5 DEF PrecedenceSoFar
    <2> QED BY <2>3, <2>4
  <1> QED BY <1>1, <1>4, <1>5, <1>6, LineStep DEF Reads

LEMMA SetKeyStep ==
  ASSUME ConfigInv, SetKey
  PROVE  ConfigInv'
  <1>a. PICK a, n, k, v : a = at /\ n = line /\ k = File[n].key /\ v = File[n].value
    OBVIOUS
  <1> DEFINE noted == [current EXCEPT !.set = @ \cup {k}]
  <1>1. /\ stage = "lines" /\ line <= Len(File) /\ env[k] = Empty /\ NextLine /\ Reads("set")
        /\ current' = noted /\ env' = [env EXCEPT ![k] = v]
        /\ UNCHANGED <<disk, given, paths, loaded, at, stage>> /\ line' = n + 1 /\ at = a /\ line = n
    BY <1>a DEF SetKey, Reads, NextLine, found, plan
  <1>2. /\ k \in Key /\ v \in Text /\ n \in DOMAIN File
        /\ File[n] = [kind |-> "set", key |-> k, value |-> v]
    BY <1>a, <1>1, LineSets
  <1>3. /\ current \in Report /\ current.path = paths[a] /\ a \in Nat /\ n \in Nat
        /\ a \in DOMAIN paths /\ Lines(a) = File /\ First(a)
    BY <1>1, LineRead
  <1>4. noted \in Report /\ noted.path = current.path /\ noted.set = current.set \cup {k}
    BY <1>2, <1>3 DEF Report
  <1> HIDE DEF noted
  <1>5. env \in [Key -> Text]
    BY DEF ConfigInv, ConfigTypeOK
  <1>6. /\ env' \in [Key -> Text] /\ env'[k] = v
        /\ \A key \in Key \ {k} : env'[key] = env[key]
    BY <1>1, <1>2, <1>5
  <1>7. given[k] = Empty
    BY <1>1, <1>2 DEF ConfigInv, PrecedenceSoFar
  <1>8. \A i \in DOMAIN paths : \A l \in DOMAIN Lines(i) : Processed(i, l) => ~ Gives(i, l, k)
    <2>1. ~ Wins(k)
      BY <1>1 DEF Wins, Gives
    <2> QED BY <1>1, <1>2, <1>7, <2>1 DEF ConfigInv, PrecedenceSoFar
  <1>9. \A i : Lines(i)' = Lines(i)
    BY <1>1 DEF Lines
  <1>10. \A i : \A l, key : Gives(i, l, key)' = Gives(i, l, key)
    BY <1>1, <1>9 DEF Gives, First
  <1>11. DOMAIN paths' = DOMAIN paths
    BY <1>1
  <1>12. PrecedenceSoFar(k)'
    <2>1. CASE v = Empty
      <3>1. ~ Gives(a, n, k)
        BY <1>a, <1>3, <2>1 DEF Gives
      <3>2. \A i \in DOMAIN paths : \A l \in DOMAIN Lines(i) : Processed(i, l)' => ~ Gives(i, l, k)
        BY <1>1, <1>8, <3>1, PassesLine, LinesAreNumbered
      <3> QED BY <1>1, <1>6, <1>7, <1>9, <1>10, <1>11, <2>1, <3>2 DEF PrecedenceSoFar
    <2>2. CASE v # Empty
      <3>1. Gives(a, n, k) /\ n \in DOMAIN Lines(a) /\ v = Lines(a)[n].value
        BY <1>2, <1>3, <2>2 DEF Gives
      <3>2. ASSUME NEW j \in DOMAIN paths, NEW m \in DOMAIN Lines(j), Gives(j, m, k)
            PROVE  Before(a, n, j, m)
        <4>1. ~ Processed(j, m) /\ j \in Int /\ m \in Int
          BY <1>8, <3>2, LinesAreNumbered
        <4> QED BY <1>1, <1>3, <4>1 DEF Processed, Before
      <3>3. Wins(k)'
        <4>1. /\ a \in DOMAIN paths' /\ n \in DOMAIN Lines(a)' /\ Gives(a, n, k)'
              /\ env'[k] = Lines(a)'[n].value
          BY <1>3, <1>6, <1>9, <1>10, <1>11, <3>1
        <4>2. \A j \in DOMAIN paths' : \A m \in DOMAIN Lines(j)' : Gives(j, m, k)' => Before(a, n, j, m)
          BY <1>9, <1>10, <1>11, <3>2
        <4> QED BY <1>9, <1>10, <4>1, <4>2 DEF Wins, Before
      <3> QED BY <1>1, <1>7, <3>3 DEF PrecedenceSoFar
    <2> QED BY <2>1, <2>2
  <1>13. ExplainedSoFar(k)'
    <2>1. HasLine(current.path, k)'
      <3>1. current'.path = paths[a] /\ disk'[paths[a]] = File /\ env'[k] = v
        BY <1>1, <1>3, <1>4, <1>6 DEF File
      <3> QED BY <1>2, <3>1 DEF HasLine
    <2> QED BY <1>1, <1>4, <1>7, <2>1 DEF ExplainedSoFar
  <1>14. ASSUME NEW key \in Key \ {k} PROVE PrecedenceSoFar(key)' /\ ExplainedSoFar(key)'
    <2>1. PrecedenceSoFar(key) /\ ExplainedSoFar(key)
      BY <1>1 DEF ConfigInv
    <2>2. ~ Gives(a, n, key)
      BY <1>a, <1>3, <1>14 DEF Gives
    <2>3. \A i \in DOMAIN paths : \A l \in DOMAIN Lines(i) :
            Processed(i, l)' => Processed(i, l) \/ ~ Gives(i, l, key)
      BY <1>1, <2>2, PassesLine, LinesAreNumbered
    <2>4. env'[key] = env[key] /\ (key \in current'.set <=> key \in current.set)
      BY <1>1, <1>4, <1>6
    <2> QED BY <1>1, <1>4, <2>1, <2>3, <2>4, PrecedenceStays, ExplanationStays
  <1>15. \A key \in Key : PrecedenceSoFar(key)' /\ ExplainedSoFar(key)'
    BY <1>12, <1>13, <1>14
  <1> QED BY <1>1, <1>4, <1>6, <1>15, LineStep DEF Reads

LEMMA CloseFileStep ==
  ASSUME ConfigInv, CloseFile
  PROVE  ConfigInv'
  <1>1. /\ stage = "lines" /\ line > Len(File) /\ stage' = "files" /\ at' = at + 1
        /\ loaded' = Append(loaded, current) /\ current' = NoReport
        /\ UNCHANGED <<disk, given, flag, env, paths, required, line, seen, missing>>
    BY DEF CloseFile, found, plan
  <1>2. /\ at \in Nat /\ line \in Nat /\ current \in Report /\ current.path = paths[at]
        /\ seen = {paths[j] : j \in 1..at} /\ at <= Len(paths) /\ Len(paths) \in Nat
        /\ Lines(at) = File /\ DOMAIN File = 1..Len(File) /\ Len(File) \in Nat /\ File \notin NoFile
    BY <1>1, LineRead, LoaderTypes DEF ConfigInv, PlaceFits
  <1>3. loaded \in Seq(Report)
    BY DEF ConfigInv, ConfigTypeOK
  <1>n. PICK n : n = Len(loaded)
    OBVIOUS
  <1>4. /\ loaded' \in Seq(Report) /\ n \in Nat /\ DOMAIN loaded = 1..n /\ DOMAIN loaded' = 1..(n + 1)
        /\ \A i \in 1..n : loaded'[i] = loaded[i]
        /\ loaded'[n + 1] = current
    <2>1. /\ loaded' \in Seq(Report) /\ Len(loaded') = n + 1
          /\ \A i \in 1..n : loaded'[i] = loaded[i]
          /\ loaded'[n + 1] = current
      BY <1>n, <1>1, <1>2, <1>3, AppendProperties
    <2>2. n \in Nat /\ DOMAIN loaded = 1..n
      BY <1>n, <1>3
    <2>3. DOMAIN loaded' = 1..(n + 1)
      BY <2>1
    <2> QED BY <2>1, <2>2, <2>3
  <1>5. Len(loaded') = n + 1
    BY <1>n, <1>1, <1>2, <1>3, AppendProperties
  <1>6. 1..(n + 1) = 1..n \cup {n + 1} /\ n + 1 \notin 1..n
    BY <1>4
  <1>7. ConfigTypeOK'
    BY <1>1, <1>2, <1>4 DEF ConfigInv, ConfigTypeOK
  <1>8. PlanFits'
    BY <1>1, PlanStays DEF ConfigInv, found, plan
  <1>9. PlaceFits'
    BY <1>1, <1>2 DEF PlaceFits
  <1>10. NamedSoFar'
    <2> SUFFICES ASSUME required
                 PROVE  /\ missing' = <<>> /\ Len(loaded') = at' - 1
                        /\ \A i \in DOMAIN loaded' : loaded'[i].path = paths'[i] /\ disk'[paths'[i]] \notin NoFile
      BY <1>1 DEF NamedSoFar
    <2>1. /\ missing = <<>> /\ n = at - 1
          /\ \A i \in DOMAIN loaded : loaded[i].path = paths[i] /\ disk[paths[i]] \notin NoFile
      BY <1>n, <1>1 DEF ConfigInv, NamedSoFar
    <2>2. n + 1 = at
      BY <1>2, <2>1
    <2>3. loaded'[n + 1].path = paths[n + 1] /\ disk[paths[n + 1]] \notin NoFile
      BY <1>2, <1>4, <2>2 DEF File
    <2> QED BY <1>1, <1>2, <1>4, <1>5, <1>6, <2>1, <2>2, <2>3
  <1>11. ASSUME NEW key \in Key PROVE PrecedenceSoFar(key)'
    <2>1. PrecedenceSoFar(key)
      BY <1>1 DEF ConfigInv
    <2>2. \A i \in DOMAIN paths : \A l \in DOMAIN Lines(i) : Processed(i, l)' => Processed(i, l)
      <3> SUFFICES ASSUME NEW i \in DOMAIN paths, NEW l \in DOMAIN Lines(i), Processed(i, l)'
                   PROVE  Processed(i, l)
        OBVIOUS
      <3>1. i \in Int /\ l \in Int
        BY LinesAreNumbered
      <3>2. i = at => l < line
        BY <1>1, <1>2, <3>1
      <3> QED BY <1>1, <1>2, <3>1, <3>2 DEF Processed
    <2> QED BY <1>1, <2>1, <2>2, PrecedenceStays
  <1>12. ASSUME NEW key \in Key PROVE ExplainedSoFar(key)'
    <2>1. ExplainedSoFar(key)
      BY <1>1 DEF ConfigInv
    <2>2. \A p : HasLine(p, key)' = HasLine(p, key)
      BY <1>1 DEF HasLine
    <2>3. key \notin current'.set
      BY <1>1 DEF NoReport
    <2>4. given[key] # Empty => \A i \in DOMAIN loaded' : key \notin loaded'[i].set
      BY <1>4, <1>6, <2>1 DEF ExplainedSoFar
    <2>5. CASE key \in current.set /\ HasLine(current.path, key)
      <3>1. LastToSet(n + 1, key)'
        BY <1>4, <2>5 DEF LastToSet
      <3>2. HasLine(loaded[n + 1].path, key)'
        BY <1>1, <1>4, <2>5 DEF HasLine
      <3> QED BY <1>1, <1>4, <1>6, <2>3, <2>4, <3>1, <3>2 DEF ExplainedSoFar
    <2>6. CASE /\ key \notin current.set
               /\ \E i \in DOMAIN loaded : LastToSet(i, key) /\ HasLine(loaded[i].path, key)
      <3>1. PICK i \in DOMAIN loaded : LastToSet(i, key) /\ HasLine(loaded[i].path, key)
        BY <2>6
      <3>2. i \in DOMAIN loaded' /\ loaded'[i] = loaded[i]
        BY <1>4, <1>6
      <3>3. LastToSet(i, key)'
        BY <1>4, <1>6, <2>6, <3>1, <3>2 DEF LastToSet
      <3>4. HasLine(loaded[i].path, key)'
        BY <1>1, <3>1, <3>2 DEF HasLine
      <3> QED BY <1>1, <2>3, <2>4, <3>2, <3>3, <3>4 DEF ExplainedSoFar
    <2>7. CASE ~ (given[key] = Empty /\ env[key] # Empty)
      BY <1>1, <2>3, <2>4, <2>7 DEF ExplainedSoFar
    <2> QED BY <2>1, <2>5, <2>6, <2>7 DEF ExplainedSoFar
  <1>13. CleanSoFar'
    <2>1. disk[paths[at]] = File /\ 1..Len(File) \subseteq 1..(line - 1)
      BY <1>1, <1>2 DEF File
    <2>2. \A l \in DOMAIN File : File[l].kind # "bad"
      BY <1>1, <1>2, <2>1 DEF ConfigInv, CleanSoFar
    <2>3. \A l \in DOMAIN disk[loaded'[n + 1].path] : disk[loaded'[n + 1].path][l].kind # "bad"
      BY <1>2, <1>4, <2>1, <2>2
    <2>4. \A i \in 1..n : \A l \in DOMAIN disk[loaded[i].path] : disk[loaded[i].path][l].kind # "bad"
      BY <1>1, <1>4 DEF ConfigInv, CleanSoFar
    <2>5. ASSUME NEW i \in DOMAIN loaded'
          PROVE  \A l \in DOMAIN disk[loaded'[i].path] : disk[loaded'[i].path][l].kind # "bad"
      <3>1. CASE i \in 1..n
        <4>1. loaded'[i] = loaded[i]
          BY <1>4, <3>1
        <4> QED BY <2>4, <3>1, <4>1
      <3>2. CASE i = n + 1
        BY <2>3, <3>2
      <3> QED BY <1>4, <1>6, <3>1, <3>2
    <2>6. disk' = disk /\ stage' = "files"
      BY <1>1
    <2> QED BY <2>5, <2>6 DEF CleanSoFar
  <1> QED BY <1>1, <1>7, <1>8, <1>9, <1>10, <1>11, <1>12, <1>13 DEF ConfigInv

LEMMA ResolveStep ==
  ASSUME ConfigInv, Resolve
  PROVE  ConfigInv'
  <1>1. /\ stage = "files" /\ at > Len(paths) /\ stage' = "done"
        /\ UNCHANGED <<disk, given, flag, env, paths, required, at, line, seen, current, loaded, missing>>
    BY DEF Resolve, found, plan, place, report
  <1>2. at \in Nat /\ Len(paths) \in Nat
    BY LoaderTypes DEF ConfigInv
  <1>4. ConfigTypeOK'
    BY <1>1 DEF ConfigInv, ConfigTypeOK
  <1>5. PlanFits' /\ PlaceFits'
    BY <1>1, <1>2, PlanStays DEF ConfigInv, PlaceFits, found, plan
  <1>6. ASSUME NEW key \in Key PROVE PrecedenceSoFar(key)' /\ ExplainedSoFar(key)'
    <2>1. PrecedenceSoFar(key) /\ ExplainedSoFar(key)
      BY <1>1 DEF ConfigInv
    <2>2. \A i \in DOMAIN paths : \A l \in DOMAIN Lines(i) : Processed(i, l)' => Processed(i, l)
      BY <1>1 DEF Processed
    <2> QED BY <1>1, <2>1, <2>2, PrecedenceStays, ExplanationStays
  <1>7. NamedSoFar' /\ CleanSoFar'
    BY <1>1 DEF ConfigInv, NamedSoFar, CleanSoFar
  <1> QED BY <1>4, <1>5, <1>6, <1>7 DEF ConfigInv

LEMMA ConfigNextStep == ASSUME ConfigInv, ConfigNext PROVE ConfigInv'
  <1>1. RefuseFile \/ RefuseLine \/ RefuseValue => stage # "start" /\ Fail
    BY DEF RefuseFile, RefuseLine, RefuseValue, Reads
  <1> QED BY <1>1, FailStep, ChooseFilesStep, SkipStep, OpenFileStep, IgnoreLineStep, PreserveKeyStep,
    SetKeyStep, CloseFileStep, ResolveStep DEF ConfigNext

\* A restart finds what it finds; past LoadConfig nothing of the loader is left.
LEMMA LoaderStep == ConfigInv /\ [ProcessNext]_processVars => ConfigInv'
  <1> SUFFICES ASSUME ConfigInv, [ProcessNext]_processVars PROVE ConfigInv'
    OBVIOUS
  <1>3. CASE StartLoading
    BY <1>3, FreshStep DEF StartLoading
  <1>4. CASE Load
    BY <1>4, ConfigNextStep DEF Load
  <1>5. CASE NoLoader
    BY <1>5, NothingAssumption, FreshStep DEF NoLoader
  <1>6. CASE UNCHANGED configVars
    <2>1. UNCHANGED <<disk, given, flag, env, stage, paths, required, at, line, seen, current, loaded,
                      missing>>
      BY <1>6 DEF configVars, found, plan, place, report
    <2>2. ConfigTypeOK' /\ PlanFits' /\ PlaceFits' /\ NamedSoFar' = NamedSoFar
      BY <2>1 DEF ConfigInv, ConfigTypeOK, PlanFits, PlaceFits, NamedSoFar, Named, Names, First, File
    <2>3. \A i : Lines(i)' = Lines(i)
      BY <2>1 DEF Lines
    <2>4. \A i : \A l, key : Gives(i, l, key)' = Gives(i, l, key) /\ Processed(i, l)' = Processed(i, l)
      BY <2>1, <2>3 DEF Gives, First, Processed
    <2>5. ASSUME NEW key \in Key, PrecedenceSoFar(key), ExplainedSoFar(key)
          PROVE  PrecedenceSoFar(key)' /\ ExplainedSoFar(key)'
      BY <2>1, <2>3, <2>4, <2>5, PrecedenceStays, ExplanationStays
    <2>6. CleanSoFar' = CleanSoFar
      BY <2>1 DEF CleanSoFar, File
    <2> QED BY <2>1, <2>2, <2>5, <2>6 DEF ConfigInv
  <1>7. \/ StartLoading \/ Load
        \/ NoLoader \/ UNCHANGED configVars
    BY DEF ProcessNext, processVars, Configured, Unconfigured, Interrupted, Running, Requested
  <1> QED BY <1>3, <1>4, <1>5, <1>6, <1>7

LEMMA LoaderInit == ProcessInit => ConfigInv
  <1> SUFFICES ASSUME ProcessInit PROVE ConfigInv
    OBVIOUS
  <1>1. /\ env = given /\ stage = "start" /\ paths = <<>> /\ required = FALSE
        /\ at = 1 /\ line = 1 /\ seen = {} /\ current = NoReport
        /\ loaded = <<>> /\ missing = <<>>
        /\ disk \in Disks /\ given \in Environments /\ flag \in Flags
    BY DEF ProcessInit, ConfigInit
  <1>2. DOMAIN paths = {} /\ DOMAIN loaded = {}
    BY <1>1
  <1>3. paths \in Seq(Path) /\ loaded \in Seq(Report) /\ missing \in Seq(Path)
    BY <1>1
  <1>4. ConfigTypeOK
    <2>1. /\ stage \in {"start", "files", "lines", "done", "failed"}
          /\ at \in Nat \ {0} /\ line \in Nat \ {0} /\ seen \subseteq Path
          /\ current \in Report \cup {NoReport} /\ env \in [Key -> Text]
      BY <1>1, ConfigAssumption
    <2>2. required \in BOOLEAN
      BY <1>1
    <2> QED BY <1>1, <1>3, <2>1, <2>2 DEF ConfigTypeOK
  <1>5. PlanFits /\ PlaceFits /\ NamedSoFar
    BY <1>1 DEF PlanFits, PlaceFits, NamedSoFar
  <1>6. \A key \in Key : PrecedenceSoFar(key) /\ ExplainedSoFar(key)
    BY <1>1, <1>2 DEF PrecedenceSoFar, ExplainedSoFar, NoReport
  <1>7. CleanSoFar
    BY <1>1, <1>2 DEF CleanSoFar
  <1> QED BY <1>4, <1>5, <1>6, <1>7 DEF ConfigInv

\* The inductive invariant of the loader: every line so far had its effect on the
\* environment and on the report, and none has two.
THEOREM LoaderInvariant == ProcessSpec => []ConfigInv
  BY LoaderInit, LoaderStep, PTL DEF ProcessSpec

\* The process and its loader keep their types.
THEOREM ProcessTypeCorrect == ProcessSpec => []ProcessTypeOK
  <1>1. ServerInv /\ ConfigInv => ProcessTypeOK
    BY DEF ServerInv, ConfigInv, ProcessTypeOK
  <1> QED BY <1>1, ServerInvariant, LoaderInvariant, PTL

\* FirstValueWins: for files of any content, the loader ends with every variable as
\* the precedence of environment, paths and lines says.
THEOREM FirstValueWinsCorrect == ProcessSpec => []FirstValueWins
  <1>1. ConfigInv => FirstValueWins
    <2> SUFFICES ASSUME ConfigInv, stage = "done", NEW key \in Key PROVE Precedence(key)
      BY DEF FirstValueWins
    <2>1. PrecedenceSoFar(key)
      BY DEF ConfigInv
    <2>2. \A i \in DOMAIN paths : \A l \in DOMAIN Lines(i) : Processed(i, l)
      <3>1. at = Len(paths) + 1 /\ DOMAIN paths = 1..Len(paths) /\ Len(paths) \in Nat
        BY LoaderTypes DEF ConfigInv, PlaceFits
      <3> QED BY <3>1 DEF Processed
    <2> QED BY <2>1, <2>2 DEF PrecedenceSoFar, Precedence, Wins
  <1> QED BY <1>1, LoaderInvariant, PTL

\* NamedFileDecides: a file that is named is read to its end, has no bad line, and
\* nothing else is read.
THEOREM NamedFileDecidesCorrect == ProcessSpec => []NamedFileDecides
  <1>1. ConfigInv => NamedFileDecides
    <2> SUFFICES ASSUME ConfigInv, stage = "done", Names(Named)
                 PROVE  /\ disk[Named] \notin NoFile
                        /\ \A l \in DOMAIN disk[Named] : disk[Named][l].kind # "bad"
                        /\ Len(loaded) = 1 /\ loaded[1].path = Named /\ missing = <<>>
      BY DEF NamedFileDecides, Named
    <2>1. paths = <<Named>> /\ required
      BY DEF ConfigInv, PlanFits
    <2>2. Len(paths) = 1 /\ paths[1] = Named /\ at = Len(paths) + 1
      BY <2>1 DEF ConfigInv, PlaceFits
    <2>3. /\ missing = <<>> /\ Len(loaded) = at - 1
          /\ \A i \in DOMAIN loaded : loaded[i].path = paths[i] /\ disk[paths[i]] \notin NoFile
      BY <2>1 DEF ConfigInv, NamedSoFar
    <2>4. 1 \in DOMAIN loaded
      BY <2>2, <2>3, LoaderTypes DEF ConfigInv
    <2>5. \A l \in DOMAIN disk[loaded[1].path] : disk[loaded[1].path][l].kind # "bad"
      BY <2>4 DEF ConfigInv, CleanSoFar
    <2> QED BY <2>2, <2>3, <2>4, <2>5
  <1> QED BY <1>1, LoaderInvariant, PTL

\* ReportExplains: a variable that is not as it was given has a value of the last
\* file that is reported to have set it.
THEOREM ReportExplainsCorrect == ProcessSpec => []ReportExplains
  <1>1. ConfigInv => ReportExplains
    <2> SUFFICES ASSUME ConfigInv, stage = "done", NEW key \in Key
                 PROVE  IF env[key] = given[key]
                        THEN given[key] # Empty => \A i \in DOMAIN loaded : key \notin loaded[i].set
                        ELSE \E i \in DOMAIN loaded : LastToSet(i, key) /\ HasLine(loaded[i].path, key)
      BY DEF ReportExplains, LastToSet, HasLine
    <2>1. PrecedenceSoFar(key) /\ ExplainedSoFar(key) /\ current = NoReport
      BY DEF ConfigInv, PlaceFits
    <2>2. key \notin current.set
      BY <2>1 DEF NoReport
    <2> QED BY <2>1, <2>2 DEF PrecedenceSoFar, ExplainedSoFar
  <1> QED BY <1>1, LoaderInvariant, PTL
=============================================================================
