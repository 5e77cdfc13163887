----------------------------- MODULE CloudProcess -----------------------------
(***************************************************************************)
(* The whole life of the server process: CloudServer with the loading of    *)
(* its configuration carried out by CloudConfig.  Every start finds files,  *)
(* an environment and a flag that may have changed since the last one; a    *)
(* signal or a kill may end the process between any two lines of a file,    *)
(* and what the loader has set in the environment is gone with the process. *)
(***************************************************************************)
EXTENDS CloudServer, CloudConfig

processVars == <<serverVars, configVars>>

\* A machine without files, variables and flag stands for what nobody looks at.
NoFiles == [p \in Path |-> Missing]
NoVariables == [k \in Key |-> Empty]

ASSUME NothingAssumption ==
  NoFiles \in Disks /\ NoVariables \in Environments /\ Empty \in Flags

ProcessInit ==
  /\ ServerInit /\ ConfigInit
  /\ disk = NoFiles /\ given = NoVariables /\ flag = Empty

FreshLoader ==
  /\ env' = given'
  /\ stage' = "start"
  /\ paths' = <<>> /\ required' = FALSE
  /\ at' = 1 /\ line' = 1 /\ seen' = {}
  /\ current' = NoReport /\ loaded' = <<>> /\ missing' = <<>>

\* There is no process, or it is past LoadConfig, which is not run again: the
\* state of the loader is gone.
NoLoader == /\ disk' = NoFiles /\ given' = NoVariables /\ flag' = Empty
            /\ FreshLoader

\* main calls LoadConfig.
StartLoading ==
  /\ Start
  /\ disk' \in Disks /\ given' \in Environments /\ flag' \in Flags
  /\ FreshLoader

Load == phase = "loading" /\ ConfigNext /\ UNCHANGED serverVars

\* main goes on with the configuration, or exits for want of one.
Configured == stage = "done" /\ ConfigLoaded /\ NoLoader
Unconfigured == stage = "failed" /\ ConfigRefused /\ NoLoader

\* Whatever ends the process while it loads ends the loader.
Interrupted ==
  /\ phase = "loading"
  /\ Signal \/ Kill
  /\ NoLoader

Running ==
  /\ phase # "loading"
  /\ \/ Connected \/ NotConnected \/ Notified \/ ListenFails
     \/ Signal \/ Drained \/ DeadlineExpires \/ Kill
  /\ UNCHANGED configVars

Requested == (Requests \/ \E d \in Device : Revoke(d)) /\ UNCHANGED configVars

ProcessNext ==
  \/ StartLoading \/ Load \/ Configured \/ Unconfigured \/ Interrupted
  \/ Running \/ Requested

ProcessSpec == ProcessInit /\ [][ProcessNext]_processVars /\ MainFairness
-----------------------------------------------------------------------------
ProcessTypeOK == ServerTypeOK /\ ConfigTypeOK
=============================================================================
