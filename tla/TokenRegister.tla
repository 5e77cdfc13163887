---------------------------- MODULE TokenRegister ----------------------------
(***************************************************************************)
(* What the cloud promises the devices that share a Baidu account, without  *)
(* transactions, locks and bindings: a register per account that holds a    *)
(* token envelope under a version.  Every replacement raises the version by *)
(* one, and a device is only ever told what the register holds at that      *)
(* moment.  BaiduAccounts implements this specification.                    *)
(***************************************************************************)
EXTENDS Naturals

CONSTANTS Uid, Device,
          Token,      \* the envelopes
          NoRow

VARIABLES
  current,            \* uid -> what its account holds
  told                \* device -> uid -> what the device was last told

registerVars == <<current, told>>

Entry == [token: Token, version: Nat \ {0}]

RegisterTypeOK ==
  /\ current \in [Uid -> Entry \cup {NoRow}]
  /\ told \in [Device -> [Uid -> Entry \cup {NoRow}]]

RegisterInit ==
  /\ current = [u \in Uid |-> NoRow]
  /\ told = [d \in Device |-> [u \in Uid |-> NoRow]]

Version(u) == IF current[u] = NoRow THEN 0 ELSE current[u].version

Put(u, t) == current' = [current EXCEPT ![u] = [token |-> t, version |-> Version(u) + 1]]

\* A device replaces the token and learns the version it got.
Replace(d, u, t) ==
  /\ Put(u, t)
  /\ told' = [told EXCEPT ![d][u] = [token |-> t, version |-> Version(u) + 1]]

\* The token is replaced, the reply is lost.
ReplaceUnseen(u, t) ==
  /\ Put(u, t)
  /\ UNCHANGED told

Tell(d, u) ==
  /\ current[u] # NoRow
  /\ told' = [told EXCEPT ![d][u] = current[u]]
  /\ UNCHANGED current

RegisterNext ==
  \E u \in Uid :
    \/ \E d \in Device, t \in Token : Replace(d, u, t)
    \/ \E t \in Token : ReplaceUnseen(u, t)
    \/ \E d \in Device : Tell(d, u)

RegisterSpec == RegisterInit /\ [][RegisterNext]_registerVars
-----------------------------------------------------------------------------
\* Two who were told of the same version were told the same token, and nobody
\* was told of a version that the register has not reached.
OneTokenPerVersion ==
  \A u \in Uid, d \in Device : told[d][u] # NoRow =>
    /\ current[u] # NoRow
    /\ told[d][u].version <= current[u].version
    /\ told[d][u].version = current[u].version => told[d][u] = current[u]
    /\ \A e \in Device : told[e][u] # NoRow =>
         (told[e][u].version = told[d][u].version => told[e][u] = told[d][u])
=============================================================================
