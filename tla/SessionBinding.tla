---------------------------- MODULE SessionBinding ----------------------------
(***************************************************************************)
(* What an authorization session is for: a Baidu user consents to it, and   *)
(* then it is bound to the account of that user, which the cloud holds from *)
(* then on.  A binding may be replaced when another user consents to the    *)
(* same session, and it is never undone.  BaiduSessions implements this.    *)
(***************************************************************************)
CONSTANTS Session, Uid, None

VARIABLES
  consents,     \* who consented to which session
  owner,        \* the account a session is bound to
  held          \* the users of whom the cloud holds a token

bindingVars == <<consents, owner, held>>

BindingInit ==
  /\ consents = {}
  /\ owner = [s \in Session |-> None]
  /\ held = {}

Consent(s, u) ==
  /\ consents' = consents \cup {<<s, u>>}
  /\ UNCHANGED <<owner, held>>

Bind(s, u) ==
  /\ <<s, u>> \in consents
  /\ owner' = [owner EXCEPT ![s] = u]
  /\ held' = held \cup {u}
  /\ UNCHANGED consents

BindingNext == \E s \in Session, u \in Uid : Consent(s, u) \/ Bind(s, u)

BindingSpec == BindingInit /\ [][BindingNext]_bindingVars
-----------------------------------------------------------------------------
\* A session belongs to a user who consented to it and whose token is held.
BoundByConsent ==
  \A s \in Session : owner[s] # None =>
    /\ <<s, owner[s]>> \in consents
    /\ owner[s] \in held
=============================================================================
