---------------------------- MODULE MCBaiduSessions ----------------------------
(* BaiduSessions with sessions of both flows and both methods, asked for with  *)
(* and without defaults, and completions with good, bad and missing keys.      *)
EXTENDS BaiduSessions, TLC

CONSTANT k1

Session0(flow, method, key) == [flow |-> flow, method |-> method, key |-> key, hint |-> key]
Offer(key, hint) == [key |-> key, hint |-> hint]

MCAsked == {Session0("other", "unset", None), Session0("authorization_code", "other", k1),
            [Session0("unset", "rsa", None) EXCEPT !.key = BadKey],
            Session0("unset", "unset", None), Session0("authorization_code", "rsa", k1)}
MCOffers == {Offer(k1, k1), Offer(None, None)}
MCKey == {k1}

\* Around zero, the longest lifetime, the largest integer of 8 bits and the numbers
\* that a float of 4 binary places has not.
MCNumbers == {-1, 0, 1, 12, 20, 37, 127, 300}
MCFloats == -16..16 \cup {18, 20, 22, 36, 40, 120, 128, 288, 320}
MCReplies == {Absent, [form |-> "integer", n |-> 1], [form |-> "integer", n |-> 20],
              [form |-> "integer", n |-> 300]}
=============================================================================
