---------------------------- MODULE MCBaiduAccounts ----------------------------
(* BaiduAccounts with one account, two devices and two concurrent requests. *)
EXTENDS BaiduAccounts, TLC

\* The uid of the account and its lease have lock keys of their own.
OwnUidLock == [u \in Uid |-> "uid"]
OwnLeaseLock == [u \in Uid |-> "lease"]
MCLockKey == {"uid", "lease"}

Symmetry == Permutations(Req) \cup Permutations(Device)
=============================================================================
