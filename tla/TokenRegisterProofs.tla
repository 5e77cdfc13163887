------------------------- MODULE TokenRegisterProofs -------------------------
(***************************************************************************)
(* What TokenRegister promises follows from its steps, for every number of  *)
(* accounts and devices.  BaiduAccountsProofs shows that the transactions   *)
(* on the accounts are such steps.                                          *)
(***************************************************************************)
EXTENDS TokenRegister, TLAPS

RegisterInv == RegisterTypeOK /\ OneTokenPerVersion

LEMMA RegisterInvInit == RegisterInit => RegisterInv
  BY DEF RegisterInit, RegisterInv, RegisterTypeOK, OneTokenPerVersion

\* What a put makes of an account is newer than all that was told about it.
LEMMA PutIsNewest ==
  ASSUME NoRow \notin Entry, RegisterInv, NEW u \in Uid, NEW t \in Token, Put(u, t)
  PROVE  /\ current'[u] = [token |-> t, version |-> Version(u) + 1]
         /\ current'[u] \in Entry /\ current'[u] # NoRow
         /\ current' \in [Uid -> Entry \cup {NoRow}]
         /\ \A v \in Uid \ {u} : current'[v] = current[v]
         /\ \A d \in Device : told[d][u] # NoRow => told[d][u].version < current'[u].version
  <1>1. current[u] \in Entry \cup {NoRow} /\ Version(u) \in Nat
    BY DEF RegisterInv, RegisterTypeOK, Version, Entry
  <1>2. [token |-> t, version |-> Version(u) + 1] \in Entry
    BY <1>1 DEF Entry
  <1>3. /\ current'[u] = [token |-> t, version |-> Version(u) + 1]
        /\ current' \in [Uid -> Entry \cup {NoRow}]
        /\ \A v \in Uid \ {u} : current'[v] = current[v]
    BY <1>2 DEF Put, RegisterInv, RegisterTypeOK
  <1>4. ASSUME NEW d \in Device, told[d][u] # NoRow
        PROVE  told[d][u].version < Version(u) + 1
    <2>1. told[d][u] \in Entry /\ current[u] # NoRow
      BY <1>4 DEF RegisterInv, RegisterTypeOK, OneTokenPerVersion
    <2>2. told[d][u].version <= current[u].version
      BY <1>4 DEF RegisterInv, OneTokenPerVersion
    <2> QED BY <1>1, <2>1, <2>2 DEF Version, Entry
  <1> QED BY <1>2, <1>3, <1>4

LEMMA RegisterInvStep ==
  ASSUME NoRow \notin Entry, RegisterInv, [RegisterNext]_registerVars
  PROVE  RegisterInv'
  <1> USE DEF RegisterInv
  <1>1. CASE UNCHANGED registerVars
    BY <1>1 DEF registerVars, RegisterTypeOK, OneTokenPerVersion
  <1>2. ASSUME NEW u \in Uid, NEW t \in Token, ReplaceUnseen(u, t)
        PROVE  RegisterInv'
    <2>1. Put(u, t) /\ told' = told
      BY <1>2 DEF ReplaceUnseen
    <2>2. RegisterTypeOK'
      BY <2>1, PutIsNewest DEF RegisterTypeOK
    <2>3. \A d \in Device, v \in Uid : told[d][v] # NoRow => told[d][v] \in Entry
      BY DEF RegisterTypeOK
    <2>4. current'[u] # NoRow /\ current'[u].version \in Nat
      BY <2>1, PutIsNewest DEF Entry
    <2>5. ASSUME NEW v \in Uid, NEW e \in Device, told[e][v] # NoRow
          PROVE  /\ current'[v] # NoRow
                 /\ told[e][v].version <= current'[v].version
                 /\ told[e][v].version = current'[v].version => told[e][v] = current'[v]
      <3>1. CASE v = u
        <4>1. told[e][u].version < current'[u].version /\ told[e][u].version \in Nat
          BY <2>1, <2>3, <2>5, <3>1, PutIsNewest DEF Entry
        <4> QED BY <2>4, <3>1, <4>1
      <3>2. CASE v # u
        <4>1. current'[v] = current[v]
          BY <2>1, <3>2, PutIsNewest
        <4> QED BY <2>5, <4>1 DEF OneTokenPerVersion
      <3> QED BY <3>1, <3>2
    <2>6. \A v \in Uid, e, f \in Device : told[e][v] # NoRow /\ told[f][v] # NoRow =>
            (told[f][v].version = told[e][v].version => told[f][v] = told[e][v])
      BY DEF OneTokenPerVersion
    <2>7. OneTokenPerVersion'
      BY <2>1, <2>5, <2>6 DEF OneTokenPerVersion
    <2> QED BY <2>2, <2>7
  <1>3. ASSUME NEW u \in Uid, NEW d \in Device, NEW t \in Token, Replace(d, u, t)
        PROVE  RegisterInv'
    <2> DEFINE new == [token |-> t, version |-> Version(u) + 1]
    <2>1. Put(u, t) /\ told' = [told EXCEPT ![d][u] = new]
      BY <1>3 DEF Replace
    <2>2. new \in Entry /\ new = current'[u]
      BY <2>1, PutIsNewest
    <2> HIDE DEF new
    <2>3. /\ told' \in [Device -> [Uid -> Entry \cup {NoRow}]]
          /\ told'[d][u] = new
          /\ \A e \in Device, v \in Uid : e # d \/ v # u => told'[e][v] = told[e][v]
      BY <2>1, <2>2 DEF RegisterTypeOK
    <2>4. RegisterTypeOK'
      BY <2>1, <2>3, PutIsNewest DEF RegisterTypeOK
    <2>5. \A e \in Device, v \in Uid : told[e][v] # NoRow => told[e][v] \in Entry
      BY DEF RegisterTypeOK
    <2>6. ASSUME NEW v \in Uid \ {u}, NEW e \in Device
          PROVE  told'[e][v] = told[e][v] /\ current'[v] = current[v]
      BY <2>1, <2>3, PutIsNewest
    <2>7. ASSUME NEW e \in Device, told'[e][u] # NoRow
          PROVE  /\ told'[e][u].version <= current'[u].version
                 /\ told'[e][u].version = current'[u].version => told'[e][u] = current'[u]
      <3>1. current'[u].version \in Nat
        BY <2>2 DEF Entry
      <3>2. CASE e = d
        BY <2>2, <2>3, <3>1, <3>2
      <3>3. CASE e # d
        <4>1. told'[e][u] = told[e][u] /\ told[e][u] \in Entry
          BY <2>3, <2>5, <2>7, <3>3
        <4>2. told[e][u].version < current'[u].version
          BY <2>1, <2>7, <4>1, PutIsNewest
        <4> QED BY <3>1, <4>1, <4>2 DEF Entry
      <3> QED BY <3>2, <3>3
    <2>8. ASSUME NEW e \in Device, NEW f \in Device, told'[e][u] # NoRow, told'[f][u] # NoRow,
                 told'[f][u].version = told'[e][u].version
          PROVE  told'[f][u] = told'[e][u]
      <3>1. CASE e # d /\ f # d
        BY <2>3, <2>8, <3>1 DEF OneTokenPerVersion
      <3>2. CASE e = d \/ f = d
        BY <2>2, <2>3, <2>7, <2>8, <3>2
      <3> QED BY <3>1, <3>2
    <2>9. current'[u] # NoRow
      BY <2>1, PutIsNewest
    <2>10. OneTokenPerVersion'
      <3> SUFFICES ASSUME NEW v \in Uid, NEW e \in Device, told'[e][v] # NoRow
                   PROVE  /\ current'[v] # NoRow
                          /\ told'[e][v].version <= current'[v].version
                          /\ told'[e][v].version = current'[v].version => told'[e][v] = current'[v]
                          /\ \A f \in Device : told'[f][v] # NoRow =>
                               (told'[f][v].version = told'[e][v].version => told'[f][v] = told'[e][v])
        BY DEF OneTokenPerVersion
      <3>1. CASE v = u
        BY <2>7, <2>8, <2>9, <3>1
      <3>2. CASE v # u
        BY <2>6, <3>2 DEF OneTokenPerVersion
      <3> QED BY <3>1, <3>2
    <2> QED BY <2>4, <2>10
  <1>4. ASSUME NEW u \in Uid, NEW d \in Device, Tell(d, u)
        PROVE  RegisterInv'
    <2>1. /\ current' = current /\ current[u] # NoRow /\ current[u] \in Entry
          /\ told' = [told EXCEPT ![d][u] = current[u]]
      BY <1>4 DEF Tell, RegisterTypeOK
    <2>2. /\ told' \in [Device -> [Uid -> Entry \cup {NoRow}]]
          /\ told'[d][u] = current[u]
          /\ \A e \in Device, v \in Uid : e # d \/ v # u => told'[e][v] = told[e][v]
      BY <2>1 DEF RegisterTypeOK
    <2>3. RegisterTypeOK'
      BY <2>1, <2>2 DEF RegisterTypeOK
    <2>4. OneTokenPerVersion'
      <3> SUFFICES ASSUME NEW v \in Uid, NEW e \in Device, told'[e][v] # NoRow
                   PROVE  /\ current[v] # NoRow
                          /\ told'[e][v].version <= current[v].version
                          /\ told'[e][v].version = current[v].version => told'[e][v] = current[v]
                          /\ \A f \in Device : told'[f][v] # NoRow =>
                               (told'[f][v].version = told'[e][v].version => told'[f][v] = told'[e][v])
        BY <2>1 DEF OneTokenPerVersion
      <3>1. current[u].version \in Nat
        BY <2>1 DEF Entry
      <3>2. \A f \in Device : told'[f][v] = told[f][v] \/ (v = u /\ told'[f][v] = current[v])
        BY <2>2
      <3>3. ASSUME told[e][v] # NoRow
            PROVE  /\ current[v] # NoRow
                   /\ told[e][v].version <= current[v].version
                   /\ told[e][v].version = current[v].version => told[e][v] = current[v]
        BY <3>3 DEF OneTokenPerVersion
      <3>4. \A f \in Device : told[f][v] # NoRow /\ told[f][v].version = current[v].version =>
                               told[f][v] = current[v]
        BY DEF OneTokenPerVersion
      <3>5. \A f \in Device : told[f][v] # NoRow /\ told[e][v] # NoRow =>
              (told[f][v].version = told[e][v].version => told[f][v] = told[e][v])
        BY DEF OneTokenPerVersion
      <3>6. /\ current[v] # NoRow
            /\ told'[e][v].version <= current[v].version
            /\ told'[e][v].version = current[v].version => told'[e][v] = current[v]
        <4>1. CASE told'[e][v] = told[e][v]
          BY <3>3, <4>1
        <4>2. CASE v = u /\ told'[e][v] = current[v]
          BY <2>1, <3>1, <4>2
        <4> QED BY <3>2, <4>1, <4>2
      <3>7. ASSUME NEW f \in Device, told'[f][v] # NoRow, told'[f][v].version = told'[e][v].version
            PROVE  told'[f][v] = told'[e][v]
        <4>1. CASE told'[e][v] = current[v]
          BY <3>2, <3>4, <3>7, <4>1
        <4>2. CASE told'[e][v] = told[e][v] /\ told'[f][v] = current[v]
          BY <3>4, <3>7, <4>2
        <4>3. CASE told'[e][v] = told[e][v] /\ told'[f][v] = told[f][v]
          BY <3>5, <3>7, <4>3
        <4> QED BY <3>2, <4>1, <4>2, <4>3
      <3> QED BY <3>6, <3>7
    <2> QED BY <2>3, <2>4
  <1> QED BY <1>1, <1>2, <1>3, <1>4 DEF RegisterNext

\* One version of an account names one token for all devices, in the register that
\* the transactions implement.
THEOREM OneTokenPerVersionCorrect ==
  ASSUME NoRow \notin Entry
  PROVE  RegisterSpec => []OneTokenPerVersion
  <1>1. RegisterInv /\ [RegisterNext]_registerVars => RegisterInv'
    BY RegisterInvStep
  <1>2. RegisterInv => OneTokenPerVersion
    BY DEF RegisterInv
  <1> QED BY <1>1, <1>2, RegisterInvInit, PTL DEF RegisterSpec
=============================================================================
