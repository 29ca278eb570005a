-------------------------- MODULE Sessions_proofs --------------------------
(***************************************************************************)
(* Proofs about Sessions, for any sessions and any number of requests: as  *)
(* long as no two opens were in progress together, there is one ACTIVE     *)
(* row.                                                                    *)
(***************************************************************************)
EXTENDS Sessions, TLAPS

\* A step that ends or narrows the open of one request at most, and activates
\* no row.
Harmless ==
  /\ ActiveRows' \subseteq ActiveRows
  /\ \A c \in Clients : Opening(c)' => Opening(c)
  /\ overlapped' = overlapped

LEMMA HarmlessKeeps ==
  ASSUME OpensAreApart, OneActiveSession, Harmless
  PROVE  OpensAreApart' /\ OneActiveSession'
BY DEF OpensAreApart, OneActiveSession, Harmless

\* Expiring the ACTIVE row activates none.
LEMMA ExpireLateHarmless ==
  ASSUME TypeOK, ExpireLate
  PROVE  ActiveRows' \subseteq ActiveRows /\ row' \in [Rows -> {"none", "active", "terminated", "expired"}]
BY DEF TypeOK, ExpireLate, ActiveRows, TheActive

LEMMA InitHolds == Init => IInv
<1> SUFFICES ASSUME Init PROVE IInv
  OBVIOUS
<1>1. TypeOK
  <2>1. Idle \in [op: {"none", "redeem", "open", "close", "closed"}, row: Rows \union {NoRow}]
    BY DEF Idle
  <2>2. failures \in 0..PROBE_ERROR_THRESHOLD
    <3>1. failures = 0
      BY Zenon DEF Init
    <3> QED
      BY <3>1 DEF PROBE_ERROR_THRESHOLD
  <2>3. overlapped \in BOOLEAN
    BY Zenon DEF Init
  <2> QED
    BY <2>1, <2>2, <2>3 DEF Init, TypeOK
<1>2. ActiveRows = {} /\ \A c \in Clients : ~Opening(c)
  BY DEF Init, ActiveRows, Opening, Idle
<1> QED
  BY <1>1, <1>2 DEF IInv, OpensAreApart, OneActiveSession

LEMMA StepKeepsTypes == TypeOK /\ [Next]_vars => TypeOK'
<1> SUFFICES ASSUME TypeOK, [Next]_vars PROVE TypeOK'
  OBVIOUS
<1> USE DEF TypeOK, Idle
<1>1. ASSUME NEW c \in Clients, OpenSession(c) \/ RedeemTokens(c) \/ InsertSession(c)
      PROVE  TypeOK'
  <2>1. CASE OpenSession(c)
    BY <2>1 DEF OpenSession, Opening
  <2>2. CASE RedeemTokens(c)
    BY <2>2 DEF RedeemTokens
  <2>3. CASE InsertSession(c)
    BY <2>3 DEF InsertSession
  <2> QED
    BY <1>1, <2>1, <2>2, <2>3
<1>2. ASSUME NEW c \in Clients, NEW s \in Rows, NEW answered \in BOOLEAN,
             OpenOnlineSession(c, s, answered) \/ CloseSession(c, s)
      PROVE  TypeOK'
  <2>1. CASE OpenOnlineSession(c, s, answered)
    BY <2>1 DEF OpenOnlineSession
  <2>2. CASE CloseSession(c, s)
    BY <2>2 DEF CloseSession
  <2> QED
    BY <1>2, <2>1, <2>2
<1>3. ASSUME NEW c \in Clients, CloseOnlineSession(c) \/ TerminateSession(c) \/ GiveUp(c)
      PROVE  TypeOK'
  <2>1. CASE CloseOnlineSession(c)
    BY <2>1 DEF CloseOnlineSession
  <2>2. CASE TerminateSession(c)
    BY <2>2 DEF TerminateSession
  <2>3. CASE GiveUp(c)
    BY <2>3 DEF GiveUp
  <2> QED
    BY <1>3, <2>1, <2>2, <2>3
<1>4. ASSUME NEW s \in Rows, TimeOut(s) \/ EndAtKSeF(s)
      PROVE  TypeOK'
  BY <1>4 DEF TimeOut, EndAtKSeF
<1>5. ASSUME NEW probed \in BOOLEAN, CheckConnection(probed)
      PROVE  TypeOK'
  <2>1. failures' \in 0..PROBE_ERROR_THRESHOLD
    BY <1>5 DEF CheckConnection, PROBE_ERROR_THRESHOLD
  <2>2. row' \in [Rows -> {"none", "active", "terminated", "expired"}]
    BY <1>5, ExpireLateHarmless DEF CheckConnection
  <2> QED
    BY <1>5, <2>1, <2>2 DEF CheckConnection
<1>6. CASE WorkerFindsLate
  BY <1>6, ExpireLateHarmless DEF WorkerFindsLate
<1>7. CASE MarkSessionExpired
  BY <1>7 DEF MarkSessionExpired
<1>8. CASE UNCHANGED vars
  BY <1>8 DEF vars
<1> QED
  BY <1>1, <1>2, <1>3, <1>4, <1>5, <1>6, <1>7, <1>8 DEF Next

\* The only steps that are not harmless: an open begins where there is no
\* ACTIVE row, and the one open in progress activates its row.
LEMMA StepKeepsOpensApart ==
  TypeOK /\ OpensAreApart /\ OneActiveSession /\ [Next]_vars => OpensAreApart' /\ OneActiveSession'
<1> SUFFICES ASSUME TypeOK, OpensAreApart, OneActiveSession, [Next]_vars
             PROVE  OpensAreApart' /\ OneActiveSession'
  OBVIOUS
<1>1. ASSUME NEW c \in Clients, OpenSession(c)
      PROVE  OpensAreApart' /\ OneActiveSession'
  <2>1. ActiveRows' = {} /\ \A x \in Clients : Opening(x)' => Opening(x) \/ x = c
    BY <1>1 DEF OpenSession, ActiveRows, Opening, TypeOK
  <2>2. ~overlapped' => \A x \in Clients : Opening(x)' => x = c
    BY <1>1, <2>1 DEF OpenSession
  <2> QED
    BY <2>1, <2>2 DEF OpensAreApart, OneActiveSession
<1>2. ASSUME NEW c \in Clients, InsertSession(c)
      PROVE  OpensAreApart' /\ OneActiveSession'
  <2>1. Opening(c) /\ overlapped' = overlapped
    BY <1>2 DEF InsertSession, Opening
  <2>2. \A x \in Clients : Opening(x)' => Opening(x) /\ x # c
    BY <1>2 DEF InsertSession, Opening, TypeOK, Idle
  <2>3. ActiveRows' \subseteq ActiveRows \union {task[c].row}
    BY <1>2 DEF InsertSession, ActiveRows, TypeOK
  <2> QED
    BY <2>1, <2>2, <2>3 DEF OpensAreApart, OneActiveSession
<1>3. ASSUME NEW c \in Clients,
             \/ RedeemTokens(c) \/ CloseOnlineSession(c) \/ TerminateSession(c) \/ GiveUp(c)
             \/ \E s \in Rows, answered \in BOOLEAN : OpenOnlineSession(c, s, answered)
             \/ \E s \in Rows : CloseSession(c, s)
      PROVE  Harmless
  <2>1. ActiveRows' \subseteq ActiveRows /\ overlapped' = overlapped
    BY <1>3 DEF RedeemTokens, CloseOnlineSession, TerminateSession, GiveUp, OpenOnlineSession,
                CloseSession, ActiveRows, TypeOK
  <2>2. \A x \in Clients : Opening(x)' => Opening(x)
    BY <1>3 DEF RedeemTokens, CloseOnlineSession, TerminateSession, GiveUp, OpenOnlineSession,
                CloseSession, Opening, TypeOK, Idle
  <2> QED
    BY <2>1, <2>2 DEF Harmless
<1>4. ASSUME NEW s \in Rows, TimeOut(s) \/ EndAtKSeF(s)
      PROVE  Harmless
  BY <1>4 DEF TimeOut, EndAtKSeF, Harmless, ActiveRows, Opening
<1>5. ASSUME NEW probed \in BOOLEAN, CheckConnection(probed)
      PROVE  Harmless
  BY <1>5, ExpireLateHarmless DEF CheckConnection, Harmless, ActiveRows, Opening
<1>6. WorkerFindsLate => Harmless
  BY ExpireLateHarmless DEF WorkerFindsLate, Harmless, ActiveRows, Opening
<1>7. MarkSessionExpired => Harmless
  BY DEF MarkSessionExpired, Harmless, ActiveRows, Opening, TypeOK
<1>8. UNCHANGED vars => Harmless
  BY DEF vars, Harmless, ActiveRows, Opening
<1> QED
  BY <1>1, <1>2, <1>3, <1>4, <1>5, <1>6, <1>7, <1>8, HarmlessKeeps DEF Next

\* The invariant the next theorem needs: an open in progress found no ACTIVE
\* row, and is alone.
THEOREM SessionInvariant == Spec => []IInv
<1>1. IInv /\ [Next]_vars => IInv'
  BY StepKeepsTypes, StepKeepsOpensApart DEF IInv
<1> QED
  BY <1>1, InitHolds, PTL DEF Spec

\* A NIP never has two ACTIVE sessions unless two opens overlapped.
THEOREM OneSession == Spec => []OneActiveSession
BY SessionInvariant, PTL DEF IInv
=============================================================================
