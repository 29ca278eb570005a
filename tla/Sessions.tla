------------------------------ MODULE Sessions ------------------------------
(***************************************************************************)
(* The KSeF session service: the rows of ksef_sessions of one seller NIP,  *)
(* the interactive sessions that exist at KSeF, the requests that open and *)
(* close them, and the status check with its connectivity probe.           *)
(*                                                                         *)
(* open_session looks for an ACTIVE row, talks to KSeF for seconds         *)
(* (challenge, token, redeem, session) and only then inserts its row;      *)
(* close_session talks to KSeF between its SELECT and its UPDATE.  So a    *)
(* request is several actions, and others may act in between.  Every read  *)
(* of the ACTIVE row is scalar_one_or_none: it raises when there are two.  *)
(*                                                                         *)
(* A row is named by its session reference.  Left out: tokens, keys, the   *)
(* audit trail, the in-memory token cache (written, never read),           *)
(* expire_stale_sessions (nothing calls it), and a request that finds the  *)
(* session late: its mark EXPIRED is rolled back by the NotFoundError.     *)
(*                                                                         *)
(* A definition X_... is X with a plausible bug; no specification uses it. *)
(***************************************************************************)
EXTENDS Naturals

CONSTANTS
  Rows,      \* sessions that can be opened
  Clients,   \* concurrent requests
  NoRow

ASSUME NoRowAssumption == NoRow \notin Rows

PROBE_ERROR_THRESHOLD == 3

VARIABLES
  row,         \* status of a row of ksef_sessions
  late,        \* rows whose expires_at has passed
  atKSeF,      \* the interactive session at KSeF
  task,        \* the open or close a client is in the middle of
  failures,    \* failed probes since the last good one, up to the threshold
  overlapped   \* whether two opens were ever in progress together
vars == <<row, late, atKSeF, task, failures, overlapped>>

Idle == [op |-> "none", row |-> NoRow]

TypeOK ==
  /\ row \in [Rows -> {"none", "active", "terminated", "expired"}]
  /\ late \subseteq Rows
  /\ atKSeF \in [Rows -> {"none", "open", "closed"}]
  /\ task \in [Clients -> [op: {"none", "redeem", "open", "close", "closed"}, row: Rows \union {NoRow}]]
  /\ failures \in 0..PROBE_ERROR_THRESHOLD
  /\ overlapped \in BOOLEAN

Init ==
  /\ row = [s \in Rows |-> "none"]
  /\ late = {}
  /\ atKSeF = [s \in Rows |-> "none"]
  /\ task = [c \in Clients |-> Idle]
  /\ failures = 0
  /\ overlapped = FALSE

ActiveRows == {s \in Rows : row[s] = "active"}

\* _get_active_db_session found s, and s alone.
TheActive(s) == ActiveRows = {s}

\* get_active_session returns s.
Usable(s) == TheActive(s) /\ s \notin late

-----------------------------------------------------------------------------
(* POST /ksef-sessions                                                      *)

Opening(c) == task[c].op \in {"redeem", "open"}

\* Nobody looks for an ACTIVE row first.
OpenSession_Unchecked(c) ==
  /\ task[c] = Idle
  /\ task' = [task EXCEPT ![c].op = "redeem"]
  /\ overlapped' = (overlapped \/ \E x \in Clients \ {c} : Opening(x))
  /\ UNCHANGED <<row, late, atKSeF, failures>>
OpenSession(c) ==
  /\ task[c] = Idle
  /\ ActiveRows = {}
  /\ task' = [task EXCEPT ![c].op = "redeem"]
  /\ overlapped' = (overlapped \/ \E x \in Clients \ {c} : Opening(x))
  /\ UNCHANGED <<row, late, atKSeF, failures>>

\* KSeF authenticates in the background: the token is asked for again until
\* it is there, for two minutes (then the request gives up).
RedeemTokens(c) ==
  /\ task[c].op = "redeem"
  /\ task' = [task EXCEPT ![c].op = "open"]
  /\ UNCHANGED <<row, late, atKSeF, failures, overlapped>>

\* KSeF opens an interactive session; when its answer is lost the client asks
\* for another one.
OpenOnlineSession(c, s, answered) ==
  /\ task[c] = [op |-> "open", row |-> NoRow]
  /\ atKSeF[s] = "none"
  /\ atKSeF' = [atKSeF EXCEPT ![s] = "open"]
  /\ task' = IF answered THEN [task EXCEPT ![c].row = s] ELSE task
  /\ UNCHANGED <<row, late, failures, overlapped>>

InsertSession(c) ==
  /\ task[c].op = "open"
  /\ task[c].row # NoRow
  /\ row' = [row EXCEPT ![task[c].row] = "active"]
  /\ task' = [task EXCEPT ![c] = Idle]
  /\ UNCHANGED <<late, atKSeF, failures, overlapped>>

-----------------------------------------------------------------------------
(* DELETE /ksef-sessions                                                    *)

CloseSession(c, s) ==
  /\ task[c] = Idle
  /\ Usable(s)
  /\ task' = [task EXCEPT ![c] = [op |-> "close", row |-> s]]
  /\ UNCHANGED <<row, late, atKSeF, failures, overlapped>>

\* An error of KSeF is only logged.
CloseOnlineSession(c) ==
  /\ task[c].op = "close"
  /\ task' = [task EXCEPT ![c].op = "closed"]
  /\ \/ atKSeF' = [atKSeF EXCEPT ![task[c].row] = "closed"]
     \/ UNCHANGED atKSeF
  /\ UNCHANGED <<row, late, failures, overlapped>>

TerminateSession(c) ==
  /\ task[c].op = "closed"
  /\ row' = [row EXCEPT ![task[c].row] = "terminated"]
  /\ task' = [task EXCEPT ![c] = Idle]
  /\ UNCHANGED <<late, atKSeF, failures, overlapped>>

\* The request fails or its process dies; what KSeF did stays done.
GiveUp(c) ==
  /\ task[c] # Idle
  /\ task' = [task EXCEPT ![c] = Idle]
  /\ UNCHANGED <<row, late, atKSeF, failures, overlapped>>

-----------------------------------------------------------------------------
(* Expiry                                                                   *)

TimeOut(s) ==
  /\ row[s] = "active"
  /\ s \notin late
  /\ late' = late \union {s}
  /\ UNCHANGED <<row, atKSeF, task, failures, overlapped>>

\* KSeF ends a session on its own.
EndAtKSeF(s) ==
  /\ atKSeF[s] = "open"
  /\ atKSeF' = [atKSeF EXCEPT ![s] = "closed"]
  /\ UNCHANGED <<row, late, task, failures, overlapped>>

\* The ACTIVE row, if there is exactly one and it is late, becomes EXPIRED.
ExpireLate == row' = [s \in Rows |-> IF TheActive(s) /\ s \in late THEN "expired" ELSE row[s]]

\* The good probe does not reset the counter.
CheckConnection_NoReset(probed) ==
  /\ failures' = IF ~probed /\ failures < PROBE_ERROR_THRESHOLD THEN failures + 1 ELSE failures
  /\ IF failures' < PROBE_ERROR_THRESHOLD THEN ExpireLate ELSE UNCHANGED row
  /\ UNCHANGED <<late, atKSeF, task, overlapped>>
\* GET /ksef/status: below the threshold a failed probe is passed over.
CheckConnection(probed) ==
  /\ failures' = IF probed THEN 0
                 ELSE IF failures < PROBE_ERROR_THRESHOLD THEN failures + 1 ELSE failures
  /\ IF failures' < PROBE_ERROR_THRESHOLD THEN ExpireLate ELSE UNCHANGED row
  /\ UNCHANGED <<late, atKSeF, task, overlapped>>

\* The worker looked for the session of a job; the failed job is committed,
\* and the mark with it.
WorkerFindsLate ==
  /\ \E s \in late : TheActive(s)
  /\ ExpireLate
  /\ UNCHANGED <<late, atKSeF, task, failures, overlapped>>

\* The worker's KSeF call was answered 401 or 403: whatever is ACTIVE now.
MarkSessionExpired ==
  /\ \E s \in Rows : TheActive(s)
  /\ row' = [s \in Rows |-> IF TheActive(s) THEN "expired" ELSE row[s]]
  /\ UNCHANGED <<late, atKSeF, task, failures, overlapped>>

Next ==
  \/ \E c \in Clients :
       \/ OpenSession(c) \/ RedeemTokens(c) \/ InsertSession(c)
       \/ \E s \in Rows, answered \in BOOLEAN : OpenOnlineSession(c, s, answered)
       \/ \E s \in Rows : CloseSession(c, s)
       \/ CloseOnlineSession(c) \/ TerminateSession(c) \/ GiveUp(c)
  \/ \E s \in Rows : TimeOut(s) \/ EndAtKSeF(s)
  \/ \E probed \in BOOLEAN : CheckConnection(probed)
  \/ WorkerFindsLate
  \/ MarkSessionExpired

Spec == Init /\ [][Next]_vars

\* An open page of the frontend polls GET /ksef/status every 30 seconds, and
\* KSeF answers its probe now and then.
FairSpec == Spec /\ WF_vars(CheckConnection(TRUE))

-----------------------------------------------------------------------------
(* Properties                                                               *)

\* A NIP has at most one ACTIVE session, or else every later open, close,
\* status check and submission of that NIP fails, with no way back.  It holds
\* as long as no two opens were in progress together.
OneActiveSession == overlapped \/ \A s, t \in ActiveRows : s = t

\* Why: an open found no ACTIVE row, and only an open makes one.
OpensAreApart ==
  overlapped \/
    \A c \in Clients : Opening(c) =>
      ActiveRows = {} /\ \A x \in Clients : Opening(x) => x = c

\* A session whose time is up does not block the next one for ever: an open
\* refuses while a row is ACTIVE, and no request but the status check commits
\* the mark EXPIRED.
LateSessionIsCleared ==
  \A s \in Rows : row[s] = "active" /\ s \in late ~> row[s] # "active" \/ overlapped

\* The inductive invariant.
IInv == TypeOK /\ OpensAreApart /\ OneActiveSession
=============================================================================
