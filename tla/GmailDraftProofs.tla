--------------------------- MODULE GmailDraftProofs ---------------------------
(***************************************************************************)
(* Theorems about GmailDraft, for any number of leads, e-mails, writers,   *)
(* workers, rows and recipients and any throttles.                         *)
(***************************************************************************)
EXTENDS GmailDraft, FiniteSetTheorems, TLAPS

(* Updating a function at a point that may lie outside its domain. *)
LEMMA UpdateInRange ==
  ASSUME NEW S, NEW T, NEW f \in [S -> T], NEW x, NEW e, x \in S => e \in T
  PROVE  [f EXCEPT ![x] = e] \in [S -> T]
OBVIOUS

(***************************************************************************)
(* Type correctness                                                        *)
(***************************************************************************)
(* A lead moved to a status, or left alone. *)
LEMMA MoveTypes ==
  ASSUME ApprovalTypeOK, NEW l, NEW to \in LeadStatus, Move(l, to) \/ UNCHANGED leadStatus
  PROVE  leadStatus' \in [Leads -> LeadStatus]
<1>1. CASE Move(l, to)
  <2>1. leadStatus' = [leadStatus EXCEPT ![l] = to]
    BY <1>1 DEF Move
  <2>2. leadStatus \in [Leads -> LeadStatus]
    BY DEF ApprovalTypeOK
  <2> QED
    BY <2>1, <2>2, UpdateInRange
<1> QED
  BY <1>1 DEF ApprovalTypeOK

(* Every stored draft is one. *)
LEMMA StoredTypes ==
  ASSUME ApprovalTypeOK, NEW l \in Leads, NEW n \in Emails
  PROVE  email[l] \in [Emails -> Email] /\ email[l][n] \in Email
BY DEF ApprovalTypeOK

(* The row of a new draft and the count of the lead's drafts. *)
LEMMA StoreTypes ==
  ASSUME ApprovalTypeOK, NEW l, NEW status \in {"APPROVED", "REVIEW_FAILED"},
         NEW step \in 0..MaxSteps, storeDraft(l, status, step)
  PROVE  /\ email' \in [Leads -> [Emails -> Email]]
         /\ written' \in [Leads -> 0..MaxEmails]
<1> DEFINE e == [status |-> status, decision |-> "NONE", step |-> step]
<1>1. /\ written' = [written EXCEPT ![l] = @ + 1]
      /\ email' = [email EXCEPT ![l][written[l] + 1] = e]
      /\ written[l] < MaxEmails
  BY DEF storeDraft
<1>2. e \in Email
  BY DEF Email, Decisions
<1>3. CASE l \in Leads
  <2>1. written[l] + 1 \in 0..MaxEmails
    BY <1>1, <1>3, ApprovalAssumption DEF ApprovalTypeOK
  <2>2. [email[l] EXCEPT ![written[l] + 1] = e] \in [Emails -> Email]
    BY <1>2, <1>3 DEF ApprovalTypeOK
  <2> QED
    BY <1>1, <1>3, <2>1, <2>2 DEF ApprovalTypeOK
<1>4. CASE l \notin Leads
  <2>1. written' = written /\ email' = email
    BY <1>1, <1>4 DEF ApprovalTypeOK
  <2> QED
    BY <2>1 DEF ApprovalTypeOK
<1> QED
  BY <1>3, <1>4

(* The steps of the writer processes keep the types. *)
LEMMA WriterStepTypes ==
  ASSUME ApprovalTypeOK, NEW w \in Writers,
         \/ failPersist(w) \/ WriterGivesUp(w)
         \/ \E s \in {"APPROVED", "REVIEW_FAILED"} : persistDraft(w, s) \/ resumeCommit(w, s)
         \/ \E l \in Leads : StartWriting(w, l) \/ \E n \in Emails : StartResume(w, l, n)
  PROVE  ApprovalTypeOK'
<1>0. writer[w] \in Writer /\ IdleWriter \in Writer
  BY ApprovalAssumption DEF ApprovalTypeOK, Writer, IdleWriter
<1>1. StopWriting(w) => writer' \in [Writers -> Writer]
  BY <1>0 DEF StopWriting, ApprovalTypeOK
<1>2. CASE failPersist(w)
  <2>1. leadStatus' \in [Leads -> LeadStatus]
    BY <1>2, MoveTypes DEF failPersist, LeadStatus
  <2> QED
    BY <1>1, <1>2, <2>1 DEF failPersist, ApprovalTypeOK
<1>3. CASE WriterGivesUp(w)
  BY <1>1, <1>3 DEF WriterGivesUp, ApprovalTypeOK
<1>4. ASSUME NEW s \in {"APPROVED", "REVIEW_FAILED"}, persistDraft(w, s)
      PROVE  ApprovalTypeOK'
  <2>1. leadStatus' \in [Leads -> LeadStatus]
    <3>1. routeAfterReview(s) \in LeadStatus
      BY DEF routeAfterReview, LeadStatus
    <3> QED
      BY <1>4, <3>1, MoveTypes DEF persistDraft
  <2>2. email' \in [Leads -> [Emails -> Email]] /\ written' \in [Leads -> 0..MaxEmails]
    BY <1>0, <1>4, StoreTypes DEF persistDraft, Writer
  <2> QED
    BY <1>1, <1>4, <2>1, <2>2 DEF persistDraft, ApprovalTypeOK
<1>5. ASSUME NEW s \in {"APPROVED", "REVIEW_FAILED"}, resumeCommit(w, s)
      PROVE  ApprovalTypeOK'
  <2>1. leadStatus' \in [Leads -> LeadStatus]
    <3>1. routeAfterReview(s) \in LeadStatus
      BY DEF routeAfterReview, LeadStatus
    <3> QED
      BY <1>5, <3>1, MoveTypes DEF resumeCommit
  <2>2. email' \in [Leads -> [Emails -> Email]] /\ written' \in [Leads -> 0..MaxEmails]
    <3>1. CASE storeDraft(writer[w].lead, s, 0)
      <4>1. 0 \in 0..MaxSteps
        BY ApprovalAssumption
      <4> QED
        BY <3>1, <4>1, StoreTypes
    <3>2. CASE /\ email' = [email EXCEPT ![writer[w].lead][writer[w].email].status = s]
               /\ UNCHANGED written
      <4>1. \A l \in Leads, n \in Emails : [email[l][n] EXCEPT !.status = s] \in Email
        BY StoredTypes DEF Email
      <4>2. \A l \in Leads :
              [email[l] EXCEPT ![writer[w].email].status = s] \in [Emails -> Email]
        BY <4>1, UpdateInRange DEF ApprovalTypeOK
      <4> QED
        BY <3>2, <4>2, UpdateInRange DEF ApprovalTypeOK
    <3> QED
      BY <1>5, <3>1, <3>2 DEF resumeCommit
  <2> QED
    BY <1>1, <1>5, <2>1, <2>2 DEF resumeCommit, ApprovalTypeOK
<1>6. ASSUME NEW l \in Leads, StartWriting(w, l)
      PROVE  ApprovalTypeOK'
  <2>1. PICK step \in 0..MaxSteps :
          writer' = [writer EXCEPT ![w] = [task |-> "write", lead |-> l, step |-> step, email |-> 0]]
    BY <1>6, ApprovalAssumption DEF StartWriting, ApprovalTypeOK
  <2>2. [task |-> "write", lead |-> l, step |-> step, email |-> 0] \in Writer
    BY ApprovalAssumption DEF Writer
  <2>3. writer' \in [Writers -> Writer]
    BY <2>1, <2>2 DEF ApprovalTypeOK
  <2> QED
    BY <1>6, <2>3 DEF StartWriting, ApprovalTypeOK
<1>7. ASSUME NEW l \in Leads, NEW n \in Emails, StartResume(w, l, n)
      PROVE  ApprovalTypeOK'
  <2>1. email[l][n].step \in 0..MaxSteps /\ n \in 0..MaxEmails
    BY StoredTypes, ApprovalAssumption DEF Email, Emails
  <2>2. writer' \in [Writers -> Writer]
    BY <1>0, <1>7, <2>1 DEF StartResume, ApprovalTypeOK, Writer
  <2> QED
    BY <1>7, <2>2 DEF StartResume, ApprovalTypeOK
<1> QED
  BY <1>2, <1>3, <1>4, <1>5, <1>6, <1>7

(* So do the reviewer's and the operator's. *)
LEMMA ReviewStepTypes ==
  ASSUME ApprovalTypeOK, NEW l \in Leads,
         \/ ShowDetail(l) \/ RequeueLead(l) \/ ReopenLead(l)
         \/ \E d \in {"APPROVED", "REJECTED"} : decideEmail(l, d)
         \/ \E n \in Emails : validateReplyFinalization(l, n) \/ insertReplyFinalization(l, n)
  PROVE  ApprovalTypeOK'
<1>1. CASE ShowDetail(l)
  BY <1>1 DEF ShowDetail, ApprovalTypeOK
<1>2. CASE RequeueLead(l)
  BY <1>2, MoveTypes DEF RequeueLead, ApprovalTypeOK, LeadStatus
<1>3. CASE ReopenLead(l)
  BY <1>3, MoveTypes DEF ReopenLead, ApprovalTypeOK, LeadStatus
<1>4. ASSUME NEW d \in {"APPROVED", "REJECTED"}, decideEmail(l, d)
      PROVE  ApprovalTypeOK'
  <2>1. leadStatus' \in [Leads -> LeadStatus]
    BY <1>4 DEF decideEmail, Move, ApprovalTypeOK, LeadStatus
  <2>2. email' \in [Leads -> [Emails -> Email]]
    <3>1. written[l] \in Emails
      BY <1>4, ApprovalAssumption DEF decideEmail, ApprovalTypeOK, Emails
    <3>2. [email[l][written[l]] EXCEPT !.decision = d] \in Email
      BY <3>1, StoredTypes DEF Email, Decisions
    <3>3. [email[l] EXCEPT ![written[l]].decision = d] \in [Emails -> Email]
      BY <3>1, <3>2 DEF ApprovalTypeOK
    <3> QED
      BY <1>4, <3>3 DEF decideEmail, ApprovalTypeOK
  <2> QED
    BY <1>4, <2>1, <2>2 DEF decideEmail, ApprovalTypeOK
<1>5. ASSUME NEW n \in Emails, validateReplyFinalization(l, n)
      PROVE  ApprovalTypeOK'
  BY <1>5 DEF validateReplyFinalization, ApprovalTypeOK
<1>6. ASSUME NEW n \in Emails, insertReplyFinalization(l, n)
      PROVE  ApprovalTypeOK'
  <2>1. Append(finalized[l], n) \in Seq(Emails)
    BY DEF ApprovalTypeOK
  <2>2. finalized' \in [Leads -> Seq(Emails)]
    BY <1>6, <2>1 DEF insertReplyFinalization, ApprovalTypeOK
  <2> QED
    BY <1>6, <2>2 DEF insertReplyFinalization, ApprovalTypeOK
<1> QED
  BY <1>1, <1>2, <1>3, <1>4, <1>5, <1>6

LEMMA ApprovalNextTypes ==
  ASSUME ApprovalTypeOK, ApprovalNext
  PROVE  ApprovalTypeOK'
BY WriterStepTypes, ReviewStepTypes DEF ApprovalNext

(* A row whose outcome, and perhaps draft id, is written. *)
LEMMA RowTypes ==
  ASSUME TypeOK, NEW r, NEW o \in RowOutcome,
         \/ row' = [row EXCEPT ![r].outcome = o]
         \/ row' = [row EXCEPT ![r].outcome = o, ![r].draftId = TRUE]
  PROVE  row' \in [Runs -> Row]
<1>1. row \in [Runs -> Row]
  BY DEF TypeOK
<1>2. \A q \in Runs : [row[q] EXCEPT !.outcome = o] \in Row
                    /\ [row[q] EXCEPT !.outcome = o, !.draftId = TRUE] \in Row
  BY <1>1 DEF Row
<1>3. CASE r \in Runs
  <2>1. \A q \in Runs : \/ row'[q] = row[q]
                       \/ row'[q] = [row[q] EXCEPT !.outcome = o]
                       \/ row'[q] = [row[q] EXCEPT !.outcome = o, !.draftId = TRUE]
    BY <1>1, <1>3 DEF Row
  <2>2. row' = [q \in Runs |-> row'[q]]
    BY <1>1
  <2>3. \A q \in Runs : row'[q] \in Row
    <3> SUFFICES ASSUME NEW q \in Runs
                 PROVE  row'[q] \in Row
      OBVIOUS
    <3>1. row[q] \in Row
      BY <1>1
    <3> HIDE DEF Row
    <3> QED
      BY <1>2, <2>1, <3>1, Zenon
  <2> QED
    BY <2>2, <2>3, Zenon
<1>4. CASE r \notin Runs
  BY <1>1, <1>4
<1> QED
  BY <1>3, <1>4

(* Routing an approved lead touches no other table. *)
LEMMA RouteTypes ==
  ASSUME ApprovalTypeOK, NEW l, NEW to \in LeadStatus, routeApproved(l, to), UNCHANGED restOfApproval
  PROVE  ApprovalTypeOK'
<1>1. leadStatus' \in [Leads -> LeadStatus]
  BY UpdateInRange DEF routeApproved, ApprovalTypeOK
<1> QED
  BY <1>1 DEF restOfApproval, ApprovalTypeOK

(* Every step of a worker keeps the types: the e-mail it reads off the latest
   finalization is one of the lead it works for. *)
LEMMA WorkerStepTypes ==
  ASSUME TypeOK, WorkerHasLead, NEW w \in Workers,
         WorkerStep(w) \/ Crash(w) \/ \E l \in Leads : ListLead(w, l)
  PROVE  TypeOK'
<1>0. worker[w] \in Worker /\ IdleWorker \in Worker /\ worker \in [Workers -> Worker]
      /\ ApprovalTypeOK
  BY ApprovalAssumption DEF TypeOK, Worker, WorkerPC, IdleWorker
<1>1. Stop(w) => worker' \in [Workers -> Worker]
  BY <1>0 DEF Stop
<1>2. ASSUME NEW pc \in WorkerPC, GoTo(w, pc)
      PROVE  worker' \in [Workers -> Worker]
  BY <1>0, <1>2 DEF GoTo, Worker
<1>3. UNCHANGED approvalVars => ApprovalTypeOK'
  BY <1>0 DEF approvalVars, ApprovalTypeOK
<1>4. ASSUME NEW l \in Leads, ListLead(w, l) PROVE TypeOK'
  <2>1. worker' \in [Workers -> Worker]
    BY <1>0, <1>4 DEF ListLead, Worker, WorkerPC
  <2> QED
    BY <1>3, <1>4, <2>1 DEF ListLead, TypeOK
<1>5. CASE Eligible(w)
  <2> DEFINE l == worker[w].lead
  <2>1. l \in Leads
    BY <1>5 DEF Eligible, WorkerHasLead
  <2>2. finalized[l] \in Seq(Emails) /\ finalized[l] # <<>>
    BY <1>5, <1>0, <2>1 DEF Eligible, ApprovalTypeOK
  <2>3. latestFinalization(l) \in Emails
    BY <2>2 DEF latestFinalization
  <2>4. latestFinalization(l) \in 0..MaxEmails
    BY <2>3, ApprovalAssumption DEF Emails
  <2>5. contact[l] \in Recipients \cup {Nobody} /\ now \in Nat
    BY <2>1 DEF TypeOK
  <2>6. worker' \in [Workers -> Worker]
    BY <1>0, <1>5, <2>4, <2>5 DEF Eligible, Worker, WorkerPC
  <2> QED
    BY <1>3, <1>5, <2>6 DEF Eligible, TypeOK
<1>6. CASE NotEligible(w)
  BY <1>1, <1>3, <1>6 DEF NotEligible, TypeOK
<1>7. CASE Verified(w)
  BY <1>2, <1>3, <1>7 DEF Verified, TypeOK, WorkerPC
<1>8. CASE NotVerified(w)
  <2>1. ApprovalTypeOK'
    BY <1>0, <1>8, RouteTypes DEF NotVerified, restOfApproval, LeadStatus
  <2> QED
    BY <1>1, <1>8, <2>1 DEF NotVerified, TypeOK
<1>9. CASE Reconcile(w)
  <2>1. worker' \in [Workers -> Worker]
    <3>1. \/ Stop(w) \/ GoTo(w, "reserve")
          \/ \E r \in Runs, pc \in {"reuse", "park"} :
               worker' = [worker EXCEPT ![w].pc = pc, ![w].run = r]
      BY <1>9 DEF Reconcile, findReservedByFingerprint, sameFingerprint, used
    <3>2. ASSUME NEW r \in Runs, NEW pc \in {"reuse", "park"},
                 worker' = [worker EXCEPT ![w].pc = pc, ![w].run = r]
          PROVE  worker' \in [Workers -> Worker]
      BY <1>0, <3>2 DEF Worker, WorkerPC
    <3> QED
      BY <1>1, <1>2, <3>1, <3>2 DEF WorkerPC
  <2> QED
    BY <1>3, <1>9, <2>1 DEF Reconcile, TypeOK
<1>10. CASE ReuseReserved(w)
  <2>1. row' \in [Runs -> Row]
    BY <1>10, RowTypes DEF ReuseReserved, completeRun, RowOutcome
  <2> QED
    BY <1>1, <1>3, <1>10, <2>1 DEF ReuseReserved, TypeOK
<1>11. CASE ParkUncertain(w)
  <2>1. row' \in [Runs -> Row]
    BY <1>11, RowTypes DEF ParkUncertain, completeRun, RowOutcome
  <2>2. ApprovalTypeOK'
    BY <1>0, <1>11, RouteTypes DEF ParkUncertain, restOfApproval, LeadStatus
  <2> QED
    BY <1>1, <1>11, <2>1, <2>2 DEF ParkUncertain, TypeOK
<1>12. ASSUME NEW r \in Runs, reserveRun(w, r) PROVE TypeOK'
  <2> DEFINE e == [outcome |-> "TRANSIENT_ERROR", lead |-> worker[w].lead, email |-> worker[w].email,
                   recipient |-> worker[w].recipient, draftId |-> FALSE,
                   createdAt |-> worker[w].startedAt]
  <2>1. e \in Row
    BY <1>0 DEF Row, RowOutcome, Worker
  <2>2. row' = [row EXCEPT ![r] = e] /\ worker' = [worker EXCEPT ![w].pc = "call", ![w].run = r]
    BY <1>12 DEF reserveRun
  <2>3. row' \in [Runs -> Row]
    BY <2>1, <2>2 DEF TypeOK
  <2>4. worker' \in [Workers -> Worker]
    BY <1>0, <2>2 DEF Worker, WorkerPC
  <2> QED
    BY <1>3, <1>12, <2>3, <2>4 DEF reserveRun, TypeOK
<1>13. CASE ReserveRefused(w)
  BY <1>1, <1>3, <1>13 DEF ReserveRefused, TypeOK
<1>14. CASE CallProvider(w)
  <2>1. request' \in [Runs -> RequestState]
    BY <1>14, UpdateInRange DEF CallProvider, TypeOK, RequestState
  <2> QED
    BY <1>2, <1>3, <1>14, <2>1 DEF CallProvider, TypeOK, WorkerPC
<1>15. CASE finish(w)
  <2>1. row' \in [Runs -> Row]
    BY <1>15, RowTypes DEF finish, RowOutcome
  <2>2. ApprovalTypeOK'
    BY <1>0, <1>15, RouteTypes DEF finish, restOfApproval, LeadStatus
  <2> QED
    BY <1>1, <1>15, <2>1, <2>2 DEF finish, TypeOK
<1>16. CASE terminalRetryable(w)
  <2>1. row' \in [Runs -> Row]
    BY <1>16, RowTypes DEF terminalRetryable, completeRun, RowOutcome
  <2> QED
    BY <1>1, <1>3, <1>16, <2>1 DEF terminalRetryable, TypeOK
<1>17. CASE terminalFailed(w)
  <2>1. row' \in [Runs -> Row]
    BY <1>17, RowTypes DEF terminalFailed, completeRun, RowOutcome
  <2>2. ApprovalTypeOK'
    BY <1>0, <1>17, RouteTypes DEF terminalFailed, restOfApproval, LeadStatus
  <2> QED
    BY <1>1, <1>17, <2>1, <2>2 DEF terminalFailed, TypeOK
<1>18. CASE Crash(w)
  BY <1>1, <1>3, <1>18 DEF Crash, TypeOK
<1> QED
  BY <1>4, <1>5, <1>6, <1>7, <1>8, <1>9, <1>10, <1>11, <1>12, <1>13, <1>14, <1>15, <1>16,
     <1>17, <1>18 DEF WorkerStep

(* The steps around the workers keep the types too. *)
LEMMA AroundTypes ==
  ASSUME TypeOK,
         \/ ApprovalNext /\ UNCHANGED draftVars
         \/ \E r \in Runs : Execute(r) \/ Refuse(r)
         \/ \E l \in Leads : SendDraft(l) \/ \E c \in Recipients : SetContactEmail(l, c)
         \/ Tick
         \/ UNCHANGED vars
  PROVE  TypeOK'
<1>0. UNCHANGED approvalVars => ApprovalTypeOK'
  BY DEF TypeOK, approvalVars, ApprovalTypeOK
<1>1. CASE ApprovalNext /\ UNCHANGED draftVars
  BY <1>1, ApprovalNextTypes DEF TypeOK, draftVars
<1>2. ASSUME NEW r \in Runs, Execute(r) \/ Refuse(r) PROVE TypeOK'
  BY <1>0, <1>2 DEF Execute, Refuse, TypeOK, RequestState
<1>3. ASSUME NEW l \in Leads, SendDraft(l) PROVE TypeOK'
  <2>1. sent[l] + 1 \in 0..(MaxSteps + 1)
    BY <1>3, ApprovalAssumption DEF SendDraft, TypeOK, ApprovalTypeOK
  <2>2. leadStatus' \in [Leads -> LeadStatus]
    BY <1>3, MoveTypes DEF SendDraft, TypeOK, LeadStatus
  <2>3. ApprovalTypeOK'
    BY <1>3, <2>1, <2>2 DEF SendDraft, TypeOK, ApprovalTypeOK
  <2> QED
    BY <1>3, <2>3 DEF SendDraft, TypeOK, draftVars
<1>4. ASSUME NEW l \in Leads, NEW c \in Recipients, SetContactEmail(l, c) PROVE TypeOK'
  BY <1>0, <1>4 DEF SetContactEmail, TypeOK
<1>5. CASE Tick
  BY <1>0, <1>5 DEF Tick, TypeOK
<1>6. CASE UNCHANGED vars
  BY <1>0, <1>6 DEF vars, draftVars, TypeOK
<1> QED
  BY <1>1, <1>2, <1>3, <1>4, <1>5, <1>6

(***************************************************************************)
(* Preservation of DraftInv                                                *)
(***************************************************************************)
(* Steps that leave the rows, the mailbox and the workers alone and hand no
   lead on to scheduling. *)
LEMMA FrameKeepsDraftInv ==
  ASSUME DraftInv, UNCHANGED <<row, request, worker>>,
         \A l \in Leads : leadStatus'[l] = "DRAFT_CREATED" => leadStatus[l] = "DRAFT_CREATED"
  PROVE  DraftInv'
BY DEF DraftInv, WorkerHasLead, HeldRows, OneCaller, CallsHaveRows, FingerprintUnique,
       DraftedLeadHasDraft, used

(* A worker moves on, or stops, without touching a row; the row it may take
   hold of is one of its lead, and it is not about to call for it. *)
LEMMA QuietWorkerKeepsDraftInv ==
  ASSUME TypeOK, DraftInv, NEW w \in Workers, NEW x,
         worker' = [worker EXCEPT ![w] = x],
         x.pc # "idle" => x.lead \in Leads,
         x.pc \notin {"call", "waiting"},
         x.pc \in {"reuse", "park"} => x.run \in used /\ row[x.run].lead = x.lead,
         \A l \in Leads : leadStatus'[l] = "DRAFT_CREATED" => leadStatus[l] = "DRAFT_CREATED",
         UNCHANGED <<row, request>>
  PROVE  DraftInv'
<1>1. worker'[w] = x /\ \A v \in Workers \ {w} : worker'[v] = worker[v]
  BY DEF TypeOK
<1>2. WorkerHasLead'
  BY <1>1 DEF DraftInv, WorkerHasLead
<1>3. HeldRows'
  BY <1>1 DEF DraftInv, HeldRows, used
<1>4. OneCaller'
  BY <1>1 DEF DraftInv, OneCaller
<1>5. (CallsHaveRows /\ FingerprintUnique /\ DraftedLeadHasDraft)'
  BY DEF DraftInv, CallsHaveRows, FingerprintUnique, DraftedLeadHasDraft, used
<1> QED
  BY <1>2, <1>3, <1>4, <1>5 DEF DraftInv

(* A worker writes an outcome to the row it holds and stops; it hands its
   lead on only with the id of a draft that is in the mailbox. *)
LEMMA SettleKeepsDraftInv ==
  ASSUME TypeOK, DraftInv, NEW w \in Workers,
         worker[w].pc \in {"reuse", "park", "waiting"},
         NEW o \in RowOutcome \ {"UNUSED"},
         \/ row' = [row EXCEPT ![worker[w].run].outcome = o]
         \/ /\ row' = [row EXCEPT ![worker[w].run].outcome = o, ![worker[w].run].draftId = TRUE]
            /\ request[worker[w].run] = "executed",
         Stop(w), UNCHANGED request,
         \A l \in Leads : leadStatus'[l] = "DRAFT_CREATED" =>
           \/ leadStatus[l] = "DRAFT_CREATED"
           \/ l = worker[w].lead /\ row'[worker[w].run].draftId
              /\ request[worker[w].run] = "executed"
  PROVE  DraftInv'
<1> DEFINE g == worker[w].run
<1>1. g \in used /\ g \in Runs /\ row[g].lead = worker[w].lead
  BY DEF DraftInv, HeldRows, used
<1>2. /\ row'[g].outcome = o /\ row'[g].lead = row[g].lead /\ row'[g].email = row[g].email
      /\ row'[g].recipient = row[g].recipient
      /\ row[g].draftId => row'[g].draftId
      /\ \A r \in Runs \ {g} : row'[r] = row[r]
  BY <1>1 DEF TypeOK, Row
<1>3. used' = used
  BY <1>1, <1>2 DEF used
<1>4. worker'[w] = IdleWorker /\ \A v \in Workers \ {w} : worker'[v] = worker[v]
  BY DEF Stop, TypeOK
<1>5. WorkerHasLead'
  BY <1>4 DEF DraftInv, WorkerHasLead, IdleWorker
<1>6. HeldRows'
  <2> SUFFICES ASSUME NEW v \in Workers, worker'[v].pc \in {"reuse", "park", "call", "waiting"}
               PROVE  worker'[v].run \in used' /\ row'[worker'[v].run].lead = worker'[v].lead
    BY DEF HeldRows
  <2>1. worker'[v] = worker[v]
    BY <1>4 DEF IdleWorker
  <2>2. worker[v].run \in used /\ row[worker[v].run].lead = worker[v].lead
    BY <2>1 DEF DraftInv, HeldRows
  <2> QED
    BY <2>1, <2>2, <1>2, <1>3 DEF used
<1>7. OneCaller'
  BY <1>4 DEF DraftInv, OneCaller, IdleWorker
<1>8. CallsHaveRows'
  BY <1>3 DEF DraftInv, CallsHaveRows
<1>9. FingerprintUnique'
  <2>1. \A r \in used : row'[r].lead = row[r].lead /\ row'[r].email = row[r].email
                        /\ row'[r].recipient = row[r].recipient
    BY <1>2 DEF used
  <2> QED
    BY <2>1, <1>3 DEF DraftInv, FingerprintUnique
<1>10. DraftedLeadHasDraft'
  <2> SUFFICES ASSUME NEW l \in Leads, leadStatus'[l] = "DRAFT_CREATED"
               PROVE  \E r \in used' : row'[r].lead = l /\ row'[r].draftId /\ request'[r] = "executed"
    BY DEF DraftedLeadHasDraft
  <2>1. CASE leadStatus[l] = "DRAFT_CREATED"
    <3>1. PICK r \in used : row[r].lead = l /\ row[r].draftId /\ request[r] = "executed"
      BY <2>1 DEF DraftInv, DraftedLeadHasDraft
    <3>2. row'[r].lead = l /\ row'[r].draftId
      BY <3>1, <1>2 DEF used
    <3> QED
      BY <3>1, <3>2, <1>3
  <2>2. CASE leadStatus[l] # "DRAFT_CREATED"
    <3>1. row'[g].lead = l /\ row'[g].draftId /\ request'[g] = "executed"
      BY <2>2, <1>1, <1>2
    <3> QED
      BY <3>1, <1>1, <1>3
  <2> QED
    BY <2>1, <2>2
<1> QED
  BY <1>5, <1>6, <1>7, <1>8, <1>9, <1>10 DEF DraftInv

(* The reservation: a new row of a fingerprint no row has, not yet called for. *)
LEMMA ReserveKeepsDraftInv ==
  ASSUME TypeOK, DraftInv, NEW w \in Workers, NEW g \in Runs, reserveRun(w, g)
  PROVE  DraftInv'
<1>1. /\ worker[w].pc = "reserve" /\ g \notin used
      /\ sameFingerprint(worker[w].lead, worker[w].email, worker[w].recipient) = {}
      /\ UNCHANGED <<request, leadStatus>>
  BY DEF reserveRun, approvalVars
<1>2. /\ row'[g].outcome = "TRANSIENT_ERROR" /\ row'[g].lead = worker[w].lead
      /\ row'[g].email = worker[w].email /\ row'[g].recipient = worker[w].recipient
      /\ \A r \in Runs \ {g} : row'[r] = row[r]
  BY DEF reserveRun, TypeOK
<1>3. used' = used \cup {g}
  BY <1>2 DEF used
<1>4. /\ worker'[w].pc = "call" /\ worker'[w].run = g /\ worker'[w].lead = worker[w].lead
      /\ \A v \in Workers \ {w} : worker'[v] = worker[v]
  BY DEF reserveRun, TypeOK, Worker
<1>5. WorkerHasLead'
  BY <1>1, <1>4 DEF DraftInv, WorkerHasLead
<1>6. HeldRows'
  <2> SUFFICES ASSUME NEW v \in Workers, worker'[v].pc \in {"reuse", "park", "call", "waiting"}
               PROVE  worker'[v].run \in used' /\ row'[worker'[v].run].lead = worker'[v].lead
    BY DEF HeldRows
  <2>1. CASE v = w
    BY <2>1, <1>2, <1>3, <1>4
  <2>2. CASE v # w
    <3>1. worker[v].run \in used /\ row[worker[v].run].lead = worker[v].lead /\ worker[v].run # g
      BY <2>2, <1>1, <1>4 DEF DraftInv, HeldRows
    <3> QED
      BY <2>2, <3>1, <1>2, <1>3, <1>4 DEF used
  <2> QED
    BY <2>1, <2>2
<1>7. OneCaller'
  <2>1. request[g] = "none"
    BY <1>1 DEF DraftInv, CallsHaveRows
  <2>2. \A v \in Workers \ {w} : worker[v].pc = "call" => worker[v].run # g
    BY <1>1 DEF DraftInv, HeldRows
  <2> QED
    BY <2>1, <2>2, <1>1, <1>4 DEF DraftInv, OneCaller
<1>8. CallsHaveRows'
  BY <1>1, <1>3 DEF DraftInv, CallsHaveRows
<1>9. FingerprintUnique'
  <2>1. \A r \in used : \/ row[r].lead # worker[w].lead \/ row[r].email # worker[w].email
                        \/ row[r].recipient # worker[w].recipient
    BY <1>1 DEF sameFingerprint
  <2>2. \A r \in used : row'[r] = row[r]
    BY <1>1, <1>2 DEF used
  <2> QED
    BY <2>1, <2>2, <1>2, <1>3 DEF DraftInv, FingerprintUnique
<1>10. DraftedLeadHasDraft'
  <2>1. \A r \in used : row'[r] = row[r]
    BY <1>1, <1>2 DEF used
  <2> QED
    BY <2>1, <1>1, <1>3 DEF DraftInv, DraftedLeadHasDraft
<1> QED
  BY <1>5, <1>6, <1>7, <1>8, <1>9, <1>10 DEF DraftInv

(* The call, for a row that nobody called for. *)
LEMMA CallKeepsDraftInv ==
  ASSUME TypeOK, DraftInv, NEW w \in Workers, CallProvider(w)
  PROVE  DraftInv'
<1> DEFINE g == worker[w].run
<1>1. worker[w].pc = "call" /\ UNCHANGED <<row, leadStatus>>
  BY DEF CallProvider, approvalVars
<1>2. g \in used /\ g \in Runs /\ request[g] = "none" /\ row[g].lead = worker[w].lead
  BY <1>1 DEF DraftInv, HeldRows, OneCaller, used
<1>3. request'[g] = "pending" /\ \A r \in Runs \ {g} : request'[r] = request[r]
  BY <1>2 DEF CallProvider, TypeOK
<1>4. /\ worker'[w].pc = "waiting" /\ worker'[w].run = g /\ worker'[w].lead = worker[w].lead
      /\ \A v \in Workers \ {w} : worker'[v] = worker[v]
  BY DEF CallProvider, GoTo, TypeOK, Worker
<1>5. used' = used
  BY <1>1 DEF used
<1>6. WorkerHasLead'
  BY <1>1, <1>4 DEF DraftInv, WorkerHasLead
<1>7. HeldRows'
  BY <1>1, <1>2, <1>4, <1>5 DEF DraftInv, HeldRows
<1>8. OneCaller'
  <2>1. \A v \in Workers \ {w} : worker[v].pc = "call" => worker[v].run \in Runs \ {g}
    BY <1>1 DEF DraftInv, OneCaller, HeldRows, used
  <2> QED
    BY <2>1, <1>3, <1>4 DEF DraftInv, OneCaller
<1>9. CallsHaveRows'
  BY <1>2, <1>3, <1>5 DEF DraftInv, CallsHaveRows
<1>10. FingerprintUnique'
  BY <1>1, <1>5 DEF DraftInv, FingerprintUnique
<1>11. DraftedLeadHasDraft'
  <2>1. \A r \in used : request[r] = "executed" => request'[r] = "executed"
    BY <1>2, <1>3 DEF used
  <2> QED
    BY <2>1, <1>1, <1>5 DEF DraftInv, DraftedLeadHasDraft
<1> QED
  BY <1>6, <1>7, <1>8, <1>9, <1>10, <1>11 DEF DraftInv

(* The mailbox settles a call that was made. *)
LEMMA MailboxKeepsDraftInv ==
  ASSUME TypeOK, DraftInv, NEW g \in Runs, Execute(g) \/ Refuse(g)
  PROVE  DraftInv'
<1>1. /\ request[g] = "pending" /\ request'[g] # "none"
      /\ \A r \in Runs \ {g} : request'[r] = request[r]
      /\ UNCHANGED <<row, worker, leadStatus>>
  BY DEF Execute, Refuse, TypeOK, approvalVars
<1>2. used' = used
  BY <1>1 DEF used
<1>3. WorkerHasLead' /\ HeldRows' /\ FingerprintUnique'
  BY <1>1, <1>2 DEF DraftInv, WorkerHasLead, HeldRows, FingerprintUnique
<1>4. OneCaller'
  <2>1. \A v \in Workers : worker[v].pc = "call" => worker[v].run \in Runs \ {g}
    BY <1>1 DEF DraftInv, OneCaller, HeldRows, used
  <2> QED
    BY <2>1, <1>1 DEF DraftInv, OneCaller
<1>5. CallsHaveRows'
  BY <1>1, <1>2 DEF DraftInv, CallsHaveRows
<1>6. DraftedLeadHasDraft'
  <2>1. \A r \in used : request[r] = "executed" => request'[r] = "executed"
    BY <1>1 DEF used
  <2> QED
    BY <2>1, <1>1, <1>2 DEF DraftInv, DraftedLeadHasDraft
<1> QED
  BY <1>3, <1>4, <1>5, <1>6 DEF DraftInv

(* Routing to a status other than DRAFT_CREATED hands no lead on. *)
LEMMA RouteHandsNoLeadOn ==
  ASSUME NEW to, to # "DRAFT_CREATED", NEW k, TypeOK, Move(k, to) \/ routeApproved(k, to)
  PROVE  \A l \in Leads : leadStatus'[l] = "DRAFT_CREATED" => leadStatus[l] = "DRAFT_CREATED"
BY DEF Move, routeApproved, TypeOK, ApprovalTypeOK

(* Neither writing nor reviewing an e-mail hands a lead on to scheduling. *)
LEMMA ApprovalHandsNoLeadOn ==
  ASSUME TypeOK, ApprovalNext
  PROVE  \A l \in Leads : leadStatus'[l] = "DRAFT_CREATED" => leadStatus[l] = "DRAFT_CREATED"
<1> DEFINE Goal == \A l \in Leads : leadStatus'[l] = "DRAFT_CREATED" => leadStatus[l] = "DRAFT_CREATED"
<1>0. UNCHANGED leadStatus => Goal
  OBVIOUS
<1>1. ASSUME NEW w \in Writers, failPersist(w) \/ WriterGivesUp(w) PROVE Goal
  BY <1>0, <1>1, RouteHandsNoLeadOn DEF failPersist, WriterGivesUp
<1>2. ASSUME NEW w \in Writers, NEW s, persistDraft(w, s) \/ resumeCommit(w, s) PROVE Goal
  <2>1. routeAfterReview(s) # "DRAFT_CREATED"
    BY DEF routeAfterReview
  <2>2. UNCHANGED leadStatus \/ Move(writer[w].lead, routeAfterReview(s))
    BY <1>2 DEF persistDraft, resumeCommit
  <2> QED
    BY <1>0, <2>1, <2>2, RouteHandsNoLeadOn
<1>3. ASSUME NEW l \in Leads, NEW d, decideEmail(l, d) PROVE Goal
  <2>1. PICK to \in {"HUMAN_APPROVED", "SENT", "REJECTED"} : Move(l, to)
    BY <1>3 DEF decideEmail
  <2> QED
    BY <2>1, RouteHandsNoLeadOn
<1>4. ASSUME NEW l \in Leads, ShowDetail(l) \/ RequeueLead(l) \/ ReopenLead(l) PROVE Goal
  BY <1>0, <1>4, RouteHandsNoLeadOn DEF ShowDetail, RequeueLead, ReopenLead
<1>5. ASSUME NEW l \in Leads, NEW n \in Emails,
             \/ validateReplyFinalization(l, n) \/ insertReplyFinalization(l, n)
             \/ \E w \in Writers : StartResume(w, l, n)
      PROVE  Goal
  BY <1>0, <1>5 DEF StartResume, validateReplyFinalization, insertReplyFinalization
<1>6. ASSUME NEW l \in Leads, NEW w \in Writers, StartWriting(w, l) PROVE Goal
  BY <1>0, <1>6 DEF StartWriting
<1> QED
  BY <1>1, <1>2, <1>3, <1>4, <1>5, <1>6 DEF ApprovalNext

(* Every step of a worker keeps DraftInv. *)
LEMMA WorkerKeepsDraftInv ==
  ASSUME TypeOK, DraftInv, NEW w \in Workers,
         WorkerStep(w) \/ Crash(w) \/ \E l \in Leads : ListLead(w, l)
  PROVE  DraftInv'
<1> DEFINE NoneHandedOn ==
             \A l \in Leads : leadStatus'[l] = "DRAFT_CREATED" => leadStatus[l] = "DRAFT_CREATED"
<1>0. worker[w] \in Worker /\ worker \in [Workers -> Worker]
  BY DEF TypeOK
<1>1. UNCHANGED approvalVars => NoneHandedOn
  BY DEF approvalVars
<1>2. ASSUME Stop(w), NoneHandedOn, UNCHANGED <<row, request>> PROVE DraftInv'
  BY <1>2, QuietWorkerKeepsDraftInv DEF Stop, IdleWorker
<1>3. ASSUME NEW l \in Leads, ListLead(w, l) PROVE DraftInv'
  <2> DEFINE x == [worker[w] EXCEPT !.pc = "listed", !.lead = l]
  <2>1. worker' = [worker EXCEPT ![w] = x] /\ UNCHANGED <<row, request>> /\ NoneHandedOn
    BY <1>0, <1>1, <1>3 DEF ListLead, Worker
  <2>2. x.pc = "listed" /\ x.lead \in Leads
    BY <1>0 DEF Worker
  <2> QED
    BY <2>1, <2>2, QuietWorkerKeepsDraftInv
<1>4. ASSUME Eligible(w) PROVE DraftInv'
  <2> DEFINE x == [worker[w] EXCEPT !.pc = "verify",
                                    !.email = latestFinalization(worker[w].lead),
                                    !.recipient = contact[worker[w].lead], !.startedAt = now]
  <2>1. worker' = [worker EXCEPT ![w] = x] /\ UNCHANGED <<row, request>> /\ NoneHandedOn
    BY <1>0, <1>1, <1>4 DEF Eligible, Worker
  <2>2. x.pc = "verify" /\ x.lead \in Leads
    BY <1>0, <1>4 DEF Worker, Eligible, DraftInv, WorkerHasLead
  <2> QED
    BY <2>1, <2>2, QuietWorkerKeepsDraftInv
<1>5. ASSUME NEW pc \in {"reconcile", "reserve"}, GoTo(w, pc), worker[w].pc # "idle",
             UNCHANGED <<row, request>>, UNCHANGED approvalVars
      PROVE  DraftInv'
  <2> DEFINE x == [worker[w] EXCEPT !.pc = pc]
  <2>1. worker' = [worker EXCEPT ![w] = x] /\ NoneHandedOn
    BY <1>0, <1>1, <1>5 DEF GoTo, Worker
  <2>2. x.pc = pc /\ x.lead \in Leads
    BY <1>0, <1>5 DEF Worker, DraftInv, WorkerHasLead
  <2> QED
    BY <1>5, <2>1, <2>2, QuietWorkerKeepsDraftInv
<1>6. ASSUME Reconcile(w) PROVE DraftInv'
  <2>1. /\ worker[w].pc = "reconcile" /\ UNCHANGED <<row, request>> /\ UNCHANGED approvalVars
        /\ NoneHandedOn
    BY <1>1, <1>6 DEF Reconcile
  <2>2. \/ Stop(w) \/ GoTo(w, "reserve")
        \/ \E r \in used, pc \in {"reuse", "park"} :
             /\ row[r].lead = worker[w].lead
             /\ worker' = [worker EXCEPT ![w].pc = pc, ![w].run = r]
    BY <1>6 DEF Reconcile, findReservedByFingerprint, sameFingerprint
  <2>3. ASSUME NEW r \in used, NEW pc \in {"reuse", "park"}, row[r].lead = worker[w].lead,
               worker' = [worker EXCEPT ![w].pc = pc, ![w].run = r]
        PROVE  DraftInv'
    <3>1. PICK x : /\ worker' = [worker EXCEPT ![w] = x]
                   /\ x.pc = pc /\ x.lead = worker[w].lead /\ x.run = r
      <4> WITNESS [worker[w] EXCEPT !.pc = pc, !.run = r]
      <4> QED
        BY <1>0, <2>3 DEF Worker
    <3>2. x.pc \notin {"call", "waiting"} /\ x.lead \in Leads
      BY <2>1, <3>1 DEF DraftInv, WorkerHasLead
    <3>3. x.run \in used /\ row[x.run].lead = x.lead
      BY <2>3, <3>1
    <3> QED
      BY <2>1, <3>1, <3>2, <3>3, QuietWorkerKeepsDraftInv
  <2> QED
    BY <1>2, <1>5, <2>1, <2>2, <2>3
<1>7. ASSUME NotVerified(w) PROVE DraftInv'
  BY <1>2, <1>7, RouteHandsNoLeadOn DEF NotVerified
<1>8. ASSUME NotEligible(w) \/ ReserveRefused(w) \/ Crash(w) PROVE DraftInv'
  BY <1>1, <1>2, <1>8 DEF NotEligible, ReserveRefused, Crash
<1>9. ASSUME Verified(w) PROVE DraftInv'
  BY <1>5, <1>9 DEF Verified
<1>10. ASSUME ReuseReserved(w) \/ terminalRetryable(w) PROVE DraftInv'
  <2>1. NoneHandedOn /\ Stop(w) /\ UNCHANGED request /\ worker[w].pc \in {"reuse", "waiting"}
    BY <1>1, <1>10 DEF ReuseReserved, terminalRetryable
  <2>2. PICK o \in RowOutcome \ {"UNUSED"} : row' = [row EXCEPT ![worker[w].run].outcome = o]
    BY <1>10 DEF ReuseReserved, terminalRetryable, completeRun, RowOutcome
  <2> QED
    BY <2>1, <2>2, SettleKeepsDraftInv
<1>11. ASSUME ParkUncertain(w) \/ terminalFailed(w) PROVE DraftInv'
  <2>1. Stop(w) /\ UNCHANGED request /\ worker[w].pc \in {"park", "waiting"}
        /\ routeApproved(worker[w].lead, "NEEDS_MANUAL_REVIEW")
    BY <1>11 DEF ParkUncertain, terminalFailed
  <2>2. PICK o \in RowOutcome \ {"UNUSED"} : row' = [row EXCEPT ![worker[w].run].outcome = o]
    BY <1>11 DEF ParkUncertain, terminalFailed, completeRun, RowOutcome
  <2>3. NoneHandedOn
    BY <2>1, RouteHandsNoLeadOn
  <2> QED
    BY <2>1, <2>2, <2>3, SettleKeepsDraftInv
<1>12. ASSUME finish(w) PROVE DraftInv'
  <2> DEFINE g == worker[w].run
  <2>1. /\ worker[w].pc = "waiting" /\ request[g] = "executed" /\ Stop(w) /\ UNCHANGED request
        /\ row' = [row EXCEPT ![g].outcome = "DRAFT_CREATED", ![g].draftId = TRUE]
        /\ routeApproved(worker[w].lead, "DRAFT_CREATED")
    BY <1>12 DEF finish
  <2>2. row'[g].draftId
    BY <2>1 DEF DraftInv, HeldRows, used, TypeOK, Row
  <2>3. \A l \in Leads : leadStatus'[l] = "DRAFT_CREATED" =>
          leadStatus[l] = "DRAFT_CREATED" \/ l = worker[w].lead
    BY <2>1 DEF routeApproved, TypeOK, ApprovalTypeOK
  <2>4. "DRAFT_CREATED" \in RowOutcome \ {"UNUSED"}
    BY DEF RowOutcome
  <2> QED
    BY <2>1, <2>2, <2>3, <2>4, SettleKeepsDraftInv
<1> QED
  BY <1>3, <1>4, <1>6, <1>7, <1>8, <1>9, <1>10, <1>11, <1>12,
     ReserveKeepsDraftInv, CallKeepsDraftInv DEF WorkerStep

(***************************************************************************)
(* Theorems                                                                *)
(***************************************************************************)
(* The two are inductive together: an e-mail number is in range because the
   worker that reads it works for a lead. *)
LEMMA Inductive == Spec => [](TypeOK /\ DraftInv)
<1>1. Init => TypeOK /\ DraftInv
  <2> SUFFICES ASSUME Init PROVE TypeOK /\ DraftInv
    OBVIOUS
  <2>1. ApprovalTypeOK
    <3>1. UnusedEmail \in Email /\ IdleWriter \in Writer
      BY ApprovalAssumption DEF UnusedEmail, Email, Decisions, IdleWriter, Writer
    <3>2. email \in [Leads -> [Emails -> Email]] /\ writer \in [Writers -> Writer]
      BY <3>1 DEF Init, ApprovalInit
    <3> QED
      BY <3>2, ApprovalAssumption DEF Init, ApprovalInit, ApprovalTypeOK, LeadStatus
  <2>2. UnusedRow \in Row /\ IdleWorker \in Worker
    BY ApprovalAssumption DEF UnusedRow, Row, RowOutcome, IdleWorker, Worker, WorkerPC
  <2>3. TypeOK
    BY <2>1, <2>2 DEF Init, TypeOK, RequestState
  <2>4. used = {} /\ \A w \in Workers : worker[w].pc = "idle"
    BY DEF Init, used, UnusedRow, IdleWorker
  <2>5. \A l \in Leads : leadStatus[l] # "DRAFT_CREATED"
    BY DEF Init, ApprovalInit
  <2>6. DraftInv
    BY <2>4, <2>5 DEF Init, DraftInv, WorkerHasLead, HeldRows, OneCaller, CallsHaveRows,
                      FingerprintUnique, DraftedLeadHasDraft
  <2> QED
    BY <2>3, <2>6
<1>2. TypeOK /\ DraftInv /\ [Next]_vars => (TypeOK /\ DraftInv)'
  <2> SUFFICES ASSUME TypeOK, DraftInv, [Next]_vars PROVE (TypeOK /\ DraftInv)'
    OBVIOUS
  <2>1. TypeOK'
    BY WorkerStepTypes, AroundTypes DEF Next, DraftInv
  <2>2. ASSUME ApprovalNext /\ UNCHANGED draftVars PROVE DraftInv'
    BY <2>2, ApprovalHandsNoLeadOn, FrameKeepsDraftInv DEF draftVars
  <2>3. ASSUME NEW l \in Leads, SendDraft(l) PROVE DraftInv'
    BY <2>3, RouteHandsNoLeadOn, FrameKeepsDraftInv DEF SendDraft, draftVars
  <2>4. ASSUME \/ \E l \in Leads, c \in Recipients : SetContactEmail(l, c)
               \/ Tick \/ UNCHANGED vars
        PROVE  DraftInv'
    <3>1. UNCHANGED <<row, request, worker>> /\ leadStatus' = leadStatus
      BY <2>4 DEF SetContactEmail, Tick, vars, draftVars, approvalVars
    <3> QED
      BY <3>1, FrameKeepsDraftInv
  <2>5. DraftInv'
    BY <2>2, <2>3, <2>4, WorkerKeepsDraftInv, MailboxKeepsDraftInv DEF Next
  <2> QED
    BY <2>1, <2>5
<1> QED
  BY <1>1, <1>2, PTL DEF Spec

(* Type correctness of the e-mail, draft, mailbox and process state in every
   behaviour of the draft service and the commands around it. *)
THEOREM TypeCorrect == Spec => []TypeOK
BY Inductive, PTL

(* The inductive invariant: who holds which row, and that a row is called
   for only after its reservation and by one worker (createDraft). *)
THEOREM DraftInvariant == Spec => []DraftInv
BY Inductive, PTL

(* However many workers overlap and crash, the mailbox is asked at most once
   for one finalized e-mail and recipient (reserveRun before createDraft). *)
THEOREM OneDraft == Spec => []OneDraftPerFingerprint
<1>1. DraftInv => OneDraftPerFingerprint
  BY DEF DraftInv, FingerprintUnique, OneDraftPerFingerprint
<1> QED
  BY <1>1, DraftInvariant, PTL

(* A lead handed on to scheduling has a draft in the mailbox whose id is on
   record (GmailDraftService.finish). *)
THEOREM DraftedLeads == Spec => []DraftedLeadHasDraft
<1>1. DraftInv => DraftedLeadHasDraft
  BY DEF DraftInv
<1> QED
  BY <1>1, DraftInvariant, PTL

(*****************************************************************************)
(* What drafts are created of and how many: a draft is only asked for an     *)
(* e-mail a person decided on, and the throttles bound overlapping workers.  *)
(*****************************************************************************)

(***************************************************************************)
(* What e-mails and finalizations become                                   *)
(***************************************************************************)
(* A decision stays one, a finalization stays, and both arise only from
   what was there: a decision of the latest draft, a finalization of a
   validated e-mail, a validation of an approved one. *)
Evolves(l, n) ==
  /\ isDecided(l, n) => isDecided(l, n)'
  /\ isFinalized(l, n) => isFinalized(l, n)'
  /\ isDecided(l, n)' => isDecided(l, n) \/ n <= written'[l]
  /\ isFinalized(l, n)' => isFinalized(l, n) \/ <<l, n>> \in validated
  /\ <<l, n>> \in validated' => <<l, n>> \in validated \/ isDecided(l, n)

(* Steps that leave the e-mails and the finalizations alone. *)
LEMMA FrameEvolves ==
  ASSUME DecidedAreWritten, UNCHANGED <<email, written, finalized, validated>>
  PROVE  DecidedAreWritten' /\ \A l \in Leads, n \in Emails : Evolves(l, n)
BY DEF DecidedAreWritten, Evolves, isDecided, isFinalized

(* A new draft has a number nobody decided on. *)
LEMMA StoreEvolves ==
  ASSUME ApprovalTypeOK, DecidedAreWritten, NEW k, NEW status, NEW step, storeDraft(k, status, step),
         UNCHANGED <<finalized, validated>>
  PROVE  DecidedAreWritten' /\ \A l \in Leads, n \in Emails : Evolves(l, n)
<1>1. /\ written[k] < MaxEmails
      /\ written' = [written EXCEPT ![k] = @ + 1]
      /\ email' = [email EXCEPT ![k][written[k] + 1] =
                     [status |-> status, decision |-> "NONE", step |-> step]]
  BY DEF storeDraft
<1>2. ASSUME NEW l \in Leads, NEW n \in Emails
      PROVE  /\ isDecided(l, n)' <=> isDecided(l, n)
             /\ written[l] \in Nat /\ written[l] <= written'[l]
  <2>1. CASE l # k
    BY <1>1, <2>1 DEF ApprovalTypeOK, isDecided
  <2>2. CASE l = k
    <3>1. written[l] \in Nat /\ written'[l] = written[l] + 1
      BY <1>1, <2>2, ApprovalAssumption DEF ApprovalTypeOK
    <3>2. CASE n = written[l] + 1
      <4>1. ~ isDecided(l, n)
        BY <3>1, <3>2 DEF DecidedAreWritten
      <4>2. email'[l][n] = [status |-> status, decision |-> "NONE", step |-> step]
        BY <1>1, <2>2, <3>2 DEF ApprovalTypeOK
      <4> QED
        BY <3>1, <4>1, <4>2 DEF isDecided
    <3>3. CASE n # written[l] + 1
      <4>1. email'[l][n] = email[l][n]
        BY <1>1, <2>2, <3>3 DEF ApprovalTypeOK
      <4> QED
        BY <3>1, <4>1 DEF isDecided
    <3> QED
      BY <3>2, <3>3
  <2> QED
    BY <2>1, <2>2
<1>3. ASSUME NEW l \in Leads, NEW n \in Emails, isDecided(l, n)'
      PROVE  n <= written'[l]
  <2>1. n <= written[l] /\ written[l] <= written'[l] /\ written[l] \in Nat
    BY <1>2, <1>3 DEF DecidedAreWritten
  <2>2. written'[l] \in Nat
    <3>1. CASE l = k
      BY <1>1, <2>1, <3>1 DEF ApprovalTypeOK
    <3>2. CASE l # k
      BY <1>1, <2>1, <3>2 DEF ApprovalTypeOK
    <3> QED
      BY <3>1, <3>2
  <2>3. n \in Nat
    BY ApprovalAssumption DEF Emails
  <2> QED
    BY <2>1, <2>2, <2>3
<1>4. DecidedAreWritten'
  BY <1>3 DEF DecidedAreWritten, isDecided
<1> QED
  BY <1>2, <1>4 DEF Evolves, isFinalized

(* A verdict written in place leaves the decision as it is. *)
LEMMA ResumeEvolves ==
  ASSUME ApprovalTypeOK, DecidedAreWritten, NEW k, NEW m, NEW status,
         email' = [email EXCEPT ![k][m].status = status], UNCHANGED <<written, finalized, validated>>
  PROVE  DecidedAreWritten' /\ \A l \in Leads, n \in Emails : Evolves(l, n)
<1>1. ASSUME NEW l \in Leads, NEW n \in Emails
      PROVE  email'[l][n].decision = email[l][n].decision
  <2>1. email[l] \in [Emails -> Email] /\ email[l][n] \in Email
    BY StoredTypes
  <2>2. email'[l] = IF l = k THEN [email[l] EXCEPT ![m].status = status] ELSE email[l]
    BY DEF ApprovalTypeOK
  <2>3. [email[l] EXCEPT ![m].status = status][n].decision = email[l][n].decision
    BY <2>1 DEF Email
  <2> QED
    BY <2>2, <2>3
<1> QED
  BY <1>1 DEF DecidedAreWritten, Evolves, isDecided, isFinalized

(* A decision falls on the latest draft. *)
LEMMA DecideEvolves ==
  ASSUME ApprovalTypeOK, DecidedAreWritten, NEW k \in Leads, NEW d \in {"APPROVED", "REJECTED"},
         decideEmail(k, d)
  PROVE  DecidedAreWritten' /\ \A l \in Leads, n \in Emails : Evolves(l, n)
<1>1. /\ email' = [email EXCEPT ![k][written[k]].decision = d]
      /\ UNCHANGED <<written, finalized, validated>>
  BY DEF decideEmail
<1>2. ASSUME NEW l \in Leads, NEW n \in Emails
      PROVE  /\ isDecided(l, n) => isDecided(l, n)'
             /\ isDecided(l, n)' => isDecided(l, n) \/ n = written[l]
  <2>1. email[l] \in [Emails -> Email] /\ email[l][n] \in Email
    BY StoredTypes
  <2>2. email'[l] = IF l = k THEN [email[l] EXCEPT ![written[l]].decision = d] ELSE email[l]
    BY <1>1 DEF ApprovalTypeOK
  <2>3. [email[l] EXCEPT ![written[l]].decision = d][n].decision
          = IF n = written[l] THEN d ELSE email[l][n].decision
    BY <2>1 DEF Email
  <2>4. email'[l][n].decision = IF l = k /\ n = written[l] THEN d ELSE email[l][n].decision
    BY <2>2, <2>3
  <2> QED
    BY <2>4 DEF isDecided
<1>3. \A l \in Leads : written[l] \in Nat
  BY ApprovalAssumption DEF ApprovalTypeOK
<1>4. DecidedAreWritten'
  <2> SUFFICES ASSUME NEW l \in Leads, NEW n \in Emails, isDecided(l, n)' PROVE n <= written'[l]
    BY DEF DecidedAreWritten, isDecided
  <2>1. isDecided(l, n) \/ n = written[l]
    BY <1>2
  <2>2. n <= written[l]
    BY <1>3, <2>1 DEF DecidedAreWritten
  <2> QED
    BY <1>1, <2>2
<1> QED
  BY <1>1, <1>2, <1>4 DEF Evolves, isFinalized, DecidedAreWritten

(* A validation is of an approved e-mail, an insert of a validated one. *)
LEMMA FinalizeEvolves ==
  ASSUME ApprovalTypeOK, DecidedAreWritten, NEW k \in Leads, NEW m \in Emails,
         validateReplyFinalization(k, m) \/ insertReplyFinalization(k, m)
  PROVE  DecidedAreWritten' /\ \A l \in Leads, n \in Emails : Evolves(l, n)
<1>1. UNCHANGED <<email, written>>
  BY DEF validateReplyFinalization, insertReplyFinalization
<1>2. DecidedAreWritten'
  BY <1>1 DEF DecidedAreWritten, isDecided
<1>3. CASE validateReplyFinalization(k, m)
  BY <1>1, <1>2, <1>3 DEF validateReplyFinalization, Evolves, isDecided, isFinalized, DecidedAreWritten
<1>4. CASE insertReplyFinalization(k, m)
  <2>1. /\ <<k, m>> \in validated /\ validated' \subseteq validated
        /\ \/ finalized' = [finalized EXCEPT ![k] = Append(@, m)]
           \/ finalized' = finalized
    BY <1>4 DEF insertReplyFinalization
  <2>2. ASSUME NEW l \in Leads, NEW n \in Emails
        PROVE  /\ isFinalized(l, n) => isFinalized(l, n)'
               /\ isFinalized(l, n)' => isFinalized(l, n) \/ <<l, n>> \in validated
    <3>1. CASE finalized'[l] = finalized[l]
      BY <3>1 DEF isFinalized
    <3>2. CASE l = k /\ finalized'[l] = Append(finalized[l], m)
      <4>1. finalized[l] \in Seq(Emails)
        BY DEF ApprovalTypeOK
      <4>2. /\ DOMAIN Append(finalized[l], m) = 1..(Len(finalized[l]) + 1)
            /\ \A i \in DOMAIN finalized[l] : Append(finalized[l], m)[i] = finalized[l][i]
            /\ Append(finalized[l], m)[Len(finalized[l]) + 1] = m
            /\ DOMAIN finalized[l] = 1..Len(finalized[l]) /\ Len(finalized[l]) \in Nat
        BY <4>1
      <4>3. \A i \in DOMAIN Append(finalized[l], m) :
              i \in DOMAIN finalized[l] \/ i = Len(finalized[l]) + 1
        BY <4>2
      <4>4. \A i \in DOMAIN finalized[l] : i \in DOMAIN Append(finalized[l], m)
        BY <4>2
      <4> QED
        BY <2>1, <3>2, <4>2, <4>3, <4>4 DEF isFinalized
    <3>3. \/ finalized'[l] = finalized[l]
          \/ l = k /\ finalized'[l] = Append(finalized[l], m)
      BY <2>1 DEF ApprovalTypeOK
    <3> QED
      BY <3>1, <3>2, <3>3
  <2> QED
    BY <1>1, <1>2, <2>1, <2>2 DEF Evolves, isDecided, DecidedAreWritten
<1> QED
  BY <1>3, <1>4

LEMMA ApprovalEvolves ==
  ASSUME ApprovalTypeOK, DecidedAreWritten, ApprovalNext
  PROVE  DecidedAreWritten' /\ \A l \in Leads, n \in Emails : Evolves(l, n)
<1> DEFINE Goal == DecidedAreWritten' /\ \A l \in Leads, n \in Emails : Evolves(l, n)
<1>1. ASSUME NEW w \in Writers,
             \/ failPersist(w) \/ WriterGivesUp(w)
             \/ \E l \in Leads : StartWriting(w, l) \/ \E n \in Emails : StartResume(w, l, n)
      PROVE  Goal
  BY <1>1, FrameEvolves DEF failPersist, WriterGivesUp, StartWriting, StartResume
<1>2. ASSUME NEW w \in Writers, NEW s, persistDraft(w, s) PROVE Goal
  BY <1>2, StoreEvolves DEF persistDraft
<1>3. ASSUME NEW w \in Writers, NEW s, resumeCommit(w, s) PROVE Goal
  <2>1. UNCHANGED <<finalized, validated>>
    BY <1>3 DEF resumeCommit
  <2>2. CASE storeDraft(writer[w].lead, s, 0)
    BY <2>1, <2>2, StoreEvolves
  <2>3. CASE /\ email' = [email EXCEPT ![writer[w].lead][writer[w].email].status = s]
             /\ UNCHANGED written
    BY <2>1, <2>3, ResumeEvolves
  <2> QED
    BY <1>3, <2>2, <2>3 DEF resumeCommit
<1>4. ASSUME NEW l \in Leads, ShowDetail(l) \/ RequeueLead(l) \/ ReopenLead(l) PROVE Goal
  BY <1>4, FrameEvolves DEF ShowDetail, RequeueLead, ReopenLead
<1> HIDE DEF Goal
<1> QED
  BY <1>1, <1>2, <1>3, <1>4, DecideEvolves, FinalizeEvolves DEF ApprovalNext, Goal

(* Nothing else touches them. *)
LEMMA NextEvolves ==
  ASSUME TypeOK, DecidedAreWritten, [Next]_vars
  PROVE  DecidedAreWritten' /\ \A l \in Leads, n \in Emails : Evolves(l, n)
<1> DEFINE Frame == UNCHANGED <<email, written, finalized, validated>>
<1>1. CASE ApprovalNext
  BY <1>1, ApprovalEvolves DEF TypeOK
<1>2. ASSUME NEW w \in Workers, WorkerStep(w) \/ Crash(w) \/ \E l \in Leads : ListLead(w, l)
      PROVE  Frame
  BY <1>2 DEF WorkerStep, Crash, ListLead, Eligible, NotEligible, Verified, NotVerified, Reconcile,
     ReuseReserved, ParkUncertain, ReserveRefused, CallProvider, finish, terminalRetryable,
     terminalFailed, reserveRun, restOfApproval, approvalVars
<1>3. ASSUME \/ \E r \in Runs : Execute(r) \/ Refuse(r)
             \/ \E l \in Leads : SendDraft(l) \/ \E c \in Recipients : SetContactEmail(l, c)
             \/ Tick \/ UNCHANGED vars
      PROVE  Frame
  BY <1>3 DEF Execute, Refuse, SendDraft, SetContactEmail, Tick, vars, approvalVars
<1> QED
  BY <1>1, <1>2, <1>3, FrameEvolves DEF Next

(***************************************************************************)
(* What workers and rows become                                            *)
(***************************************************************************)
(* A worker passes the gate with the latest finalization of its lead, and
   keeps its lead, e-mail and start until it stops. *)
PastGate(w) == worker[w].pc \notin {"idle", "listed"}

WorkerGoesOn(w) ==
  PastGate(w)' =>
    \/ /\ PastGate(w)
       /\ worker'[w].lead = worker[w].lead /\ worker'[w].email = worker[w].email
       /\ worker'[w].startedAt = worker[w].startedAt
    \/ /\ worker[w].lead \in Leads /\ finalized[worker[w].lead] # <<>>
       /\ worker'[w].lead = worker[w].lead
       /\ worker'[w].email = latestFinalization(worker[w].lead)
       /\ worker'[w].startedAt = now

LEMMA WorkersGoOn ==
  ASSUME TypeOK, WorkerHasLead, [Next]_vars, NEW w \in Workers
  PROVE  WorkerGoesOn(w)
<1>0. worker \in [Workers -> Worker] /\ worker[w] \in Worker
  BY DEF TypeOK
<1>1. CASE worker'[w] = worker[w]
  BY <1>1 DEF WorkerGoesOn, PastGate
<1>2. ASSUME NEW v \in Workers, Stop(v) PROVE WorkerGoesOn(w)
  <2>1. worker'[w] = worker[w] \/ worker'[w] = IdleWorker
    BY <1>0, <1>2 DEF Stop
  <2> QED
    BY <1>1, <2>1 DEF WorkerGoesOn, PastGate, IdleWorker
<1>3. ASSUME NEW v \in Workers, NEW pc, GoTo(v, pc), PastGate(v) PROVE WorkerGoesOn(w)
  BY <1>0, <1>3 DEF GoTo, WorkerGoesOn, PastGate, Worker
<1>4. ASSUME NEW v \in Workers, NEW pc, NEW r, worker' = [worker EXCEPT ![v].pc = pc, ![v].run = r],
             PastGate(v)
      PROVE  WorkerGoesOn(w)
  BY <1>0, <1>4 DEF WorkerGoesOn, PastGate, Worker
<1>5. ASSUME NEW v \in Workers, Eligible(v) PROVE WorkerGoesOn(w)
  <2>1. CASE v = w
    <3>1. /\ worker[w].pc = "listed" /\ finalized[worker[w].lead] # <<>>
          /\ worker'[w].lead = worker[w].lead
          /\ worker'[w].email = latestFinalization(worker[w].lead) /\ worker'[w].startedAt = now
      BY <1>0, <1>5, <2>1 DEF Eligible, Worker
    <3> QED
      BY <3>1 DEF WorkerGoesOn, WorkerHasLead
  <2>2. CASE v # w
    BY <1>0, <1>1, <1>5, <2>2 DEF Eligible
  <2> QED
    BY <2>1, <2>2
<1>6. ASSUME NEW v \in Workers, NEW l \in Leads, ListLead(v, l) PROVE WorkerGoesOn(w)
  BY <1>0, <1>6 DEF ListLead, WorkerGoesOn, PastGate, Worker
<1>7. ASSUME NEW v \in Workers, WorkerStep(v) \/ Crash(v) PROVE WorkerGoesOn(w)
  <2>1. CASE \/ NotEligible(v) \/ NotVerified(v) \/ ReuseReserved(v) \/ ParkUncertain(v)
             \/ ReserveRefused(v) \/ finish(v) \/ terminalRetryable(v) \/ terminalFailed(v) \/ Crash(v)
    BY <1>2, <2>1 DEF NotEligible, NotVerified, ReuseReserved, ParkUncertain, ReserveRefused, finish,
       terminalRetryable, terminalFailed, Crash
  <2>2. CASE Verified(v) \/ CallProvider(v)
    BY <1>3, <2>2 DEF Verified, CallProvider, PastGate
  <2>3. CASE Reconcile(v)
    BY <1>2, <1>3, <1>4, <2>3 DEF Reconcile, PastGate
  <2>4. CASE \E r \in Runs : reserveRun(v, r)
    BY <1>4, <2>4 DEF reserveRun, PastGate
  <2> QED
    BY <1>5, <1>7, <2>1, <2>2, <2>3, <2>4 DEF WorkerStep
<1>8. CASE ~ \E v \in Workers : WorkerStep(v) \/ Crash(v) \/ \E l \in Leads : ListLead(v, l)
  BY <1>1, <1>8 DEF Next, draftVars, Execute, Refuse, SendDraft, SetContactEmail, Tick, vars
<1> QED
  BY <1>6, <1>7, <1>8

(* A row is inserted by a worker about to reserve, with what it holds, and
   keeps all but its outcome and draft id. *)
InsertedBy(w, r) ==
  /\ worker[w].pc = "reserve" /\ r \notin used
  /\ row'[r].lead = worker[w].lead /\ row'[r].email = worker[w].email
  /\ row'[r].createdAt = worker[w].startedAt
  /\ used' = used \cup {r}

RowsKept ==
  /\ used' = used
  /\ \A r \in used : /\ row'[r].lead = row[r].lead /\ row'[r].email = row[r].email
                     /\ row'[r].createdAt = row[r].createdAt

RowInserted ==
  \E w \in Workers, r \in Runs :
    /\ reserveRun(w, r) /\ InsertedBy(w, r)
    /\ \A s \in used : row'[s] = row[s]

LEMMA RowsEvolve ==
  ASSUME TypeOK, HeldRows, [Next]_vars
  PROVE  RowsKept \/ RowInserted
<1>0. row \in [Runs -> Row]
  BY DEF TypeOK
<1>1. CASE UNCHANGED row
  BY <1>1 DEF RowsKept, used
<1>2. ASSUME NEW w \in Workers, worker[w].pc \in {"reuse", "park", "waiting"},
             NEW o \in RowOutcome \ {"UNUSED"},
             \/ row' = [row EXCEPT ![worker[w].run].outcome = o]
             \/ row' = [row EXCEPT ![worker[w].run].outcome = o, ![worker[w].run].draftId = TRUE]
      PROVE  RowsKept
  <2>1. worker[w].run \in used
    BY <1>2 DEF HeldRows
  <2>2. \A r \in Runs : /\ row'[r].lead = row[r].lead /\ row'[r].email = row[r].email
                        /\ row'[r].createdAt = row[r].createdAt
                        /\ row'[r].outcome = IF r = worker[w].run THEN o ELSE row[r].outcome
    BY <1>0, <1>2 DEF Row
  <2> QED
    BY <2>1, <2>2 DEF RowsKept, used
<1>3. ASSUME NEW w \in Workers, NEW r \in Runs, reserveRun(w, r) PROVE RowInserted
  <2>1. /\ worker[w].pc = "reserve" /\ r \notin used
        /\ row'[r].outcome = "TRANSIENT_ERROR"
        /\ row'[r].lead = worker[w].lead /\ row'[r].email = worker[w].email
        /\ row'[r].createdAt = worker[w].startedAt
        /\ \A s \in Runs \ {r} : row'[s] = row[s]
    BY <1>0, <1>3 DEF reserveRun
  <2>2. used' = used \cup {r}
    BY <2>1 DEF used
  <2> QED
    BY <1>3, <2>1, <2>2 DEF RowInserted, InsertedBy, used
<1>4. ASSUME NEW w \in Workers, WorkerStep(w) PROVE RowsKept \/ RowInserted
  <2>1. CASE ReuseReserved(w) \/ ParkUncertain(w)
    <3>1. PICK o \in RowOutcome \ {"UNUSED"} : row' = [row EXCEPT ![worker[w].run].outcome = o]
      BY <2>1 DEF ReuseReserved, ParkUncertain, completeRun, RowOutcome
    <3>2. worker[w].pc \in {"reuse", "park", "waiting"}
      BY <2>1 DEF ReuseReserved, ParkUncertain
    <3> QED
      BY <1>2, <3>1, <3>2
  <2>2. CASE finish(w) \/ terminalRetryable(w) \/ terminalFailed(w)
    <3>1. PICK o \in RowOutcome \ {"UNUSED"} :
            \/ row' = [row EXCEPT ![worker[w].run].outcome = o]
            \/ row' = [row EXCEPT ![worker[w].run].outcome = o, ![worker[w].run].draftId = TRUE]
      BY <2>2 DEF finish, terminalRetryable, terminalFailed, completeRun, RowOutcome
    <3>2. worker[w].pc \in {"reuse", "park", "waiting"}
      BY <2>2 DEF finish, terminalRetryable, terminalFailed
    <3> QED
      BY <1>2, <3>1, <3>2
  <2>3. CASE \/ Eligible(w) \/ NotEligible(w) \/ Verified(w) \/ NotVerified(w) \/ Reconcile(w)
             \/ ReserveRefused(w) \/ CallProvider(w)
    BY <1>1, <2>3 DEF Eligible, NotEligible, Verified, NotVerified, Reconcile, ReserveRefused, CallProvider
  <2> QED
    BY <1>3, <1>4, <2>1, <2>2, <2>3 DEF WorkerStep
<1>5. CASE ~ \E w \in Workers : WorkerStep(w)
  BY <1>1, <1>5 DEF Next, draftVars, Crash, ListLead, Execute, Refuse, SendDraft, SetContactEmail,
     Tick, vars
<1> QED
  BY <1>4, <1>5

(***************************************************************************)
(* Only e-mails a person decided on                                        *)
(***************************************************************************)
LEMMA NextKeepsDecided ==
  ASSUME TypeOK, DraftInv, DecidedInv, [Next]_vars
  PROVE  DecidedInv'
<1>1. DecidedAreWritten' /\ \A l \in Leads, n \in Emails : Evolves(l, n)
  BY NextEvolves DEF DecidedInv
<1>2. FinalizedAreDecided'
  <2> SUFFICES ASSUME NEW l \in Leads, NEW n \in Emails,
                      <<l, n>> \in validated' \/ isFinalized(l, n)'
               PROVE  isDecided(l, n)'
    BY DEF FinalizedAreDecided, isDecided, isFinalized
  <2>1. Evolves(l, n)
    BY <1>1
  <2> QED
    BY <2>1 DEF Evolves, DecidedInv, FinalizedAreDecided
<1>3. ASSUME NEW l \in Leads, NEW n \in Emails, isFinalized(l, n) PROVE isFinalized(l, n)'
  <2>1. Evolves(l, n)
    BY <1>1
  <2> QED
    BY <1>3, <2>1 DEF Evolves
<1>4. ASSUME NEW w \in Workers, PastGate(w)'
      PROVE  WorksOnFinalized(w)'
  <2>0. WorkerGoesOn(w)
    BY WorkersGoOn DEF DraftInv
  <2>1. PICK l \in Leads, n \in Emails :
          /\ isFinalized(l, n) /\ worker'[w].lead = l /\ worker'[w].email = n
    <3>1. CASE /\ PastGate(w) /\ worker'[w].lead = worker[w].lead
               /\ worker'[w].email = worker[w].email
      BY <3>1 DEF PastGate, DecidedInv, DraftsAreFinalized, WorksOnFinalized, DraftInv, WorkerHasLead
    <3>2. CASE /\ worker[w].lead \in Leads /\ finalized[worker[w].lead] # <<>>
               /\ worker'[w].lead = worker[w].lead
               /\ worker'[w].email = latestFinalization(worker[w].lead)
      <4> DEFINE k == worker[w].lead
      <4>1. finalized[k] \in Seq(Emails) /\ finalized[k] # <<>>
        BY <3>2 DEF TypeOK, ApprovalTypeOK
      <4>2. /\ Len(finalized[k]) \in DOMAIN finalized[k]
            /\ finalized[k][Len(finalized[k])] \in Emails
        BY <4>1
      <4>3. isFinalized(k, latestFinalization(k)) /\ latestFinalization(k) \in Emails
        BY <4>2 DEF isFinalized, latestFinalization
      <4> QED
        BY <3>2, <4>3
    <3> QED
      BY <1>4, <2>0, <3>1, <3>2 DEF WorkerGoesOn
  <2>2. isFinalized(l, n)'
    BY <1>3, <2>1
  <2> QED
    BY <2>1, <2>2 DEF WorksOnFinalized, isFinalized
<1>5. ASSUME NEW r \in used' PROVE IsOfFinalized(r)'
  <2>1. PICK l \in Leads, n \in Emails :
          /\ isFinalized(l, n) /\ row'[r].lead = l /\ row'[r].email = n
    <3>1. CASE r \in used /\ row'[r].lead = row[r].lead /\ row'[r].email = row[r].email
      BY <3>1 DEF DecidedInv, DraftsAreFinalized, IsOfFinalized
    <3>2. CASE \E w \in Workers : InsertedBy(w, r)
      BY <3>2 DEF InsertedBy, DecidedInv, DraftsAreFinalized, WorksOnFinalized, DraftInv, WorkerHasLead
    <3>3. CASE RowsKept
      BY <1>5, <3>1, <3>3 DEF RowsKept
    <3>4. CASE RowInserted
      <4>1. PICK w \in Workers, s \in Runs : InsertedBy(w, s) /\ \A q \in used : row'[q] = row[q]
        BY <3>4 DEF RowInserted
      <4>2. r = s \/ r \in used
        BY <1>5, <4>1 DEF InsertedBy
      <4> QED
        BY <3>1, <3>2, <4>1, <4>2
    <3> QED
      BY <3>3, <3>4, RowsEvolve DEF DraftInv
  <2>2. isFinalized(l, n)'
    BY <1>3, <2>1
  <2> QED
    BY <2>1, <2>2 DEF IsOfFinalized, isFinalized
<1>6. DraftsAreFinalized'
  BY <1>4, <1>5 DEF DraftsAreFinalized, PastGate
<1> QED
  BY <1>1, <1>2, <1>6 DEF DecidedInv

(* The inductive invariant: who works on what was finalized, and that a
   finalization stands for a decision (validateReplyFinalization). *)
THEOREM DecidedInvariant == Spec => []DecidedInv
<1>1. Init => DecidedInv
  <2> SUFFICES ASSUME Init PROVE DecidedInv
    OBVIOUS
  <2>1. \A l \in Leads, n \in Emails : ~ isDecided(l, n) /\ ~ isFinalized(l, n)
    BY DEF Init, ApprovalInit, UnusedEmail, isDecided, isFinalized
  <2>2. used = {} /\ \A w \in Workers : worker[w].pc = "idle"
    BY DEF Init, used, UnusedRow, IdleWorker
  <2>3. validated = {}
    BY DEF Init, ApprovalInit
  <2> QED
    BY <2>1, <2>2, <2>3 DEF DecidedInv, DecidedAreWritten, FinalizedAreDecided, DraftsAreFinalized
<1>2. TypeOK /\ DraftInv /\ DecidedInv /\ [Next]_vars => DecidedInv'
  BY NextKeepsDecided
<1> QED
  BY <1>1, <1>2, TypeCorrect, DraftInvariant, PTL DEF Spec

(* The mailbox is only asked for a draft of an e-mail finalized for the
   lead and decided on by a person (checkGmailEligibility, reserveRun). *)
THEOREM OnlyDecidedEmails == Spec => DraftsOnlyDecidedEmails
<1> DEFINE Asked == \A r \in Runs : request[r] = "none" /\ request'[r] = "pending" =>
                      /\ isFinalized(row[r].lead, row[r].email)
                      /\ isDecided(row[r].lead, row[r].email)
<1>1. ASSUME TypeOK, DraftInv, DecidedInv, [Next]_vars
      PROVE  Asked
  <2> SUFFICES ASSUME NEW r \in Runs, request[r] = "none", request'[r] = "pending"
               PROVE  isFinalized(row[r].lead, row[r].email) /\ isDecided(row[r].lead, row[r].email)
    OBVIOUS
  <2>1. \E w \in Workers : worker[w].pc = "call" /\ worker[w].run = r
    <3>1. CASE \E w \in Workers : CallProvider(w)
      BY <3>1 DEF CallProvider, TypeOK
    <3>2. CASE \E w \in Workers : WorkerStep(w) /\ ~ CallProvider(w)
      BY <3>2 DEF WorkerStep, Eligible, NotEligible, Verified, NotVerified, Reconcile, ReuseReserved,
         ParkUncertain, ReserveRefused, finish, terminalRetryable, terminalFailed, reserveRun
    <3>3. CASE ~ \E w \in Workers : WorkerStep(w)
      BY <1>1, <3>3 DEF Next, draftVars, Crash, ListLead, Execute, Refuse, SendDraft, SetContactEmail,
         Tick, vars, TypeOK
    <3> QED
      BY <3>1, <3>2, <3>3
  <2>2. r \in used
    BY <1>1, <2>1 DEF DraftInv, HeldRows
  <2> QED
    BY <1>1, <2>2 DEF DecidedInv, DraftsAreFinalized, IsOfFinalized, FinalizedAreDecided
<1>2. TypeOK /\ DraftInv /\ DecidedInv /\ [Next]_vars => Asked
  BY <1>1
<1> QED
  BY <1>2, TypeCorrect, DraftInvariant, DecidedInvariant, PTL DEF Spec, DraftsOnlyDecidedEmails

(***************************************************************************)
(* The throttles                                                           *)
(***************************************************************************)
(* A worker comes to the insert only through the throttles. *)
LEMMA ReserveWasAllowed ==
  ASSUME TypeOK, [Next]_vars, NEW w \in Workers, worker'[w].pc = "reserve"
  PROVE  \/ worker'[w] = worker[w]
         \/ /\ worker[w].pc = "reconcile" /\ worker'[w].startedAt = worker[w].startedAt
            /\ ~ throttled(worker[w].startedAt) /\ UNCHANGED row
<1>0. worker \in [Workers -> Worker] /\ worker[w] \in Worker
  BY DEF TypeOK
<1>1. CASE worker'[w] = worker[w]
  BY <1>1
<1>2. ASSUME NEW v \in Workers, Stop(v) PROVE worker'[w] = worker[w]
  BY <1>0, <1>2 DEF Stop, IdleWorker
<1>3. ASSUME NEW v \in Workers,
             \/ \E l \in Leads : ListLead(v, l)
             \/ Eligible(v) \/ Verified(v) \/ CallProvider(v) \/ \E r \in Runs : reserveRun(v, r)
      PROVE  worker'[w] = worker[w]
  BY <1>0, <1>3 DEF ListLead, Eligible, Verified, CallProvider, reserveRun, GoTo, Worker
<1>4. ASSUME NEW v \in Workers,
             \/ NotEligible(v) \/ NotVerified(v) \/ ReuseReserved(v) \/ ParkUncertain(v)
             \/ ReserveRefused(v) \/ finish(v) \/ terminalRetryable(v) \/ terminalFailed(v) \/ Crash(v)
      PROVE  worker'[w] = worker[w]
  BY <1>2, <1>4 DEF NotEligible, NotVerified, ReuseReserved, ParkUncertain, ReserveRefused, finish,
     terminalRetryable, terminalFailed, Crash
<1>5. ASSUME NEW v \in Workers, Reconcile(v)
      PROVE  \/ worker'[w] = worker[w]
             \/ /\ worker[w].pc = "reconcile" /\ worker'[w].startedAt = worker[w].startedAt
                /\ ~ throttled(worker[w].startedAt) /\ UNCHANGED row
  <2>1. CASE v = w
    <3>1. CASE Stop(w)
      BY <1>0, <3>1, <2>1, <1>2
    <3>2. CASE \E r \in Runs : worker' = [worker EXCEPT ![w].pc = IF row[r].draftId THEN "reuse" ELSE "park",
                                                      ![w].run = r]
      BY <1>0, <3>2 DEF Worker
    <3>3. CASE ~ throttled(worker[w].startedAt) /\ GoTo(w, "reserve")
      BY <1>0, <1>5, <2>1, <3>3 DEF Reconcile, GoTo, Worker
    <3> QED
      BY <1>5, <2>1, <3>1, <3>2, <3>3 DEF Reconcile, findReservedByFingerprint, sameFingerprint, used
  <2>2. CASE v # w
    BY <1>0, <1>5, <2>2 DEF Reconcile, Stop, GoTo
  <2> QED
    BY <2>1, <2>2
<1>6. CASE ~ \E v \in Workers : WorkerStep(v) \/ Crash(v) \/ \E l \in Leads : ListLead(v, l)
  BY <1>1, <1>6 DEF Next, draftVars, Execute, Refuse, SendDraft, SetContactEmail, Tick, vars
<1> QED
  BY <1>1, <1>3, <1>4, <1>5, <1>6 DEF WorkerStep

(* Every tick is of one day only. *)
LEMMA DayOfTick ==
  ASSUME NEW t \in Nat, NEW d \in Nat
  PROVE  /\ Day(t) \in Nat
         /\ Day(t) * DayLength <= t /\ t < Day(t) * DayLength + DayLength
         /\ d * DayLength <= t /\ t < d * DayLength + DayLength => d = Day(t)
<1>1. Day(t) \in Nat /\ Day(t) * DayLength <= t /\ t < Day(t) * DayLength + DayLength
  BY DraftAssumption DEF Day
<1>2. ASSUME d * DayLength <= t, t < d * DayLength + DayLength PROVE d = Day(t)
  <2>1. ASSUME NEW i \in Nat, NEW j \in Nat, i < j PROVE i * DayLength + DayLength <= j * DayLength
    <3>1. i + 1 <= j
      BY <2>1
    <3>2. (i + 1) * DayLength <= j * DayLength
      BY <3>1, DraftAssumption
    <3> QED
      BY <3>2, DraftAssumption
  <2>2. PICK e \in Nat, low \in Nat, other \in Nat : e = Day(t) /\ low = d * DayLength /\ other = e * DayLength
    BY <1>1, DraftAssumption
  <2>3. /\ d < e => low + DayLength <= other
        /\ e < d => other + DayLength <= low
    BY <2>1, <2>2
  <2>4. low <= t /\ t < low + DayLength /\ other <= t /\ t < other + DayLength
    BY <1>1, <1>2, <2>2
  <2>5. ~ d < e /\ ~ e < d
    BY <2>3, <2>4, DraftAssumption
  <2> QED
    BY <2>2, <2>5
<1> QED
  BY <1>1, <1>2

(* Rows and workers can be counted. *)
LEMMA CountsAreNumbers ==
  ASSUME IsFiniteSet(Workers), FinitelyManyDrafts, NEW t, NEW n
  PROVE  /\ IsFiniteSet(createdWithin(t, n)) /\ Cardinality(createdWithin(t, n)) \in Nat
         /\ IsFiniteSet(aboutToReserve(t, n)) /\ Cardinality(aboutToReserve(t, n)) \in Nat
         /\ Cardinality(aboutToReserve(t, n)) <= Cardinality(Workers) /\ Cardinality(Workers) \in Nat
<1>1. createdWithin(t, n) \in SUBSET used /\ aboutToReserve(t, n) \in SUBSET Workers
  BY DEF createdWithin, aboutToReserve
<1> QED
  BY <1>1, FS_Subset, FS_CardinalityType DEF FinitelyManyDrafts

(* What the throttles let through leaves room for a row of every worker, on the
   day of the start and in every interval around it. *)
LEMMA AllowedLeavesRoom ==
  ASSUME IsFiniteSet(Workers), TypeOK, FinitelyManyDrafts, NEW u \in Nat, ~ throttled(u), NEW t \in Nat
  PROVE  /\ t * DayLength <= u /\ u < t * DayLength + DayLength =>
              Cardinality(createdWithin(t * DayLength, DayLength)) <= MaxPerDay - 1
         /\ t <= u /\ u < t + MinInterval => Cardinality(createdWithin(t, MinInterval)) = 0
<1>0. \A r \in used : row[r].createdAt \in Nat
  BY DEF TypeOK, Row, used
<1>1. ASSUME t * DayLength <= u, u < t * DayLength + DayLength
      PROVE  Cardinality(createdWithin(t * DayLength, DayLength)) <= MaxPerDay - 1
  <2> DEFINE counted == {r \in used : row[r].createdAt >= Day(u) * DayLength}
  <2>1. t = Day(u)
    BY <1>1, DayOfTick
  <2>2. createdWithin(t * DayLength, DayLength) \in SUBSET counted
    BY <1>0, <2>1, DraftAssumption DEF createdWithin
  <2>3. IsFiniteSet(counted) /\ Cardinality(counted) \in Nat
    BY FS_Subset, FS_CardinalityType DEF FinitelyManyDrafts
  <2>4. Cardinality(createdWithin(t * DayLength, DayLength)) <= Cardinality(counted)
    BY <2>2, <2>3, FS_Subset
  <2>5. ~ Cardinality(counted) >= MaxPerDay
    BY DEF throttled, draftsToday
  <2>6. Cardinality(createdWithin(t * DayLength, DayLength)) \in Nat
    BY CountsAreNumbers
  <2> HIDE DEF counted
  <2> QED
    BY <2>3, <2>4, <2>5, <2>6, DraftAssumption
<1>2. ASSUME t <= u, u < t + MinInterval PROVE Cardinality(createdWithin(t, MinInterval)) = 0
  <2>1. \A r \in used : ~ u < row[r].createdAt + MinInterval
    BY DEF throttled
  <2>2. createdWithin(t, MinInterval) = {}
    BY <1>0, <1>2, <2>1, DraftAssumption DEF createdWithin
  <2> QED
    BY <2>2, FS_EmptySet
<1> QED
  BY <1>1, <1>2

(* A bound on the rows of some ticks and the workers let through for them holds on if
   the throttles leave room for all the workers under it: an insert turns a worker
   let through into a row, and nothing but the throttles lets one through. *)
LEMMA StepKeepsBound ==
  ASSUME IsFiniteSet(Workers), TypeOK, DraftInv, FinitelyManyDrafts, [Next]_vars,
         NEW t \in Nat, NEW n \in Nat, NEW most \in Int,
         Cardinality(createdWithin(t, n)) + Cardinality(aboutToReserve(t, n)) <= most,
         \A u \in Nat : t <= u /\ u < t + n /\ ~ throttled(u) =>
                        Cardinality(createdWithin(t, n)) + Cardinality(Workers) <= most
  PROVE  /\ FinitelyManyDrafts'
         /\ Cardinality(createdWithin(t, n)') + Cardinality(aboutToReserve(t, n)') <= most
<1>0. RowsKept \/ RowInserted
  BY RowsEvolve DEF DraftInv
<1>1. FinitelyManyDrafts'
  BY <1>0, FS_AddElement DEF RowsKept, RowInserted, InsertedBy, FinitelyManyDrafts
<1>2. \A w \in Workers : worker[w].startedAt \in Nat
  BY DEF TypeOK, Worker
<1>3. /\ aboutToReserve(t, n)' \in SUBSET Workers /\ IsFiniteSet(aboutToReserve(t, n)')
      /\ Cardinality(aboutToReserve(t, n)') \in Nat /\ Cardinality(aboutToReserve(t, n)') <= Cardinality(Workers)
  <2>1. aboutToReserve(t, n)' \in SUBSET Workers
    BY DEF aboutToReserve
  <2> QED
    BY <2>1, FS_Subset, FS_CardinalityType
<1>4. CASE RowsKept
  <2>1. createdWithin(t, n)' = createdWithin(t, n)
    BY <1>4 DEF RowsKept, createdWithin
  <2>2. CASE aboutToReserve(t, n)' \subseteq aboutToReserve(t, n)
    <3>1. Cardinality(aboutToReserve(t, n)') <= Cardinality(aboutToReserve(t, n))
      BY <2>2, CountsAreNumbers, FS_Subset
    <3> QED
      BY <1>1, <1>3, <2>1, <3>1, CountsAreNumbers
  <2>3. ASSUME NEW w \in aboutToReserve(t, n)', w \notin aboutToReserve(t, n)
        PROVE  Cardinality(createdWithin(t, n)) + Cardinality(Workers) <= most
    <3>1. /\ w \in Workers /\ worker'[w].pc = "reserve"
          /\ t <= worker'[w].startedAt /\ worker'[w].startedAt < t + n
      BY <2>3 DEF aboutToReserve
    <3>2. worker'[w] # worker[w]
      BY <2>3, <3>1 DEF aboutToReserve
    <3>3. worker'[w].startedAt = worker[w].startedAt /\ ~ throttled(worker[w].startedAt)
      BY <3>1, <3>2, ReserveWasAllowed
    <3> QED
      BY <1>2, <3>1, <3>3
  <2>4. CASE ~ aboutToReserve(t, n)' \subseteq aboutToReserve(t, n)
    <3>1. Cardinality(createdWithin(t, n)) + Cardinality(Workers) <= most
      BY <2>3, <2>4
    <3> QED
      BY <1>1, <1>3, <2>1, <3>1, CountsAreNumbers
  <2> QED
    BY <2>2, <2>4
<1>5. CASE RowInserted
  <2>1. PICK w \in Workers, q \in Runs :
          reserveRun(w, q) /\ InsertedBy(w, q) /\ \A s \in used : row'[s] = row[s]
    BY <1>5 DEF RowInserted
  <2>2. /\ worker[w].pc = "reserve" /\ row'[q].createdAt = worker[w].startedAt
        /\ q \notin used /\ used' = used \cup {q} /\ worker'[w].pc = "call"
        /\ \A v \in Workers \ {w} : worker'[v] = worker[v]
    BY <2>1 DEF InsertedBy, reserveRun, TypeOK, Worker
  <2>3. aboutToReserve(t, n)' = aboutToReserve(t, n) \ {w}
    BY <2>2 DEF aboutToReserve
  <2>4. CASE t <= worker[w].startedAt /\ worker[w].startedAt < t + n
    <3>1. w \in aboutToReserve(t, n)
      BY <2>2, <2>4 DEF aboutToReserve
    <3>2. Cardinality(aboutToReserve(t, n)') = Cardinality(aboutToReserve(t, n)) - 1
      BY <2>3, <3>1, CountsAreNumbers, FS_RemoveElement
    <3>3. createdWithin(t, n)' = createdWithin(t, n) \cup {q} /\ q \notin createdWithin(t, n)
      BY <2>1, <2>2, <2>4 DEF createdWithin
    <3>4. Cardinality(createdWithin(t, n)') = Cardinality(createdWithin(t, n)) + 1
      BY <3>3, CountsAreNumbers, FS_AddElement
    <3> QED
      BY <1>1, <3>2, <3>4, CountsAreNumbers
  <2>5. CASE ~ (t <= worker[w].startedAt /\ worker[w].startedAt < t + n)
    <3>1. createdWithin(t, n)' = createdWithin(t, n)
      BY <2>1, <2>2, <2>5 DEF createdWithin
    <3>2. Cardinality(aboutToReserve(t, n)') <= Cardinality(aboutToReserve(t, n))
      BY <2>3, CountsAreNumbers, FS_Subset
    <3> QED
      BY <1>1, <1>3, <3>1, <3>2, CountsAreNumbers
  <2> QED
    BY <2>4, <2>5
<1> QED
  BY <1>0, <1>4, <1>5

LEMMA NextKeepsBudget ==
  ASSUME IsFiniteSet(Workers), TypeOK, DraftInv, BudgetInv, [Next]_vars
  PROVE  BudgetInv'
<1>0. FinitelyManyDrafts /\ Cardinality(Workers) \in Nat
  BY FS_CardinalityType DEF BudgetInv
<1>1. ASSUME NEW d \in Nat
      PROVE  /\ FinitelyManyDrafts'
             /\ Cardinality(createdWithin(d * DayLength, DayLength)')
                  + Cardinality(aboutToReserve(d * DayLength, DayLength)') <= MaxPerDay + Cardinality(Workers) - 1
  <2>0. d * DayLength \in Nat /\ MaxPerDay + Cardinality(Workers) - 1 \in Int
    BY <1>0, DraftAssumption
  <2>1. PICK t \in Nat, most \in Int : t = d * DayLength /\ most = MaxPerDay + Cardinality(Workers) - 1
    BY <2>0
  <2>2. Cardinality(createdWithin(t, DayLength)) + Cardinality(aboutToReserve(t, DayLength)) <= most
    BY <2>1 DEF BudgetInv, BudgetsWithWorkers
  <2>3. \A u \in Nat : t <= u /\ u < t + DayLength /\ ~ throttled(u) =>
          Cardinality(createdWithin(t, DayLength)) + Cardinality(Workers) <= most
    <3> SUFFICES ASSUME NEW u \in Nat, t <= u, u < t + DayLength, ~ throttled(u)
                 PROVE  Cardinality(createdWithin(t, DayLength)) + Cardinality(Workers) <= most
      OBVIOUS
    <3>1. Cardinality(createdWithin(t, DayLength)) <= MaxPerDay - 1
      BY <1>0, <2>1, AllowedLeavesRoom
    <3>2. Cardinality(createdWithin(t, DayLength)) \in Nat
      BY <1>0, CountsAreNumbers
    <3> QED
      BY <1>0, <2>1, <3>1, <3>2, DraftAssumption
  <2> QED
    BY <1>0, <2>1, <2>2, <2>3, StepKeepsBound, DraftAssumption
<1>2. ASSUME NEW t \in Nat
      PROVE  Cardinality(createdWithin(t, MinInterval)') + Cardinality(aboutToReserve(t, MinInterval)')
               <= Cardinality(Workers)
  <2>1. Cardinality(createdWithin(t, MinInterval)) + Cardinality(aboutToReserve(t, MinInterval))
          <= Cardinality(Workers)
    BY DEF BudgetInv, BudgetsWithWorkers
  <2>2. \A u \in Nat : t <= u /\ u < t + MinInterval /\ ~ throttled(u) =>
          Cardinality(createdWithin(t, MinInterval)) + Cardinality(Workers) <= Cardinality(Workers)
    BY <1>0, AllowedLeavesRoom, CountsAreNumbers, DraftAssumption
  <2> QED
    BY <1>0, <2>1, <2>2, StepKeepsBound, DraftAssumption
<1> QED
  BY <1>1, <1>2 DEF BudgetInv, BudgetsWithWorkers, createdWithin, aboutToReserve

(* However many workers overlap, the rows of a day pass the limit by one for each worker
   but the first at most, and those of an interval are never more than the workers
   (createDraft reads both throttles before the insert). *)
THEOREM WithinBudget ==
  ASSUME IsFiniteSet(Workers)
  PROVE  Spec => []DraftsWithinBudget
<1>0. Cardinality(Workers) \in Nat
  BY FS_CardinalityType
<1>1. Init => BudgetInv
  <2> SUFFICES ASSUME Init PROVE BudgetInv
    OBVIOUS
  <2>1. used = {} /\ \A w \in Workers : worker[w].pc = "idle"
    BY DEF Init, used, UnusedRow, IdleWorker
  <2>2. \A t, n : createdWithin(t, n) = {} /\ aboutToReserve(t, n) = {}
    BY <2>1 DEF createdWithin, aboutToReserve
  <2>3. IsFiniteSet({}) /\ Cardinality({}) = 0
    BY FS_EmptySet
  <2>4. 0 + 0 <= MaxPerDay + Cardinality(Workers) - 1 /\ 0 + 0 <= Cardinality(Workers)
    BY <1>0, DraftAssumption
  <2>5. BudgetsWithWorkers
    BY <2>2, <2>3, <2>4, Zenon DEF BudgetsWithWorkers
  <2> QED
    BY <2>1, <2>3, <2>5 DEF BudgetInv, FinitelyManyDrafts
<1>2. TypeOK /\ DraftInv /\ BudgetInv /\ [Next]_vars => BudgetInv'
  BY NextKeepsBudget
<1>3. TypeOK /\ BudgetInv => DraftsWithinBudget
  <2> SUFFICES ASSUME TypeOK, BudgetInv, NEW r \in used
               PROVE  /\ Cardinality(createdWithin(Day(row[r].createdAt) * DayLength, DayLength))
                           <= MaxPerDay + Cardinality(Workers) - 1
                      /\ Cardinality(createdWithin(row[r].createdAt, MinInterval)) <= Cardinality(Workers)
    BY DEF DraftsWithinBudget
  <2>1. PICK t \in Nat : t = row[r].createdAt
    BY DEF TypeOK, Row, used
  <2>2. Day(t) \in Nat
    BY DayOfTick
  <2>3. FinitelyManyDrafts
    BY DEF BudgetInv
  <2>4. Cardinality(createdWithin(Day(t) * DayLength, DayLength))
          + Cardinality(aboutToReserve(Day(t) * DayLength, DayLength)) <= MaxPerDay + Cardinality(Workers) - 1
    BY <2>2 DEF BudgetInv, BudgetsWithWorkers
  <2>5. Cardinality(createdWithin(t, MinInterval)) + Cardinality(aboutToReserve(t, MinInterval))
          <= Cardinality(Workers)
    BY DEF BudgetInv, BudgetsWithWorkers
  <2>6. /\ Cardinality(createdWithin(Day(t) * DayLength, DayLength)) \in Nat
        /\ Cardinality(aboutToReserve(Day(t) * DayLength, DayLength)) \in Nat
        /\ Cardinality(createdWithin(t, MinInterval)) \in Nat
        /\ Cardinality(aboutToReserve(t, MinInterval)) \in Nat
    BY <2>3, CountsAreNumbers
  <2> QED
    BY <1>0, <2>1, <2>4, <2>5, <2>6, DraftAssumption
<1> QED
  BY <1>1, <1>2, <1>3, TypeCorrect, DraftInvariant, PTL DEF Spec

==================================================
