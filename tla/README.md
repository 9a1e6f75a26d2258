# Formal model of the automation suite

The repository is a CLI-first outreach pipeline over one Postgres database: leads are collected,
deduplicated, qualified, enriched, captured, audited by a model, given a demo and an e-mail, approved
by a person, turned into a Gmail draft, scheduled, sent under explicit control and followed up. Several
processes run at the same time: systemd timers (`run-scheduled-sends`, follow-up automation, reply sync)
and the operator's commands and dashboard. They share nothing but the database and the external
providers, so the interesting behaviour is what happens when their transactions interleave, when a
process dies between two of them, and when a provider's answer is lost or late.

This project models the pipeline from the collection of a lead to the last follow-up, with the parts an
operator drives by hand beside it. What the models write, what a page shows and what a provider answers
are choices; what the program does with them, in every order its processes may act in, is the subject.

## Inventory

| Component (under `src/src`) | State | Operations | Interacts with | Hard behaviour | Correct when |
|---|---|---|---|---|---|
| Controlled send (`domain/send`) | `send_attempts`, `sending_readiness_approvals` | preflight, confirm, send, recover, reconcile | schedules, leads, Gmail | crash between commit and call, lost answers, two senders | a schedule is delivered at most once; nothing delivered is forgotten |
| Scheduling (`domain/schedule`) | `send_schedules` | schedule, cancel, reschedule, slot computation | Gmail drafts, leads, send | commands racing a send; DST, quotas | a SCHEDULED lead has an active schedule; slots lie in working hours |
| Suppression (`domain/suppression`) | `suppression_list` | add, revoke, lookup | qualification, send | lookups that are stale | a suppressed recipient is not contacted |
| Gmail drafts (`domain/gmail`) | `gmail_drafts`, the mailbox | list, gate, verify, reserve, create | finalized e-mails, leads, contact facts | two workers, lost answers, retries | one draft per finalized e-mail and recipient; only approved copy |
| E-mail writing and AI review (`domain/email`) | `email_drafts`, `model_calls` | write, review, resume, operator e-mail | audit findings, leads, models | overlapping runs, failing model calls, budgets | one live draft per step; routing matches the stored draft |
| Human review (`domain/review`, `dashboard`) | decisions on demos, e-mails, finalized e-mails | show, approve, reject | leads, e-mails, demos | a page that is stale when posted | the decision falls on what was shown |
| Reply finalization (`domain/email/reply-finalization.ts`) | `email_draft_finalizations` | validate, insert | Gmail gate | read and insert in two transactions | only approved drafts are finalized, once |
| Demo deployment (`domain/deploy`) | `deployment_runs`, finalizations, Netlify | reserve, upload, poll, verify, finalize, second approval | demos, e-mails, leads | lost answers, reuse of an earlier deploy | the URL in the e-mail is verified and serves the approved artifact |
| Outreach tracking (`domain/outreach/outreach-service.ts`) | `outreach_records`, `outreach_messages` | track, enrol a confirmed send, apply reply, apply bounce, correct | send, follow-ups, sheet | replies and bounces racing enrolment | the record agrees with what was sent; an interrupt stops the sequence |
| Follow-up automation (`domain/outreach/followup*`) | `outreach_followups` | schedule, promote, prepare, progress, cancel, postpone | e-mail writing, Gmail drafts, scheduling | timers overlapping, starvation | at most one live follow-up per step; none after a reply |
| Reply sync, delivery reconciliation | sync cursors, `outreach_messages` | poll, classify, apply | Gmail, outreach | duplicates, reordering | each message is applied once |
| Sheet sync, smoke send | the sheet, run rows | upsert, test send | outreach, send | lost answers | a row per record; a test send reaches the test address only |
| Scheduled-send runner | `scheduled_send_authorizations` | authorize, revoke, run | send, outreach | stale capacity, two runners | never more than the cap or outside the window |
| Lead lifecycle (`domain/leads`) | `leads.status` | transition, reopen, requeue | everything | unconditional write after a read | only legal edges are taken |
| Collection and deduplication (`pipeline/collect-leads.ts`, `domain/leads/dedup.ts`) | `leads`, sources | collect, match, merge | lead sources | two collectors | one lead per business |
| Qualification, enrichment, capture, audit | run rows, facts, findings | run per lead, route | providers, models | partial failure, envelope recovery, budgets | a lead is routed by the run that was stored |
| Prospecting (`domain/prospect`) | runs, candidates, the location cache | search, take candidates one by one | paid providers, collection | circuit breaker, call limits, a run that died | the limits hold; a lead belongs to one run |
| Contact resolution, decision makers | `contact_resolutions`, two files | crawl, ask a model, look up, supersede | paid providers | budget at its limit, files and crash, two batches | a personal address is that person's and is not given up; nothing is paid twice |
| Operator findings (`domain/deterministic-finding`) | findings, operator e-mails | approve a finding, store an e-mail | captures, audits, leads | reads before the transaction | an e-mail rests on a finding that holds |
| Demo V2 (`domain/demo-v2`) | artifacts, versions, packages, reviews, approvals | export evidence, render, review, revise, approve | captures | shared output directories, withdrawn evidence, spend limit | a page shows current evidence; the approved page is the one that was seen |
| Competitor research (`domain/competitor`) | runs, captures, patterns, packages | select, capture, derive, approve, compose | captures, e-mails | approval beside a withdrawal | an enriched e-mail rests on approved, valid evidence |
| Exports, rendering, configuration | files | write | | none beyond file writes | out of scope |

`PROJECT.json` lists every component with what is modelled of it and why the rest is not, and every
hazard at its line with the properties that would catch it.

## Modules

| Module | Models | Builds on |
|---|---|---|
| `ControlledSend` | scheduling commands, senders, readiness, recovery, reconciliation, suppression, Gmail's `drafts.send` | instantiates `SendOnce` |
| `SendOnce` | what controlled sending promises of a schedule | |
| `EmailApproval` | writer runs, resumed reviews, the dashboard decision, reply finalization, requeue and reopen | |
| `GmailDraft` | the draft service, `drafts.create`, the throttles | `EmailApproval` |
| `Outreach` | records, enrolment, replies, bounces, follow-ups, operators' corrections | instantiates `StepSequence` |
| `StepSequence` | what a contact may ever see of a sequence | |
| `LeadPipeline` | leads, statuses, sessions, a transaction as a reading and a writing step | |
| `Intake` | qualification, enrichment, verification, capture, reject and reopen | `LeadPipeline` |
| `Audit` | the paid audit, its budget, its recovery envelope, repair, requeue | `LeadPipeline` |
| `DemoDeploy` | demos, their review, Netlify, verification, finalized e-mails, second approval | `LeadPipeline` |
| `DemoPage`, `RenderStore`, `ReviewLoop` | Demo V2: the page from its evidence; versions, packages and approvals; reviews, revisions and their cost | |
| `CompetitorSelection`, `CompetitorEvidence`, `EnrichedEmail` | the choice of competitors; captures, patterns and packages; the e-mail composed from them | |
| `ContactResolve` | the paid search for a person, the published inbox, batches | |
| `WebsiteEvidence`, `DecisionMakers` | the crawl of a practice's site; the discovery of people and its two files | the second on the first |
| `SmokeSend`, `DeliveryNotices`, `SheetMirror` | the controlled test send; delivery failures in a mailbox; the Google Sheet | |
| `EmailRules`, `EmailSessions` | the deterministic rules of a copy; the paid writing and review sessions | the second on the first |
| `OperatorFindings` | deterministic findings and operator e-mails | |
| `Collection`, `Prospecting` | candidates become leads; prospect runs | the second on the first |
| `MCControlledSend`, `MCSendRace`, `MCGmailDraft`, `MCOutreach`, `MCPipeline`, `MCDemo`, `MCBack`, `MCDesk` | instances for TLC | |
| `ControlledSendProofs`, `GmailDraftProofs`, `OutreachProofs`, `IntakeProofs`, `AuditProofs`, `DemoDeployProofs` | theorems | the module each is named for |
| `BackProofs`, `DeskProofs` | theorems | `CompetitorEvidence`, `RenderStore` and `ContactResolve`; `SmokeSend` and `OperatorFindings` |

`MCPipeline`, `MCBack` and `MCDesk` put components that share no state side by side. A variable `part`
names the one a behaviour exercises while the others rest in an initial state, so the states of one run
are the sum, not the product, of the parts'.

### How the state corresponds to the code

A variable is a table (a function from row ids to records holding the columns the properties need), a
provider's state, the clock, or the local state of the processes of one kind. A process is a record
with a program counter; what it read earlier and uses later is a field of that record, so stale values
are stale in the model too.

*Transactions.* PostgreSQL runs at READ COMMITTED and almost nothing is locked when it is read;
`LeadService.transition` reads the status and then writes it by id. In `Intake`, `Audit`, `DemoDeploy`
and `Outreach` a transaction is therefore a step that reads and decides and a later step that writes
whatever the row has become. In `ControlledSend`, `EmailApproval` and `GmailDraft` a transaction is one
step. That is sound there: each service moves a lead as "if the status is X then write Y", so when two
transactions overlap and one write is lost the result is that of one of the two serial orders, and the
transactions that also write a schedule or an attempt are ordered by that row's lock and by the unique
indexes. Between two transactions, or around a provider call, every other process may act and the
process may die (`Crash`, `OperatorFails`, `WriterGivesUp`, the crash events of each module).

*Provider calls.* A call is issued (`pending`), and Gmail then carries it out (`Execute`) or refuses it
(`Refuse`) at any later time, or never. The caller's answer is independent: it may see the success, the
refusal, or nothing (timeout, 5xx, malformed body: `finishUnknown`, `terminalRetryable`) whether or not
the call is carried out, even after it gave up. Nothing in the request makes Gmail refuse a repetition
of `drafts.create`. For `drafts.send` the model assumes what `getKnownDraft` relies on: sending a draft
consumes it. Netlify may publish an upload whose answer was lost.

*Fixed or abstracted.* One account and one policy; feature switches on. Bodies, envelopes and hashes are
identified with what they belong to, so a tampered body is not modelled. A fingerprint is the triple it
hashes. The slot a schedule gets is any allowed instant. A reconciling operator's evidence is truthful
(`cannotDeliver`). Ties between readiness rows of the same instant are ignored. In `EmailApproval`
e-mails have a reply call-to-action (those that wait for a demo URL belong to `DemoDeploy`),
`OPPORTUNITY_READY` stands for the three states a first e-mail is written in, `RequeueLead` for the
requeue and the audit that follows it, and a model call for its verdict. `GmailDraft!SendDraft` stands
for the whole of `ControlledSend`, and `Outreach` reduces the e-mail pipeline behind a follow-up to the
lead's status. Each module's header says what it leaves out.

## Runs

Bounds are named constants (`Max...`) or small sets in the configurations; each run is the smallest
instance in which its question has all its actors. Two is enough for the races: every conflict in the
code is between two processes over one row, and a third meets the same indexes. Where a third actor
matters (a recovery between two senders, an operator's edit between two sessions) it is an action of its
own. `CHECK_DEADLOCK FALSE` everywhere: when every lead is terminal, or parked for a person, the system
really stops. Symmetry is used over process and row ids in safety runs and never in a liveness run.

| Run | Instance | What it shows |
|---|---|---|
| `Send_race` | one lead and draft, two schedules, two senders of one lineage, an operator, one approval, recovery and reconciliation, cap 1; either two addresses within a day, or one address and midnight; 2.73 million states | types; a delivery stays recorded; a SCHEDULED lead has an active schedule and a SENT lead was delivered; a call is for the draft's own recipient; the reservations of a day and the cap |
| `Send_changes` | two senders, one schedule, one address, two approvals, and two ticks in which approvals, confirmations and schedules grow too old; 1.06 million | one delivery per schedule; an answer always finds its row admitted; refinement of `SendOnce`; a retry needs an approval newer than the failures on record when it was confirmed |
| `Draft_race` | one lead, two e-mails (first, rewritten or follow-up), two recipients, two workers, three rows, one draft in a day of two ticks; 1.46 million | types; one draft per fingerprint; a lead handed on has its draft; only finalized e-mails a person decided on are drafted; how far overlapping workers pass the throttles |
| `Outreach_race` | one lead through two follow-ups, two sessions, a reply of either class, operators who close, block, or move the record to the first follow-up's due or sent status, a crash; 736 thousand | the history agrees with the status; no step is mailed twice; an opt-out sticks; only an enrolment or an operator revives a record; refinement of `StepSequence` |
| `Outreach_progress` | one follow-up, two sessions, an edit, a bounce, a crash, fair; 27 thousand | confirmed sends are enrolled or refused; due follow-ups are promoted or stopped |
| `Pipeline_race` | two sessions on one lead in `Intake` (two sites, one event) or in `Audit` (two audits, prices and limits at which the budget runs out, one event); 2.9 million | a qualified lead has a site, a lead ready for audit was captured, screenshots follow the last capture; spend within the cap, paid results are kept; a manual domain stays; each audit decides once |
| `Demo_race` | two sessions, two pages, two demos of one lead, two deploys, a lost answer or crash; 4.55 million | a finalized e-mail links to a complete deploy of a page a human approved; a HUMAN_APPROVED lead has an approved finalized e-mail |
| `Back_race` | ten parts: pages over nine records, contact links among them, and three images; two editors, renders and directories; the review loop and revisions of a page with two sections of one family; sources of up to four of eight rows; two competitors and two packages; e-mails from two patterns; two batches and a prospect; sites of up to three links, some redirected; three discoveries; 1.07 million | `PageSound`, `StoreSound`, `LoopSound`, `SelectionSound`, `EvidenceSound`, `EnrichedSound`, `ContactSound`, `DiscoverySound`; a package's decision stands; a person is not given up for an inbox |
| `Desk_race` | seven parts: two testers and a changing allowlist; notices against lists of two e-mails; two sheet syncs; two writing or review sessions; two operators over three capture runs; two collections of twelve candidates, texts that come down to nothing among them; two prospect runs, one of four places; 820 thousand | `SmokeSound`; `FindingsSound`; `DeskSound`: the promises of the other five parts |

The pure rules (`DemoPage`, `CompetitorSelection`, `EnrichedEmail`, `DeliveryNotices`, `WebsiteEvidence`,
`ReviewLoop`'s revisions, `EmailRules`) are checked against reference definitions over all the inputs
these bounds allow.

Three runs expect a violation. Each states a sentence of the repository's own documents that the code does
not keep; the trace is the witness and `PROJECT.json` quotes the sentence.

| Run | What happens |
|---|---|
| `Send_retries` | an interactive and a scheduled sender hold different approvals; one passes its check, the other's call is definitively refused, and the first reserves a retry under an approval older than the failure |
| `Outreach_replies` | a reply that arrives before the next follow-up goes out, and is not synced by then, is older than the record's last e-mail and never looked at again |
| `Outreach_optouts` | an unsubscribe is stored on a record that was just closed, where it sets no do-not-contact; an enrolment that read the record before it was closed reopens it, and its next follow-up is cleared for sending |

Some properties carry a hypothesis because the code keeps them only under it, and each says so.

- `ReservationsPerDayWithinCap` counts a day's reservations while the day lasts. `reservedAt` is set when
  the row is built (the step from `SuppressionRecheck` to `reserve`) and the row is inserted later, so over
  midnight a past day may end with more reservations than the cap; and a send confirmed after midnight
  counts on a day that was not asked. Both happen in `Send_race`.
- `DraftsWithinBudget` bounds how far workers that read the same throttles at once pass them: by one row
  for each worker but the first. With one worker it is the configured limit.
- `HistoryMatchesStatus`, and with it the refinement of `StepSequence`, is about records no operator moved
  to another step by hand; `past` remembers what was done to a record, and an operator may set any status
  the transition table allows.
- `OptOutSticks` holds for an opt-out that marked its record. One stored on a closed record leaves no mark
  and is only as final as the closing is; `Outreach_optouts` shows a command in flight undo that.
- `ShownIsCurrentEvidence` is about what a page says with a citation, except for the language attribute,
  which the export stamps with the time of the export. Contact links are taken raw, stale or not, and are
  not cited: `LinksLeadToTheRecords` asks that each leads where an exported record says.
- `RevisionKeepsTheSections` lets an operation after a SECTION_ORDER change the other section of its
  family, because anchors are numbered by place anew after each operation.
- `VetoedPagesStayOut` and `RequestsWithinBound` (in `DiscoverySound`) are about the links that are asked
  for. What a redirect leads to is recorded as it comes, without a veto, a same-site check or a look at
  what was visited, so `EveryPageOnce` is for sites without redirects.
- `FactsMatchTheKeys` (in `DeskSound`) knows texts that come down to nothing: they pass for an identity and
  are on file, but nothing is found by them.

`DraftsOnlyDecidedEmails` asks that a person
decided on the e-mail, not that the decision was an approval: a rejection may follow the finalization and
the gate never reads it again. `ScreenshotsShowTheRender` (in `StoreSound`) is for a directory no other
command rendered into meanwhile, the mirror promise for a sync no other ran beside, the totals of
`EmailSessions` for sessions that did not overlap.

`SecondApprovalStands` is about the lead and not about each finalized e-mail, because the decision on a
finalized e-mail is not final. With three sessions on one lead, two finalize the same deployment and the
reviewer approves; the second deployment, which had read the lead before, parks it at
NEEDS_MANUAL_REVIEW, and a reviewer who opens it there can reject the e-mail that was approved.

Other outcomes the model reaches and the hazards describe: a confirmed send whose lead was moved away by
a cancel during the call; a created draft whose lead a second worker parked; a lead left at
EMAIL_REVIEW_FAILED with nothing to resume after a failed model call; a REJECTED lead revived by a
service that read it before; an enrolment that overwrites a reply's status; an e-mail whose wording was
not approved finalized after an earlier deployment of the same page is reused; a test e-mail sent twice
after an unknown outcome.

### Fairness

Only `Outreach_progress` assumes fairness, and of what the systemd timers give: a session that has begun
goes on (weak fairness of its steps: a running Node process continues after each await, every HTTP request
has a timeout, and the database answers or the promise rejects), time passes, so a due date comes (weak fairness), and the timers' passes
over their work lists recur (strong fairness of the passes that pick up an enrolment, a due row or a reply, since
another session may hold the record in between). Nothing is assumed of people, of the providers, of
recovery or of crashes.

## Proofs

TLAPS proves the following for any number of leads, rows, e-mails and processes and any value of the
limits, under the modules' named `ASSUME`s (bounds are naturals, costs are within the worst case, `Nobody`
is not an id), which TLC evaluates in the runs.

| Module | Theorems |
|---|---|
| `ControlledSendProofs` | `TypeCorrect`; `SendInvariant`; `AtMostOnce`; `DeliveriesRecorded`; `ImplementsSendOnce`; `RowsInvariant`, `LeadStatusTrue`, `CallsAddressed`; `RetryInvariant`, `RetriesApproved`; `AnswersRecordable`; `CapRespected` |
| `GmailDraftProofs` | `TypeCorrect`; `DraftInvariant`; `OneDraft`; `DraftedLeads`; `DecidedInvariant`, `OnlyDecidedEmails`; `WithinBudget` (any finite number of workers) |
| `OutreachProofs` | `OutreachInvariant`, `StepsMailedOnce`, `OptOutsStick`, `OnlyEnrolmentsRevive`; `HistoryInvariant`, `RecordsDoAgree`, `ImplementsStepSequence` (whatever statuses operators may set) |
| `IntakeProofs` | `IntakeInvariant`, `IntakeIsSound`, `ManualDomainStays` |
| `AuditProofs` | `AuditInvariant`, `AuditIsSound`, `AuditsDecideOnce` |
| `DemoDeployProofs` | `DeployInvariant`, `DeployIsSound`, `SecondApprovalIsGiven` |
| `BackProofs` | `EvidenceInvariant`, `EvidenceIsSound`, `DecisionsStand`; `StoreInvariant`, `StoreIsSound`; `ContactInvariant`, `ContactIsSound`, `PersonsAreKept` |
| `DeskProofs` | `SmokeInvariant`, `SmokeIsSound`; `FindingsInvariant`, `FindingsAreSound` |

Every inductive invariant was checked with TLC before it was proved.

*At most once.* "One delivery per schedule" says nothing of the sender about to call. `SendInv` adds that
an attempt is held by at most one sender, that the holder's program counter agrees with the attempt's
status and the fate of its request, that a row before its call has no request, and that a schedule has at
most one attempt not known to have failed. The unique blocking index gives the last part at the
reservation; the others carry it through call, answer, crash, recovery and reconciliation. The refinement
maps an attempt to a stage of `SendOnce` by its row and its request, and each step to a step on that stage
or to a stutter.

*Rows, retries and the cap.* `RowsInv` says that what senders, operators and attempts refer to was
written, and for the same lead; with it a lead's status can be traced to its schedule and a call to its
draft's recipient. `RetryInv` says that nobody confirmed in the future and that a sender between its check
and its reservation holds an approval newer than every failure on record when it was confirmed: that is
what the check gives and what `Send_retries` shows to be all it gives. `CapInv` counts, by cardinality, the
rows charged to a day. A row carries the instant it was built, which lies before its insertion, so the
count under the lock is of another day if midnight passed in between. The argument needs that nothing lies
in the future and that a message is confirmed no earlier than its attempt was reserved: then every live
row of the day that lasts is in the count, and what a later day takes from the count of an earlier one are
only sends confirmed after it. `AnswersRecordable` follows from the invariant of `AtMostOnce`: an attempt
that waits for its answer is the only live one of its schedule.

*Drafts.* `DraftedLeadHasDraft` needs that `finish` writes the row of the lead it advances and that no
later step takes an executed request back. `DraftInv` says that a held row belongs to the worker's lead,
that a row about to be called for has no request and one caller, that rows not yet inserted have no
request, and that fingerprints are unique. `DecidedInv` adds that what is validated, finalized or read by
a worker was written and decided on by a person, and that a lead is in an approved status on account of
such an e-mail only. `BudgetInv` adds to the rows of a day, or of an interval, the workers that are about
to insert one: a worker joins them only while the rows are below the limit, so when the first of them
joins at most the others can follow.

*Outreach.* `OutreachInv` says that sessions work on rows that exist, that an enrolled e-mail is in its own
record and only once, that opt-outs are marked, and that a lead, its record and its mailed e-mails name the
same step. An opt-out without a mark needs more: its record was closed when it was stored, and stays so
unless a command in flight reopens it, which `past` records. `HistoryInv` (the enrolled steps are those
before the status, an enrolment in flight is of the next one, a follow-up is enrolled in the record it was
written for) leaves out the records an operator moved to another step by hand, and only those: such a
record may be at a step whose e-mail was never sent. Nothing is assumed of what operators do.

*Intake, audit, demos.* A transaction that reads in one step and writes in another is only right if what
it read still fits when it writes. `IntakeInv`, `AuditInv` and `DeployInv` say so for each program counter:
what a session has read of sites, captures and screenshots; that an audit under way has one author and
every row and envelope is the result of an audit that ended; that a run that is verified serves its page
and that what a session is to finalize was approved. TLC checks the properties in `PipelineSpec`, where
intake and audit alternate as parts; the theorems are about `IntakeSpec` and `AuditSpec`.

*Evidence and versions.* A competitor package is decided by a person, read by a later command and cited in
a letter, while captures and packages go on being written. `EvidenceInv` says that packages refer to
research and captures that are stored, that an approved one rests on two competitors, and that what a
command under way or a letter cites is `Citable`, which no later step takes back: rows keep what they say,
and an approved package can only be invalidated. `StoreInv` describes the versions of a page, which the
editors number without a lock: they are numbered 1 to their count, each once (the unique index refuses the
second), and a re-render has read the version whose number is one less than its own, so if its number is
still free it follows the last one. A session whose directory nobody else wrote finds its own page there.

*Recipients and the test send.* A batch decides at its start which inboxes it may write to and writes them
at its end, after paid calls of its own and of others. `ContactInv` says that those leads are exhausted for
the people named and had nobody when it began; who is exhausted stays so, because results are only added or
overwritten, and `PersonalIsKept` is then about what the batch knew, which is all the code gives. The
budget needs the count of a provider under way: its cap still fitted whole when it began, and what was paid
since is in the result that `settled` adds. That the strongest lead left has a turn rests on the least
element of a set of numbers (`LeastNumber`, from well-founded induction). `SmokeInv` says of a test the
program has in sight that at most one send of it is under way and that an e-mail of it that went out is
recorded, or is held by the session about to record it; a death, an unknown outcome or an overlap puts the
test out of sight.

*Findings and operator e-mails.* Each approve command reads, asks for `--confirm` and writes later, while
the lead may be captured anew or another operator be at work. `FindingsInv` says why what was read is still
true when it is written: a finding about to be stored holds of its capture run, which new captures leave
alone; one category can have one active finding, so the evidence a letter was approved with is still that
finding's; and the lead leaves OUTREACH_READY_DETERMINISTIC with the first letter and does not come back,
because the finding that would bring it back is refused by the unique index. One letter per lead then
needs that no two letter commands overlapped (`crossed`): the code has no index for letters, and two that
were both checked are both stored. The module assumes of the lead that a capture run of it is on record.

Proving changed the model twice. `DraftsOnlyDecidedEmails` replaced an invariant about approved e-mails
that held for one writer only, and `SecondApprovalStands` one about the finality of a decision that held
for two sessions only.

*Only model-checked.* `ConfirmedSendsAreEnrolled` and `DueFollowupsArePromoted`,
because fairness and ENABLED are beyond the prover. The other parts of `Back_race` and `Desk_race`:
`PageSound`, `SelectionSound` and `EnrichedSound` compare a pure rule with its reference definition over
bounded inputs, and like what the functions over sequences in `EmailRules`, `DeliveryNotices` and
`WebsiteEvidence` compute they need induction over data; `LoopSound`, `DiscoverySound` and `DeskSound` mix
such rules with few overlapping sessions.

## Plan

1. Theorems for the remaining parts of `Back_race` and `Desk_race` in which sessions overlap (collection, prospect runs, writing
   sessions, the sheet, discoveries).
2. The authorization window and the batch capacity of the scheduled-send runner.
3. Slot computation with DST and quotas, and the rate limiter, as pure algorithms.
4. The hand-over from a prospect run to the pipeline; reset and archive of leads.

Not to be modelled: rendering and text (pages, prompts, the reading of a reply's words), HTTP and browser
I/O, migrations, configuration parsing, offline evaluation.
