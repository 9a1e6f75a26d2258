----------------------------- MODULE DemoDeploy -----------------------------
(***************************************************************************)
(* From an audited lead to an approved e-mail with a link: the demo page,  *)
(* its human approval, its deployment to Netlify, the check of what is     *)
(* served, the finalized e-mail and its second human approval.             *)
(*                                                                         *)
(* Sources: src/domain/demo, src/domain/deploy, src/domain/review,         *)
(* src/integrations/netlify, deploy.repo.ts, review.repo.ts, and the       *)
(* commands generate-demos, compose-demos and deploy-demos.                *)
(*                                                                         *)
(* A page is a value: equal pages have equal hashes.  The outcomes of a    *)
(* run that is not verified are handled alike and called                   *)
(* DEPLOYMENT_PENDING.  Only runs of one day are modelled.                 *)
(***************************************************************************)
EXTENDS LeadPipeline, FiniteSetsExt

CONSTANTS
  Pages,                              \* index.html contents
  MaxDeploysPerDay,                   \* NETLIFY_MAX_DEPLOYMENTS_PER_DAY
  MaxDemos, MaxDrafts, MaxHosted,     \* bounds: demos and drafts of a lead, deploys at Netlify
  MaxDeployEvents                     \* bound: crashes, and leads sent back

ASSUME DeployAssumption ==
  {MaxDeploysPerDay, MaxDemos, MaxDrafts, MaxHosted, MaxDeployEvents} \subseteq Nat /\ "none" \notin Pages

VARIABLES
  leadAt,          \* leads.status
  page,            \* index.html in the lead's demo directory
  demos,           \* demos of the lead, oldest first
  drafts,          \* human_decision of the lead's e-mail drafts, oldest first
  runs,            \* demo_deployment_runs
  hosted,          \* deploys at Netlify
  finals,          \* email_draft_finalizations
  deployer,        \* what each session is doing
  approvedPages,   \* history: pages a human has approved
  deployEvents

deployVars == <<leadAt, page, demos, drafts, runs, hosted, finals, deployer, approvedPages, deployEvents>>

Decisions == {"none", "APPROVED", "REJECTED"}
Demo == [page : Pages \cup {"none"}, by : {"composer", "template"},
         status : {"GENERATED_PENDING_REVIEW", "BUILD_FAILED", "APPROVED", "REJECTED"}]
(* page: the artifact hash.  deploy: the provider's deploy id.  verified: the
   deploy that verifiedUrl shows, 0 for none. *)
DeploymentRun == [page : Pages, deploy : Nat, verified : Nat,
                  outcome : {"DEPLOYMENT_PENDING", "DEPLOYED_AND_VERIFIED"}]
(* title: the fingerprint.  files: they were uploaded. *)
Hosted == [title : Pages, content : Pages, files : BOOLEAN]
(* deploy: the deploy that the link in the e-mail shows. *)
Final == [lead : Leads, draft : Nat, run : Nat, deploy : Nat, decision : Decisions]

DeployOps == {"idle", "compose", "demo", "demoRead", "input", "package", "find", "reserve", "create", "setId",
              "poll", "verify", "record", "recordRead", "decide", "decideRead"}

(* page: the page read or written.  upload: the page in the package.  row: the demo, draft or
   finalization at hand.  run, deploy: the run and deploy in use.  verified:
   there is a verified deploy to finalize.  route: the status to write. *)
Deployer == [op : DeployOps, lead : Leads \cup {"none"}, page : Pages \cup {"none"}, upload : Pages \cup {"none"},
             about : {"none", "composer", "template", "demo", "email", "final"}, row : Nat,
             run : Nat, deploy : Nat, verified : BOOLEAN, decision : Decisions,
             route : {"keep"} \cup LeadStatuses]
NoDeployer == [op |-> "idle", lead |-> "none", page |-> "none", upload |-> "none", about |-> "none", row |-> 0,
               run |-> 0, deploy |-> 0, verified |-> FALSE, decision |-> "none", route |-> "keep"]

DeployTypeOK ==
  /\ leadAt \in [Leads -> LeadStatuses]
  /\ page \in [Leads -> Pages \cup {"none"}]
  /\ demos \in [Leads -> Seq(Demo)] /\ drafts \in [Leads -> Seq(Decisions)]
  /\ runs \in Seq(DeploymentRun) /\ \A r \in DOMAIN runs : runs[r].deploy <= Len(hosted)
  /\ hosted \in Seq(Hosted)
  /\ finals \in Seq(Final) /\ \A f \in DOMAIN finals : finals[f].run \in DOMAIN runs
  /\ deployer \in [Sessions -> Deployer]
  /\ approvedPages \subseteq Pages
  /\ deployEvents \in 0..MaxDeployEvents

DeployInit ==
  /\ leadAt = [l \in Leads |-> "OPPORTUNITY_READY"]
  /\ page = [l \in Leads |-> "none"]
  /\ demos = [l \in Leads |-> <<>>]
  /\ drafts = [l \in Leads |-> <<>>]
  /\ runs = <<>> /\ hosted = <<>> /\ finals = <<>>
  /\ deployer = [w \in Sessions |-> NoDeployer]
  /\ approvedPages = {}
  /\ deployEvents = 0

Turn(w, local) == deployer' = [deployer EXCEPT ![w] = local]
Done(w) == Turn(w, NoDeployer)
resting(w) == deployer[w].op = "idle"
records == <<demos, drafts, runs, finals, approvedPages>>
routed(w) == [leadAt EXCEPT ![deployer[w].lead] = IF deployer[w].route = "keep" THEN @ ELSE deployer[w].route]

(***************************************************************************)
(* The demo page                                                           *)
(***************************************************************************)
(* compose-demos and generate-demos list OPPORTUNITY_READY leads. *)
composeBegin(w, l) ==
  /\ resting(w) /\ leadAt[l] = "OPPORTUNITY_READY" /\ Len(demos[l]) < MaxDemos
  /\ \E by \in {"composer", "template"} : Turn(w, [NoDeployer EXCEPT !.op = "compose", !.lead = l, !.about = by])
  /\ UNCHANGED <<leadAt, page, hosted, records, deployEvents>>

(* The composer's two model calls, validation and review end in a page or in
   nothing. *)
compose(w) ==
  /\ deployer[w].op = "compose" /\ deployer[w].about = "composer"
  /\ \/ Done(w) /\ UNCHANGED page
     \/ \E p \in Pages : /\ page' = [page EXCEPT ![deployer[w].lead] = p]
                         /\ Turn(w, [deployer[w] EXCEPT !.op = "demo", !.page = p])
  /\ UNCHANGED <<leadAt, hosted, records, deployEvents>>

(* The template: no demo (the page stays "none"), or a page. *)
generate(w) ==
  /\ deployer[w].op = "compose" /\ deployer[w].about = "template"
  /\ \/ Turn(w, [deployer[w] EXCEPT !.op = "demo"]) /\ UNCHANGED page
     \/ \E p \in Pages : /\ page' = [page EXCEPT ![deployer[w].lead] = p]
                         /\ Turn(w, [deployer[w] EXCEPT !.op = "demo", !.page = p])
  /\ UNCHANGED <<leadAt, hosted, records, deployEvents>>

(* The transaction: a composed or generated page is DEMO_READY. *)
demoRead(w) ==
  /\ deployer[w].op = "demo"
  /\ Turn(w, [deployer[w] EXCEPT !.op = "demoRead",
                !.route = IF leadAt[deployer[w].lead] # "OPPORTUNITY_READY" THEN "keep"
                          ELSE IF deployer[w].page = "none" THEN "DEMO_DECIDED" ELSE "DEMO_READY"])
  /\ UNCHANGED <<leadAt, page, hosted, records, deployEvents>>

(* Mutant: the lead's status is written on the demo. *)
demoCommit_Status(w) ==
  LET l == deployer[w].lead IN
  /\ deployer[w].op = "demoRead"
  /\ demos' = [demos EXCEPT ![l] = Append(@, [page |-> deployer[w].page, by |-> deployer[w].about,
                                              status |-> "DEMO_READY"])]
  /\ leadAt' = routed(w)
  /\ Done(w)
  /\ UNCHANGED <<page, drafts, runs, hosted, finals, approvedPages, deployEvents>>

demoCommit(w) ==
  LET l == deployer[w].lead
      built == deployer[w].page # "none"
      demo == [page |-> deployer[w].page, by |-> deployer[w].about,
               status |-> IF built THEN "GENERATED_PENDING_REVIEW" ELSE "BUILD_FAILED"]
  IN
  /\ deployer[w].op = "demoRead"
  /\ \/ demos' = [demos EXCEPT ![l] = Append(@, demo)]
     \/ ~ built /\ UNCHANGED demos
  /\ leadAt' = routed(w)
  /\ Done(w)
  /\ UNCHANGED <<page, drafts, runs, hosted, finals, approvedPages, deployEvents>>

(* An e-mail with a demo link is written and passes its AI review. *)
emailWritten(l) ==
  /\ leadAt[l] = "DEMO_READY" /\ Len(drafts[l]) < MaxDrafts
  /\ leadAt' = [leadAt EXCEPT ![l] = "WAITING_FOR_DEMO_URL"]
  /\ drafts' = [drafts EXCEPT ![l] = Append(@, "none")]
  /\ UNCHANGED <<page, demos, runs, hosted, finals, deployer, approvedPages, deployEvents>>

(***************************************************************************)
(* Human review                                                            *)
(***************************************************************************)
latestFinalization(l) == Max({0} \cup {f \in DOMAIN finals : finals[f].lead = l})
latestDemo(l) == demos[l][Len(demos[l])]

asked(w, l, about, row, decision) ==
  Turn(w, [NoDeployer EXCEPT !.op = "decide", !.lead = l, !.about = about, !.row = row, !.decision = decision])

decideDemo(w, l) ==
  /\ resting(w) /\ demos[l] # <<>> /\ latestDemo(l).status # "BUILD_FAILED"
  /\ \E decision \in {"APPROVED", "REJECTED"} :
       /\ latestDemo(l).status # decision
       /\ Turn(w, [NoDeployer EXCEPT !.op = "decideRead", !.lead = l, !.about = "demo", !.row = Len(demos[l]),
                                     !.decision = decision])
  /\ UNCHANGED <<leadAt, page, hosted, records, deployEvents>>

(* decideEmail and decideFinalizedEmail look at the lead first ... *)
decideEmail(w, l) ==
  /\ resting(w) /\ leadAt[l] = "WAITING_FOR_DEMO_URL"
  /\ \E decision \in {"APPROVED", "REJECTED"} :
       /\ drafts[l] # <<>> /\ drafts[l][Len(drafts[l])] # decision
       /\ asked(w, l, "email", Len(drafts[l]), decision)
  /\ UNCHANGED <<leadAt, page, hosted, records, deployEvents>>

decideFinalizedEmail(w, l) ==
  /\ resting(w) /\ leadAt[l] = "FINALIZED_EMAIL_PENDING" /\ latestFinalization(l) # 0
  /\ \E decision \in {"APPROVED", "REJECTED"} :
       /\ finals[latestFinalization(l)].decision # decision
       /\ asked(w, l, "final", latestFinalization(l), decision)
  /\ UNCHANGED <<leadAt, page, hosted, records, deployEvents>>

(* Mutant: a decision stays although the lead may not move. *)
decideRead_Kept(w) ==
  LET s == deployer[w]
      wanted == IF s.about = "final" /\ s.decision = "APPROVED" THEN "HUMAN_APPROVED" ELSE "REJECTED"
      moves == canTransition(leadAt[s.lead], wanted) /\ ~ (s.about = "email" /\ s.decision = "APPROVED")
  IN
  /\ s.op = "decide"
  /\ Turn(w, [s EXCEPT !.op = "decideRead", !.route = IF moves THEN wanted ELSE "keep"])
  /\ UNCHANGED <<leadAt, page, hosted, records, deployEvents>>

(* ... then write the decision, which takes the row's lock until the end, and
   only then does the transition read the status and check the edge. *)
decideRead(w) ==
  LET s == deployer[w]
      wanted == IF s.about = "final" /\ s.decision = "APPROVED" THEN "HUMAN_APPROVED" ELSE "REJECTED"
      held == \E v \in Sessions : /\ deployer[v].op = "decideRead" /\ deployer[v].about = s.about
                                  /\ deployer[v].lead = s.lead /\ deployer[v].row = s.row
  IN
  /\ s.op = "decide" /\ ~ held
  /\ IF s.about = "email" /\ s.decision = "APPROVED" THEN Turn(w, [s EXCEPT !.op = "decideRead"])
     ELSE IF canTransition(leadAt[s.lead], wanted) THEN Turn(w, [s EXCEPT !.op = "decideRead", !.route = wanted])
     ELSE Done(w)
  /\ UNCHANGED <<leadAt, page, hosted, records, deployEvents>>

decideCommit(w) ==
  LET s == deployer[w]
      l == s.lead
  IN
  /\ s.op = "decideRead"
  /\ CASE s.about = "demo" -> /\ demos' = [demos EXCEPT ![l][s.row].status = s.decision]
                              /\ approvedPages' = approvedPages \cup
                                   (IF s.decision = "APPROVED" THEN {demos[l][s.row].page} ELSE {})
                              /\ UNCHANGED <<drafts, finals>>
       [] s.about = "email" -> /\ drafts' = [drafts EXCEPT ![l][s.row] = s.decision]
                               /\ UNCHANGED <<demos, finals, approvedPages>>
       [] s.about = "final" -> /\ finals' = [finals EXCEPT ![s.row].decision = s.decision]
                               /\ UNCHANGED <<demos, drafts, approvedPages>>
  /\ leadAt' = routed(w)
  /\ Done(w)
  /\ UNCHANGED <<page, runs, hosted, deployEvents>>

(***************************************************************************)
(* Deployment                                                              *)
(***************************************************************************)
deployDemos(w, l) ==
  /\ resting(w) /\ leadAt[l] = "WAITING_FOR_DEMO_URL"
  /\ Turn(w, [NoDeployer EXCEPT !.op = "input", !.lead = l])
  /\ UNCHANGED <<leadAt, page, hosted, records, deployEvents>>

existingVerified(p) == {r \in DOMAIN runs : runs[r].page = p /\ runs[r].outcome = "DEPLOYED_AND_VERIFIED"}

(* deploy-demos lists the lead as waiting.  A template's content hash covers
   other fields than the hash computed here, so it never matches. *)
eligible(l) ==
  /\ latestDemo(l).status = "APPROVED"
  /\ drafts[l][Len(drafts[l])] = "APPROVED"

artifactOK(l) == page[l] # "none" /\ latestDemo(l).by = "composer" /\ page[l] = latestDemo(l).page

recorded(s, route) == [s EXCEPT !.op = "record", !.route = route, !.page = "none", !.upload = "none"]

(* The inputs, the page on disk and the gate.  A verified deploy of the same
   artifact is used again whatever the gate says. *)
checkEligibility(w) ==
  LET l == deployer[w].lead
      demo == latestDemo(l)
      prior == IF demo.by = "composer" THEN existingVerified(demo.page) ELSE {}
      s == [deployer[w] EXCEPT !.page = page[l], !.row = Len(drafts[l])]
  IN
  /\ deployer[w].op = "input"
  /\ IF demos[l] = <<>> THEN Done(w)
     ELSE IF prior # {}
     THEN LET r == CHOOSE x \in prior : TRUE IN
          Turn(w, recorded([s EXCEPT !.run = r, !.deploy = runs[r].verified, !.verified = TRUE, !.about = "email"],
                           "FINALIZED_EMAIL_PENDING"))
     ELSE IF ~ artifactOK(l) THEN Turn(w, recorded(s, "NEEDS_MANUAL_REVIEW"))
     ELSE IF ~ eligible(l) THEN Turn(w, recorded(s, "keep"))
     ELSE Turn(w, [s EXCEPT !.op = "package"])
  /\ UNCHANGED <<leadAt, page, hosted, records, deployEvents>>

(* The last run for the fingerprint that did not succeed. *)
findReservedByFingerprint(p) ==
  Max({0} \cup {r \in DOMAIN runs : runs[r].page = p /\ runs[r].outcome # "DEPLOYED_AND_VERIFIED"})

(* buildDeployPackage reads the directory again; what it finds is uploaded
   under the fingerprint of the approved page. *)
buildDeployPackage(w) ==
  LET s == deployer[w]
      r == findReservedByFingerprint(s.page)
      id == IF r = 0 THEN 0 ELSE runs[r].deploy
  IN
  /\ s.op = "package"
  /\ IF page[s.lead] = "none" THEN Turn(w, recorded(s, "NEEDS_MANUAL_REVIEW"))
     ELSE Turn(w, [s EXCEPT !.op = IF id = 0 THEN "find" ELSE "poll", !.run = r, !.deploy = id,
                           !.upload = IF id = 0 THEN page[s.lead] ELSE "none"])
  /\ UNCHANGED <<leadAt, page, hosted, records, deployEvents>>

titled(p) == {d \in DOMAIN hosted : hosted[d].title = p}

(* Netlify is asked for a deploy of that title; it may not answer.  No deploy,
   or no answer: a new one, if the day's limit and the interval allow it. *)
findDeployByFingerprint(w) ==
  LET s == deployer[w] IN
  /\ s.op = "find"
  /\ \/ /\ titled(s.page) # {}
        /\ Turn(w, [s EXCEPT !.op = "reserve", !.deploy = Max(titled(s.page))])
     \/ Len(runs) < MaxDeploysPerDay /\ Turn(w, [s EXCEPT !.op = "reserve"])
     \/ Len(runs) > 0 /\ Turn(w, recorded(s, "keep"))
  /\ UNCHANGED <<leadAt, page, hosted, records, deployEvents>>

reserveRun(w) ==
  LET s == deployer[w]
      after == IF s.deploy = 0 THEN "create" ELSE "setId"
  IN
  /\ s.op = "reserve"
  /\ IF s.run # 0 THEN Turn(w, [s EXCEPT !.op = after]) /\ UNCHANGED runs
     ELSE /\ runs' = Append(runs, [page |-> s.page, deploy |-> 0, verified |-> 0, outcome |-> "DEPLOYMENT_PENDING"])
          /\ Turn(w, [s EXCEPT !.op = after, !.run = Len(runs) + 1])
  /\ UNCHANGED <<leadAt, page, demos, drafts, hosted, finals, approvedPages, deployEvents>>

(* The POST and the uploads: refused, timed out before or after Netlify acted,
   or done. *)
createDraftDeploy(w) ==
  LET s == deployer[w] IN
  /\ s.op = "create"
  /\ \/ \E route \in {"keep", "NEEDS_MANUAL_REVIEW"} : Turn(w, recorded(s, route)) /\ UNCHANGED hosted
     \/ /\ Len(hosted) < MaxHosted
        /\ \E files \in BOOLEAN :
           hosted' = Append(hosted, [title |-> s.page, content |-> s.upload, files |-> files])
        /\ \E route \in {"keep", "NEEDS_MANUAL_REVIEW"} : Turn(w, recorded(s, route))
     \/ /\ Len(hosted) < MaxHosted
        /\ hosted' = Append(hosted, [title |-> s.page, content |-> s.upload, files |-> TRUE])
        /\ Turn(w, [s EXCEPT !.op = "setId", !.deploy = Len(hosted) + 1, !.upload = "none"])
  /\ UNCHANGED <<leadAt, page, records, deployEvents>>

(* demo_deployment_runs_deploy_uk: a deploy id belongs to one run.  The command
   dies on a second, and a transaction is undone. *)
deployIdIsFree(r, d) == \A x \in DOMAIN runs : d # 0 /\ runs[x].deploy = d => x = r

setDeployId(w) ==
  LET s == deployer[w] IN
  /\ s.op = "setId"
  /\ IF deployIdIsFree(s.run, s.deploy)
     THEN /\ runs' = [runs EXCEPT ![s.run].deploy = s.deploy]
          /\ Turn(w, [s EXCEPT !.op = "poll"])
     ELSE Done(w) /\ UNCHANGED runs
  /\ UNCHANGED <<leadAt, page, demos, drafts, hosted, finals, approvedPages, deployEvents>>

(* The bounded poll: ready, failed, or still pending at the end.  A deploy
   whose files were not uploaded is never ready. *)
pollDeploy(w) ==
  LET s == deployer[w] IN
  /\ s.op = "poll"
  /\ \/ hosted[s.deploy].files /\ Turn(w, [s EXCEPT !.op = "verify"])
     \/ \E route \in {"keep", "NEEDS_MANUAL_REVIEW"} : Turn(w, recorded(s, route))
  /\ UNCHANGED <<leadAt, page, hosted, records, deployEvents>>

(* Mutant: whatever is served will do. *)
verifyDeployment_AnyBytes(s) == hosted[s.deploy].files

(* The bytes served are those read at the start. *)
verifyDeployment(s) == hosted[s.deploy].content = s.page

verifyFetch(w) ==
  LET s == deployer[w] IN
  /\ s.op = "verify"
  /\ \/ \E route \in {"keep", "NEEDS_MANUAL_REVIEW"} : Turn(w, recorded(s, route))
     \/ verifyDeployment(s) /\ Turn(w, recorded([s EXCEPT !.verified = TRUE], "FINALIZED_EMAIL_PENDING"))
  /\ UNCHANGED <<leadAt, page, hosted, records, deployEvents>>

(* recordTerminal and finalizeAndRoute: completeRun locks the run's row, then
   the lead is read. *)
recordRead(w) ==
  LET s == deployer[w]
      held == \E v \in Sessions : deployer[v].op = "recordRead" /\ deployer[v].run = s.run /\ s.run # 0
  IN
  /\ s.op = "record" /\ ~ held
  /\ Turn(w, [s EXCEPT !.op = "recordRead",
                       !.route = IF leadAt[s.lead] = "WAITING_FOR_DEMO_URL" THEN @ ELSE "keep"])
  /\ UNCHANGED <<leadAt, page, hosted, records, deployEvents>>

(* demo_deployment_runs_verified_artifact_uk *)
oneVerified(s) == existingVerified(runs[s.run].page) \subseteq {s.run}

(* email_draft_finalizations_draft_deploy_uk: on conflict do nothing. *)
createFinalization(s) ==
  LET final == [lead |-> s.lead, draft |-> s.row, run |-> s.run, deploy |-> s.deploy, decision |-> "none"] IN
  finals' = IF \E f \in DOMAIN finals : /\ finals[f].lead = s.lead /\ finals[f].draft = s.row
                                        /\ finals[f].run = s.run
            THEN finals ELSE Append(finals, final)

recordTerminal(w) ==
  LET s == deployer[w] IN
  /\ s.op = "recordRead" /\ ~ s.verified
  /\ IF s.run = 0 THEN leadAt' = routed(w) /\ UNCHANGED runs
     ELSE IF deployIdIsFree(s.run, s.deploy)
     THEN /\ runs' = [runs EXCEPT ![s.run].deploy = s.deploy, ![s.run].outcome = "DEPLOYMENT_PENDING"]
          /\ leadAt' = routed(w)
     ELSE UNCHANGED <<runs, leadAt>>
  /\ Done(w)
  /\ UNCHANGED <<page, demos, drafts, hosted, finals, approvedPages, deployEvents>>

(* A reused run is not written. *)
finalizeAndRoute(w) ==
  LET s == deployer[w]
      reused == s.about = "email"
  IN
  /\ s.op = "recordRead" /\ s.verified
  /\ IF reused \/ (oneVerified(s) /\ deployIdIsFree(s.run, s.deploy))
     THEN /\ runs' = IF reused THEN runs ELSE [runs EXCEPT ![s.run].deploy = s.deploy,
                                                           ![s.run].verified = s.deploy,
                                                           ![s.run].outcome = "DEPLOYED_AND_VERIFIED"]
          /\ createFinalization(s)
          /\ leadAt' = routed(w)
     ELSE UNCHANGED <<runs, finals, leadAt>>
  /\ Done(w)
  /\ UNCHANGED <<page, demos, drafts, hosted, approvedPages, deployEvents>>

deployEvent == deployEvents < MaxDeployEvents /\ deployEvents' = deployEvents + 1

(* An operator has the lead audited again. *)
sentBack(l) ==
  /\ deployEvent /\ leadAt[l] \in {"NEEDS_MANUAL_REVIEW", "REJECTED"}
  /\ leadAt' = [leadAt EXCEPT ![l] = "OPPORTUNITY_READY"]
  /\ UNCHANGED <<page, hosted, records, deployer>>

deployCrash(w) ==
  /\ deployEvent /\ ~ resting(w) /\ Done(w)
  /\ UNCHANGED <<leadAt, page, hosted, records>>

DeployNext ==
  \/ \E w \in Sessions, l \in Leads :
       \/ composeBegin(w, l) \/ decideDemo(w, l) \/ decideEmail(w, l) \/ decideFinalizedEmail(w, l)
       \/ deployDemos(w, l)
  \/ \E w \in Sessions :
       \/ compose(w) \/ generate(w) \/ demoRead(w) \/ demoCommit(w) \/ decideRead(w) \/ decideCommit(w)
       \/ checkEligibility(w) \/ buildDeployPackage(w) \/ findDeployByFingerprint(w) \/ reserveRun(w)
       \/ createDraftDeploy(w) \/ setDeployId(w) \/ pollDeploy(w) \/ verifyFetch(w)
       \/ recordRead(w) \/ recordTerminal(w) \/ finalizeAndRoute(w) \/ deployCrash(w)
  \/ \E l \in Leads : emailWritten(l) \/ sentBack(l)

DeploySpec == DeployInit /\ [][DeployNext]_deployVars

(***************************************************************************)
(* Properties                                                              *)
(***************************************************************************)
serves(d) == d \in DOMAIN hosted /\ hosted[d].files /\ hosted[d].content \in approvedPages

(* Every finalized e-mail links to a deploy that serves, complete, a page a
   human has approved: not a page that a second composition put on the disk
   in the meantime, nor a deploy that another attempt left under the same
   title. *)
LinkServesApprovedPage == \A f \in DOMAIN finals : serves(finals[f].deploy)

(* A lead is HUMAN_APPROVED only with a finalized e-mail that a human approved,
   whatever two reviewers of the same e-mail, an operator and the deployments
   under way do to it meanwhile: an e-mail is not refused and its lead left
   approved. *)
SecondApprovalStands ==
  \A l \in Leads : leadAt[l] = "HUMAN_APPROVED" =>
    \E f \in DOMAIN finals : finals[f].lead = l /\ finals[f].decision = "APPROVED"

(* A finalized e-mail, in whatever state its deployment is, links to a page that
   a human approved. *)
DeploySound == DeployTypeOK /\ LinkServesApprovedPage

(***************************************************************************)
(* The inductive invariant                                                 *)
(***************************************************************************)
DemosAreSound ==
  \A l \in Leads : \A i \in DOMAIN demos[l] :
    /\ demos[l][i].status # "BUILD_FAILED" => demos[l][i].page \in Pages
    /\ demos[l][i].status = "APPROVED" => demos[l][i].page \in approvedPages

RunsAreSound ==
  \A r \in DOMAIN runs : runs[r].outcome = "DEPLOYED_AND_VERIFIED" => serves(runs[r].verified)

Uploading == {"package", "find", "reserve", "create", "setId", "poll", "verify"}

(* What a session has read still holds: the page it deploys was approved, the
   run and the deploy it works on exist, a verified deploy serves an approved
   page; and only the approval of a finalized e-mail approves its lead. *)
DeployerIsSound(s) ==
  /\ s.op # "idle" => s.lead \in Leads
  /\ s.op \in {"compose", "demo", "demoRead"} => s.about \in {"composer", "template"}
  /\ s.op = "decide" => s.about \in {"email", "final"}
  /\ s.op \in {"decide", "decideRead"} =>
       /\ s.about \in {"demo", "email", "final"} /\ s.decision # "none"
       /\ s.about = "demo" => s.row \in DOMAIN demos[s.lead] /\ demos[s.lead][s.row].page \in Pages
       /\ s.about = "email" => s.row \in DOMAIN drafts[s.lead]
       /\ s.about = "final" => s.row \in DOMAIN finals /\ finals[s.row].lead = s.lead
  /\ s.op = "decideRead" /\ s.about = "final" =>
       s.route = IF s.decision = "APPROVED" THEN "HUMAN_APPROVED" ELSE "REJECTED"
  /\ s.route = "HUMAN_APPROVED" => s.op = "decideRead" /\ s.about = "final"
  /\ s.op \in Uploading => s.page \in approvedPages
  /\ s.op \in {"find", "reserve", "create"} => s.upload \in Pages
  /\ s.op \in {"create", "setId", "poll", "verify"} => s.run # 0
  /\ s.op \in {"setId", "poll", "verify"} => s.deploy # 0
  /\ s.op = "verify" => hosted[s.deploy].files
  /\ s.verified => s.op \in {"record", "recordRead"} /\ s.run # 0 /\ serves(s.deploy)
  /\ s.run \in 0..Len(runs) /\ s.deploy \in 0..Len(hosted)

DeployersAreSound == \A w \in Sessions : DeployerIsSound(deployer[w])

DeployInv ==
  DemosAreSound /\ RunsAreSound /\ DeployersAreSound /\ LinkServesApprovedPage /\ SecondApprovalStands

=============================================================================
