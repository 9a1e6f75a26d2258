------------------------------- MODULE MCDesk -------------------------------
(***************************************************************************)
(* The parts an operator drives from the command line, which share no      *)
(* state with each other: a behaviour exercises the one that "part" names. *)
(***************************************************************************)
EXTENDS SmokeSend, DeliveryNotices, SheetMirror, EmailSessions, OperatorFindings, Prospecting, TLC

VARIABLE part

deskVars == <<part, smokeVars, noticeVars, mirrorVars, sessionVars, findingVars, collectVars, prospectVars>>

Parts == {"smoke", "notices", "mirror", "sessions", "findings", "collection", "prospects"}

quiet == [report |-> TRUE, daemon |-> FALSE, subject |-> FALSE, xFailed |-> "none", fields |-> <<>>,
          text |-> [status |-> 0, smtp |-> 0], refs |-> {}, thread |-> "none", at |-> 5]
option(sy, co, mo, cr) == [sync |-> sy, confirmed |-> co, mock |-> mo, credential |-> cr, strict |-> TRUE, dry |-> FALSE,
                           search |-> TRUE, fetch |-> TRUE]

(* The parts that do not run rest in one of their initial states. *)
DeskInit ==
  /\ part \in Parts
  /\ SmokeInit /\ (part # "smoke" => allowed = CHOOSE i \in Inboxes : TRUE)
  /\ IF part = "notices" THEN NoticesInit
     ELSE notice = quiet /\ tracked = <<>> /\ asked = option(TRUE, TRUE, FALSE, "readonly") /\ ruling = NotRuled
  /\ MirrorInit /\ (part # "mirror" => sheet = [t \in Tabs |-> <<>>])
  /\ SessionsInit /\ (part # "sessions" => place.step = 0)
  /\ FindingsInit /\ CollectInit /\ ProspectInit /\ (part # "prospects" => suppressed = CHOOSE b \in Blocklists : TRUE)

DeskNext ==
  /\ IF part = "smoke" THEN SmokeNext ELSE UNCHANGED smokeVars
  /\ IF part = "notices" THEN reconcileDelivery ELSE UNCHANGED noticeVars
  /\ IF part = "mirror" THEN MirrorNext ELSE UNCHANGED mirrorVars
  /\ IF part = "sessions" THEN SessionsNext ELSE UNCHANGED sessionVars
  /\ IF part = "findings" THEN FindingsNext ELSE UNCHANGED findingVars
  /\ CASE part = "collection" -> CollectNext /\ UNCHANGED prospectVars
       [] part = "prospects" -> ProspectNext
       [] OTHER -> UNCHANGED <<collectVars, prospectVars>>
  /\ UNCHANGED part

DeskSpec == DeskInit /\ [][DeskNext]_deskVars

field(k, v) == [key |-> k, value |-> v]
TheMailbox ==
  {[quiet EXCEPT !.refs = r, !.thread = th, !.xFailed = x, !.at = a, !.fields = <<field("status", "5")>>] :
     r \in {{}, {"rfc1"}, {"gm2"}, {"rfc1", "gm2"}}, th \in {"none", "th1", "th2"}, x \in {"none", "adr"}, a \in {0, 2, 5, 9}}
    \cup {[quiet EXCEPT !.fields = f, !.text = [status |-> s, smtp |-> c], !.refs = {"rfc1"}] :
           f \in {<<>>, <<field("status", "4"), field("diagnostic-code", "5")>>, <<field("status", "odd")>>,
                  <<field("diagnostic-code", "odd"), field("action", "failed")>>,
                  <<field("final-recipient", "adr"), field("status", "2"), field("status", "5")>>,
                  <<field("action", "delayed"), field("original-recipient", "adr")>>},
           s \in {0, 4, 5}, c \in {0, 5}}
    \cup {[quiet EXCEPT !.report = FALSE, !.daemon = d, !.refs = {"rfc1"}] : d \in BOOLEAN}
sentMail(m, t, th, c) == [message |-> m, rfcMessageId |-> <<"rfc1", "rfc2">>[m], gmailMessageId |-> <<"gm1", "gm2">>[m],
                          gmailThreadId |-> th, contact |-> c, sentAt |-> t]
TheTracked == {<<>>, <<sentMail(1, 3, "th1", "adr")>>,
               <<sentMail(1, 3, "th1", "adr"), sentMail(2, 4, "th2", "adr")>>,
               <<sentMail(1, 1, "th1", "adr"), sentMail(2, 6, "th1", "other")>>}
TheOptions == {option(TRUE, TRUE, FALSE, "readonly"), option(TRUE, FALSE, FALSE, "readonly"), option(TRUE, TRUE, TRUE, "readonly"),
               option(FALSE, FALSE, TRUE, "none"), option(FALSE, FALSE, FALSE, "readonly"), option(TRUE, TRUE, FALSE, "broader"),
               [option(TRUE, TRUE, FALSE, "readonly") EXCEPT !.fetch = FALSE],
               [option(TRUE, TRUE, FALSE, "readonly") EXCEPT !.search = FALSE, !.strict = FALSE],
               [option(TRUE, TRUE, FALSE, "readonly") EXCEPT !.dry = TRUE]}

word(n) == [reply |-> FALSE, text |-> n, upper |-> FALSE]
theThread == word(5)
firstMail == <<1, 2, 0, 3, 4, 5, 6, -7, 8>>
ThePlaces == {[step |-> 0, thread |-> NoThread, prior |-> {}, recipient |-> "GENERIC_OFFICIAL"],
              [step |-> 1, thread |-> theThread, prior |-> {firstMail}, recipient |-> "GENERIC_OFFICIAL"],
              [step |-> 3, thread |-> theThread, prior |-> {firstMail, <<11, 12>>}, recipient |-> "PERSONAL_VERIFIED"]}
plain == [subjects |-> <<word(5), word(6), word(7)>>, selected |-> word(6), body |-> [i \in 1..11 |-> 20 + i],
          cta |-> "REPLY_FOR_DETAILS", evidence |-> {"website", "slow"}, genericity |-> 30, paragraphs |-> 2,
          mentionsDemo |-> FALSE, alignment |-> "NOT_APPLICABLE", broken |-> {}, language |-> "en"]
echo == [plain EXCEPT !.subjects = <<theThread, replySubject(theThread), theThread>>, !.selected = theThread]
linked(copy) == [copy EXCEPT !.cta = "VIEW_CONCEPT", !.mentionsDemo = TRUE, !.alignment = "PASS"]
lifted == [i \in 1..18 |-> 40 + i] \o <<3, 4, -6, 7>>
TheCopies == [n \in SequenceStep |->
                CASE n = 0 -> {plain, linked(plain)}
                  [] n = 1 -> {echo, [echo EXCEPT !.body = lifted]}
                  [] OTHER -> {linked(echo), [echo EXCEPT !.body = <<0, 1, 30>>, !.genericity = 90]}]
granted == UniversalDimensions \cup SubjectDimensions \cup sequenceJob(3)
             \cup UNION {STEP_DEPENDENT_DIMENSIONS(n) : n \in SequenceStep}
TheReviews == {[decision |-> "APPROVE", grants |-> granted],
               [decision |-> "APPROVE", grants |-> granted \ {"pressureReduced", "persuasive"}]}
someInputs == [facts |-> {"website", "contact_name"}, findings |-> {"slow"}, demoFindings |-> {"slow"}, demo |-> "APPROVED",
               country |-> "UK"]
TheInputs == [n \in SequenceStep |-> IF n = 1 THEN {someInputs, [someInputs EXCEPT !.findings = {}]} ELSE {someInputs}]

(* Three runs: one that shows friction, one in which a control leads to the
   booking page, and one that never looked for it. *)
control(r, t, s, g) == [lead |-> Lead, run |-> r, type |-> t, says |-> s, goes |-> g, url |-> TRUE]
TheEvidence == <<control(1, "cta", TRUE, "page"), control(1, "heading", TRUE, "nowhere"),
                 control(2, "cta", TRUE, "page"), control(2, "link", FALSE, "route"), control(3, "cta", TRUE, "page"),
                 [control(0, "cta", TRUE, "page") EXCEPT !.lead = "other"]>>
TheRuns == <<TRUE, TRUE, FALSE>>
TheMails == {[subject |-> 1, words |-> 3, breaks |-> {}], [subject |-> 1, words |-> 4, breaks |-> {}],
             [subject |-> 2, words |-> 1, breaks |-> {"claim"}]}

(* One surgery under two places, its branch, a namesake in its town, a place
   that is no more than an id, one named by a bare scheme, a blank one, and those to prospect. *)
empty(d) == [word |-> 0, dress |-> d]
text(w) == [word |-> w, dress |-> "plain"]
dressed(w) == [word |-> w, dress |-> "dressed"]
number(w, i, t) == [word |-> w, dress |-> "plain", intl |-> i, code |-> IF i THEN 44 ELSE 0, trunk |-> t]
noNumber(d) == [number(0, FALSE, FALSE) EXCEPT !.dress = d]
nothing == [businessName |-> empty("none"), domain |-> empty("none"), phone |-> noNumber("none"),
            formattedAddress |-> empty("none"), spot |-> 0, city |-> empty("none")]
surgery == [nothing EXCEPT !.businessName = text(1), !.phone = number(1, TRUE, FALSE), !.formattedAddress = text(1), !.spot = 10, !.city = text(1)]
listed(p, f) == [place |-> p, idOnly |-> FALSE, facts |-> f]
known(p) == [place |-> p, idOnly |-> TRUE, facts |-> nothing]
TheCandidates ==
  <<listed(1, surgery),
    listed(2, [surgery EXCEPT !.businessName = text(2), !.phone = number(1, FALSE, TRUE), !.formattedAddress = text(2), !.spot = 11]),
    listed(3, [surgery EXCEPT !.phone = number(1, TRUE, TRUE), !.businessName = dressed(3), !.domain = dressed(1), !.spot = 10]),
    listed(4, [surgery EXCEPT !.phone = number(1, FALSE, TRUE), !.formattedAddress = text(4), !.spot = 90, !.businessName = text(4)]),
    listed(5, [surgery EXCEPT !.phone = noNumber("bare"), !.formattedAddress = text(5), !.spot = 50]),
    listed(6, [nothing EXCEPT !.domain = empty("bare")]), known(7), known(8), known(9), known(10), known(11),
    listed(12, [nothing EXCEPT !.businessName = empty("blank"), !.city = text(1)])>>
ThePages == <<<<1, 4, 6>>, <<2, 5, 7>>, <<12, 7, 3>>>>
TheAnswers == {[outcome |-> "QUALIFIED", signature |-> "UNKNOWN", fast |-> FALSE]}
                \cup {[outcome |-> "WEBSITE_TRANSIENT", signature |-> s, fast |-> s = "TLS"] : s \in {"DNS", "TLS"}}
                \cup {[outcome |-> "WEBSITE_TRANSIENT", signature |-> "DNS", fast |-> TRUE]}
TheNearby == <<{<<7, 8, 10, 11>>}, {<<8>>, <<9>>}>>

OneTab == <<1>>
TwoCampaigns == <<1, 2>>

(* The delivery notices, the sheet, the paid writing sessions, the collection
   and the prospect runs each keep their promises. *)
DeskSound ==
  /\ part = "notices" => NoticesSound
  /\ part = "mirror" => MirrorSound
  /\ part = "sessions" => SessionsSound
  /\ part = "collection" => CollectSound
  /\ part = "prospects" => ProspectSound

DeskSymmetric == Permutations(Testers)

=============================================================================
