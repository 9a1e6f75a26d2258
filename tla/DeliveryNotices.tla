---------------------------- MODULE DeliveryNotices ----------------------------
(***************************************************************************)
(* outreach-reconcile-delivery: which reader runs, what a mailbox message  *)
(* says about a failed delivery, and which tracked e-mail it belongs to.   *)
(*                                                                         *)
(* Sources: src/domain/outreach/delivery.ts, delivery-reconciliation.ts,   *)
(* src/integrations/gmail/http-bounce-reader.ts, http-reply-provider.ts,   *)
(* read-failure.ts and the outreach-reconcile command.                     *)
(*                                                                         *)
(* A status or SMTP code is its first digit, 0 when absent; an address, an *)
(* identifier and a thread are members of small sets, "none" when absent.  *)
(* What the command applies (applyDeliveryFailure) is Outreach's           *)
(* bounceCommit.                                                           *)
(***************************************************************************)
EXTENDS Integers, Sequences, FiniteSets, SequencesExt

CONSTANTS
  Mailbox,           \* messages the search may find
  TrackedLists,      \* lists of e-mails the outreach tables may hold
  ReconcileOptions,  \* options and configuration of the command
  Skew, Window       \* DSN_CLOCK_SKEW_MS, DSN_RECIPIENT_WINDOW_MS

ASSUME NoticesAssumption == Skew \in Nat /\ Window \in Nat /\ Skew < Window

VARIABLES notice, tracked, asked, ruling
noticeVars == <<notice, tracked, asked, ruling>>

(***************************************************************************)
(* What the reader returns and what is tracked                             *)
(***************************************************************************)
Codes == {0, 2, 4, 5}

(* fields: the lines of message/delivery-status, in order; text: the first
   enhanced status and SMTP code found anywhere in the block or the snippet. *)
RawDeliveryNotification ==
  [report : BOOLEAN, daemon : BOOLEAN, subject : BOOLEAN, xFailed : STRING, fields : Seq([key : STRING, value : STRING]),
   text : [status : Codes, smtp : Codes], refs : SUBSET STRING, thread : STRING, at : Nat]

TrackedOutbound == [message : Nat, rfcMessageId : STRING, gmailMessageId : STRING, gmailThreadId : STRING,
                    contact : STRING, sentAt : Nat]

(* credential: the scope of the stored read credential. *)
ReconcileOption == [sync : BOOLEAN, confirmed : BOOLEAN, mock : BOOLEAN, strict : BOOLEAN, dry : BOOLEAN,
                    credential : {"none", "readonly", "broader"}, search : BOOLEAN, fetch : BOOLEAN]

(***************************************************************************)
(* Reading a notice                                                        *)
(***************************************************************************)
isDeliveryNotification(n) == n.report \/ n.daemon \/ n.xFailed # "none" \/ n.subject

fieldOf(n, key) ==
  LET lines == SelectSeq(n.fields, LAMBDA l : l.key = key)
  IN IF lines = <<>> THEN "none" ELSE lines[1].value

(* The first line of each field counts, so of several recipients the first. *)
parseDeliveryStatus(n) ==
  [action |-> fieldOf(n, "action"), status |-> fieldOf(n, "status"), diagnostic |-> fieldOf(n, "diagnostic-code"),
   final |-> fieldOf(n, "final-recipient"), original |-> fieldOf(n, "original-recipient")]

digit(text) == CASE text = "2" -> 2 [] text = "4" -> 4 [] text = "5" -> 5 [] OTHER -> 0

(* A diagnostic that is there hides the code in the free text. *)
parseDsn(n) ==
  LET ds == parseDeliveryStatus(n) IN
  [status |-> IF ds.status = "none" THEN n.text.status ELSE digit(ds.status),
   smtp |-> IF ds.diagnostic = "none" THEN n.text.smtp ELSE digit(ds.diagnostic),
   action |-> ds.action,
   failed |-> {IF ds.final = "none" THEN n.xFailed ELSE ds.final, ds.original, n.xFailed} \ {"none"},
   refs |-> n.refs, thread |-> n.thread, at |-> n.at]

(* Mutant: the SMTP code goes before the enhanced status. *)
classifyDeliveryPermanence_Smtp(d) ==
  CASE d.smtp = 5 -> "PERMANENT"
    [] d.smtp = 4 -> "TEMPORARY"
    [] d.smtp # 5 /\ d.status = 5 -> "PERMANENT"
    [] d.smtp # 4 /\ d.status = 4 -> "TEMPORARY"
    [] OTHER -> "UNKNOWN"

classifyDeliveryPermanence(d) ==
  CASE d.status = 5 -> "PERMANENT"
    [] d.status = 4 -> "TEMPORARY"
    [] d.status = 2 -> "UNKNOWN"
    [] d.status = 0 /\ d.smtp = 5 -> "PERMANENT"
    [] d.status = 0 /\ d.smtp = 4 -> "TEMPORARY"
    [] d.status = 0 /\ d.smtp \notin {4, 5} -> IF d.action = "delayed" THEN "TEMPORARY" ELSE "UNKNOWN"

permanenceToDeliveryStatus(p) == IF p = "PERMANENT" THEN "BOUNCED" ELSE "DELIVERY_UNKNOWN"

(***************************************************************************)
(* Finding the e-mail                                                      *)
(***************************************************************************)
(* Mutant: clocks are taken to agree with whatever came in. *)
dsnIsAfterSend_Any(d, o) == TRUE

dsnIsAfterSend(d, o) == d.at + Skew >= o.sentAt

MatchSignals == <<"RFC_MESSAGE_ID", "GMAIL_MESSAGE_ID", "THREAD_ID", "RECIPIENT">>

hits(d, o, signal) ==
  CASE signal = "RFC_MESSAGE_ID" -> o.rfcMessageId \in d.refs
    [] signal = "GMAIL_MESSAGE_ID" -> o.gmailMessageId \in d.refs
    [] signal = "THREAD_ID" -> d.thread # "none" /\ o.gmailThreadId = d.thread
    [] signal = "RECIPIENT" -> o.contact \in d.failed

eligible(d, o, signal) ==
  /\ hits(d, o, signal) /\ dsnIsAfterSend(d, o)
  /\ signal = "RECIPIENT" => d.at <= o.sentAt + Window

Uncorrelated(reason) == [kind |-> "none", signal |-> reason, message |-> 0]

uniqueByMessage(found, signal) ==
  LET messages == {o.message : o \in found} IN
  IF Cardinality(messages) > 1 THEN [kind |-> "ambiguous", signal |-> signal, message |-> 0]
  ELSE [kind |-> "matched", signal |-> signal, message |-> CHOOSE m \in messages : TRUE]

unmatched(d, sent) ==
  LET named == \E o \in sent, k \in 1..3 : hits(d, o, MatchSignals[k])
      addressed == {o \in sent : hits(d, o, "RECIPIENT")}
  IN IF named \/ \E o \in addressed : ~ dsnIsAfterSend(d, o) THEN "BEFORE_SENT"
     ELSE IF addressed # {} THEN "OUTSIDE_WINDOW" ELSE "NO_SIGNAL"

(* Mutant: what the weakest signal finds is good enough. *)
correlateDsn_Weakest(d, list) ==
  LET sent == ToSet(list)
      found(k) == {o \in sent : eligible(d, o, MatchSignals[k])}
      tiers == {k \in DOMAIN MatchSignals : found(k) # {}}
  IN IF tiers = {} THEN Uncorrelated(unmatched(d, sent))
     ELSE LET k == Max(tiers) IN uniqueByMessage(found(k), MatchSignals[k])

(* The strongest signal that finds anything decides. *)
correlateDsn(d, list) ==
  LET sent == ToSet(list)
      found(k) == {o \in sent : eligible(d, o, MatchSignals[k])}
      tiers == {k \in DOMAIN MatchSignals : found(k) # {}}
  IN IF tiers = {} THEN Uncorrelated(unmatched(d, sent))
     ELSE LET k == Min(tiers) IN uniqueByMessage(found(k), MatchSignals[k])

(***************************************************************************)
(* The command                                                             *)
(***************************************************************************)
selectReplyReader(a) ==
  LET live == a.sync \/ a.confirmed IN
  CASE live /\ a.mock -> "refuse"
    [] live /\ ~ a.mock -> "live"
    [] ~ live /\ a.mock -> "mock"
    [] ~ live /\ ~ a.mock -> "refuse"

liveReplyReadGate(a) == a.sync /\ a.confirmed
verifyReadAccess(a) == a.credential = "readonly"

(* Mutant: a live reader that is refused is replaced by the mock. *)
reader_Fallback(a) ==
  IF selectReplyReader(a) = "live" /\ ~ (liveReplyReadGate(a) /\ verifyReadAccess(a)) THEN "mock"
  ELSE selectReplyReader(a)

reader(a) ==
  IF selectReplyReader(a) = "live" /\ ~ (liveReplyReadGate(a) /\ verifyReadAccess(a)) THEN "refuse"
  ELSE selectReplyReader(a)

(* A search or a fetch that fails yields nothing and is logged; the mock
   mailbox is empty, and without a tracked address there is no search. *)
listCandidateIds(a, list) == list # <<>> /\ a.search
fetchNotification(a, n) == IF a.fetch THEN <<n>> ELSE <<>>
findDeliveryNotifications(a, n, list) ==
  IF reader(a) = "live" /\ listCandidateIds(a, list) THEN fetchNotification(a, n) ELSE <<>>
readFailures(a, list) == reader(a) = "live" /\ list # <<>> /\ ~ (a.search /\ a.fetch)

enforceStrictLiveRead(a, list) == IF a.strict /\ readFailures(a, list) THEN "GMAIL_READ_INCOMPLETE" ELSE "ok"

NotRuled == [exit |-> "none", reader |-> "none", correlation |-> Uncorrelated("none"), status |-> "none", applied |-> FALSE]

toProposal(a, n, list) ==
  LET found == correlateDsn(parseDsn(n), list) IN
  IF ~ isDeliveryNotification(n) THEN [NotRuled EXCEPT !.correlation = Uncorrelated("NOT_A_DSN")]
  ELSE IF found.kind # "matched" THEN [NotRuled EXCEPT !.correlation = found]
  ELSE [NotRuled EXCEPT !.correlation = found, !.applied = ~ a.dry,
                        !.status = permanenceToDeliveryStatus(classifyDeliveryPermanence(parseDsn(n)))]

reconcileDelivery ==
  /\ ruling = NotRuled
  /\ ruling' = IF reader(asked) = "refuse" THEN [NotRuled EXCEPT !.exit = "GMAIL_READ_REFUSED", !.reader = "refuse"]
               ELSE LET read == findDeliveryNotifications(asked, notice, tracked)
                        result == IF read = <<>> THEN NotRuled ELSE toProposal(asked, notice, tracked)
                    IN [result EXCEPT !.reader = reader(asked), !.exit = enforceStrictLiveRead(asked, tracked)]
  /\ UNCHANGED <<notice, tracked, asked>>

NoticesInit ==
  /\ notice \in Mailbox /\ tracked \in TrackedLists /\ asked \in ReconcileOptions
  /\ ruling = NotRuled

NoticesSpec == NoticesInit /\ [][reconcileDelivery]_noticeVars

(***************************************************************************)
(* Properties                                                              *)
(***************************************************************************)
isMatched == ruling.correlation.kind = "matched"
theMatch == CHOOSE o \in ToSet(tracked) : o.message = ruling.correlation.message

(* How clearly the notice speaks of an e-mail: by an identifier, by its
   thread, by its address alone. *)
clarity(o) ==
  CASE o.rfcMessageId \in notice.refs -> 1
    [] o.rfcMessageId \notin notice.refs /\ o.gmailMessageId \in notice.refs -> 2
    [] {o.rfcMessageId, o.gmailMessageId} \cap notice.refs = {} /\ notice.thread = o.gmailThreadId -> 3
    [] OTHER -> 4

(* A notice is laid to an e-mail only if that e-mail had left by then, by the
   address alone only within the window, and never if it speaks as clearly
   of another e-mail that had left: such a notice is ambiguous, and one that
   names an e-mail is not laid to another to the same address. *)
MatchIsUnmistakable ==
  isMatched =>
    /\ notice.at + Skew >= theMatch.sentAt
    /\ clarity(theMatch) = 4 => notice.at <= theMatch.sentAt + Window
    /\ \A o \in ToSet(tracked) :
         o.message # theMatch.message /\ o.sentAt <= notice.at /\ notice.at <= o.sentAt + Window
           => clarity(theMatch) < clarity(o) \/ (clarity(o) = 4 /\ o.contact # theMatch.contact)

(* A record is given up as bounced only on a proof: a permanent enhanced
   status, or, when no status says otherwise, a permanent SMTP code. *)
BouncesAreProved ==
  ruling.status = "BOUNCED" =>
    LET status == fieldOf(notice, "status")
        code == fieldOf(notice, "diagnostic-code")
    IN /\ status \notin {"2", "4"}
       /\ "5" \in {status, code} \/ 5 \in {notice.text.status, notice.text.smtp}

(* Whoever asked for the mailbox gets the mailbox or an error, and in strict
   mode an inbox that could not be read never passes for an empty one. *)
OutageIsNoAllClear ==
  /\ ruling.reader = "mock" => ~ asked.sync /\ ~ asked.confirmed
  /\ ruling.reader = "live" => asked.sync /\ asked.confirmed /\ asked.credential = "readonly"
  /\ ruling.exit = "ok" /\ ruling.reader = "live" /\ asked.strict /\ tracked # <<>> => asked.search /\ asked.fetch
  /\ ruling.applied => ~ asked.dry

NoticesSound == MatchIsUnmistakable /\ BouncesAreProved /\ OutageIsNoAllClear

=============================================================================
