------------------------------ MODULE SheetMirror ------------------------------
(***************************************************************************)
(* outreach-sync-sheet: the Google Sheet as a one-way projection of the    *)
(* outreach tables.                                                        *)
(*                                                                         *)
(* Sources: src/domain/outreach/sheet-sync.ts,                             *)
(* src/integrations/google/sheets/http-sheets.ts, the projection of        *)
(* outreach.repo.ts and the outreach-sync-sheet command.                   *)
(*                                                                         *)
(* The cells of a row are one value: the version of the database row they  *)
(* show.  A tab is the list of its lines below the header; Blank is a line *)
(* without a row id.  Sync sessions overlap, the database goes on changing *)
(* and operators edit cells (but leave the row ids, as the header asks).   *)
(***************************************************************************)
EXTENDS Integers, Sequences, FiniteSets, SequencesExt

CONSTANTS
  Syncers,                    \* sessions of the command
  SheetTabs,                  \* the tabs, in the order they are written
  RowIds, CampaignOfRow,      \* row ids and the campaign each belongs to
  MaxVersion, MaxSyncs        \* bounds

ASSUME MirrorAssumption ==
  /\ RowIds \subseteq Nat \ {0} /\ IsFiniteSet(RowIds) /\ DOMAIN CampaignOfRow = RowIds
  /\ {MaxVersion, MaxSyncs} \subseteq Nat

VARIABLES
  ledger,    \* what the tables hold: the version of each row, 0 if it is not there
  sheet,     \* the lines of each tab
  syncer,    \* local state of each session
  mirrored,  \* history: the last write of a tab
  syncs      \* syncs started so far
mirrorVars == <<ledger, sheet, syncer, mirrored, syncs>>

Tabs == ToSet(SheetTabs)
Versions == 1..MaxVersion
Line(i, v) == [id |-> i, cells |-> v]
Blank == Line(0, 0)
byRowId(a, b) == a.id < b.id
Cells == 0..MaxVersion           \* 0: an operator's own text

NoSync == [op |-> "idle", scope |-> 0, tab |-> 0, rows |-> <<>>, current |-> <<>>, alone |-> TRUE]
NothingMirrored == [tab |-> 0, scope |-> 0, rows |-> <<>>, before |-> <<>>, after |-> <<>>, alone |-> FALSE]

(* A new spreadsheet, or one an earlier sync has filled. *)
MirrorInit ==
  /\ ledger = [t \in Tabs |-> [i \in RowIds |-> 1]]
  /\ \E lines \in {<<>>, SetToSortSeq({Line(i, 1) : i \in RowIds}, byRowId)} :
       sheet = [t \in Tabs |-> lines]
  /\ syncer = [s \in Syncers |-> NoSync]
  /\ mirrored = NothingMirrored /\ syncs = 0

(***************************************************************************)
(* The projection                                                          *)
(***************************************************************************)
inScope(i, scope) == scope = 0 \/ CampaignOfRow[i] = scope

(* The rows of each tab, of all campaigns (scope 0) or of one: records,
   messages, due follow-ups and replies. *)
projection(scope) == [t \in Tabs |-> {Line(i, ledger[t][i]) : i \in {j \in RowIds : inScope(j, scope) /\ ledger[t][j] # 0}}]

buildAllTabs(rows) == [t \in Tabs |-> SetToSortSeq(rows[t], byRowId)]

(* A preview writes nothing; a live write needs the http provider, the
   switch, the confirmation, a spreadsheet and a credential that fits. *)
mayWrite(o) == ~ o.preview /\ o.enabled /\ o.confirmed /\ o.access
SyncOption == [preview : BOOLEAN, enabled : BOOLEAN, confirmed : BOOLEAN, access : BOOLEAN]

(* A preview and a refused write leave no trace. *)
beginSync(s, scope, o) ==
  /\ syncer[s] = NoSync /\ syncs < MaxSyncs /\ mayWrite(o)
  /\ syncs' = syncs + 1
  /\ syncer' = [syncer EXCEPT ![s] = [NoSync EXCEPT !.op = "projected", !.scope = scope, !.tab = 1,
                                                    !.rows = buildAllTabs(projection(scope))]]
  /\ UNCHANGED <<ledger, sheet, mirrored>>

(***************************************************************************)
(* applyTab: read, merge, write in one request                             *)
(***************************************************************************)
tabOf(s) == SheetTabs[syncer[s].tab]
isRow(line) == line.id # 0

(* Lines without a row id are skipped. *)
readTab(t) == SelectSeq(sheet[t], isRow)

readCurrent(s) ==
  /\ syncer[s].op = "projected"
  /\ syncer' = [syncer EXCEPT ![s].op = "read", ![s].current = readTab(tabOf(s)), ![s].alone = TRUE]
  /\ UNCHANGED <<ledger, sheet, mirrored, syncs>>

cellsOf(lines, i) == LET same == SelectSeq(lines, LAMBDA l : l.id = i) IN same[Len(same)].cells
idsOf(lines) == {lines[k].id : k \in DOMAIN lines}

(* Mutant: a scoped sync removes what it did not compute. *)
finalById_Scoped(s) == LET desired == syncer[s].rows[tabOf(s)] IN desired

(* A full sync keeps nothing it did not project, a scoped one everything. *)
finalById(s) ==
  LET desired == syncer[s].rows[tabOf(s)]
      current == syncer[s].current
      kept == IF syncer[s].scope = 0 THEN {} ELSE idsOf(current) \ idsOf(desired)
  IN SetToSortSeq(ToSet(desired) \cup {Line(i, cellsOf(current, i)) : i \in kept}, byRowId)

(* Mutant: only the new rows are written. *)
grid_Short(rows, current) == rows

(* As many lines as the longer of the two, blank below the new rows. *)
grid(rows, current) ==
  [k \in 1..(IF Len(rows) > Len(current) THEN Len(rows) ELSE Len(current)) |->
     IF k \in DOMAIN rows THEN rows[k] ELSE Blank]

overwrite(lines, written) ==
  [k \in 1..(IF Len(written) > Len(lines) THEN Len(written) ELSE Len(lines)) |->
     IF k \in DOMAIN written THEN written[k] ELSE lines[k]]

(* Reading leaves out the blank lines at the end. *)
trimmed(lines) ==
  LET last == {k \in DOMAIN lines : isRow(lines[k])} IN SubSeq(lines, 1, IF last = {} THEN 0 ELSE Max(last))

nextTab(s) ==
  IF syncer[s].tab = Len(SheetTabs) THEN NoSync ELSE [syncer[s] EXCEPT !.op = "projected", !.tab = @ + 1, !.current = <<>>]

disturb(t, me) ==
  [s \in Syncers |-> IF s # me /\ syncer[s] # NoSync /\ tabOf(s) = t THEN [syncer[s] EXCEPT !.alone = FALSE] ELSE syncer[s]]

(* The one updateCells request; a failure writes nothing and ends the sync
   with the earlier tabs written. *)
writeTab(s) ==
  LET t == tabOf(s)
      rows == finalById(s)
      lines == trimmed(overwrite(sheet[t], grid(rows, syncer[s].current)))
  IN
  /\ syncer[s].op = "read"
  /\ sheet' = [sheet EXCEPT ![t] = lines]
  /\ mirrored' = [tab |-> t, scope |-> syncer[s].scope, rows |-> syncer[s].rows[t], before |-> sheet[t],
                  after |-> lines, alone |-> syncer[s].alone]
  /\ syncer' = [disturb(t, s) EXCEPT ![s] = nextTab(s)]
  /\ UNCHANGED <<ledger, syncs>>

failSync(s) ==
  /\ syncer[s] # NoSync
  /\ syncer' = [syncer EXCEPT ![s] = NoSync]
  /\ UNCHANGED <<ledger, sheet, mirrored, syncs>>

(***************************************************************************)
(* The world around the sync                                               *)
(***************************************************************************)
(* A row comes, changes or goes, as follow-ups do when they are done. *)
ledgerChanges(t, i, v) ==
  /\ v # ledger[t][i]
  /\ ledger' = [ledger EXCEPT ![t][i] = v]
  /\ UNCHANGED <<sheet, syncer, mirrored, syncs>>

operatorEdits(t, k) ==
  /\ k \in DOMAIN sheet[t] /\ isRow(sheet[t][k]) /\ sheet[t][k].cells # 0
  /\ sheet' = [sheet EXCEPT ![t][k].cells = 0]
  /\ syncer' = disturb(t, 0)
  /\ UNCHANGED <<ledger, mirrored, syncs>>

MirrorNext ==
  \/ \E s \in Syncers : \/ readCurrent(s) \/ writeTab(s) \/ failSync(s)
                        \/ \E scope \in {0} \cup {CampaignOfRow[i] : i \in RowIds}, o \in SyncOption :
                             beginSync(s, scope, o)
  \/ \E t \in Tabs : \/ \E i \in RowIds, v \in 0..MaxVersion : ledgerChanges(t, i, v)
                     \/ \E k \in DOMAIN sheet[t] : operatorEdits(t, k)

MirrorSpec == MirrorInit /\ [][MirrorNext]_mirrorVars

(***************************************************************************)
(* Properties                                                              *)
(***************************************************************************)
MirrorTypeOK ==
  /\ ledger \in [Tabs -> [RowIds -> 0..MaxVersion]]
  /\ \A t \in Tabs : \A k \in DOMAIN sheet[t] : sheet[t][k] \in [id : RowIds \cup {0}, cells : Cells]
  /\ syncs \in 0..MaxSyncs

whole(lines) == \A k \in DOMAIN lines : isRow(lines[k])

(* A full sync that no other write to the tab overlapped leaves exactly the
   projected rows, each once, in order, and no line of before, provided the
   tab had no blank line among its rows. *)
FullSyncMirrors ==
  mirrored.alone /\ mirrored.scope = 0 /\ whole(mirrored.before) => mirrored.after = mirrored.rows

(* A sync of one campaign that nothing overlapped leaves the other campaigns'
   lines as they were, provided no earlier overlap left a row on two lines. *)
ScopedSyncSpares ==
  mirrored.alone /\ mirrored.scope # 0 /\ whole(mirrored.before)
    /\ Cardinality(idsOf(mirrored.before)) = Len(mirrored.before) =>
    \A k \in DOMAIN mirrored.before :
      ~ inScope(mirrored.before[k].id, mirrored.scope) => mirrored.before[k] \in ToSet(mirrored.after)

MirrorSound == MirrorTypeOK /\ FullSyncMirrors /\ ScopedSyncSpares

=============================================================================
