------------------------- MODULE CompetitorSelection -------------------------
(***************************************************************************)
(* Which of the businesses in a source are comparable to a prospect: the    *)
(* deduplication, the gates and the 100-point score, the two radii, and the *)
(* choice of at most MaxSelected of them, one per brand.                    *)
(*                                                                          *)
(* Sources: domain/competitor/selection.ts, scoring.ts, category.ts and     *)
(* constants.ts.                                                            *)
(*                                                                          *)
(* A row says how it compares with the prospect: what the code derives from *)
(* names, domains and coordinates is a field here. Domains and brands are   *)
(* numbers, since the code orders domains; 0 is a value that is missing.    *)
(***************************************************************************)
EXTENDS Naturals, FiniteSets, Sequences

CONSTANTS
  RowKinds,      \* the rows a source may hold
  ProspectServices,  \* how many services the prospect lists
  MaxRows,       \* bound on the rows of a source
  MaxSelected    \* config.maxSelected

ASSUME SelectionAssumption == {MaxRows, ProspectServices} \subseteq Nat /\ MaxSelected \in Nat \ {0}

VARIABLES
  rows,       \* the source, in row order
  chosen      \* what selectCompetitors returns

selectionVars == <<rows, chosen>>

Radii == [PRIMARY_5KM |-> 5, FALLBACK_10KM |-> 10]
MIN_COMPARABILITY == 70
Compared == {"same", "other", "unknown"}

(* "kin" says what the row has in common with the prospect: its domain ("self"),
   its registrable domain or parent brand ("branch"). The comparison of names has
   the prospect's website in place of its name, and so finds nothing. *)
Row == [provider : Nat, domain : Nat, name : Nat, brand : Nat, kin : {"none", "self", "branch"}, listing : BOOLEAN,
        malformed : BOOLEAN, category : {"EXACT", "RELATED", "WEAK", "NONE"}, services : BOOLEAN, overlap : Nat, km : Nat,
        type : Compared, market : Compared, language : BOOLEAN]

NoCoordinates == 0
NotChosen == [radius |-> "none", accepted |-> {}, selected |-> {}, rank |-> <<>>, outcome |-> "none"]

SelectionTypeOK ==
  /\ rows \in Seq(Row)
  /\ chosen \in [radius : DOMAIN Radii \cup {"none"}, accepted : SUBSET DOMAIN rows, selected : SUBSET DOMAIN rows,
                 rank : Seq(DOMAIN rows),
                 outcome : {"none", "NO_CANDIDATES_FOUND", "RESEARCHED", "INSUFFICIENT_COMPARABLE"}]

SelectionInit == rows \in UNION {[1..n -> RowKinds] : n \in 0..MaxRows} /\ chosen = NotChosen

(***************************************************************************)
(* One row                                                                 *)
(***************************************************************************)
(* Independent businesses are brands of their own. *)
brandKey(k) == IF rows[k].brand # 0 THEN <<"brand", rows[k].brand>>
               ELSE IF rows[k].domain # 0 THEN <<"domain", rows[k].domain>> ELSE <<"row", k>>

(* The first of several rows with one provider id, one domain or one name and
   city stays; a row that was dropped hides nothing. *)
shareIdentity(a, b) ==
  \/ a.provider # 0 /\ a.provider = b.provider
  \/ a.domain # 0 /\ a.domain = b.domain
  \/ a.name # 0 /\ a.name = b.name

survivors ==
  LET upTo[k \in 0..Len(rows)] ==
        IF k = 0 THEN {}
        ELSE IF \E j \in upTo[k - 1] : shareIdentity(rows[j], rows[k]) THEN upTo[k - 1] ELSE upTo[k - 1] \cup {k}
  IN upTo[Len(rows)]

atMost(n, limit) == IF n < limit THEN n ELSE limit

(* The gates before any points. A related category needs two services in common,
   or the only one that the prospect lists. *)
passesGates(r, radiusKm) ==
  /\ ~ r.malformed /\ r.domain # 0
  /\ r.kin = "none" /\ ~ r.listing
  /\ r.market # "other"
  /\ r.category = "EXACT" \/ (r.category = "RELATED" /\ r.overlap >= 1 /\ r.overlap >= atMost(2, ProspectServices))
  /\ r.km # NoCoordinates /\ r.km <= radiusKm

comparabilityScore(r) ==
  (IF r.category = "EXACT" THEN 45 ELSE 25) + 5 * atMost(r.overlap, 4) + (IF r.km <= 5 THEN 15 ELSE 8)
    + (CASE r.type = "same" -> 10 [] r.type = "other" -> 5 [] r.type = "unknown" -> 0)
    + (IF r.market = "same" THEN 6 ELSE 0) + (IF r.language THEN 4 ELSE 0)

(* Category and coordinates are there once the gates are passed. *)
confidence(r) ==
  LET supplied == (IF r.services /\ ProspectServices > 0 THEN 1 ELSE 0) + (IF r.type # "unknown" THEN 1 ELSE 0)
                    + (IF r.market # "unknown" THEN 1 ELSE 0)
  IN CASE supplied = 3 -> "HIGH" [] supplied \in 1..2 -> "MEDIUM" [] supplied = 0 -> "LOW"

scoreCandidate(r, radiusKm) ==
  passesGates(r, radiusKm) /\ comparabilityScore(r) >= MIN_COMPARABILITY /\ confidence(r) # "LOW"

(***************************************************************************)
(* The choice                                                              *)
(***************************************************************************)
runPass(radiusKm) == {k \in survivors : scoreCandidate(rows[k], radiusKm)}

(* rankAccepted: by score, then distance, then domain. *)
ranksBefore(j, k) ==
  LET a == rows[j] b == rows[k] IN
  \/ comparabilityScore(a) > comparabilityScore(b)
  \/ comparabilityScore(a) = comparabilityScore(b) /\ a.km < b.km
  \/ comparabilityScore(a) = comparabilityScore(b) /\ a.km = b.km /\ a.domain < b.domain

(* Mutant: a nearer row comes first, whatever it scores. *)
ranked_Nearest(accepted) ==
  CHOOSE s \in [1..Cardinality(accepted) -> accepted] :
    \A m, n \in 1..Cardinality(accepted) :
      m < n => s[m] # s[n] /\ rows[s[m]].km <= rows[s[n]].km

ranked(accepted) ==
  CHOOSE s \in [1..Cardinality(accepted) -> accepted] :
    \A m, n \in 1..Cardinality(accepted) : m < n => ranksBefore(s[m], s[n])

(* Mutant: a branch of a brand that is in takes a place of its own. *)
takeBest_Branches(order) ==
  LET upTo[n \in 0..Len(order)] ==
        IF n = 0 THEN {}
        ELSE IF Cardinality(upTo[n - 1]) >= MaxSelected THEN upTo[n - 1] ELSE upTo[n - 1] \cup {order[n]}
  IN upTo[Len(order)]

(* Down the ranking: one branch of a brand, and not more than MaxSelected. *)
takeBest(order) ==
  LET upTo[n \in 0..Len(order)] ==
        IF n = 0 THEN {}
        ELSE IF \/ \E k \in upTo[n - 1] : brandKey(k) = brandKey(order[n])
                \/ Cardinality(upTo[n - 1]) >= MaxSelected
             THEN upTo[n - 1] ELSE upTo[n - 1] \cup {order[n]}
  IN upTo[Len(order)]

(* Mutant: the ranks are the scores. *)
inRowOrder_Scores(selected) == [m \in 1..Cardinality(selected) |-> MIN_COMPARABILITY]

(* acceptanceRank counts the selected rows in row order. *)
inRowOrder(selected) ==
  CHOOSE s \in [1..Cardinality(selected) -> selected] :
    \A m, n \in 1..Cardinality(selected) : m < n => s[m] < s[n]

(* Mutant: the wider circle is taken only if the smaller one is empty. *)
activeRadius_Empty == IF runPass(Radii.PRIMARY_5KM) = {} THEN "FALLBACK_10KM" ELSE "PRIMARY_5KM"

activeRadius == IF Cardinality(runPass(Radii.PRIMARY_5KM)) < 2 THEN "FALLBACK_10KM" ELSE "PRIMARY_5KM"

selectCompetitors ==
  /\ chosen = NotChosen
  /\ LET accepted == runPass(Radii[activeRadius])
         selected == takeBest(ranked(accepted))
     IN chosen' = [radius |-> activeRadius, accepted |-> accepted, selected |-> selected,
                   rank |-> inRowOrder(selected),
                   outcome |-> IF rows = <<>> THEN "NO_CANDIDATES_FOUND"
                               ELSE IF Cardinality(selected) >= 2 THEN "RESEARCHED" ELSE "INSUFFICIENT_COMPARABLE"]
  /\ UNCHANGED rows

SelectionSpec == SelectionInit /\ [][selectCompetitors]_selectionVars

(***************************************************************************)
(* Properties                                                              *)
(***************************************************************************)
(* Nobody better was left out: an accepted row that is not selected comes after
   a selected branch of its own brand, or after every selected row, of which
   there are then as many as may be. *)
NobodyBetterLeftOut ==
  \A k \in chosen.accepted \ chosen.selected :
    \/ \E j \in chosen.selected : brandKey(j) = brandKey(k) /\ ranksBefore(j, k)
    \/ Cardinality(chosen.selected) = MaxSelected /\ \A j \in chosen.selected : ranksBefore(j, k)

(* The selected rows are different businesses, none of them the prospect: no two
   share an identity or a brand, however the source repeats them. *)
SelectedAreDifferentBusinesses ==
  /\ Cardinality(chosen.selected) <= MaxSelected
  /\ \A j \in chosen.selected : rows[j].kin = "none"
  /\ \A j, k \in chosen.selected : j # k => ~ shareIdentity(rows[j], rows[k]) /\ brandKey(j) # brandKey(k)

(* A selection that is called insufficient looked in the wider circle, or was
   kept from it by several branches of one brand nearby. *)
InsufficientLookedWider ==
  chosen.outcome = "INSUFFICIENT_COMPARABLE" =>
    \/ chosen.radius = "FALLBACK_10KM"
    \/ Cardinality(chosen.accepted) >= 2 /\ \A j, k \in chosen.accepted : brandKey(j) = brandKey(k)

(* The selected competitors are the best there are, each once, and too few of
   them only when the wider circle was searched too. *)
SelectionSound ==
  SelectionTypeOK /\ NobodyBetterLeftOut /\ SelectedAreDifferentBusinesses /\ InsufficientLookedWider

=============================================================================
