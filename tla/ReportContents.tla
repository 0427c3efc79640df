--------------------------- MODULE ReportContents ---------------------------
(***************************************************************************)
(* What becomes of the answer of the model on its way into a report and    *)
(* out again: generate_analysis_report_with_citations and                  *)
(* sanitize_report_payload of app/ai/report_ai.py, the section models of   *)
(* app/schemas/analysis_report.py, report_citation_service.py, and the     *)
(* halves of start_analysis and get_report (analysis_report_service.py)    *)
(* that work on contents.  AnalysisLifecycle models their transactions.    *)
(*                                                                         *)
(* The answer is anything: it names evidence of other requests or none at  *)
(* all, scores out of range, or nothing that can be sorted.  Of the six    *)
(* sections three stand for the ways a section is processed: factors and   *)
(* points of a trend that are accepted as they are (market_analysis),      *)
(* segments and platforms that are scored and ranked.  Scores are in       *)
(* hundredths of a point.                                                  *)
(***************************************************************************)
EXTENDS Integers, Sequences, FiniteSets, SequencesExt

CONSTANTS
  Requests,
  MaxEvidences,   (* evidences of one retrieval run                          *)
  MaxIds,         (* bound: retrieval_evidences.id                           *)
  Sources,        (* what _reference_key finds in the metadata of several    *)
  Weightings,     (* scoreWeights of platforms, with their sum               *)
  Answers,        (* answers that are JSON objects with all sections         *)
  Garbage,        (* an answer that is not                                   *)
  Text,           (* a score that is a string                                *)
  None            (* null                                                    *)

Market   == "market_analysis"
Target   == "target_customer_analysis"
Platform == "platform_recommendation"
Keys     == {Market, Target, Platform}

Evidence == [of: Requests, source: Sources \cup {None}]

(* The keys under which ids are looked for *)
IdKeys == {"evidenceIds", "evidence_ids"}

(* A factor, a point of demandTrend, a segment or a platform: its place in the
   list of the answer, the ids it cites (what is not a number stands as an id
   that no evidence has), and what is rated of it.  TrendPoint requires its
   value, the score of a point, and neither declares valueType nor evidenceIds:
   it takes them, as every model does what it does not know.  The points come
   after the factors, as demandTrend does in its section. *)
Item ==
  [at: Nat, ids: [IdKeys -> Seq(Int)], observed: BOOLEAN, required: BOOLEAN,
   score: Int \cup {Text, None}, rank: Nat,
   parts: Seq(Int \cup {Text, None}), weights: Weightings \cup {None}]

ASSUME ReportConstants ==
  /\ MaxEvidences \in Nat /\ MaxIds \in Nat
  /\ None \notin Sources \cup Weightings \cup Evidence
  /\ None \notin Int /\ Text \notin Int /\ Text # None
  /\ \A w \in Weightings : w.sum \in Int
  /\ Garbage \notin Answers
  /\ Answers \subseteq [Keys -> [evidenceIds: Seq(Int), items: Seq(Item)]]
  /\ \A a \in Answers : \A k \in Keys : \A n \in DOMAIN a[k].items :
       /\ a[k].items[n].at = n
       /\ k = Target => Len(a[k].items[n].parts) \in {0, 4}

VARIABLES
  evidence,   (* retrieval_evidences: the request of the run and the source,
                 in the order of their serial ids; deleted ones stay as
                 None, for an id is never given twice                        *)
  answer,     (* the answer of the model a report was made of                *)
  report,     (* analysis_reports: the six JSONB columns                     *)
  citations   (* report_citations: by section, in the order of their ids     *)

vars == <<evidence, answer, report, citations>>

NoReport == [schema |-> "none"]

(* A report written before the visual fields: schemaVersion 2.1-legacy. *)
LegacyReport == [schema |-> "2.1-legacy", sections |-> [k \in Keys |-> <<>>]]

Nothing == [k \in Keys |-> <<>>]

(* The members of S one after the other, R being what comes before what *)
Listed(S, R) ==
  [n \in 1 .. Cardinality(S) |->
     CHOOSE x \in S : Cardinality({y \in S : <<y, x>> \in R}) = n - 1]

(* What s has at the positions S *)
Kept(s, S) ==
  LET order == Listed(S, {p \in S \X S : p[1] < p[2]})
  IN  [n \in DOMAIN order |-> s[order[n]]]

(* The positions of s at which its elements occur first *)
Firsts(s) == {i \in DOMAIN s : \A j \in 1 .. i - 1 : s[j] # s[i]}

MaxScore == 10000

InRange(x) == x = None \/ x \in 0 .. MaxScore

-----------------------------------------------------------------------------
(* _normalize_ai_section *)

(* key=(-score, _inputOrder) *)
Before(s, i, j) ==
  \/ s[i].score > s[j].score
  \/ s[i].score = s[j].score /\ i < j

(* What s has at the positions S, sorted and ranked *)
Ranked(s, S) ==
  LET order == Listed(S, {p \in S \X S : Before(s, p[1], p[2])})
  IN  [n \in DOMAIN order |-> [s[order[n]] EXCEPT !.rank = n]]

(* target-priority-v1.0, from the four scores of a segment *)
Priority(c) == c[1] * 35 + c[2] * 35 + c[3] * 20 + (100 - c[4]) * 10

Numeric(parts) == parts # <<>> /\ \A i \in DOMAIN parts : parts[i] \in Int

ScoredSegment(x) ==
  IF Numeric(x.parts) THEN [x EXCEPT !.score = Priority(x.parts)] ELSE x

(* channel-fit-v1.0; the parts of the breakdown are one number here, so that
   the weighted sum is that number times the sum of the weights *)
ScoredPlatform(x) ==
  IF Numeric(x.parts) /\ x.weights # None
  THEN [x EXCEPT !.score = x.parts[1] * x.weights.sum]
  ELSE x

(* RankedPlatform *)
PlatformValid(x) ==
  /\ InRange(x.score)
  /\ \A i \in DOMAIN x.parts : InRange(x.parts[i])
  /\ x.weights = None \/ x.weights.sum = 1

(* A platform that is not valid is tried without its breakdown and weights. *)
Unweighted(x) == [x EXCEPT !.parts = <<>>, !.weights = None]

Repaired(x) == IF PlatformValid(x) THEN x ELSE Unweighted(x)

Scored(k, items) ==
  [n \in DOMAIN items |->
     IF k = Target THEN ScoredSegment(items[n])
     ELSE Repaired(ScoredPlatform(items[n]))]

(* Segments and platforms without a score are dropped, and platforms that are
   not valid. *)
Rankable(k, s) ==
  {n \in DOMAIN s : s[n].score # None /\ (k = Platform => PlatformValid(s[n]))}

Normalized(k, items) ==
  IF k = Market THEN items
  ELSE LET s == Scored(k, items) IN Ranked(s, Rankable(k, s))

(* A JSON object with its sections; -item["priorityScore"] of a text raises
   TypeError. *)
Usable(a) ==
  IF a = Garbage THEN FALSE
  ELSE \A n \in DOMAIN a[Target].items :
         ScoredSegment(a[Target].items[n]).score \in Int \cup {None}

-----------------------------------------------------------------------------
(* The section models *)

InOrder(items) ==
  \A n \in DOMAIN items :
    /\ items[n].score # None /\ items[n].rank = n
    /\ n > 1 => items[n - 1].score >= items[n].score

OneWeighting(items) ==
  Cardinality({items[n].weights : n \in DOMAIN items} \ {None}) <= 1

SegmentValid(x) ==
  \A i \in DOMAIN x.parts : x.parts[i] = None \/ x.parts[i] \in 0 .. 100

(* A score may be null and has a range; the value of a point is a number, of
   whatever size, and may not be null. *)
ValueValid(x) == IF x.required THEN x.score \in Int ELSE InRange(x.score)

(* model_validate of a section, on the way in and on the way out *)
Validates(k, items) ==
  /\ k = Market => \A n \in DOMAIN items : ValueValid(items[n])
  /\ k # Market => \A n \in DOMAIN items : InRange(items[n].score)
  /\ k = Target => /\ InOrder(items)
                   /\ \A n \in DOMAIN items : SegmentValid(items[n])
  /\ k = Platform => InOrder(items) /\ OneWeighting(items)

-----------------------------------------------------------------------------
(* sanitize_report_payload, section by section *)

(* mutant: a visual field is taken without model_validate *)
FieldUnchecked(k, items) == Normalized(k, items)

(* The items of market_analysis whose field is accepted: the factors are one
   field and the points another, each accepted or left out as a whole. *)
Accepted(items) ==
  {n \in DOMAIN items :
     \A m \in DOMAIN items :
       items[m].required = items[n].required => ValueValid(items[m])}

(* A visual field that its section does not accept is left out. *)
Field(k, items) ==
  LET n == Normalized(k, items)
  IN  IF k = Market THEN Kept(n, Accepted(n))
      ELSE IF Validates(k, n) THEN n ELSE <<>>

(* _collect_evidence_ids and validate_section_evidence_ids: the ids of the
   section, then those in its items, each of them once, and those only that are
   allowed.  A mention is an item (0 is the section) and a place in its list. *)
Cited(section, items, allowed) ==
  LET lists == [n \in 0 .. Len(items) |->
                  IF n = 0 THEN section.evidenceIds
                  ELSE items[n].ids["evidenceIds"]
                         \o items[n].ids["evidence_ids"]]
      mentions == UNION {{n} \X DOMAIN lists[n] : n \in DOMAIN lists}
      Earlier(p, q) == p[1] < q[1] \/ (p[1] = q[1] /\ p[2] < q[2])
      Id(p) == lists[p[1]][p[2]]
      cited == {p \in mentions :
                  /\ Id(p) \in allowed
                  /\ \A q \in mentions : Earlier(q, p) => Id(q) # Id(p)}
      order == Listed(cited, {p \in cited \X cited : Earlier(p[1], p[2])})
  IN  [n \in DOMAIN order |-> Id(order[n])]

-----------------------------------------------------------------------------
(* ReportCitationService *)

(* mutant: an evidence is enough, of whatever run *)
AllowedOfAnyRun(r, rows) == {i \in DOMAIN rows : rows[i] # None}

(* validate_section_evidence_ids: evidence of the run made for this report *)
Allowed(r, rows) == {i \in DOMAIN rows : rows[i] # None /\ rows[i].of = r}

(* mutant: a value that has lost its evidence is kept *)
UnsubstantiatedNever(k, x, valid) == FALSE

(* _null_unsubstantiated_observed_values, when one of the two lists has lost
   all it named: "score" and "value" are in its list of keys, "priorityScore"
   is not. *)
Unsubstantiated(k, x, valid) ==
  /\ x.observed /\ k # Target
  /\ \E q \in IdKeys : x.ids[q] # <<>> /\ valid[q] = <<>>

Valid(ids, allowed) == Kept(ids, {i \in Firsts(ids) : ids[i] \in allowed})

(* _sanitize_nested_evidence on the items of a section *)
Sanitized(k, items, allowed) ==
  [n \in DOMAIN items |->
     LET x == items[n]
         valid == [q \in IdKeys |-> Valid(x.ids[q], allowed)]
     IN  [x EXCEPT !.ids = valid,
                   !.score = IF Unsubstantiated(k, x, valid) THEN None
                             ELSE @]]

(* _reference_key: the source, else the evidence itself *)
SourceOf(i) == IF evidence[i].source = None THEN i ELSE evidence[i].source

(* get_citations_by_analysis_request_id: the first citation of each source *)
References(r, k) ==
  LET cited == citations[r][k]
  IN  Kept(cited, Firsts([i \in DOMAIN cited |-> SourceOf(cited[i])]))

-----------------------------------------------------------------------------
(* start_analysis *)

Written(r) == report[r].schema \in {"2.1-legacy", "3.0"}

SourceLists == UNION {[1 .. n -> Sources \cup {None}] : n \in 0 .. MaxEvidences}

(* _record_retrieval_audit and the answer of the model: valid ids are saved,
   in the report and as citations. *)
Analyze(r, sources, a) ==
  /\ report[r] = NoReport
  /\ Len(evidence) + Len(sources) <= MaxIds
  /\ Usable(a)
  /\ LET rows == evidence \o [i \in DOMAIN sources |->
                               [of |-> r, source |-> sources[i]]]
         fields == [k \in Keys |-> Field(k, a[k].items)]
         cited == [k \in Keys |->
                     Cited(a[k], fields[k], Allowed(r, rows))]
     IN  /\ evidence' = rows
         /\ report' = [report EXCEPT ![r] =
              [schema |-> "3.0",
               sections |-> [k \in Keys |->
                  Sanitized(k, fields[k], ToSet(cited[k]))]]]
         /\ citations' = [citations EXCEPT ![r] = cited]
  /\ answer' = [answer EXCEPT ![r] = a]

(* No JSON, a section missing, a score that cannot be sorted: the report is
   _generate_fallback_analysis_report, texts only, without citations. *)
AnalyzeFallsBack(r, sources, a) ==
  /\ report[r] = NoReport
  /\ Len(evidence) + Len(sources) <= MaxIds
  /\ ~Usable(a)
  /\ evidence' = evidence \o [i \in DOMAIN sources |->
                               [of |-> r, source |-> sources[i]]]
  /\ report' = [report EXCEPT ![r] = [schema |-> "3.0", sections |-> Nothing]]
  /\ UNCHANGED <<answer, citations>>

(* The request to the model fails, or the answer names as an id what cannot be
   hashed (dict.fromkeys): everything is rolled back, but the ids the evidences
   had are not given again. *)
AnalyzeFails(r, sources) ==
  /\ report[r] = NoReport
  /\ sources # <<>>
  /\ Len(evidence) + Len(sources) <= MaxIds
  /\ evidence' = evidence \o [i \in DOMAIN sources |-> None]
  /\ UNCHANGED <<answer, report, citations>>

(* delete_report: the foreign keys cascade to runs, evidences, citations. *)
Delete(r) ==
  /\ Written(r)
  /\ report' = [report EXCEPT ![r] = [schema |-> "gone"]]
  /\ citations' = [citations EXCEPT ![r] = Nothing]
  /\ evidence' = [i \in DOMAIN evidence |->
                    IF i \in Allowed(r, evidence) THEN None ELSE evidence[i]]
  /\ answer' = [answer EXCEPT ![r] = Garbage]

-----------------------------------------------------------------------------
(* get_report *)

(* valid_ids_by_section *)
Shown(r) == [k \in Keys |-> ToSet(References(r, k))]

Response(r) ==
  [k \in Keys |-> Sanitized(k, report[r].sections[k], Shown(r)[k])]

(* AnalysisReportResponse validates the sections once more; a section that it
   refuses makes the request fail. *)
Readable(r) == \A k \in Keys : Validates(k, Response(r)[k])

(* _build_headline_metrics: _strip_report_citations has kept the six sections
   only, so that no metric of the model is stored; the value of the fourth
   metric is evidence_count. *)
EvidenceCount(r) ==
  Len(References(r, Market)) + Len(References(r, Target))
    + Len(References(r, Platform))

-----------------------------------------------------------------------------
Init ==
  /\ evidence = <<>>
  /\ answer = [r \in Requests |-> Garbage]
  /\ report \in [Requests -> {NoReport, LegacyReport}]
  /\ citations = [r \in Requests |-> Nothing]

Next ==
  \E r \in Requests :
    \/ \E sources \in SourceLists :
         \/ \E a \in Answers : Analyze(r, sources, a)
         \/ \E a \in Answers \cup {Garbage} : AnalyzeFallsBack(r, sources, a)
         \/ AnalyzeFails(r, sources)
    \/ Delete(r)

Spec == Init /\ [][Next]_vars

-----------------------------------------------------------------------------
(* Properties *)

TypeOK ==
  /\ evidence \in Seq(Evidence \cup {None}) /\ Len(evidence) <= MaxIds
  /\ answer \in [Requests -> Answers \cup {Garbage}]
  /\ report \in [Requests -> [schema: {"none", "gone"}]
                    \cup [schema: {"2.1-legacy", "3.0"},
                          sections: [Keys -> Seq(Item)]]]
  /\ citations \in [Requests -> [Keys -> Seq(1 .. MaxIds)]]

(* Every evidence id a client is shown is one it can look up: what a section
   cites was retrieved for this report and not for another and is there, and
   what its items show stands in its references. *)
ShownEvidenceIsCited ==
  \A r \in Requests : Written(r) =>
    /\ \A k \in Keys : \A i \in ToSet(citations[r][k]) :
         i \in DOMAIN evidence /\ evidence[i] # None /\ evidence[i].of = r
    /\ \A k \in Keys : \A n \in DOMAIN Response(r)[k] : \A q \in IdKeys :
         ToSet(Response(r)[k][n].ids[q]) \subseteq ToSet(References(r, k))

(* What evidence_count counts is the sources: every source that a section cites
   counts once for that section, however many rows of report_citations name
   evidence of it. *)
SourcesCounted ==
  \A r \in Requests : Written(r) =>
    EvidenceCount(r) = Cardinality(
      {p \in Keys \X (Sources \cup DOMAIN evidence) :
         \E i \in ToSet(citations[r][p[1]]) : SourceOf(i) = p[2]})

(* Two rows of report_citations have the same source in one section. *)
SharedSource(r, k) ==
  \E m, n \in DOMAIN citations[r][k] :
    m # n /\ SourceOf(citations[r][k][m]) = SourceOf(citations[r][k][n])

(* The documents promise that evidence_count is the number of the rows of
   report_citations (line 47 of the contract of the visual fields, and the text
   that _build_headline_metrics puts beside the number).  The code breaks the
   promise for the reports that have two rows of one source in a section, and
   for no others. *)
RowsCountedUnlessShared ==
  \A r \in Requests : Written(r) =>
    (EvidenceCount(r) = Len(citations[r][Market]) + Len(citations[r][Target])
                          + Len(citations[r][Platform])
       <=> \A k \in Keys : ~SharedSource(r, k))

(* The item of the answer that x was made of *)
Stated(r, k, x) == answer[r][k].items[x.at]

(* Rankings are those of the answer: by falling score, and equal scores keep
   the order in which the model gave them. *)
RankedByScore ==
  \A r \in Requests : Written(r) => \A k \in {Target, Platform} :
    LET items == report[r].sections[k]
    IN  \A m, n \in DOMAIN items :
          m < n /\ items[m].score # None /\ items[n].score # None
            => \/ items[m].score > items[n].score
               \/ items[m].score = items[n].score /\ items[m].at < items[n].at

ReportConsistent ==
  /\ TypeOK /\ ShownEvidenceIsCited
  /\ SourcesCounted /\ RowsCountedUnlessShared
  /\ RankedByScore

(* The answer has named evidence for x, none of which is left in one of the two
   lists of ids. *)
LostEvidence(r, k, x) ==
  \E q \in IdKeys : Stated(r, k, x).ids[q] # <<>> /\ x.ids[q] = <<>>

(* An observed value for which the model has named evidence is shown only with
   evidence: when none of it is valid, or all of it is left out of the
   references, the value is null.  It is so for every value in the list of
   _null_unsubstantiated_observed_values.  The documents promise it of every
   number (line 46 of the contract), but priorityScore is not in the list: the
   score of a segment stays. *)
ObservedIsSubstantiated ==
  \A r \in Requests : Written(r) => \A k \in {Market, Platform} :
    \A n \in DOMAIN Response(r)[k] :
      LET x == Response(r)[k][n]
      IN  x.observed /\ LostEvidence(r, k, x) => x.score = None

(* A report that was written can be read, whatever the model has answered: what
   the section models accept they accept again.  There are two exceptions, both
   of an item marked as observed that has lost its evidence on the way in or on
   the way out, so that its value is null by then: a ranked platform, for a
   ranking without a score is refused by the model of its section, and a point
   of a demand trend, which must have a value. *)
ReportReadable ==
  \A r \in Requests : Written(r) /\ ~Readable(r) =>
    \E k \in {Market, Platform} : \E n \in DOMAIN Response(r)[k] :
      LET x == Response(r)[k][n]
      IN  /\ x.observed /\ x.score = None /\ LostEvidence(r, k, x)
          /\ k = Market => x.required
=============================================================================
