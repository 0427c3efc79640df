# A verification of the OAP backend in TLA+

The OAP backend (`src/app`) is a FastAPI service over PostgreSQL: founders
describe a service, answer an interview by a language model, and receive a
strategy report; they register a card at Toss Payments; administrators watch
analytics. This directory holds TLA+ modules for the parts of it whose
correctness depends on the order of events, the TLC configurations that
model-check them on small instances, and proofs checked by TLAPS.

The code is synchronous. FastAPI runs each route in a thread pool, except
`collect_events` (`api/analytics.py:30`), which is `async` and keeps the event
loop, so that the batches of one worker follow one another. Several workers may
run side by side, whose batches do overlap. All they share is the database. So
the actors of every model are *calls* of service methods, and a step of a model
is what one statement, commit or remote request makes visible. PostgreSQL runs
at READ COMMITTED (`app/database/session.py` sets nothing else), and SQLAlchemy
keeps the columns it has loaded until its session commits (`expire_on_commit` is
at its default).

## 1. Inventory

### Components, their state and operations

| component | state | operations | module |
|---|---|---|---|
| Billing registration: `services/billing_service.py`, `repositories/billing_repository.py`, `services/toss_billing_client.py` | `billing_registration_sessions` (PENDING, PROCESSING, COMPLETED, EXPIRED, FAILED), `billing_methods` (ACTIVE, INACTIVE), billing keys at Toss | `start_registration`, `complete_registration` | `BillingRegistration` |
| Refresh-token sessions: `services/auth_service.py` | `refresh_token_sessions` (hash, family, jti, successor, revoked or not) | `login`, `google_login`, `refresh`, `logout`, `delete_account` | `RefreshSessions` |
| User accounts and consents: `services/auth_service.py`, `user_consent_service.py` | `users`, `user_consents`, `marketing_consents` (a history, the latest row counts) | `signup`, first `google_login`, `set_marketing`, `delete_account` | `Accounts` |
| Analysis, interview and report: `services/analysis_request_service.py`, `interview_message_service.py`, `analysis_report_service.py`, `retrieval_audit_service.py` | `analysis_requests` (`status`, `interview_completed`), `interview_messages`, `analysis_reports`, `retrieval_runs`, `retrieval_evidences` | `create`, `save_answer`, `start_analysis`, `delete_report` | `AnalysisLifecycle` |
| Report contents and citations: `ai/report_ai.py`, `schemas/analysis_report.py`, `services/report_citation_service.py` | the JSONB columns of `analysis_reports`, `report_citations` | the two halves of `start_analysis` and `get_report` that work on contents | `ReportContents` |
| Keyword collection: `services/keyword_collection_service.py`, `naver_searchad_client.py`, `repositories/keyword_repository.py` | `analysis_requests.keyword_collection_status`, `keywords` (shared), `keyword_metrics` | background `collect_keywords`, `get_naver_keywords` | `KeywordCollection` |
| Administrator authentication: `services/admin_auth_service.py`, `admin_security.py` | `admin_users` (`failed_login_count`, `locked_until`, `session_version`), `admin_mfa_challenges`, `admin_refresh_token_sessions`, `admin_audit_logs` | `login`, `verify_mfa`, `refresh`, `logout` | `AdminAuth` |
| Administrator accounts: `services/admin_bootstrap_service.py`, `admin_add_service.py` | `admin_users` | `create_first_admin`, `create_admin` | `Accounts` |
| Analytics events: `services/analytics_service.py` | `analytics_sessions`, `analytics_events` | `store_batch` | `Analytics` |
| Administrator read API: `services/admin_read_service.py` | `analytics_admin_hourly`, `analytics_admin_aggregate_state` | `refresh_aggregates`, `dashboard`, `events` (keyset pagination) | `Analytics`; the other lists are not modelled |
| Knowledge base: `knowledge_ingestion_service.py`, `knowledge_retrieval_service.py` | documents, chunks, embeddings | ingest, search | not modelled |
| Google identity, key encryption, configuration, migrations | none | conversions by libraries, DDL | not modelled |

### How they interact

* The last answer of an interview calls `AnalysisReportService.start_analysis`
  in the same request; `POST /analysis/requests/{id}/analyze` calls the same
  method from another, so that two analyses of one request may overlap.
* `create` schedules `collect_keywords` as a background task; `start_analysis`
  reads the metrics it has stored so far.
* `delete_account` locks the `users` row that billing and (through foreign keys)
  every insert of a session, a consent or an event lock. The cascades take
  sessions, billing methods, consents and analyses along; the analytics rows
  stay and lose their user.
* `complete_registration` calls Toss three times at most: to issue a key, to
  delete it again when it cannot be saved, to delete the one it replaces. No
  transaction is open during these calls; `start_analysis` does keep a
  transaction (and, through its audit rows, a lock on the request) open while
  the language model works, and takes a second connection for the retrieval.
* `refresh_aggregates` is run by a command line tool and rewrites what the
  dashboard reads together with the event rows themselves.

### What is hard

* *Interleaving*: overlapping completions, refreshes, answers, analyses, logins
  and aggregations; most of them rely on one row lock, on a conditional UPDATE
  or on a unique index.
* *Snapshots*: an UPDATE or DELETE works on the rows of its snapshot
  (`_revoke_family`, `refresh_aggregates`).
* *Stale columns*: `start_analysis` decides by a status loaded before its other
  reads; `generate_next_question` looks at an object that has been expired; the
  clock of an administrator's call is read before it waits for its row.
* *Failures between steps*: a remote call that takes effect although it times
  out, a commit whose answer is lost, a worker that dies, a savepoint that is
  rolled back inside a batch.
* *Lock order*: `delete_account` against `refresh`, batches of events against
  each other, upserts of keywords: deadlocks that PostgreSQL has to break.
* *Unreliable data*: a language model may cite evidence that is not there, score
  out of range, or answer nothing that can be parsed; what has been stored is
  checked again each time it is read.

### What makes each component correct

* Billing: one active method per user, one key per registration, the active
  method's key is never deleted, no key is forgotten at Toss unless a failure
  hides it, COMPLETED exactly when stored, sessions move forward only, every
  call is answered.
* Sessions: one live token per family, rotation is a chain, dead families stay
  dead, a revocation reaches the whole family, every call ends.
* Accounts: an address and a Google subject belong to one account, consents live
  as long as their account, the last marketing choice counts, one bootstrap.
* Analysis: COMPLETED exactly when the report exists, one final report, audit
  rows only with a report, message order agrees with the order of calls, a
  report knows the answers given before it, the interview closes, every call
  ends.
* Report contents: every id shown can be looked up and belongs to the report,
  counts agree with the citations, rankings follow the scores,
  observed values have evidence, what was accepted when it was written is
  accepted when it is read.
* Keyword collection: metrics all or none, COMPLETED only with all of them,
  every keyword is found after the upsert, a collection ends.
* Administrator authentication: guesses of passwords and codes are bounded, a
  challenge opens one session, logout and reuse end every session they cover,
  every call is answered.
* Analytics: a session belongs to one user and matches its events, accepted
  events are stored, dashboards count each event once, pages show each event
  once, every call ends.

`PROJECT.json` lists the hazards one by one, at their lines.

## 2. Plan

Done, in this order: `BillingRegistration` with its abstract specification
`CardRegistry`; `RefreshSessions`; `AnalysisLifecycle`; `AdminAuth`; `Accounts`;
`KeywordCollection`; `Analytics`; `ReportContents`. Each has a module of proofs,
named after it, that covers every safety property of its passing runs; that of
`BillingRegistration` covers the refinement of `CardRegistry` as well.

What remains worth doing, the most important first:

1. `AccountClosure`, composing `RefreshSessions` and `BillingRegistration` over
   one `users` row, to check that the two views of `delete_account` agree.
2. The remaining sections of a report (`executionPhases`, `contentSeries`, brand
   rates) in `ReportContents`, when their rules grow beyond validation.

## 3. The modules

### BillingRegistration, CardRegistry

`complete_registration` is modelled step by step: *claim* (lock the user, UPDATE
... WHERE status = 'PENDING' ... RETURNING, commit), *issue* (POST), *waiting*,
*save* and *saving* (one transaction that holds the user FOR UPDATE), then
*cleanup* of the replaced keys, or *compensate* and *markFailed*. `pc[r]` is
where call `r` stands. `start_registration` is one action, since it takes its
lock and commits in one transaction that calls nobody.

* `toss[r]` is the state at Toss of the key issued for `r`: the POST may take
  effect (`TossIssues`) after the client has given up.
* `SaveCommitLost` and the second disjunct of `ClaimFails` are commits that take
  effect although `commit()` raises. `CompensateFails` and `CleanupFails` are
  deletions at Toss that raise, with or without effect.
* `Crash` ends a call anywhere; nothing in the code resumes one.
* `DeleteAccount` is the user's row disappearing with its cascades.
* `inTime[r]` is the comparison of `expires_at` with the `now` that is read
  before the lock is requested.

`CardRegistry` is what registration promises: a user has one card, a customer
key is redeemed once and by its owner, and redeeming it replaces the card in one
step. `ImplementsRegistry` is the refinement, with the mapping at the end of
`BillingRegistration`.

### RefreshSessions

Login, refresh, logout and account deletion with PostgreSQL's row locks. A
refresh selects its row FOR UPDATE, reads the user without a lock, inserts the
next session (which takes FOR KEY SHARE on the user through the foreign key) and
commits. A revocation takes a snapshot of the live rows (`RevokeBegins`), then
visits them one by one, waiting for those that are locked and leaving alone
those that have been revoked meanwhile (`RevokeRow`), and commits. Lock waits
are guards; `Deadlocked` is a ring in the waits-for graph, and `DeadlockVictim`
aborts one call of it, as PostgreSQL does. `Fail` is a failing statement or a
dying worker.

### AnalysisLifecycle

One request and the calls on it, numbered in the order in which they arrive.
Requests share no row, so more than one would add nothing. `loaded[c]` is what
the session of the call holds of the request, which is where stale reads come
from. Inserted but uncommitted rows are `staged` (retrieval runs) and
`indexEntry` (the report in the unique index on `analysis_request_id`); both
keep the request FOR KEY SHARE, for which `Delete` waits, and a second `Insert`
waits for the index entry of the first and then fails or goes on. `Fault` is an
exception or a crash at any step.

With `legacy` the request starts COMPLETED without a report, the state that
lines 115-127 of `analysis_report_service.py` repair.

### ReportContents

The contents of reports, whose transactions `AnalysisLifecycle` has. `Analyze`
is the whole way of an answer of the model into the rows: `Normalized` scores,
repairs, drops and ranks; `Field` keeps a visual field only if the model of its
section accepts it; `Allowed` is the evidence of the report's own retrieval run,
`Cited` gathers the ids that are in it, `Sanitized` removes the others from the
stored sections together with observed values that have lost their evidence.
`AnalyzeFallsBack` is the text-only report for an answer that cannot be used,
and `AnalyzeFails` a failing request to the model, or an answer with an id that
cannot be hashed (`dict.fromkeys` raises TypeError); it uses up the serial ids
of the evidence it rolls back. `Response` is what `get_report` makes of the
rows: references without duplicates, the sections sanitised once more with the
ids that are in them, and validated once more by the response model.

Three of the six sections stand for the ways a section is processed: accepted as
it is (market), scored and ranked by four parts (target customers), scored by
weighted parts and repaired (platforms). The items of the market section are
factors, whose score may be null and has a range, and points of `demandTrend`,
whose value may be any number and not null (`TrendPoint`); the two fields are
accepted or left out each by itself (`Accepted`). `TrendPoint` declares neither
`valueType` nor `evidenceIds`, but every model keeps what it does not know, and
the sanitizing looks at every object at any depth. Ids are looked for under two
keys, `evidenceIds` and `evidence_ids` (`IdKeys`); an observed value goes when
one of the two lists has lost all it named. The parts of a platform's breakdown
are one number, so that a weighted sum is that number times the sum of the
weights. A deleted request keeps its evidence ids from being used again, as a
sequence does. The loops of the code that filter, sort and collect are given by
the positions they keep and the order they put them in: `Listed` is the members
of a set in an order, `Kept` what a list has at some positions, `Ranked` the
same by score, `Firsts` the positions without the repetitions that
`dict.fromkeys` drops. An item carries its place in the list of the answer
(`at`), so that a property can say what became of it. The validators of
`contentSeries`, `executionPhases` and brand rates, which only accept or refuse
a field, are left out.

### KeywordCollection

The background task of a request: status COLLECTING, extraction of seeds, one
call of Naver for each seed with up to three attempts after a 429, one
transaction that looks up the keywords, inserts the missing ones row by row,
reads them again and adds the metrics, then the final status in a transaction of
its own. `missing` are the keywords that the INSERT has still to do, the next
one the first in the order of Naver (`IsAt`); `inserted` are uncommitted rows.
An INSERT that meets one waits for its transaction, and a ring of waiting tasks
is ended by `InsertAborted`. `Stop` is the end of the process, `FailedIsLost` an
update to FAILED that fails as well, `Delete` the deletion of the request.
`view` is a reader that asks for the status and then for the keywords.

### Accounts

The operations that look first and insert later: signup, first Google login,
`set_marketing`, `create_first_admin` and `create_admin`. The check and the
insert are two steps; an insert that meets an uncommitted row of the same key
waits, so insert and commit are one step and the unique indexes decide it.
`stamp` is the `occurred_at` that `set_marketing` takes before its insert;
readings of the clock are distinct. `create_first_admin` holds an advisory lock
from its check to its commit.

### AdminAuth

Login, MFA, refresh and logout on one administrator's account. A call reads the
clock (`now`), locks the challenge if it has one, locks the account and loads
both (`loaded`), then decides and commits in one step, since everything it
writes is behind the lock of the account; an audit row alone is not. `now[c]`
stays when the call has ended, so that a property can say when it began. The
time of an audit row is that of the start of its transaction, which is merged
with the reading of the clock. `recent_failures` counts the audit rows of one
account and address. A session is identified by the call that opened it; a token
carries the session version for which its access token was issued. Lines 255-258
of `admin_auth_service.py` (a row that is missing) cannot be reached. Of the
conditions in lines 265-271 one can hold: the server has signed the claims that
are compared and nothing clears `is_active`, but the row's `expires_at` comes
from a `now` read before the wait for the lock, the expiry in the token from the
clock after it, so that for a short time the row has expired and the token has
not. `RefreshExpired` is the outcome, a choice.

### Analytics

Batches, account deletion, aggregation, dashboard and the paged list of events,
each a READ COMMITTED transaction. `tx[c]` is what a batch has done in its
transaction, `save[c]` what it had done at the last savepoint; a duplicate or
rejected event goes back to it. `WaitsFor` is the waits-for graph: row locks on
sessions, unfinished inserts of the same key, the user row that an inserted
event shares and a deletion locks, and hourly rows that another aggregation has
deleted. The foreign key's wait and the unique index's wait of one INSERT are
one step. `hourly` says which aggregation has counted which event, so that
counting twice is visible. Events have a time and no other contents: the filters
and sums by name and user apply to the same rows. (An hourly row keeps the
`user_id` of a deleted user until the next aggregation, for
`analytics_admin_hourly` has no foreign key; `AcceptedIsStored` is about events
and sessions.) The cutoff of an aggregation is the time at which it begins, as
its only caller has it (`cli/refresh_admin_analytics.py`), and the clock does
not run back. An empty batch commits at once.

### The MC modules

Each MC module extends its module for TLC. `MCBilling`, `MCRefreshSessions` and
`MCReport` add symmetry sets, used for invariants only, never with a temporal
property. `MCAnalytics` and `MCReport` define the batches, ranges and answers of
their instances.

Definitions marked *mutant* are the changed forms of the definition after them
that a plausible mistake in the code would give. No specification uses them;
with one of them in the place of its definition TLC finds the property violated
that `PROJECT.json` names.

## 4. The runs

| run | instance | shows |
|---|---|---|
| `billing_safety` | 1 user, 3 customer keys, 3 calls | the six invariants of billing |
| `billing_registry` | 2 users, 2 keys, 2 calls, fair | `StatusMovesForward`; the saga implements `CardRegistry`; every completion is answered |
| `sessions` | 1 user, 2 families, 3 calls, fair | four invariants, dead families stay dead, every call ends, deadlocks included |
| `sessions_reuse` | 1 user, 1 family, 3 calls | violation, see the findings |
| `analysis` | 3 calls, interview of 2 answers, request new or `legacy`, fair | four invariants, `ReportIsFinal`, every call ends |
| `analysis_prompt` | 2 calls | violation, see the findings |
| `keywords` | 2 requests, 2 keywords, 2 seeds, 2 attempts, fair | metrics all or none, every keyword found, collections end |
| `accounts` | 2 addresses, 1 Google subject, 3 calls | unique identities, consents with their account, the last choice, one bootstrap |
| `admin` | 3 calls on one account, a clock of 3 readings, fair | bounded guesses, logout and reuse, every call is answered |
| `analytics` | 1 user, 2 sessions, 2 event ids, 3 calls, fair | sessions match events, exact dashboards and pages, every call ends |
| `analytics_overlap` | 1 event, 4 calls | violation, see the findings |
| `report` | 2 requests, up to 2 evidences each, 55 answers of the model | citations, rankings, observed values, readable reports |

`SessionsAgree` (billing) and the `RowsConsistent`, `MetricsConsistent`,
`SessionsMatchEvents` and `ReportConsistent` of the other modules are
conjunctions of named parts that are stated one by one in the modules, with the
type invariant among them except in billing and sessions.

### The bounds, and why they are enough

* *Billing, 3 calls of one user*: two may be in flight while the method of a
  third is stored, the smallest instance in which clean-up, compensation and
  replacement meet. Calls of different users touch no common row but a customer
  key presented by the wrong user, for which `billing_registry` has two users.
  `Lapsing` names the customer keys whose 15 minutes may pass: one in each run.
* *Sessions, 3 calls*: a rotation, a rotation of its successor or a reuse, and a
  logout or a deletion; the second family shows what must not be touched. A ring
  of a deadlock needs two calls; three give one more that waits.
* *Analysis, 3 calls*: two analyses that overlap and a third that answers or
  deletes. The interview takes 2 answers (5 in the code, `AnswersNeeded`) so
  that the third can be the one too many.
* *Keywords, 2 requests and 2 keywords*: the smallest ring of upserts, with the
  lists of Naver in both orders. 2 attempts (3 in the code) are one that is
  repeated and one that is not, 2 seeds (6) one that is the last and one not.
* *Accounts, 3 calls*: two registrations that race for a key and a deletion that
  frees it or takes away the row between a check and its insert; two choices
  that race and a third after both. Two addresses for one subject.
* *Admin, 3 calls*: a reuse against a rotation and a login or logout, or three
  guesses where two are allowed (5 in the code). The clock has readings 0 to 2.
  `LockTicks` is 1, so that a lock can pass; `ChallengeTicks` is 2, so that a
  challenge opened at 0 is still good at 1, while a login that began at 0 waits
  for the row.
* *Analytics, 3 calls, 2 events*: the batches contain the same events in
  opposite orders and one event under another session; pages hold one event, and
  two events may have the same time; an hour is two ticks, and the ranges end or
  begin within one. `analytics_overlap` needs four calls, one of them a batch.
* *Report*: answers vary one section at a time, since sections do not meet
  before the citations are counted. Items cite nothing, evidence of their own
  report, of the other one, of nobody, or the same twice, under either key or
  different evidence under both; two evidences may have one source. Points of a
  trend come alone and beside a factor, one of the two fields being refused or
  neither. `MaxIds` bounds the ids that are ever given.
* Every call runs once. A retry by a client is another call.

### Fairness

Liveness is checked under weak fairness of *some call that can go on does*: a
worker that does not die goes on with its call, requests to Toss, Naver and the
model end in an answer or a timeout, and PostgreSQL grants a lock that is free.
Faults, crashes, the clock, account deletions and the arrival of calls are not
fair. Where calls can deadlock the abort of one call of a ring counts as a step
of it, since PostgreSQL's detector runs after `deadlock_timeout`. This form is
enough, and weaker than fairness of each call, because the calls are finitely
many and none takes infinitely many steps: whoever goes on first, all of them
come to their ends, which is why the properties read `<>[]`. `keywords` and
`admin` assume weak fairness of each task or call, which justifies the
*leads to* of `CollectionEnds`: the threads are scheduled by the operating
system. The engine sets no `lock_timeout`, so no wait is assumed to fail. A step
that is itself a choice (a request that is answered or not) may always go either
way.

### Findings

* `sessions_reuse`, `ReuseRevokesFamily` (`auth_service.py:513`). The
  integration guide (`OAP_2.1_프론트연동가이드.md:149`) says that the reuse of a rotated
  or revoked token revokes its family. A family can survive: token *a* has been
  rotated to *b*; a reuse of *a* starts its UPDATE with *b* in its snapshot
  while a refresh of *b* holds the row; the refresh commits, *b* is now revoked
  and skipped, and its successor is not in the snapshot. The reuse is answered,
  the successor is live. `RevocationMissesOnlyRotated` (checked and proved) says
  that this is the only way a revocation can miss a token.
* `analysis_prompt`, `QuestionKnowsService` (`interview_message_service.py:89`).
  The prompt for the next question has a place for the details of the service
  (`ai/interview_question_ai.py:118`), filled from `vars(analysis_request)`. The
  commit in `save_message` has expired that object, nothing reads a column of it
  before, and `vars()` loads nothing, so the place is always empty.
* `analytics_overlap`, `CountedOnce` (`admin_read_service.py:79`). The API
  document (`OAP_API_명세서_v2.1.md:730`) says that `totalEvents` counts the stored
  event rows. `refresh_aggregates` deletes all hourly rows and inserts new ones.
  When two of them overlap, the second DELETE waits for the first transaction,
  then skips the rows which that one has deleted and does not see those it has
  inserted, because they are not in its snapshot. Nothing makes an hourly row
  unique, so the rows of both remain, and the dashboard counts every event of a
  whole hour twice until the next aggregation. `DashboardExact` says that this
  is the only way: without an overlap no event is counted twice or missed.

Observations that are not runs:

* For a request in the `legacy` state, two overlapping analyses can leave it
  INTERVIEWING with a report, because the reset writes by a status loaded
  earlier (`analysis_report_service.py:124`); the next `/analyze` repairs it.
  `CompletedIffReport` is therefore stated for the requests of the present code.
* The documents and the code disagree about `evidenceCount`. The contract of the
  visual fields (`docs/OAP_report_visual_metrics_backend_contract.md:47`) says
  that it and the evidence coverage use the actual rows of `report_citations`;
  `analysis_report_service.py:499` writes so into the metric that is served, and
  the API document shows it (`OAP_API_명세서_v2.1.md:449`). What is counted are
  the references (`analysis_report_service.py:266`), which have only the first
  citation of each source in a section (`report_citation_service.py:155-157`):
  two evidences of one source that a section cites are two rows and count once.
  `ReportConsistent` says what the count is (`SourcesCounted`) and that the
  promise is kept exactly by the reports in which no two rows of a section have
  the same source (`RowsCountedUnlessShared`).
* Two observed values cannot be null: the score of a ranked platform, because
  the model of its section refuses a ranking without a score, and the value of a
  point of `demandTrend`, which `TrendPoint` requires
  (`schemas/analysis_report.py:313`). When the evidence they name is invalid
  they are set to null all the same, when the report is written or when it is
  read (`report_citation_service.py:117-133`), and `get_report` fails
  (`analysis_report_service.py:300`). These are the two exceptions of
  `ReportReadable`. The platform also contradicts line 29 of the contract
  ("Items without a score are not ranked."): it is ranked first and sanitised
  later. Every other value that the sanitizing may set to null is declared
  nullable.
* Line 46 of the contract says that an observed number that claimed evidence but
  loses every valid id becomes null. `priorityScore` is not in the list of keys
  (`report_citation_service.py:120`): the score of an observed segment stays,
  and ranks it. `ObservedIsSubstantiated` is stated for the other values.
* `_strip_report_citations` (`ai/report_ai.py:400`) keeps the six sections only:
  the headline metrics of the model, which
  `docs/OAP_report_visual_metrics_backend_contract.md:24` lists, are never
  stored.
* A failed MFA does not count towards the lock of the account, and a completed
  login clears the counter and the lock. The audit rows of the address still
  bound the guesses, with one exception that the proof of a stricter
  `GuessesBounded` stumbled over: they decide only whether a wrong password
  locks the account again, while what refuses a password is the lock. A request
  that has read its clock and waits for the row while an MFA which began later,
  after the lock, completes the login, finds the lock gone and has its password
  compared. `Overtaking` counts these logins: each lets one more guess through.
* After a lock has passed one more wrong password locks the account again, since
  only a completed MFA resets `failed_login_count`.

## 5. The proofs

Proved for every value of the constants, under the assumptions
`BillingConstants`, `SessionConstants`, `AccountConstants`, `AdminConstants`,
`AnalysisConstants`, `CollectionConstants`, `AnalyticsConstants` and
`ReportConstants` of the modules. They say that the special values (`NoUser`,
`NoKey`, `NoCall`, ...) are not members of the sets they complete, that the
names of the calls and of the families differ, that limits are positive numbers,
and that the calls on a request, the keywords and the ids of events are finitely
many: `MAX(message_order)` and `COUNT(*)` of `AnalysisLifecycle`, the lists of
Naver and the pages of events have no meaning otherwise. Ids of events are
numbers, which stand for UUIDs and their order. An answer of the model is any
lists of items, numbered by their places, with ids and scores that may be
anything, and a segment has its four scores, any of which may be null or a text,
or none of them. TLC has checked every `IInv` on the instance of its run before
it was proved.

**BillingRegistrationProofs**: `TypeOK`, `OneActiveMethod`,
`IssuedOncePerCustomerKey`, `ActiveMethodChargeable`, `SessionsAgree`,
`LiveKeyAccountedFor`, `StatusMovesForward` and the refinement
`ImplementsRegistry`. `OneActiveMethod` is not inductive: `SaveCommits` keeps it
only if `old[r]` still is the set of all active methods of the user when the
call commits. `LockInv` says that a call in *saving* holds the lock and that its
`old` is just that; nobody else can change a method of that user meanwhile,
because `SaveBegins`, `DeleteAccount` and the claim need the lock. `ClaimInv`
says that a call beyond the claim presents a key of its own that is no longer
PENDING and that no other call beyond the claim presents; a second claim then
fails its test. `CallInv` ties the remaining fields of a call to its `pc`.
`IInv` is the conjunction, and each lemma shows that the steps of a call
(`Work...`) or of the environment (`Env...`) preserve one conjunct.

The other properties need `SagaInv`, which is inductive given `IInv`: how far a
call is when it has a key, a method or an answer (`ProgressInv`); that the keys
it is to clean up belong to methods of its user that it has replaced (`OldInv`,
`ReplacedInv`); and which session, method and key belong together (`RowInv`,
`OwnerInv`, `SavedInv`). The mapping of the refinement chooses a request for
each user and each customer key; `MappingDetermined` shows that there is at most
one to choose. `SaveRedeems` then says that the commit of a save is the
redemption, `StartIssues` and `DeletionCloses` cover the other two steps of the
registry, and every other step leaves both mappings alone (`Stutters`).

**RefreshSessionsProofs**: `TypeOK`, `OneLiveTokenPerFamily`, `RotationChain`,
`RevocationMissesOnlyRotated`, `DeadFamilyStaysDead`. The heart is `LockInv`: a
refresh past its SELECT holds the row of its token, so that the token is still
live at its commit, unless its call ends. `FamilyInv` and `ChainInv` give each
row its family and each rotated row its successor; `GoneInv` says that the rows
of a deleted account are gone; `RevokeInv` relates what a revocation has *seen*,
has still *to do* and has *revoked* to the rows: a live token of the family that
is not in `revoked` or `todo` descends from one in `seen` that has been rotated.
Steps that leave the rows alone are handled together (`Quiet...`); the four that
change them have a lemma each.

**AccountsProofs**: `RowsConsistent`, `LastChoiceCounts`, `BootstrapOnce`, from
`AccountConstants` (the ids of calls differ from the special values). The types
need `ClockInv`: a call reads the clock once at most, so the clock is bounded by
the number of calls that have done so. `CallInv` says that a call names a user
who has existed, whose row is therefore never inserted again, and `BootstrapInv`
that a bootstrap which found no administrator holds the advisory lock.
`LastChoiceCounts` follows from `ChoiceInv`: for a choice that meets no other
the history of its user stands still (`HistoryKept`), so that what it has read
stays the latest, and what it stamps is later than all of it.

**AnalysisLifecycleProofs**: `RowsConsistent`, `OrderFollowsCalls`,
`ReportKnowsEarlierAnswers`, `LastAnswerCloses`, `ReportIsFinal`, for any number
of calls and any length of the interview. `CallInv` and `RowInv` say what a call
has left behind at each stage and that a request with uncommitted rows cannot be
deleted. `StageInv` is what makes COMPLETED exact: a call that resets the status
or commits a report has loaded what it decides by before the report was there.
`OrderFollowsCalls` rests on `OrderInv` (an order is at most the number of
messages, by `FiniteMax` and a count) and `PendingInv`: an order that has been
computed and not used is beyond the messages of the calls that ended before its
own began. `ReadInv` says the same of what a report in the making has read, and
`AskInv`, the heart of `LastAnswerCloses`, that the calls which were told to ask
another question are fewer than the interview needs.

**KeywordCollectionProofs**: `EveryKeywordFound`, `MetricsConsistent`.
`InsertInv`: in the middle of an INSERT each returned keyword is committed,
inserted by this transaction, or still missing. It holds because a row that
another transaction has inserted is not skipped before that transaction has
ended. `PhaseInv` says in which phases there are metrics, and `RowsInv` that
they belong to their request and to keywords that exist. `ListsJoin` (what Naver
returns next, appended without repetition, is again a list of distinct keywords)
is the one fact about data, by the pigeonhole principle.

**AdminAuthProofs**: `RowsConsistent`, `GuessesBounded`,
`LogoutEndsEverySession`, `ReuseEndsFamily`. `LockInv` says that what a call has
loaded behind its lock is what the rows still hold. `AnswerInv` and `CountInv`
relate the counters to the answers given; `IssuedInv` says that every token
there was at a logout or a reuse is of an older version than the account has
now; `GuessInv` that the account is locked past any window in which an address
has used up its guesses. A completed MFA clears the lock, but only one that
began after it, and then the window has one guess more. Without `Overtaking`
that step could not be proved, and TLC then found the run.

**AnalyticsProofs**: `SessionsMatchEvents`, `AcceptedIsStored`,
`DashboardExact`, `PagesShowEachOnce`. That a session is as late as its latest
event fails in the middle of a transaction, between the claim of a session and
the insert of the event. `BatchInv` therefore speaks of a transaction as it was
at its last savepoint: each session it has claimed has an event at the time of
its last activity, its own or a committed one. `StageInv` says how the
transaction differs from that savepoint: not at all, or by the claim for the
event in hand. Whether the event is stored or rolled back, the next savepoint
has the property again, and the commit hands it to the tables. `Exclusive` (two
transactions hold no row in common, since claims and inserts wait) and
`ShareInv` (the user of an unfinished event is not being deleted) keep the rows
still meanwhile. For the dashboards `RefreshInv` says what an aggregation that
meets no other has read and deletes, and `ReadInv` what a dashboard has counted
between its statements; the hours and the edges of a range meet without gap or
overlap by `WholeHours` and `RangeSplits`, for every length of an hour. Pages
rest on `PageInv`, and `PageExists` shows that a set of events has a page:
`Places`, by counting, gives every event the place of the number of those before
it.

**ReportContentsProofs**: `ReportConsistent`, `ObservedIsSubstantiated`,
`ReportReadable`, for every set of answers. The state is simple: `CitedInv` says
that what is cited was retrieved for the report and is still there, and
`MadeInv` that a stored section is what `Field` and `Sanitized` make of its
answer, or empty. The work is in the data. `ListedInOrder` shows by counting
that `Listed` puts each member of a set in one place and in the order given;
`KeptElements`, `RankedItems` and `CitedAllowed` follow from it without
induction. `FieldItems` is what a field promises: it is valid, every item comes
from one of the answer, and each is above the next. `ShownItems` follows an item
from the answer through the field and both sanitizings to the client
(`Descends`): it keeps its place, rank and parts, and its score unless it was
observed and has lost the evidence it named, and then the score is null.
Readable reports are those in which no ranked platform and no point of a trend
has: `StillValid` says that a section whose items keep the scores they must have
is valid still. `FirstsCount` gives a list as many first occurrences as it has
elements, so that a section has no more references than rows
(`RowsAndReferences`), and `EvidenceCounted` and `RowsCounted` add them up over
the sections.

### Only model-checked

Liveness (`EveryCallEnds`, `EveryCallAnswered`, `CollectionEnds`): it needs
fairness and ENABLED, which are outside the prover's reach. Every safety
property of the passing runs is proved.

## 6. What is not modelled, and why

* Read-only routes and the construction of responses, but for the dashboard, the
  paged events, the keywords of a request and the report: no state changes. The
  list of users is sorted by an activity that changes between its pages, for
  which no document promises completeness.
* `refresh` of a token whose claims differ from its stored row
  (`auth_service.py:263-275`): the server signs both, so they agree. Expired
  tokens are refused when they are decoded; the expiry of the row is a choice
  (`CheckUserFails`).
* `Subscription` and `Payment` (`models/billing.py`): no caller writes them.
* The connection pool: it belongs to a library. That `start_analysis` takes a
  second connection while it holds one, and fails when the pool stays empty, is
  one of the failures of `Fault`.
* Prompts, embeddings, chunking and vector search: pure conversions around
  remote calls. `AnalysisLifecycle` has the calls as steps, `ReportContents`
  what they return.
* The checks of the format of an event (`validate_event_contract`), an address
  or a password: they come before the first change of state.
* Encryption, hashing, token signing, Google identity tokens: by libraries;
  their failures are modelled where the code handles them (`EncryptFails`,
  `TokenRejected`).
* Configuration, the construction of the application and the migrations as
  programs: run once, before the first request.
