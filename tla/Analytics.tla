------------------------------ MODULE Analytics ------------------------------
(***************************************************************************)
(* Analytics events: store_batch and _claim_session of                     *)
(* app/services/analytics_service.py behind POST events/batch, the         *)
(* aggregation, the dashboard and the paged event list of                  *)
(* admin_read_service.py, and the account deletion that clears the user of *)
(* both tables.                                                            *)
(*                                                                         *)
(* Each call is one READ COMMITTED transaction of PostgreSQL.  A batch     *)
(* gives every event a savepoint, and keeps until its commit the locks on  *)
(* sessions, event ids and its user that the savepoints have released to   *)
(* it; a rolled back savepoint gives its locks back.  Whoever waits in a   *)
(* cycle is aborted.  Calls are numbered in the order they arrive.         *)
(***************************************************************************)
EXTENDS Integers, Sequences, FiniteSets

CONSTANTS
  Users, SessionIds,
  EventIds,      (* numbers: cursors compare them                            *)
  Batches,       (* sequences of events a client may send                    *)
  Ranges,        (* from and to of a dashboard                               *)
  Kinds,         (* the calls that are made                                  *)
  Cutoffs,       (* when aggregations are run                                *)
  MaxCalls, MaxClock,
  HourTicks,     (* an hour                                                  *)
  PageSize,
  FirstState,    (* cutoff of an aggregation before the first event, or None *)
  None

Calls == 1 .. MaxCalls
Times == 0 .. MaxClock

EventInput == [id: EventIds, sid: SessionIds, at: Times]
EventRow   == [sid: SessionIds, user: Users \cup {None}, at: Times]
SessionRow == [user: Users \cup {None}, last: Times]

ASSUME AnalyticsConstants ==
  /\ EventIds \subseteq Nat /\ IsFiniteSet(EventIds)
  /\ MaxCalls \in Nat /\ MaxClock \in Nat
  /\ HourTicks \in Nat \ {0} /\ PageSize \in Nat \ {0}
  /\ Batches \subseteq Seq(EventInput)
  /\ Cutoffs \subseteq Times
  /\ \A range \in Ranges : range \in Nat \X Nat /\ range[1] < range[2]
  /\ FirstState \in {0, None}
  /\ None \notin Users \cup EventRow \cup SessionRow \cup Times

VARIABLES
  users,        (* accounts                                                  *)
  events,       (* analytics_events by event_id                              *)
  sessions,     (* analytics_sessions by session_id                          *)
  hourly,       (* analytics_admin_hourly: who has counted which event       *)
  state,        (* analytics_admin_aggregate_state: data_through, or None    *)
  overlapped,   (* two aggregations have run at the same time                *)
  pc, job,
  tx, save      (* what a batch has done so far; at its last savepoint       *)

rows == <<users, events, sessions, hourly, state>>
vars == <<rows, overlapped, pc, job, tx, save>>

Ended == {"done", "failed"}

(* Clean is the transaction that has done nothing yet. *)
Clean ==
  [events |-> [e \in EventIds |-> None],
   sessions |-> [s \in SessionIds |-> None], locks |-> {}, share |-> FALSE]

Blank ==
  [kind |-> None, user |-> None, todo |-> <<>>, accepted |-> {},
   cutoff |-> 0, seen |-> {}, victims |-> {}, had |-> FALSE,
   from |-> 0, to |-> 0, counted |-> {}, base |-> {}, got |-> <<>>]

Transaction ==
  [events: [EventIds -> EventRow \cup {None}],
   sessions: [SessionIds -> SessionRow \cup {None}],
   locks: SUBSET SessionIds, share: BOOLEAN]

Job ==
  [kind: Kinds \cup {None}, user: Users \cup {None}, todo: Seq(EventInput),
   accepted: SUBSET EventIds, cutoff: Times, seen: SUBSET EventIds,
   victims: SUBSET (Calls \X EventIds), had: BOOLEAN, from: Nat, to: Nat,
   counted: SUBSET (Calls \X EventIds), base: SUBSET EventIds,
   got: Seq(EventIds)]

TypeOK ==
  /\ users \subseteq Users
  /\ events \in [EventIds -> EventRow \cup {None}]
  /\ sessions \in [SessionIds -> SessionRow \cup {None}]
  /\ hourly \subseteq Calls \X EventIds
  /\ state \in Times \cup {None}
  /\ pc \in [Calls -> {"idle", "claim", "create", "store", "commit", "lock",
       "erase", "select", "delete", "wait", "write", "state", "hours",
       "edges", "page"} \cup Ended]
  /\ overlapped \in BOOLEAN
  /\ job \in [Calls -> Job]
  /\ tx \in [Calls -> Transaction] /\ save \in [Calls -> Transaction]

Init ==
  /\ users = Users
  /\ events = [e \in EventIds |-> None]
  /\ sessions = [s \in SessionIds |-> None]
  /\ hourly = {} /\ state = FirstState
  /\ overlapped = FALSE
  /\ pc = [c \in Calls |-> "idle"]
  /\ job = [c \in Calls |-> Blank]
  /\ tx = [c \in Calls |-> Clean]
  /\ save = [c \in Calls |-> Clean]

-----------------------------------------------------------------------------
(* Helpers *)

Stored == {e \in EventIds : events[e] # None}

Goto(c, from, to) == pc[c] = from /\ pc' = [pc EXCEPT ![c] = to]

(* The next call arrives. *)
Begin(c, kind, to, new) ==
  /\ kind \in Kinds
  /\ \A d \in Calls : d < c => pc[d] # "idle"
  /\ Goto(c, "idle", to)
  /\ job' = [job EXCEPT ![c] = [new EXCEPT !.kind = kind]]
  /\ UNCHANGED <<rows, tx, save>>

(* The transaction ends without effect. *)
Abort(c) ==
  /\ pc' = [pc EXCEPT ![c] = "failed"]
  /\ job' = [job EXCEPT ![c] = Blank]
  /\ tx' = [tx EXCEPT ![c] = Clean]
  /\ save' = [save EXCEPT ![c] = Clean]
  /\ UNCHANGED <<rows, overlapped>>

Event(c) == Head(job[c].todo)

(* Who waits for whom: for the lock of a session row, for the end of another
   insertion of the same key, for the user row, which an inserted event shares
   and a deletion locks, and for rows another aggregation has deleted. *)
WaitsFor(c, d) ==
  \/ /\ pc[c] = "claim"
     /\ Event(c).sid \in tx[d].locks /\ sessions[Event(c).sid] # None
  \/ pc[c] = "create" /\ tx[d].sessions[Event(c).sid] # None
  \/ /\ pc[c] = "store"
     /\ \/ tx[d].events[Event(c).id] # None
        \/ pc[d] = "erase" /\ job[d].user = job[c].user
  \/ /\ pc[c] = "lock" /\ job[d].user = job[c].user
     /\ pc[d] = "erase" \/ tx[d].share
  \/ /\ pc[c] = "erase"
     /\ \E s \in tx[d].locks :
          sessions[s] # None /\ sessions[s].user = job[c].user
  \/ /\ pc[c] = "wait" /\ pc[d] = "write"
     /\ job[c].victims \cap job[d].victims # {}

Free(c) == \A d \in Calls \ {c} : ~WaitsFor(c, d)

(* mutant: nobody looks for deadlocks *)
DeadlockedNever(c) == FALSE

(* c waits in a cycle *)
Deadlocked(c) ==
  /\ pc[c] \in {"claim", "create", "store", "lock", "erase", "wait"}
  /\ ~Free(c)
  /\ \E S \in SUBSET Calls :
    /\ c \in S
    /\ \A s \in S : \E t \in S \ {s} : WaitsFor(s, t)
    /\ \A s \in S : \E t \in S \ {s} : WaitsFor(t, s)

-----------------------------------------------------------------------------
(* A batch of events *)

NextOf(todo) == IF todo = <<>> THEN "commit" ELSE "claim"

(* collect_events: an event may be of any time in the last 90 days; the user
   of the cookie exists when it is read. *)
BeginBatch(c) ==
  /\ \E b \in Batches, u \in users \cup {None} :
       Begin(c, "batch", NextOf(b), [Blank EXCEPT !.todo = b, !.user = u])
  /\ UNCHANGED overlapped

(* The event is dealt with: the next one, in a new savepoint. *)
NextEvent(c, t, accepted) ==
  /\ pc' = [pc EXCEPT ![c] = NextOf(Tail(job[c].todo))]
  /\ job' = [job EXCEPT ![c].todo = Tail(@),
                        ![c].accepted = @ \cup accepted]
  /\ tx' = [tx EXCEPT ![c] = t]
  /\ save' = [save EXCEPT ![c] = t]
  /\ UNCHANGED <<rows, overlapped>>

(* What the transaction sees of a session. *)
SessionSeen(c, s) ==
  IF tx[c].sessions[s] # None THEN tx[c].sessions[s] ELSE sessions[s]

Mismatch(c, s) ==
  SessionSeen(c, s).user # None /\ SessionSeen(c, s).user # job[c].user

LastActivity(last, at) == IF at > last THEN at ELSE last

Locked(c, s, row) ==
  [tx[c] EXCEPT !.locks = @ \cup {s}, !.sessions[s] = row]

(* SELECT ... FOR UPDATE finds no session. *)
ClaimMissing(c) ==
  /\ Goto(c, "claim", "create")
  /\ SessionSeen(c, Event(c).sid) = None
  /\ UNCHANGED <<rows, overlapped, job, tx, save>>

(* It finds one, which becomes or is the user's. *)
Claim(c) ==
  LET s == Event(c).sid
  IN  /\ Goto(c, "claim", "store")
      /\ Free(c)
      /\ SessionSeen(c, s) # None /\ ~Mismatch(c, s)
      /\ tx' = [tx EXCEPT ![c] = Locked(c, s,
           [user |-> job[c].user,
            last |-> LastActivity(SessionSeen(c, s).last, Event(c).at)])]
      /\ UNCHANGED <<rows, overlapped, job, save>>

(* It finds one of somebody else: the event is rejected. *)
Reject(c) ==
  /\ pc[c] = "claim" /\ Free(c)
  /\ SessionSeen(c, Event(c).sid) # None /\ Mismatch(c, Event(c).sid)
  /\ NextEvent(c, save[c], {})

(* The INSERT of the session; one that exists meanwhile is selected again. *)
Create(c) ==
  LET s == Event(c).sid
  IN  /\ Goto(c, "create", IF sessions[s] = None THEN "store" ELSE "claim")
      /\ Free(c)
      /\ tx' = IF sessions[s] # None THEN tx
               ELSE [tx EXCEPT ![c] = Locked(c, s,
                      [user |-> job[c].user, last |-> Event(c).at])]
      /\ UNCHANGED <<rows, overlapped, job, save>>

Exists(c, e) == events[e] # None \/ tx[c].events[e] # None

(* mutant: a duplicate keeps what was done for it *)
RolledBackNot(c) == tx[c]

RolledBack(c) == save[c]

(* The event is there already: its savepoint is rolled back. *)
Duplicate(c) ==
  /\ pc[c] = "store" /\ Free(c) /\ Exists(c, Event(c).id)
  /\ NextEvent(c, RolledBack(c), {Event(c).id})

UserGone(c) == job[c].user # None /\ job[c].user \notin users

Store(c) ==
  LET e == Event(c)
  IN  /\ pc[c] = "store" /\ Free(c) /\ ~Exists(c, e.id) /\ ~UserGone(c)
      /\ NextEvent(c,
           [tx[c] EXCEPT
              !.events[e.id] =
                 [sid |-> e.sid, user |-> job[c].user, at |-> e.at],
              !.share = job[c].user # None],
           {e.id})

(* The foreign key fails, and the event is not there: the batch fails. *)
StoreRefused(c) ==
  /\ pc[c] = "store" /\ Free(c)
  /\ ~Exists(c, Event(c).id) /\ UserGone(c)
  /\ Abort(c)

Overlay(new, old) ==
  [k \in DOMAIN old |-> IF new[k] # None THEN new[k] ELSE old[k]]

CommitBatch(c) ==
  /\ Goto(c, "commit", "done")
  /\ events' = Overlay(tx[c].events, events)
  /\ sessions' = Overlay(tx[c].sessions, sessions)
  /\ tx' = [tx EXCEPT ![c] = Clean]
  /\ save' = [save EXCEPT ![c] = Clean]
  /\ job' = [job EXCEPT ![c] = Blank]
  /\ UNCHANGED <<users, hourly, state, overlapped>>

-----------------------------------------------------------------------------
(* delete_account of auth_service.py: the user row is locked, and deleted
   with SET NULL on the rows of both tables *)

BeginDelete(c) ==
  /\ \E u \in users : Begin(c, "account", "lock", [Blank EXCEPT !.user = u])
  /\ UNCHANGED overlapped

DeleteLock(c) ==
  /\ Goto(c, "lock", IF job[c].user \in users THEN "erase" ELSE "failed")
  /\ Free(c)
  /\ UNCHANGED <<rows, overlapped, job, tx, save>>

(* mutant: the events keep the user *)
WithoutUserKept(row, u) == row

WithoutUser(row, u) ==
  IF row # None /\ row.user = u THEN [row EXCEPT !.user = None] ELSE row

DeleteAccount(c) ==
  LET u == job[c].user
  IN  /\ Goto(c, "erase", "done")
      /\ Free(c)
      /\ users' = users \ {u}
      /\ events' = [e \in EventIds |-> WithoutUser(events[e], u)]
      /\ sessions' = [s \in SessionIds |-> WithoutUser(sessions[s], u)]
      /\ job' = [job EXCEPT ![c] = Blank]
      /\ UNCHANGED <<hourly, state, overlapped, tx, save>>

-----------------------------------------------------------------------------
(* refresh_aggregates *)

Refreshing(c) == pc[c] \in {"select", "delete", "wait", "write"}

(* The cutoff is the time: not before that of an earlier aggregation. *)
BeginRefresh(c) ==
  /\ \E t \in Cutoffs :
       /\ state # None => state <= t
       /\ \A d \in Calls : Refreshing(d) => job[d].cutoff <= t
       /\ Begin(c, "refresh", "select", [Blank EXCEPT !.cutoff = t])
  /\ overlapped' = (overlapped \/ \E d \in Calls : Refreshing(d))

Before(t, cutoff) == t < cutoff

RefreshSelect(c) ==
  /\ Goto(c, "select", "delete")
  /\ job' = [job EXCEPT ![c].seen =
               {e \in Stored : Before(events[e].at, job[c].cutoff)}]
  /\ UNCHANGED <<rows, overlapped, tx, save>>

(* DELETE takes the rows that are committed when it begins, ... *)
RefreshDelete(c) ==
  /\ Goto(c, "delete", "wait")
  /\ job' = [job EXCEPT ![c].victims = hourly]
  /\ UNCHANGED <<rows, overlapped, tx, save>>

(* ... and waits for whoever deletes one of them.  Then the state is read. *)
RefreshWait(c) ==
  /\ Goto(c, "wait", "write")
  /\ Free(c)
  /\ job' = [job EXCEPT ![c].had = state # None]
  /\ UNCHANGED <<rows, overlapped, tx, save>>

(* The new rows, the row of the state, and the commit. *)
RefreshWrite(c) ==
  /\ job[c].had \/ state = None
  /\ Goto(c, "write", "done")
  /\ hourly' = (hourly \ job[c].victims) \cup ({c} \X job[c].seen)
  /\ state' = job[c].cutoff
  /\ job' = [job EXCEPT ![c] = Blank]
  /\ UNCHANGED <<users, events, sessions, overlapped, tx, save>>

(* Another aggregation has inserted the first state. *)
RefreshRefused(c) ==
  /\ pc[c] = "write" /\ ~job[c].had /\ state # None
  /\ Abort(c)

-----------------------------------------------------------------------------
(* dashboard: state, hours and edges are read one after the other *)

(* Aggregated is what the rows of hourly count, once each. *)
Aggregated == {row[2] : row \in hourly}

BeginDashboard(c) ==
  /\ \E range \in Ranges :
       Begin(c, "dashboard", "state",
             [Blank EXCEPT !.from = range[1], !.to = range[2]])
  /\ UNCHANGED overlapped

(* effective_end; base remembers what has been aggregated by now. *)
DashboardState(c) ==
  /\ Goto(c, "state", "hours")
  /\ job' = [job EXCEPT
       ![c].to = IF state = None THEN job[c].from
                 ELSE IF state < @ THEN state ELSE @,
       ![c].base = Aggregated]
  /\ UNCHANGED <<rows, overlapped, tx, save>>

HourFloor(t) == HourTicks * (t \div HourTicks)
HourCeil(t)  == HourFloor(t + HourTicks - 1)

InHours(t, from, to) == HourCeil(from) <= t /\ t < HourFloor(to)

(* mutant: the edge at the end of the range begins one tick late *)
InEdgesLate(t, from, to) ==
  /\ from <= t /\ t < to
  /\ t < HourCeil(from) \/ HourFloor(to) < t

(* The parts of the range before its first and after its last whole hour;
   of a range within one hour the first is all. *)
InEdges(t, from, to) ==
  /\ from <= t /\ t < to
  /\ t < HourCeil(from) \/ HourFloor(to) <= t

DashboardHours(c) ==
  /\ Goto(c, "hours", "edges")
  /\ job' = [job EXCEPT ![c].counted =
       {row \in hourly : InHours(HourFloor(events[row[2]].at),
                                 job[c].from, job[c].to)}]
  /\ UNCHANGED <<rows, overlapped, tx, save>>

DashboardEdges(c) ==
  /\ Goto(c, "edges", "done")
  /\ job' = [job EXCEPT ![c].counted = @ \cup {<<c, e>> : e \in
       {e \in Stored : InEdges(events[e].at, job[c].from, job[c].to)}}]
  /\ UNCHANGED <<rows, overlapped, tx, save>>

-----------------------------------------------------------------------------
(* events: page after page of the newest first *)

BeginPaging(c) ==
  /\ Begin(c, "paging", "page", [Blank EXCEPT !.base = Stored])
  /\ UNCHANGED overlapped

Newer(e, f) ==
  events[e].at > events[f].at \/ (events[e].at = events[f].at /\ e > f)

(* mutant: the cursor compares the time alone *)
AfterTime(f, e) == events[f].at < events[e].at

(* f comes behind the cursor at e *)
After(f, e) == Newer(e, f)

(* s are the newest of S, in their order. *)
IsPage(s, S, size) ==
  /\ \A i, j \in 1 .. size : i < j => Newer(s[i], s[j])
  /\ \A f \in S \ {s[i] : i \in 1 .. size} : size > 0 => Newer(s[size], f)

NextPage(c) ==
  LET got    == job[c].got
      behind == {f \in Stored : got = <<>> \/ After(f, got[Len(got)])}
      size   == IF Cardinality(behind) < PageSize THEN Cardinality(behind)
                ELSE PageSize
      page   == CHOOSE s \in [1 .. size -> behind] : IsPage(s, behind, size)
      more   == Cardinality(behind) > PageSize
  IN  /\ Goto(c, "page", IF more THEN "page" ELSE "done")
      /\ job' = [job EXCEPT ![c].got = got \o page]
      /\ UNCHANGED <<rows, overlapped, tx, save>>

-----------------------------------------------------------------------------

(* The database ends a cycle of waiting. *)
DeadlockAbort(c) == Deadlocked(c) /\ Abort(c)

(* The database or the process fails; of a call that has done nothing yet
   nobody notices. *)
Crash(c) == (tx[c] # Clean \/ pc[c] = "write") /\ Abort(c)

Step(c) ==
  \/ ClaimMissing(c) \/ Claim(c) \/ Reject(c) \/ Create(c)
  \/ Duplicate(c) \/ Store(c) \/ StoreRefused(c) \/ CommitBatch(c)
  \/ DeleteLock(c) \/ DeleteAccount(c)
  \/ RefreshSelect(c) \/ RefreshDelete(c) \/ RefreshWait(c)
  \/ RefreshWrite(c) \/ RefreshRefused(c)
  \/ DashboardState(c) \/ DashboardHours(c) \/ DashboardEdges(c)
  \/ NextPage(c)
  \/ DeadlockAbort(c)

Active(c) == pc[c] \notin Ended \cup {"idle"}

Next ==
  \E c \in Calls :
    \/ BeginBatch(c) \/ BeginDelete(c) \/ BeginRefresh(c)
    \/ BeginDashboard(c) \/ BeginPaging(c)
    \/ Step(c) \/ Crash(c)

Spec == Init /\ [][Next]_vars

(* As long as some call can go on, one does: each runs in its own thread, and
   PostgreSQL ends deadlocks.  No call takes infinitely many steps. *)
FairSpec == Spec /\ WF_vars(\E c \in Calls : Active(c) /\ Step(c))

-----------------------------------------------------------------------------
(* Properties *)

(* analytics_events has no foreign key to analytics_sessions, yet each event
   has its session, of the same user if it has one; each session has an
   event, and was active last when the latest of them occurred.  A duplicate,
   rejected or refused event leaves no trace. *)
SessionsMatchEvents ==
  /\ TypeOK
  /\ \A e \in Stored :
       /\ sessions[events[e].sid] # None
       /\ events[e].user # None =>
            sessions[events[e].sid].user = events[e].user
  /\ \A s \in SessionIds :
       sessions[s] # None =>
         LET mine == {e \in Stored : events[e].sid = s}
         IN  /\ \E e \in mine : events[e].at = sessions[s].last
             /\ \A e \in mine : events[e].at <= sessions[s].last

(* What a batch answers to be accepted is stored, by it or by another, and no
   event or session names a deleted user.  Hourly rows do so until the next
   aggregation: no foreign key clears their user_id. *)
AcceptedIsStored ==
  /\ \A c \in Calls : pc[c] = "commit" =>
       \A e \in job[c].accepted : Exists(c, e)
  /\ \A e \in Stored : events[e].user \in users \cup {None}
  /\ \A s \in SessionIds :
       sessions[s] # None => sessions[s].user \in users \cup {None}

(* The range of a dashboard, up to the cutoff it has read. *)
InRange(c, e) == job[c].from <= events[e].at /\ events[e].at < job[c].to

Finished(c, kind) == pc[c] = "done" /\ job[c].kind = kind

(* A dashboard, which reads the cutoff, the hours and the edges one after the
   other, counts nothing outside its range; as long as aggregations do not
   overlap it counts no event twice, and misses none that had been aggregated
   when it read the cutoff. *)
DashboardExact ==
  \A c \in Calls : Finished(c, "dashboard") =>
    /\ \A row \in job[c].counted : InRange(c, row[2])
    /\ ~overlapped =>
         /\ \A row, other \in job[c].counted :
              row[2] = other[2] => row = other
         /\ \A e \in job[c].base :
              InRange(c, e) => \E row \in job[c].counted : row[2] = e

(* totalEvents is the number of event rows that are stored (section 10.5 of
   the API document): no event is counted twice. *)
CountedOnce ==
  \A c \in Calls : Finished(c, "dashboard") =>
    \A row, other \in job[c].counted : row[2] = other[2] => row = other

(* Pages show every event that was there before the first of them, and none
   twice, whatever is stored in between. *)
PagesShowEachOnce ==
  \A c \in Calls :
    LET got == job[c].got
    IN  /\ \A i, j \in DOMAIN got : i # j => got[i] # got[j]
        /\ Finished(c, "paging") =>
             job[c].base \subseteq {got[i] : i \in DOMAIN got}

(* Every call ends, even in a deadlock of batches, or of a batch and the
   deletion of its user. *)
EveryCallEnds == <>[](\A c \in Calls : ~Active(c))
=============================================================================
