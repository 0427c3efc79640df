---------------------------- MODULE AnalyticsProofs ----------------------------
(***************************************************************************)
(* What holds of Analytics for every number of calls, users, sessions and  *)
(* events, every length of an hour and of a page.                          *)
(*                                                                         *)
(* IInv is the inductive invariant.  It says what the transaction of a     *)
(* batch has in it and how it differs from its last savepoint (BatchInv),  *)
(* that no two transactions hold the same row (Exclusive), that the user   *)
(* of a batch with an event is not being deleted (ShareInv), what an       *)
(* aggregation that meets no other has read (RefreshInv), what a dashboard *)
(* has read before it is finished (ReadInv), and that pages follow the     *)
(* order of the list (PageInv).                                            *)
(***************************************************************************)
EXTENDS Analytics, FiniteSetTheorems, SequenceTheorems, TLAPS

Batching == {"claim", "create", "store", "commit"}

(* The rows of a transaction T of call c, against the committed ones *)
OwnRows(c, T) ==
  /\ \A s \in SessionIds :
       /\ T.sessions[s] # None <=> s \in T.locks
       /\ T.sessions[s] # None =>
            /\ T.sessions[s].user = job[c].user
            /\ sessions[s] # None =>
                 /\ sessions[s].user \in {None, job[c].user}
                 /\ sessions[s].last <= T.sessions[s].last
  /\ \A e \in EventIds : T.events[e] # None =>
       /\ events[e] = None
       /\ T.events[e].user = job[c].user
       /\ T.sessions[T.events[e].sid] # None
       /\ T.events[e].at <= T.sessions[T.events[e].sid].last
       /\ job[c].user # None => T.share
  /\ T.share => job[c].user # None

(* An event of session s at time t, committed or of the transaction *)
HasEvent(T, s, t) ==
  \E e \in EventIds :
    \/ T.events[e] # None /\ T.events[e].sid = s /\ T.events[e].at = t
    \/ events[e] # None /\ events[e].sid = s /\ events[e].at = t

Backed(T) ==
  \A s \in SessionIds : T.sessions[s] # None =>
    /\ HasEvent(T, s, T.sessions[s].last)
    /\ \E e \in EventIds : T.events[e] # None

(* The session of the event in hand has been claimed since the savepoint. *)
Claimed(c, s) ==
  /\ tx[c].events = save[c].events /\ tx[c].share = save[c].share
  /\ tx[c].locks = save[c].locks \cup {s}
  /\ \A r \in SessionIds \ {s} : tx[c].sessions[r] = save[c].sessions[r]
  /\ tx[c].sessions[s] # None
  /\ Event(c).at <= tx[c].sessions[s].last
  /\ \/ tx[c].sessions[s].last = Event(c).at
     \/ HasEvent(save[c], s, tx[c].sessions[s].last)
  /\ save[c].sessions[s] # None =>
       save[c].sessions[s].last <= tx[c].sessions[s].last

StageInv ==
  \A c \in Calls :
    /\ pc[c] \notin Batching => tx[c] = Clean /\ save[c] = Clean
    /\ pc[c] \in {"claim", "create", "commit"} => tx[c] = save[c]
    /\ pc[c] \in {"claim", "create", "store"} => job[c].todo # <<>>
    /\ pc[c] = "create" => tx[c].sessions[Event(c).sid] = None
    /\ pc[c] = "store" => Claimed(c, Event(c).sid)

BatchInv ==
  \A c \in Calls :
    /\ OwnRows(c, tx[c]) /\ OwnRows(c, save[c]) /\ Backed(save[c])
    /\ pc[c] \in Batching =>
         \A e \in job[c].accepted : events[e] # None \/ save[c].events[e] # None

Exclusive ==
  \A c, d \in Calls : c # d =>
    /\ tx[c].locks \cap tx[d].locks = {}
    /\ \A e \in EventIds : tx[c].events[e] = None \/ tx[d].events[e] = None

ShareInv ==
  \A c \in Calls : tx[c].share =>
    /\ job[c].user \in users
    /\ \A d \in Calls : pc[d] = "erase" => job[d].user # job[c].user

UsersInv ==
  /\ \A e \in Stored : events[e].user \in users \cup {None}
  /\ \A s \in SessionIds :
       sessions[s] # None => sessions[s].user \in users \cup {None}

(* Aggregations *)
RefreshInv ==
  /\ \A row \in hourly : row[2] \in Stored
  /\ \A c \in Calls : pc[c] \in {"delete", "wait", "write"} =>
       job[c].seen \subseteq Stored
  /\ ~overlapped =>
       /\ \A c, d \in Calls : Refreshing(c) /\ Refreshing(d) => c = d
       /\ \A row, other \in hourly : row[2] = other[2] => row = other
       /\ \A row \in hourly : state # None /\ events[row[2]].at < state
       /\ \A c \in Calls :
            /\ Refreshing(c) /\ state # None => state <= job[c].cutoff
            /\ pc[c] \in {"delete", "wait", "write"} =>
                 /\ Aggregated \subseteq job[c].seen
                 /\ \A e \in job[c].seen : events[e].at < job[c].cutoff
            /\ pc[c] \in {"wait", "write"} => job[c].victims = hourly

(* Dashboards *)
ReadInv ==
  \A c \in Calls :
    /\ pc[c] \in {"hours", "edges"} => job[c].base \subseteq Stored
    /\ pc[c] = "hours" /\ ~overlapped => job[c].base \subseteq Aggregated
    /\ pc[c] = "edges" =>
         /\ \A row \in job[c].counted :
              /\ row[2] \in Stored
              /\ InHours(HourFloor(events[row[2]].at), job[c].from, job[c].to)
         /\ ~overlapped =>
              /\ \A row, other \in job[c].counted :
                   row[2] = other[2] => row = other
              /\ \A e \in job[c].base :
                   InHours(HourFloor(events[e].at), job[c].from, job[c].to) =>
                     \E row \in job[c].counted : row[2] = e
    /\ Finished(c, "dashboard") =>
         /\ \A row \in job[c].counted : row[2] \in Stored
         /\ job[c].base \subseteq Stored

(* Pages *)
PageInv ==
  \A c \in Calls :
    LET got == job[c].got
    IN  /\ pc[c] = "page" => job[c].kind = "paging"
        /\ pc[c] \in {"state", "hours", "edges"} => job[c].kind = "dashboard"
        /\ pc[c] \notin {"page", "done"} => got = <<>>
        /\ \A i \in 1 .. Len(got) : got[i] \in Stored
        /\ \A i, j \in 1 .. Len(got) : i < j => Newer(got[i], got[j])
        /\ pc[c] = "page" =>
             /\ job[c].base \subseteq Stored
             /\ \A e \in job[c].base :
                  \/ got = <<>> \/ Newer(got[Len(got)], e)
                  \/ \E i \in 1 .. Len(got) : got[i] = e
        /\ Finished(c, "paging") =>
             \A e \in job[c].base : \E i \in 1 .. Len(got) : got[i] = e

(* The inductive invariant *)
IInv ==
  /\ SessionsMatchEvents /\ StageInv /\ BatchInv /\ Exclusive /\ ShareInv
  /\ UsersInv /\ RefreshInv /\ ReadInv /\ DashboardExact /\ PageInv

-----------------------------------------------------------------------------
(* Constants, and records that change in one field *)

LEMMA Constants ==
  /\ EventIds \subseteq Nat /\ IsFiniteSet(EventIds) /\ Times \subseteq Nat
  /\ None \notin Users /\ None \notin EventRow /\ None \notin SessionRow
  /\ None \notin Times /\ 0 \in Times
  BY AnalyticsConstants DEF Times

LEMMA CleanTransaction == Clean \in Transaction
  BY DEF Clean, Transaction

LEMMA JobFields ==
  ASSUME NEW j \in Job
  PROVE  /\ j.user \in Users \cup {None} /\ j.todo \in Seq(EventInput)
         /\ j.accepted \subseteq EventIds /\ j.seen \subseteq EventIds
         /\ j.cutoff \in Times /\ j.from \in Nat /\ j.to \in Nat
         /\ j.victims \subseteq Calls \X EventIds
         /\ j.counted \subseteq Calls \X EventIds
         /\ j.base \subseteq EventIds /\ j.got \in Seq(EventIds)
  BY DEF Job

LEMMA SetTodo ==
  ASSUME NEW j \in Job, NEW t \in Seq(EventInput), NEW a \in SUBSET EventIds
  PROVE  [j EXCEPT !.todo = t, !.accepted = a] \in Job
  BY DEF Job

LEMMA SetSeen ==
  ASSUME NEW j \in Job, NEW x \in SUBSET EventIds
  PROVE  [j EXCEPT !.seen = x] \in Job
  BY DEF Job

LEMMA SetVictims ==
  ASSUME NEW j \in Job, NEW x \in SUBSET (Calls \X EventIds)
  PROVE  [j EXCEPT !.victims = x] \in Job
  BY DEF Job

LEMMA SetHad ==
  ASSUME NEW j \in Job, NEW x \in BOOLEAN
  PROVE  [j EXCEPT !.had = x] \in Job
  BY DEF Job

LEMMA SetBase ==
  ASSUME NEW j \in Job, NEW x \in Nat, NEW b \in SUBSET EventIds
  PROVE  [j EXCEPT !.to = x, !.base = b] \in Job
  BY DEF Job

LEMMA SetCounted ==
  ASSUME NEW j \in Job, NEW x \in SUBSET (Calls \X EventIds)
  PROVE  [j EXCEPT !.counted = x] \in Job
  BY DEF Job

LEMMA SetGot ==
  ASSUME NEW j \in Job, NEW x \in Seq(EventIds)
  PROVE  [j EXCEPT !.got = x] \in Job
  BY DEF Job

LEMMA BlankJob == Blank \in Job
  <1>1. <<>> \in Seq(EventInput) /\ <<>> \in Seq(EventIds)
    BY EmptySeq
  <1> QED  BY <1>1, Constants DEF Blank, Job

(* How the job of a call begins *)
LEMMA NewJobs ==
  ASSUME NEW k \in Kinds
  PROVE  /\ \A t \in Seq(EventInput), u \in Users \cup {None} :
              [[Blank EXCEPT !.todo = t, !.user = u] EXCEPT !.kind = k] \in Job
         /\ \A u \in Users :
              [[Blank EXCEPT !.user = u] EXCEPT !.kind = k] \in Job
         /\ \A t \in Times :
              [[Blank EXCEPT !.cutoff = t] EXCEPT !.kind = k] \in Job
         /\ \A f, t \in Nat :
              [[Blank EXCEPT !.from = f, !.to = t] EXCEPT !.kind = k] \in Job
         /\ \A b \in SUBSET EventIds :
              [[Blank EXCEPT !.base = b] EXCEPT !.kind = k] \in Job
  BY BlankJob, ZenonT(60) DEF Job

-----------------------------------------------------------------------------
(* The order of the pages: every set of events can be put into it. *)

LEMMA NewerIsOrder ==
  ASSUME TypeOK, NEW e \in Stored, NEW f \in Stored
  PROVE  /\ ~Newer(e, e)
         /\ Newer(e, f) => ~Newer(f, e)
         /\ e # f => Newer(e, f) \/ Newer(f, e)
         /\ \A g \in Stored : Newer(e, f) /\ Newer(f, g) => Newer(e, g)
<1>1. \A g \in Stored : g \in Nat /\ events[g].at \in Nat
  BY Constants DEF Stored, TypeOK, EventRow
<1> QED  BY <1>1 DEF Newer

(* The events that come before f *)
Ahead(S, f) == {g \in S : Newer(g, f)}
Place(S, f) == Cardinality(Ahead(S, f))

LEMMA AheadGrows ==
  ASSUME TypeOK, NEW S \in SUBSET Stored, NEW e \in S, NEW f \in S, Newer(e, f)
  PROVE  Place(S, e) < Place(S, f)
<1>1. IsFiniteSet(S)
  BY Constants, FS_Subset DEF Stored
<1>2. Ahead(S, e) \subseteq Ahead(S, f) /\ e \in Ahead(S, f) \ Ahead(S, e)
  BY NewerIsOrder DEF Ahead
<1>3. IsFiniteSet(Ahead(S, f)) /\ IsFiniteSet(Ahead(S, e))
  BY <1>1, FS_Subset DEF Ahead
<1>4. /\ Cardinality(Ahead(S, e)) <= Cardinality(Ahead(S, f))
      /\ Cardinality(Ahead(S, e)) # Cardinality(Ahead(S, f))
  BY <1>2, <1>3, FS_Subset
<1> QED  BY <1>3, <1>4, FS_CardinalityType DEF Place

LEMMA Places ==
  ASSUME TypeOK, NEW S \in SUBSET Stored
  PROVE  /\ IsFiniteSet(S) /\ Cardinality(S) \in Nat
         /\ \A e \in S : Place(S, e) \in 0 .. Cardinality(S) - 1
         /\ \A e, f \in S : Newer(e, f) <=> Place(S, e) < Place(S, f)
         /\ \A n \in 0 .. Cardinality(S) - 1 : \E e \in S : Place(S, e) = n
<1>1. IsFiniteSet(S) /\ Cardinality(S) \in Nat
  BY Constants, FS_Subset, FS_CardinalityType DEF Stored
<1>2. ASSUME NEW e \in S
      PROVE  Place(S, e) \in 0 .. Cardinality(S) - 1
  <2>1. Ahead(S, e) \subseteq S /\ e \notin Ahead(S, e)
    BY NewerIsOrder DEF Ahead
  <2>2. /\ IsFiniteSet(Ahead(S, e)) /\ Place(S, e) <= Cardinality(S)
        /\ Cardinality(S) # Place(S, e)
    BY <1>1, <2>1, FS_Subset DEF Place
  <2>3. Place(S, e) \in Nat
    BY <2>2, FS_CardinalityType DEF Place
  <2> QED  BY <1>1, <2>2, <2>3
<1>3. ASSUME NEW e \in S, NEW f \in S
      PROVE  Newer(e, f) <=> Place(S, e) < Place(S, f)
  <2>1. CASE Newer(e, f)
    BY <2>1, AheadGrows
  <2>2. CASE e = f
    BY <1>2, <2>2, NewerIsOrder
  <2>3. CASE Newer(f, e)
    <3>1. Place(S, f) < Place(S, e)
      BY <2>3, AheadGrows
    <3> QED  BY <1>2, <2>3, <3>1, NewerIsOrder
  <2> QED  BY <2>1, <2>2, <2>3, NewerIsOrder
<1>4. \A n \in 0 .. Cardinality(S) - 1 : \E e \in S : Place(S, e) = n
  <2> DEFINE N == 0 .. Cardinality(S) - 1
             p == [e \in S |-> Place(S, e)]
  <2>1. p \in [S -> N]
    BY <1>2
  <2>2. ASSUME NEW e \in S, NEW f \in S, p[e] = p[f]
        PROVE  e = f
    <3>1. Place(S, e) = Place(S, f) /\ Place(S, e) \in Nat
      BY <1>2, <2>2
    <3>2. ~Newer(e, f) /\ ~Newer(f, e)
      BY <1>3, <3>1
    <3> QED  BY <3>2, NewerIsOrder
  <2>3. p \in Injection(S, N)
    BY <2>1, <2>2 DEF Injection, IsInjective
  <2>4. IsFiniteSet(N) /\ Cardinality(N) = Cardinality(S)
    BY <1>1, FS_Interval
  <2>5. p \in Surjection(S, N)
    BY <2>3, <2>4, FS_Injection
  <2> QED  BY <2>5 DEF Surjection
<1> QED  BY <1>1, <1>2, <1>3, <1>4

(* A page of any size can be filled. *)
LEMMA PageExists ==
  ASSUME TypeOK, NEW S \in SUBSET Stored,
         NEW size \in Nat, size <= Cardinality(S)
  PROVE  \E s \in [1 .. size -> S] : IsPage(s, S, size)
<1> DEFINE At(i) == CHOOSE e \in S : Place(S, e) = i - 1
           s == [i \in 1 .. size |-> At(i)]
<1>1. \A i \in 1 .. size : At(i) \in S /\ Place(S, At(i)) = i - 1
  <2> TAKE i \in 1 .. size
  <2>1. i - 1 \in 0 .. Cardinality(S) - 1
    BY Places
  <2> QED  BY <2>1, Places
<1> HIDE DEF At
<1>2. s \in [1 .. size -> S]
  BY <1>1
<1>3. ASSUME NEW i \in 1 .. size, NEW j \in 1 .. size, i < j
      PROVE  Newer(s[i], s[j])
  BY <1>1, <1>3, Places
<1>4. ASSUME NEW f \in S \ {s[i] : i \in 1 .. size}, size > 0
      PROVE  Newer(s[size], f)
  <2>1. Place(S, f) \in 0 .. Cardinality(S) - 1
    BY Places
  <2>2. CASE Place(S, f) >= size
    BY <1>1, <1>4, <2>1, <2>2, Places
  <2>3. CASE Place(S, f) < size
    <3>1. /\ Place(S, f) + 1 \in 1 .. size
          /\ Place(S, s[Place(S, f) + 1]) = Place(S, f)
          /\ s[Place(S, f) + 1] \in S
      BY <1>1, <2>1, <2>3
    <3>2. ~Newer(s[Place(S, f) + 1], f) /\ ~Newer(f, s[Place(S, f) + 1])
      BY <3>1, <2>1, Places
    <3>3. f = s[Place(S, f) + 1]
      BY <3>1, <3>2, NewerIsOrder
    <3> QED  BY <1>4, <3>1, <3>3
  <2> QED  BY <2>1, <2>2, <2>3
<1>5. IsPage(s, S, size)
  BY <1>3, <1>4 DEF IsPage
<1> QED  BY <1>2, <1>5

-----------------------------------------------------------------------------
(* The steps of a call *)

Act(c) ==
  \/ BeginBatch(c) \/ BeginDelete(c) \/ BeginRefresh(c)
  \/ BeginDashboard(c) \/ BeginPaging(c)
  \/ Step(c) \/ Crash(c)

(* A call that fails, for whatever reason *)
Fails(c) == Abort(c) /\ pc[c] \notin {"idle"} \cup Ended

(* The steps of a call, those that fail as one *)
Steps(c) ==
  \/ BeginBatch(c) \/ BeginDelete(c) \/ BeginRefresh(c)
  \/ BeginDashboard(c) \/ BeginPaging(c)
  \/ ClaimMissing(c) \/ Claim(c) \/ Reject(c) \/ Create(c)
  \/ Duplicate(c) \/ Store(c) \/ CommitBatch(c)
  \/ DeleteLock(c) \/ DeleteAccount(c)
  \/ RefreshSelect(c) \/ RefreshDelete(c) \/ RefreshWait(c)
  \/ RefreshWrite(c)
  \/ DashboardState(c) \/ DashboardHours(c) \/ DashboardEdges(c)
  \/ NextPage(c) \/ Fails(c)

LEMMA ActSplit ==
  ASSUME StageInv, NEW c \in Calls, Act(c)
  PROVE  Steps(c)
<1>1. StoreRefused(c) \/ RefreshRefused(c) \/ DeadlockAbort(c) => Fails(c)
  BY DEF StoreRefused, RefreshRefused, DeadlockAbort, Deadlocked, Fails, Ended
<1>2. Crash(c) => Fails(c)
  BY DEF Crash, Fails, StageInv, Batching, Ended
<1> QED  BY <1>1, <1>2 DEF Act, Step, Steps

(* A step is a step of one call: the others stay where they are. *)
LEMMA OthersStay ==
  ASSUME TypeOK, StageInv, NEW c \in Calls, Act(c), NEW d \in Calls, d # c
  PROVE  /\ pc'[d] = pc[d] /\ job'[d] = job[d]
         /\ tx'[d] = tx[d] /\ save'[d] = save[d]
<1>0. Steps(c)
  BY ActSplit
<1>1. pc'[d] = pc[d]
  BY <1>0 DEF Steps, TypeOK, Goto, Begin, BeginBatch, BeginDelete, BeginRefresh,
     BeginDashboard, BeginPaging, ClaimMissing, Claim, Reject, Create,
     Duplicate, Store, CommitBatch, DeleteLock, DeleteAccount, RefreshSelect,
     RefreshDelete, RefreshWait, RefreshWrite, DashboardState, DashboardHours,
     DashboardEdges, NextPage, NextEvent, Fails, Abort
<1>2. job'[d] = job[d]
  BY <1>0 DEF Steps, TypeOK, Begin, BeginBatch, BeginDelete, BeginRefresh,
     BeginDashboard, BeginPaging, ClaimMissing, Claim, Reject, Create,
     Duplicate, Store, CommitBatch, DeleteLock, DeleteAccount, RefreshSelect,
     RefreshDelete, RefreshWait, RefreshWrite, DashboardState, DashboardHours,
     DashboardEdges, NextPage, NextEvent, Fails, Abort
<1>3. tx'[d] = tx[d] /\ save'[d] = save[d]
  BY <1>0 DEF Steps, TypeOK, Begin, BeginBatch, BeginDelete, BeginRefresh,
     BeginDashboard, BeginPaging, ClaimMissing, Claim, Reject, Create,
     Duplicate, Store, CommitBatch, DeleteLock, DeleteAccount, RefreshSelect,
     RefreshDelete, RefreshWait, RefreshWrite, DashboardState, DashboardHours,
     DashboardEdges, NextPage, NextEvent, Fails, Abort
<1> QED  BY <1>1, <1>2, <1>3

(* The event a batch has in hand *)
LEMMA EventFacts ==
  ASSUME TypeOK, StageInv, NEW c \in Calls,
         pc[c] \in {"claim", "create", "store"}
  PROVE  /\ Event(c) \in EventInput /\ Event(c).id \in EventIds
         /\ Event(c).sid \in SessionIds /\ Event(c).at \in Times
         /\ Tail(job[c].todo) \in Seq(EventInput)
<1>1. job[c].todo \in Seq(EventInput) /\ job[c].todo # <<>>
  BY JobFields DEF TypeOK, StageInv
<1>2. Event(c) \in EventInput /\ Tail(job[c].todo) \in Seq(EventInput)
  BY <1>1, HeadTailProperties DEF Event
<1> QED  BY <1>2 DEF EventInput

Behind(c) ==
  {f \in Stored : job[c].got = <<>> \/ After(f, job[c].got[Len(job[c].got)])}

PageSizeOf(c) ==
  IF Cardinality(Behind(c)) < PageSize THEN Cardinality(Behind(c)) ELSE PageSize

(* What a page is and does *)
LEMMA PageFacts ==
  ASSUME TypeOK, NEW c \in Calls, NextPage(c)
  PROVE  /\ PageSizeOf(c) \in Nat /\ Cardinality(Behind(c)) \in Nat
         /\ \E page \in [1 .. PageSizeOf(c) -> Behind(c)] :
              /\ IsPage(page, Behind(c), PageSizeOf(c))
              /\ page \in Seq(EventIds) /\ Len(page) = PageSizeOf(c)
              /\ job' = [job EXCEPT ![c].got = job[c].got \o page]
              /\ pc' = [pc EXCEPT ![c] =
                   IF Cardinality(Behind(c)) > PageSize THEN "page" ELSE "done"]
<1>1. /\ Behind(c) \subseteq Stored /\ Behind(c) \subseteq EventIds
      /\ Cardinality(Behind(c)) \in Nat
  BY Places DEF Behind, Stored
<1>2. /\ PageSizeOf(c) \in Nat /\ PageSizeOf(c) <= Cardinality(Behind(c))
  BY <1>1, AnalyticsConstants DEF PageSizeOf
<1>3. \E s \in [1 .. PageSizeOf(c) -> Behind(c)] :
        IsPage(s, Behind(c), PageSizeOf(c))
  BY <1>1, <1>2, PageExists
<1> DEFINE page == CHOOSE s \in [1 .. PageSizeOf(c) -> Behind(c)] :
                     IsPage(s, Behind(c), PageSizeOf(c))
<1>4. /\ page \in [1 .. PageSizeOf(c) -> Behind(c)]
      /\ IsPage(page, Behind(c), PageSizeOf(c))
  BY <1>3
<1>5. /\ job' = [job EXCEPT ![c].got = job[c].got \o page]
      /\ pc' = [pc EXCEPT ![c] =
            IF Cardinality(Behind(c)) > PageSize THEN "page" ELSE "done"]
  BY DEF NextPage, Behind, PageSizeOf, Goto
<1> HIDE DEF page
<1>6. page \in Seq(EventIds) /\ Len(page) = PageSizeOf(c)
  BY <1>1, <1>2, <1>4
<1> QED  BY <1>1, <1>2, <1>4, <1>5, <1>6

(* What a step makes of the job of its call *)
LEMMA JobStep ==
  ASSUME TypeOK, StageInv, NEW c \in Calls, Act(c)
  PROVE  \E k \in Job : job' = [job EXCEPT ![c] = k]
<1>0. job[c] \in Job /\ job = [job EXCEPT ![c] = job[c]]
  BY DEF TypeOK
<1>1. CASE BeginBatch(c)
  <2>1. PICK b \in Batches, u \in users \cup {None} :
          Begin(c, "batch", NextOf(b), [Blank EXCEPT !.todo = b, !.user = u])
    BY <1>1 DEF BeginBatch
  <2>2. b \in Seq(EventInput) /\ u \in Users \cup {None}
    BY AnalyticsConstants DEF TypeOK
  <2> QED  BY <2>1, <2>2, NewJobs DEF Begin
<1>2. CASE BeginDelete(c)
  BY <1>2, NewJobs DEF BeginDelete, Begin, TypeOK
<1>3. CASE BeginRefresh(c)
  <2>1. PICK t \in Cutoffs :
          Begin(c, "refresh", "select", [Blank EXCEPT !.cutoff = t])
    BY <1>3 DEF BeginRefresh
  <2>2. t \in Times
    BY AnalyticsConstants
  <2> QED  BY <2>1, <2>2, NewJobs DEF Begin
<1>4. CASE BeginDashboard(c)
  <2>1. PICK range \in Ranges :
          Begin(c, "dashboard", "state",
                [Blank EXCEPT !.from = range[1], !.to = range[2]])
    BY <1>4 DEF BeginDashboard
  <2>2. range[1] \in Nat /\ range[2] \in Nat
    BY AnalyticsConstants
  <2> QED  BY <2>1, <2>2, NewJobs DEF Begin
<1>5. CASE BeginPaging(c)
  <2>1. Stored \in SUBSET EventIds
    BY DEF Stored
  <2> QED  BY <1>5, <2>1, NewJobs DEF BeginPaging, Begin
<1>6. CASE ClaimMissing(c) \/ Claim(c) \/ Create(c) \/ DeleteLock(c)
  BY <1>0, <1>6 DEF ClaimMissing, Claim, Create, DeleteLock
<1>7. ASSUME NEW t, NEW a \in SUBSET EventIds, NextEvent(c, t, a),
             pc[c] \in {"claim", "create", "store"}
      PROVE  \E k \in Job : job' = [job EXCEPT ![c] = k]
  <2>1. job' = [job EXCEPT ![c] = [job[c] EXCEPT
                  !.todo = Tail(job[c].todo),
                  !.accepted = job[c].accepted \cup a]]
    BY <1>0, <1>7 DEF NextEvent
  <2>2. job[c].accepted \cup a \in SUBSET EventIds
    BY <1>0, JobFields
  <2>3. Tail(job[c].todo) \in Seq(EventInput)
    BY <1>7, EventFacts
  <2> QED  BY <1>0, <2>1, <2>2, <2>3, SetTodo
<1>8. CASE Reject(c)
  BY <1>7, <1>8 DEF Reject
<1>9. CASE Duplicate(c)
  <2>1. {Event(c).id} \in SUBSET EventIds
    BY <1>9, EventFacts DEF Duplicate
  <2> QED  BY <1>7, <1>9, <2>1 DEF Duplicate
<1>10. CASE Store(c)
  <2>1. {Event(c).id} \in SUBSET EventIds
    BY <1>10, EventFacts DEF Store
  <2> QED  BY <1>7, <1>10, <2>1 DEF Store
<1>11. CASE CommitBatch(c) \/ DeleteAccount(c) \/ RefreshWrite(c) \/ Fails(c)
  BY <1>11, BlankJob DEF CommitBatch, DeleteAccount, RefreshWrite, Fails, Abort
<1>12. CASE RefreshSelect(c)
  <2> DEFINE x == {e \in Stored : Before(events[e].at, job[c].cutoff)}
  <2>1. x \in SUBSET EventIds
    BY DEF Stored
  <2>2. job' = [job EXCEPT ![c] = [job[c] EXCEPT !.seen = x]]
    BY <1>12 DEF RefreshSelect
  <2> HIDE DEF x
  <2> QED  BY <1>0, <2>1, <2>2, SetSeen
<1>13. CASE RefreshDelete(c)
  <2>1. job' = [job EXCEPT ![c] = [job[c] EXCEPT !.victims = hourly]]
    BY <1>13 DEF RefreshDelete
  <2> QED  BY <1>0, <2>1, SetVictims DEF TypeOK
<1>14. CASE RefreshWait(c)
  <2> DEFINE x == state # None
  <2>1. job' = [job EXCEPT ![c] = [job[c] EXCEPT !.had = x]]
    BY <1>14 DEF RefreshWait
  <2>2. x \in BOOLEAN
    OBVIOUS
  <2> HIDE DEF x
  <2> QED  BY <1>0, <2>1, <2>2, SetHad
<1>15. CASE DashboardState(c)
  <2> DEFINE x == IF state = None THEN job[c].from
                  ELSE IF state < job[c].to THEN state ELSE job[c].to
  <2>1. job' = [job EXCEPT ![c] = [job[c] EXCEPT !.to = x,
                                                 !.base = Aggregated]]
    BY <1>0, <1>15 DEF DashboardState
  <2>2. x \in Nat /\ Aggregated \in SUBSET EventIds
    BY <1>0, JobFields, Constants DEF TypeOK, Aggregated
  <2> HIDE DEF x
  <2> QED  BY <1>0, <2>1, <2>2, SetBase
<1>16. CASE DashboardHours(c)
  <2> DEFINE x == {row \in hourly :
                     InHours(HourFloor(events[row[2]].at),
                             job[c].from, job[c].to)}
  <2>1. job' = [job EXCEPT ![c] = [job[c] EXCEPT !.counted = x]]
    BY <1>16 DEF DashboardHours
  <2>2. x \in SUBSET (Calls \X EventIds)
    BY DEF TypeOK
  <2> HIDE DEF x
  <2> QED  BY <1>0, <2>1, <2>2, SetCounted
<1>17. CASE DashboardEdges(c)
  <2> DEFINE x == job[c].counted \cup {<<c, e>> : e \in
       {e \in Stored : InEdges(events[e].at, job[c].from, job[c].to)}}
  <2>1. job' = [job EXCEPT ![c] = [job[c] EXCEPT !.counted = x]]
    BY <1>0, <1>17 DEF DashboardEdges
  <2>2. x \in SUBSET (Calls \X EventIds)
    BY <1>0, JobFields DEF Stored
  <2> HIDE DEF x
  <2> QED  BY <1>0, <2>1, <2>2, SetCounted
<1>18. CASE NextPage(c)
  <2>1. PICK page \in Seq(EventIds) :
          job' = [job EXCEPT ![c].got = job[c].got \o page]
    BY <1>18, PageFacts
  <2>2. job[c].got \o page \in Seq(EventIds)
    BY <1>0, JobFields, ConcatProperties
  <2>3. job' = [job EXCEPT ![c] = [job[c] EXCEPT !.got = job[c].got \o page]]
    BY <2>1
  <2> QED  BY <1>0, <2>2, <2>3, SetGot
<1> QED  BY <1>1, <1>2, <1>3, <1>4, <1>5, <1>6, <1>8, <1>9, <1>10, <1>11,
            <1>12, <1>13, <1>14, <1>15, <1>16, <1>17, <1>18, ActSplit DEF Steps

(* What a step makes of a transaction *)
LEMMA TransactionFields ==
  ASSUME NEW t \in Transaction
  PROVE  /\ t.events \in [EventIds -> EventRow \cup {None}]
         /\ t.sessions \in [SessionIds -> SessionRow \cup {None}]
         /\ t.locks \subseteq SessionIds /\ t.share \in BOOLEAN
  BY DEF Transaction

LEMMA SetSessions ==
  ASSUME NEW t \in Transaction, NEW l \in SUBSET SessionIds,
         NEW x \in [SessionIds -> SessionRow \cup {None}]
  PROVE  [t EXCEPT !.locks = l, !.sessions = x] \in Transaction
  BY DEF Transaction

LEMMA SetSessionsFields ==
  ASSUME NEW t \in Transaction, NEW l, NEW x
  PROVE  LET n == [t EXCEPT !.locks = l, !.sessions = x]
         IN  n.locks = l /\ n.sessions = x /\ n.events = t.events
             /\ n.share = t.share
  BY DEF Transaction

LEMMA SetEvents ==
  ASSUME NEW t \in Transaction, NEW b \in BOOLEAN,
         NEW x \in [EventIds -> EventRow \cup {None}]
  PROVE  [t EXCEPT !.events = x, !.share = b] \in Transaction
  BY DEF Transaction

LEMMA SetEventsFields ==
  ASSUME NEW t \in Transaction, NEW x, NEW b
  PROVE  LET n == [t EXCEPT !.events = x, !.share = b]
         IN  n.events = x /\ n.share = b /\ n.sessions = t.sessions
             /\ n.locks = t.locks
  BY DEF Transaction

LEMMA LockedFields ==
  ASSUME TypeOK, NEW c \in Calls, NEW s \in SessionIds, NEW row \in SessionRow
  PROVE  /\ Locked(c, s, row) \in Transaction
         /\ Locked(c, s, row).events = tx[c].events
         /\ Locked(c, s, row).share = tx[c].share
         /\ Locked(c, s, row).locks = tx[c].locks \cup {s}
         /\ Locked(c, s, row).sessions[s] = row
         /\ \A r \in SessionIds \ {s} :
              Locked(c, s, row).sessions[r] = tx[c].sessions[r]
<1>1. tx[c] \in Transaction
  BY DEF TypeOK
<1>2. /\ [tx[c].sessions EXCEPT ![s] = row]
            \in [SessionIds -> SessionRow \cup {None}]
      /\ tx[c].locks \cup {s} \in SUBSET SessionIds
      /\ tx[c].sessions \in [SessionIds -> SessionRow \cup {None}]
  BY <1>1, TransactionFields
<1> DEFINE x == [tx[c].sessions EXCEPT ![s] = row]
<1>3. Locked(c, s, row) =
        [tx[c] EXCEPT !.locks = tx[c].locks \cup {s}, !.sessions = x]
  BY <1>1 DEF Locked, Transaction
<1>4. x[s] = row /\ \A r \in SessionIds \ {s} : x[r] = tx[c].sessions[r]
  BY <1>2
<1> HIDE DEF x
<1>5. x \in [SessionIds -> SessionRow \cup {None}]
  BY <1>2 DEF x
<1>6. Locked(c, s, row) \in Transaction
  <2>1. tx[c].locks \cup {s} \in SUBSET SessionIds
    BY <1>2
  <2>2. [tx[c] EXCEPT !.locks = tx[c].locks \cup {s}, !.sessions = x]
          \in Transaction
    BY <1>1, <1>5, <2>1, SetSessions
  <2> QED  BY <1>3, <2>2
<1>7. /\ Locked(c, s, row).events = tx[c].events
      /\ Locked(c, s, row).share = tx[c].share
      /\ Locked(c, s, row).locks = tx[c].locks \cup {s}
      /\ Locked(c, s, row).sessions = x
  BY <1>1, <1>3, SetSessionsFields
<1> QED  BY <1>4, <1>6, <1>7

(* The transaction after an event has been stored *)
WithEvent(c) ==
  [tx[c] EXCEPT
     !.events[Event(c).id] =
        [sid |-> Event(c).sid, user |-> job[c].user, at |-> Event(c).at],
     !.share = job[c].user # None]

LEMMA WithEventFields ==
  ASSUME TypeOK, StageInv, NEW c \in Calls, pc[c] = "store"
  PROVE  /\ WithEvent(c) \in Transaction
         /\ WithEvent(c).sessions = tx[c].sessions
         /\ WithEvent(c).locks = tx[c].locks
         /\ WithEvent(c).share = (job[c].user # None)
         /\ WithEvent(c).events[Event(c).id] =
              [sid |-> Event(c).sid, user |-> job[c].user, at |-> Event(c).at]
         /\ WithEvent(c).events[Event(c).id] \in EventRow
         /\ \A e \in EventIds \ {Event(c).id} :
              WithEvent(c).events[e] = tx[c].events[e]
<1>1. tx[c] \in Transaction /\ job[c] \in Job
  BY DEF TypeOK
<1> DEFINE row == [sid |-> Event(c).sid, user |-> job[c].user,
                   at |-> Event(c).at]
           x   == [tx[c].events EXCEPT ![Event(c).id] = row]
           b   == job[c].user # None
<1>2. row \in EventRow /\ Event(c).id \in EventIds
  BY <1>1, EventFacts, JobFields DEF EventRow
<1>3. WithEvent(c) = [tx[c] EXCEPT !.events = x, !.share = b]
  BY <1>1 DEF WithEvent, Transaction
<1> HIDE DEF row
<1>4. x \in [EventIds -> EventRow \cup {None}] /\ x[Event(c).id] = row
      /\ \A e \in EventIds \ {Event(c).id} : x[e] = tx[c].events[e]
  BY <1>1, <1>2, TransactionFields
<1>5. b \in BOOLEAN /\ b = (job[c].user # None)
  OBVIOUS
<1> HIDE DEF x, b
<1>6. WithEvent(c) \in Transaction
  <2>1. [tx[c] EXCEPT !.events = x, !.share = b] \in Transaction
    BY <1>1, <1>4, <1>5, SetEvents
  <2> QED  BY <1>3, <2>1
<1>7. /\ WithEvent(c).events = x /\ WithEvent(c).share = b
      /\ WithEvent(c).sessions = tx[c].sessions
      /\ WithEvent(c).locks = tx[c].locks
  BY <1>1, <1>3, SetEventsFields
<1> QED  BY <1>2, <1>4, <1>5, <1>6, <1>7 DEF row

(* The row a claim makes of a session *)
LEMMA ClaimRow ==
  ASSUME TypeOK, StageInv, NEW c \in Calls, pc[c] = "claim",
         SessionSeen(c, Event(c).sid) # None
  PROVE  /\ SessionSeen(c, Event(c).sid) \in SessionRow
         /\ [user |-> job[c].user,
             last |-> LastActivity(SessionSeen(c, Event(c).sid).last,
                                   Event(c).at)] \in SessionRow
<1>1. SessionSeen(c, Event(c).sid) \in SessionRow
  BY EventFacts, TransactionFields DEF SessionSeen, TypeOK
<1>2. job[c].user \in Users \cup {None}
  BY JobFields DEF TypeOK
<1>3. LastActivity(SessionSeen(c, Event(c).sid).last, Event(c).at) \in Times
  BY <1>1, EventFacts DEF LastActivity, SessionRow
<1> QED  BY <1>1, <1>2, <1>3 DEF SessionRow

LEMMA CreateRow ==
  ASSUME TypeOK, StageInv, NEW c \in Calls, pc[c] = "create"
  PROVE  [user |-> job[c].user, last |-> Event(c).at] \in SessionRow
  BY EventFacts, JobFields DEF SessionRow, TypeOK

LEMMA TxStep ==
  ASSUME TypeOK, StageInv, NEW c \in Calls, Act(c)
  PROVE  /\ \E t \in Transaction : tx' = [tx EXCEPT ![c] = t]
         /\ \E t \in Transaction : save' = [save EXCEPT ![c] = t]
<1>0. /\ tx[c] \in Transaction /\ tx = [tx EXCEPT ![c] = tx[c]]
      /\ save[c] \in Transaction /\ save = [save EXCEPT ![c] = save[c]]
  BY DEF TypeOK
<1>1. CASE BeginBatch(c) \/ BeginDelete(c) \/ BeginRefresh(c)
           \/ BeginDashboard(c) \/ BeginPaging(c)
  BY <1>0, <1>1 DEF BeginBatch, BeginDelete, BeginRefresh, BeginDashboard,
     BeginPaging, Begin
<1>2. CASE ClaimMissing(c) \/ DeleteLock(c) \/ DeleteAccount(c)
           \/ RefreshSelect(c) \/ RefreshDelete(c) \/ RefreshWait(c)
           \/ RefreshWrite(c) \/ DashboardState(c) \/ DashboardHours(c)
           \/ DashboardEdges(c) \/ NextPage(c)
  <2>1. tx' = tx /\ save' = save
    BY <1>2 DEF ClaimMissing, DeleteLock, DeleteAccount, RefreshSelect,
       RefreshDelete, RefreshWait, RefreshWrite, DashboardState,
       DashboardHours, DashboardEdges, NextPage
  <2> QED  BY <1>0, <2>1
<1>3. CASE Claim(c)
  <2>1. save' = save
    BY <1>3 DEF Claim
  <2>2. PICK row \in SessionRow :
          tx' = [tx EXCEPT ![c] = Locked(c, Event(c).sid, row)]
    BY <1>3, ClaimRow DEF Claim, Goto
  <2>3. Event(c).sid \in SessionIds
    BY <1>3, EventFacts DEF Claim, Goto
  <2> QED  BY <1>0, <2>1, <2>2, <2>3, LockedFields
<1>4. CASE Create(c)
  <2>1. save' = save
    BY <1>4 DEF Create
  <2>2. \/ tx' = tx
        \/ \E row \in SessionRow :
             tx' = [tx EXCEPT ![c] = Locked(c, Event(c).sid, row)]
    BY <1>4, CreateRow DEF Create, Goto
  <2>3. Event(c).sid \in SessionIds
    BY <1>4, EventFacts DEF Create, Goto
  <2> QED  BY <1>0, <2>1, <2>2, <2>3, LockedFields
<1>5. CASE Reject(c) \/ Duplicate(c)
  BY <1>0, <1>5 DEF Reject, Duplicate, NextEvent, RolledBack
<1>6. CASE Store(c)
  <2>1. NextEvent(c, WithEvent(c), {Event(c).id}) /\ pc[c] = "store"
    BY <1>6 DEF Store, WithEvent
  <2> QED  BY <2>1, WithEventFields DEF NextEvent
<1>7. CASE CommitBatch(c) \/ Fails(c)
  BY <1>7, CleanTransaction DEF CommitBatch, Fails, Abort
<1> QED  BY <1>1, <1>2, <1>3, <1>4, <1>5, <1>6, <1>7, ActSplit DEF Steps

-----------------------------------------------------------------------------
(* What a step makes of the tables *)

(* Every step but two leaves accounts, events and sessions alone. *)
LEMMA RowsStay ==
  ASSUME StageInv, NEW c \in Calls, Act(c), ~CommitBatch(c), ~DeleteAccount(c)
  PROVE  users' = users /\ events' = events /\ sessions' = sessions
<1>0. Steps(c)
  BY ActSplit
<1> QED  BY <1>0 DEF Steps, Begin, BeginBatch, BeginDelete, BeginRefresh,
     BeginDashboard, BeginPaging, ClaimMissing, Claim, Reject, Create,
     Duplicate, Store, DeleteLock, RefreshSelect, RefreshDelete, RefreshWait,
     RefreshWrite, DashboardState, DashboardHours, DashboardEdges, NextPage,
     NextEvent, Fails, Abort, rows

(* Only RefreshWrite changes what has been aggregated. *)
LEMMA HourlyStays ==
  ASSUME StageInv, NEW c \in Calls, Act(c), ~RefreshWrite(c)
  PROVE  hourly' = hourly /\ state' = state
<1>0. Steps(c)
  BY ActSplit
<1> QED  BY <1>0 DEF Steps, Begin, BeginBatch, BeginDelete, BeginRefresh,
     BeginDashboard, BeginPaging, ClaimMissing, Claim, Reject, Create,
     Duplicate, Store, CommitBatch, DeleteLock, DeleteAccount, RefreshSelect,
     RefreshDelete, RefreshWait, DashboardState, DashboardHours,
     DashboardEdges, NextPage, NextEvent, Fails, Abort, rows

(* Only BeginRefresh notices that aggregations overlap. *)
LEMMA OverlapStays ==
  ASSUME TypeOK, StageInv, NEW c \in Calls, Act(c)
  PROVE  /\ ~overlapped' => ~overlapped
         /\ ~BeginRefresh(c) => overlapped' = overlapped
<1>1. ASSUME ~BeginRefresh(c)
      PROVE  overlapped' = overlapped
  <2>1. Steps(c)
    BY <1>1, ActSplit
  <2> QED  BY <1>1, <2>1 DEF Steps, BeginBatch, BeginDelete, BeginDashboard,
       BeginPaging, ClaimMissing, Claim, Reject, Create, Duplicate, Store,
       CommitBatch, DeleteLock, DeleteAccount, RefreshSelect, RefreshDelete,
       RefreshWait, RefreshWrite, DashboardState, DashboardHours,
       DashboardEdges, NextPage, NextEvent, Fails, Abort
<1>2. ASSUME BeginRefresh(c), overlapped
      PROVE  overlapped'
  BY <1>2, Zenon DEF BeginRefresh
<1> QED  BY <1>1, <1>2

(* A commit writes the rows of the transaction over those there are. *)
LEMMA CommitRows ==
  ASSUME TypeOK, NEW c \in Calls, CommitBatch(c)
  PROVE  /\ events' \in [EventIds -> EventRow \cup {None}]
         /\ sessions' \in [SessionIds -> SessionRow \cup {None}]
         /\ \A e \in EventIds :
              /\ tx[c].events[e] # None => events'[e] = tx[c].events[e]
              /\ tx[c].events[e] = None => events'[e] = events[e]
         /\ \A s \in SessionIds :
              /\ tx[c].sessions[s] # None => sessions'[s] = tx[c].sessions[s]
              /\ tx[c].sessions[s] = None => sessions'[s] = sessions[s]
         /\ users' = users
<1>1. tx[c] \in Transaction
  BY DEF TypeOK
<1>2. /\ events' = [e \in EventIds |-> IF tx[c].events[e] # None
                    THEN tx[c].events[e] ELSE events[e]]
      /\ sessions' = [s \in SessionIds |-> IF tx[c].sessions[s] # None
                      THEN tx[c].sessions[s] ELSE sessions[s]]
      /\ users' = users
  BY DEF CommitBatch, Overlay, TypeOK
<1> QED  BY <1>1, <1>2, TransactionFields DEF TypeOK

(* A deletion clears the user of rows, and nothing else. *)
LEMMA DeleteRows ==
  ASSUME TypeOK, NEW c \in Calls, DeleteAccount(c)
  PROVE  /\ events' \in [EventIds -> EventRow \cup {None}]
         /\ sessions' \in [SessionIds -> SessionRow \cup {None}]
         /\ users' = users \ {job[c].user}
         /\ \A e \in EventIds :
              /\ events[e] = None <=> events'[e] = None
              /\ events[e] # None =>
                   /\ events'[e].sid = events[e].sid
                   /\ events'[e].at = events[e].at
                   /\ events'[e].user = IF events[e].user = job[c].user
                                        THEN None ELSE events[e].user
         /\ \A s \in SessionIds :
              /\ sessions[s] = None <=> sessions'[s] = None
              /\ sessions[s] # None =>
                   /\ sessions'[s].last = sessions[s].last
                   /\ sessions'[s].user = IF sessions[s].user = job[c].user
                                          THEN None ELSE sessions[s].user
<1>1. /\ \A row \in EventRow :
           /\ WithoutUser(row, job[c].user) \in EventRow
           /\ WithoutUser(row, job[c].user).sid = row.sid
           /\ WithoutUser(row, job[c].user).at = row.at
           /\ WithoutUser(row, job[c].user).user =
                IF row.user = job[c].user THEN None ELSE row.user
      /\ WithoutUser(None, job[c].user) = None
  BY Constants DEF WithoutUser, EventRow
<1>2. \A row \in SessionRow :
        /\ WithoutUser(row, job[c].user) \in SessionRow
        /\ WithoutUser(row, job[c].user).last = row.last
        /\ WithoutUser(row, job[c].user).user =
             IF row.user = job[c].user THEN None ELSE row.user
  BY Constants DEF WithoutUser, SessionRow
<1> DEFINE W(r) == WithoutUser(r, job[c].user)
<1>3. /\ events' = [e \in EventIds |-> W(events[e])]
      /\ sessions' = [s \in SessionIds |-> W(sessions[s])]
      /\ users' = users \ {job[c].user}
  BY DEF DeleteAccount
<1>4. /\ events \in [EventIds -> EventRow \cup {None}]
      /\ sessions \in [SessionIds -> SessionRow \cup {None}]
  BY DEF TypeOK
<1>5. /\ \A row \in EventRow : W(row) \in EventRow /\ W(row).sid = row.sid
           /\ W(row).at = row.at
           /\ W(row).user = IF row.user = job[c].user THEN None ELSE row.user
      /\ \A row \in SessionRow : W(row) \in SessionRow
           /\ W(row).last = row.last
           /\ W(row).user = IF row.user = job[c].user THEN None ELSE row.user
      /\ W(None) = None
  BY <1>1, <1>2
<1> HIDE DEF W
<1> QED  BY <1>3, <1>4, <1>5, Constants

LEMMA PcStep ==
  ASSUME TypeOK, StageInv, NEW c \in Calls, Act(c)
  PROVE  pc' \in [Calls -> {"idle", "claim", "create", "store", "commit",
           "lock", "erase", "select", "delete", "wait", "write", "state",
           "hours", "edges", "page"} \cup Ended]
<1>0. Steps(c)
  BY ActSplit
<1> QED  BY <1>0, ZenonT(60) DEF Steps, TypeOK, Ended, Goto, NextOf, Begin,
     BeginBatch, BeginDelete, BeginRefresh, BeginDashboard, BeginPaging,
     ClaimMissing, Claim, Reject, Create, Duplicate, Store, CommitBatch,
     DeleteLock, DeleteAccount, RefreshSelect, RefreshDelete, RefreshWait,
     RefreshWrite, DashboardState, DashboardHours, DashboardEdges, NextPage,
     NextEvent, Fails, Abort

LEMMA TypeStep ==
  ASSUME TypeOK, StageInv, NEW c \in Calls, Act(c)
  PROVE  TypeOK'
<1>1. job' \in [Calls -> Job]
  BY JobStep DEF TypeOK
<1>2. tx' \in [Calls -> Transaction] /\ save' \in [Calls -> Transaction]
  BY TxStep DEF TypeOK
<1>3. /\ users' \subseteq Users
      /\ events' \in [EventIds -> EventRow \cup {None}]
      /\ sessions' \in [SessionIds -> SessionRow \cup {None}]
  <2>1. CASE CommitBatch(c)
    BY <2>1, CommitRows DEF TypeOK
  <2>2. CASE DeleteAccount(c)
    BY <2>2, DeleteRows DEF TypeOK
  <2>3. CASE ~CommitBatch(c) /\ ~DeleteAccount(c)
    BY <2>3, RowsStay DEF TypeOK
  <2> QED  BY <2>1, <2>2, <2>3
<1>4. hourly' \subseteq Calls \X EventIds /\ state' \in Times \cup {None}
  <2>1. CASE ~RefreshWrite(c)
    BY <2>1, HourlyStays DEF TypeOK
  <2>2. CASE RefreshWrite(c)
    BY <2>2, JobFields DEF RefreshWrite, TypeOK
  <2> QED  BY <2>1, <2>2
<1>5. overlapped' \in BOOLEAN
  <2>1. CASE BeginRefresh(c)
    BY <2>1 DEF BeginRefresh, TypeOK
  <2>2. CASE ~BeginRefresh(c)
    BY <2>2, OverlapStays DEF TypeOK
  <2> QED  BY <2>1, <2>2
<1>6. pc' \in [Calls -> {"idle", "claim", "create", "store", "commit",
           "lock", "erase", "select", "delete", "wait", "write", "state",
           "hours", "edges", "page"} \cup Ended]
  BY PcStep
<1> QED  BY <1>1, <1>2, <1>3, <1>4, <1>5, <1>6 DEF TypeOK

(* What is stored remains, and occurred when it did. *)
LEMMA EventsKept ==
  ASSUME TypeOK, StageInv, BatchInv, NEW c \in Calls, Act(c),
         NEW e \in Stored
  PROVE  /\ e \in Stored' /\ events'[e] # None
         /\ events'[e].sid = events[e].sid /\ events'[e].at = events[e].at
<1>1. e \in EventIds /\ events[e] # None
  BY DEF Stored
<1>2. CASE CommitBatch(c)
  <2>1. tx[c].events[e] = None
    BY <1>1 DEF BatchInv, OwnRows
  <2> QED  BY <1>1, <1>2, <2>1, CommitRows DEF Stored
<1>3. CASE DeleteAccount(c)
  BY <1>1, <1>3, DeleteRows DEF Stored
<1>4. CASE ~CommitBatch(c) /\ ~DeleteAccount(c)
  BY <1>1, <1>4, RowsStay DEF Stored
<1> QED  BY <1>2, <1>3, <1>4

(* Whatever is new, a batch has committed. *)
LEMMA EventsNew ==
  ASSUME TypeOK, StageInv, NEW c \in Calls, Act(c), NEW e \in Stored',
         e \notin Stored
  PROVE  CommitBatch(c) /\ e \in EventIds /\ tx[c].events[e] # None
<1>1. e \in EventIds /\ events[e] = None /\ events'[e] # None
  BY DEF Stored
<1>2. ~DeleteAccount(c)
  BY <1>1, DeleteRows
<1>3. CommitBatch(c)
  BY <1>1, <1>2, RowsStay
<1> QED  BY <1>1, <1>3, CommitRows

LEMMA HasEventKept ==
  ASSUME TypeOK, StageInv, BatchInv, NEW c \in Calls, Act(c),
         NEW T, NEW s, NEW t, HasEvent(T, s, t)
  PROVE  \E e \in EventIds :
           \/ T.events[e] # None /\ T.events[e].sid = s /\ T.events[e].at = t
           \/ events'[e] # None /\ events'[e].sid = s /\ events'[e].at = t
<1>1. PICK e \in EventIds :
        \/ T.events[e] # None /\ T.events[e].sid = s /\ T.events[e].at = t
        \/ events[e] # None /\ events[e].sid = s /\ events[e].at = t
  BY DEF HasEvent
<1>2. CASE T.events[e] # None /\ T.events[e].sid = s /\ T.events[e].at = t
  BY <1>1, <1>2
<1>3. CASE events[e] # None /\ events[e].sid = s /\ events[e].at = t
  <2>1. e \in Stored
    BY <1>1, <1>3 DEF Stored
  <2> QED  BY <1>1, <1>3, <2>1, EventsKept
<1> QED  BY <1>1, <1>2, <1>3

-----------------------------------------------------------------------------
(* The stages of a batch *)

Stage(c) ==
  /\ pc[c] \notin Batching => tx[c] = Clean /\ save[c] = Clean
  /\ pc[c] \in {"claim", "create", "commit"} => tx[c] = save[c]
  /\ pc[c] \in {"claim", "create", "store"} => job[c].todo # <<>>
  /\ pc[c] = "create" => tx[c].sessions[Event(c).sid] = None
  /\ pc[c] = "store" => Claimed(c, Event(c).sid)

(* The claim of a session, and the creation of one *)
LEMMA StageOfClaim ==
  ASSUME TypeOK, StageInv, BatchInv, SessionsMatchEvents, NEW c \in Calls,
         Claim(c)
  PROVE  Stage(c)'
<1> DEFINE s    == Event(c).sid
           seen == SessionSeen(c, s)
           row  == [user |-> job[c].user,
                    last |-> LastActivity(seen.last, Event(c).at)]
<1>1. /\ pc[c] = "claim" /\ pc'[c] = "store" /\ job' = job /\ save' = save
      /\ events' = events /\ tx[c] = save[c] /\ seen # None
      /\ tx'[c] = Locked(c, s, row)
  BY DEF Claim, Goto, rows, TypeOK, StageInv
<1>2. /\ s \in SessionIds /\ Event(c).at \in Nat /\ job[c].todo # <<>>
      /\ seen \in SessionRow /\ row \in SessionRow
  BY <1>1, EventFacts, ClaimRow, Constants DEF StageInv
<1>3. seen.last \in Nat /\ row.last \in Nat
  BY <1>2, Constants DEF SessionRow
<1>4. /\ Event(c).at <= row.last /\ seen.last <= row.last
      /\ row.last = Event(c).at \/ row.last = seen.last
  BY <1>2, <1>3 DEF LastActivity
<1>5. HasEvent(save[c], s, seen.last)
  <2>1. CASE tx[c].sessions[s] # None
    <3>1. seen = save[c].sessions[s] /\ save[c].sessions[s] # None
      BY <1>1, <2>1 DEF SessionSeen
    <3> QED  BY <1>2, <3>1 DEF BatchInv, Backed
  <2>2. CASE tx[c].sessions[s] = None
    <3>1. seen = sessions[s] /\ sessions[s] # None
      BY <1>1, <2>2 DEF SessionSeen
    <3>2. \E e \in Stored : events[e].sid = s /\ events[e].at = seen.last
      BY <1>2, <3>1 DEF SessionsMatchEvents
    <3> QED  BY <3>2 DEF HasEvent, Stored
  <2> QED  BY <2>1, <2>2
<1>6. save[c].sessions[s] # None => seen = save[c].sessions[s]
  BY <1>1 DEF SessionSeen
<1>7. row # None
  BY <1>2, Constants
<1> HIDE DEF row, seen
<1>8. /\ tx'[c].events = save'[c].events /\ tx'[c].share = save'[c].share
      /\ tx'[c].locks = save'[c].locks \cup {s}
      /\ \A r \in SessionIds \ {s} :
           tx'[c].sessions[r] = save'[c].sessions[r]
      /\ tx'[c].sessions[s] = row
  BY <1>1, <1>2, LockedFields
<1>9. \E e \in EventIds :
        \/ /\ save'[c].events[e] # None /\ save'[c].events[e].sid = s
           /\ save'[c].events[e].at = seen.last
        \/ /\ events'[e] # None /\ events'[e].sid = s
           /\ events'[e].at = seen.last
  BY <1>1, <1>5 DEF HasEvent
<1>10. Event(c)' = Event(c)
  BY <1>1 DEF Event
<1>11. Claimed(c, Event(c).sid)'
  BY <1>1, <1>4, <1>6, <1>7, <1>8, <1>9, <1>10 DEF Claimed, HasEvent
<1> QED  BY <1>1, <1>2, <1>11 DEF Stage, Batching

LEMMA StageOfCreate ==
  ASSUME TypeOK, StageInv, NEW c \in Calls, Create(c)
  PROVE  Stage(c)'
<1> DEFINE s   == Event(c).sid
           row == [user |-> job[c].user, last |-> Event(c).at]
<1>1. /\ pc[c] = "create" /\ job' = job /\ save' = save
      /\ events' = events /\ tx[c] = save[c] /\ tx[c].sessions[s] = None
      /\ Event(c)' = Event(c)
  BY DEF Create, Goto, rows, StageInv, Event
<1>2. /\ s \in SessionIds /\ Event(c).at \in Nat /\ job[c].todo # <<>>
      /\ row \in SessionRow /\ row # None /\ row.last = Event(c).at
  BY <1>1, EventFacts, CreateRow, Constants DEF StageInv
<1>3. CASE sessions[s] # None
  <2>1. pc'[c] = "claim" /\ tx' = tx
    BY <1>3 DEF Create, Goto, TypeOK
  <2> QED  BY <1>1, <1>2, <2>1 DEF Stage, Batching
<1>4. CASE sessions[s] = None
  <2>1. pc'[c] = "store" /\ tx'[c] = Locked(c, s, row)
    BY <1>4 DEF Create, Goto, TypeOK
  <2> HIDE DEF row
  <2>2. /\ tx'[c].events = save'[c].events /\ tx'[c].share = save'[c].share
        /\ tx'[c].locks = save'[c].locks \cup {s}
        /\ \A r \in SessionIds \ {s} :
             tx'[c].sessions[r] = save'[c].sessions[r]
        /\ tx'[c].sessions[s] = row /\ save'[c].sessions[s] = None
    BY <1>1, <1>2, <2>1, LockedFields
  <2>3. Claimed(c, Event(c).sid)'
    BY <1>1, <1>2, <2>2 DEF Claimed
  <2> QED  BY <1>1, <1>2, <2>1, <2>3 DEF Stage, Batching
<1> QED  BY <1>3, <1>4

(* A call that does nothing keeps its stage. *)
LEMMA StageStays ==
  ASSUME TypeOK, StageInv, BatchInv, NEW c \in Calls, Act(c),
         NEW d \in Calls, pc'[d] = pc[d], job'[d] = job[d], tx'[d] = tx[d],
         save'[d] = save[d]
  PROVE  Stage(d)'
<1>1. Event(d)' = Event(d)
  BY DEF Event
<1>2. ASSUME pc[d] = "store"
      PROVE  Claimed(d, Event(d).sid)'
  <2>1. Claimed(d, Event(d).sid)
    BY <1>2 DEF StageInv
  <2>2. \/ tx[d].sessions[Event(d).sid].last = Event(d).at
        \/ \E e \in EventIds :
             \/ /\ save[d].events[e] # None
                /\ save[d].events[e].sid = Event(d).sid
                /\ save[d].events[e].at = tx[d].sessions[Event(d).sid].last
             \/ /\ events'[e] # None
                /\ events'[e].sid = Event(d).sid
                /\ events'[e].at = tx[d].sessions[Event(d).sid].last
    BY <2>1, HasEventKept DEF Claimed
  <2> QED  BY <1>1, <2>1, <2>2 DEF Claimed, HasEvent
<1> QED  BY <1>1, <1>2 DEF StageInv, Stage

(* The stage of the call that takes the step *)
LEMMA StageOfStep ==
  ASSUME TypeOK, StageInv, BatchInv, SessionsMatchEvents, NEW c \in Calls,
         Act(c)
  PROVE  Stage(c)'
<1>2. Stage(c)
  BY DEF StageInv, Stage
<1>3. CASE BeginBatch(c)
  <2>1. PICK b \in Batches, u \in users \cup {None} :
          Begin(c, "batch", NextOf(b), [Blank EXCEPT !.todo = b, !.user = u])
    BY <1>3 DEF BeginBatch
  <2>2. pc[c] = "idle" /\ pc'[c] = NextOf(b) /\ tx' = tx /\ save' = save
    BY <2>1 DEF Begin, Goto, TypeOK
  <2>3. job'[c].todo = b
    BY <2>1 DEF Begin, Blank, TypeOK
  <2>4. tx[c] = save[c] /\ NextOf(b) = IF b = <<>> THEN "commit" ELSE "claim"
    BY <1>2, <2>2 DEF Stage, Batching, NextOf
  <2> QED  BY <2>2, <2>3, <2>4 DEF Stage, Batching
<1>4. CASE BeginDelete(c) \/ BeginRefresh(c) \/ BeginDashboard(c)
           \/ BeginPaging(c)
  <2>1. /\ pc[c] = "idle" /\ pc'[c] \in {"lock", "select", "state", "page"}
        /\ tx' = tx /\ save' = save
    BY <1>4 DEF BeginDelete, BeginRefresh, BeginDashboard, BeginPaging, Begin,
       Goto, TypeOK
  <2> QED  BY <1>2, <2>1 DEF Stage, Batching
<1>5. CASE ClaimMissing(c)
  <2>1. /\ pc[c] = "claim" /\ pc'[c] = "create" /\ tx' = tx /\ save' = save
        /\ job' = job /\ tx[c].sessions[Event(c).sid] = None
        /\ Event(c)' = Event(c)
    BY <1>5 DEF ClaimMissing, Goto, TypeOK, SessionSeen, Event
  <2> QED  BY <1>2, <2>1 DEF Stage, Batching
<1>6. CASE Claim(c)
  BY <1>6, StageOfClaim
<1>7. CASE Create(c)
  BY <1>7, StageOfCreate
<1>8. ASSUME NEW t, NEW a, NextEvent(c, t, a)
      PROVE  Stage(c)'
  <2>1. /\ pc'[c] = NextOf(Tail(job[c].todo)) /\ tx'[c] = t /\ save'[c] = t
        /\ job'[c].todo = Tail(job[c].todo)
    BY <1>8 DEF NextEvent, TypeOK, Job
  <2> QED  BY <2>1 DEF NextOf, Stage, Batching
<1>9. CASE Reject(c) \/ Duplicate(c) \/ Store(c)
  BY <1>8, <1>9 DEF Reject, Duplicate, Store
<1>10. CASE CommitBatch(c) \/ Fails(c)
  <2>1. pc'[c] \in Ended /\ tx'[c] = Clean /\ save'[c] = Clean
    BY <1>10 DEF CommitBatch, Fails, Abort, Goto, TypeOK, Ended
  <2> QED  BY <2>1 DEF Stage, Batching, Ended
<1>11. CASE DeleteLock(c) \/ DeleteAccount(c)
           \/ RefreshSelect(c) \/ RefreshDelete(c) \/ RefreshWait(c)
           \/ RefreshWrite(c) \/ DashboardState(c) \/ DashboardHours(c)
           \/ DashboardEdges(c) \/ NextPage(c)
  <2>1. /\ pc[c] \notin Batching /\ pc'[c] \notin Batching
        /\ tx' = tx /\ save' = save
    BY <1>11 DEF DeleteLock, DeleteAccount, RefreshSelect, RefreshDelete,
       RefreshWait, RefreshWrite, DashboardState, DashboardHours,
       DashboardEdges, NextPage, Goto, Batching, TypeOK
  <2> QED  BY <1>2, <2>1 DEF Stage, Batching
<1> QED  BY <1>3, <1>4, <1>5, <1>6, <1>7, <1>9, <1>10, <1>11, ActSplit
         DEF Steps

LEMMA StageStep ==
  ASSUME TypeOK, StageInv, BatchInv, SessionsMatchEvents, NEW c \in Calls,
         Act(c)
  PROVE  StageInv'
<1>1. ASSUME NEW d \in Calls, d # c
      PROVE  Stage(d)'
  BY <1>1, OthersStay, StageStays
<1>2. \A d \in Calls : Stage(d)'
  BY <1>1, StageOfStep
<1> QED  BY <1>2 DEF StageInv, Stage

-----------------------------------------------------------------------------
(* No two transactions hold the same row. *)

(* A savepoint lacks at most the claim of the event in hand. *)
LEMMA SaveBelow ==
  ASSUME TypeOK, StageInv, NEW c \in Calls
  PROVE  /\ save[c].locks \subseteq tx[c].locks
         /\ save[c].events = tx[c].events /\ save[c].share = tx[c].share
<1>1. CASE pc[c] = "store"
  BY <1>1 DEF StageInv, Claimed
<1>2. CASE pc[c] # "store"
  <2>1. tx[c] = save[c]
    BY <1>2 DEF StageInv, Batching
  <2> QED  BY <2>1
<1> QED  BY <1>1, <1>2

LEMMA CleanIsEmpty ==
  /\ Clean.locks = {} /\ Clean.share = FALSE
  /\ \A e \in EventIds : Clean.events[e] = None
  /\ \A s \in SessionIds : Clean.sessions[s] = None
  BY DEF Clean

(* Only a claim, a creation and a stored event add to a transaction. *)
LEMMA TxShrinks ==
  ASSUME TypeOK, StageInv, NEW c \in Calls, Act(c),
         ~Claim(c), ~Create(c), ~Store(c)
  PROVE  tx'[c] \in {tx[c], save[c], Clean}
<1>0. Steps(c)
  BY ActSplit
<1> QED  BY <1>0 DEF Steps, TypeOK, Begin, BeginBatch, BeginDelete,
     BeginRefresh, BeginDashboard, BeginPaging, ClaimMissing, Reject,
     Duplicate, RolledBack, CommitBatch, DeleteLock, DeleteAccount,
     RefreshSelect, RefreshDelete, RefreshWait, RefreshWrite, DashboardState,
     DashboardHours, DashboardEdges, NextPage, NextEvent, Fails, Abort

(* Nobody else holds what a batch takes without waiting. *)
LEMMA FreeRows ==
  ASSUME TypeOK, StageInv, BatchInv, Exclusive, NEW c \in Calls, Free(c),
         NEW d \in Calls, d # c
  PROVE  /\ pc[c] = "claim" /\ SessionSeen(c, Event(c).sid) # None =>
              Event(c).sid \notin tx[d].locks
         /\ pc[c] = "create" => Event(c).sid \notin tx[d].locks
         /\ pc[c] = "store" => tx[d].events[Event(c).id] = None
<1>1. ~WaitsFor(c, d)
  BY DEF Free
<1>2. ASSUME pc[c] = "claim", SessionSeen(c, Event(c).sid) # None
      PROVE  Event(c).sid \notin tx[d].locks
  <2>1. Event(c).sid \in SessionIds
    BY <1>2, EventFacts
  <2>2. CASE sessions[Event(c).sid] # None
    BY <1>1, <1>2, <2>2 DEF WaitsFor
  <2>3. CASE sessions[Event(c).sid] = None
    <3>1. tx[c].sessions[Event(c).sid] # None
      BY <1>2, <2>3 DEF SessionSeen
    <3>2. Event(c).sid \in tx[c].locks
      BY <2>1, <3>1 DEF BatchInv, OwnRows
    <3> QED  BY <3>2 DEF Exclusive
  <2> QED  BY <2>2, <2>3
<1>3. ASSUME pc[c] = "create"
      PROVE  Event(c).sid \notin tx[d].locks
  <2>1. Event(c).sid \in SessionIds
    BY <1>3, EventFacts
  <2>2. tx[d].sessions[Event(c).sid] = None
    BY <1>1, <1>3 DEF WaitsFor
  <2> QED  BY <2>1, <2>2 DEF BatchInv, OwnRows
<1>4. ASSUME pc[c] = "store"
      PROVE  tx[d].events[Event(c).id] = None
  BY <1>1, <1>4 DEF WaitsFor
<1> QED  BY <1>2, <1>3, <1>4

(* What the call that takes the step then holds, the others do not. *)
LEMMA ExclusiveOfStep ==
  ASSUME TypeOK, StageInv, BatchInv, Exclusive, NEW c \in Calls, Act(c),
         NEW d \in Calls, d # c
  PROVE  /\ tx'[c].locks \cap tx[d].locks = {}
         /\ \A e \in EventIds :
              tx'[c].events[e] = None \/ tx[d].events[e] = None
<1>1. /\ tx[c].locks \cap tx[d].locks = {}
      /\ \A e \in EventIds : tx[c].events[e] = None \/ tx[d].events[e] = None
  BY DEF Exclusive
<1>2. CASE Claim(c)
  <2>1. PICK row \in SessionRow :
          tx' = [tx EXCEPT ![c] = Locked(c, Event(c).sid, row)]
    BY <1>2, ClaimRow DEF Claim, Goto
  <2>2. tx'[c] = Locked(c, Event(c).sid, row) /\ Event(c).sid \in SessionIds
    BY <1>2, <2>1, EventFacts DEF Claim, Goto, TypeOK
  <2>3. Event(c).sid \notin tx[d].locks
    BY <1>2, FreeRows DEF Claim, Goto
  <2> QED  BY <1>1, <2>2, <2>3, LockedFields
<1>3. CASE Create(c)
  <2>1. \/ tx' = tx
        \/ \E row \in SessionRow :
             tx' = [tx EXCEPT ![c] = Locked(c, Event(c).sid, row)]
    BY <1>3, CreateRow DEF Create, Goto
  <2>2. Event(c).sid \in SessionIds /\ Event(c).sid \notin tx[d].locks
    BY <1>3, EventFacts, FreeRows DEF Create, Goto
  <2>3. CASE tx' = tx
    BY <1>1, <2>3
  <2>4. ASSUME NEW row \in SessionRow,
               tx' = [tx EXCEPT ![c] = Locked(c, Event(c).sid, row)]
        PROVE  /\ tx'[c].locks = tx[c].locks \cup {Event(c).sid}
               /\ tx'[c].events = tx[c].events
    BY <2>2, <2>4, LockedFields DEF TypeOK
  <2> QED  BY <1>1, <2>1, <2>2, <2>3, <2>4
<1>4. CASE Store(c)
  <2>1. tx'[c] = WithEvent(c) /\ pc[c] = "store"
    BY <1>4 DEF Store, WithEvent, NextEvent, TypeOK
  <2>2. tx[d].events[Event(c).id] = None
    BY <1>4, FreeRows DEF Store
  <2> QED  BY <1>1, <2>1, <2>2, WithEventFields, ZenonT(60)
<1>5. CASE ~Claim(c) /\ ~Create(c) /\ ~Store(c)
  <2>1. tx'[c] \in {tx[c], save[c], Clean}
    BY <1>5, TxShrinks
  <2> QED  BY <1>1, <2>1, SaveBelow, CleanIsEmpty
<1> QED  BY <1>2, <1>3, <1>4, <1>5

LEMMA ExclusiveStep ==
  ASSUME TypeOK, StageInv, BatchInv, Exclusive, NEW c \in Calls, Act(c)
  PROVE  Exclusive'
<1>1. \A d \in Calls : d # c => tx'[d] = tx[d]
  BY OthersStay
<1>2. \A d \in Calls : d # c =>
        /\ tx'[c].locks \cap tx[d].locks = {}
        /\ \A e \in EventIds :
             tx'[c].events[e] = None \/ tx[d].events[e] = None
  BY ExclusiveOfStep
<1>3. ASSUME NEW a \in Calls, NEW b \in Calls, a # b
      PROVE  /\ tx'[a].locks \cap tx'[b].locks = {}
             /\ \A e \in EventIds :
                  tx'[a].events[e] = None \/ tx'[b].events[e] = None
  <2>1. CASE a = c
    BY <1>1, <1>2, <1>3, <2>1
  <2>2. CASE b = c
    BY <1>1, <1>2, <1>3, <2>2
  <2>3. CASE a # c /\ b # c
    <3>1. tx'[a] = tx[a] /\ tx'[b] = tx[b]
      BY <1>1, <2>3
    <3> QED  BY <1>3, <3>1 DEF Exclusive
  <2> QED  BY <2>1, <2>2, <2>3
<1> QED  BY <1>3 DEF Exclusive

-----------------------------------------------------------------------------
(* What a batch has done so far *)

(* OwnRows of tables, a user and a transaction that are given *)
Own(es, ss, u, T) ==
  /\ \A s \in SessionIds :
       /\ T.sessions[s] # None <=> s \in T.locks
       /\ T.sessions[s] # None =>
            /\ T.sessions[s].user = u
            /\ ss[s] # None =>
                 /\ ss[s].user \in {None, u}
                 /\ ss[s].last <= T.sessions[s].last
  /\ \A e \in EventIds : T.events[e] # None =>
       /\ es[e] = None
       /\ T.events[e].user = u
       /\ T.sessions[T.events[e].sid] # None
       /\ T.events[e].at <= T.sessions[T.events[e].sid].last
       /\ u # None => T.share
  /\ T.share => u # None

Has(es, T, s, t) ==
  \E e \in EventIds :
    \/ T.events[e] # None /\ T.events[e].sid = s /\ T.events[e].at = t
    \/ es[e] # None /\ es[e].sid = s /\ es[e].at = t

Backs(es, T) ==
  \A s \in SessionIds : T.sessions[s] # None =>
    /\ Has(es, T, s, T.sessions[s].last)
    /\ \E e \in EventIds : T.events[e] # None

Covers(es, T, E) == \A e \in E : es[e] # None \/ T.events[e] # None

Batch(c) ==
  /\ Own(events, sessions, job[c].user, tx[c])
  /\ Own(events, sessions, job[c].user, save[c])
  /\ Backs(events, save[c])
  /\ pc[c] \in Batching => Covers(events, save[c], job[c].accepted)

LEMMA BatchInvIs ==
  /\ BatchInv <=> \A c \in Calls : Batch(c)
  /\ BatchInv' <=> \A c \in Calls : Batch(c)'
  BY DEF BatchInv, Batch, OwnRows, Own, Backed, Backs, HasEvent, Has, Covers

LEMMA CleanOwns ==
  ASSUME NEW es, NEW ss, NEW u
  PROVE  Own(es, ss, u, Clean) /\ Backs(es, Clean)
  BY CleanIsEmpty DEF Own, Backs

(* The tables change, the transaction T of another call does not. *)
LEMMA OwnKept ==
  ASSUME TypeOK, StageInv, BatchInv, Exclusive, NEW c \in Calls, Act(c),
         NEW d \in Calls, d # c, NEW T \in Transaction,
         T.locks \subseteq tx[d].locks, T.events = tx[d].events,
         Own(events, sessions, job[d].user, T)
  PROVE  Own(events', sessions', job[d].user, T)
<1>1. CASE CommitBatch(c)
  <2>1. \A s \in SessionIds : T.sessions[s] # None => sessions'[s] = sessions[s]
    <3> TAKE s \in SessionIds
    <3> HAVE T.sessions[s] # None
    <3>1. s \in tx[d].locks
      BY DEF Own
    <3>2. s \notin tx[c].locks
      BY <3>1 DEF Exclusive
    <3>3. tx[c].sessions[s] = None
      BY <3>2 DEF BatchInv, OwnRows
    <3> QED  BY <1>1, <3>3, CommitRows
  <2>2. \A e \in EventIds : T.events[e] # None => events'[e] = events[e]
    <3> TAKE e \in EventIds
    <3> HAVE T.events[e] # None
    <3>1. tx[c].events[e] = None
      BY DEF Exclusive
    <3> QED  BY <1>1, <3>1, CommitRows
  <2> QED  BY <2>1, <2>2 DEF Own
<1>2. CASE DeleteAccount(c)
  <2>1. /\ \A e \in EventIds : events[e] = None <=> events'[e] = None
        /\ \A s \in SessionIds :
             /\ sessions[s] = None <=> sessions'[s] = None
             /\ sessions[s] # None =>
                  /\ sessions'[s].last = sessions[s].last
                  /\ sessions'[s].user \in {None, sessions[s].user}
    BY <1>2, DeleteRows
  <2> QED  BY <2>1 DEF Own
<1>3. CASE ~CommitBatch(c) /\ ~DeleteAccount(c)
  BY <1>3, RowsStay
<1> QED  BY <1>1, <1>2, <1>3

LEMMA BacksKept ==
  ASSUME TypeOK, StageInv, BatchInv, NEW c \in Calls, Act(c), NEW T,
         Backs(events, T)
  PROVE  Backs(events', T)
<1> SUFFICES ASSUME NEW s \in SessionIds, T.sessions[s] # None
             PROVE  Has(events', T, s, T.sessions[s].last)
  BY DEF Backs
<1>1. HasEvent(T, s, T.sessions[s].last)
  BY DEF Backs, Has, HasEvent
<1> QED  BY <1>1, HasEventKept DEF Has

LEMMA CoversKept ==
  ASSUME TypeOK, StageInv, BatchInv, NEW c \in Calls, Act(c), NEW T,
         NEW E \in SUBSET EventIds, Covers(events, T, E)
  PROVE  Covers(events', T, E)
  BY EventsKept DEF Covers, Stored

LEMMA BatchOfOthers ==
  ASSUME TypeOK, StageInv, BatchInv, Exclusive, NEW c \in Calls, Act(c),
         NEW d \in Calls, d # c
  PROVE  Batch(d)'
<1>1. /\ pc'[d] = pc[d] /\ job'[d] = job[d] /\ tx'[d] = tx[d]
      /\ save'[d] = save[d]
  BY OthersStay
<1>2. Batch(d) /\ tx[d] \in Transaction /\ save[d] \in Transaction
  BY BatchInvIs DEF TypeOK
<1>3. /\ Own(events', sessions', job[d].user, tx[d])
      /\ Own(events', sessions', job[d].user, save[d])
  BY <1>2, OwnKept, SaveBelow DEF Batch
<1>4. Backs(events', save[d])
  BY <1>2, BacksKept DEF Batch
<1>5. job[d].accepted \in SUBSET EventIds
  BY JobFields DEF TypeOK
<1>6. pc[d] \in Batching => Covers(events', save[d], job[d].accepted)
  BY <1>2, <1>5, CoversKept DEF Batch
<1> QED  BY <1>1, <1>3, <1>4, <1>6 DEF Batch

(* The step of a batch that goes on *)
LEMMA BatchGoesOn ==
  ASSUME TypeOK, StageInv, NEW c \in Calls, Act(c), pc'[c] \in Batching
  PROVE  \/ BeginBatch(c) \/ ClaimMissing(c) \/ Claim(c) \/ Create(c)
         \/ Reject(c) \/ Duplicate(c) \/ Store(c)
<1>0. Steps(c)
  BY ActSplit
<1> QED  BY <1>0 DEF Steps, TypeOK, Batching, Goto, Begin, BeginDelete,
     BeginRefresh, BeginDashboard, BeginPaging, CommitBatch, DeleteLock,
     DeleteAccount, RefreshSelect, RefreshDelete, RefreshWait, RefreshWrite,
     DashboardState, DashboardHours, DashboardEdges, NextPage, Fails, Abort

LEMMA OwnsClaim ==
  ASSUME TypeOK, StageInv, BatchInv, NEW c \in Calls, Claim(c)
  PROVE  Own(events, sessions, job[c].user, tx'[c])
<1> DEFINE s    == Event(c).sid
           seen == SessionSeen(c, s)
           row  == [user |-> job[c].user,
                    last |-> LastActivity(seen.last, Event(c).at)]
<1>1. /\ pc[c] = "claim" /\ seen # None
      /\ seen.user # None => seen.user = job[c].user
      /\ tx'[c] = Locked(c, s, row)
  BY DEF Claim, Goto, TypeOK, Mismatch
<1>2. /\ s \in SessionIds /\ Event(c).at \in Nat
      /\ seen \in SessionRow /\ row \in SessionRow /\ row # None
  BY <1>1, EventFacts, ClaimRow, Constants
<1>3. /\ seen.last \in Nat /\ row.last \in Nat /\ seen.last <= row.last
      /\ row.user = job[c].user
  <2>1. seen.last \in Nat /\ row.last \in Nat
    BY <1>2, Constants DEF SessionRow
  <2>2. row.last = LastActivity(seen.last, Event(c).at)
    OBVIOUS
  <2>3. seen.last <= LastActivity(seen.last, Event(c).at)
    BY <1>2, <2>1 DEF LastActivity
  <2> QED  BY <2>1, <2>2, <2>3
<1>4. /\ tx[c].sessions[s] # None => seen = tx[c].sessions[s]
      /\ tx[c].sessions[s] = None => seen = sessions[s]
  BY DEF SessionSeen
<1>5. Own(events, sessions, job[c].user, tx[c])
  BY BatchInvIs DEF Batch
<1>6. tx[c] \in Transaction
  BY DEF TypeOK
<1>7. \A e \in EventIds : tx[c].events[e] # None =>
        /\ tx[c].events[e].sid \in SessionIds /\ tx[c].events[e].at \in Nat
  <2>1. tx[c].events \in [EventIds -> EventRow \cup {None}]
    BY <1>6, TransactionFields
  <2>2. \A e \in EventIds : tx[c].events[e] # None =>
          tx[c].events[e] \in EventRow
    BY <2>1
  <2> QED  BY <2>2, Constants DEF EventRow
<1>8. \A r \in SessionIds : sessions[r] # None => sessions[r].last \in Nat
  BY Constants DEF TypeOK, SessionRow
<1> HIDE DEF row, seen
<1>9. /\ tx'[c].events = tx[c].events /\ tx'[c].share = tx[c].share
      /\ tx'[c].locks = tx[c].locks \cup {s} /\ tx'[c].sessions[s] = row
      /\ \A r \in SessionIds \ {s} : tx'[c].sessions[r] = tx[c].sessions[r]
  BY <1>1, <1>2, LockedFields
<1>10. sessions[s] # None => /\ sessions[s].user \in {None, job[c].user}
                             /\ sessions[s].last <= row.last
  BY <1>1, <1>2, <1>3, <1>4, <1>5, <1>8 DEF Own
<1>11. \A r \in SessionIds :
         /\ tx'[c].sessions[r] # None <=> r \in tx'[c].locks
         /\ tx'[c].sessions[r] # None =>
              /\ tx'[c].sessions[r].user = job[c].user
              /\ sessions[r] # None =>
                   /\ sessions[r].user \in {None, job[c].user}
                   /\ sessions[r].last <= tx'[c].sessions[r].last
  <2> TAKE r \in SessionIds
  <2>1. CASE r = s
    BY <1>2, <1>3, <1>9, <1>10, <2>1
  <2>2. CASE r # s
    BY <1>5, <1>9, <2>2 DEF Own
  <2> QED  BY <2>1, <2>2
<1>12. \A e \in EventIds : tx'[c].events[e] # None =>
         /\ events[e] = None
         /\ tx'[c].events[e].user = job[c].user
         /\ tx'[c].sessions[tx'[c].events[e].sid] # None
         /\ tx'[c].events[e].at <= tx'[c].sessions[tx'[c].events[e].sid].last
         /\ job[c].user # None => tx'[c].share
  <2> TAKE e \in EventIds
  <2> HAVE tx'[c].events[e] # None
  <2>1. CASE tx[c].events[e].sid = s
    BY <1>2, <1>3, <1>4, <1>5, <1>7, <1>9, <2>1 DEF Own
  <2>2. CASE tx[c].events[e].sid # s
    <3>1. /\ tx[c].events[e] # None /\ tx'[c].events[e] = tx[c].events[e]
          /\ tx'[c].sessions[tx[c].events[e].sid]
               = tx[c].sessions[tx[c].events[e].sid]
          /\ tx'[c].share = tx[c].share
      BY <1>7, <1>9, <2>2
    <3> QED  BY <1>5, <3>1 DEF Own
  <2> QED  BY <2>1, <2>2
<1> QED  BY <1>5, <1>9, <1>11, <1>12 DEF Own

LEMMA OwnsCreate ==
  ASSUME TypeOK, StageInv, BatchInv, NEW c \in Calls, Create(c)
  PROVE  Own(events, sessions, job[c].user, tx'[c])
<1> DEFINE s   == Event(c).sid
           row == [user |-> job[c].user, last |-> Event(c).at]
<1>1. pc[c] = "create" /\ tx[c].sessions[s] = None
  BY DEF Create, Goto, StageInv
<1>2. s \in SessionIds /\ row \in SessionRow /\ row # None
  BY <1>1, EventFacts, CreateRow, Constants
<1>3. Own(events, sessions, job[c].user, tx[c])
  BY BatchInvIs DEF Batch
<1>4. CASE sessions[s] # None
  BY <1>3, <1>4 DEF Create
<1>5. CASE sessions[s] = None
  <2>1. tx'[c] = Locked(c, s, row) /\ row.user = job[c].user
    BY <1>5 DEF Create, TypeOK
  <2> HIDE DEF row
  <2>2. /\ tx'[c].events = tx[c].events /\ tx'[c].share = tx[c].share
        /\ tx'[c].locks = tx[c].locks \cup {s} /\ tx'[c].sessions[s] = row
        /\ \A r \in SessionIds \ {s} : tx'[c].sessions[r] = tx[c].sessions[r]
    BY <1>1, <1>2, <2>1, LockedFields
  <2>3. \A e \in EventIds : tx[c].events[e] # None =>
          tx[c].events[e].sid \in SessionIds \ {s}
    <3>1. tx[c] \in Transaction
      BY DEF TypeOK
    <3>2. \A e \in EventIds : tx[c].events[e] # None =>
            tx[c].events[e].sid \in SessionIds
      BY <3>1, TransactionFields DEF EventRow
    <3> QED  BY <1>1, <1>3, <3>2 DEF Own
  <2>4. \A r \in SessionIds :
          /\ tx'[c].sessions[r] # None <=> r \in tx'[c].locks
          /\ tx'[c].sessions[r] # None =>
               /\ tx'[c].sessions[r].user = job[c].user
               /\ sessions[r] # None =>
                    /\ sessions[r].user \in {None, job[c].user}
                    /\ sessions[r].last <= tx'[c].sessions[r].last
    BY <1>2, <1>3, <1>5, <2>1, <2>2 DEF Own
  <2>5. \A e \in EventIds : tx'[c].events[e] # None =>
          /\ events[e] = None
          /\ tx'[c].events[e].user = job[c].user
          /\ tx'[c].sessions[tx'[c].events[e].sid] # None
          /\ tx'[c].events[e].at <= tx'[c].sessions[tx'[c].events[e].sid].last
          /\ job[c].user # None => tx'[c].share
    BY <1>3, <2>2, <2>3 DEF Own
  <2> QED  BY <1>3, <2>2, <2>4, <2>5 DEF Own
<1> QED  BY <1>4, <1>5

(* The event that is stored belongs to the session that was claimed. *)
LEMMA OwnsEvent ==
  ASSUME TypeOK, StageInv, BatchInv, NEW c \in Calls, pc[c] = "store",
         ~Exists(c, Event(c).id)
  PROVE  /\ Own(events, sessions, job[c].user, WithEvent(c))
         /\ Backs(events, WithEvent(c))
<1> DEFINE T == WithEvent(c)
<1>1. Own(events, sessions, job[c].user, tx[c]) /\ Backs(events, save[c])
  BY BatchInvIs DEF Batch
<1>2. /\ events[Event(c).id] = None /\ tx[c].events[Event(c).id] = None
      /\ Event(c).id \in EventIds /\ Event(c).sid \in SessionIds
  BY EventFacts DEF Exists
<1>3. Claimed(c, Event(c).sid)
  BY DEF StageInv
<1>4. /\ T.sessions = tx[c].sessions /\ T.locks = tx[c].locks
      /\ T.share = (job[c].user # None)
      /\ T.events[Event(c).id] # None
      /\ T.events[Event(c).id].sid = Event(c).sid
      /\ T.events[Event(c).id].at = Event(c).at
      /\ T.events[Event(c).id].user = job[c].user
      /\ \A e \in EventIds \ {Event(c).id} : T.events[e] = tx[c].events[e]
  <2>1. T.share = (job[c].user # None)
    BY WithEventFields, Zenon
  <2>2. T.events[Event(c).id] # None
    BY WithEventFields, Constants
  <2>3. T.events[Event(c).id] =
          [sid |-> Event(c).sid, user |-> job[c].user, at |-> Event(c).at]
    BY WithEventFields
  <2>4. /\ T.sessions = tx[c].sessions /\ T.locks = tx[c].locks
        /\ \A e \in EventIds \ {Event(c).id} : T.events[e] = tx[c].events[e]
    BY WithEventFields
  <2> HIDE DEF T
  <2> QED  BY <2>1, <2>2, <2>3, <2>4
<1> HIDE DEF T
<1>5. \A e \in EventIds : T.events[e] # None =>
        /\ events[e] = None
        /\ T.events[e].user = job[c].user
        /\ T.sessions[T.events[e].sid] # None
        /\ T.events[e].at <= T.sessions[T.events[e].sid].last
        /\ job[c].user # None => T.share
  <2> TAKE e \in EventIds
  <2> HAVE T.events[e] # None
  <2>1. CASE e = Event(c).id
    BY <1>2, <1>3, <1>4, <2>1 DEF Claimed
  <2>2. CASE e # Event(c).id
    BY <1>1, <1>4, <2>2, ZenonT(60) DEF Own
  <2> QED  BY <2>1, <2>2
<1>6. Own(events, sessions, job[c].user, T)
  BY <1>1, <1>4, <1>5, ZenonT(60) DEF Own
<1>7. ASSUME NEW s \in SessionIds, NEW t, Has(events, save[c], s, t)
      PROVE  Has(events, T, s, t)
  <2>1. save[c].events = tx[c].events
    BY <1>3 DEF Claimed
  <2> QED  BY <1>2, <1>4, <1>7, <2>1 DEF Has
<1>8. ASSUME NEW s \in SessionIds, T.sessions[s] # None
      PROVE  Has(events, T, s, T.sessions[s].last)
  <2>1. CASE s = Event(c).sid /\ tx[c].sessions[s].last = Event(c).at
    BY <1>2, <1>4, <2>1 DEF Has
  <2>2. CASE s = Event(c).sid /\ tx[c].sessions[s].last # Event(c).at
    <3>1. HasEvent(save[c], s, tx[c].sessions[s].last)
      BY <1>3, <2>2 DEF Claimed
    <3> QED  BY <1>4, <1>7, <3>1 DEF Has, HasEvent
  <2>3. CASE s # Event(c).sid
    <3>1. tx[c].sessions[s] = save[c].sessions[s]
      BY <1>3, <2>3 DEF Claimed
    <3> QED  BY <1>1, <1>4, <1>7, <1>8, <3>1 DEF Backs
  <2> QED  BY <2>1, <2>2, <2>3
<1>9. Backs(events, T)
  BY <1>2, <1>4, <1>8 DEF Backs
<1> QED  BY <1>6, <1>9 DEF T

LEMMA BatchOfStep ==
  ASSUME TypeOK, StageInv, BatchInv, SessionsMatchEvents, NEW c \in Calls,
         Act(c)
  PROVE  Batch(c)'
<1>1. CASE pc'[c] \notin Batching
  <2>1. tx'[c] = Clean /\ save'[c] = Clean
    BY <1>1, StageStep DEF StageInv
  <2> QED  BY <1>1, <2>1, CleanOwns DEF Batch
<1>2. CASE pc'[c] \in Batching
  <2>1. Batch(c)
    BY BatchInvIs
  <2>2. CASE BeginBatch(c)
    <3>1. PICK b \in Batches, u \in users \cup {None} :
            Begin(c, "batch", NextOf(b), [Blank EXCEPT !.todo = b, !.user = u])
      BY <2>2 DEF BeginBatch
    <3>2. pc[c] = "idle" /\ tx' = tx /\ save' = save
      BY <3>1 DEF Begin, Goto
    <3>3. job'[c].accepted = {}
      BY <3>1 DEF Begin, Blank, TypeOK
    <3>4. tx'[c] = Clean /\ save'[c] = Clean
      BY <3>2 DEF StageInv, Batching
    <3> QED  BY <3>3, <3>4, CleanOwns DEF Batch, Covers
  <2>3. CASE ClaimMissing(c)
    <3>1. /\ events' = events /\ sessions' = sessions /\ job' = job
          /\ tx' = tx /\ save' = save /\ pc[c] \in Batching
      BY <2>3 DEF ClaimMissing, Goto, rows, Batching
    <3> QED  BY <2>1, <3>1 DEF Batch
  <2>4. CASE Claim(c)
    <3>1. /\ events' = events /\ sessions' = sessions /\ job' = job
          /\ save' = save /\ pc[c] \in Batching
      BY <2>4 DEF Claim, Goto, rows, Batching
    <3> QED  BY <2>1, <2>4, <3>1, OwnsClaim DEF Batch
  <2>5. CASE Create(c)
    <3>1. /\ events' = events /\ sessions' = sessions /\ job' = job
          /\ save' = save /\ pc[c] \in Batching
      BY <2>5 DEF Create, Goto, rows, Batching
    <3> QED  BY <2>1, <2>5, <3>1, OwnsCreate DEF Batch
  <2>6. ASSUME NEW t, NEW a, NextEvent(c, t, a), pc[c] \in Batching,
               Own(events, sessions, job[c].user, t), Backs(events, t),
               Covers(events, t, job[c].accepted \cup a)
        PROVE  Batch(c)'
    <3>1. /\ events' = events /\ sessions' = sessions
          /\ tx'[c] = t /\ save'[c] = t
      BY <2>6 DEF NextEvent, rows, TypeOK
    <3>2. /\ job'[c].user = job[c].user
          /\ job'[c].accepted = job[c].accepted \cup a
      BY <2>6 DEF NextEvent, TypeOK, Job
    <3> QED  BY <2>6, <3>1, <3>2 DEF Batch
  <2>7. CASE Reject(c)
    <3>1. NextEvent(c, save[c], {}) /\ pc[c] \in Batching
      BY <2>7 DEF Reject, Batching
    <3>2. Covers(events, save[c], job[c].accepted \cup {})
      BY <2>1, <3>1 DEF Batch, Covers
    <3> QED  BY <2>1, <2>6, <3>1, <3>2 DEF Batch
  <2>8. CASE Duplicate(c)
    <3>1. NextEvent(c, save[c], {Event(c).id}) /\ pc[c] \in Batching
      BY <2>8 DEF Duplicate, RolledBack, Batching
    <3>2. \/ events[Event(c).id] # None
          \/ save[c].events[Event(c).id] # None
      BY <2>8, SaveBelow DEF Duplicate, Exists
    <3>3. Covers(events, save[c], job[c].accepted \cup {Event(c).id})
      BY <2>1, <3>1, <3>2 DEF Batch, Covers
    <3> QED  BY <2>1, <2>6, <3>1, <3>3 DEF Batch
  <2>9. CASE Store(c)
    <3>1. /\ NextEvent(c, WithEvent(c), {Event(c).id})
          /\ pc[c] = "store" /\ pc[c] \in Batching
          /\ ~Exists(c, Event(c).id)
      BY <2>9 DEF Store, WithEvent, Batching
    <3>2. WithEvent(c).events[Event(c).id] # None
      BY <3>1, WithEventFields, Constants
    <3>3. \A e \in EventIds :
            save[c].events[e] # None => WithEvent(c).events[e] # None
      <4>1. save[c].events = tx[c].events
        BY SaveBelow
      <4>2. \A e \in EventIds \ {Event(c).id} :
              WithEvent(c).events[e] = tx[c].events[e]
        BY <3>1, WithEventFields
      <4> QED  BY <3>2, <4>1, <4>2
    <3>4. Covers(events, WithEvent(c), job[c].accepted \cup {Event(c).id})
      <4>1. job[c].accepted \subseteq EventIds
        BY JobFields DEF TypeOK
      <4> QED  BY <2>1, <3>1, <3>2, <3>3, <4>1 DEF Batch, Covers
    <3> QED  BY <2>6, <3>1, <3>4, OwnsEvent
  <2> QED  BY <1>2, <2>2, <2>3, <2>4, <2>5, <2>7, <2>8, <2>9, BatchGoesOn
<1> QED  BY <1>1, <1>2

LEMMA BatchStep ==
  ASSUME TypeOK, StageInv, BatchInv, Exclusive, SessionsMatchEvents,
         NEW c \in Calls, Act(c)
  PROVE  BatchInv'
<1>1. \A d \in Calls : Batch(d)'
  BY BatchOfStep, BatchOfOthers
<1> QED  BY <1>1, BatchInvIs

-----------------------------------------------------------------------------
(* The user of a batch is not deleted while it has an event. *)

LEMMA SharedBefore ==
  ASSUME TypeOK, StageInv, BatchInv, SessionsMatchEvents, NEW c \in Calls,
         Act(c), tx'[c].share
  PROVE  /\ tx[c].share \/ Store(c)
         /\ job'[c].user = job[c].user /\ users' = users
         /\ pc[c] \in Batching /\ pc'[c] \in Batching
<1>1. pc'[c] \in Batching
  <2>1. StageInv'
    BY StageStep
  <2> QED  BY <2>1, CleanIsEmpty DEF StageInv
<1>2. pc[c] \in Batching
  <2>1. CASE BeginBatch(c)
    <3>1. tx' = tx /\ tx[c] = Clean
      BY <2>1 DEF BeginBatch, Begin, Goto, StageInv, Batching
    <3> QED  BY <3>1, CleanIsEmpty
  <2>2. CASE ~BeginBatch(c)
    BY <1>1, <2>2, BatchGoesOn DEF ClaimMissing, Claim, Create, Reject,
       Duplicate, Store, Goto, Batching
  <2> QED  BY <2>1, <2>2
<1>3. \/ ClaimMissing(c) \/ Claim(c) \/ Create(c) \/ Reject(c)
      \/ Duplicate(c) \/ Store(c)
  BY <1>1, <1>2, BatchGoesOn DEF BeginBatch, Begin, Goto, Batching
<1>4. job'[c].user = job[c].user /\ users' = users
  <2>1. job[c] \in Job /\ job \in [Calls -> Job]
    BY DEF TypeOK
  <2> QED  BY <1>3, <2>1 DEF ClaimMissing, Claim, Create, Reject,
              Duplicate, Store, NextEvent, Job, rows
<1>5. ASSUME ~Store(c)
      PROVE  tx[c].share
  <2>1. CASE Claim(c)
    <3>1. PICK row \in SessionRow :
            tx' = [tx EXCEPT ![c] = Locked(c, Event(c).sid, row)]
      BY <2>1, ClaimRow DEF Claim, Goto
    <3>2. tx'[c] = Locked(c, Event(c).sid, row) /\ Event(c).sid \in SessionIds
      BY <2>1, <3>1, EventFacts DEF Claim, Goto, TypeOK
    <3> QED  BY <3>2, LockedFields
  <2>2. CASE Create(c)
    <3>1. Event(c).sid \in SessionIds
      BY <2>2, EventFacts DEF Create, Goto
    <3>2. \/ tx' = tx
          \/ \E row \in SessionRow :
               tx' = [tx EXCEPT ![c] = Locked(c, Event(c).sid, row)]
      BY <2>2, CreateRow DEF Create, Goto
    <3>3. \/ tx'[c] = tx[c]
          \/ \E row \in SessionRow : tx'[c] = Locked(c, Event(c).sid, row)
      BY <3>2 DEF TypeOK
    <3> QED  BY <3>1, <3>3, LockedFields
  <2>3. CASE ~Claim(c) /\ ~Create(c)
    <3>1. tx'[c] \in {tx[c], save[c], Clean}
      BY <1>5, <2>3, TxShrinks
    <3> QED  BY <3>1, SaveBelow, CleanIsEmpty
  <2> QED  BY <2>1, <2>2, <2>3
<1> QED  BY <1>1, <1>2, <1>4, <1>5

(* Whoever is about to delete an account has locked it. *)
LEMMA ErasingBefore ==
  ASSUME TypeOK, StageInv, NEW c \in Calls, Act(c), pc'[c] = "erase"
  PROVE  DeleteLock(c) /\ job' = job
<1>0. Steps(c)
  BY ActSplit
<1>1. DeleteLock(c)
  BY <1>0 DEF Steps, TypeOK, Goto, NextOf, Begin, BeginBatch, BeginDelete,
     BeginRefresh, BeginDashboard, BeginPaging, ClaimMissing, Claim, Reject,
     Create, Duplicate, Store, NextEvent, CommitBatch, DeleteAccount,
     RefreshSelect, RefreshDelete, RefreshWait, RefreshWrite, DashboardState,
     DashboardHours, DashboardEdges, NextPage, Fails, Abort
<1> QED  BY <1>1 DEF DeleteLock

LEMMA UsersStay ==
  ASSUME TypeOK, StageInv, NEW c \in Calls, Act(c)
  PROVE  \/ users' = users
         \/ DeleteAccount(c) /\ users' = users \ {job[c].user}
<1>1. CASE CommitBatch(c)
  BY <1>1 DEF CommitBatch
<1>2. CASE DeleteAccount(c)
  BY <1>2 DEF DeleteAccount
<1>3. CASE ~CommitBatch(c) /\ ~DeleteAccount(c)
  BY <1>3, RowsStay
<1> QED  BY <1>1, <1>2, <1>3

LEMMA ShareStep ==
  ASSUME TypeOK, StageInv, BatchInv, SessionsMatchEvents, ShareInv,
         NEW c \in Calls, Act(c)
  PROVE  ShareInv'
<1> SUFFICES ASSUME NEW a \in Calls, tx'[a].share
             PROVE  /\ job'[a].user \in users'
                    /\ \A d \in Calls :
                         pc'[d] = "erase" => job'[d].user # job'[a].user
  BY DEF ShareInv
<1>1. \A d \in Calls : d # c => pc'[d] = pc[d] /\ job'[d] = job[d]
  BY OthersStay
<1>2. CASE a = c
  <2>1. /\ tx[c].share \/ (Store(c) /\ job'[c].user = job[c].user)
        /\ users' = users /\ pc'[c] # "erase"
    BY <1>2, SharedBefore DEF Batching
  <2>2. job'[c].user = job[c].user
    BY <1>2, SharedBefore
  <2>3. CASE tx[c].share
    BY <1>1, <1>2, <2>1, <2>2, <2>3 DEF ShareInv
  <2>4. CASE Store(c)
    <3>1. tx'[c] = WithEvent(c) /\ pc[c] = "store"
      BY <2>4 DEF Store, WithEvent, NextEvent, TypeOK
    <3>2. WithEvent(c).share = (job[c].user # None)
      BY <3>1, WithEventFields, Zenon
    <3>3. job[c].user # None
      BY <1>2, <3>1, <3>2
    <3>4. job[c].user \in users
      BY <2>4, <3>3 DEF Store, UserGone
    <3>5. \A d \in Calls \ {c} : pc[d] = "erase" => job[d].user # job[c].user
      BY <2>4 DEF Store, Free, WaitsFor
    <3> QED  BY <1>1, <1>2, <2>1, <2>2, <3>4, <3>5
  <2> QED  BY <2>1, <2>3, <2>4
<1>3. CASE a # c
  <2>1. tx[a].share /\ job'[a] = job[a]
    BY <1>3, OthersStay
  <2>2. /\ job[a].user \in users
        /\ \A d \in Calls : pc[d] = "erase" => job[d].user # job[a].user
    BY <2>1 DEF ShareInv
  <2>3. job[a].user \in users'
    BY <2>2, UsersStay DEF DeleteAccount, Goto
  <2>4. ASSUME pc'[c] = "erase"
        PROVE  job'[c].user # job[a].user
    <3>1. DeleteLock(c) /\ job' = job
      BY <2>4, ErasingBefore
    <3> QED  BY <1>3, <2>1, <3>1 DEF DeleteLock, Goto, Free, WaitsFor
  <2> QED  BY <1>1, <2>1, <2>2, <2>3, <2>4
<1> QED  BY <1>2, <1>3

(* What a batch commits is of its user, who exists. *)
LEMMA CommitUser ==
  ASSUME TypeOK, StageInv, BatchInv, ShareInv, NEW c \in Calls, CommitBatch(c)
  PROVE  /\ \A e \in EventIds : tx[c].events[e] # None =>
              /\ tx[c].events[e].user = job[c].user
              /\ job[c].user \in users \cup {None}
         /\ \A s \in SessionIds : tx[c].sessions[s] # None =>
              /\ tx[c].sessions[s].user = job[c].user
              /\ job[c].user \in users \cup {None}
<1>1. tx[c] = save[c]
  BY DEF CommitBatch, Goto, StageInv
<1>2. ASSUME NEW e \in EventIds, tx[c].events[e] # None
      PROVE  /\ tx[c].events[e].user = job[c].user
             /\ job[c].user \in users \cup {None}
  BY <1>2 DEF BatchInv, OwnRows, ShareInv
<1>3. ASSUME NEW s \in SessionIds, tx[c].sessions[s] # None
      PROVE  /\ tx[c].sessions[s].user = job[c].user
             /\ job[c].user \in users \cup {None}
  <2>1. \E e \in EventIds : tx[c].events[e] # None
    BY <1>1, <1>3 DEF BatchInv, Backed
  <2> QED  BY <1>2, <1>3, <2>1 DEF BatchInv, OwnRows
<1> QED  BY <1>2, <1>3

LEMMA UsersStep ==
  ASSUME TypeOK, StageInv, BatchInv, ShareInv, UsersInv, NEW c \in Calls,
         Act(c)
  PROVE  UsersInv'
<1>1. CASE CommitBatch(c)
  BY <1>1, CommitRows, CommitUser DEF UsersInv, Stored
<1>2. CASE DeleteAccount(c)
  BY <1>2, DeleteRows DEF UsersInv, Stored
<1>3. CASE ~CommitBatch(c) /\ ~DeleteAccount(c)
  BY <1>3, RowsStay DEF UsersInv, Stored
<1> QED  BY <1>1, <1>2, <1>3

-----------------------------------------------------------------------------
(* Sessions match events. *)

EventsHaveSessions ==
  \A e \in EventIds : events[e] # None =>
    /\ sessions[events[e].sid] # None
    /\ events[e].user # None => sessions[events[e].sid].user = events[e].user

SessionsHaveEvents ==
  \A s \in SessionIds : sessions[s] # None =>
    /\ \E e \in EventIds : /\ events[e] # None /\ events[e].sid = s
                           /\ events[e].at = sessions[s].last
    /\ \A e \in EventIds : events[e] # None /\ events[e].sid = s =>
         events[e].at <= sessions[s].last

LEMMA SessionsMatchEventsIs ==
  /\ SessionsMatchEvents <=> TypeOK /\ EventsHaveSessions /\ SessionsHaveEvents
  /\ SessionsMatchEvents' <=>
       TypeOK' /\ EventsHaveSessions' /\ SessionsHaveEvents'
<1>1. SessionsMatchEvents <=> TypeOK /\ EventsHaveSessions /\ SessionsHaveEvents
  BY DEF SessionsMatchEvents, EventsHaveSessions, SessionsHaveEvents, Stored
<1>2. SessionsMatchEvents' <=>
        TypeOK' /\ EventsHaveSessions' /\ SessionsHaveEvents'
  BY DEF SessionsMatchEvents, EventsHaveSessions, SessionsHaveEvents, Stored
<1> QED  BY <1>1, <1>2

LEMMA MatchAfterCommit ==
  ASSUME TypeOK, StageInv, BatchInv, SessionsMatchEvents, NEW c \in Calls,
         CommitBatch(c)
  PROVE  EventsHaveSessions' /\ SessionsHaveEvents'
<1> DEFINE T == tx[c]
           u == job[c].user
<1>1. /\ Own(events, sessions, u, T) /\ Backs(events, T)
      /\ EventsHaveSessions /\ SessionsHaveEvents
  <2>1. tx[c] = save[c]
    BY DEF CommitBatch, Goto, StageInv
  <2> QED  BY <2>1, BatchInvIs, SessionsMatchEventsIs DEF Batch
<1>2. T \in Transaction
  BY DEF TypeOK
<1>3. /\ T.events \in [EventIds -> EventRow \cup {None}]
      /\ T.sessions \in [SessionIds -> SessionRow \cup {None}]
  BY <1>2, TransactionFields
<1>4. /\ \A e \in EventIds : T.events[e] # None =>
           T.events[e].sid \in SessionIds /\ T.events[e].at \in Nat
      /\ \A e \in EventIds : events[e] # None =>
           events[e].sid \in SessionIds /\ events[e].at \in Nat
  <2>1. /\ \A e \in EventIds : T.events[e] # None => T.events[e] \in EventRow
        /\ \A e \in EventIds : events[e] # None => events[e] \in EventRow
    BY <1>3 DEF TypeOK
  <2> QED  BY <2>1, Constants DEF EventRow
<1>5. /\ \A s \in SessionIds :
           T.sessions[s] # None => T.sessions[s].last \in Nat
      /\ \A s \in SessionIds : sessions[s] # None => sessions[s].last \in Nat
  <2>1. \A s \in SessionIds :
          /\ T.sessions[s] # None => T.sessions[s] \in SessionRow
          /\ sessions[s] # None => sessions[s] \in SessionRow
    BY <1>3 DEF TypeOK
  <2> QED  BY <2>1, Constants DEF SessionRow
<1>6. /\ \A e \in EventIds :
           /\ T.events[e] # None => events'[e] = T.events[e]
           /\ T.events[e] = None => events'[e] = events[e]
      /\ \A s \in SessionIds :
           /\ T.sessions[s] # None => sessions'[s] = T.sessions[s]
           /\ T.sessions[s] = None => sessions'[s] = sessions[s]
  BY CommitRows
<1> HIDE DEF T, u
<1>7. EventsHaveSessions'
  <2> SUFFICES ASSUME NEW e \in EventIds, events'[e] # None
               PROVE  /\ sessions'[events'[e].sid] # None
                      /\ events'[e].user # None =>
                           sessions'[events'[e].sid].user = events'[e].user
    BY DEF EventsHaveSessions
  <2>1. CASE T.events[e] # None
    BY <1>1, <1>4, <1>6, <2>1 DEF Own
  <2>2. CASE T.events[e] = None
    <3>1. /\ events'[e] = events[e] /\ events[e].sid \in SessionIds
          /\ sessions[events[e].sid] # None
          /\ events[e].user # None =>
               sessions[events[e].sid].user = events[e].user
      BY <1>1, <1>4, <1>6, <2>2 DEF EventsHaveSessions
    <3>2. CASE T.sessions[events[e].sid] = None
      BY <1>6, <3>1, <3>2
    <3>3. CASE T.sessions[events[e].sid] # None
      <4>1. /\ T.sessions[events[e].sid].user = u
            /\ sessions[events[e].sid].user \in {None, u}
        BY <1>1, <3>1, <3>3 DEF Own
      <4> QED  BY <1>6, <3>1, <3>3, <4>1
    <3> QED  BY <3>2, <3>3
  <2> QED  BY <2>1, <2>2
<1>8. SessionsHaveEvents'
  <2> SUFFICES ASSUME NEW s \in SessionIds, sessions'[s] # None
               PROVE  /\ \E e \in EventIds :
                           /\ events'[e] # None /\ events'[e].sid = s
                           /\ events'[e].at = sessions'[s].last
                      /\ \A e \in EventIds :
                           events'[e] # None /\ events'[e].sid = s =>
                             events'[e].at <= sessions'[s].last
    BY DEF SessionsHaveEvents
  <2>1. ASSUME NEW t, Has(events, T, s, t)
        PROVE  \E e \in EventIds : /\ events'[e] # None /\ events'[e].sid = s
                                   /\ events'[e].at = t
    <3>1. PICK e \in EventIds :
            \/ T.events[e] # None /\ T.events[e].sid = s /\ T.events[e].at = t
            \/ events[e] # None /\ events[e].sid = s /\ events[e].at = t
      BY <2>1 DEF Has
    <3>2. events[e] # None => T.events[e] = None
      BY <1>1 DEF Own
    <3> QED  BY <1>6, <3>1, <3>2
  <2>2. CASE T.sessions[s] # None
    <3>1. sessions'[s] = T.sessions[s] /\ Has(events, T, s, T.sessions[s].last)
      BY <1>1, <1>6, <2>2 DEF Backs
    <3>2. ASSUME NEW e \in EventIds, events'[e] # None, events'[e].sid = s
          PROVE  events'[e].at <= T.sessions[s].last
      <4>1. CASE T.events[e] # None
        BY <1>1, <1>6, <3>2, <4>1 DEF Own
      <4>2. CASE T.events[e] = None
        <5>1. events'[e] = events[e]
          BY <1>6, <4>2
        <5>2. sessions[s] # None /\ events[e].at <= sessions[s].last
          BY <1>1, <3>2, <5>1 DEF EventsHaveSessions, SessionsHaveEvents
        <5>3. sessions[s].last <= T.sessions[s].last
          BY <1>1, <2>2, <5>2 DEF Own
        <5>4. /\ events[e].at \in Nat /\ sessions[s].last \in Nat
              /\ T.sessions[s].last \in Nat
          BY <1>4, <1>5, <2>2, <3>2, <5>1, <5>2
        <5> QED  BY <5>1, <5>2, <5>3, <5>4
      <4> QED  BY <4>1, <4>2
    <3> QED  BY <2>1, <3>1, <3>2
  <2>3. CASE T.sessions[s] = None
    <3>1. sessions'[s] = sessions[s] /\ sessions[s] # None
      BY <1>6, <2>3
    <3>2. \E e \in EventIds : /\ events[e] # None /\ events[e].sid = s
                              /\ events[e].at = sessions[s].last
      BY <1>1, <3>1 DEF SessionsHaveEvents
    <3>3. Has(events, T, s, sessions[s].last)
      BY <3>2 DEF Has
    <3>4. ASSUME NEW e \in EventIds, events'[e] # None, events'[e].sid = s
          PROVE  events'[e].at <= sessions[s].last
      <4>1. T.events[e] = None
        BY <1>1, <1>6, <2>3, <3>4 DEF Own
      <4> QED  BY <1>1, <1>6, <3>1, <3>4, <4>1 DEF SessionsHaveEvents
    <3> QED  BY <2>1, <3>1, <3>3, <3>4
  <2> QED  BY <2>2, <2>3
<1> QED  BY <1>7, <1>8

LEMMA MatchAfterDelete ==
  ASSUME SessionsMatchEvents, NEW c \in Calls, DeleteAccount(c)
  PROVE  EventsHaveSessions' /\ SessionsHaveEvents'
<1>1. TypeOK /\ EventsHaveSessions /\ SessionsHaveEvents
  BY SessionsMatchEventsIs
<1>2. /\ \A e \in EventIds :
           /\ events[e] = None <=> events'[e] = None
           /\ events[e] # None =>
                /\ events'[e].sid = events[e].sid
                /\ events'[e].at = events[e].at
                /\ events'[e].user = IF events[e].user = job[c].user
                                     THEN None ELSE events[e].user
      /\ \A s \in SessionIds :
           /\ sessions[s] = None <=> sessions'[s] = None
           /\ sessions[s] # None =>
                /\ sessions'[s].last = sessions[s].last
                /\ sessions'[s].user = IF sessions[s].user = job[c].user
                                       THEN None ELSE sessions[s].user
  BY <1>1, DeleteRows
<1>3. \A e \in EventIds : events[e] # None => events[e].sid \in SessionIds
  <2>1. \A e \in EventIds : events[e] # None => events[e] \in EventRow
    BY <1>1 DEF TypeOK
  <2> QED  BY <2>1 DEF EventRow
<1>4. EventsHaveSessions'
  BY <1>1, <1>2, <1>3 DEF EventsHaveSessions
<1>5. SessionsHaveEvents'
  BY <1>1, <1>2 DEF SessionsHaveEvents
<1> QED  BY <1>4, <1>5

LEMMA MatchStep ==
  ASSUME SessionsMatchEvents, StageInv, BatchInv, NEW c \in Calls, Act(c)
  PROVE  SessionsMatchEvents'
<1>1. TypeOK /\ EventsHaveSessions /\ SessionsHaveEvents
  BY SessionsMatchEventsIs
<1>2. TypeOK'
  BY <1>1, TypeStep
<1>3. EventsHaveSessions' /\ SessionsHaveEvents'
  <2>1. CASE CommitBatch(c)
    BY <1>1, <2>1, MatchAfterCommit
  <2>2. CASE DeleteAccount(c)
    BY <2>2, MatchAfterDelete
  <2>3. CASE ~CommitBatch(c) /\ ~DeleteAccount(c)
    BY <1>1, <2>3, RowsStay DEF EventsHaveSessions, SessionsHaveEvents
  <2> QED  BY <2>1, <2>2, <2>3
<1> QED  BY <1>2, <1>3, SessionsMatchEventsIs

-----------------------------------------------------------------------------
(* Aggregations *)

(* RefreshInv in parts: what has been aggregated, and one aggregation *)
Alone == \A c, d \in Calls : Refreshing(c) /\ Refreshing(d) => c = d

Hours ==
  /\ \A row \in hourly : row[2] \in Stored
  /\ ~overlapped =>
       /\ \A row, other \in hourly : row[2] = other[2] => row = other
       /\ \A row \in hourly : state # None /\ events[row[2]].at < state

Refresh(c) ==
  /\ pc[c] \in {"delete", "wait", "write"} => job[c].seen \subseteq Stored
  /\ ~overlapped =>
       /\ Refreshing(c) /\ state # None => state <= job[c].cutoff
       /\ pc[c] \in {"delete", "wait", "write"} =>
            /\ Aggregated \subseteq job[c].seen
            /\ \A e \in job[c].seen : events[e].at < job[c].cutoff
       /\ pc[c] \in {"wait", "write"} => job[c].victims = hourly

LEMMA RefreshInvIs ==
  /\ RefreshInv <=>
       Hours /\ (~overlapped => Alone) /\ \A c \in Calls : Refresh(c)
  /\ RefreshInv' <=>
       Hours' /\ (~overlapped' => Alone') /\ \A c \in Calls : Refresh(c)'
<1>1. RefreshInv <=>
        Hours /\ (~overlapped => Alone) /\ \A c \in Calls : Refresh(c)
  BY DEF RefreshInv, Hours, Alone, Refresh
<1>2. RefreshInv' <=>
        Hours' /\ (~overlapped' => Alone') /\ \A c \in Calls : Refresh(c)'
  BY DEF RefreshInv, Hours, Alone, Refresh
<1> QED  BY <1>1, <1>2

LEMMA RefreshGoesOn ==
  ASSUME TypeOK, StageInv, NEW c \in Calls, Act(c), Refreshing(c)'
  PROVE  \/ /\ BeginRefresh(c) /\ pc'[c] = "select"
         \/ /\ RefreshSelect(c) \/ RefreshDelete(c) \/ RefreshWait(c)
            /\ Refreshing(c)
<1>0. Steps(c)
  BY ActSplit
<1>1. pc'[c] \in {"select", "delete", "wait", "write"}
  BY DEF Refreshing
<1>2. \/ BeginRefresh(c) \/ RefreshSelect(c) \/ RefreshDelete(c)
      \/ RefreshWait(c)
  BY <1>0, <1>1 DEF Steps, TypeOK, Goto, NextOf, Begin, BeginBatch, BeginDelete,
     BeginDashboard, BeginPaging, ClaimMissing, Claim, Reject,
     Create, Duplicate, Store, NextEvent, CommitBatch, DeleteLock,
     DeleteAccount, RefreshWrite, DashboardState,
     DashboardHours, DashboardEdges, NextPage, Fails, Abort, Ended
<1> QED  BY <1>2 DEF BeginRefresh, Begin, RefreshSelect, RefreshDelete,
            RefreshWait, Goto, Refreshing, TypeOK

LEMMA AloneStep ==
  ASSUME TypeOK, StageInv, RefreshInv, NEW c \in Calls, Act(c), ~overlapped'
  PROVE  Alone'
<1>1. ~overlapped /\ Alone
  BY OverlapStays, RefreshInvIs
<1>2. \A d \in Calls : d # c => pc'[d] = pc[d]
  BY OthersStay
<1>3. \A d \in Calls : d # c => (Refreshing(d)' <=> Refreshing(d))
  BY <1>2 DEF Refreshing
<1>4. CASE BeginRefresh(c)
  <2>1. \A d \in Calls : ~Refreshing(d)
    BY <1>4, Zenon DEF BeginRefresh
  <2> QED  BY <1>3, <2>1 DEF Alone
<1>5. CASE ~BeginRefresh(c)
  <2>1. Refreshing(c)' => Refreshing(c)
    BY <1>5, RefreshGoesOn
  <2> QED  BY <1>1, <1>3, <2>1 DEF Alone
<1> QED  BY <1>4, <1>5

(* The write of an aggregation that was alone replaces everything. *)
LEMMA WriteReplaces ==
  ASSUME TypeOK, RefreshInv, NEW c \in Calls, RefreshWrite(c)
  PROVE  /\ job[c].seen \subseteq Stored /\ state' = job[c].cutoff
         /\ hourly' \subseteq hourly \cup ({c} \X job[c].seen)
         /\ events' = events /\ overlapped' = overlapped
         /\ ~overlapped => /\ hourly' = {c} \X job[c].seen
                           /\ Aggregated \subseteq job[c].seen
                           /\ state # None => state <= job[c].cutoff
                           /\ \A e \in job[c].seen :
                                events[e].at < job[c].cutoff
<1>1. /\ pc[c] = "write" /\ Refreshing(c) /\ Refresh(c)
      /\ hourly' = (hourly \ job[c].victims) \cup ({c} \X job[c].seen)
      /\ state' = job[c].cutoff /\ events' = events /\ overlapped' = overlapped
  BY RefreshInvIs DEF RefreshWrite, Goto, Refreshing
<1> QED  BY <1>1 DEF Refresh

LEMMA HoursStep ==
  ASSUME TypeOK, StageInv, BatchInv, RefreshInv, NEW c \in Calls, Act(c)
  PROVE  Hours'
<1>1. Hours
  BY RefreshInvIs
<1>2. CASE RefreshWrite(c)
  <2>1. ~overlapped' => ~overlapped /\ hourly' = {c} \X job[c].seen
    BY <1>2, WriteReplaces
  <2>2. \A row \in hourly' : row[2] \in Stored'
    BY <1>1, <1>2, WriteReplaces DEF Hours, Stored
  <2>3. ~overlapped' =>
          \A row, other \in hourly' : row[2] = other[2] => row = other
    BY <2>1
  <2>4. job[c].cutoff # None
    BY JobFields, Constants DEF TypeOK
  <2>5. ~overlapped' =>
          \A row \in hourly' : state' # None /\ events'[row[2]].at < state'
    BY <1>2, <2>1, <2>4, WriteReplaces
  <2> QED  BY <2>2, <2>3, <2>5 DEF Hours
<1>3. CASE ~RefreshWrite(c)
  <2>1. hourly' = hourly /\ state' = state
    BY <1>3, HourlyStays
  <2>2. ~overlapped' => ~overlapped
    BY OverlapStays
  <2>3. \A row \in hourly : row[2] \in Stored
    BY <1>1 DEF Hours
  <2>4. \A row \in hourly :
          row[2] \in Stored' /\ events'[row[2]].at = events[row[2]].at
    BY <2>3, EventsKept
  <2> QED  BY <1>1, <2>1, <2>2, <2>4 DEF Hours
<1> QED  BY <1>2, <1>3

LEMMA AggregatedKept ==
  ASSUME StageInv, NEW c \in Calls, Act(c), ~RefreshWrite(c)
  PROVE  Aggregated' = Aggregated /\ hourly' = hourly /\ state' = state
  BY HourlyStays DEF Aggregated

LEMMA RefreshOfOthers ==
  ASSUME TypeOK, StageInv, BatchInv, RefreshInv, NEW c \in Calls, Act(c),
         NEW d \in Calls, d # c
  PROVE  Refresh(d)'
<1>1. pc'[d] = pc[d] /\ job'[d] = job[d]
  BY OthersStay
<1>2. Refresh(d) /\ (Refreshing(d)' <=> Refreshing(d))
  BY <1>1, RefreshInvIs DEF Refreshing
<1>3. pc[d] \in {"delete", "wait", "write"} => job[d].seen \subseteq Stored'
  BY <1>2, EventsKept DEF Refresh
<1>4. ASSUME ~overlapped', Refreshing(d)
      PROVE  ~overlapped /\ Aggregated' = Aggregated /\ hourly' = hourly
             /\ state' = state
  <2>1. ~overlapped /\ Alone
    BY <1>4, OverlapStays, RefreshInvIs
  <2>2. ~RefreshWrite(c)
    BY <1>4, <2>1 DEF RefreshWrite, Goto, Refreshing, Alone
  <2> QED  BY <2>1, <2>2, AggregatedKept
<1>5. ASSUME ~overlapped', pc[d] \in {"delete", "wait", "write"}
      PROVE  /\ Aggregated' \subseteq job[d].seen
             /\ \A e \in job[d].seen : events'[e].at < job[d].cutoff
  <2>1. ~overlapped /\ Aggregated' = Aggregated
    BY <1>4, <1>5 DEF Refreshing
  <2> QED  BY <1>2, <1>5, <2>1, EventsKept DEF Refresh
<1>6. ASSUME ~overlapped', Refreshing(d), state' # None
      PROVE  state' <= job[d].cutoff
  BY <1>2, <1>4, <1>6 DEF Refresh
<1>7. ASSUME ~overlapped', pc[d] \in {"wait", "write"}
      PROVE  job[d].victims = hourly'
  <2>1. ~overlapped /\ hourly' = hourly
    BY <1>4, <1>7 DEF Refreshing
  <2> QED  BY <1>2, <1>7, <2>1 DEF Refresh
<1> QED  BY <1>1, <1>2, <1>3, <1>5, <1>6, <1>7 DEF Refresh

(* What an aggregation reads of the events holds what has been aggregated. *)
LEMMA SelectSees ==
  ASSUME TypeOK, RefreshInv, NEW c \in Calls, RefreshSelect(c)
  PROVE  /\ job'[c].seen \subseteq Stored
         /\ \A e \in job'[c].seen : events[e].at < job[c].cutoff
         /\ ~overlapped => Aggregated \subseteq job'[c].seen
<1>1. job'[c].seen = {e \in Stored : Before(events[e].at, job[c].cutoff)}
  BY DEF RefreshSelect, TypeOK, Job
<1>2. pc[c] = "select" /\ Refreshing(c) /\ Refresh(c) /\ Hours
  BY RefreshInvIs DEF RefreshSelect, Goto, Refreshing
<1>3. ASSUME ~overlapped, NEW row \in hourly
      PROVE  row[2] \in Stored /\ events[row[2]].at < job[c].cutoff
  <2>1. /\ row[2] \in Stored /\ state # None /\ events[row[2]].at < state
        /\ state <= job[c].cutoff
    BY <1>2, <1>3 DEF Hours, Refresh
  <2>2. events[row[2]] \in EventRow
    BY <2>1 DEF Stored, TypeOK
  <2>3. events[row[2]].at \in Nat /\ state \in Nat /\ job[c].cutoff \in Nat
    BY <2>1, <2>2, JobFields, Constants DEF EventRow, TypeOK
  <2> QED  BY <2>1, <2>3
<1> QED  BY <1>1, <1>3 DEF Before, Aggregated

LEMMA RefreshOfStep ==
  ASSUME TypeOK, StageInv, BatchInv, RefreshInv, NEW c \in Calls, Act(c)
  PROVE  Refresh(c)'
<1>1. CASE ~Refreshing(c)'
  BY <1>1 DEF Refreshing, Refresh
<1>2. CASE Refreshing(c)'
  <2>1. Refresh(c) /\ job[c] \in Job
    BY RefreshInvIs DEF TypeOK
  <2>2. CASE BeginRefresh(c) /\ pc'[c] = "select"
    <3>1. PICK t \in Cutoffs :
            /\ state # None => state <= t
            /\ Begin(c, "refresh", "select", [Blank EXCEPT !.cutoff = t])
      BY <2>2 DEF BeginRefresh
    <3>2. job'[c].cutoff = t /\ state' = state
      BY <3>1 DEF Begin, Blank, TypeOK, rows
    <3>3. state' # None => state' <= job'[c].cutoff
      BY <3>1, <3>2
    <3> QED  BY <2>2, <3>3 DEF Refresh, Refreshing
  <2>3. CASE RefreshSelect(c) /\ Refreshing(c)
    <3>1. /\ pc'[c] = "delete" /\ job'[c].cutoff = job[c].cutoff
          /\ hourly' = hourly /\ state' = state /\ events' = events
          /\ overlapped' = overlapped /\ Aggregated' = Aggregated
          /\ Stored' = Stored
      BY <2>1, <2>3 DEF RefreshSelect, Goto, TypeOK, Job, rows, Aggregated,
         Stored
    <3> QED  BY <2>1, <2>3, <3>1, SelectSees DEF Refresh
  <2>4. CASE RefreshDelete(c) /\ Refreshing(c)
    <3>1. /\ pc[c] = "delete" /\ pc'[c] = "wait"
          /\ job'[c].cutoff = job[c].cutoff /\ job'[c].seen = job[c].seen
          /\ job'[c].victims = hourly
          /\ hourly' = hourly /\ state' = state /\ events' = events
          /\ overlapped' = overlapped /\ Aggregated' = Aggregated
          /\ Stored' = Stored
      BY <2>1, <2>4 DEF RefreshDelete, Goto, TypeOK, Job, rows, Aggregated,
         Stored
    <3> QED  BY <2>1, <2>4, <3>1 DEF Refresh
  <2>5. CASE RefreshWait(c) /\ Refreshing(c)
    <3>1. /\ pc[c] = "wait" /\ pc'[c] = "write"
          /\ job'[c].cutoff = job[c].cutoff /\ job'[c].seen = job[c].seen
          /\ job'[c].victims = job[c].victims
          /\ hourly' = hourly /\ state' = state /\ events' = events
          /\ overlapped' = overlapped /\ Aggregated' = Aggregated
          /\ Stored' = Stored
      BY <2>1, <2>5 DEF RefreshWait, Goto, TypeOK, Job, rows, Aggregated,
         Stored
    <3> QED  BY <2>1, <2>5, <3>1 DEF Refresh
  <2> QED  BY <1>2, <2>2, <2>3, <2>4, <2>5, RefreshGoesOn
<1> QED  BY <1>1, <1>2

LEMMA RefreshStep ==
  ASSUME TypeOK, StageInv, BatchInv, RefreshInv, NEW c \in Calls, Act(c)
  PROVE  RefreshInv'
<1>1. Hours'
  BY HoursStep
<1>2. ~overlapped' => Alone'
  BY AloneStep
<1>3. \A d \in Calls : Refresh(d)'
  BY RefreshOfStep, RefreshOfOthers
<1> QED  BY <1>1, <1>2, <1>3, RefreshInvIs

-----------------------------------------------------------------------------
(* Hours: an event lies in a whole hour of a range exactly if its hour does. *)

LEMMA HourFloors ==
  ASSUME NEW t \in Nat
  PROVE  /\ HourFloor(t) \in Nat /\ HourFloor(t) <= t
         /\ t < HourFloor(t) + HourTicks
         /\ t \div HourTicks \in Nat
<1>1. HourTicks \in Nat \ {0}
  BY AnalyticsConstants
<1>2. \A h \in Nat \ {0} : h * (t \div h) <= t /\ t < h * (t \div h) + h
                           /\ t \div h \in Nat
  OBVIOUS
<1>3. \A h \in Nat \ {0}, k \in Nat : h * k \in Nat
  OBVIOUS
<1> QED  BY <1>1, <1>2, <1>3 DEF HourFloor

LEMMA HoursApart ==
  ASSUME NEW a \in Nat, NEW b \in Nat, HourFloor(a) < HourFloor(b)
  PROVE  HourFloor(a) + HourTicks <= HourFloor(b)
<1>1. HourTicks \in Nat \ {0} /\ a \div HourTicks \in Nat
      /\ b \div HourTicks \in Nat
  BY AnalyticsConstants, HourFloors
<1>2. \A h \in Nat \ {0}, x, y \in Nat : h * x < h * y => h * x + h <= h * y
  OBVIOUS
<1> QED  BY <1>1, <1>2 DEF HourFloor

LEMMA HourCeils ==
  ASSUME NEW t \in Nat
  PROVE  /\ HourCeil(t) \in Nat /\ t <= HourCeil(t)
         /\ t + HourTicks - 1 \in Nat
<1>1. HourTicks \in Nat \ {0} /\ t + HourTicks - 1 \in Nat
  BY AnalyticsConstants
<1> QED  BY <1>1, HourFloors DEF HourCeil

LEMMA WholeHours ==
  ASSUME NEW from \in Nat, NEW to \in Nat, NEW t \in Nat
  PROVE  InHours(HourFloor(t), from, to) <=> InHours(t, from, to)
<1>1. /\ HourFloor(t) \in Nat /\ HourFloor(t) <= t
      /\ t < HourFloor(t) + HourTicks /\ HourFloor(to) \in Nat
      /\ HourCeil(from) \in Nat /\ HourTicks \in Nat
  BY HourFloors, HourCeils, AnalyticsConstants
<1>2. HourCeil(from) <= t => HourCeil(from) <= HourFloor(t)
  <2>1. from + HourTicks - 1 \in Nat
    BY HourCeils
  <2>2. HourFloor(t) < HourCeil(from) =>
          HourFloor(t) + HourTicks <= HourCeil(from)
    BY <2>1, HoursApart DEF HourCeil
  <2> QED  BY <1>1, <2>2
<1>3. HourFloor(t) < HourFloor(to) => t < HourFloor(to)
  <2>1. HourFloor(t) < HourFloor(to) =>
          HourFloor(t) + HourTicks <= HourFloor(to)
    BY HoursApart
  <2> QED  BY <1>1, <2>1
<1> QED  BY <1>1, <1>2, <1>3 DEF InHours

(* The whole hours and the edges of a range share nothing, and are all. *)
LEMMA RangeSplits ==
  ASSUME NEW from \in Nat, NEW to \in Nat, NEW t \in Nat
  PROVE  /\ InHours(HourFloor(t), from, to) \/ InEdges(t, from, to)
              <=> from <= t /\ t < to
         /\ ~(InHours(HourFloor(t), from, to) /\ InEdges(t, from, to))
<1>1. /\ HourFloor(to) \in Nat /\ HourFloor(to) <= to
      /\ HourCeil(from) \in Nat /\ from <= HourCeil(from)
  BY HourFloors, HourCeils
<1> QED  BY <1>1, WholeHours DEF InHours, InEdges

-----------------------------------------------------------------------------
(* Dashboards *)

(* ReadInv and DashboardExact of one call *)
Read(c) ==
  /\ pc[c] \in {"hours", "edges"} => job[c].base \subseteq Stored
  /\ pc[c] = "hours" /\ ~overlapped => job[c].base \subseteq Aggregated
  /\ pc[c] = "edges" =>
       /\ \A row \in job[c].counted :
            /\ row[2] \in Stored
            /\ InHours(HourFloor(events[row[2]].at), job[c].from, job[c].to)
       /\ ~overlapped =>
            /\ \A row, other \in job[c].counted :
                 row[2] = other[2] => row = other
            /\ \A e \in job[c].base :
                 InHours(HourFloor(events[e].at), job[c].from, job[c].to) =>
                   \E row \in job[c].counted : row[2] = e
  /\ Finished(c, "dashboard") =>
       /\ \A row \in job[c].counted : row[2] \in Stored
       /\ job[c].base \subseteq Stored

Exact(c) ==
  Finished(c, "dashboard") =>
    /\ \A row \in job[c].counted :
         job[c].from <= events[row[2]].at /\ events[row[2]].at < job[c].to
    /\ ~overlapped =>
         /\ \A row, other \in job[c].counted : row[2] = other[2] => row = other
         /\ \A e \in job[c].base :
              job[c].from <= events[e].at /\ events[e].at < job[c].to =>
                \E row \in job[c].counted : row[2] = e

LEMMA ReadInvIs ==
  /\ ReadInv <=> \A c \in Calls : Read(c)
  /\ ReadInv' <=> \A c \in Calls : Read(c)'
  /\ DashboardExact <=> \A c \in Calls : Exact(c)
  /\ DashboardExact' <=> \A c \in Calls : Exact(c)'
<1>1. ReadInv <=> \A c \in Calls : Read(c)
  BY DEF ReadInv, Read
<1>2. ReadInv' <=> \A c \in Calls : Read(c)'
  BY DEF ReadInv, Read
<1>3. DashboardExact <=> \A c \in Calls : Exact(c)
  BY DEF DashboardExact, Exact, InRange
<1>4. DashboardExact' <=> \A c \in Calls : Exact(c)'
  BY DEF DashboardExact, Exact, InRange
<1> QED  BY <1>1, <1>2, <1>3, <1>4

(* What has been aggregated stays so, as long as aggregations do not overlap. *)
LEMMA AggregatedGrows ==
  ASSUME TypeOK, StageInv, RefreshInv, NEW c \in Calls, Act(c), ~overlapped'
  PROVE  ~overlapped /\ Aggregated \subseteq Aggregated'
<1>1. ~overlapped
  BY OverlapStays
<1>2. CASE RefreshWrite(c)
  <2>1. hourly' = {c} \X job[c].seen /\ Aggregated \subseteq job[c].seen
    BY <1>1, <1>2, WriteReplaces
  <2>2. \A e \in job[c].seen : <<c, e>> \in hourly' /\ <<c, e>>[2] = e
    BY <2>1
  <2>3. Aggregated' = {row[2] : row \in hourly'}
    BY DEF Aggregated
  <2>4. job[c].seen \subseteq Aggregated'
    BY <2>2, <2>3
  <2> QED  BY <1>1, <2>1, <2>4
<1>3. CASE ~RefreshWrite(c)
  BY <1>1, <1>3, AggregatedKept
<1> QED  BY <1>2, <1>3

LEMMA ReadOfOthers ==
  ASSUME TypeOK, StageInv, BatchInv, RefreshInv, ReadInv, DashboardExact,
         NEW c \in Calls, Act(c), NEW d \in Calls, d # c
  PROVE  Read(d)' /\ Exact(d)'
<1>1. pc'[d] = pc[d] /\ job'[d] = job[d]
  BY OthersStay
<1>2. /\ Read(d) /\ Exact(d)
      /\ Finished(d, "dashboard")' <=> Finished(d, "dashboard")
  BY <1>1, ReadInvIs DEF Finished
<1>3. \A e \in Stored : e \in Stored' /\ events'[e].at = events[e].at
  BY EventsKept
<1>4. ~overlapped' => ~overlapped /\ Aggregated \subseteq Aggregated'
  BY AggregatedGrows
<1>5. ASSUME pc[d] = "edges"
      PROVE  /\ \A row \in job[d].counted :
                  /\ row[2] \in Stored'
                  /\ InHours(HourFloor(events'[row[2]].at),
                             job[d].from, job[d].to)
             /\ \A e \in job[d].base : events'[e].at = events[e].at
  BY <1>2, <1>3, <1>5 DEF Read
<1>6. Read(d)'
  <2>1. pc[d] \in {"hours", "edges"} => job[d].base \subseteq Stored'
    BY <1>2, <1>3 DEF Read
  <2>2. pc[d] = "hours" /\ ~overlapped' => job[d].base \subseteq Aggregated'
    BY <1>2, <1>4 DEF Read
  <2>3. ASSUME pc[d] = "edges", ~overlapped'
        PROVE  /\ \A row, other \in job[d].counted :
                    row[2] = other[2] => row = other
               /\ \A e \in job[d].base :
                    InHours(HourFloor(events'[e].at), job[d].from, job[d].to) =>
                      \E row \in job[d].counted : row[2] = e
    <3>1. /\ \A row, other \in job[d].counted : row[2] = other[2] => row = other
          /\ \A e \in job[d].base :
               InHours(HourFloor(events[e].at), job[d].from, job[d].to) =>
                 \E row \in job[d].counted : row[2] = e
      BY <1>2, <1>4, <2>3 DEF Read
    <3> QED  BY <1>5, <2>3, <3>1
  <2>4. Finished(d, "dashboard") =>
          /\ \A row \in job[d].counted : row[2] \in Stored'
          /\ job[d].base \subseteq Stored'
    BY <1>2, <1>3 DEF Read
  <2> QED  BY <1>1, <1>2, <1>5, <2>1, <2>2, <2>3, <2>4 DEF Read
<1>7. ASSUME Finished(d, "dashboard")
      PROVE  /\ \A row \in job[d].counted :
                  events'[row[2]].at = events[row[2]].at
             /\ \A e \in job[d].base : events'[e].at = events[e].at
  BY <1>2, <1>3, <1>7 DEF Read
<1>8. Exact(d)'
  BY <1>1, <1>2, <1>4, <1>7 DEF Exact
<1> QED  BY <1>6, <1>8

(* How a call comes to be where it reads *)
LEMMA ReadsNext ==
  ASSUME TypeOK, StageInv, NEW c \in Calls, Act(c)
  PROVE  /\ pc'[c] = "state" => BeginDashboard(c)
         /\ pc'[c] = "hours" => DashboardState(c)
         /\ pc'[c] = "edges" => DashboardHours(c)
         /\ pc'[c] = "page" => BeginPaging(c) \/ NextPage(c)
         /\ pc'[c] = "done" =>
              DashboardEdges(c) \/ NextPage(c) \/ job'[c] = Blank
<1>0. Steps(c)
  BY ActSplit
<1>1. CommitBatch(c) \/ DeleteAccount(c) \/ RefreshWrite(c) \/ Fails(c) =>
        pc'[c] \in Ended /\ job'[c] = Blank
  BY DEF CommitBatch, DeleteAccount, RefreshWrite, Fails, Abort, Goto, TypeOK,
     Ended
<1>2. ASSUME \/ BeginBatch(c) \/ BeginDelete(c) \/ BeginRefresh(c)
             \/ ClaimMissing(c) \/ Claim(c) \/ Reject(c) \/ Create(c)
             \/ Duplicate(c) \/ Store(c)
             \/ DeleteLock(c)
             \/ RefreshSelect(c) \/ RefreshDelete(c) \/ RefreshWait(c)
      PROVE  pc'[c] \notin {"state", "hours", "edges", "page", "done"}
  BY <1>2 DEF Begin, BeginBatch, BeginDelete, BeginRefresh, ClaimMissing, Claim,
     Reject, Create, Duplicate, Store, NextEvent, NextOf, DeleteLock,
     RefreshSelect, RefreshDelete, RefreshWait, Goto, TypeOK
<1>3. /\ BeginDashboard(c) => pc'[c] = "state"
      /\ DashboardState(c) => pc'[c] = "hours"
      /\ DashboardHours(c) => pc'[c] = "edges"
      /\ DashboardEdges(c) => pc'[c] = "done"
      /\ BeginPaging(c) => pc'[c] = "page"
      /\ NextPage(c) => pc'[c] \in {"page", "done"}
  BY DEF BeginDashboard, BeginPaging, Begin, DashboardState, DashboardHours,
     DashboardEdges, NextPage, Goto, TypeOK
<1> QED  BY <1>0, <1>1, <1>2, <1>3 DEF Steps, Ended

LEMMA ReadOfState ==
  ASSUME TypeOK, RefreshInv, NEW c \in Calls, DashboardState(c)
  PROVE  Read(c)'
<1>1. /\ pc'[c] = "hours" /\ job'[c].base = Aggregated
      /\ events' = events /\ hourly' = hourly
  BY DEF DashboardState, Goto, TypeOK, Job, rows
<1>2. Aggregated \subseteq Stored
  BY RefreshInvIs DEF Hours, Aggregated
<1>3. Aggregated' = Aggregated /\ Stored' = Stored
  BY <1>1 DEF Aggregated, Stored
<1> QED  BY <1>1, <1>2, <1>3 DEF Read, Finished

LEMMA ReadOfHours ==
  ASSUME TypeOK, RefreshInv, ReadInv, NEW c \in Calls, DashboardHours(c)
  PROVE  Read(c)'
<1>1. /\ pc[c] = "hours" /\ pc'[c] = "edges"
      /\ job'[c].base = job[c].base /\ job'[c].from = job[c].from
      /\ job'[c].to = job[c].to
      /\ events' = events /\ hourly' = hourly /\ overlapped' = overlapped
  BY DEF DashboardHours, Goto, TypeOK, Job, rows
<1>2. job'[c].counted = {row \in hourly :
        InHours(HourFloor(events[row[2]].at), job[c].from, job[c].to)}
  BY DEF DashboardHours, TypeOK, Job
<1>3. /\ Read(c) /\ Hours /\ Stored' = Stored
  BY <1>1, ReadInvIs, RefreshInvIs DEF Stored
<1>4. job[c].base \subseteq Stored
  BY <1>1, <1>3 DEF Read
<1>5. \A row \in job'[c].counted :
        /\ row[2] \in Stored
        /\ InHours(HourFloor(events[row[2]].at), job[c].from, job[c].to)
  BY <1>2, <1>3 DEF Hours
<1>6. ASSUME ~overlapped
      PROVE  /\ \A row, other \in job'[c].counted :
                  row[2] = other[2] => row = other
             /\ \A e \in job[c].base :
                  InHours(HourFloor(events[e].at), job[c].from, job[c].to) =>
                    \E row \in job'[c].counted : row[2] = e
  <2>1. job[c].base \subseteq Aggregated
    BY <1>1, <1>3, <1>6 DEF Read
  <2> QED  BY <1>2, <1>3, <1>6, <2>1 DEF Hours, Aggregated
<1> QED  BY <1>1, <1>3, <1>4, <1>5, <1>6 DEF Read, Finished

(* The edges complete the count. *)
LEMMA ReadOfEdges ==
  ASSUME TypeOK, ReadInv, NEW c \in Calls, DashboardEdges(c)
  PROVE  Read(c)' /\ Exact(c)'
<1> DEFINE from == job[c].from
           to   == job[c].to
           old  == job[c].counted
           edge == {<<c, e>> : e \in
                      {e \in Stored : InEdges(events[e].at, from, to)}}
<1>1. /\ pc[c] = "edges" /\ pc'[c] = "done"
      /\ job'[c].base = job[c].base /\ job'[c].from = from /\ job'[c].to = to
      /\ events' = events /\ overlapped' = overlapped
      /\ job'[c].counted = old \cup edge
  BY DEF DashboardEdges, Goto, TypeOK, Job, rows
<1>2. /\ Read(c) /\ Stored' = Stored /\ from \in Nat /\ to \in Nat
  BY <1>1, ReadInvIs, JobFields DEF Stored, TypeOK
<1>3. \A e \in Stored : events[e].at \in Nat
  BY Constants DEF Stored, TypeOK, EventRow
<1>4. \A row \in edge : /\ row = <<c, row[2]>> /\ row[2] \in Stored
                        /\ InEdges(events[row[2]].at, from, to)
  OBVIOUS
<1>5. \A e \in Stored : InEdges(events[e].at, from, to) =>
        \E row \in edge : row[2] = e
  <2> TAKE e \in Stored
  <2> HAVE InEdges(events[e].at, from, to)
  <2>1. <<c, e>> \in edge /\ <<c, e>>[2] = e
    OBVIOUS
  <2> QED  BY <2>1
<1>6. /\ job[c].base \subseteq Stored
      /\ \A row \in old : /\ row[2] \in Stored
                          /\ InHours(HourFloor(events[row[2]].at), from, to)
  BY <1>1, <1>2 DEF Read
<1>7. ~overlapped =>
        /\ \A row, other \in old : row[2] = other[2] => row = other
        /\ \A e \in job[c].base : InHours(HourFloor(events[e].at), from, to) =>
             \E row \in old : row[2] = e
  BY <1>1, <1>2 DEF Read
<1> HIDE DEF from, to, old, edge
<1>8. \A e \in Stored :
        /\ InHours(HourFloor(events[e].at), from, to)
             \/ InEdges(events[e].at, from, to)
             <=> from <= events[e].at /\ events[e].at < to
        /\ ~(/\ InHours(HourFloor(events[e].at), from, to)
             /\ InEdges(events[e].at, from, to))
  BY <1>2, <1>3, RangeSplits
<1>9. \A row \in old \cup edge :
        /\ row[2] \in Stored
        /\ from <= events[row[2]].at /\ events[row[2]].at < to
  BY <1>4, <1>6, <1>8
<1>10. ASSUME ~overlapped, NEW row \in old \cup edge,
              NEW other \in old \cup edge, row[2] = other[2]
       PROVE  row = other
  <2>1. CASE row \in old /\ other \in old
    BY <1>7, <1>10, <2>1
  <2>2. CASE row \in edge /\ other \in edge
    BY <1>4, <1>10, <2>2
  <2>3. CASE row \in old /\ other \in edge
    BY <1>4, <1>6, <1>8, <1>10, <2>3
  <2>4. CASE row \in edge /\ other \in old
    BY <1>4, <1>6, <1>8, <1>10, <2>4
  <2> QED  BY <2>1, <2>2, <2>3, <2>4
<1>11. ASSUME ~overlapped, NEW e \in job[c].base,
              from <= events[e].at, events[e].at < to
       PROVE  \E row \in old \cup edge : row[2] = e
  <2>1. \/ InHours(HourFloor(events[e].at), from, to)
        \/ InEdges(events[e].at, from, to)
    BY <1>6, <1>8, <1>11
  <2> QED  BY <1>5, <1>6, <1>7, <1>11, <2>1
<1>12. Read(c)'
  BY <1>1, <1>2, <1>6, <1>9 DEF Read
<1>13. Exact(c)'
  BY <1>1, <1>9, <1>10, <1>11 DEF Exact
<1> QED  BY <1>12, <1>13

LEMMA ReadOfStep ==
  ASSUME TypeOK, StageInv, RefreshInv, ReadInv, PageInv, NEW c \in Calls,
         Act(c)
  PROVE  Read(c)' /\ Exact(c)'
<1>1. CASE pc'[c] = "hours"
  <2>1. DashboardState(c)
    BY <1>1, ReadsNext
  <2> QED  BY <1>1, <2>1, ReadOfState DEF Exact, Finished
<1>2. CASE pc'[c] = "edges"
  <2>1. DashboardHours(c)
    BY <1>2, ReadsNext
  <2> QED  BY <1>2, <2>1, ReadOfHours DEF Exact, Finished
<1>3. CASE pc'[c] = "done"
  <2>1. CASE DashboardEdges(c)
    BY <2>1, ReadOfEdges
  <2>2. CASE NextPage(c)
    <3>1. pc[c] = "page" /\ job'[c].kind = job[c].kind
      BY <2>2 DEF NextPage, Goto, TypeOK, Job
    <3>2. job'[c].kind = "paging"
      BY <3>1 DEF PageInv
    <3> QED  BY <1>3, <3>2 DEF Read, Exact, Finished
  <2>3. CASE job'[c] = Blank
    <3>1. job'[c].counted = {} /\ job'[c].base = {}
      BY <2>3 DEF Blank
    <3> QED  BY <1>3, <3>1 DEF Read, Exact
  <2> QED  BY <1>3, <2>1, <2>2, <2>3, ReadsNext
<1>4. CASE pc'[c] \notin {"hours", "edges", "done"}
  BY <1>4 DEF Read, Exact, Finished
<1> QED  BY <1>1, <1>2, <1>3, <1>4

LEMMA ReadStep ==
  ASSUME TypeOK, StageInv, BatchInv, RefreshInv, ReadInv, DashboardExact,
         PageInv, NEW c \in Calls, Act(c)
  PROVE  ReadInv' /\ DashboardExact'
<1>1. \A d \in Calls : Read(d)' /\ Exact(d)'
  BY ReadOfStep, ReadOfOthers
<1> QED  BY <1>1, ReadInvIs

-----------------------------------------------------------------------------
(* Pages *)

(* The order of given events; pages of them; what pages still have to show *)
NewerIn(es, e, f) ==
  es[e].at > es[f].at \/ (es[e].at = es[f].at /\ e > f)

Ordered(es, got) ==
  /\ \A i \in 1 .. Len(got) : got[i] \in EventIds /\ es[got[i]] # None
  /\ \A i, j \in 1 .. Len(got) : i < j => NewerIn(es, got[i], got[j])

Shown(e, got) == \E i \in 1 .. Len(got) : got[i] = e

Pending(es, got, base) ==
  \A e \in base :
    /\ e \in EventIds /\ es[e] # None
    /\ got = <<>> \/ NewerIn(es, got[Len(got)], e) \/ Shown(e, got)

(* PageInv of one call *)
Page(c) ==
  /\ pc[c] = "page" => job[c].kind = "paging"
  /\ pc[c] \in {"state", "hours", "edges"} => job[c].kind = "dashboard"
  /\ pc[c] \notin {"page", "done"} => job[c].got = <<>>
  /\ Ordered(events, job[c].got)
  /\ pc[c] = "page" => Pending(events, job[c].got, job[c].base)
  /\ Finished(c, "paging") => \A e \in job[c].base : Shown(e, job[c].got)

LEMMA PageInvIs ==
  /\ PageInv <=> \A c \in Calls : Page(c)
  /\ PageInv' <=> \A c \in Calls : Page(c)'
<1>1. PageInv <=> \A c \in Calls : Page(c)
  BY DEF PageInv, Page, Ordered, Shown, Pending, Newer, NewerIn, Stored
<1>2. PageInv' <=> \A c \in Calls : Page(c)'
  BY DEF PageInv, Page, Ordered, Shown, Pending, Newer, NewerIn, Stored
<1> QED  BY <1>1, <1>2

(* Stored events keep their order. *)
LEMMA OrderKept ==
  ASSUME TypeOK, StageInv, BatchInv, NEW c \in Calls, Act(c),
         NEW got \in Seq(EventIds), Ordered(events, got)
  PROVE  /\ Ordered(events', got)
         /\ \A base \in SUBSET EventIds :
              Pending(events, got, base) => Pending(events', got, base)
<1>1. \A e \in EventIds : events[e] # None =>
        events'[e] # None /\ events'[e].at = events[e].at
  BY EventsKept DEF Stored
<1>2. Ordered(events', got)
  BY <1>1 DEF Ordered, NewerIn
<1>3. ASSUME NEW base \in SUBSET EventIds, Pending(events, got, base),
             NEW e \in base
      PROVE  /\ e \in EventIds /\ events'[e] # None
             /\ \/ got = <<>> \/ NewerIn(events', got[Len(got)], e)
                \/ Shown(e, got)
  <2>1. /\ events[e] # None
        /\ got = <<>> \/ NewerIn(events, got[Len(got)], e) \/ Shown(e, got)
    BY <1>3 DEF Pending
  <2>2. CASE got # <<>> /\ NewerIn(events, got[Len(got)], e)
    <3>1. Len(got) \in 1 .. Len(got)
      BY <2>2, EmptySeq, LenProperties
    <3>2. got[Len(got)] \in EventIds /\ events[got[Len(got)]] # None
      BY <3>1 DEF Ordered
    <3> QED  BY <1>1, <2>1, <2>2, <3>2 DEF NewerIn
  <2> QED  BY <1>1, <2>1, <2>2
<1> QED  BY <1>2, <1>3 DEF Pending

LEMMA PageOfOthers ==
  ASSUME TypeOK, StageInv, BatchInv, PageInv, NEW c \in Calls, Act(c),
         NEW d \in Calls, d # c
  PROVE  Page(d)'
<1>1. pc'[d] = pc[d] /\ job'[d] = job[d]
  BY OthersStay
<1>2. Page(d)
  BY PageInvIs
<1>3. job[d].got \in Seq(EventIds) /\ job[d].base \in SUBSET EventIds
  BY JobFields DEF TypeOK
<1>4. /\ Ordered(events', job[d].got)
      /\ Pending(events, job[d].got, job[d].base) =>
           Pending(events', job[d].got, job[d].base)
  BY <1>2, <1>3, OrderKept DEF Page
<1> QED  BY <1>1, <1>2, <1>4 DEF Page, Finished

(* Only NextPage shows something. *)
LEMMA GotStays ==
  ASSUME TypeOK, StageInv, PageInv, NEW c \in Calls, Act(c), ~NextPage(c)
  PROVE  job'[c].got = <<>>
<1>0. Steps(c)
  BY ActSplit
<1>1. job[c] \in Job /\ job \in [Calls -> Job]
  BY DEF TypeOK
<1>2. CASE BeginBatch(c) \/ BeginDelete(c) \/ BeginRefresh(c)
           \/ BeginDashboard(c) \/ BeginPaging(c)
  <2>1. CASE BeginBatch(c) \/ BeginDelete(c)
    BY <1>1, <2>1, ZenonT(60) DEF Begin, BeginBatch, BeginDelete, Blank
  <2>2. CASE BeginRefresh(c)
    BY <1>1, <2>2 DEF Begin, BeginRefresh, Blank
  <2>3. CASE BeginDashboard(c)
    BY <1>1, <2>3 DEF Begin, BeginDashboard, Blank
  <2>4. CASE BeginPaging(c)
    BY <1>1, <2>4 DEF Begin, BeginPaging, Blank
  <2> QED  BY <1>2, <2>1, <2>2, <2>3, <2>4
<1>3. CASE CommitBatch(c) \/ DeleteAccount(c) \/ RefreshWrite(c) \/ Fails(c)
  BY <1>1, <1>3 DEF CommitBatch, DeleteAccount, RefreshWrite, Fails, Abort,
     Blank
<1>4. CASE \/ ClaimMissing(c) \/ Claim(c) \/ Reject(c) \/ Create(c)
           \/ Duplicate(c) \/ Store(c) \/ DeleteLock(c)
           \/ RefreshSelect(c) \/ RefreshDelete(c) \/ RefreshWait(c)
           \/ DashboardState(c) \/ DashboardHours(c) \/ DashboardEdges(c)
  <2>1. pc[c] \notin {"page", "done"}
    BY <1>4 DEF ClaimMissing, Claim, Reject, Create, Duplicate, Store,
       DeleteLock, RefreshSelect, RefreshDelete, RefreshWait, DashboardState,
       DashboardHours, DashboardEdges, Goto
  <2>2. job'[c].got = job[c].got
    BY <1>1, <1>4 DEF ClaimMissing, Claim, Reject, Create, Duplicate, Store,
       NextEvent, DeleteLock, RefreshSelect, RefreshDelete, RefreshWait,
       DashboardState, DashboardHours, DashboardEdges, Job
  <2> QED  BY <2>1, <2>2 DEF PageInv
<1> QED  BY <1>0, <1>2, <1>3, <1>4 DEF Steps

LEMMA PageOfStep ==
  ASSUME TypeOK, StageInv, PageInv, NEW c \in Calls, Act(c), ~NextPage(c)
  PROVE  Page(c)'
<1>1. job'[c].got = <<>>
  BY GotStays
<1>2. Ordered(events', <<>>)
  BY DEF Ordered
<1>3. Page(c) /\ job[c] \in Job /\ job \in [Calls -> Job]
  BY PageInvIs DEF TypeOK
<1>4. ASSUME pc'[c] = "page"
      PROVE  /\ job'[c].kind = "paging"
             /\ Pending(events', <<>>, job'[c].base)
  <2>1. BeginPaging(c)
    BY <1>4, ReadsNext
  <2>2. /\ job'[c].kind = "paging" /\ job'[c].base = Stored
        /\ events' = events
    BY <1>3, <2>1 DEF BeginPaging, Begin, Blank, rows
  <2> QED  BY <2>2 DEF Pending, Stored
<1>5. ASSUME pc'[c] \in {"state", "hours", "edges"}
      PROVE  job'[c].kind = "dashboard"
  <2>1. BeginDashboard(c) \/ DashboardState(c) \/ DashboardHours(c)
    BY <1>5, ReadsNext
  <2>2. CASE BeginDashboard(c)
    BY <1>3, <2>2 DEF BeginDashboard, Begin, Blank
  <2>3. CASE DashboardState(c) \/ DashboardHours(c)
    <3>1. job'[c].kind = job[c].kind /\ pc[c] \in {"state", "hours"}
      BY <1>3, <2>3 DEF DashboardState, DashboardHours, Goto, Job
    <3> QED  BY <1>3, <3>1 DEF Page
  <2> QED  BY <2>1, <2>2, <2>3
<1>6. ASSUME Finished(c, "paging")'
      PROVE  job'[c].base = {}
  <2>1. pc'[c] = "done" /\ job'[c].kind = "paging"
    BY <1>6 DEF Finished
  <2>2. CASE DashboardEdges(c)
    <3>1. job'[c].kind = job[c].kind /\ pc[c] = "edges"
      BY <1>3, <2>2 DEF DashboardEdges, Goto, Job
    <3> QED  BY <1>3, <2>1, <3>1 DEF Page
  <2>3. CASE job'[c] = Blank
    BY <2>3 DEF Blank
  <2> QED  BY <2>1, <2>2, <2>3, ReadsNext
<1> QED  BY <1>1, <1>2, <1>4, <1>5, <1>6 DEF Page

(* A page continues what has been shown, and leaves out nothing before its
   end; the last one leaves out nothing. *)
LEMMA PageContinues ==
  ASSUME TypeOK, NEW got \in Seq(EventIds), Ordered(events, got),
         NEW behind,
         behind = {f \in Stored : got = <<>> \/ After(f, got[Len(got)])},
         NEW size \in Nat, NEW page \in [1 .. size -> behind],
         page \in Seq(EventIds), Len(page) = size, IsPage(page, behind, size)
  PROVE  Ordered(events, got \o page)
<1> DEFINE all == got \o page
           n   == Len(got)
<1>1. /\ n \in Nat /\ Len(all) = n + size
      /\ \A i \in 1 .. n : all[i] = got[i]
      /\ \A i \in n + 1 .. n + size : all[i] = page[i - n]
      /\ \A i \in n + 1 .. n + size : i - n \in 1 .. size
  <2>1. n \in Nat
    BY LenProperties
  <2>2. \A i \in n + 1 .. n + size : i - n \in 1 .. size /\ ~(i <= n)
    BY <2>1
  <2>3. /\ Len(all) = n + size
        /\ \A i \in 1 .. n + size :
             all[i] = IF i <= n THEN got[i] ELSE page[i - n]
    BY ConcatProperties
  <2> HIDE DEF all, n
  <2> QED  BY <2>1, <2>2, <2>3
<1>2. /\ \A i \in 1 .. n : got[i] \in Stored
      /\ \A i, j \in 1 .. n : i < j => Newer(got[i], got[j])
  BY DEF Ordered, Stored, Newer, NewerIn
<1>3. /\ \A i \in 1 .. size : page[i] \in behind /\ page[i] \in Stored
      /\ \A i, j \in 1 .. size : i < j => Newer(page[i], page[j])
  BY DEF IsPage
<1>4. ASSUME NEW i \in 1 .. n, NEW f \in behind
      PROVE  Newer(got[i], f)
  <2>1. got # <<>> /\ n \in 1 .. n
    BY <1>1, <1>4, EmptySeq
  <2>2. Newer(got[n], f) /\ f \in Stored
    BY <2>1 DEF After
  <2>3. i = n \/ Newer(got[i], got[n])
    BY <1>1, <1>2, <2>1
  <2> QED  BY <1>2, <2>1, <2>2, <2>3, NewerIsOrder
<1> HIDE DEF all, n
<1>5. \A i \in 1 .. Len(all) : all[i] \in Stored
  <2> TAKE i \in 1 .. Len(all)
  <2>1. i \in 1 .. n \/ i \in n + 1 .. n + size
    BY <1>1
  <2> QED  BY <1>1, <1>2, <1>3, <2>1
<1>6. ASSUME NEW i \in 1 .. Len(all), NEW j \in 1 .. Len(all), i < j
      PROVE  Newer(all[i], all[j])
  <2>1. /\ i \in 1 .. n \/ i \in n + 1 .. n + size
        /\ j \in 1 .. n \/ j \in n + 1 .. n + size
    BY <1>1
  <2>2. CASE j \in 1 .. n
    <3>1. i \in 1 .. n
      BY <1>1, <1>6, <2>2
    <3> QED  BY <1>1, <1>2, <1>6, <2>2, <3>1
  <2>3. CASE i \in 1 .. n /\ j \in n + 1 .. n + size
    BY <1>1, <1>3, <1>4, <2>3
  <2>4. CASE i \in n + 1 .. n + size /\ j \in n + 1 .. n + size
    <3>1. i - n \in 1 .. size /\ j - n \in 1 .. size /\ i - n < j - n
      BY <1>1, <1>6, <2>4
    <3>2. Newer(page[i - n], page[j - n])
      BY <1>3, <3>1
    <3> QED  BY <1>1, <2>4, <3>2
  <2> QED  BY <2>1, <2>2, <2>3, <2>4
<1> QED  BY <1>5, <1>6 DEF Ordered, Stored, Newer, NewerIn, all

(* What is behind the cursor is in the page, or behind that. *)
LEMMA PageLeavesBehind ==
  ASSUME TypeOK, NEW got \in Seq(EventIds), NEW base,
         Pending(events, got, base),
         NEW behind,
         behind = {f \in Stored : got = <<>> \/ After(f, got[Len(got)])},
         NEW size \in Nat, NEW page \in [1 .. size -> behind],
         page \in Seq(EventIds), Len(page) = size, IsPage(page, behind, size)
  PROVE  /\ size > 0 => Pending(events, got \o page, base)
         /\ size = Cardinality(behind) =>
              \A e \in base : Shown(e, got \o page)
<1> DEFINE all == got \o page
           n   == Len(got)
<1>1. n \in Nat
  BY LenProperties
<1>2. /\ Len(all) = n + size
      /\ \A i \in 1 .. n + size :
           all[i] = IF i <= n THEN got[i] ELSE page[i - n]
  BY ConcatProperties
<1>3. \A e \in base : e \in Stored /\ (e \in behind \/ Shown(e, got))
  BY DEF Pending, Stored, After, Newer, NewerIn
<1> HIDE DEF all, n
<1>4. \A e : Shown(e, got) => Shown(e, all)
  <2> SUFFICES ASSUME NEW i \in 1 .. n
               PROVE  i \in 1 .. Len(all) /\ all[i] = got[i]
    BY DEF Shown, n
  <2> QED  BY <1>1, <1>2
<1>5. ASSUME NEW i \in 1 .. size
      PROVE  /\ n + i \in 1 .. Len(all) /\ all[n + i] = page[i]
             /\ Shown(page[i], all)
  <2>1. n + i \in 1 .. Len(all) /\ ~(n + i <= n) /\ (n + i) - n = i
    BY <1>1, <1>2
  <2>2. all[n + i] = page[i]
    BY <1>2, <2>1
  <2> QED  BY <2>1, <2>2 DEF Shown
<1>6. ASSUME size > 0
      PROVE  Pending(events, all, base)
  <2>1. size \in 1 .. size /\ n + size = Len(all)
    BY <1>2, <1>6
  <2>2. all[Len(all)] = page[size]
    BY <1>5, <2>1
  <2>3. ASSUME NEW e \in base
        PROVE  Newer(all[Len(all)], e) \/ Shown(e, all)
    <3>1. CASE Shown(e, got)
      BY <1>4, <3>1
    <3>2. CASE e \in behind /\ e \in {page[i] : i \in 1 .. size}
      BY <1>5, <3>2
    <3>3. CASE e \in behind /\ e \notin {page[i] : i \in 1 .. size}
      BY <1>6, <2>2, <3>3 DEF IsPage
    <3> QED  BY <1>3, <3>1, <3>2, <3>3
  <2> QED  BY <1>3, <2>3 DEF Pending, Stored, Newer, NewerIn
<1>7. ASSUME size = Cardinality(behind)
      PROVE  \A e \in behind : Shown(e, all)
  <2>1. behind \subseteq Stored /\ IsFiniteSet(behind)
    BY Places
  <2>2. \A i, j \in 1 .. size : page[i] = page[j] => i = j
    <3> SUFFICES ASSUME NEW i \in 1 .. size, NEW j \in 1 .. size, i < j
                 PROVE  page[i] # page[j]
      OBVIOUS
    <3>1. Newer(page[i], page[j]) /\ page[i] \in Stored
      BY <2>1 DEF IsPage
    <3> QED  BY <3>1, NewerIsOrder
  <2>3. page \in Injection(1 .. size, behind)
    BY <2>2 DEF Injection, IsInjective
  <2>4. IsFiniteSet(1 .. size) /\ Cardinality(1 .. size) = size
    BY FS_Interval
  <2>5. page \in Surjection(1 .. size, behind)
    BY <1>7, <2>1, <2>3, <2>4, FS_Injection
  <2>6. \A e \in behind : \E i \in 1 .. size : page[i] = e
    BY <2>5 DEF Surjection
  <2> QED  BY <1>5, <2>6
<1> QED  BY <1>3, <1>4, <1>6, <1>7 DEF all

LEMMA PageOfNext ==
  ASSUME TypeOK, StageInv, PageInv, NEW c \in Calls, NextPage(c)
  PROVE  Page(c)'
<1> DEFINE got  == job[c].got
           size == PageSizeOf(c)
<1>1. PICK page \in [1 .. size -> Behind(c)] :
        /\ IsPage(page, Behind(c), size)
        /\ page \in Seq(EventIds) /\ Len(page) = size
        /\ job' = [job EXCEPT ![c].got = job[c].got \o page]
        /\ pc' = [pc EXCEPT ![c] =
             IF Cardinality(Behind(c)) > PageSize THEN "page" ELSE "done"]
  BY PageFacts
<1>2. size \in Nat /\ Cardinality(Behind(c)) \in Nat
  BY PageFacts
<1>3. got \in Seq(EventIds) /\ job[c] \in Job /\ job \in [Calls -> Job]
  BY JobFields DEF TypeOK
<1>4. Page(c) /\ pc[c] = "page" /\ events' = events
  BY PageInvIs DEF NextPage, Goto, rows
<1>5. /\ job'[c].got = got \o page /\ job'[c].base = job[c].base
      /\ job'[c].kind = "paging"
  BY <1>1, <1>3, <1>4 DEF Job, Page
<1>6. /\ Ordered(events, got) /\ Pending(events, got, job[c].base)
  BY <1>4 DEF Page
<1>7. Behind(c) = {f \in Stored : got = <<>> \/ After(f, got[Len(got)])}
  BY DEF Behind
<1> HIDE DEF got, size
<1>8. Ordered(events, got \o page)
  BY <1>1, <1>2, <1>3, <1>6, <1>7, PageContinues
<1>9. /\ size > 0 => Pending(events, got \o page, job[c].base)
      /\ size = Cardinality(Behind(c)) =>
           \A e \in job[c].base : Shown(e, got \o page)
  BY <1>1, <1>2, <1>3, <1>6, <1>7, PageLeavesBehind
<1>10. /\ Cardinality(Behind(c)) > PageSize => size > 0
       /\ ~(Cardinality(Behind(c)) > PageSize) => size = Cardinality(Behind(c))
  BY <1>2, AnalyticsConstants DEF size, PageSizeOf
<1>11. CASE Cardinality(Behind(c)) > PageSize
  <2>1. pc'[c] = "page"
    BY <1>1, <1>11 DEF TypeOK
  <2> QED  BY <1>4, <1>5, <1>8, <1>9, <1>10, <1>11, <2>1 DEF Page, Finished
<1>12. CASE ~(Cardinality(Behind(c)) > PageSize)
  <2>1. pc'[c] = "done"
    BY <1>1, <1>12 DEF TypeOK
  <2> QED  BY <1>4, <1>5, <1>8, <1>9, <1>10, <1>12, <2>1 DEF Page, Finished
<1> QED  BY <1>11, <1>12

LEMMA PageStep ==
  ASSUME TypeOK, StageInv, BatchInv, PageInv, NEW c \in Calls, Act(c)
  PROVE  PageInv'
<1>1. \A d \in Calls : Page(d)'
  BY PageOfStep, PageOfNext, PageOfOthers
<1> QED  BY <1>1, PageInvIs

-----------------------------------------------------------------------------
(* The invariant *)

LEMMA InitInv == Init => IInv
<1> SUFFICES ASSUME Init
             PROVE  IInv
  OBVIOUS
<1>1. /\ \A c \in Calls : pc[c] = "idle" /\ job[c] = Blank
      /\ \A c \in Calls : tx[c] = Clean /\ save[c] = Clean
      /\ \A e \in EventIds : events[e] = None
      /\ \A s \in SessionIds : sessions[s] = None
      /\ hourly = {} /\ users = Users
  BY DEF Init
<1>2. /\ Blank.got = <<>> /\ Blank.accepted = {}
  BY DEF Blank
<1>3. TypeOK
  <2>1. job \in [Calls -> Job]
    BY BlankJob DEF Init
  <2>2. tx \in [Calls -> Transaction] /\ save \in [Calls -> Transaction]
    BY CleanTransaction DEF Init
  <2>3. state \in Times \cup {None}
    BY AnalyticsConstants, Constants DEF Init
  <2>4. overlapped \in BOOLEAN
    BY DEF Init
  <2> QED  BY <2>1, <2>2, <2>3, <2>4 DEF Init, TypeOK
<1>4. SessionsMatchEvents
  BY <1>1, <1>3 DEF SessionsMatchEvents, Stored
<1>5. StageInv
  BY <1>1 DEF StageInv, Batching
<1>6. BatchInv
  <2>1. \A c \in Calls : Batch(c)
    BY <1>1, CleanOwns DEF Batch, Batching
  <2> QED  BY <2>1, BatchInvIs
<1>7. Exclusive /\ ShareInv /\ UsersInv
  BY <1>1, CleanIsEmpty DEF Exclusive, ShareInv, UsersInv, Stored
<1>8. RefreshInv
  BY <1>1 DEF RefreshInv, Refreshing
<1>9. ReadInv /\ DashboardExact
  BY <1>1 DEF ReadInv, DashboardExact, Finished
<1>10. PageInv
  BY <1>1, <1>2 DEF PageInv, Finished
<1> QED  BY <1>4, <1>5, <1>6, <1>7, <1>8, <1>9, <1>10 DEF IInv

LEMMA StepInv ==
  ASSUME IInv, [Next]_vars
  PROVE  IInv'
<1>1. CASE Next
  <2>1. PICK c \in Calls : Act(c)
    BY <1>1 DEF Next, Act
  <2>2. TypeOK
    BY DEF IInv, SessionsMatchEvents
  <2>3. SessionsMatchEvents'
    BY <2>1, MatchStep DEF IInv
  <2>4. StageInv'
    BY <2>1, <2>2, StageStep DEF IInv
  <2>5. BatchInv'
    BY <2>1, <2>2, BatchStep DEF IInv
  <2>6. Exclusive'
    BY <2>1, <2>2, ExclusiveStep DEF IInv
  <2>7. ShareInv'
    BY <2>1, <2>2, ShareStep DEF IInv
  <2>8. UsersInv'
    BY <2>1, <2>2, UsersStep DEF IInv
  <2>9. RefreshInv'
    BY <2>1, <2>2, RefreshStep DEF IInv
  <2>10. ReadInv' /\ DashboardExact'
    BY <2>1, <2>2, ReadStep DEF IInv
  <2>11. PageInv'
    BY <2>1, <2>2, PageStep DEF IInv
  <2> QED  BY <2>3, <2>4, <2>5, <2>6, <2>7, <2>8, <2>9, <2>10, <2>11 DEF IInv
<1>2. CASE UNCHANGED vars
  <2>1. /\ users' = users /\ events' = events /\ sessions' = sessions
        /\ hourly' = hourly /\ state' = state /\ overlapped' = overlapped
        /\ pc' = pc /\ job' = job /\ tx' = tx /\ save' = save
    BY <1>2 DEF vars, rows
  <2>2. SessionsMatchEvents'
    BY <2>1 DEF IInv, SessionsMatchEvents, TypeOK, Stored
  <2>3. StageInv'
    BY <2>1, ZenonT(60) DEF IInv, StageInv, Claimed, HasEvent, Event
  <2>4. BatchInv'
    <3>1. \A c \in Calls : Batch(c)
      BY BatchInvIs DEF IInv
    <3>2. \A c \in Calls : Batch(c)'
      BY <2>1, <3>1 DEF Batch
    <3> QED  BY <3>2, BatchInvIs
  <2>5. Exclusive' /\ ShareInv' /\ UsersInv'
    BY <2>1 DEF IInv, Exclusive, ShareInv, UsersInv, Stored
  <2>6. RefreshInv'
    BY <2>1 DEF IInv, RefreshInv, Refreshing, Aggregated, Stored
  <2>7. ReadInv' /\ DashboardExact'
    BY <2>1 DEF IInv, ReadInv, DashboardExact, Finished, InRange, Aggregated,
       Stored
  <2>8. PageInv'
    BY <2>1 DEF IInv, PageInv, Finished, Newer, Stored
  <2> QED  BY <2>2, <2>3, <2>4, <2>5, <2>6, <2>7, <2>8 DEF IInv
<1> QED  BY <1>1, <1>2

LEMMA Invariance == Spec => []IInv
<1>1. Init => IInv
  BY InitInv
<1>2. IInv /\ [Next]_vars => IInv'
  BY StepInv
<1> QED  BY <1>1, <1>2, PTL DEF Spec

(* Each stored event has its session, of its user if it has one; each session
   has an event, and was active last when the latest of them occurred: however
   batches, savepoints, failures and the deletion of accounts interleave. *)
THEOREM SessionsMatchEventsHolds == Spec => []SessionsMatchEvents
<1>1. IInv => SessionsMatchEvents
  BY DEF IInv
<1> QED  BY <1>1, Invariance, PTL

(* A batch that is about to commit, and answer, has or finds every event it
   reports as accepted, and no row names a deleted account. *)
THEOREM AcceptedIsStoredHolds == Spec => []AcceptedIsStored
<1>1. IInv => AcceptedIsStored
  <2> SUFFICES ASSUME IInv
               PROVE  AcceptedIsStored
    OBVIOUS
  <2>1. ASSUME NEW c \in Calls, pc[c] = "commit", NEW e \in job[c].accepted
        PROVE  Exists(c, e)
    <3>1. tx[c] = save[c] /\ pc[c] \in Batching
      BY <2>1 DEF IInv, StageInv, Batching
    <3>2. events[e] # None \/ save[c].events[e] # None
      BY <2>1, <3>1 DEF IInv, BatchInv
    <3> QED  BY <3>1, <3>2 DEF Exists
  <2> QED  BY <2>1 DEF IInv, UsersInv, AcceptedIsStored
<1> QED  BY <1>1, Invariance, PTL

(* A dashboard counts what lies in its range, and while aggregations do not
   overlap, each event that had been aggregated once: for every length of an
   hour and every range, whatever is aggregated while it reads. *)
THEOREM DashboardExactHolds == Spec => []DashboardExact
<1>1. IInv => DashboardExact
  BY DEF IInv
<1> QED  BY <1>1, Invariance, PTL

(* Pages of every size show each event that was there before the first, and
   none twice, whatever is stored between two of them. *)
THEOREM PagesShowEachOnceHolds == Spec => []PagesShowEachOnce
<1>1. IInv => PagesShowEachOnce
  <2> SUFFICES ASSUME IInv, NEW c \in Calls
               PROVE  /\ \A i, j \in DOMAIN job[c].got :
                           i # j => job[c].got[i] # job[c].got[j]
                      /\ Finished(c, "paging") =>
                           job[c].base \subseteq
                             {job[c].got[i] : i \in DOMAIN job[c].got}
    BY DEF PagesShowEachOnce
  <2> DEFINE got == job[c].got
  <2>1. TypeOK /\ Page(c)
    BY PageInvIs DEF IInv, SessionsMatchEvents
  <2>2. got \in Seq(EventIds) /\ DOMAIN got = 1 .. Len(got)
        /\ Len(got) \in Nat
    BY <2>1, JobFields, LenProperties DEF TypeOK
  <2>3. ASSUME NEW i \in 1 .. Len(got), NEW j \in 1 .. Len(got), i < j
        PROVE  got[i] # got[j]
    <3>1. Newer(got[i], got[j]) /\ got[i] \in Stored
      BY <2>1, <2>3 DEF Page, Ordered, NewerIn, Newer, Stored
    <3> QED  BY <2>1, <3>1, NewerIsOrder
  <2>4. Finished(c, "paging") =>
          \A e \in job[c].base : \E i \in 1 .. Len(got) : got[i] = e
    BY <2>1 DEF Page, Shown
  <2> HIDE DEF got
  <2>5. \A i, j \in 1 .. Len(got) : i # j => got[i] # got[j]
    BY <2>2, <2>3
  <2> QED  BY <2>2, <2>4, <2>5 DEF got
<1> QED  BY <1>1, Invariance, PTL

=============================================================================
