------------------------ MODULE ReportContentsProofs ------------------------
(***************************************************************************)
(* What holds of ReportContents for every set of answers, every number of  *)
(* requests and of evidences, whatever the model cites and however it      *)
(* scores.                                                                 *)
(*                                                                         *)
(* IInv is the inductive invariant: what is cited was retrieved for the    *)
(* report and is there (CitedInv), and what is stored is the field that    *)
(* its section accepted, sanitized, or empty (MadeInv).  The rest is about *)
(* data: Listed is a list in the given order, shown by counting (Places,   *)
(* ListedInOrder), and from it follow what is kept of a list, ranked,      *)
(* cited and counted.                                                      *)
(***************************************************************************)
EXTENDS ReportContents, FiniteSetTheorems, SequenceTheorems,
        WellFoundedInduction, TLAPS

-----------------------------------------------------------------------------
(* Lists in an order *)

Orders(R, S) ==
  /\ \A x \in S : <<x, x>> \notin R
  /\ \A x, y \in S : x # y => <<x, y>> \in R \/ <<y, x>> \in R
  /\ \A x, y, z \in S : <<x, y>> \in R /\ <<y, z>> \in R => <<x, z>> \in R

(* What comes before x in S *)
Ahead(S, R, x) == {y \in S : <<y, x>> \in R}
Place(S, R, x) == Cardinality(Ahead(S, R, x))

(* Whoever comes later has more ahead. *)
LEMMA AheadGrows ==
  ASSUME NEW S, IsFiniteSet(S), NEW R, Orders(R, S),
         NEW x \in S, NEW y \in S, <<x, y>> \in R
  PROVE  Place(S, R, x) < Place(S, R, y)
<1>1. /\ Ahead(S, R, x) \subseteq Ahead(S, R, y)
      /\ x \in Ahead(S, R, y) \ Ahead(S, R, x)
  BY DEF Ahead, Orders
<1>2. IsFiniteSet(Ahead(S, R, x)) /\ IsFiniteSet(Ahead(S, R, y))
  BY FS_Subset DEF Ahead
<1>3. /\ Cardinality(Ahead(S, R, x)) <= Cardinality(Ahead(S, R, y))
      /\ Cardinality(Ahead(S, R, x)) # Cardinality(Ahead(S, R, y))
  BY <1>1, <1>2, FS_Subset
<1> QED  BY <1>2, <1>3, FS_CardinalityType DEF Place

(* Different members have different places, and every place is taken. *)
LEMMA Places ==
  ASSUME NEW S, IsFiniteSet(S), NEW R, Orders(R, S)
  PROVE  /\ \A x \in S : Place(S, R, x) \in 0 .. Cardinality(S) - 1
         /\ \A x, y \in S :
              <<x, y>> \in R <=> Place(S, R, x) < Place(S, R, y)
         /\ \A n \in 0 .. Cardinality(S) - 1 :
              \E x \in S : Place(S, R, x) = n
<1>1. Cardinality(S) \in Nat
  BY FS_CardinalityType
<1>2. ASSUME NEW x \in S
      PROVE  Place(S, R, x) \in 0 .. Cardinality(S) - 1
  <2>1. Ahead(S, R, x) \subseteq S /\ x \notin Ahead(S, R, x)
    BY DEF Ahead, Orders
  <2>2. /\ IsFiniteSet(Ahead(S, R, x)) /\ Place(S, R, x) <= Cardinality(S)
        /\ Cardinality(S) # Place(S, R, x)
    BY <2>1, FS_Subset DEF Place
  <2>3. Place(S, R, x) \in Nat
    BY <2>2, FS_CardinalityType DEF Place
  <2> QED  BY <1>1, <2>2, <2>3
<1>3. ASSUME NEW x \in S, NEW y \in S
      PROVE  <<x, y>> \in R <=> Place(S, R, x) < Place(S, R, y)
  <2>1. Place(S, R, x) \in Int /\ Place(S, R, y) \in Int
    BY <1>2
  <2>2. <<x, y>> \in R => Place(S, R, x) < Place(S, R, y)
    BY AheadGrows
  <2>3. <<y, x>> \in R => Place(S, R, y) < Place(S, R, x)
    BY AheadGrows
  <2>4. x = y \/ <<x, y>> \in R \/ <<y, x>> \in R
    BY DEF Orders
  <2> QED  BY <2>1, <2>2, <2>3, <2>4
<1>4. \A n \in 0 .. Cardinality(S) - 1 : \E x \in S : Place(S, R, x) = n
  <2> DEFINE N == 0 .. Cardinality(S) - 1
             p == [x \in S |-> Place(S, R, x)]
  <2>1. p \in [S -> N]
    BY <1>2
  <2>2. ASSUME NEW x \in S, NEW y \in S, p[x] = p[y]
        PROVE  x = y
    <3>1. Place(S, R, x) = Place(S, R, y) /\ Place(S, R, x) \in Nat
      BY <1>2, <2>2
    <3>2. <<x, y>> \notin R /\ <<y, x>> \notin R
      BY <1>3, <3>1
    <3> QED  BY <3>2 DEF Orders
  <2>3. p \in Injection(S, N)
    BY <2>1, <2>2 DEF Injection, IsInjective
  <2>4. IsFiniteSet(N) /\ Cardinality(N) = Cardinality(S)
    BY <1>1, FS_Interval
  <2>5. p \in Surjection(S, N)
    BY <2>3, <2>4, FS_Injection
  <2> QED  BY <2>5 DEF Surjection
<1> QED  BY <1>2, <1>3, <1>4

(* Listed puts each member of S in one place, and in the order. *)
LEMMA ListedInOrder ==
  ASSUME NEW S, IsFiniteSet(S), NEW R, Orders(R, S)
  PROVE  /\ Cardinality(S) \in Nat
         /\ Listed(S, R) \in [1 .. Cardinality(S) -> S]
         /\ \A m, n \in 1 .. Cardinality(S) :
              m < n => <<Listed(S, R)[m], Listed(S, R)[n]>> \in R
         /\ \A x \in S :
              \E n \in 1 .. Cardinality(S) : Listed(S, R)[n] = x
<1> DEFINE N == 1 .. Cardinality(S)
           At(n) == CHOOSE x \in S : Place(S, R, x) = n - 1
<1>1. Cardinality(S) \in Nat
  BY FS_CardinalityType
<1>2. Listed(S, R) = [n \in N |-> At(n)]
  BY DEF Listed, Place, Ahead
<1>3. ASSUME NEW n \in N
      PROVE  At(n) \in S /\ Place(S, R, At(n)) = n - 1
  <2>1. n - 1 \in 0 .. Cardinality(S) - 1
    BY <1>1
  <2>2. \E x \in S : Place(S, R, x) = n - 1
    BY <2>1, Places
  <2> QED  BY <2>2
<1> HIDE DEF At
<1>4. \A n \in N : Listed(S, R)[n] = At(n)
  BY <1>2
<1>5. Listed(S, R) \in [N -> S]
  BY <1>2, <1>3
<1>6. ASSUME NEW m \in N, NEW n \in N, m < n
      PROVE  <<Listed(S, R)[m], Listed(S, R)[n]>> \in R
  <2>1. Place(S, R, At(m)) < Place(S, R, At(n))
    BY <1>1, <1>3, <1>6
  <2> QED  BY <1>3, <1>4, <2>1, Places
<1>7. ASSUME NEW x \in S
      PROVE  \E n \in N : Listed(S, R)[n] = x
  <2> DEFINE n == Place(S, R, x) + 1
  <2>1. Place(S, R, x) \in 0 .. Cardinality(S) - 1
    BY Places
  <2>2. n \in N /\ n - 1 = Place(S, R, x)
    BY <1>1, <2>1
  <2>3. At(n) \in S /\ Place(S, R, At(n)) = Place(S, R, x)
    BY <1>3, <2>2
  <2>4. <<At(n), x>> \notin R /\ <<x, At(n)>> \notin R
    BY <2>1, <2>3, Places
  <2>5. At(n) = x
    BY <2>3, <2>4 DEF Orders
  <2> QED  BY <1>4, <2>2, <2>5
<1> QED  BY <1>1, <1>5, <1>6, <1>7

(* A function on 1 .. n is a list. *)
LEMMA ListFromFunction ==
  ASSUME NEW T, NEW n \in Nat, NEW f \in [1 .. n -> T]
  PROVE  f \in Seq(T) /\ Len(f) = n /\ DOMAIN f = 1 .. n
<1>1. f \in Seq(T)
  OBVIOUS
<1>2. DOMAIN f = 1 .. n /\ DOMAIN f = 1 .. Len(f) /\ Len(f) \in Nat
  BY <1>1, LenProperties
<1> QED  BY <1>1, <1>2

(* The positions of a list are finitely many, and in order. *)
LEMMA Positions ==
  ASSUME NEW T, NEW s \in Seq(T), NEW S \in SUBSET DOMAIN s
  PROVE  /\ IsFiniteSet(S) /\ S \subseteq Nat
         /\ Orders({p \in S \X S : p[1] < p[2]}, S)
<1>1. DOMAIN s = 1 .. Len(s) /\ Len(s) \in Nat
  BY LenProperties
<1>2. IsFiniteSet(1 .. Len(s))
  BY <1>1, FS_Interval
<1>3. S \subseteq Nat
  BY <1>1
<1>4. \A x, y \in S : <<x, y>> \in {p \in S \X S : p[1] < p[2]} <=> x < y
  OBVIOUS
<1>5. Orders({p \in S \X S : p[1] < p[2]}, S)
  BY <1>3, <1>4 DEF Orders
<1> QED  BY <1>1, <1>2, <1>3, <1>5, FS_Subset

(* What is kept of a list is a list of what stands at the positions. *)
LEMMA KeptElements ==
  ASSUME NEW T, NEW s \in Seq(T), NEW S \in SUBSET DOMAIN s
  PROVE  /\ Kept(s, S) \in Seq(T) /\ Len(Kept(s, S)) = Cardinality(S)
         /\ ToSet(Kept(s, S)) = {s[i] : i \in S}
<1> DEFINE R == {p \in S \X S : p[1] < p[2]}
           N == 1 .. Cardinality(S)
<1>1. IsFiniteSet(S) /\ Orders(R, S)
  BY Positions
<1> HIDE DEF R
<1>2. /\ Cardinality(S) \in Nat
      /\ Listed(S, R) \in [N -> S]
      /\ \A x \in S : \E n \in N : Listed(S, R)[n] = x
  BY <1>1, ListedInOrder
<1>3. Kept(s, S) = [n \in N |-> s[Listed(S, R)[n]]]
  BY <1>2 DEF Kept, R
<1>4. \A i \in S : s[i] \in T
  BY ElementOfSeq, LenProperties
<1>5. Kept(s, S) \in [N -> T]
  BY <1>2, <1>3, <1>4
<1>6. Kept(s, S) \in Seq(T) /\ Len(Kept(s, S)) = Cardinality(S)
  BY <1>2, <1>5, ListFromFunction
<1>7. ToSet(Kept(s, S)) = {s[i] : i \in S}
  <2>1. DOMAIN Kept(s, S) = N
    BY <1>2, <1>5, ListFromFunction
  <2>2. \A n \in N : Kept(s, S)[n] = s[Listed(S, R)[n]]
    BY <1>3
  <2>3. \A n \in N : \E i \in S : Kept(s, S)[n] = s[i]
    BY <1>2, <2>2
  <2>4. \A i \in S : \E n \in N : Kept(s, S)[n] = s[i]
    BY <1>2, <2>2
  <2> QED  BY <2>1, <2>3, <2>4 DEF ToSet
<1> QED  BY <1>6, <1>7

-----------------------------------------------------------------------------
(* Citations *)

Lists(section, items) ==
  [n \in 0 .. Len(items) |->
     IF n = 0 THEN section.evidenceIds
     ELSE items[n].ids["evidenceIds"] \o items[n].ids["evidence_ids"]]

Mentions(section, items) ==
  LET lists == Lists(section, items)
  IN  UNION {{n} \X DOMAIN lists[n] : n \in DOMAIN lists}

Precedes(p, q) == p[1] < q[1] \/ (p[1] = q[1] /\ p[2] < q[2])

(* A section mentions finitely many ids, each in a place of its list. *)
LEMMA MentionsFinite ==
  ASSUME NEW section \in [evidenceIds: Seq(Int), items: Seq(Item)],
         NEW items \in Seq(Item)
  PROVE  /\ IsFiniteSet(Mentions(section, items))
         /\ Mentions(section, items) \subseteq Nat \X Nat
<1> DEFINE D == 0 .. Len(items)
           lists == Lists(section, items)
           f == [n \in D |-> {n} \X DOMAIN lists[n]]
           F == {f[n] : n \in D}
<1>1. Len(items) \in Nat /\ D \subseteq Nat /\ IsFiniteSet(D)
  BY LenProperties, FS_Interval
<1>2. ASSUME NEW n \in D
      PROVE  /\ DOMAIN lists[n] \subseteq Nat
             /\ IsFiniteSet(f[n])
  <2>1. ASSUME n # 0
        PROVE  /\ items[n].ids["evidenceIds"] \in Seq(Int)
               /\ items[n].ids["evidence_ids"] \in Seq(Int)
    <3>1. items[n] \in Item
      BY <1>1, <2>1, ElementOfSeq
    <3> QED  BY <3>1 DEF Item, IdKeys
  <2>2. lists[n] \in Seq(Int)
    BY <2>1, ConcatProperties DEF Lists
  <2>3. f[n] = {n} \X DOMAIN lists[n]
    OBVIOUS
  <2> HIDE DEF lists, f
  <2>4. DOMAIN lists[n] = 1 .. Len(lists[n]) /\ Len(lists[n]) \in Nat
    BY <2>2, LenProperties
  <2>5. IsFiniteSet(DOMAIN lists[n]) /\ IsFiniteSet({n})
    <3>1. IsFiniteSet(1 .. Len(lists[n]))
      BY <2>4, FS_Interval
    <3> QED  BY <2>4, <3>1, FS_Singleton
  <2>6. IsFiniteSet({n} \X DOMAIN lists[n])
    BY <2>5, FS_Product
  <2> QED  BY <2>3, <2>4, <2>6
<1>3. f \in Surjection(D, F)
  BY DEF Surjection
<1>4. IsFiniteSet(F)
  BY <1>1, <1>3, FS_Surjection
<1>5. IsFiniteSet(UNION F)
  BY <1>2, <1>4, FS_UNION
<1>6. Mentions(section, items) = UNION F
  BY DEF Mentions, Lists
<1>7. \A n \in D : f[n] \subseteq Nat \X Nat
  BY <1>1, <1>2
<1> QED  BY <1>5, <1>6, <1>7

(* A pair of two is equal to another by its components. *)
LEMMA PairsEqual ==
  ASSUME NEW p \in Nat \X Nat, NEW q \in Nat \X Nat,
         p[1] = q[1], p[2] = q[2]
  PROVE  p = q
OBVIOUS

(* What is cited is allowed. *)
LEMMA CitedAllowed ==
  ASSUME NEW section \in [evidenceIds: Seq(Int), items: Seq(Item)],
         NEW items \in Seq(Item), NEW allowed
  PROVE  Cited(section, items, allowed) \in Seq(allowed)
<1> DEFINE lists == Lists(section, items)
           mentions == Mentions(section, items)
           Id(p) == lists[p[1]][p[2]]
           cited == {p \in mentions :
                       /\ Id(p) \in allowed
                       /\ \A q \in mentions :
                            Precedes(q, p) => Id(q) # Id(p)}
           R == {p \in cited \X cited : Precedes(p[1], p[2])}
           N == 1 .. Cardinality(cited)
<1>1. IsFiniteSet(cited) /\ cited \subseteq Nat \X Nat
  BY MentionsFinite, FS_Subset
<1>2. \A p \in cited : Id(p) \in allowed
  OBVIOUS
<1>3. Cited(section, items, allowed) =
        [n \in DOMAIN Listed(cited, R) |-> Id(Listed(cited, R)[n])]
  BY DEF Cited, Precedes, Mentions, Lists
<1> HIDE DEF cited
<1>4. Orders(R, cited)
  <2>1. \A p, q \in cited : <<p, q>> \in R <=> Precedes(p, q)
    OBVIOUS
  <2> HIDE DEF R
  <2>2. \A p \in cited : p[1] \in Nat /\ p[2] \in Nat
    BY <1>1
  <2>3. \A p, q \in cited : p # q => p[1] # q[1] \/ p[2] # q[2]
    BY <1>1, PairsEqual
  <2>4. \A p, q \in cited : p # q => Precedes(p, q) \/ Precedes(q, p)
    BY <2>2, <2>3 DEF Precedes
  <2>5. \A p \in cited : ~Precedes(p, p)
    BY <2>2 DEF Precedes
  <2>6. \A p, q, r \in cited :
          Precedes(p, q) /\ Precedes(q, r) => Precedes(p, r)
    BY <2>2 DEF Precedes
  <2> QED  BY <2>1, <2>4, <2>5, <2>6, Zenon DEF Orders
<1>5. Cardinality(cited) \in Nat /\ Listed(cited, R) \in [N -> cited]
  BY <1>1, <1>4, ListedInOrder
<1> HIDE DEF Id, R
<1>6. Cited(section, items, allowed) \in [N -> allowed]
  BY <1>2, <1>3, <1>5
<1> QED  BY <1>5, <1>6, ListFromFunction

(* A list of ids without those that are not allowed *)
LEMMA ValidIds ==
  ASSUME NEW ids \in Seq(Int), NEW allowed
  PROVE  /\ Valid(ids, allowed) \in Seq(Int)
         /\ ToSet(Valid(ids, allowed)) \subseteq allowed
         /\ ids = <<>> => Valid(ids, allowed) = <<>>
<1> DEFINE P == {i \in Firsts(ids) : ids[i] \in allowed}
<1>1. P \in SUBSET DOMAIN ids
  BY DEF Firsts
<1>2. /\ Kept(ids, P) \in Seq(Int) /\ Len(Kept(ids, P)) = Cardinality(P)
      /\ ToSet(Kept(ids, P)) = {ids[i] : i \in P}
  BY <1>1, KeptElements
<1>3. ids = <<>> => P = {}
  BY <1>1
<1>4. ids = <<>> => Kept(ids, P) = <<>>
  BY <1>2, <1>3, FS_EmptySet, EmptySeq
<1>5. ToSet(Kept(ids, P)) \subseteq allowed
  BY <1>2
<1> QED  BY <1>2, <1>4, <1>5 DEF Valid

(* x is item y of section k without the ids that are not allowed. *)
Cleaned(k, x, y, allowed) ==
  /\ x.at = y.at /\ x.rank = y.rank
  /\ x.observed = y.observed /\ x.required = y.required
  /\ x.parts = y.parts /\ x.weights = y.weights
  /\ \A q \in IdKeys :
       ToSet(x.ids[q]) \subseteq allowed /\ (y.ids[q] = <<>> => x.ids[q] = <<>>)
  /\ x.score = IF Unsubstantiated(k, y, x.ids) THEN None ELSE y.score

LEMMA SanitizedItems ==
  ASSUME NEW k, NEW items \in Seq(Item), NEW allowed
  PROVE  LET S == Sanitized(k, items, allowed)
         IN  /\ S \in Seq(Item) /\ DOMAIN S = DOMAIN items
             /\ \A n \in DOMAIN items : Cleaned(k, S[n], items[n], allowed)
<1> DEFINE Ids(n) == [q \in IdKeys |-> Valid(items[n].ids[q], allowed)]
           New(n) ==
             [items[n] EXCEPT
                !.ids = Ids(n),
                !.score = IF Unsubstantiated(k, items[n], Ids(n))
                          THEN None ELSE @]
           S == Sanitized(k, items, allowed)
<1>1. S = [n \in DOMAIN items |-> New(n)]
  BY DEF Sanitized
<1>2. Len(items) \in Nat /\ DOMAIN items = 1 .. Len(items)
  BY LenProperties
<1>3. ASSUME NEW n \in DOMAIN items
      PROVE  /\ items[n] \in Item /\ Ids(n) \in [IdKeys -> Seq(Int)]
             /\ \A q \in IdKeys :
                  /\ ToSet(Ids(n)[q]) \subseteq allowed
                  /\ items[n].ids[q] = <<>> => Ids(n)[q] = <<>>
  <2>1. items[n] \in Item
    BY <1>2, ElementOfSeq
  <2>2. \A q \in IdKeys : items[n].ids[q] \in Seq(Int)
    BY <2>1 DEF Item
  <2>3. \A q \in IdKeys :
          /\ Valid(items[n].ids[q], allowed) \in Seq(Int)
          /\ ToSet(Valid(items[n].ids[q], allowed)) \subseteq allowed
          /\ items[n].ids[q] = <<>> => Valid(items[n].ids[q], allowed) = <<>>
    BY <2>2, ValidIds
  <2> QED  BY <2>1, <2>3
<1> HIDE DEF Ids
<1>4. ASSUME NEW n \in DOMAIN items
      PROVE  /\ New(n) \in Item
             /\ New(n).ids = Ids(n)
             /\ New(n).at = items[n].at /\ New(n).rank = items[n].rank
             /\ New(n).observed = items[n].observed
             /\ New(n).required = items[n].required
             /\ New(n).parts = items[n].parts
             /\ New(n).weights = items[n].weights
             /\ New(n).score = IF Unsubstantiated(k, items[n], Ids(n))
                               THEN None ELSE items[n].score
  BY <1>3 DEF Item
<1> HIDE DEF New
<1>5. S \in [1 .. Len(items) -> Item]
  BY <1>1, <1>2, <1>4
<1>6. S \in Seq(Item) /\ DOMAIN S = DOMAIN items
  BY <1>2, <1>5, ListFromFunction
<1>7. \A n \in DOMAIN items : S[n] = New(n)
  BY <1>1
<1> HIDE DEF S
<1>8. \A n \in DOMAIN items : Cleaned(k, S[n], items[n], allowed)
  BY <1>3, <1>4, <1>7 DEF Cleaned
<1> QED  BY <1>6, <1>8 DEF S

-----------------------------------------------------------------------------
(* Rankings *)

(* x is ranked before y. *)
Above(x, y) == x.score > y.score \/ (x.score = y.score /\ x.at < y.at)

(* x is item y of an answer, scored and repaired. *)
MadeOf(x, y) ==
  /\ x.at = y.at /\ x.ids = y.ids
  /\ x.observed = y.observed /\ x.required = y.required

(* What ReportConstants says of a section of an answer *)
LEMMA AnswerItems ==
  ASSUME NEW a \in Answers, NEW k \in Keys
  PROVE  /\ a[k] \in [evidenceIds: Seq(Int), items: Seq(Item)]
         /\ a[k].items \in Seq(Item)
         /\ Len(a[k].items) \in Nat /\ DOMAIN a[k].items = 1 .. Len(a[k].items)
         /\ \A n \in DOMAIN a[k].items :
              /\ a[k].items[n] \in Item /\ a[k].items[n].at = n
              /\ k = Target => Len(a[k].items[n].parts) \in {0, 4}
<1>1. a[k] \in [evidenceIds: Seq(Int), items: Seq(Item)]
  BY ReportConstants
<1>2. a[k].items \in Seq(Item)
  BY <1>1
<1>3. Len(a[k].items) \in Nat /\ DOMAIN a[k].items = 1 .. Len(a[k].items)
  BY <1>2, LenProperties
<1>4. \A n \in DOMAIN a[k].items : a[k].items[n] \in Item
  BY <1>2, <1>3, ElementOfSeq
<1>5. \A n \in DOMAIN a[k].items :
        /\ a[k].items[n].at = n
        /\ k = Target => Len(a[k].items[n].parts) \in {0, 4}
  BY ReportConstants
<1> QED  BY <1>1, <1>2, <1>3, <1>4, <1>5

(* A segment remains an item of its place when it is scored, *)
LEMMA SegmentItem ==
  ASSUME NEW x \in Item, Len(x.parts) \in {0, 4}
  PROVE  ScoredSegment(x) \in Item /\ MadeOf(ScoredSegment(x), x)
<1>1. CASE ~Numeric(x.parts)
  BY <1>1 DEF ScoredSegment, MadeOf
<1>2. CASE Numeric(x.parts)
  <2>1. x.parts \in Seq(Int \cup {Text, None}) /\ x.parts # <<>>
    BY <1>2 DEF Item, Numeric
  <2>2. Len(x.parts) = 4 /\ DOMAIN x.parts = 1 .. 4
    BY <2>1, EmptySeq, LenProperties
  <2>3. \A i \in {1, 2, 3, 4} : x.parts[i] \in Int
    BY <1>2, <2>2 DEF Numeric
  <2>4. Priority(x.parts) \in Int
    <3>1. /\ x.parts[1] \in Int /\ x.parts[2] \in Int
          /\ x.parts[3] \in Int /\ x.parts[4] \in Int
      BY <2>3
    <3>2. \A p, q, r, t \in Int :
            p * 35 + q * 35 + r * 20 + (100 - t) * 10 \in Int
      OBVIOUS
    <3> QED  BY <3>1, <3>2, Zenon DEF Priority
  <2>5. ScoredSegment(x) = [x EXCEPT !.score = Priority(x.parts)]
    BY <1>2 DEF ScoredSegment
  <2> HIDE DEF Priority
  <2> QED  BY <2>4, <2>5 DEF Item, MadeOf
<1> QED  BY <1>1, <1>2

(* and so does a platform when it is scored and repaired. *)
LEMMA PlatformItem ==
  ASSUME NEW x \in Item
  PROVE  /\ Repaired(ScoredPlatform(x)) \in Item
         /\ MadeOf(Repaired(ScoredPlatform(x)), x)
<1> DEFINE y == ScoredPlatform(x)
<1>1. y \in Item /\ MadeOf(y, x)
  <2>1. CASE Numeric(x.parts) /\ x.weights # None
    <3>1. x.parts \in Seq(Int \cup {Text, None}) /\ x.parts # <<>>
      BY <2>1 DEF Item, Numeric
    <3>2. 1 \in DOMAIN x.parts
      BY <3>1, EmptySeq, LenProperties
    <3>3. x.parts[1] \in Int /\ x.weights.sum \in Int
      BY <2>1, <3>2, ReportConstants DEF Numeric, Item
    <3>4. x.parts[1] * x.weights.sum \in Int
      BY <3>3
    <3>5. y = [x EXCEPT !.score = x.parts[1] * x.weights.sum]
      BY <2>1 DEF ScoredPlatform
    <3> QED  BY <3>4, <3>5 DEF Item, MadeOf
  <2>2. CASE ~(Numeric(x.parts) /\ x.weights # None)
    BY <2>2 DEF ScoredPlatform, MadeOf
  <2> QED  BY <2>1, <2>2
<1> HIDE DEF y
<1>2. Unweighted(y) \in Item /\ MadeOf(Unweighted(y), y)
  BY <1>1, EmptySeq DEF Unweighted, Item, MadeOf
<1> QED  BY <1>1, <1>2 DEF Repaired, MadeOf, y

(* Scoring keeps the list of the answer, item by item. *)
LEMMA ScoredItems ==
  ASSUME NEW a \in Answers, NEW k \in {Target, Platform}
  PROVE  LET items == a[k].items
             s == Scored(k, items)
         IN  /\ s \in Seq(Item) /\ DOMAIN s = DOMAIN items
             /\ \A n \in DOMAIN items : MadeOf(s[n], items[n]) /\ s[n].at = n
<1> DEFINE items == a[k].items
           s == Scored(k, items)
<1>1. /\ Len(items) \in Nat /\ DOMAIN items = 1 .. Len(items)
      /\ \A n \in DOMAIN items :
           /\ items[n] \in Item /\ items[n].at = n
           /\ k = Target => Len(items[n].parts) \in {0, 4}
  BY AnswerItems DEF Keys
<1> HIDE DEF items
<1>2. s = [n \in 1 .. Len(items) |->
             IF k = Target THEN ScoredSegment(items[n])
             ELSE Repaired(ScoredPlatform(items[n]))]
  BY <1>1 DEF Scored
<1>3. ASSUME NEW n \in 1 .. Len(items)
      PROVE  s[n] \in Item /\ MadeOf(s[n], items[n])
  BY <1>1, <1>2, SegmentItem, PlatformItem
<1>4. s \in [1 .. Len(items) -> Item]
  BY <1>2, <1>3
<1>5. s \in Seq(Item) /\ DOMAIN s = DOMAIN items
  BY <1>1, <1>4, ListFromFunction
<1>6. \A n \in DOMAIN items : MadeOf(s[n], items[n]) /\ s[n].at = n
  BY <1>1, <1>3 DEF MadeOf
<1> QED  BY <1>5, <1>6 DEF items

(* What can be ranked has a number. *)
LEMMA RankableScores ==
  ASSUME NEW a \in Answers, Usable(a), NEW k \in {Target, Platform},
         NEW n \in Rankable(k, Scored(k, a[k].items))
  PROVE  Scored(k, a[k].items)[n].score \in Int
<1> DEFINE s == Scored(k, a[k].items)
<1>1. /\ n \in DOMAIN s /\ s[n].score # None
      /\ k = Platform => PlatformValid(s[n])
  BY DEF Rankable
<1> HIDE DEF s
<1>2. CASE k = Platform
  <2>1. InRange(s[n].score)
    BY <1>1, <1>2, Zenon DEF PlatformValid
  <2>2. s[n].score \in 0 .. MaxScore
    BY <1>1, <2>1, Zenon DEF InRange
  <2>3. \A x \in 0 .. MaxScore : x \in Int
    BY DEF MaxScore
  <2> QED  BY <2>2, <2>3, Zenon DEF s
<1>3. CASE k = Target
  <2>1. s = [i \in DOMAIN a[Target].items |-> ScoredSegment(a[Target].items[i])]
    BY <1>3 DEF Scored, s
  <2>2. /\ n \in DOMAIN a[Target].items
        /\ s[n] = ScoredSegment(a[Target].items[n])
    BY <1>1, <2>1
  <2>3. a # Garbage
    BY ReportConstants
  <2>4. ScoredSegment(a[Target].items[n]).score \in Int \cup {None}
    BY <2>2, <2>3 DEF Usable
  <2> QED  BY <1>1, <2>2, <2>4 DEF s
<1> QED  BY <1>2, <1>3

(* Ranking gives a list of what can be ranked, each above the next. *)
LEMMA RankedItems ==
  ASSUME NEW s \in Seq(Item), \A n \in DOMAIN s : s[n].at = n,
         NEW S \in SUBSET DOMAIN s, \A i \in S : s[i].score \in Int
  PROVE  LET r == Ranked(s, S)
         IN  /\ r \in Seq(Item)
             /\ \A n \in DOMAIN r :
                  /\ r[n].at \in S /\ MadeOf(r[n], s[r[n].at])
                  /\ r[n].score \in Int
             /\ \A m, n \in DOMAIN r : m < n => Above(r[m], r[n])
<1> DEFINE R == {p \in S \X S : Before(s, p[1], p[2])}
           N == 1 .. Cardinality(S)
           order == Listed(S, R)
           r == Ranked(s, S)
<1>1. IsFiniteSet(S) /\ S \subseteq Nat
  BY Positions
<1>2. \A i, j \in S : <<i, j>> \in R <=> Before(s, i, j)
  OBVIOUS
<1>3. r = [n \in DOMAIN order |-> [s[order[n]] EXCEPT !.rank = n]]
  BY DEF Ranked
<1> HIDE DEF R
<1>4. Orders(R, S)
  <2>1. \A i \in S : ~Before(s, i, i)
    BY <1>1 DEF Before
  <2>2. \A i, j \in S : i # j => Before(s, i, j) \/ Before(s, j, i)
    BY <1>1 DEF Before
  <2>3. \A i, j, l \in S : Before(s, i, j) /\ Before(s, j, l) => Before(s, i, l)
    BY <1>1 DEF Before
  <2> QED  BY <1>2, <2>1, <2>2, <2>3, Zenon DEF Orders
<1>5. /\ Cardinality(S) \in Nat /\ order \in [N -> S]
      /\ \A m, n \in N : m < n => <<order[m], order[n]>> \in R
  BY <1>1, <1>4, ListedInOrder
<1> HIDE DEF order
<1>6. ASSUME NEW n \in N
      PROVE  /\ r[n] = [s[order[n]] EXCEPT !.rank = n]
             /\ order[n] \in S /\ s[order[n]] \in Item
             /\ s[order[n]].at = order[n] /\ s[order[n]].score \in Int
  <2>1. order[n] \in S /\ order[n] \in DOMAIN s /\ n \in DOMAIN order
    BY <1>5
  <2>2. s[order[n]] \in Item
    BY <2>1, ElementOfSeq, LenProperties
  <2> QED  BY <1>3, <2>1, <2>2
<1>7. ASSUME NEW n \in N
      PROVE  /\ r[n] \in Item /\ MadeOf(r[n], s[order[n]])
             /\ r[n].score = s[order[n]].score
  <2> DEFINE x == s[order[n]]
  <2>1. x \in Item /\ n \in Nat /\ r[n] = [x EXCEPT !.rank = n]
    BY <1>5, <1>6
  <2> HIDE DEF x, r
  <2>2. /\ [x EXCEPT !.rank = n] \in Item
        /\ MadeOf([x EXCEPT !.rank = n], x)
        /\ [x EXCEPT !.rank = n].score = x.score
    BY <2>1 DEF Item, MadeOf
  <2> QED  BY <2>1, <2>2 DEF x
<1>8. DOMAIN r = N
  BY <1>3, <1>5
<1> HIDE DEF r
<1>9. r \in [N -> Item]
  <2>1. r = [n \in N |-> r[n]]
    BY <1>3, <1>5 DEF r
  <2> QED  BY <1>7, <2>1
<1>10. r \in Seq(Item)
  BY <1>5, <1>9, ListFromFunction
<1>11. \A n \in N :
         /\ r[n].at \in S /\ MadeOf(r[n], s[r[n].at])
         /\ r[n].score \in Int
  <2> TAKE n \in N
  <2>1. r[n].at = order[n]
    BY <1>6, <1>7 DEF MadeOf
  <2> QED  BY <1>6, <1>7, <2>1
<1>12. ASSUME NEW m \in N, NEW n \in N, m < n
       PROVE  Above(r[m], r[n])
  <2>1. Before(s, order[m], order[n])
    BY <1>2, <1>5, <1>6, <1>12
  <2>2. r[m].at = order[m] /\ r[n].at = order[n]
    BY <1>6, <1>7 DEF MadeOf
  <2> QED  BY <1>6, <1>7, <2>1, <2>2 DEF Before, Above
<1> QED  BY <1>8, <1>10, <1>11, <1>12 DEF r

(* Every section accepts an empty field. *)
LEMMA EmptyValid ==
  ASSUME NEW k \in Keys
  PROVE  Validates(k, <<>>)
<1>1. Cardinality({<<>>[n].weights : n \in DOMAIN <<>>} \ {None}) <= 1
  <2>1. {<<>>[n].weights : n \in DOMAIN <<>>} \ {None} = {}
    OBVIOUS
  <2>2. Cardinality({}) <= 1
    BY FS_EmptySet
  <2> QED  BY <2>1, <2>2
<1> QED  BY <1>1 DEF Validates, InOrder, OneWeighting, Keys

(* What is left of a field was made of the answer, and is ranked. *)
LEMMA FieldItems ==
  ASSUME NEW a \in Answers, Usable(a), NEW k \in Keys
  PROVE  LET F == Field(k, a[k].items)
         IN  /\ F \in Seq(Item) /\ Validates(k, F)
             /\ \A n \in DOMAIN F :
                  /\ F[n].at \in DOMAIN a[k].items
                  /\ MadeOf(F[n], a[k].items[F[n].at])
             /\ k # Market =>
                  \A m, n \in DOMAIN F : m < n => Above(F[m], F[n])
<1> DEFINE items == a[k].items
           N == Normalized(k, items)
           F == Field(k, items)
           Good(f) ==
             /\ f \in Seq(Item)
             /\ \A n \in DOMAIN f :
                  f[n].at \in DOMAIN items /\ MadeOf(f[n], items[f[n].at])
             /\ k # Market =>
                  \A m, n \in DOMAIN f : m < n => Above(f[m], f[n])
<1>1. Good(N)
  <2>1. CASE k = Market
    BY <2>1, AnswerItems DEF Normalized, MadeOf
  <2>2. CASE k # Market
    <3> DEFINE s == Scored(k, items)
               S == Rankable(k, s)
    <3>1. k \in {Target, Platform}
      BY <2>2 DEF Keys
    <3>2. /\ s \in Seq(Item) /\ DOMAIN s = DOMAIN items
          /\ \A n \in DOMAIN items : MadeOf(s[n], items[n]) /\ s[n].at = n
      BY <3>1, ScoredItems
    <3>3. \A i \in S : s[i].score \in Int
      BY <3>1, RankableScores
    <3>4. S \in SUBSET DOMAIN s
      BY DEF Rankable
    <3>5. N = Ranked(s, S)
      BY <2>2 DEF Normalized
    <3> HIDE DEF items, s, S, N
    <3>6. /\ N \in Seq(Item)
          /\ \A n \in DOMAIN N : N[n].at \in S /\ MadeOf(N[n], s[N[n].at])
          /\ \A m, n \in DOMAIN N : m < n => Above(N[m], N[n])
      BY <3>2, <3>3, <3>4, <3>5, RankedItems
    <3>7. \A n \in DOMAIN N :
            N[n].at \in DOMAIN items /\ MadeOf(N[n], items[N[n].at])
      BY <3>2, <3>4, <3>6 DEF MadeOf
    <3> QED  BY <3>6, <3>7
  <2> QED  BY <2>1, <2>2
<1>2. Good(<<>>)
  BY EmptySeq
<1>3. CASE k # Market
  <2>1. (F = N /\ Validates(k, N)) \/ F = <<>>
    BY <1>3 DEF Field
  <2> HIDE DEF N, F, items
  <2>2. Good(F) /\ Validates(k, F)
    BY <1>1, <1>2, <2>1, EmptyValid
  <2> QED  BY <2>2 DEF F, items
<1>4. CASE k = Market
  <2>1. F = Kept(N, Accepted(N))
    BY <1>4 DEF Field
  <2>2. Accepted(N) \in SUBSET DOMAIN N
    BY DEF Accepted
  <2>3. \A i \in Accepted(N) : ValueValid(N[i])
    BY DEF Accepted
  <2> HIDE DEF N, F, items
  <2>4. F \in Seq(Item) /\ ToSet(F) = {N[i] : i \in Accepted(N)}
    BY <1>1, <2>1, <2>2, KeptElements
  <2>5. \A n \in DOMAIN F : \E i \in Accepted(N) : F[n] = N[i]
    BY <2>4 DEF ToSet
  <2>6. \A n \in DOMAIN F :
          F[n].at \in DOMAIN items /\ MadeOf(F[n], items[F[n].at])
    BY <1>1, <2>2, <2>5
  <2>7. Validates(k, F)
    BY <1>4, <2>3, <2>5 DEF Validates, Market, Target, Platform
  <2> QED  BY <1>4, <2>4, <2>6, <2>7 DEF F, items
<1> QED  BY <1>3, <1>4

(* A section that keeps the scores it must have remains valid. *)
LEMMA StillValid ==
  ASSUME NEW k \in Keys, NEW F, NEW S, Validates(k, F),
         DOMAIN S = DOMAIN F,
         \A n \in DOMAIN F :
           /\ S[n].rank = F[n].rank /\ S[n].parts = F[n].parts
           /\ S[n].weights = F[n].weights /\ S[n].required = F[n].required
           /\ \/ S[n].score = F[n].score
              \/ k = Market /\ S[n].score = None /\ ~F[n].required,
         \A n \in DOMAIN F : n - 1 \in DOMAIN F \/ ~(n > 1)
  PROVE  Validates(k, S)
<1>1. CASE k = Market
  <2>1. \A n \in DOMAIN F : ValueValid(F[n])
    BY <1>1 DEF Validates
  <2>2. \A n \in DOMAIN S : ValueValid(S[n])
    BY <2>1 DEF ValueValid, InRange
  <2> QED  BY <1>1, <2>2 DEF Validates, Market, Target, Platform
<1>2. CASE k # Market
  <2>1. \A n \in DOMAIN F : S[n].score = F[n].score
    BY <1>2
  <2>2. \A n \in DOMAIN S : InRange(S[n].score)
    BY <1>2, <2>1 DEF Validates
  <2>3. InOrder(F)
    BY <1>2 DEF Validates, Keys
  <2>4. InOrder(S)
    BY <2>1, <2>3 DEF InOrder
  <2>5. k = Target => \A n \in DOMAIN S : SegmentValid(S[n])
    BY DEF Validates, SegmentValid
  <2>6. {S[n].weights : n \in DOMAIN S} = {F[n].weights : n \in DOMAIN F}
    OBVIOUS
  <2>7. k = Platform => OneWeighting(S)
    BY <2>6 DEF Validates, OneWeighting
  <2> QED  BY <1>2, <2>2, <2>4, <2>5, <2>7 DEF Validates
<1> QED  BY <1>1, <1>2

-----------------------------------------------------------------------------
(* The inductive invariant *)

(* What is cited was retrieved for the report, and is there. *)
CitedInv ==
  \A r \in Requests : \A k \in Keys : \A i \in ToSet(citations[r][k]) :
    i \in DOMAIN evidence /\ evidence[i] # None /\ evidence[i].of = r

(* What is stored was made of an answer, or is empty. *)
Made(r, k) ==
  \/ report[r].sections[k] = <<>>
  \/ /\ answer[r] \in Answers /\ Usable(answer[r])
     /\ \E allowed \in SUBSET (1 .. MaxIds) :
          report[r].sections[k] =
            Sanitized(k, Field(k, answer[r][k].items), allowed)

MadeInv == \A r \in Requests : Written(r) => \A k \in Keys : Made(r, k)

IInv == TypeOK /\ CitedInv /\ MadeInv

LEMMA InitInv == Init => IInv
<1> SUFFICES ASSUME Init PROVE IInv
  OBVIOUS
<1>1. evidence \in Seq(Evidence \cup {None}) /\ Len(evidence) <= MaxIds
  BY EmptySeq, ReportConstants DEF Init
<1>2. NoReport \in [schema: {"none", "gone"}]
  BY DEF NoReport
<1>3. LegacyReport \in [schema: {"2.1-legacy", "3.0"},
                        sections: [Keys -> Seq(Item)]]
  BY EmptySeq DEF LegacyReport
<1>4. Nothing \in [Keys -> Seq(1 .. MaxIds)]
  BY EmptySeq DEF Nothing
<1>5. TypeOK
  BY <1>1, <1>2, <1>3, <1>4 DEF Init, TypeOK
<1>6. CitedInv
  BY DEF Init, CitedInv, Nothing, ToSet
<1>7. ASSUME NEW r \in Requests, Written(r), NEW k \in Keys
      PROVE  report[r].sections[k] = <<>>
  BY <1>7 DEF Init, Written, NoReport, LegacyReport
<1>8. MadeInv
  BY <1>7 DEF MadeInv, Made
<1> QED  BY <1>5, <1>6, <1>8 DEF IInv

-----------------------------------------------------------------------------
(* The steps *)

(* Evidence is added behind what there is. *)
LEMMA RowsAdded ==
  ASSUME TypeOK, NEW sources \in SourceLists,
         NEW new \in [DOMAIN sources -> Evidence \cup {None}],
         Len(evidence) + Len(sources) <= MaxIds
  PROVE  LET rows == evidence \o new
         IN  /\ rows \in Seq(Evidence \cup {None}) /\ Len(rows) <= MaxIds
             /\ DOMAIN rows \subseteq 1 .. MaxIds
             /\ \A i \in DOMAIN evidence :
                  i \in DOMAIN rows /\ rows[i] = evidence[i]
<1> DEFINE rows == evidence \o new
           E == Evidence \cup {None}
<1>1. PICK n \in 0 .. MaxEvidences : sources \in [1 .. n -> Sources \cup {None}]
  BY DEF SourceLists
<1>2. n \in Nat
  BY <1>1, ReportConstants
<1>3. Len(sources) = n /\ DOMAIN sources = 1 .. n
  BY <1>1, <1>2, ListFromFunction
<1>4. new \in Seq(E) /\ Len(new) = n
  BY <1>2, <1>3, ListFromFunction
<1>5. evidence \in Seq(E) /\ Len(evidence) \in Nat
      /\ DOMAIN evidence = 1 .. Len(evidence)
  BY LenProperties DEF TypeOK
<1> HIDE DEF E
<1>6. /\ rows \in Seq(E) /\ Len(rows) = Len(evidence) + n
      /\ \A i \in 1 .. Len(evidence) + n :
           rows[i] = IF i <= Len(evidence) THEN evidence[i]
                     ELSE new[i - Len(evidence)]
  BY <1>4, <1>5, ConcatProperties
<1>7. DOMAIN rows = 1 .. Len(rows)
  BY <1>6, LenProperties
<1> HIDE DEF rows
<1>8. Len(rows) <= MaxIds /\ DOMAIN rows \subseteq 1 .. MaxIds
  BY <1>2, <1>3, <1>5, <1>6, <1>7, ReportConstants
<1>9. \A i \in DOMAIN evidence : i \in DOMAIN rows /\ rows[i] = evidence[i]
  BY <1>2, <1>5, <1>6, <1>7
<1> QED  BY <1>6, <1>8, <1>9 DEF E, rows

LEMMA NewEvidence ==
  ASSUME NEW r \in Requests, NEW sources \in SourceLists
  PROVE  /\ [i \in DOMAIN sources |-> [of |-> r, source |-> sources[i]]]
              \in [DOMAIN sources -> Evidence \cup {None}]
         /\ [i \in DOMAIN sources |-> None]
              \in [DOMAIN sources -> Evidence \cup {None}]
<1>1. \A i \in DOMAIN sources : sources[i] \in Sources \cup {None}
  BY DEF SourceLists
<1> QED  BY <1>1 DEF Evidence

(* Reports and citations of the others, and those that are not changed *)
LEMMA MadeKept ==
  ASSUME NEW r \in Requests, NEW k \in Keys, Written(r) => Made(r, k),
         report'[r] = report[r],
         answer'[r] = answer[r]
  PROVE  Written(r)' => Made(r, k)'
BY DEF Made, Written

LEMMA CitedKept ==
  ASSUME CitedInv, NEW r \in Requests,
         citations'[r] = citations[r],
         \A i \in DOMAIN evidence :
           /\ i \in DOMAIN evidence'
           /\ evidence[i] # None /\ evidence[i].of = r =>
                evidence'[i] = evidence[i]
  PROVE  \A k \in Keys : \A i \in ToSet(citations'[r][k]) :
           /\ i \in DOMAIN evidence' /\ evidence'[i] # None
           /\ evidence'[i].of = r
BY DEF CitedInv

LEMMA FallsBackStep ==
  ASSUME IInv, NEW r \in Requests, NEW sources \in SourceLists,
         NEW a, AnalyzeFallsBack(r, sources, a)
  PROVE  IInv'
<1>1. TypeOK /\ CitedInv /\ MadeInv
  BY DEF IInv
<1>2. /\ report[r] = NoReport
      /\ Len(evidence) + Len(sources) <= MaxIds
      /\ evidence' = evidence \o [i \in DOMAIN sources |->
                                    [of |-> r, source |-> sources[i]]]
      /\ report' = [report EXCEPT ![r] = [schema   |-> "3.0",
                                          sections |-> Nothing]]
      /\ answer' = answer /\ citations' = citations
  BY DEF AnalyzeFallsBack
<1>3. /\ evidence' \in Seq(Evidence \cup {None}) /\ Len(evidence') <= MaxIds
      /\ \A i \in DOMAIN evidence :
           i \in DOMAIN evidence' /\ evidence'[i] = evidence[i]
  BY <1>1, <1>2, NewEvidence, RowsAdded
<1>4. [schema |-> "3.0", sections |-> Nothing]
        \in [schema: {"2.1-legacy", "3.0"}, sections: [Keys -> Seq(Item)]]
  BY EmptySeq DEF Nothing
<1>5. TypeOK'
  BY <1>1, <1>2, <1>3, <1>4 DEF TypeOK
<1>6. CitedInv'
  BY <1>1, <1>2, <1>3, CitedKept DEF CitedInv
<1>7. ASSUME NEW q \in Requests, Written(q)', NEW k \in Keys
      PROVE  Made(q, k)'
  <2>1. CASE q = r
    BY <1>1, <1>2, <2>1 DEF Made, Nothing, TypeOK
  <2>2. CASE q # r
    <3>1. report'[q] = report[q]
      BY <1>2, <2>2
    <3> QED  BY <1>1, <1>2, <1>7, <3>1, MadeKept DEF MadeInv
  <2> QED  BY <2>1, <2>2
<1> QED  BY <1>5, <1>6, <1>7 DEF IInv, MadeInv

LEMMA FailsStep ==
  ASSUME IInv, NEW r \in Requests, NEW sources \in SourceLists,
         AnalyzeFails(r, sources)
  PROVE  IInv'
<1>1. TypeOK /\ CitedInv /\ MadeInv
  BY DEF IInv
<1>2. /\ Len(evidence) + Len(sources) <= MaxIds
      /\ evidence' = evidence \o [i \in DOMAIN sources |-> None]
      /\ report' = report /\ answer' = answer /\ citations' = citations
  BY DEF AnalyzeFails
<1>3. /\ evidence' \in Seq(Evidence \cup {None}) /\ Len(evidence') <= MaxIds
      /\ \A i \in DOMAIN evidence :
           i \in DOMAIN evidence' /\ evidence'[i] = evidence[i]
  BY <1>1, <1>2, NewEvidence, RowsAdded
<1>4. TypeOK'
  BY <1>1, <1>2, <1>3 DEF TypeOK
<1>5. CitedInv'
  BY <1>1, <1>2, <1>3, CitedKept DEF CitedInv
<1>6. MadeInv'
  BY <1>1, <1>2, MadeKept DEF MadeInv
<1> QED  BY <1>4, <1>5, <1>6 DEF IInv

LEMMA DeleteStep ==
  ASSUME IInv, NEW r \in Requests, Delete(r)
  PROVE  IInv'
<1>1. TypeOK /\ CitedInv /\ MadeInv
  BY DEF IInv
<1>2. /\ report' = [report EXCEPT ![r] = [schema |-> "gone"]]
      /\ citations' = [citations EXCEPT ![r] = Nothing]
      /\ evidence' = [i \in DOMAIN evidence |->
                        IF i \in Allowed(r, evidence) THEN None
                        ELSE evidence[i]]
      /\ answer' = [answer EXCEPT ![r] = Garbage]
  BY DEF Delete
<1>3. evidence \in Seq(Evidence \cup {None}) /\ Len(evidence) \in Nat
      /\ DOMAIN evidence = 1 .. Len(evidence)
  BY <1>1, LenProperties DEF TypeOK
<1>4. evidence' \in [1 .. Len(evidence) -> Evidence \cup {None}]
  <2>1. \A i \in 1 .. Len(evidence) : evidence[i] \in Evidence \cup {None}
    BY <1>3, ElementOfSeq
  <2> QED  BY <1>2, <1>3, <2>1
<1>5. /\ evidence' \in Seq(Evidence \cup {None})
      /\ Len(evidence') = Len(evidence)
  BY <1>3, <1>4, ListFromFunction
<1>6. Nothing \in [Keys -> Seq(1 .. MaxIds)]
  BY EmptySeq DEF Nothing
<1>7. TypeOK'
  BY <1>1, <1>2, <1>5, <1>6 DEF TypeOK
<1>8. CitedInv'
  <2> SUFFICES ASSUME NEW q \in Requests, NEW k \in Keys,
                      NEW i \in ToSet(citations'[q][k])
               PROVE  /\ i \in DOMAIN evidence' /\ evidence'[i] # None
                      /\ evidence'[i].of = q
    BY DEF CitedInv
  <2>1. CASE q = r
    BY <1>1, <1>2, <2>1 DEF TypeOK, Nothing, ToSet
  <2>2. CASE q # r
    <3>1. citations'[q] = citations[q]
      BY <1>2, <2>2
    <3>2. \A j \in DOMAIN evidence :
            /\ j \in DOMAIN evidence'
            /\ evidence[j] # None /\ evidence[j].of = q =>
                 evidence'[j] = evidence[j]
      BY <1>2, <2>2 DEF Allowed
    <3> QED  BY <1>1, <3>1, <3>2, CitedKept
  <2> QED  BY <2>1, <2>2
<1>9. ASSUME NEW q \in Requests, Written(q)', NEW k \in Keys
      PROVE  Made(q, k)'
  <2>1. CASE q = r
    BY <1>1, <1>2, <1>9, <2>1 DEF Written, TypeOK
  <2>2. CASE q # r
    <3>1. report'[q] = report[q] /\ answer'[q] = answer[q]
      BY <1>2, <2>2
    <3> QED  BY <1>1, <1>9, <3>1, MadeKept DEF MadeInv
  <2> QED  BY <2>1, <2>2
<1> QED  BY <1>7, <1>8, <1>9 DEF IInv, MadeInv

LEMMA AnalyzeStep ==
  ASSUME IInv, NEW r \in Requests, NEW sources \in SourceLists,
         NEW a \in Answers, Analyze(r, sources, a)
  PROVE  IInv'
<1> DEFINE rows == evidence \o [i \in DOMAIN sources |->
                                  [of |-> r, source |-> sources[i]]]
           F(k) == Field(k, a[k].items)
           C(k) == Cited(a[k], F(k), Allowed(r, rows))
           S(k) == Sanitized(k, F(k), ToSet(C(k)))
           new == [schema |-> "3.0", sections |-> [k \in Keys |-> S(k)]]
<1>1. TypeOK /\ CitedInv /\ MadeInv
  BY DEF IInv
<1>2. /\ report[r] = NoReport /\ Usable(a)
      /\ Len(evidence) + Len(sources) <= MaxIds
      /\ evidence' = rows
      /\ answer' = [answer EXCEPT ![r] = a]
  BY DEF Analyze
<1>3. /\ report' = [report EXCEPT ![r] = new]
      /\ citations' = [citations EXCEPT ![r] = [k \in Keys |-> C(k)]]
  <2> DEFINE cited == [k \in Keys |-> C(k)]
  <2>1. report' = [report EXCEPT ![r] =
          [schema |-> "3.0",
           sections |-> [k \in Keys |->
             Sanitized(k, [l \in Keys |-> F(l)][k], ToSet(cited[k]))]]]
    BY DEF Analyze
  <2>2. \A k \in Keys : [l \in Keys |-> F(l)][k] = F(k) /\ cited[k] = C(k)
    OBVIOUS
  <2>3. citations' = [citations EXCEPT ![r] =
          [k \in Keys |->
             Cited(a[k], [l \in Keys |-> F(l)][k], Allowed(r, rows))]]
    BY DEF Analyze
  <2> HIDE DEF F, C, cited
  <2>4. [k \in Keys |->
           Sanitized(k, [l \in Keys |-> F(l)][k], ToSet(cited[k]))] =
        [k \in Keys |-> S(k)]
    BY <2>2
  <2>5. [k \in Keys |->
           Cited(a[k], [l \in Keys |-> F(l)][k], Allowed(r, rows))] =
        [k \in Keys |-> C(k)]
    BY <2>2 DEF C
  <2> QED  BY <2>1, <2>3, <2>4, <2>5
<1>4. /\ rows \in Seq(Evidence \cup {None}) /\ Len(rows) <= MaxIds
      /\ DOMAIN rows \subseteq 1 .. MaxIds
      /\ \A i \in DOMAIN evidence : i \in DOMAIN rows /\ rows[i] = evidence[i]
  BY <1>1, <1>2, NewEvidence, RowsAdded
<1> HIDE DEF rows
<1>5. ASSUME NEW k \in Keys
      PROVE  C(k) \in Seq(1 .. MaxIds) /\ ToSet(C(k)) \subseteq Allowed(r, rows)
  <2>1. F(k) \in Seq(Item)
    BY <1>2, FieldItems
  <2>2. a[k] \in [evidenceIds: Seq(Int), items: Seq(Item)]
    BY AnswerItems
  <2> HIDE DEF F
  <2>3. C(k) \in Seq(Allowed(r, rows))
    BY <2>1, <2>2, CitedAllowed
  <2>4. Allowed(r, rows) \subseteq 1 .. MaxIds
    BY <1>4 DEF Allowed
  <2> HIDE DEF C
  <2>5. C(k) \in Seq(1 .. MaxIds)
    BY <2>3, <2>4, SeqMonotonic
  <2>6. \A n \in DOMAIN C(k) : C(k)[n] \in Allowed(r, rows)
    BY <2>3, ElementOfSeq, LenProperties
  <2> QED  BY <2>5, <2>6 DEF ToSet
<1>6. ASSUME NEW k \in Keys
      PROVE  S(k) \in Seq(Item)
  <2>1. F(k) \in Seq(Item)
    BY <1>2, FieldItems
  <2> HIDE DEF F, C
  <2> QED  BY <2>1, SanitizedItems
<1> HIDE DEF C
<1>7. TypeOK'
  <2> HIDE DEF S
  <2>1. new \in [schema: {"2.1-legacy", "3.0"}, sections: [Keys -> Seq(Item)]]
    BY <1>6
  <2>2. [k \in Keys |-> C(k)] \in [Keys -> Seq(1 .. MaxIds)]
    BY <1>5
  <2> HIDE DEF new
  <2> QED  BY <1>1, <1>2, <1>3, <1>4, <2>1, <2>2 DEF TypeOK
<1>8. CitedInv'
  <2> SUFFICES ASSUME NEW q \in Requests, NEW k \in Keys,
                      NEW i \in ToSet(citations'[q][k])
               PROVE  /\ i \in DOMAIN evidence' /\ evidence'[i] # None
                      /\ evidence'[i].of = q
    BY DEF CitedInv
  <2>1. CASE q = r
    <3>1. citations'[q][k] = C(k)
      BY <1>1, <1>3, <2>1 DEF TypeOK
    <3> QED  BY <1>2, <1>5, <2>1, <3>1 DEF Allowed
  <2>2. CASE q # r
    <3>1. citations'[q] = citations[q]
      BY <1>3, <2>2
    <3> QED  BY <1>1, <1>2, <1>4, <3>1, CitedKept
  <2> QED  BY <2>1, <2>2
<1>9. ASSUME NEW q \in Requests, Written(q)', NEW k \in Keys
      PROVE  Made(q, k)'
  <2>1. CASE q = r
    <3>1. report'[q].sections[k] = S(k)
      <4> HIDE DEF S
      <4> QED  BY <1>1, <1>3, <2>1 DEF TypeOK
    <3>2. answer'[q] = a
      BY <1>1, <1>2, <2>1 DEF TypeOK
    <3>3. ToSet(C(k)) \in SUBSET (1 .. MaxIds)
      BY <1>4, <1>5 DEF Allowed
    <3> QED  BY <1>2, <3>1, <3>2, <3>3 DEF Made
  <2>2. CASE q # r
    <3>1. report'[q] = report[q] /\ answer'[q] = answer[q]
      BY <1>2, <1>3, <2>2
    <3> QED  BY <1>1, <1>9, <3>1, MadeKept DEF MadeInv
  <2> QED  BY <2>1, <2>2
<1> QED  BY <1>7, <1>8, <1>9 DEF IInv, MadeInv

LEMMA StepInv == IInv /\ [Next]_vars => IInv'
<1> SUFFICES ASSUME IInv, [Next]_vars PROVE IInv'
  OBVIOUS
<1>1. CASE UNCHANGED vars
  BY <1>1 DEF vars, IInv, TypeOK, CitedInv, MadeInv, Made, Written
<1>2. CASE Next
  <2>1. PICK r \in Requests :
          \/ \E sources \in SourceLists :
               \/ \E a \in Answers : Analyze(r, sources, a)
               \/ \E a \in Answers \cup {Garbage} :
                    AnalyzeFallsBack(r, sources, a)
               \/ AnalyzeFails(r, sources)
          \/ Delete(r)
    BY <1>2 DEF Next
  <2> QED  BY <2>1, AnalyzeStep, FallsBackStep, FailsStep, DeleteStep
<1> QED  BY <1>1, <1>2

LEMMA Invariance == Spec => []IInv
BY InitInv, StepInv, PTL DEF Spec

-----------------------------------------------------------------------------
(* Counting what is cited *)

(* A list has as many first occurrences as it has different elements. *)
LEMMA FirstsCount ==
  ASSUME NEW T, NEW s \in Seq(T)
  PROVE  /\ IsFiniteSet(ToSet(s))
         /\ Cardinality(Firsts(s)) = Cardinality(ToSet(s))
<1> DEFINE f == [i \in Firsts(s) |-> s[i]]
<1>1. Len(s) \in Nat /\ DOMAIN s = 1 .. Len(s) /\ Firsts(s) \subseteq DOMAIN s
  BY LenProperties DEF Firsts
<1>2. IsFiniteSet(Firsts(s))
  <2>1. IsFiniteSet(1 .. Len(s))
    BY <1>1, FS_Interval
  <2> QED  BY <1>1, <2>1, FS_Subset
<1>3. ASSUME NEW v \in ToSet(s)
      PROVE  \E i \in Firsts(s) : s[i] = v
  <2> DEFINE P == {i \in DOMAIN s : s[i] = v}
  <2>1. P \subseteq Nat /\ P # {}
    BY <1>1 DEF ToSet
  <2> HIDE DEF P
  <2>2. PICK i \in P : \A j \in P : <<j, i>> \notin OpToRel(<, Nat)
    BY <2>1, NatLessThanWellFounded, WFMin
  <2>3. \A j \in P : ~(j < i)
    BY <2>1, <2>2 DEF OpToRel
  <2>4. i \in DOMAIN s /\ s[i] = v
    BY DEF P
  <2>5. \A j \in 1 .. i - 1 : j \in DOMAIN s /\ j < i
    BY <1>1, <2>4
  <2>6. \A j \in 1 .. i - 1 : s[j] # s[i]
    BY <2>3, <2>4, <2>5 DEF P
  <2> QED  BY <2>4, <2>6 DEF Firsts
<1>4. f \in [Firsts(s) -> ToSet(s)]
  BY <1>1 DEF ToSet
<1>5. ASSUME NEW i \in Firsts(s), NEW j \in Firsts(s), s[i] = s[j]
      PROVE  i = j
  <2>1. i \in 1 .. Len(s) /\ j \in 1 .. Len(s)
    BY <1>1
  <2>2. i < j => i \in 1 .. j - 1
    BY <1>1, <2>1
  <2>3. j < i => j \in 1 .. i - 1
    BY <1>1, <2>1
  <2>4. ~(i < j) /\ ~(j < i)
    BY <1>5, <2>2, <2>3 DEF Firsts
  <2> QED  BY <2>1, <2>4
<1>6. f \in Bijection(Firsts(s), ToSet(s))
  <2>1. f \in Injection(Firsts(s), ToSet(s))
    BY <1>4, <1>5 DEF Injection, IsInjective
  <2>2. f \in Surjection(Firsts(s), ToSet(s))
    BY <1>3, <1>4 DEF Surjection
  <2> QED  BY <2>1, <2>2 DEF Bijection
<1>7. ExistsBijection(Firsts(s), ToSet(s))
  BY <1>6 DEF ExistsBijection
<1> QED  BY <1>2, <1>7, FS_Bijection

(* The sources that section k of report r cites *)
SourcesOf(r, k) == {SourceOf(i) : i \in ToSet(citations[r][k])}

(* The references of a section are as many as the sources it cites. *)
LEMMA ReferencesCounted ==
  ASSUME TypeOK, NEW r \in Requests, NEW k \in Keys
  PROVE  /\ IsFiniteSet(SourcesOf(r, k))
         /\ Len(References(r, k)) = Cardinality(SourcesOf(r, k))
<1> DEFINE cited == citations[r][k]
           s == [i \in DOMAIN cited |-> SourceOf(cited[i])]
           T == {SourceOf(i) : i \in 1 .. MaxIds}
<1>1. /\ cited \in Seq(1 .. MaxIds) /\ Len(cited) \in Nat
      /\ DOMAIN cited = 1 .. Len(cited)
  BY LenProperties DEF TypeOK
<1> HIDE DEF cited
<1>2. s \in [1 .. Len(cited) -> T]
  <2>1. \A i \in 1 .. Len(cited) : cited[i] \in 1 .. MaxIds
    BY <1>1, ElementOfSeq
  <2> QED  BY <1>1, <2>1
<1>3. s \in Seq(T) /\ DOMAIN s = DOMAIN cited
  BY <1>1, <1>2, ListFromFunction
<1>4. ToSet(s) = {SourceOf(i) : i \in ToSet(cited)}
  <2>1. \A i \in DOMAIN cited : s[i] = SourceOf(cited[i])
    OBVIOUS
  <2> HIDE DEF s
  <2> QED  BY <1>3, <2>1 DEF ToSet
<1>5. References(r, k) = Kept(cited, Firsts(s))
  BY DEF References, cited
<1> HIDE DEF s, T
<1>6. Firsts(s) \in SUBSET DOMAIN cited
  BY <1>3 DEF Firsts
<1>7. Len(References(r, k)) = Cardinality(Firsts(s))
  BY <1>1, <1>5, <1>6, KeptElements
<1>8. IsFiniteSet(ToSet(s)) /\ Cardinality(Firsts(s)) = Cardinality(ToSet(s))
  BY <1>3, FirstsCount
<1> QED  BY <1>4, <1>7, <1>8 DEF SourcesOf, cited

(* A set of pairs with two first components is as large as both its parts. *)
LEMMA Tagged ==
  ASSUME NEW k, NEW S, IsFiniteSet(S)
  PROVE  /\ IsFiniteSet({k} \X S) /\ Cardinality({k} \X S) = Cardinality(S)
         /\ Cardinality(S) \in Nat
<1>1. IsFiniteSet({k}) /\ Cardinality({k}) = 1
  BY FS_Singleton
<1>2. Cardinality(S) \in Nat
  BY FS_CardinalityType
<1>3. /\ IsFiniteSet({k} \X S)
      /\ Cardinality({k} \X S) = Cardinality({k}) * Cardinality(S)
  BY <1>1, FS_Product
<1> QED  BY <1>1, <1>2, <1>3

(* Sets that share nothing are counted one after the other. *)
LEMMA Disjoint ==
  ASSUME NEW S, NEW T, IsFiniteSet(S), IsFiniteSet(T), S \cap T = {}
  PROVE  /\ IsFiniteSet(S \cup T)
         /\ Cardinality(S \cup T) = Cardinality(S) + Cardinality(T)
<1>1. /\ IsFiniteSet(S \cup T)
      /\ Cardinality(S \cup T) =
           Cardinality(S) + Cardinality(T) - Cardinality(S \cap T)
  BY FS_Union
<1>2. Cardinality(S \cap T) = 0
  BY FS_EmptySet
<1>3. Cardinality(S) \in Nat /\ Cardinality(T) \in Nat
  BY FS_CardinalityType
<1> QED  BY <1>1, <1>2, <1>3

(* evidence_count is the number of pairs of a section and a source. *)
LEMMA EvidenceCounted ==
  ASSUME IInv, NEW r \in Requests
  PROVE  EvidenceCount(r) = Cardinality(
           {p \in Keys \X (Sources \cup DOMAIN evidence) :
              \E i \in ToSet(citations[r][p[1]]) : SourceOf(i) = p[2]})
<1> DEFINE P == {p \in Keys \X (Sources \cup DOMAIN evidence) :
                   \E i \in ToSet(citations[r][p[1]]) : SourceOf(i) = p[2]}
           M == {Market} \X SourcesOf(r, Market)
           T == {Target} \X SourcesOf(r, Target)
           L == {Platform} \X SourcesOf(r, Platform)
<1>1. TypeOK /\ CitedInv
  BY DEF IInv
<1>2. \A k \in Keys : SourcesOf(r, k) \subseteq Sources \cup DOMAIN evidence
  <2> SUFFICES ASSUME NEW k \in Keys, NEW i \in ToSet(citations[r][k])
               PROVE  SourceOf(i) \in Sources \cup DOMAIN evidence
    BY DEF SourcesOf
  <2>1. i \in DOMAIN evidence /\ evidence[i] # None
    BY <1>1 DEF CitedInv
  <2>2. evidence[i] \in Evidence
    BY <1>1, <2>1, ElementOfSeq, LenProperties DEF TypeOK
  <2> QED  BY <2>1, <2>2 DEF SourceOf, Evidence
<1>3. P = (M \cup T) \cup L
  <2>1. ASSUME NEW p \in P
        PROVE  p \in (M \cup T) \cup L
    <3>1. p[1] \in Keys /\ p = <<p[1], p[2]>> /\ p[2] \in SourcesOf(r, p[1])
      BY DEF SourcesOf
    <3> QED  BY <3>1 DEF Keys
  <2>2. ASSUME NEW p \in (M \cup T) \cup L
        PROVE  p \in P
    <3>1. PICK k \in Keys : \E v \in SourcesOf(r, k) : p = <<k, v>>
      BY DEF Keys
    <3>2. PICK v \in SourcesOf(r, k) : p = <<k, v>>
      BY <3>1
    <3> QED  BY <1>2, <3>2 DEF SourcesOf
  <2> QED  BY <2>1, <2>2
<1>4. /\ IsFiniteSet(M) /\ Cardinality(M) = Len(References(r, Market))
      /\ IsFiniteSet(T) /\ Cardinality(T) = Len(References(r, Target))
      /\ IsFiniteSet(L) /\ Cardinality(L) = Len(References(r, Platform))
      /\ Cardinality(M) \in Nat /\ Cardinality(T) \in Nat
      /\ Cardinality(L) \in Nat
  BY <1>1, ReferencesCounted, Tagged DEF Keys
<1>5. M \cap T = {} /\ (M \cup T) \cap L = {}
  BY DEF Market, Target, Platform
<1> HIDE DEF M, T, L, P
<1>6. /\ IsFiniteSet(M \cup T)
      /\ Cardinality(M \cup T) = Cardinality(M) + Cardinality(T)
  BY <1>4, <1>5, Disjoint
<1>7. Cardinality(P) = Cardinality(M) + Cardinality(T) + Cardinality(L)
  BY <1>3, <1>4, <1>5, <1>6, Disjoint
<1> QED  BY <1>4, <1>7 DEF EvidenceCount, P

(* A section has no more references than rows, and as many only if no two of
   its rows have the same source. *)
LEMMA RowsAndReferences ==
  ASSUME TypeOK, NEW r \in Requests, NEW k \in Keys
  PROVE  /\ Len(References(r, k)) \in Nat /\ Len(citations[r][k]) \in Nat
         /\ Len(References(r, k)) <= Len(citations[r][k])
         /\ Len(References(r, k)) = Len(citations[r][k]) <=> ~SharedSource(r, k)
<1> DEFINE cited == citations[r][k]
           s == [i \in DOMAIN cited |-> SourceOf(cited[i])]
           F == Firsts(s)
<1>1. /\ cited \in Seq(1 .. MaxIds) /\ Len(cited) \in Nat
      /\ DOMAIN cited = 1 .. Len(cited)
  BY LenProperties DEF TypeOK
<1> HIDE DEF cited
<1>2. References(r, k) = Kept(cited, F)
  BY DEF References, cited
<1>3. /\ DOMAIN s = DOMAIN cited
      /\ \A i \in DOMAIN cited : s[i] = SourceOf(cited[i])
  OBVIOUS
<1>4. SharedSource(r, k) <=> \E m, n \in DOMAIN cited : m # n /\ s[m] = s[n]
  BY <1>3 DEF SharedSource, cited
<1> HIDE DEF s
<1>5. F \in SUBSET DOMAIN cited
  BY <1>3 DEF Firsts
<1>6. Len(References(r, k)) = Cardinality(F)
  BY <1>1, <1>2, <1>5, KeptElements
<1>7. IsFiniteSet(DOMAIN cited) /\ Cardinality(DOMAIN cited) = Len(cited)
  <2>1. 0 \in Int /\ Len(cited) \in Int
    BY <1>1
  <2>2. /\ IsFiniteSet(1 .. Len(cited))
        /\ Cardinality(1 .. Len(cited)) = Len(cited)
    BY <1>1, <2>1, FS_Interval
  <2> QED  BY <1>1, <2>2
<1>8. /\ Cardinality(F) \in Nat /\ Cardinality(F) <= Len(cited)
      /\ Cardinality(F) = Len(cited) <=> F = DOMAIN cited
  <2>1. /\ IsFiniteSet(F) /\ Cardinality(F) <= Cardinality(DOMAIN cited)
        /\ Cardinality(F) = Cardinality(DOMAIN cited) => F = DOMAIN cited
    BY <1>5, <1>7, FS_Subset
  <2> QED  BY <1>7, <2>1, FS_CardinalityType
<1>9. F = DOMAIN cited <=> \A m, n \in DOMAIN cited : m # n => s[m] # s[n]
  <2>1. ASSUME F = DOMAIN cited, NEW m \in DOMAIN cited, NEW n \in DOMAIN cited,
               m # n
        PROVE  s[m] # s[n]
    <3>1. m \in Firsts(s) /\ n \in Firsts(s)
      BY <2>1
    <3>2. m \in 1 .. n - 1 \/ n \in 1 .. m - 1
      BY <1>1, <2>1
    <3> QED  BY <3>1, <3>2 DEF Firsts
  <2>2. ASSUME \A m, n \in DOMAIN cited : m # n => s[m] # s[n]
        PROVE  F = DOMAIN cited
    <3>1. \A i \in DOMAIN cited : \A j \in 1 .. i - 1 :
            j \in DOMAIN cited /\ j # i
      BY <1>1
    <3> QED  BY <1>3, <2>2, <3>1 DEF Firsts
  <2> QED  BY <2>1, <2>2
<1> HIDE DEF F
<1> QED  BY <1>1, <1>4, <1>6, <1>8, <1>9 DEF cited

(* The sections add up. *)
LEMMA RowsCounted == IInv => RowsCountedUnlessShared
<1> SUFFICES ASSUME IInv, NEW r \in Requests
             PROVE  EvidenceCount(r) =
                        Len(citations[r][Market]) + Len(citations[r][Target])
                          + Len(citations[r][Platform])
                      <=> \A k \in Keys : ~SharedSource(r, k)
  BY DEF RowsCountedUnlessShared
<1> DEFINE Refs(k) == Len(References(r, k))
           Rows(k) == Len(citations[r][k])
<1>1. \A k \in Keys : /\ Refs(k) \in Nat /\ Rows(k) \in Nat
                      /\ Refs(k) <= Rows(k)
                      /\ Refs(k) = Rows(k) <=> ~SharedSource(r, k)
  BY RowsAndReferences DEF IInv
<1> HIDE DEF Refs, Rows
<1>2. Keys = {Market, Target, Platform}
  BY DEF Keys
<1>3. Refs(Market) + Refs(Target) + Refs(Platform)
        = Rows(Market) + Rows(Target) + Rows(Platform)
      <=> \A k \in Keys : Refs(k) = Rows(k)
  BY <1>1, <1>2
<1> QED  BY <1>1, <1>3 DEF EvidenceCount, Refs, Rows

-----------------------------------------------------------------------------
(* What a client is shown *)

(* x has lost its value: the answer y named evidence for it in a list of which
   none is left. *)
Lost(k, x, y) ==
  /\ k # Target /\ x.observed
  /\ \E q \in IdKeys : y.ids[q] # <<>> /\ x.ids[q] = <<>>

(* Item y of a stored section and item x that is shown of it, made of item z of
   the field that the section model accepted and of item w of the answer *)
Descends(k, x, y, z, w) ==
  /\ MadeOf(z, w) /\ y.at = z.at /\ x.at = z.at /\ x.observed = z.observed
  /\ x.rank = z.rank /\ x.parts = z.parts /\ x.weights = z.weights
  /\ x.required = z.required
  /\ y.score \in {z.score, None}
  /\ IF Lost(k, x, w) THEN x.score = None ELSE x.score = z.score

(* Every item that is shown descends from the answer. *)
LEMMA ShownItems ==
  ASSUME IInv, NEW r \in Requests, Written(r), NEW k \in Keys
  PROVE  LET y == report[r].sections[k]
             x == Response(r)[k]
         IN  /\ x \in Seq(Item) /\ y \in Seq(Item) /\ DOMAIN x = DOMAIN y
             /\ \A n \in DOMAIN y : \A q \in IdKeys :
                  ToSet(x[n].ids[q]) \subseteq ToSet(References(r, k))
             /\ \/ y = <<>>
                \/ \E z \in Seq(Item) :
                     /\ Validates(k, z) /\ DOMAIN z = DOMAIN y
                     /\ \A n \in DOMAIN y :
                          Descends(k, x[n], y[n], z[n], Stated(r, k, x[n]))
                     /\ k # Market =>
                          \A m, n \in DOMAIN z : m < n => Above(z[m], z[n])
<1> DEFINE y == report[r].sections[k]
           x == Response(r)[k]
           ids == ToSet(References(r, k))
<1>1. TypeOK /\ Made(r, k)
  BY DEF IInv, MadeInv
<1>2. y \in Seq(Item)
  BY <1>1 DEF TypeOK, Written
<1>3. x = Sanitized(k, y, ids)
  BY DEF Response, Shown
<1> HIDE DEF x, y, ids
<1>4. /\ x \in Seq(Item) /\ DOMAIN x = DOMAIN y
      /\ \A n \in DOMAIN y : Cleaned(k, x[n], y[n], ids)
  BY <1>2, <1>3, SanitizedItems
<1>5. \A n \in DOMAIN y : \A q \in IdKeys : ToSet(x[n].ids[q]) \subseteq ids
  BY <1>4 DEF Cleaned
<1>6. CASE y = <<>>
  BY <1>2, <1>4, <1>6, <1>5 DEF x, y, ids
<1>7. CASE y # <<>>
  <2> DEFINE a == answer[r]
             z == Field(k, a[k].items)
  <2>1. PICK allowed \in SUBSET (1 .. MaxIds) : y = Sanitized(k, z, allowed)
    BY <1>1, <1>7 DEF Made, y
  <2>2. a \in Answers /\ Usable(a)
    BY <1>1, <1>7 DEF Made, y
  <2>3. /\ z \in Seq(Item) /\ Validates(k, z)
        /\ \A n \in DOMAIN z : MadeOf(z[n], a[k].items[z[n].at])
        /\ k # Market => \A m, n \in DOMAIN z : m < n => Above(z[m], z[n])
    BY <2>2, FieldItems
  <2> HIDE DEF a, z
  <2>4. /\ DOMAIN y = DOMAIN z
        /\ \A n \in DOMAIN z : Cleaned(k, y[n], z[n], allowed)
    BY <2>1, <2>3, SanitizedItems
  <2>5. ASSUME NEW n \in DOMAIN y
        PROVE  Descends(k, x[n], y[n], z[n], Stated(r, k, x[n]))
    <3> DEFINE w == Stated(r, k, x[n])
    <3>1. w = a[k].items[z[n].at]
      BY <1>4, <2>4 DEF Stated, a, Cleaned
    <3>2. MadeOf(z[n], w)
      BY <2>3, <2>4, <3>1
    <3> HIDE DEF w
    <3>3. w.ids = z[n].ids
      BY <3>2 DEF MadeOf
    <3>4. /\ x[n].observed = y[n].observed /\ y[n].observed = z[n].observed
          /\ \A q \in IdKeys :
               /\ z[n].ids[q] = <<>> => y[n].ids[q] = <<>>
               /\ y[n].ids[q] = <<>> => x[n].ids[q] = <<>>
          /\ x[n].score = IF Unsubstantiated(k, y[n], x[n].ids)
                          THEN None ELSE y[n].score
          /\ y[n].score = IF Unsubstantiated(k, z[n], y[n].ids)
                          THEN None ELSE z[n].score
      BY <1>4, <2>4 DEF Cleaned
    <3>5. Lost(k, x[n], w) <=> \/ Unsubstantiated(k, y[n], x[n].ids)
                               \/ Unsubstantiated(k, z[n], y[n].ids)
      BY <3>3, <3>4 DEF Lost, Unsubstantiated
    <3>6. IF Lost(k, x[n], w) THEN x[n].score = None
          ELSE x[n].score = z[n].score
      BY <3>4, <3>5
    <3>7. /\ y[n].at = z[n].at /\ x[n].at = z[n].at
          /\ x[n].rank = z[n].rank /\ x[n].parts = z[n].parts
          /\ x[n].weights = z[n].weights /\ x[n].required = z[n].required
      BY <1>4, <2>4 DEF Cleaned
    <3> QED  BY <3>2, <3>4, <3>6, <3>7 DEF Descends, w
  <2> QED  BY <1>2, <1>4, <1>5, <2>3, <2>4, <2>5 DEF x, y, ids
<1> QED  BY <1>6, <1>7

(* Sanitizing removes scores and never moves an item. *)
LEMMA RankingsFollowScores == IInv => RankedByScore
<1> SUFFICES ASSUME IInv, NEW r \in Requests, Written(r),
                    NEW k \in {Target, Platform},
                    NEW m \in DOMAIN report[r].sections[k],
                    NEW n \in DOMAIN report[r].sections[k], m < n,
                    report[r].sections[k][m].score # None,
                    report[r].sections[k][n].score # None
             PROVE  Above(report[r].sections[k][m], report[r].sections[k][n])
  BY DEF RankedByScore, Above
<1> DEFINE y == report[r].sections[k]
           x == Response(r)[k]
<1>1. k \in Keys /\ k # Market
  BY DEF Keys, Market, Target, Platform
<1>2. y # <<>>
  OBVIOUS
<1>3. PICK z \in Seq(Item) :
        /\ DOMAIN z = DOMAIN y
        /\ \A i \in DOMAIN y :
             Descends(k, x[i], y[i], z[i], Stated(r, k, x[i]))
        /\ \A i, j \in DOMAIN z : i < j => Above(z[i], z[j])
  BY <1>1, <1>2, ShownItems
<1>4. Above(z[m], z[n])
  BY <1>3
<1>5. /\ y[m].score = z[m].score /\ y[n].score = z[n].score
      /\ y[m].at = z[m].at /\ y[n].at = z[n].at
  BY <1>3 DEF Descends
<1> QED  BY <1>4, <1>5 DEF Above

(* What is shown stands in the references, and they were cited. *)
LEMMA ShownIsCited == IInv => ShownEvidenceIsCited
<1> SUFFICES ASSUME IInv, NEW r \in Requests, Written(r)
             PROVE  /\ \A k \in Keys : \A i \in ToSet(citations[r][k]) :
                         /\ i \in DOMAIN evidence /\ evidence[i] # None
                         /\ evidence[i].of = r
                    /\ \A k \in Keys : \A n \in DOMAIN Response(r)[k] :
                         \A q \in IdKeys :
                           ToSet(Response(r)[k][n].ids[q])
                             \subseteq ToSet(References(r, k))
  BY DEF ShownEvidenceIsCited
<1>1. \A k \in Keys : \A i \in ToSet(citations[r][k]) :
        /\ i \in DOMAIN evidence /\ evidence[i] # None
        /\ evidence[i].of = r
  BY DEF IInv, CitedInv
<1>2. \A k \in Keys : \A n \in DOMAIN Response(r)[k] : \A q \in IdKeys :
        ToSet(Response(r)[k][n].ids[q]) \subseteq ToSet(References(r, k))
  BY ShownItems
<1> QED  BY <1>1, <1>2

(* Reports are consistent: every id that is shown can be looked up and was
   retrieved for this report, evidence_count is the number of the sources
   cited, which is that of the rows only if no two of a section share a source,
   and rankings follow the scores and the order of the answer. *)
THEOREM ReportConsistentHolds == Spec => []ReportConsistent
<1>1. IInv => SourcesCounted
  BY EvidenceCounted DEF SourcesCounted
<1>2. IInv => ReportConsistent
  BY <1>1, RowsCounted, RankingsFollowScores, ShownIsCited
  DEF ReportConsistent, IInv
<1> QED  BY <1>2, Invariance, PTL

(* An observed value for which the model named evidence is shown with evidence
   or not at all, whatever was dropped on the way in and on the way out. *)
THEOREM ObservedIsSubstantiatedHolds == Spec => []ObservedIsSubstantiated
<1>1. IInv => ObservedIsSubstantiated
  <2> SUFFICES ASSUME IInv, NEW r \in Requests, Written(r),
                      NEW k \in {Market, Platform},
                      NEW n \in DOMAIN Response(r)[k],
                      Response(r)[k][n].observed,
                      LostEvidence(r, k, Response(r)[k][n])
               PROVE  Response(r)[k][n].score = None
    BY DEF ObservedIsSubstantiated
  <2> DEFINE y == report[r].sections[k]
             x == Response(r)[k]
  <2>1. k \in Keys /\ k # Target
    BY DEF Keys, Market, Target, Platform
  <2>2. n \in DOMAIN y /\ y # <<>>
    BY <2>1, ShownItems
  <2>3. PICK z \in Seq(Item) :
          Descends(k, x[n], y[n], z[n], Stated(r, k, x[n]))
    BY <2>1, <2>2, ShownItems
  <2>4. Lost(k, x[n], Stated(r, k, x[n]))
    BY <2>1 DEF Lost, LostEvidence
  <2> QED  BY <2>3, <2>4 DEF Descends
<1> QED  BY <1>1, Invariance, PTL

(* What was accepted when it was written is accepted when it is read, but for
   an observed platform or an observed point of a demand trend that has lost its
   value with its evidence. *)
THEOREM ReportReadableHolds == Spec => []ReportReadable
<1>1. IInv => ReportReadable
  <2> SUFFICES ASSUME IInv, NEW r \in Requests, Written(r),
                      \A k \in {Market, Platform} :
                        \A n \in DOMAIN Response(r)[k] :
                          LET x == Response(r)[k][n]
                          IN  ~(/\ x.observed /\ x.score = None
                                /\ LostEvidence(r, k, x)
                                /\ k = Market => x.required),
                      NEW k \in Keys
               PROVE  Validates(k, Response(r)[k])
    BY DEF ReportReadable, Readable
  <2> DEFINE y == report[r].sections[k]
             x == Response(r)[k]
  <2>1. x \in Seq(Item) /\ y \in Seq(Item) /\ DOMAIN x = DOMAIN y
    BY ShownItems
  <2>2. CASE y = <<>>
    <3> HIDE DEF x, y
    <3>1. x = <<>>
      BY <2>1, <2>2, EmptySeq, LenProperties
    <3> QED  BY <3>1, EmptyValid DEF x
  <2>3. CASE y # <<>>
    <3>1. PICK z \in Seq(Item) :
            /\ Validates(k, z) /\ DOMAIN z = DOMAIN y
            /\ \A n \in DOMAIN y :
                 Descends(k, x[n], y[n], z[n], Stated(r, k, x[n]))
      BY <2>3, ShownItems
    <3>2. \A n \in DOMAIN z : n - 1 \in DOMAIN z \/ ~(n > 1)
      BY <3>1, LenProperties
    <3>3. ASSUME NEW n \in DOMAIN z
          PROVE  \/ x[n].score = z[n].score
                 \/ k = Market /\ x[n].score = None /\ ~z[n].required
      <4> DEFINE w == Stated(r, k, x[n])
      <4>1. Descends(k, x[n], y[n], z[n], w) /\ n \in DOMAIN x
        BY <2>1, <3>1
      <4>2. CASE ~Lost(k, x[n], w)
        BY <4>1, <4>2 DEF Descends
      <4>3. CASE Lost(k, x[n], w)
        <5>1. x[n].score = None /\ x[n].required = z[n].required
          BY <4>1, <4>3 DEF Descends
        <5>2. x[n].observed /\ k # Target /\ LostEvidence(r, k, x[n])
          BY <4>3 DEF Lost, LostEvidence
        <5>3. k \in {Market, Platform}
          BY <5>2 DEF Keys
        <5>4. ~(k = Market => x[n].required)
          BY <4>1, <5>1, <5>2, <5>3
        <5> QED  BY <5>1, <5>4
      <4> QED  BY <4>2, <4>3
    <3> HIDE DEF x, y
    <3>4. \A n \in DOMAIN z :
            /\ x[n].rank = z[n].rank /\ x[n].parts = z[n].parts
            /\ x[n].weights = z[n].weights /\ x[n].required = z[n].required
            /\ \/ x[n].score = z[n].score
               \/ k = Market /\ x[n].score = None /\ ~z[n].required
      BY <3>1, <3>3 DEF Descends
    <3>5. Validates(k, x)
      BY <2>1, <3>1, <3>2, <3>4, StillValid
    <3> QED  BY <3>5 DEF x
  <2> QED  BY <2>2, <2>3
<1> QED  BY <1>1, Invariance, PTL
=============================================================================
