------------------------------ MODULE MCReport ------------------------------
(* A small instance of ReportContents for TLC: answers that vary one section
   and leave the others empty. *)
EXTENDS ReportContents, TLC
CONSTANTS even, skewed, whole

MCWeightings == {[name |-> even, sum |-> 1], [name |-> skewed, sum |-> 1],
                 [name |-> whole, sum |-> 2]}

(* Ids under the first key, under the second, or under both *)
Under(first, second) ==
  [q \in IdKeys |-> IF q = "evidenceIds" THEN first ELSE second]

MCItem(at, ids, observed, score, parts, weights) ==
  [at |-> at, ids |-> Under(ids, <<>>), observed |-> observed,
   required |-> FALSE, score |-> score, rank |-> 1, parts |-> parts,
   weights |-> weights]

Section(items) == [evidenceIds |-> <<1>>, items |-> items]
Only(k, items) ==
  [key \in Keys |-> IF key = k THEN Section(items)
                    ELSE [evidenceIds |-> <<>>, items |-> <<>>]]

Factors ==
  {MCItem(1, ids, TRUE, 4000, <<>>, None) :
     ids \in {<<>>, <<1>>, <<2, 2>>, <<1, 2>>, <<2, 3>>}}
    \cup {MCItem(1, <<1>>, FALSE, s, <<>>, None) : s \in {4000, MaxScore + 1}}
    \cup {[MCItem(1, <<1>>, TRUE, 4000, <<>>, None)
             EXCEPT !.ids = Under(<<1>>, <<2>>)]}

(* Points of a trend: with evidence under one key or the other, of a value of
   any size, with one that is null or a text. *)
Points(at) ==
  {[MCItem(at, <<>>, o, MaxScore + 1, <<>>, None)
      EXCEPT !.required = TRUE, !.ids = ids] :
     o \in BOOLEAN, ids \in {Under(<<2>>, <<>>), Under(<<1>>, <<3>>)}}
    \cup {[MCItem(at, <<>>, TRUE, v, <<>>, None) EXCEPT !.required = TRUE] :
            v \in {Text, None}}

Segments(at) ==
  {MCItem(at, <<2>>, TRUE, None, p, None) :
     p \in {<<50, 50, 50, 50>>, <<90, 90, 90, None>>, <<200, 90, 90, 10>>}}
    \cup {MCItem(at, <<>>, TRUE, s, <<>>, None) : s \in {Text, 5000}}

Platforms(at) ==
  {MCItem(at, <<>>, FALSE, 5000, <<4000>>, w) : w \in MCWeightings \cup {None}}
    \cup {MCItem(at, <<2>>, o, 4000, <<>>, None) : o \in BOOLEAN}
    \cup {MCItem(at, <<1, 2>>, TRUE, 5000, <<6000>>, None)}

(* The second of a list: of the same score or not, weighted alike or not. *)
Others(at) ==
  {MCItem(at, <<>>, TRUE, s, <<>>, None) : s \in {Text, 5000, 8000}}

Rivals(at) ==
  {MCItem(at, <<>>, FALSE, 5000, <<>>, None),
   MCItem(at, <<2>>, TRUE, 5000, <<4000>>, [name |-> even, sum |-> 1])}

MCAnswers ==
  {Only(Market, <<f>>) : f \in Factors \cup Points(1)}
    \cup {Only(Market, <<f, p>>) :
            f \in {MCItem(1, <<1>>, FALSE, s, <<>>, None) :
                     s \in {4000, MaxScore + 1}},
            p \in Points(2)}
    \cup {Only(Target, <<a, b>>) : a \in Segments(1), b \in Others(2)}
    \cup {Only(Platform, <<a, b>>) : a \in Platforms(1), b \in Rivals(2)}

Symmetry == Permutations(Requests)
=============================================================================
