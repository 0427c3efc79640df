----------------------------- MODULE MCAnalytics -----------------------------
(* Small instances of Analytics for TLC. *)
EXTENDS Analytics
CONSTANTS s1, s2

E(id, sid, at) == [id |-> id, sid |-> sid, at |-> at]

(* The same events in opposite orders, and one of them in the other session,
   which may be its second event. *)
MCBatches ==
  {<<E(1, s1, 1), E(2, s2, 1)>>, <<E(2, s2, 1), E(1, s1, 1)>>,
   <<E(2, s1, 2)>>}

(* A whole hour and a part of the next, and parts of two hours. *)
MCRanges == {<<0, 3>>, <<1, 3>>}
(* One event, in an hour that is whole. *)
MCOneBatch == {<<E(1, s1, 1)>>}
MCOneRange == {<<0, 2>>}
=============================================================================
