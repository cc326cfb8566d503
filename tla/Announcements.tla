---------------------------- MODULE Announcements ----------------------------
(***************************************************************************)
(* What the pair feed promises the trading core: a pair is announced as    *)
(* created once at most, and a pair that is in order is announced as       *)
(* created before it is announced as updated, and never as updated by an   *)
(* event older than one announced before.  A pair may fall out of order,   *)
(* for good.                                                               *)
(***************************************************************************)
EXTENDS Naturals

CONSTANTS
  Pairs,
  Events  \* the numbers of the events of the feed, in their order

VARIABLES
  created,  \* times each pair was announced as created
  updated,  \* the event of its last update, 0 when there is none
  inOrder   \* the pairs in order

announcementVars == <<created, updated, inOrder>>

Init ==
  /\ created = [p \in Pairs |-> 0]
  /\ updated = [p \in Pairs |-> 0]
  /\ inOrder = Pairs

Create(p) ==
  /\ created[p] = 0
  /\ created' = [created EXCEPT ![p] = 1]
  /\ UNCHANGED <<updated, inOrder>>

Update(p, n) ==
  /\ p \in inOrder => created[p] = 1 /\ updated[p] < n
  /\ updated' = [updated EXCEPT ![p] = n]
  /\ UNCHANGED <<created, inOrder>>

FallOutOfOrder ==
  /\ inOrder' \in SUBSET inOrder
  /\ UNCHANGED <<created, updated>>

Next ==
  \/ \E p \in Pairs : Create(p) \/ \E n \in Events : Update(p, n)
  \/ FallOutOfOrder

Spec == Init /\ [][Next]_announcementVars
=============================================================================
