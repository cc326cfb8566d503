------------------------- MODULE PersistedSetProofs -------------------------
(***************************************************************************)
(* Proofs about PersistedSet, for any keys: every step a user of the set   *)
(* can take keeps SetInv, which implies Survives.  Module                  *)
(* PairTrackingProofs instantiates them for the two sets of the bot.       *)
(***************************************************************************)
EXTENDS PersistedSet, TLAPS

\* A key out of trouble has at most one write under way, which is what the
\* callers want last, and none while the process starts.
OneWrite ==
  \A k \in Keys \ set.troubled :
    /\ \A op \in Ops : Pending(k, op) => (k \in set.intended <=> op = "create")
    /\ \A op \in Ops : set.writes[k][op] <= 1
    /\ set.loader # "done" => k \notin PendingKeys

\* What the process has of such a key before it is loaded.
Loading ==
  \A k \in Keys \ set.troubled :
    /\ set.loader = "read" => (k \in set.snapshot <=> k \in set.intended)
    /\ k \in set.memory => k \in set.intended

SetInv == SetType /\ Survives /\ OneWrite /\ Loading

-----------------------------------------------------------------------------
LEMMA InitSet ==
  ASSUME NEW table \in SUBSET Keys, SetInit(table) PROVE SetInv
  <1> DEFINE none == [k \in Keys |-> [op \in Ops |-> 0]]
  <1>0. {} \in SUBSET Keys /\ none \in [Keys -> [Ops -> Nat]]
    OBVIOUS
  <1> HIDE DEF none
  <1>1. set = [memory |-> {}, table |-> table, writes |-> none,
               loader |-> "reading", snapshot |-> {},
               intended |-> table, troubled |-> {}]
    BY DEF SetInit, none
  <1>2. SetType
    BY <1>0, <1>1 DEF SetType, Loaders
  <1>3. \A k \in Keys, op \in Ops : set.writes[k][op] = 0
    BY <1>1 DEF none
  <1>4. PendingKeys = {} /\ \A k \in Keys, op \in Ops : ~Pending(k, op)
    BY <1>3 DEF PendingKeys, Pending
  <1>5. Survives
    BY <1>1, <1>4 DEF Survives
  <1>6. OneWrite
    <2>1. \A k \in Keys, op \in Ops : set.writes[k][op] <= 1
      BY <1>3
    <2> QED BY <1>4, <2>1 DEF OneWrite
  <1>7. Loading
    BY <1>1 DEF Loading
  <1> QED BY <1>2, <1>5, <1>6, <1>7 DEF SetInv

\* A change of the keys ks.
LEMMA ChangeSet ==
  ASSUME NEW ks \in SUBSET Keys, NEW op \in Ops, SetInv, Change(ks, op)
  PROVE  /\ SetInv'
         /\ set'.intended = With(set.intended, ks, op)
         /\ set'.memory = With(set.memory, ks, op)
         /\ set'.loader = set.loader
         /\ set'.troubled \subseteq set.troubled \cup ks
  <1> DEFINE w == [k \in Keys |-> IF k \in ks THEN SendWrite(k, op)[k]
                                              ELSE set.writes[k]]
             m == With(set.memory, ks, op)
             i == With(set.intended, ks, op)
             t == IF set.loader = "done"
                  THEN (set.troubled \ ks) \cup (ks \cap PendingKeys)
                  ELSE set.troubled \cup ks
  <1>0. set \in [memory : SUBSET Keys, table : SUBSET Keys,
                 writes : [Keys -> [Ops -> Nat]],
                 loader : Loaders, snapshot : SUBSET Keys,
                 intended : SUBSET Keys, troubled : SUBSET Keys]
    BY DEF SetInv, SetType
  <1>1. \A k \in Keys : w[k] = IF k \in ks
                               THEN [set.writes[k] EXCEPT ![op] = @ + 1]
                               ELSE set.writes[k]
    BY <1>0 DEF SendWrite
  <1>2. w \in [Keys -> [Ops -> Nat]]
    <2>1. \A k \in Keys : set.writes[k] \in [Ops -> Nat]
      BY <1>0
    <2>2. \A k \in Keys : w[k] \in [Ops -> Nat]
      <3> SUFFICES ASSUME NEW k \in Keys PROVE w[k] \in [Ops -> Nat]
        OBVIOUS
      <3> DEFINE f == set.writes[k]
      <3>1. f \in [Ops -> Nat]
        BY <2>1
      <3> HIDE DEF f
      <3>2. [f EXCEPT ![op] = @ + 1] \in [Ops -> Nat]
        BY <3>1
      <3> QED BY <1>1, <3>1, <3>2 DEF f
    <2> QED BY <2>2
  <1>b. \A k \in Keys, o \in Ops :
          /\ set.writes[k][o] \in Nat
          /\ k \in ks => w[k][o] = IF o = op THEN set.writes[k][o] + 1
                                            ELSE set.writes[k][o]
    <2> SUFFICES ASSUME NEW k \in Keys, NEW o \in Ops
                 PROVE  /\ set.writes[k][o] \in Nat
                        /\ k \in ks => w[k][o] = IF o = op
                                                THEN set.writes[k][o] + 1
                                                ELSE set.writes[k][o]
      OBVIOUS
    <2> DEFINE f == set.writes[k]
    <2>1. f \in [Ops -> Nat]
      BY <1>0
    <2>2. k \in ks => w[k] = [f EXCEPT ![op] = @ + 1]
      BY <1>1
    <2> HIDE DEF f
    <2>3. f[o] \in Nat /\ (k \in ks => w[k][o] = IF o = op THEN f[o] + 1
                                                        ELSE f[o])
      BY <2>1, <2>2
    <2> QED BY <2>3 DEF f
  <1>3. PendingKeys \in SUBSET Keys
    BY DEF PendingKeys
  <1>4. m \in SUBSET Keys /\ i \in SUBSET Keys /\ t \in SUBSET Keys
    BY <1>0, <1>3 DEF With
  <1>5. set' = [set EXCEPT !.memory = m, !.intended = i, !.writes = w,
                           !.troubled = t]
    BY DEF Change, Changed
  <1>6. /\ t \subseteq set.troubled \cup ks
        /\ \A k \in Keys \ t : k \in ks =>
             set.loader = "done" /\ k \notin PendingKeys
        /\ \A k \in Keys \ t : k \notin ks => k \notin set.troubled
        /\ \A k \in Keys : k \in m <=> IF k \in ks THEN op = "create"
                                                   ELSE k \in set.memory
        /\ \A k \in Keys : k \in i <=> IF k \in ks THEN op = "create"
                                                   ELSE k \in set.intended
    BY DEF With
  <1>a. m = With(set.memory, ks, op) /\ i = With(set.intended, ks, op)
    OBVIOUS
  <1> HIDE DEF w, m, i, t
  <1>7. /\ set'.memory = m /\ set'.intended = i /\ set'.writes = w
        /\ set'.troubled = t /\ set'.loader = set.loader
        /\ set'.snapshot = set.snapshot /\ set'.table = set.table
    BY <1>0, <1>5
  <1>8. SetType'
    BY <1>0, <1>2, <1>4, <1>5 DEF SetType
  <1>9. \A k \in Keys : (k \in PendingKeys)' <=>
          IF k \in ks THEN TRUE ELSE k \in PendingKeys
    <2> TAKE k \in Keys
    <2>1. CASE k \in ks
      <3>1. w[k][op] = set.writes[k][op] + 1
        BY <1>b, <2>1
      <3>2. w[k][op] > 0
        BY <1>b, <3>1
      <3> QED BY <1>7, <2>1, <3>2 DEF PendingKeys, Pending
    <2>2. CASE k \notin ks
      BY <1>1, <1>7, <2>2 DEF PendingKeys, Pending
    <2> QED BY <2>1, <2>2
  <1>10. Survives'
    BY <1>6, <1>7, <1>9 DEF SetInv, Survives
  <1>11. Loading'
    BY <1>6, <1>7 DEF SetInv, Loading
  <1>12. OneWrite'
    <2> SUFFICES ASSUME NEW k \in Keys \ t
                 PROVE  /\ \A o \in Ops : w[k][o] > 0 => (k \in i <=> o = "create")
                        /\ \A o \in Ops : w[k][o] <= 1
                        /\ set.loader # "done" => (k \notin PendingKeys)'
      BY <1>7 DEF OneWrite, Pending
    <2>1. CASE k \in ks
      <3>1. \A o \in Ops : set.writes[k][o] = 0
        BY <1>b, <1>6, <2>1 DEF PendingKeys, Pending
      <3>2. \A o \in Ops : w[k][o] = IF o = op THEN 1 ELSE 0
        BY <1>b, <2>1, <3>1
      <3>3. \A o \in Ops : w[k][o] <= 1
        BY <3>2
      <3>4. \A o \in Ops : w[k][o] > 0 => o = op
        BY <3>2
      <3> QED BY <1>6, <2>1, <3>3, <3>4
    <2>2. CASE k \notin ks
      <3>1. w[k] = set.writes[k] /\ k \notin set.troubled
        BY <1>1, <1>6, <2>2
      <3> QED BY <1>6, <1>9, <2>2, <3>1 DEF SetInv, OneWrite, Pending
    <2> QED BY <2>1, <2>2
  <1> QED BY <1>6, <1>7, <1>8, <1>10, <1>11, <1>12, <1>a DEF SetInv

-----------------------------------------------------------------------------
(* The database and the loader                                             *)

\* What is left of the writes when one of them is over.
LEMMA OneLess ==
  ASSUME NEW k \in Keys, NEW op \in Ops, SetType, Pending(k, op)
  PROVE  LET w == [set.writes EXCEPT ![k][op] = @ - 1] IN
         /\ w \in [Keys -> [Ops -> Nat]]
         /\ \A j \in Keys, o \in Ops :
              w[j][o] = IF j = k /\ o = op THEN set.writes[j][o] - 1
                                           ELSE set.writes[j][o]
  <1> DEFINE w == [set.writes EXCEPT ![k][op] = @ - 1]
             f == set.writes[k]
             g == [f EXCEPT ![op] = @ - 1]
  <1>0. set.writes \in [Keys -> [Ops -> Nat]]
    BY DEF SetType
  <1>1. f \in [Ops -> Nat] /\ f[op] > 0
    BY <1>0 DEF Pending
  <1>2. w = [set.writes EXCEPT ![k] = g]
    OBVIOUS
  <1>a. set.writes[k] = f
    OBVIOUS
  <1> HIDE DEF f
  <1>3. g \in [Ops -> Nat]
    <2>1. f[op] - 1 \in Nat
      BY <1>1
    <2> QED BY <1>1, <2>1
  <1>4. \A o \in Ops : g[o] = IF o = op THEN f[o] - 1 ELSE f[o]
    BY <1>1
  <1> HIDE DEF g
  <1>5. \A j \in Keys : w[j] = IF j = k THEN g ELSE set.writes[j]
    BY <1>0, <1>2
  <1>6. w \in [Keys -> [Ops -> Nat]]
    BY <1>0, <1>2, <1>3
  <1> QED BY <1>4, <1>5, <1>6, <1>a

\* No step of the database takes an element away, or one that was safe.
Kept ==
  /\ set'.intended = set.intended /\ set.memory \subseteq set'.memory
  /\ set.troubled \subseteq set'.troubled
  /\ \A k \in Keys : k \in set.intended /\ k \notin set.troubled
                       => k \in set'.memory \/ k \notin set'.troubled

LEMMA WriteArrivesSet ==
  ASSUME NEW k \in Keys, NEW op \in Ops, SetInv, WriteArrives(k, op)
  PROVE  SetInv' /\ Kept
  <1> DEFINE w == [set.writes EXCEPT ![k][op] = @ - 1]
             t == With(set.table, {k}, op)
  <1>0. set \in [memory : SUBSET Keys, table : SUBSET Keys,
                 writes : [Keys -> [Ops -> Nat]],
                 loader : Loaders, snapshot : SUBSET Keys,
                 intended : SUBSET Keys, troubled : SUBSET Keys]
    BY DEF SetInv, SetType
  <1>1. set' = [set EXCEPT !.table = t, !.writes = w] /\ Pending(k, op)
    BY <1>0 DEF WriteArrives
  <1>2. t \in SUBSET Keys
        /\ \A j \in Keys : j \in t <=> IF j = k THEN op = "create"
                                               ELSE j \in set.table
    BY <1>0 DEF With
  <1> HIDE DEF w, t
  <1>3. /\ w \in [Keys -> [Ops -> Nat]]
        /\ \A j \in Keys, o \in Ops :
             w[j][o] = IF j = k /\ o = op THEN set.writes[j][o] - 1
                                          ELSE set.writes[j][o]
    <2>1. w = [set.writes EXCEPT ![k][op] = @ - 1]
      BY DEF w
    <2>2. SetType
      BY DEF SetInv
    <2>3. Pending(k, op)
      BY <1>1
    <2> QED BY <2>1, <2>2, <2>3, OneLess
  <1>4. /\ set'.memory = set.memory /\ set'.intended = set.intended
        /\ set'.troubled = set.troubled /\ set'.loader = set.loader
        /\ set'.snapshot = set.snapshot
        /\ set'.table = t /\ set'.writes = w
    BY <1>0, <1>1
  <1>5. SetType'
    BY <1>0, <1>1, <1>2, <1>3 DEF SetType
  <1>6. \A j \in Keys, o \in Ops : /\ set.writes[j][o] \in Nat
                                   /\ w[j][o] <= set.writes[j][o]
    <2>1. \A j \in Keys, o \in Ops : set.writes[j][o] \in Nat
      BY <1>0
    <2> QED BY <1>3, <2>1
  <1>7. \A j \in Keys : (j \in PendingKeys)' => j \in PendingKeys
    <2>1. \A j \in Keys, o \in Ops : w[j][o] > 0 => set.writes[j][o] > 0
      BY <1>3, <1>6
    <2> QED BY <1>4, <2>1 DEF PendingKeys, Pending
  <1>8. \A j \in Keys : j # k /\ j \in PendingKeys => (j \in PendingKeys)'
    BY <1>3, <1>4 DEF PendingKeys, Pending
  <1>9. OneWrite'
    <2>1. \A j \in Keys, o \in Ops : w[j][o] > 0 => set.writes[j][o] > 0
      BY <1>3, <1>6
    <2>2. \A j \in Keys, o \in Ops :
            set.writes[j][o] <= 1 => w[j][o] <= 1
      BY <1>3, <1>6
    <2> QED BY <1>4, <1>7, <2>1, <2>2 DEF SetInv, OneWrite, Pending
  <1>10. Loading'
    BY <1>4 DEF SetInv, Loading
  <1>11. Survives'
    <2>1. k \notin set.troubled => (op = "create" <=> k \in set.intended)
      BY <1>1 DEF SetInv, OneWrite
    <2> QED BY <1>2, <1>4, <1>8, <2>1 DEF SetInv, Survives
  <1>12. Kept
    BY <1>4 DEF Kept
  <1> QED BY <1>5, <1>9, <1>10, <1>11, <1>12 DEF SetInv

LEMMA WriteFailsSet ==
  ASSUME NEW k \in Keys, NEW op \in Ops, SetInv, WriteFails(k, op)
  PROVE  SetInv' /\ Kept
  <1> DEFINE w == [set.writes EXCEPT ![k][op] = @ - 1]
  <1>0. set \in [memory : SUBSET Keys, table : SUBSET Keys,
                 writes : [Keys -> [Ops -> Nat]],
                 loader : Loaders, snapshot : SUBSET Keys,
                 intended : SUBSET Keys, troubled : SUBSET Keys]
    BY DEF SetInv, SetType
  <1>1. set' = [set EXCEPT !.writes = w, !.troubled = @ \cup {k}]
        /\ Pending(k, op)
    BY <1>0 DEF WriteFails
  <1> HIDE DEF w
  <1>3. /\ w \in [Keys -> [Ops -> Nat]]
        /\ \A j \in Keys, o \in Ops :
             w[j][o] = IF j = k /\ o = op THEN set.writes[j][o] - 1
                                          ELSE set.writes[j][o]
    <2>1. w = [set.writes EXCEPT ![k][op] = @ - 1]
      BY DEF w
    <2>2. SetType
      BY DEF SetInv
    <2>3. Pending(k, op)
      BY <1>1
    <2> QED BY <2>1, <2>2, <2>3, OneLess
  <1>4. /\ set'.memory = set.memory /\ set'.intended = set.intended
        /\ set'.troubled = set.troubled \cup {k} /\ set'.loader = set.loader
        /\ set'.snapshot = set.snapshot
        /\ set'.table = set.table /\ set'.writes = w
    BY <1>0, <1>1
  <1>5. SetType'
    <2>1. set.troubled \cup {k} \in SUBSET Keys
      BY <1>0
    <2> QED BY <1>0, <1>1, <1>3, <2>1 DEF SetType
  <1>6. \A j \in Keys \ {k} : /\ w[j] = set.writes[j]
                              /\ (j \in PendingKeys)' <=> j \in PendingKeys
    <2>1. \A j \in Keys \ {k} : w[j] = set.writes[j]
      BY <1>0 DEF w
    <2> QED BY <1>4, <2>1 DEF PendingKeys, Pending
  <1>7. Survives' /\ Loading'
    BY <1>4, <1>6 DEF SetInv, Survives, Loading
  <1>8. OneWrite'
    BY <1>4, <1>6 DEF SetInv, OneWrite, Pending
  <1>9. Kept
    <2>1. k \in set.intended /\ k \notin set.troubled => k \in set.memory
      <3>1. k \in PendingKeys
        BY <1>1 DEF PendingKeys
      <3> QED BY <3>1 DEF SetInv, OneWrite, Survives
    <2> QED BY <1>4, <2>1 DEF Kept
  <1> QED BY <1>5, <1>7, <1>8, <1>9 DEF SetInv

LEMMA LoadSet == ASSUME SetInv, LoadReads \/ LoadAdds PROVE SetInv' /\ Kept
  <1>0. set \in [memory : SUBSET Keys, table : SUBSET Keys,
                 writes : [Keys -> [Ops -> Nat]],
                 loader : Loaders, snapshot : SUBSET Keys,
                 intended : SUBSET Keys, troubled : SUBSET Keys]
    BY DEF SetInv, SetType
  <1>1. /\ set'.intended = set.intended /\ set'.troubled = set.troubled
        /\ set'.table = set.table /\ set'.writes = set.writes
        /\ set'.loader \in Loaders
        /\ \/ /\ set.loader = "reading" /\ set'.loader = "read"
              /\ set'.snapshot = set.table /\ set'.memory = set.memory
           \/ /\ set.loader = "reading" /\ set'.loader = "failed"
              /\ set'.snapshot = set.snapshot /\ set'.memory = set.memory
           \/ /\ set.loader = "read" /\ set'.loader = "done"
              /\ set'.snapshot = {}
              /\ set'.memory = set.memory \cup set.snapshot
    BY <1>0 DEF LoadReads, LoadAdds, Loaders
  <1>2. SetType'
    <2>1. LoadReads \/ LoadAdds
      OBVIOUS
    <2>2. {} \in SUBSET Keys /\ set.memory \cup set.snapshot \in SUBSET Keys
      BY <1>0
    <2> QED BY <1>0, <2>1, <2>2 DEF SetType, LoadReads, LoadAdds, Loaders
  <1>3. PendingKeys' = PendingKeys
        /\ \A k \in Keys, op \in Ops : Pending(k, op)' <=> Pending(k, op)
    BY <1>1 DEF PendingKeys, Pending
  <1>4. Survives'
    BY <1>1, <1>3 DEF SetInv, Survives, Loading
  <1>5. OneWrite'
    BY <1>1, <1>3 DEF SetInv, OneWrite
  <1>6. Loading'
    <2>1. set.loader = "reading" => \A k \in Keys \ set.troubled :
            k \in set.table <=> k \in set.intended
      BY DEF SetInv, OneWrite, Survives
    <2> QED BY <1>1, <2>1 DEF SetInv, Loading
  <1>7. Kept
    BY <1>1 DEF Kept
  <1> QED BY <1>2, <1>4, <1>5, <1>6, <1>7 DEF SetInv

LEMMA PersistSet == ASSUME SetInv, Persist PROVE SetInv' /\ Kept
  BY WriteArrivesSet, WriteFailsSet, LoadSet DEF Persist

LEMMA StillSet == ASSUME SetInv, UNCHANGED set PROVE SetInv'
  BY DEF SetInv, SetType, Survives, OneWrite, Loading, PendingKeys, Pending

LEMMA RestartSet ==
  ASSUME SetInv, set' = Restarted
  PROVE  SetInv' /\ set'.intended = set.intended
  <1>0. set \in [memory : SUBSET Keys, table : SUBSET Keys,
                 writes : [Keys -> [Ops -> Nat]],
                 loader : Loaders, snapshot : SUBSET Keys,
                 intended : SUBSET Keys, troubled : SUBSET Keys]
    BY DEF SetInv, SetType
  <1>1. {} \in SUBSET Keys /\ set.troubled \cup PendingKeys \in SUBSET Keys
        /\ "reading" \in Loaders
    BY <1>0 DEF PendingKeys, Loaders
  <1>2. SetType'
    BY <1>0, <1>1 DEF SetType, Restarted
  <1>3. /\ set'.memory = {} /\ set'.intended = set.intended
        /\ set'.troubled = set.troubled \cup PendingKeys
        /\ set'.loader = "reading" /\ set'.table = set.table
        /\ set'.writes = set.writes
    BY <1>0 DEF Restarted
  <1>4. PendingKeys' = PendingKeys
        /\ \A k \in Keys, op \in Ops : Pending(k, op)' <=> Pending(k, op)
    BY <1>3 DEF PendingKeys, Pending
  <1>5. Survives' /\ Loading'
    BY <1>3, <1>4 DEF SetInv, Survives, Loading
  <1>6. OneWrite'
    BY <1>3, <1>4 DEF SetInv, OneWrite
  <1> QED BY <1>2, <1>3, <1>5, <1>6 DEF SetInv
=============================================================================
